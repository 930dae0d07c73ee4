-------------------------------- MODULE Swarm --------------------------------
(***************************************************************************)
(* The swarm actor of a node or client (node/hashgram-p2p/src/swarm.rs):   *)
(* connections counted by limits.rs, the handshake that admits a peer,     *)
(* requests queued until it is admitted, scores and bans (score.rs), the   *)
(* peer file (peerstore.rs), liveness probes and redials, and the events   *)
(* the application (sdk link.rs, node app.rs) builds its peer list from.   *)
(*                                                                         *)
(* One actor handles one event, command or tick at a time.  libp2p is the  *)
(* environment: connections open, close, or die without a word; a close    *)
(* the actor asked for arrives later, and what was received before it is   *)
(* still delivered.  A tick is the unit of time, and every timeout is one. *)
(***************************************************************************)
EXTENDS Integers, FiniteSets, Sequences

CONSTANTS Peers, Genuine,         \* the peers, and those of our network
          Requests,               \* requests the application makes
          MaxPerPeer, MaxPerSubnet, MaxInbound, MaxOutbound, MinPeers,
          Burst,                  \* RATE_BURST
          QueueCap,               \* the event channel's capacity
          BanTicks,               \* BAN_DURATION
          BanThreshold,           \* BAN_THRESHOLD
          DecayPercent            \* DECAY_PERCENT, per tick

ASSUME SwarmAssumption == IsFiniteSet(Peers) /\ Genuine \subseteq Peers

VARIABLES ssc, conn, dialing, limits, connected, verified, unverified, shaking,
          rejecting, banned, score, pings, probed, tokens, known, queued,
          pending, answered, events, app, env

swarmVars == <<ssc, conn, dialing, limits, connected, verified, unverified, shaking, rejecting,
          banned, score, pings, probed, tokens, known, queued, pending, answered, events, app, env>>

Slots == {1, 2}
\* A slot of a peer: no connection, or one with its direction, whether the
\* limits counted it, whether it still carries bytes and whether it is
\* being closed.
Free == [dir |-> "none", counted |-> FALSE, live |-> FALSE, closing |-> FALSE]
OpenSlots(p) == {s \in Slots : conn[p][s] # Free}
LiveSlots(p) == {s \in OpenSlots(p) : conn[p][s].live}

\* Requests waiting for a peer, and how long the first has waited.
NoQueue == [reqs |-> {}, age |-> "none"]

SwarmInit(scenarios) ==
  /\ ssc \in scenarios
  /\ conn = [p \in Peers |-> [s \in Slots |-> Free]]
  /\ dialing = {}
  /\ limits = [peer |-> [p \in Peers |-> 0], in |-> 0, out |-> 0]
  /\ connected = {} /\ verified = {}
  /\ unverified = [p \in Peers |-> "none"]     \* none, fresh, aged
  /\ shaking = [p \in Peers |-> 0]             \* handshakes we sent
  /\ rejecting = [p \in Peers |-> "none"]      \* none, fresh, aged
  /\ banned = [p \in Peers |-> 0]
  /\ score = [p \in Peers |-> 0]
  /\ pings = [p \in Peers |-> 0]
  /\ probed = {}                               \* one probe a tick
  /\ tokens = [p \in Peers |-> Burst]
  /\ known = {}
  /\ queued = [p \in Peers |-> NoQueue]
  /\ pending = {}
  /\ answered = [r \in Requests |-> "no"]
  /\ events = <<>>
  /\ app = [peers |-> {}, served |-> {}, missed |-> FALSE, struck |-> {}]
  /\ env = [faults |-> ssc.faults, asks |-> ssc.asks]

MayDo(op) == op \in ssc.ops
Banned(p) == banned[p] > 0
Spend(k) == env[k] > 0 /\ env' = [env EXCEPT ![k] = @ - 1]
\* What only a fault brings about, unless cause makes it happen anyway.
FaultUnless(cause) == IF cause THEN UNCHANGED env ELSE Spend("faults")

(***************************************************************************)
(* Pieces the handlers share.  A handler computes the next actor state as  *)
(* a record of the variables it may touch and installs it.                 *)
(***************************************************************************)
Now == [conn |-> conn, dialing |-> dialing, limits |-> limits, connected |-> connected,
        verified |-> verified, unverified |-> unverified, shaking |-> shaking,
        rejecting |-> rejecting, banned |-> banned, score |-> score, pings |-> pings, probed |-> probed,
        tokens |-> tokens, known |-> known, queued |-> queued, pending |-> pending,
        answered |-> answered, events |-> events, missed |-> app.missed, struck |-> app.struck]
Become(next) == \E n \in {next} :
  /\ conn' = n.conn /\ dialing' = n.dialing /\ limits' = n.limits
  /\ connected' = n.connected /\ verified' = n.verified /\ unverified' = n.unverified
  /\ shaking' = n.shaking /\ rejecting' = n.rejecting /\ banned' = n.banned
  /\ score' = n.score /\ pings' = n.pings /\ probed' = n.probed /\ tokens' = n.tokens /\ known' = n.known
  /\ queued' = n.queued /\ pending' = n.pending /\ answered' = n.answered
  /\ events' = n.events
  /\ app' = [app EXCEPT !.missed = n.missed, !.struck = n.struck]
  /\ UNCHANGED ssc

\* try_send: a full channel loses the event.
Emit(n, e) ==
  IF Len(n.events) < QueueCap THEN [n EXCEPT !.events = Append(@, e)]
  ELSE [n EXCEPT !.missed = TRUE]
Reply(n, rs, a) ==
  [n EXCEPT !.answered = [r \in Requests |-> IF r \in rs THEN a ELSE @[r]]]
FailQueued(n, p) == [Reply(n, n.queued[p].reqs, "failed") EXCEPT !.queued[p] = NoQueue]
Disconnect(n, p) ==
  [n EXCEPT !.conn[p] = [s \in Slots |-> IF @[s] = Free THEN Free ELSE [@[s] EXCEPT !.closing = TRUE]]]
Ban(n, p) ==
  Disconnect([n EXCEPT !.banned[p] = BanTicks, !.known = @ \ {p}, !.verified = @ \ {p},
                          !.struck = @ \cup {p}], p)
Weight(e) ==
  CASE e = "HandshakeSucceeded" -> 5 [] e = "RequestAnswered" -> 2
    [] e = "RequestTimedOut" -> -2 [] e = "MalformedFrame" -> -10
    [] e = "RateLimitExceeded" -> -15 [] e = "HandshakeFailed" -> -30
    [] e = "InvalidSignature" -> -50
Clamp(x) == IF x < -200 THEN -200 ELSE IF x > 100 THEN 100 ELSE x
Score(n, p, e) ==
  LET m == [n EXCEPT !.score[p] = Clamp(@ + Weight(e))]
  IN IF m.score[p] <= BanThreshold /\ m.banned[p] = 0 THEN Ban(m, p) ELSE m
Reject(n, p, why) ==
  LET m == Emit(FailQueued(Score(n, p, "HandshakeFailed"), p), <<"rejected", p>>)
  IN IF why \in {"transport", "timeout"} THEN Disconnect(m, p) ELSE Ban(m, p)

\* send_request: to an admitted peer at once; a banned peer is refused; to
\* any other it waits, dialling when there is no connection.
SendRequest(n, r, p) ==
  IF p \in n.verified THEN [n EXCEPT !.pending = @ \cup {<<r, p>>}]
  ELSE IF n.banned[p] > 0 THEN Reply(n, {r}, "failed")
  ELSE [n EXCEPT !.queued[p] = [reqs |-> @.reqs \cup {r},
                                  age |-> IF @.reqs = {} THEN "fresh" ELSE @.age],
                 !.dialing = IF p \in n.connected \/ \E s \in Slots : n.conn[p][s] # Free
                             THEN @ ELSE @ \cup {p}]
FlushQueued(n, p) ==
  LET sent == n.queued[p].reqs
      m == [n EXCEPT !.queued[p] = NoQueue]
  IN IF p \in m.verified THEN [m EXCEPT !.pending = @ \cup {<<r, p>> : r \in sent}]
     ELSE Reply(m, sent, "failed")

\* verify: admit, and tell the application unless it already knows.
Verify(n, p) ==
  LET a == [n EXCEPT !.unverified[p] = "none", !.verified = @ \cup {p}]
      b == Score(a, p, "HandshakeSucceeded")
      c == Emit([b EXCEPT !.known = @ \cup {p}], <<"verified", p>>)
  IN IF p \in n.verified THEN a ELSE FlushQueued(c, p)

(***************************************************************************)
(* Connections.  Every peer is in one subnet here, so the subnet count is  *)
(* the sum of both directions.                                             *)
(***************************************************************************)
Allows(p, dir) ==
  /\ ~Banned(p)
  /\ limits.peer[p] < MaxPerPeer
  /\ IF dir = "in" THEN limits.in + limits.out < MaxPerSubnet /\ limits.in < MaxInbound
     ELSE limits.out < MaxOutbound
\* limits.established and limits.closed, which subtracts down to zero.
Established(l, p, dir) == [l EXCEPT !.peer[p] = @ + 1, ![dir] = @ + 1]
Closed(l, p, dir) ==
  [l EXCEPT !.peer[p] = IF @ = 0 THEN 0 ELSE @ - 1, ![dir] = IF @ = 0 THEN 0 ELSE @ - 1]
OnConnected(p, s, dir) ==
  LET ok == Allows(p, dir)
      a == [Now EXCEPT !.conn[p][s] = [dir |-> dir, counted |-> ok, live |-> TRUE, closing |-> ~ok],
                       !.dialing = IF dir = "out" THEN @ \ {p} ELSE @]
      b == [a EXCEPT !.limits = Established(@, p, dir),
                     !.connected = IF OpenSlots(p) = {} THEN @ \cup {p} ELSE @]
  IN IF ~ok THEN a
     ELSE IF p \in verified THEN b
     ELSE [b EXCEPT !.unverified[p] = IF @ = "none" THEN "fresh" ELSE @,
                    !.shaking[p] = IF dir = "out" THEN @ + 1 ELSE @]
\* libp2p reports what a closed connection left unanswered before it
\* reports the next connection of that peer.
Settled(p) == OpenSlots(p) = {} => shaking[p] = 0 /\ \A r \in Requests : <<r, p>> \notin pending
DialSucceeds(p) ==
  /\ p \in dialing /\ Settled(p) /\ \E s \in Slots : conn[p][s] = Free
                        /\ Become(OnConnected(p, s, "out"))
  /\ UNCHANGED env
DialFails(p) ==
  /\ p \in dialing /\ Spend("faults")
  /\ Become(FailQueued([Now EXCEPT !.dialing = @ \ {p}], p))
PeerDials(p) ==
  /\ p \in ssc.guests /\ Settled(p) /\ Spend("asks")
  /\ \E s \in Slots : conn[p][s] = Free /\ Become(OnConnected(p, s, "in"))

\* limits.closed is for connections it counted; a refused one is only
\* dropped from the refused set.
DebitsAlways(c) == TRUE
Debits(c) == c.counted
Gone(n, p) == IF p \in verified THEN Emit(n, <<"disconnected", p>>) ELSE n
OnClosed(p, s) ==
  LET c == conn[p][s]
      a == [Now EXCEPT !.conn[p][s] = Free]
      b == IF Debits(c)
           THEN [a EXCEPT !.limits = Closed(@, p, c.dir)] ELSE a
      d == [b EXCEPT !.connected = @ \ {p}, !.unverified[p] = "none", !.pings[p] = 0,
                     !.tokens[p] = Burst, !.verified = @ \ {p}]
  IN IF OpenSlots(p) = {s} THEN FailQueued(Gone(d, p), p) ELSE b
Closes(p, s) ==
  /\ s \in OpenSlots(p) /\ FaultUnless(conn[p][s].closing)
  /\ Become(OnClosed(p, s))
\* A connection dies without a close: an adapter change, a lost route.
Dies(p, s) ==
  /\ s \in LiveSlots(p) /\ MayDo("die") /\ Spend("faults")
  /\ conn' = [conn EXCEPT ![p][s].live = FALSE]
  /\ UNCHANGED <<ssc, dialing, limits, connected, verified, unverified, shaking, rejecting, banned,
                 score, pings, probed, tokens, known, queued, pending, answered, events, app>>

(***************************************************************************)
(* The handshake.                                                          *)
(***************************************************************************)
HandshakeRequest(p) ==
  /\ \E s \in LiveSlots(p) : conn[p][s].dir = "in"
  /\ p \notin verified /\ rejecting[p] = "none"
  /\ IF p \in Genuine THEN Become(Verify(Now, p))
     ELSE \E malformed \in BOOLEAN :
            Become([IF malformed THEN Score(Now, p, "MalformedFrame") ELSE Now
                      EXCEPT !.rejecting[p] = "fresh"])
  /\ UNCHANGED env
RejectAckSent(p) ==
  /\ rejecting[p] = "fresh" /\ LiveSlots(p) # {}
  /\ Become([Now EXCEPT !.rejecting[p] = "aged"])
  /\ UNCHANGED env
HandshakeResponse(p) ==
  /\ shaking[p] > 0 /\ LiveSlots(p) # {}
  /\ LET n == [Now EXCEPT !.shaking[p] = @ - 1]
     IN Become(IF p \in Genuine THEN Verify(n, p) ELSE Reject(n, p, "fork"))
  /\ UNCHANGED env
HandshakeFails(p) ==
  /\ shaking[p] > 0 /\ FaultUnless(LiveSlots(p) = {})
  /\ Become(Reject([Now EXCEPT !.shaking[p] = @ - 1], p, "transport"))

(***************************************************************************)
(* Requests, both ways, and what the application does with events.         *)
(***************************************************************************)
AskPeer(r, p) ==
  /\ MayDo("ask") /\ p \in ssc.boot \cup ssc.guests /\ answered[r] = "no"
  /\ Become(SendRequest([Now EXCEPT !.answered[r] = "waiting"], r, p))
  /\ UNCHANGED env
ResponseArrives(r, p) ==
  /\ <<r, p>> \in pending /\ LiveSlots(p) # {}
  /\ Become(Reply(Score([Now EXCEPT !.pending = @ \ {<<r, p>>}], p, "RequestAnswered"), {r}, "ok"))
  /\ UNCHANGED env
RequestFails(r, p) ==
  /\ <<r, p>> \in pending /\ FaultUnless(LiveSlots(p) = {})
  /\ Become(Reply(Score([Now EXCEPT !.pending = @ \ {<<r, p>>}], p, "RequestTimedOut"), {r}, "failed"))

Admits(p) == p \in verified /\ rejecting[p] = "none"
\* take_token, then on to the application.
Inbound(p, kind) ==
  /\ MayDo("inbound") /\ LiveSlots(p) # {} /\ Spend("asks")
  /\ IF ~Admits(p) /\ (kind = "request" \/ p \notin verified)
     THEN Become(Now)
     ELSE IF tokens[p] = 0 THEN Become(Score(Now, p, "RateLimitExceeded"))
     ELSE Become(Emit([Now EXCEPT !.tokens[p] = @ - 1], <<kind, p>>))
\* The application takes one event: Link's peer list, the node's handlers,
\* and its verdict on gossip.
AppStep ==
  /\ events # <<>>
  /\ LET e == Head(events)
         n == [Now EXCEPT !.events = Tail(@)]
     IN /\ \E bad \in IF e[1] = "gossip" THEN BOOLEAN ELSE {FALSE} :
             LET m == IF bad THEN Score(n, e[2], "InvalidSignature") ELSE n
             IN /\ conn' = m.conn /\ verified' = m.verified /\ banned' = m.banned
                /\ score' = m.score /\ known' = m.known /\ events' = m.events
                /\ app' = [app EXCEPT !.struck = m.struck,
                      !.peers = IF e[1] = "verified" THEN @ \cup {e[2]}
                                ELSE IF e[1] = "disconnected" THEN @ \ {e[2]} ELSE @,
                      !.served = IF e[1] = "request" THEN @ \cup {e[2]} ELSE @]
  /\ UNCHANGED <<ssc, dialing, limits, connected, unverified, shaking, rejecting, pings, probed, tokens,
                 queued, pending, answered, env>>
AppBans(p) ==
  /\ MayDo("ban") /\ p \in ssc.boot \cup ssc.guests /\ ~Banned(p) /\ Spend("faults")
  /\ Become(Ban(Now, p))

(***************************************************************************)
(* Probes and the tick.                                                    *)
(***************************************************************************)
PingStreakEnds(k) == k >= 3
PingFails(p) ==
  /\ p \in connected \ probed /\ FaultUnless(LiveSlots(p) = {})
  /\ LET n == [Score(Now, p, "RequestTimedOut") EXCEPT !.probed = @ \cup {p}]
     IN Become(IF p \notin n.verified THEN n
               ELSE IF PingStreakEnds(n.pings[p] + 1) THEN Disconnect([n EXCEPT !.pings[p] = 0], p)
               ELSE [n EXCEPT !.pings[p] = IF @ < 3 THEN @ + 1 ELSE 3])
PingOk(p) ==
  /\ LiveSlots(p) # {} /\ pings[p] > 0
  /\ Become([Now EXCEPT !.pings[p] = 0])
  /\ UNCHANGED env

Age(a) == IF a = "fresh" THEN "aged" ELSE a
Decay(x) ==
  LET step == IF x = 0 THEN 0 ELSE LET t == ((IF x < 0 THEN -x ELSE x) * DecayPercent) \div 100 IN IF t < 1 THEN 1 ELSE t
  IN IF x < 0 THEN x + step ELSE x - step
TickPeer(n, p) ==
  LET a == IF n.unverified[p] = "aged"
           THEN Reject([n EXCEPT !.unverified[p] = "none"], p, "timeout") ELSE n
      b == IF a.rejecting[p] = "aged"
           THEN Reject([a EXCEPT !.rejecting[p] = "none"], p, "fork") ELSE a
      c == IF b.queued[p].age = "aged" THEN FailQueued(b, p) ELSE b
  IN [c EXCEPT !.unverified[p] = Age(@), !.rejecting[p] = Age(@), !.queued[p].age = Age(@),
               !.banned[p] = IF n.banned[p] > 0 THEN n.banned[p] - 1 ELSE @,
               !.score[p] = Decay(@), !.tokens[p] = Burst]
DialledOnce(n) == {p \in n.known : p \notin n.connected /\ n.banned[p] = 0}
\* dial_bootstrap: the configured addresses and the peer file, leaving out
\* who is connected, banned or being dialled.
Dialled(n) ==
  {p \in ssc.boot \cup n.known :
     /\ p \notin n.connected /\ n.banned[p] = 0
     /\ \A s \in Slots : n.conn[p][s] = Free}
\* A peer that is there answers a handshake within the grace period, unless
\* a fault delays it.
Prompt == \A p \in Genuine : ~(unverified[p] = "aged" /\ shaking[p] > 0
                                /\ \E s \in LiveSlots(p) : ~conn[p][s].closing)
SwarmTick ==
  /\ FaultUnless(Prompt)
  /\ LET all[S \in SUBSET Peers] ==
           IF S = {} THEN Now ELSE LET p == CHOOSE q \in S : TRUE IN TickPeer(all[S \ {p}], p)
         n == [all[Peers] EXCEPT !.probed = {}]
     IN Become(IF Cardinality(n.verified) < MinPeers
               THEN [n EXCEPT !.dialing = @ \cup Dialled(n)] ELSE n)

SwarmNext ==
  \/ SwarmTick \/ AppStep
  \/ \E p \in Peers :
       \/ DialSucceeds(p) \/ DialFails(p) \/ PeerDials(p)
       \/ HandshakeRequest(p) \/ RejectAckSent(p) \/ HandshakeResponse(p) \/ HandshakeFails(p)
       \/ AppBans(p) \/ PingFails(p) \/ PingOk(p)
       \/ \E kind \in {"request", "gossip"} : Inbound(p, kind)
       \/ \E s \in Slots : Closes(p, s) \/ Dies(p, s)
       \/ \E r \in Requests : AskPeer(r, p) \/ ResponseArrives(r, p) \/ RequestFails(r, p)

\* What libp2p owes the actor: the outcome of a dial, a handshake, a
\* request and a close it asked for.
Settles(p) ==
  \/ DialSucceeds(p) \/ HandshakeResponse(p)
  \/ LiveSlots(p) = {} /\ HandshakeFails(p)
  \/ \E s \in Slots : conn[p][s].closing /\ Closes(p, s)
  \/ \E r \in Requests : ResponseArrives(r, p) \/ (LiveSlots(p) = {} /\ RequestFails(r, p))
-----------------------------------------------------------------------------
\* The limits count exactly the connections that were admitted and are
\* still open, whatever was refused and closed in between: a slot is
\* neither lost nor given away.
LimitsCountConnections ==
  LET of(p, d) == {s \in Slots : conn[p][s].counted /\ conn[p][s].dir = d}
      total(d) == Cardinality({x \in Peers \X Slots : x[2] \in of(x[1], d)})
  IN /\ \A p \in Peers : limits.peer[p] = Cardinality(of(p, "in")) + Cardinality(of(p, "out"))
     /\ limits.in = total("in") /\ limits.out = total("out")

\* An admitted peer is one of our network with a connection still open, and
\* the application only ever serves such peers.
OnlyOurNetwork ==
  /\ verified \subseteq {p \in Genuine : OpenSlots(p) # {}}
  /\ app.served \subseteq Genuine

\* When the application has read every event and lost none, its peer list is
\* the actor's, for every peer that was never banned.  (A banned peer stays
\* on the list: ban removes it without an event.)
AppKnowsPeers ==
  events = <<>> /\ ~app.missed =>
    \A p \in Peers \ app.struck : p \in app.peers <=> p \in verified

\* What the limits, the actor and the application each know of the peers
\* agrees.
PeersAgree == LimitsCountConnections /\ OnlyOurNetwork /\ AppKnowsPeers

\* Every request is answered or refused in the end, whatever becomes of the
\* dial, the handshake, the connection or the peer.
RequestsAreAnswered ==
  \A r \in Requests : answered[r] = "waiting" ~> answered[r] \in {"ok", "failed"}

\* A configured peer of our network is connected for good once faults
\* cease: dead connections are found by their probes and dialled again,
\* bans run out.
Rejoins == <>[](ssc.boot \cap Genuine \subseteq {p \in verified : LiveSlots(p) # {}})

\* The swarm comes to rest: no caller waits for ever, and no peer stays lost.
SwarmRecovers == RequestsAreAnswered /\ Rejoins
=============================================================================
