----------------------------- MODULE ChainRelay -----------------------------
(***************************************************************************)
(* Chain reads and broadcasts over the peer-to-peer relay: the service a   *)
(* node offers (node chain_relay.rs, chain.rs) and the client that asks    *)
(* two operators and compares (sdk chain_relay.rs).                        *)
(*                                                                         *)
(* A path is reduced to what the checks look at.  An answer is a status, a *)
(* body and the height it was served at; a node's gateway lags the chain,  *)
(* and a liar answers what it likes.  Each request is one step, so the     *)
(* chain moves between two of them.                                        *)
(***************************************************************************)
EXTENDS Integers, Sequences, FiniteSets

CONSTANTS RateBurst, RateRefill,   \* RATE_BURST, RATE_PER_SEC
          MaxHeightSkew, NoNode

ASSUME RelayAssumption == RateBurst \in Nat \ {0} /\ RateRefill \in Nat \ {0}

VARIABLES lsc,        \* the scenario
          ltip,       \* height of the chain
          lat,        \* height of each node's gateway
          ltokens,    \* this client's bucket at each node
          lpool,      \* transactions in the mempool
          lread,      \* the read under way
          lsend,      \* the broadcast under way
          ldisputed, llast, lfaults,
          lserved     \* what honest nodes answered in this read (history)

relayVars == <<lsc, ltip, lat, ltokens, lpool, lread, lsend, ldisputed, llast, lfaults, lserved>>

RelayNodes == {lsc.relays[i] : i \in DOMAIN lsc.relays}
LeastOf(a, b) == IF a <= b THEN a ELSE b

----------------------------------------------------------------------------
(* The node.                                                               *)

\* allowed_read_path, allowed_query: the first rule that fails.
Refusal(path) ==
  CASE path.empty -> "Empty"
    [] ~path.empty /\ path.long -> "TooLong"
    [] ~path.empty /\ ~path.long /\ path.badchar -> "BadCharacter"
    [] ~path.empty /\ ~path.long /\ ~path.badchar /\ path.traversal -> "Traversal"
    [] ~path.empty /\ ~path.long /\ ~path.badchar /\ ~path.traversal ->
         IF path.kind \in {"tx_list", "tx_by_hash", "read", "tendermint"} THEN "None" ELSE "NotAllowed"

\* take_token.
HasToken(p) == ltokens[p] >= 1
Refilled(t) == LeastOf(RateBurst, t + RateRefill)

\* read_raw: status, body, height; an answer over the cap is data, 413.
Raw(path, h) ==
  IF path.large THEN [status |-> 413, body |-> 0, height |-> 0]
  ELSE [status |-> 200, body |-> IF path.kind = "tendermint" THEN h ELSE lsc.values[h], height |-> h]

\* query, at a node with a token left: no answer for a refused path, or when
\* the gateway times out or is unreachable.
Lies(p) == [status : {200}, body : lsc.lies, height : {0, lat[p]}]
HonestAnswers(p, path) == IF Refusal(path) = "None" THEN {Raw(path, lat[p])} ELSE {}
NodeAnswers(p, path) ==
  IF ~HasToken(p) THEN {}
  ELSE IF p \in lsc.liars THEN HonestAnswers(p, path) \cup Lies(p) ELSE HonestAnswers(p, path)

----------------------------------------------------------------------------
(* The client.                                                             *)

\* order: undisputed peers first; in each group the first peer of each
\* operator before the rest.
Leads(q, i) ==
  /\ lsc.operator[q[i]] # ""
  /\ ~\E j \in 1..i - 1 : /\ q[j] \in ldisputed <=> q[i] \in ldisputed
                          /\ lsc.operator[q[j]] = lsc.operator[q[i]]
Group(q, i) == (IF q[i] \in ldisputed THEN 2 ELSE 0) + (IF Leads(q, i) THEN 0 ELSE 1)
Ahead(q, i) ==
  {j \in DOMAIN q : Group(q, j) < Group(q, i) \/ (Group(q, j) = Group(q, i) /\ j < i)}
Order(q) ==
  [k \in DOMAIN q |-> q[CHOOSE i \in DOMAIN q : Cardinality(Ahead(q, i)) = k - 1]]

\* take_distinct: the first of an operator not asked yet, or just the first.
TakeDistinct(pool, used) ==
  LET new == {i \in DOMAIN pool : lsc.operator[pool[i]] # "" /\ lsc.operator[pool[i]] \notin used}
  IN IF new = {} THEN 1 ELSE CHOOSE i \in new : \A j \in new : i <= j

Without(pool, i) == SubSeq(pool, 1, i - 1) \o SubSeq(pool, i + 1, Len(pool))

comparable(path) == path.kind # "tendermint"
same_answer(a, b) == a.status = b.status /\ a.body = b.body
heights_close(a, b) ==
  a = 0 \/ b = 0 \/ (a - b <= MaxHeightSkew /\ b - a <= MaxHeightSkew)

\* A read: the answers so far, the peers left, and whether the one behind
\* was asked again.
NoRead == [on |-> FALSE, path |-> [kind |-> "none"], pool |-> <<>>, used |-> {}, got |-> <<>>,
           single |-> FALSE, stage |-> "none"]
NoVerification == [ok |-> FALSE, agreed |-> FALSE, operators |-> <<>>, disputed |-> {}, answer |-> NoNode]

Finish(v) == llast' = v /\ lread' = NoRead

StartRead(path) ==
  /\ "read" \in lsc.ops /\ ~lread.on
  /\ lserved' = {}
  /\ IF lsc.relays = <<>>
     THEN Finish(NoVerification)
     ELSE /\ lread' = [on |-> TRUE, path |-> path, pool |-> Order(lsc.relays), used |-> {}, got |-> <<>>,
                       single |-> Cardinality({lsc.operator[p] : p \in RelayNodes} \ {""}) <= 1, stage |-> "ask"]
          /\ UNCHANGED llast
  /\ UNCHANGED <<lsc, ltip, lat, ltokens, lpool, lsend, ldisputed, lfaults>>

\* What the answers in hand lead to.
Verified(agreed, got, out) ==
  [ok |-> TRUE, agreed |-> agreed, operators |-> [i \in DOMAIN got |-> lsc.operator[got[i].peer]],
   disputed |-> out, answer |-> got[1].answer]
Disputed(out) == [NoVerification EXCEPT !.disputed = out]
Raced(a, b) ==
  ~same_answer(a, b) /\ a.height # b.height /\ a.height # 0 /\ b.height # 0

JudgeTwo(r) ==
  LET a == r.got[1].answer b == r.got[2].answer
  IN IF same_answer(a, b) /\ heights_close(a.height, b.height)
     THEN Finish(Verified(TRUE, r.got, {})) /\ UNCHANGED ldisputed
     ELSE /\ lread' = [r EXCEPT !.stage = "third"]
          /\ ldisputed' = ldisputed \cup {r.got[1].peer, r.got[2].peer}
          /\ UNCHANGED llast

\* Mutant: the third answer is taken to confirm the first.
MutJudgeThree(r) ==
  LET w == r.got[1] l == r.got[2]
  IN /\ ldisputed' = ldisputed \ {w.peer}
     /\ Finish(Verified(TRUE, <<w, r.got[3]>>, {l.peer}))
JudgeThree(r) ==
  LET a == r.got[1] b == r.got[2] c == r.got[3]
      third == IF same_answer(c.answer, a.answer) THEN a
               ELSE IF same_answer(c.answer, b.answer) THEN b ELSE c
      loser == IF third = a THEN b ELSE a
  IN IF third = c
     THEN /\ ldisputed' = ldisputed \cup {c.peer}
          /\ Finish(Disputed({a.peer, b.peer, c.peer}))
     ELSE /\ ldisputed' = ldisputed \ {third.peer}
          /\ Finish(Verified(TRUE, <<third, c>>, {loser.peer}))

Answered(r) ==
  \/ /\ Len(r.got) = 1
     /\ IF comparable(r.path) /\ ~r.single
        THEN lread' = r /\ UNCHANGED llast
        ELSE Finish(Verified(FALSE, r.got, {}))
     /\ UNCHANGED ldisputed
  \/ /\ Len(r.got) = 2
     /\ IF Raced(r.got[1].answer, r.got[2].answer)
        THEN lread' = [r EXCEPT !.stage = "again"] /\ UNCHANGED <<llast, ldisputed>>
        ELSE JudgeTwo(r)
  \/ Len(r.got) = 3 /\ JudgeThree(r)

\* ask: one request.  An answer may be lost.
Ask(p, OnAnswer(_), none) ==
  /\ ltokens' = [ltokens EXCEPT ![p] = IF HasToken(p) THEN @ - 1 ELSE @]
  /\ \/ \E a \in NodeAnswers(p, lread.path) :
          /\ OnAnswer(a)
          /\ lserved' = IF p \in lsc.liars THEN lserved ELSE lserved \cup {a}
          /\ UNCHANGED lfaults
     \/ /\ none /\ UNCHANGED lserved
        /\ \/ NodeAnswers(p, lread.path) = {} /\ UNCHANGED lfaults
           \/ lfaults < lsc.faults /\ lfaults' = lfaults + 1

\* The loops for the first, the second and the third answer.
AskNext ==
  /\ lread.on /\ lread.stage \in {"ask", "third"} /\ lread.pool # <<>>
  /\ LET i == TakeDistinct(lread.pool, lread.used)
         p == lread.pool[i]
         r == [lread EXCEPT !.pool = Without(@, i), !.used = @ \cup {lsc.operator[p]}]
     IN Ask(p, LAMBDA a : Answered([r EXCEPT !.got = Append(@, [peer |-> p, answer |-> a])]),
            lread' = r /\ UNCHANGED <<llast, ldisputed>>)
  /\ UNCHANGED <<lsc, ltip, lat, lpool, lsend>>

\* A height race is not a lie: the one behind is asked once more.
Reanswered(r, i, a) == [r EXCEPT !.got[i].answer = a]
AskBehind ==
  /\ lread.on /\ lread.stage = "again"
  /\ LET i == IF lread.got[1].answer.height < lread.got[2].answer.height THEN 1 ELSE 2
         r == [lread EXCEPT !.stage = "ask"]
     IN Ask(lread.got[i].peer, LAMBDA a : JudgeTwo(Reanswered(r, i, a)), JudgeTwo(r))
  /\ UNCHANGED <<lsc, ltip, lat, lpool, lsend>>

\* No peer is left to ask.
NoneLeft ==
  /\ lread.on /\ lread.stage \in {"ask", "third"} /\ lread.pool = <<>>
  /\ \/ Len(lread.got) = 0 /\ Finish(NoVerification)
     \/ Len(lread.got) = 1 /\ Finish(Verified(FALSE, lread.got, {}))
     \/ Len(lread.got) = 2 /\ Finish(Disputed({lread.got[1].peer, lread.got[2].peer}))
  /\ UNCHANGED <<lsc, ltip, lat, ltokens, lpool, lsend, ldisputed, lfaults, lserved>>

\* clear_disputes.
ClearDisputes ==
  /\ "clear" \in lsc.ops /\ ldisputed # {}
  /\ ldisputed' = {}
  /\ UNCHANGED <<lsc, ltip, lat, ltokens, lpool, lread, lsend, llast, lfaults, lserved>>

----------------------------------------------------------------------------
(* Broadcast: the peers in order until one answers.  A transaction that is *)
(* already in the mempool is answered with a code; an answer may be lost   *)
(* after the transaction went in.                                          *)
NoSend == [on |-> FALSE, tx |-> 0, pool |-> <<>>, result |-> "none"]

StartBroadcast(tx) ==
  /\ "send" \in lsc.ops /\ ~lsend.on /\ lsend.tx < tx
  /\ lsend' = [on |-> lsc.relays # <<>>, tx |-> tx, pool |-> Order(lsc.relays), result |-> "no node"]
  /\ UNCHANGED <<lsc, ltip, lat, ltokens, lpool, lread, ldisputed, llast, lfaults, lserved>>

\* post_raw, and the node's broadcast: what the gateway answers, and the
\* mempool after it.  A liar only says it passed the transaction on.
GatewayTakes(tx) ==
  [code |-> IF tx \in lpool THEN "rejected" ELSE "accepted", pool |-> lpool \cup {tx}]
NodeBroadcast(p, tx) ==
  IF ~HasToken(p) THEN {}
  ELSE {GatewayTakes(tx)}
       \cup (IF p \in lsc.liars THEN {[code |-> "accepted", pool |-> lpool]} ELSE {})

BroadcastTo ==
  /\ lsend.on /\ lsend.pool # <<>>
  /\ LET p == Head(lsend.pool)
         answers == NodeBroadcast(p, lsend.tx)
         failed == [lsend EXCEPT !.pool = Tail(@), !.on = Len(lsend.pool) > 1]
     IN /\ ltokens' = [ltokens EXCEPT ![p] = IF HasToken(p) THEN @ - 1 ELSE @]
        /\ \/ \E a \in answers :
                /\ lpool' = a.pool
                /\ lsend' = [lsend EXCEPT !.on = FALSE, !.result = a.code]
                /\ UNCHANGED lfaults
           \/ answers = {} /\ lsend' = failed /\ UNCHANGED <<lpool, lfaults>>
           \/ /\ lfaults < lsc.faults /\ lfaults' = lfaults + 1
              /\ lpool' \in {lpool} \cup {a.pool : a \in answers}
              /\ lsend' = failed
  /\ UNCHANGED <<lsc, ltip, lat, lread, ldisputed, llast, lserved>>

----------------------------------------------------------------------------
(* The chain grows, gateways follow it, buckets refill.                    *)
NewBlock ==
  /\ "block" \in lsc.ops /\ ltip < Len(lsc.values)
  /\ ltip' = ltip + 1
  /\ UNCHANGED <<lsc, lat, ltokens, lpool, lread, lsend, ldisputed, llast, lfaults, lserved>>
GatewayFollows(p) ==
  /\ lat[p] < ltip
  /\ lat' = [lat EXCEPT ![p] = @ + 1]
  /\ UNCHANGED <<lsc, ltip, ltokens, lpool, lread, lsend, ldisputed, llast, lfaults, lserved>>
Refill ==
  /\ "refill" \in lsc.ops /\ \E p \in RelayNodes : ltokens[p] < RateBurst
  /\ ltokens' = [p \in RelayNodes |-> Refilled(ltokens[p])]
  /\ UNCHANGED <<lsc, ltip, lat, lpool, lread, lsend, ldisputed, llast, lfaults, lserved>>

RelayInit(scenarios) ==
  /\ lsc \in scenarios
  /\ ltip = 1
  /\ lat = [p \in RelayNodes |-> 1]
  /\ ltokens = [p \in RelayNodes |-> RateBurst]
  /\ lpool = {}
  /\ lread = NoRead /\ lsend = NoSend
  /\ ldisputed = {} /\ llast = NoVerification /\ lfaults = 0 /\ lserved = {}

RelayNext ==
  \/ \E path \in lsc.paths : StartRead(path)
  \/ AskNext \/ AskBehind \/ NoneLeft \/ ClearDisputes
  \/ \E tx \in 1..lsc.txs : StartBroadcast(tx)
  \/ BroadcastTo
  \/ NewBlock \/ (\E p \in RelayNodes : GatewayFollows(p)) \/ Refill

----------------------------------------------------------------------------
(* Properties.                                                             *)

\* With one lying peer, an answer shown as verified by two nodes was given
\* by an honest one during this read: whatever the liar says, in whatever
\* order the two, the one behind and the third are asked while the chain
\* moves (cross_checked_get).
VerifiedIsHonest ==
  llast.agreed /\ ~lread.on => \E a \in lserved : same_answer(a, llast.answer)

=============================================================================
