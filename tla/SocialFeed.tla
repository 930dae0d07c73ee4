----------------------------- MODULE SocialFeed -----------------------------
(***************************************************************************)
(* Clients of the SDK (feed.rs, social.rs) and the nodes whose social log  *)
(* they write and read.                                                    *)
(*                                                                         *)
(* A client keeps the head of its event chain in the account vault: in     *)
(* memory until the application saves it.  Its cache of events, its        *)
(* cursors, follows and walls are written through to the local store.  A   *)
(* publish asks one node after another until one accepts; an accept is     *)
(* three steps of the node (authority, admission, store) and other tasks   *)
(* run between them.  Every accepted event is gossiped to the other nodes. *)
(*                                                                         *)
(* Bounds.  A scenario gives the ids (which bound the events), the nodes,  *)
(* the clients that publish `drafts`, the readers that refresh, the        *)
(* walkers that page, the events a node holds at first (`seed`), the first *)
(* and last second, the page size, and which faults may happen; MaxFaults  *)
(* bounds their number.                                                    *)
(***************************************************************************)
EXTENDS FeedViews

CONSTANTS
    Clients,       \* devices
    AuthorOf,      \* the address of each device
    Nodes,
    MaxTime, MaxFaults,
    Retention,     \* seconds a node keeps an event
    MaxEvents      \* events a node keeps

ASSUME SocialAssumption ==
    /\ DOMAIN AuthorOf = Clients
    /\ {MaxTime, MaxFaults, Retention, MaxEvents} \subseteq Nat
    /\ ScanCap > 0

VARIABLES
    fsc,            \* the scenario
    clock,
    faults,
    log,           \* [Nodes -> log record]
    rate,          \* [Nodes -> [authors seen -> buckets]]
    authz,         \* [Nodes -> [Clients -> remembered answer or Nil]]
    blocked,       \* [Nodes -> ids a trusted attestor blocked]
    revoked,       \* devices the chain no longer lists
    tasks,         \* accepts under way: [n, ev, src, stage]
    vault, disk,   \* chain head of a client: in memory, saved
    pend,          \* publish under way
    cache, cursor, follows, walls,
    walk,          \* a timeline being paged
    built,         \* every event signed so far
    accepted,      \* every event some node answered for
    mishap,        \* devices whose last publish or save was cut short
    passed         \* per reader: events an answering node held below the new cursor

nodeVars == <<log, rate, authz, blocked, revoked, tasks>>
clientVars == <<vault, disk, pend, cache, cursor, follows, walls, walk>>
ghostVars == <<built, accepted, mishap, passed>>
feedVars == <<fsc, clock, faults, nodeVars, clientVars, ghostVars>>

Authors == {AuthorOf[c] : c \in Clients}
Fresh == [next |-> 0, prev |-> Nil]
NoWalk == [on |-> FALSE]

FeedInit(scenarios) ==
    /\ fsc \in scenarios
    /\ clock = fsc.now
    /\ faults = 0
    /\ log = [n \in Nodes |->
                LET S == {e \in fsc.seed : n \in fsc.nodes}
                IN [EmptyLog(0) EXCEPT !.events = S,
                      !.byAuthor = {AuthorRow(e) : e \in S},
                      !.byTime = {TimeRow(e) : e \in S}]]
    /\ rate = [n \in Nodes |-> <<>>]
    /\ authz = [n \in Nodes |-> [c \in Clients |-> Nil]]
    /\ blocked = [n \in Nodes |-> {}]
    /\ revoked = {}
    /\ tasks = {}
    /\ vault = [c \in Clients |-> Fresh]
    /\ disk = vault
    /\ pend = [c \in Clients |-> Nil]
    /\ cache = [c \in Clients |-> {}]
    /\ cursor = [c \in Clients |-> [a \in Authors |-> 0]]
    /\ follows = [c \in Clients |-> {}]
    /\ walls = [c \in Clients |-> [info |-> {}, pinned |-> {}]]
    /\ walk = [c \in Clients |-> NoWalk]
    /\ built = fsc.seed
    /\ accepted = fsc.seed
    /\ mishap = {}
    /\ passed = [c \in Clients |-> {}]

Live == {n \in fsc.nodes : log[n].version = IndexVersion}
Fault(kind) == kind \in fsc.faults /\ faults < MaxFaults /\ faults' = faults + 1
UnusedIds == fsc.ids \ {e.id : e \in built}

\* The service opens its log (and indexes a store of an older release).
OpenLog(n) ==
    /\ n \in fsc.nodes \ Live
    /\ log' = [log EXCEPT ![n] = open(@)]
    /\ UNCHANGED <<fsc, clock, faults, rate, authz, blocked, revoked, tasks, clientVars, ghostVars>>

-----------------------------------------------------------------------------
(* Publishing.                                                              *)

\* wall_info: from the local cache, else the creation event in the cache or
\* at a node.
KnownWalls(c) ==
    walls[c].info \cup
    {[id |-> e.id, creator |-> e.author, open |-> e.on] :
        e \in {x \in cache[c] \cup UNION {log[n].events : n \in Live} :
                  x.kind = "CHANNEL_CREATE"}}

\* What the client refuses before it signs anything: a closed wall of
\* somebody else, following itself.
MayPost(c, d) ==
    /\ d.channel # Nil => \E w \in KnownWalls(c) :
          w.id = d.channel /\ (w.open \/ w.creator = AuthorOf[c])
    /\ d.kind = "FOLLOW" => d.target # AuthorOf[c]

\* build: signed with the sequence and the previous id of the vault.
build(c, d, id) ==
    [id |-> id, author |-> AuthorOf[c], dev |-> c, seq |-> vault[c].next,
     prev |-> vault[c].prev, ts |-> clock, kind |-> d.kind, target |-> d.target,
     channel |-> d.channel, tags |-> d.tags, on |-> d.on]

\* Feed::publish of a draft: post, comment, react, repost, edit, delete,
\* profile, story, follow and wall all come here.
Publish(c) ==
    /\ c \in fsc.clients /\ pend[c] = Nil
    /\ \E d \in fsc.drafts[c], id \in UnusedIds :
         /\ MayPost(c, d)
         /\ pend' = [pend EXCEPT ![c] = [ev |-> build(c, d, id), tried |-> {},
                                         at |-> Nil, reply |-> Nil, lost |-> FALSE]]
         /\ built' = built \cup {build(c, d, id)}
         /\ walls' = IF d.channel = Nil THEN walls
                     ELSE [walls EXCEPT ![c].info = @ \cup
                             {w \in KnownWalls(c) : w.id = d.channel}]
    /\ UNCHANGED <<fsc, clock, faults, nodeVars, vault, disk, cache, cursor, follows, walk,
                   accepted, mishap, passed>>

\* request_role_any: the next node is asked when the last one failed.
Ask(c, n) ==
    /\ pend[c] # Nil /\ pend[c].at = Nil
    /\ n \in Live \ pend[c].tried
    /\ pend' = [pend EXCEPT ![c].at = n, ![c].tried = @ \cup {n}, ![c].reply = Nil]
    /\ tasks' = tasks \cup {[n |-> n, ev |-> pend[c].ev, src |-> c, stage |-> "new"]}
    /\ UNCHANGED <<fsc, clock, faults, log, rate, authz, blocked, revoked, vault, disk, cache,
                   cursor, follows, walls, walk, ghostVars>>

\* The answer is late or lost; the node goes on without the client.
Timeout(c) ==
    /\ pend[c] # Nil /\ pend[c].at # Nil
    /\ Fault("timeout")
    /\ pend' = [pend EXCEPT ![c].at = Nil, ![c].reply = Nil, ![c].lost = TRUE]
    /\ UNCHANGED <<fsc, clock, nodeVars, vault, disk, cache, cursor, follows, walls, walk, ghostVars>>

\* Social::publish and persist: the head moves when the event was accepted.
Advance(c, ev) == [next |-> ev.seq + 1, prev |-> ev.id]

\* set_follow's local mirror.
Mirror(F, ev) == CASE ev.kind = "FOLLOW" -> F \cup {ev.target}
                   [] ev.kind = "UNFOLLOW" -> F \ {ev.target}
                   [] OTHER -> F

\* The publish returns: head, cached event, mirror, pinned wall.
Published(c) ==
    /\ pend[c] # Nil /\ pend[c].reply = "ok"
    /\ LET ev == pend[c].ev
           w == [id |-> ev.id, creator |-> ev.author, open |-> ev.on]
       IN /\ vault' = [vault EXCEPT ![c] = Advance(c, ev)]
          /\ cache' = [cache EXCEPT ![c] = @ \cup {ev}]
          /\ follows' = [follows EXCEPT ![c] = Mirror(@, ev)]
          /\ walls' = IF ev.kind # "CHANNEL_CREATE" THEN walls
                      ELSE [walls EXCEPT ![c] = [info |-> @.info \cup {w},
                                                 pinned |-> @.pinned \cup {ev.id}]]
    /\ pend' = [pend EXCEPT ![c] = Nil]
    /\ UNCHANGED <<fsc, clock, faults, nodeVars, disk, cursor, walk, ghostVars>>

\* A refusal sends the client to the next node.
NextNode(c) ==
    /\ pend[c] # Nil /\ pend[c].reply = "err"
    /\ pend' = [pend EXCEPT ![c].at = Nil, ![c].reply = Nil]
    /\ UNCHANGED <<fsc, clock, faults, nodeVars, vault, disk, cache, cursor, follows, walls, walk,
                   ghostVars>>

\* Every node failed: the publish is an error and nothing local changes.
GiveUp(c) ==
    /\ pend[c] # Nil /\ pend[c].at = Nil
    /\ Live \subseteq pend[c].tried
    /\ pend' = [pend EXCEPT ![c] = Nil]
    /\ mishap' = IF pend[c].lost THEN mishap \cup {c} ELSE mishap
    /\ UNCHANGED <<fsc, clock, faults, nodeVars, vault, disk, cache, cursor, follows, walls, walk,
                   built, accepted, passed>>

\* HashgramOne::save writes the vault.
Save(c) ==
    /\ vault[c] # disk[c]
    /\ disk' = [disk EXCEPT ![c] = vault[c]]
    /\ UNCHANGED <<fsc, clock, faults, nodeVars, vault, pend, cache, cursor, follows, walls, walk,
                   ghostVars>>

\* The application dies: what was not saved is gone.
Crash(c) ==
    /\ c \in fsc.clients
    /\ Fault("crash")
    /\ vault' = [vault EXCEPT ![c] = disk[c]]
    /\ pend' = [pend EXCEPT ![c] = Nil]
    /\ walk' = [walk EXCEPT ![c] = NoWalk]
    /\ mishap' = IF pend[c] # Nil \/ vault[c] # disk[c] THEN mishap \cup {c} ELSE mishap
    /\ UNCHANGED <<fsc, clock, nodeVars, disk, cache, cursor, follows, walls, built, accepted, passed>>

-----------------------------------------------------------------------------
(* The node.                                                                *)

\* CachedAuthority::check: a remembered answer, or what the chain says now;
\* the chain may be out of reach, which is not remembered.
Answers(n, c) ==
    LET truth == IF c \in revoked THEN "Refused" ELSE "Authorised"
    IN {[a |-> truth, memo |-> truth]} \cup
       (IF authz[n][c] # Nil THEN {[a |-> authz[n][c], memo |-> authz[n][c]]} ELSE {})

\* The answer a client waiting at n gets; gossip has nobody waiting.
Replied(t, what) ==
    IF t.src \in Clients /\ pend[t.src] # Nil /\ pend[t.src].at = t.n /\ pend[t.src].ev = t.ev
    THEN [pend EXCEPT ![t.src].reply = what] ELSE pend

Move(t, stage) == (tasks \ {t}) \cup {[t EXCEPT !.stage = stage]}
Gossiped(t) == {[n |-> m, ev |-> t.ev, src |-> Nil, stage |-> "new"] : m \in fsc.nodes \ {t.n}}

\* Duplicate: fine for a client (and gossiped again), ignored for a peer.
Duplicate(t) ==
    /\ pend' = Replied(t, "ok")
    /\ tasks' = (tasks \ {t}) \cup (IF t.src # Nil THEN Gossiped(t) ELSE {})
    /\ accepted' = accepted \cup {t.ev}

Refuse(t) == /\ pend' = Replied(t, "err")
             /\ tasks' = tasks \ {t}
             /\ UNCHANGED accepted

\* accept, first part: shape, signature, and the device against the chain.
CheckAuthority(t) ==
    /\ t.stage = "new" /\ t.n \in Live
    /\ \/ \E r \in Answers(t.n, t.ev.dev) :
            /\ authz' = [authz EXCEPT ![t.n][t.ev.dev] = r.memo]
            /\ \/ r.a = "Authorised" /\ tasks' = Move(t, "checked")
                  /\ UNCHANGED <<pend, accepted, faults>>
               \/ r.a = "Refused" /\ Refuse(t) /\ UNCHANGED faults
       \/ Fault("chain") /\ Refuse(t) /\ UNCHANGED authz      \* Unavailable
    /\ UNCHANGED <<fsc, clock, log, rate, blocked, revoked, vault, disk, cache, cursor, follows,
                   walls, walk, built, mishap, passed>>

\* accept, second part: known, over the allowance, blocked.
Admit(t) ==
    LET b == IF t.ev.author \in DOMAIN rate[t.n] THEN rate[t.n][t.ev.author]
             ELSE FullBuckets(clock)
        ok == Affordable(b, t.ev.kind, clock)
    IN /\ t.stage = "checked" /\ t.n \in Live
       /\ \/ held(log[t.n], t.ev.id) /\ Duplicate(t) /\ UNCHANGED rate
          \/ /\ ~held(log[t.n], t.ev.id) /\ ~ok
             /\ Refuse(t) /\ UNCHANGED rate
          \/ /\ ~held(log[t.n], t.ev.id) /\ ok
             /\ rate' = [rate EXCEPT ![t.n] =
                   [a \in DOMAIN @ \cup {t.ev.author} |->
                      IF a = t.ev.author THEN Charged(b, t.ev.kind, clock) ELSE @[a]]]
             /\ \/ t.ev.id \in blocked[t.n] /\ Refuse(t)
                \/ t.ev.id \notin blocked[t.n] /\ tasks' = Move(t, "admitted")
                   /\ UNCHANGED <<pend, accepted>>
       /\ UNCHANGED <<fsc, clock, faults, log, authz, blocked, revoked, vault, disk, cache, cursor,
                      follows, walls, walk, built, mishap, passed>>

\* accept, last part: one transaction, and the gossip of a new event.
Store(t) ==
    /\ t.stage = "admitted" /\ t.n \in Live
    /\ log' = [log EXCEPT ![t.n] = store(@, t.ev)]
    /\ pend' = Replied(t, "ok")
    /\ tasks' = (tasks \ {t}) \cup
                (IF t.src # Nil \/ ~held(log[t.n], t.ev.id) THEN Gossiped(t) ELSE {})
    /\ accepted' = accepted \cup {t.ev}
    /\ UNCHANGED <<fsc, clock, faults, rate, authz, blocked, revoked, vault, disk, cache, cursor,
                   follows, walls, walk, built, mishap, passed>>

\* The periodic sweep.
Sweep(n) ==
    /\ n \in Live
    /\ LET swept == sweep(log[n], clock - Retention, MaxEvents)
       IN /\ swept # log[n]
          /\ log' = [log EXCEPT ![n] = swept]
          /\ walk' = [c \in Clients |->
                        IF walk[c].on /\ walk[c].n = n
                        THEN [walk[c] EXCEPT !.start = @ \cap swept.events] ELSE walk[c]]
    /\ UNCHANGED <<fsc, clock, faults, rate, authz, blocked, revoked, tasks, vault, disk, pend,
                   cache, cursor, follows, walls, ghostVars>>

\* A trusted attestor blocks an event at a node.
Block(n, e) ==
    /\ Fault("block")
    /\ e.id \notin blocked[n]
    /\ blocked' = [blocked EXCEPT ![n] = @ \cup {e.id}]
    /\ walk' = [c \in Clients |-> IF walk[c].on /\ walk[c].n = n
                                  THEN [walk[c] EXCEPT !.start = @ \ {e}] ELSE walk[c]]
    /\ UNCHANGED <<fsc, clock, log, rate, authz, revoked, tasks, vault, disk, pend, cache, cursor,
                   follows, walls, ghostVars>>

\* The node restarts: tasks, allowances and remembered answers are memory.
Restart(n) ==
    /\ n \in Live
    /\ Fault("restart")
    /\ rate' = [rate EXCEPT ![n] = <<>>]
    /\ authz' = [authz EXCEPT ![n] = [c \in Clients |-> Nil]]
    /\ tasks' = {t \in tasks : t.n # n}
    /\ pend' = [c \in Clients |-> IF pend[c] # Nil /\ pend[c].at = n /\ pend[c].reply = Nil
                                  THEN [pend[c] EXCEPT !.at = Nil, !.lost = TRUE] ELSE pend[c]]
    /\ UNCHANGED <<fsc, clock, log, blocked, revoked, vault, disk, cache, cursor, follows, walls,
                   walk, ghostVars>>

\* The chain revokes a device.
Revoke(c) ==
    /\ c \in fsc.clients \ revoked
    /\ Fault("revoke")
    /\ revoked' = revoked \cup {c}
    /\ UNCHANGED <<fsc, clock, log, rate, authz, blocked, tasks, clientVars, ghostVars>>

Tick == /\ clock < fsc.until
        /\ clock' = clock + 1
        /\ UNCHANGED <<fsc, faults, nodeVars, clientVars, ghostVars>>

-----------------------------------------------------------------------------
(* Reading.                                                                 *)

\* Everything the reader puts into its cache, nothing else of it.
Cached(c, S) == cache' = [cache EXCEPT ![c] = @ \cup S]

PageOf(n, f) == fetch_page(log[n], f, blocked[n])
Items(page) == {page.events[i] : i \in 1..Len(page.events)}

AuthorQuery(a, from) ==
    [AnyQuery EXCEPT !.author = a, !.from = from, !.limit = fsc.limit]

\* refresh_author: the page after the cursor is cached and the cursor moves
\* past the highest sequence it held.
RefreshAuthor(c, n, a) ==
    LET got == Items(PageOf(n, AuthorQuery(a, cursor[c][a])))
        top == CHOOSE m \in {cursor[c][a]} \cup {e.seq + 1 : e \in got} :
                 \A e \in got : m >= e.seq + 1
        below == {e \in log[n].events : /\ e.author = a /\ e.id \notin blocked[n]
                                        /\ e.seq >= cursor[c][a] /\ e.seq < top}
    IN /\ c \in fsc.readers /\ n \in Live
       /\ got # {}
       /\ Cached(c, got)
       /\ cursor' = [cursor EXCEPT ![c][a] = top]
       /\ passed' = [passed EXCEPT ![c] = @ \cup below]
       /\ UNCHANGED <<fsc, clock, faults, nodeVars, vault, disk, pend, follows, walls, walk,
                      built, accepted, mishap>>

\* thread_fetch: the post when it is not cached, and what points at it.
ThreadFetch(c, n, p) ==
    LET post == IF \E e \in cache[c] : e.id = p THEN {}
                ELSE Items(PageOf(n, [AnyQuery EXCEPT !.ids = {p}]))
        under == Items(PageOf(n, [AnyQuery EXCEPT !.target = p]))
    IN /\ c \in fsc.readers /\ n \in Live
       /\ ~(post \cup under \subseteq cache[c])
       /\ Cached(c, post \cup under)
       /\ UNCHANGED <<fsc, clock, faults, nodeVars, vault, disk, pend, cursor, follows, walls,
                      walk, ghostVars>>

WalkQuery(before) ==
    [AnyQuery EXCEPT !.types = {"POST_CREATE", "REEL_CREATE"}, !.limit = fsc.limit,
                     !.before = before]

Visible(n) == {e \in log[n].events : Passes(WalkQuery(0), e) /\ e.id \notin blocked[n]}

\* Seconds in which a page of the walk may leave something out: more posts
\* in one second than a page holds, or the scan cap met inside it.
Crowded(n) == {t \in 1..MaxTime : Cardinality({e \in Visible(n) : e.ts = t}) > fsc.limit}
CappedAt(page) == IF Len(page.events) < fsc.limit /\ page.next # 0 THEN {page.next} ELSE {}

\* explore, page after page: the walk follows the cursor of one node.
StartWalk(c, n) ==
    /\ c \in fsc.walkers /\ n \in Live
    /\ ~walk[c].on
    /\ walk' = [walk EXCEPT ![c] = [on |-> TRUE, n |-> n, before |-> 0, seen |-> {},
                                    start |-> Visible(n), excused |-> {}, done |-> FALSE]]
    /\ UNCHANGED <<fsc, clock, faults, nodeVars, vault, disk, pend, cache, cursor, follows, walls,
                   ghostVars>>

WalkPage(c) ==
    /\ walk[c].on /\ ~walk[c].done
    /\ LET w == walk[c]
           page == PageOf(w.n, WalkQuery(w.before))
       IN walk' = [walk EXCEPT ![c] =
             [w EXCEPT !.before = page.next, !.seen = @ \cup Items(page),
                       !.excused = @ \cup Crowded(w.n) \cup CappedAt(page),
                       !.done = (page.next = 0)]]
    /\ UNCHANGED <<fsc, clock, faults, nodeVars, vault, disk, pend, cache, cursor, follows, walls,
                   ghostVars>>

-----------------------------------------------------------------------------
FeedNext ==
    \/ \E n \in Nodes : OpenLog(n) \/ Sweep(n) \/ Restart(n)
    \/ \E n \in Nodes : \E e \in log[n].events : Block(n, e)
    \/ \E c \in Clients : \/ Publish(c) \/ Timeout(c) \/ Published(c) \/ NextNode(c)
                          \/ GiveUp(c) \/ Save(c) \/ Crash(c) \/ Revoke(c) \/ WalkPage(c)
    \/ \E c \in Clients, n \in Nodes : Ask(c, n) \/ StartWalk(c, n)
    \/ \E c \in Clients, n \in Nodes, a \in Authors : RefreshAuthor(c, n, a)
    \/ \E c \in Clients, n \in Nodes, p \in fsc.ids : ThreadFetch(c, n, p)
    \/ \E t \in tasks : CheckAuthority(t) \/ Admit(t) \/ Store(t)
    \/ Tick

-----------------------------------------------------------------------------
(* Properties.                                                              *)

\* At an open node the five indexes hold exactly the rows of the events
\* held, whatever was stored twice, swept, or indexed when the store of an
\* older release was opened (social.rs store, sweep, reindex): no page is
\* cut short by a dangling row and no held event is unreachable.
IndexesAgree ==
    \A n \in Live :
        LET E == log[n].events
        IN /\ log[n].byAuthor = {AuthorRow(e) : e \in E}
           /\ log[n].byTime = {TimeRow(e) : e \in E}
           /\ log[n].byTarget = UNION {TargetRows(e) : e \in E}
           /\ log[n].byChannel = UNION {ChannelRows(e) : e \in E}
           /\ log[n].byTag = UNION {TagRows(e) : e \in E}

\* A device forks its own chain only after a publish whose answer was lost
\* or a crash before the vault was saved (Social::publish, persist, save):
\* refusals, retries at another node and concurrent gossip never do it.  And
\* an event that is not the first names an accepted predecessor.
ChainsAreLinked ==
    \A e \in accepted \ fsc.seed :
        /\ e.seq > 0 => \E p \in accepted : p.id = e.prev /\ p.dev = e.dev /\ p.seq = e.seq - 1
        /\ e.dev \notin mishap =>
             \A f \in accepted : f.dev = e.dev /\ f.seq = e.seq => f = e

\* The cursor of a reader passes over an event the answering node held only
\* when another event of the author has the same sequence number and the
\* page ended between the two (refresh_author).
RefreshMissesOnlyTwins ==
    \A c \in fsc.readers : \A e \in passed[c] \ cache[c] :
        \E f \in cache[c] : f.author = e.author /\ f.seq = e.seq

\* A finished walk through a node's timeline has shown every post that was
\* there all along, but for seconds with more posts than a page or in which
\* the scan cap was met; and no page sends the reader back (next_before).
PagingShowsEverything ==
    /\ \A c \in fsc.walkers : walk[c].on /\ walk[c].done =>
          \A e \in walk[c].start : e \in walk[c].seen \/ e.ts \in walk[c].excused
    /\ fsc.walkers # {} => \A n \in Live, b \in 0..(MaxTime + 1) :
          LET next == PageOf(n, WalkQuery(b)).next IN b > 0 => next < b

DistinctSeconds(S) == \A e, f \in S : e.ts = f.ts => e = f

\* Who reacted in a thread and the likes tab; the counter of the profile
\* follows when an author's reactions fall in different seconds.
ReactionsAgree(S) ==
    \A a \in {e.author : e \in S} :
        LET likes == author_tab(S, a, "Likes", 0, Cardinality(S))
            R == Kind(Of(S, a), {"REACTION"})
        IN /\ \A p \in {e.target : e \in R} :
                (a \in thread(S, p).reacted) = (\E i \in 1..Len(likes) : likes[i].target = p)
           /\ DistinctSeconds(R) => author_stats(S, a).likes = Len(likes)

\* The counters of a profile, its tabs and the author's own page.
CountersAgree(S) ==
    \A a \in {e.author : e \in S} :
        LET n == Cardinality(S)
            stats == author_stats(S, a)
            mine == my_activity(S, a)
        IN /\ stats.posts = Len(author_tab(S, a, "Posts", 0, n))
           /\ stats.replies = Len(author_tab(S, a, "Replies", 0, n))
           /\ stats.posts + stats.replies = mine.posts + mine.comments
           /\ mine.posts = Len(timeline(S, {a}, {"POST_CREATE", "REEL_CREATE"}, 0, n))

\* The local mirror of one's follows and the replay of one's own events.
MirrorAgrees(c) ==
    (c \in fsc.clients \ mishap /\ \A d \in fsc.clients \ {c} : AuthorOf[d] # AuthorOf[c]) =>
        follows[c] = following_of(cache[c], AuthorOf[c])

\* What a reader computes for itself when it holds what a node holds, and
\* what the node would have answered.
LocalAnswersAgree(S, n) ==
    S = log[n].events /\ blocked[n] = {} /\ deleted(S) = {} =>
        LET node == compute_digest(log[n], 0, {})
            own == local_digest(S, 0)
            page == PageOf(n, WalkQuery(0)).events
        IN /\ node.authors = own.authors /\ node.tags = own.tags /\ node.events = own.events
           /\ Cardinality(S) < ScanCap =>
                page = local_explore(S, WalkQuery(0).types, Nil, Nil, 0, fsc.limit).events

\* What the client shows in different places comes from the same replay of
\* the same log (feed.rs thread, author_tab, author_stats, my_activity,
\* set_follow), and its own answers are the node's (local_digest and
\* compute_digest, local_explore and fetch_page are written twice) as long
\* as nothing was deleted or blocked.
ViewsAgree ==
    \A c \in fsc.clients \cup fsc.readers :
        /\ ReactionsAgree(cache[c])
        /\ CountersAgree(cache[c])
        /\ MirrorAgrees(c)
        /\ \A n \in Live : LocalAnswersAgree(cache[c], n)

\* What is stored, chained and shown of the log agrees.
FeedAgrees == IndexesAgree /\ ChainsAreLinked /\ ViewsAgree

\* Reading on never skips: neither the cursor of an author's chain nor the
\* cursor of a page.
NothingIsSkipped == RefreshMissesOnlyTwins /\ PagingShowsEverything
=============================================================================
