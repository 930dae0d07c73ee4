----------------------------- MODULE SocialLog -----------------------------
(***************************************************************************)
(* The social log of a node (hashgram-node/src/social.rs) as pure          *)
(* operators on a log record: what an event refers to, how it is filed in  *)
(* the five indexes, how pages are cut, what the sweep removes, what the   *)
(* digest counts, and what a rate limiter lets through.                    *)
(*                                                                         *)
(* An event is [id, author, dev, seq, prev, ts, kind, target, channel,     *)
(* tags, on]: `target` is the post, comment or address it points at,       *)
(* `channel` its wall, `on` whether a reaction is non-empty, a wall open.  *)
(* Ids are numbers, ordered as the content hashes are: without any         *)
(* relation to the order in which the events were made.                    *)
(***************************************************************************)
EXTENDS Integers, Sequences, FiniteSets

CONSTANTS
    Nil,           \* no target, no wall
    PageCap,       \* MAX_EVENT_PAGE
    ScanCap,       \* MAX_TIMELINE_SCAN
    AnyBurst,      \* ANY_BURST
    PostBurst      \* POST_BURST

ContentKinds == {"POST_CREATE", "REEL_CREATE", "STORY_CREATE",
                 "CHANNEL_CREATE", "REPOST"}

LeastOf(a, b) == IF a < b THEN a ELSE b

\* The elements of S in ascending order of Less.
Ascending(S, Less(_, _)) ==
    [i \in 1..Cardinality(S) |->
        CHOOSE x \in S : Cardinality({y \in S : Less(y, x)}) = i - 1]

Backwards(s) == [i \in 1..Len(s) |-> s[Len(s) + 1 - i]]

\* Rows of every index are <<key, number, id>>; redb orders them so.
RowLess(r, s) == \/ r[2] < s[2]
                 \/ r[2] = s[2] /\ r[3] < s[3]

-----------------------------------------------------------------------------
(* References and indexes.                                                  *)

\* What an event points at, by its kind.
refs_of(ev) ==
    [targets |-> IF ev.kind \in {"POST_CREATE", "POST_EDIT", "POST_DELETE",
                                 "COMMENT_CREATE", "REACTION", "REPOST"}
                   THEN {ev.target} \ {Nil} ELSE {},
     channel |-> CASE ev.kind = "CHANNEL_CREATE" -> {ev.id}
                   [] ev.kind = "POST_CREATE" -> {ev.channel} \ {Nil}
                   [] OTHER -> {},
     tags    |-> IF ev.kind \in {"POST_CREATE", "POST_EDIT", "REEL_CREATE"}
                   THEN ev.tags ELSE {}]

TargetRows(ev) == {<<t, ev.ts, ev.id>> : t \in refs_of(ev).targets}
ChannelRows(ev) == {<<c, ev.ts, ev.id>> : c \in refs_of(ev).channel}
TagRows(ev) == {<<t, ev.ts, ev.id>> : t \in refs_of(ev).tags}
AuthorRow(ev) == <<ev.author, ev.seq, ev.id>>
TimeRow(ev) == <<Nil, ev.ts, ev.id>>

EmptyLog(version) ==
    [events |-> {}, byAuthor |-> {}, byTime |-> {}, byTarget |-> {},
     byChannel |-> {}, byTag |-> {}, version |-> version]

\* Files the references of the events of S into the derived indexes.
index_refs(log, S) ==
    [log EXCEPT !.byTarget = @ \cup UNION {TargetRows(e) : e \in S},
                !.byChannel = @ \cup UNION {ChannelRows(e) : e \in S},
                !.byTag = @ \cup UNION {TagRows(e) : e \in S}]

held(log, id) == \E e \in log.events : e.id = id

\* One transaction; an event already held leaves the log alone.
store(log, ev) ==
    IF held(log, ev.id) THEN log
    ELSE index_refs([log EXCEPT !.events = @ \cup {ev},
                                !.byAuthor = @ \cup {AuthorRow(ev)},
                                !.byTime = @ \cup {TimeRow(ev)}], {ev})

\* A store written by a release without the derived indexes gets them when
\* it is opened.
IndexVersion == 2
open(log) == IF log.version < IndexVersion
               THEN [index_refs(log, log.events) EXCEPT !.version = IndexVersion]
               ELSE log

\* Mutant: the tag index keeps the rows of swept events.
SweepKeepsTags(log, cutoff, maxEvents) ==
    LET rows == Ascending(log.byTime, RowLess)
        excess == Cardinality(log.events) - maxEvents
        gone == {rows[i][3] : i \in {j \in 1..Len(rows) :
                   \A k \in 1..j : rows[k][2] < cutoff \/ k <= excess}}
        victims == {e \in log.events : e.id \in gone}
    IN [log EXCEPT !.events = @ \ victims,
                   !.byTime = @ \ {TimeRow(e) : e \in victims},
                   !.byAuthor = @ \ {AuthorRow(e) : e \in victims},
                   !.byTarget = @ \ UNION {TargetRows(e) : e \in victims},
                   !.byChannel = @ \ UNION {ChannelRows(e) : e \in victims}]

\* The oldest events while they are past retention or beyond the cap.
sweep(log, cutoff, maxEvents) ==
    LET rows == Ascending(log.byTime, RowLess)
        excess == Cardinality(log.events) - maxEvents
        gone == {rows[i][3] : i \in {j \in 1..Len(rows) :
                   \A k \in 1..j : rows[k][2] < cutoff \/ k <= excess}}
        victims == {e \in log.events : e.id \in gone}
    IN [log EXCEPT !.events = @ \ victims,
                   !.byTime = @ \ {TimeRow(e) : e \in victims},
                   !.byAuthor = @ \ {AuthorRow(e) : e \in victims},
                   !.byTarget = @ \ UNION {TargetRows(e) : e \in victims},
                   !.byChannel = @ \ UNION {ChannelRows(e) : e \in victims},
                   !.byTag = @ \ UNION {TagRows(e) : e \in victims}]

-----------------------------------------------------------------------------
(* Pages.                                                                   *)

\* Filter::passes: kinds, hashtag and wall; a wall's own creation is no post.
Passes(f, ev) ==
    /\ f.types = {} \/ ev.kind \in f.types
    /\ f.tag = Nil \/ f.tag \in refs_of(ev).tags
    /\ f.channel = Nil \/ (f.channel \in refs_of(ev).channel /\ ev.id # f.channel)

\* Walks rows until the page is full or the scan cap is met (a blocked row
\* is counted, but only a full page stops the walk there).
RowWalk(log, rows, f, limit, blocked) ==
    LET EventOf(id) == CHOOSE e \in log.events : e.id = id
        Shown(i) == /\ rows[i][3] \notin blocked
                    /\ held(log, rows[i][3])
                    /\ Passes(f, EventOf(rows[i][3]))
        ShownTo(i) == {j \in 1..i : Shown(j)}
        Stops(i) == \/ Cardinality(ShownTo(i)) >= limit
                    \/ i >= ScanCap /\ rows[i][3] \notin blocked
        end == IF \E i \in 1..Len(rows) : Stops(i)
                 THEN CHOOSE i \in 1..Len(rows) :
                        Stops(i) /\ \A j \in 1..(i - 1) : ~Stops(j)
                 ELSE Len(rows)
    IN [events |-> [k \in 1..Cardinality(ShownTo(end)) |->
                      EventOf(rows[CHOOSE i \in ShownTo(end) :
                                     Cardinality(ShownTo(i)) = k][3])],
        scanned |-> end,
        last |-> IF end = 0 THEN 0 ELSE rows[end][2]]

\* Mutant: a full page always steps past its last second.
NextBeforeSkips(events, limit, scanned, lastTs) ==
    IF Len(events) < limit THEN IF scanned >= ScanCap THEN lastTs ELSE 0
    ELSE events[Len(events)].ts

\* The cursor of the next page of a newest-first walk; 0 ends it.
next_before(events, limit, scanned, lastTs) ==
    IF Len(events) < limit THEN IF scanned >= ScanCap THEN lastTs ELSE 0
    ELSE IF events[1].ts = events[Len(events)].ts THEN events[Len(events)].ts
         ELSE events[Len(events)].ts + 1

AnyQuery == [ids |-> {}, target |-> Nil, author |-> Nil, from |-> 0,
             latest |-> FALSE, before |-> 0, limit |-> 0, types |-> {},
             tag |-> Nil, channel |-> Nil]

\* One page by ids, target, author or timeline, in that order of precedence.
fetch_page(log, f, blocked) ==
    LET limit == IF f.limit = 0 THEN PageCap ELSE LeastOf(f.limit, PageCap)
        Walk(rows) == RowWalk(log, rows, f, limit, blocked)
        Of(index, key) == Ascending({r \in index : r[1] = key}, RowLess)
        asked == {<<Nil, 0, id>> : id \in f.ids}
        authorRows == SelectSeq(Of(log.byAuthor, f.author), LAMBDA r : r[2] >= f.from)
        index == CASE f.channel # Nil -> {r \in log.byChannel : r[1] = f.channel}
                   [] f.channel = Nil /\ f.tag # Nil -> {r \in log.byTag : r[1] = f.tag}
                   [] OTHER -> log.byTime
        older == {r \in index : f.before = 0 \/ r[2] < f.before}
        page == Walk(Backwards(Ascending(older, RowLess)))
    IN CASE f.ids # {} -> [events |-> Walk(Ascending(asked, RowLess)).events, next |-> 0]
         [] f.ids = {} /\ f.target # Nil ->
              [events |-> Walk(Of(log.byTarget, f.target)).events, next |-> 0]
         [] f.ids = {} /\ f.target = Nil /\ f.author # Nil ->
              [events |-> Walk(IF f.latest THEN Backwards(authorRows)
                                           ELSE authorRows).events, next |-> 0]
         [] OTHER -> [events |-> page.events,
                      next |-> next_before(page.events, limit, page.scanned, page.last)]

-----------------------------------------------------------------------------
(* The digest of a node and the rate limiter.                               *)

Kind(S, k) == {e \in S : e.kind \in k}

\* Per author: posts, comments, and what others did under what it wrote,
\* credited through the target while the node still holds the target.
compute_digest(log, since, blocked) ==
    LET seen == {e \in log.events : e.ts >= since /\ e.id \notin blocked}
        Owner(e) == {t.author : t \in {x \in log.events : x.id = e.target}}
        Received(a, k) == Cardinality({e \in Kind(seen, k) :
                                          a \in Owner(e) /\ a # e.author})
        Row(a) == [posts |-> Cardinality({e \in Kind(seen, {"POST_CREATE", "REEL_CREATE"}) :
                                             e.author = a}),
                   comments |-> Cardinality({e \in Kind(seen, {"COMMENT_CREATE"}) : e.author = a}),
                   reactionsReceived |-> Received(a, {"REACTION"}),
                   commentsReceived |-> Received(a, {"COMMENT_CREATE"})]
        Active(a) == \E k \in DOMAIN Row(a) : Row(a)[k] > 0
        authors == {a \in {e.author : e \in log.events} : Active(a)}
        walls == {e \in log.events : e.kind = "CHANNEL_CREATE" /\ e.id \notin blocked}
    IN [events |-> Cardinality(seen),
        authors |-> [a \in authors |-> Row(a)],
        tags |-> UNION {refs_of(e).tags : e \in Kind(seen, {"POST_CREATE", "REEL_CREATE"})},
        walls |-> {[id |-> w.id, creator |-> w.author, open |-> w.on] : w \in walls}]

\* Bucket::take; one token comes back every second.
Refilled(b, now, burst) == LeastOf(b.tokens + (now - b.last), burst)
take(b, now, burst) == [tokens |-> Refilled(b, now, burst) - 1, last |-> now]

FullBuckets(now) == [any |-> [tokens |-> AnyBurst, last |-> now],
                     posts |-> [tokens |-> PostBurst, last |-> now]]

\* A refusal consumes nothing; only content is charged to `posts`.
Affordable(b, kind, now) ==
    /\ kind \in ContentKinds => Refilled(b.posts, now, PostBurst) >= 1
    /\ Refilled(b.any, now, AnyBurst) >= 1

Charged(b, kind, now) ==
    [any |-> take(b.any, now, AnyBurst),
     posts |-> IF kind \in ContentKinds THEN take(b.posts, now, PostBurst) ELSE b.posts]
=============================================================================
