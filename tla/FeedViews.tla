------------------------------ MODULE FeedViews -----------------------------
(***************************************************************************)
(* What the SDK shows from its cache of events (feed.rs): the timelines,   *)
(* the tabs and counters of a profile, a thread, one's own activity and    *)
(* the digest a client computes for itself.  S is the set of cached        *)
(* events; the store hands them out in the order of their ids.             *)
(***************************************************************************)
EXTENDS SocialLog

\* sort_by_key(timestamp) keeps the order of the store within a second.
ByTime(e, f) == \/ e.ts < f.ts
                \/ e.ts = f.ts /\ e.id < f.id

\* sort_by_key((timestamp, sequence)).
ByTimeThenSequence(e, f) ==
    \/ e.ts < f.ts
    \/ e.ts = f.ts /\ e.seq < f.seq
    \/ e.ts = f.ts /\ e.seq = f.seq /\ e.id < f.id

Latest(S, Less(_, _)) == CHOOSE e \in S : \A f \in S \ {e} : Less(f, e)

deleted(S) == {e.target : e \in Kind(S, {"POST_DELETE"})}
Of(S, a) == {e \in S : e.author = a}

Newest(S, limit) ==
    LET s == Backwards(Ascending(S, ByTime)) IN SubSeq(s, 1, LeastOf(limit, Len(s)))

Earlier(S, before) == {e \in S : before = 0 \/ e.ts < before}

\* A page of the cached events of some authors and kinds.
timeline(S, authors, kinds, before, limit) ==
    Newest({e \in Earlier(S, before) : /\ authors = {} \/ e.author \in authors
                                       /\ kinds = {} \/ e.kind \in kinds
                                       /\ e.id \notin deleted(S)}, limit)

\* The targets whose last reaction in S is not empty.
StandingLikes(S, Less(_, _)) ==
    LET R == Kind(S, {"REACTION"})
    IN {t \in {e.target : e \in R} : Latest({e \in R : e.target = t}, Less).on}

\* The profile tabs; the likes tab shows what still stands.
author_tab(S, a, tab, before, limit) ==
    LET mine == {e \in Earlier(Of(S, a), before) : e.id \notin deleted(S)}
        keep == CASE tab = "Posts" ->
                       {e \in mine : \/ e.kind = "POST_CREATE" /\ e.target = Nil
                                     \/ e.kind \in {"REEL_CREATE", "REPOST"}}
                  [] tab = "Replies" ->
                       {e \in mine : \/ e.kind = "POST_CREATE" /\ e.target # Nil
                                     \/ e.kind = "COMMENT_CREATE"}
                  [] tab = "Likes" ->
                       {Latest({e \in Kind(mine, {"REACTION"}) : e.target = t}, ByTime) :
                          t \in StandingLikes(mine, ByTime)}
    IN Newest(keep, limit)

\* FOLLOW and UNFOLLOW replayed.
Followed(S, Less(_, _)) ==
    LET F == Kind(S, {"FOLLOW", "UNFOLLOW"})
    IN {t \in {e.target : e \in F} :
          Latest({e \in F : e.target = t}, Less).kind = "FOLLOW"}

following_of(S, a) == Followed(Of(S, a), ByTimeThenSequence)

\* The counters of a profile.
author_stats(S, a) ==
    LET mine == {e \in Of(S, a) : e.id \notin deleted(S)}
        posts == Kind(mine, {"POST_CREATE", "REEL_CREATE"})
        replies == {e \in Kind(posts, {"POST_CREATE"}) : e.target # Nil}
    IN [posts |-> Cardinality(posts \ replies),
        replies |-> Cardinality(replies \cup Kind(mine, {"COMMENT_CREATE"})),
        likes |-> Cardinality(StandingLikes(mine, ByTimeThenSequence)),
        following |-> Cardinality(Followed(mine, ByTimeThenSequence)),
        complete |-> \E e \in mine : e.seq = 0]

\* A post's comments and who reacted: one standing reaction per author.
thread(S, p) ==
    LET R(a) == {e \in Kind(Of(S, a), {"REACTION"}) : e.target = p}
    IN [comments |-> Ascending({e \in Kind(S, {"COMMENT_CREATE"}) : e.target = p}, ByTime),
        reacted |-> {a \in {e.author : e \in S} : R(a) # {} /\ Latest(R(a), ByTime).on}]

\* One's own counters; follows are replayed in the order of the store.
my_activity(S, me) ==
    LET mine == Of(S, me)
        ids == {e.id : e \in mine}
        InStore(e, f) == e.id < f.id
        gone == deleted(mine)
        posts == {e \in Kind(mine, {"POST_CREATE", "REEL_CREATE"}) : e.id \notin gone}
    IN [events |-> Cardinality(mine),
        posts |-> Cardinality(posts),
        comments |-> Cardinality(Kind(mine, {"COMMENT_CREATE"})),
        reactions |-> Cardinality({e \in Kind(mine, {"REACTION"}) : e.on}),
        reposts |-> Cardinality(Kind(mine, {"REPOST"})),
        wallsCreated |-> Cardinality(Kind(mine, {"CHANNEL_CREATE"})),
        wallsPosted |-> {e.channel : e \in posts} \ {Nil},
        following |-> Cardinality(Followed(mine, InStore)),
        commentsReceived |-> Cardinality({e \in Kind(S \ mine, {"COMMENT_CREATE"}) :
                                             e.target \in ids}),
        reactionsReceived |-> Cardinality({e \in Kind(S \ mine, {"REACTION"}) :
                                             e.on /\ e.target \in ids})]

\* The digest a client computes from its cache when no node offers one.
local_digest(S, since) ==
    LET seen == {e \in S : e.ts >= since /\ e.id \notin deleted(S)}
        Owner(e) == {t.author : t \in {x \in S : x.id = e.target}}
        Received(a, k) == Cardinality({e \in Kind(seen, k) : a \in Owner(e) /\ a # e.author})
        Row(a) == [posts |-> Cardinality(Kind(Of(seen, a), {"POST_CREATE", "REEL_CREATE"})),
                   comments |-> Cardinality(Kind(Of(seen, a), {"COMMENT_CREATE"})),
                   reactionsReceived |-> Received(a, {"REACTION"}),
                   commentsReceived |-> Received(a, {"COMMENT_CREATE"})]
        Active(a) == \E k \in DOMAIN Row(a) : Row(a)[k] > 0
    IN [events |-> Cardinality(seen),
        authors |-> [a \in {x \in {e.author : e \in S} : Active(x)} |-> Row(a)],
        tags |-> UNION {e.tags : e \in Kind(seen, {"POST_CREATE", "REEL_CREATE"})}]

\* An Explore page of the cache; its cursor is the second of its last item.
local_explore(S, kinds, tag, channel, before, limit) ==
    LET some == {e \in Earlier(S, before) :
                   /\ kinds = {} \/ e.kind \in kinds
                   /\ e.id \notin deleted(S)
                   /\ channel = Nil \/ e.channel = channel
                   /\ tag = Nil \/ tag \in e.tags}
        page == Newest(some, limit)
    IN [events |-> page,
        next |-> IF Cardinality(some) > limit THEN page[Len(page)].ts ELSE 0]
=============================================================================
