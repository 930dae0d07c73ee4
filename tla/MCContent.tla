----------------------------- MODULE MCContent -----------------------------
(***************************************************************************)
(* Content for TLC: the social log and the feed read from it, and the      *)
(* Drive two devices share.  They share no state: a behaviour runs one of  *)
(* them (part), in one scenario.                                           *)
(***************************************************************************)
EXTENDS SocialFeed, DriveSync, TLC
CONSTANTS c1, c2, r, alice, bob, n1, n2, rust
VARIABLE part
vars == <<part, feedVars, driveVars>>

----------------------------------------------------------------------------
(* The feed: a chain written through two nodes and read back, two devices  *)
(* of one author that react to a post, follows, walls, and logs of an      *)
(* older release that are paged and swept.                                 *)
MCAuthorOf == [c \in Clients |-> IF c = r THEN bob ELSE alice]

Draft(kind, target, channel, tags, on) ==
    [kind |-> kind, target |-> target, channel |-> channel, tags |-> tags, on |-> on]
Seeded(id, seq, ts, kind, target, tags) ==
    [id |-> id, author |-> bob, dev |-> Nil, seq |-> seq, prev |-> Nil, ts |-> ts,
     kind |-> kind, target |-> target, channel |-> Nil, tags |-> tags, on |-> TRUE]

Post == Draft("POST_CREATE", Nil, Nil, {rust}, TRUE)
Nobody == [c \in Clients |-> {}]

Basic == [ids |-> 1..2, clients |-> {c1}, readers |-> {r}, walkers |-> {}, nodes |-> {n1},
          drafts |-> Nobody, seed |-> {}, now |-> 1, until |-> 2, limit |-> 2, faults |-> {}]

Chain == [Basic EXCEPT !.nodes = {n1, n2}, !.until = 1, !.limit = 1, !.readers = {},
                       !.drafts[c1] = {Post},
                       !.faults = {"timeout", "crash", "restart", "revoke", "chain"}]
Likes == [Basic EXCEPT !.ids = 1..3, !.seed = {Seeded(3, 0, 1, "POST_CREATE", Nil, {})},
                       !.drafts[c1] = {Draft("REACTION", 3, Nil, {}, TRUE),
                                       Draft("REACTION", 3, Nil, {}, FALSE),
                                       Draft("COMMENT_CREATE", 3, Nil, {}, TRUE)}]
Reads == [Chain EXCEPT !.readers = {r}, !.faults = {}]
Follows == [Basic EXCEPT !.limit = 1, !.faults = {"timeout", "crash"},
                         !.drafts[c1] = {Draft(k, bob, Nil, {}, TRUE) : k \in {"FOLLOW", "UNFOLLOW"}}]
Walls == [Basic EXCEPT !.ids = 1..3, !.clients = {c1, r}, !.until = 1,
                       !.drafts[c1] = {Draft("CHANNEL_CREATE", Nil, Nil, {}, FALSE),
                                       Draft("POST_CREATE", Nil, 1, {}, TRUE)},
                       !.drafts[r] = {Draft("POST_CREATE", Nil, 1, {}, TRUE)}]
Paging == {[Basic EXCEPT
              !.ids = 1..6, !.readers = {}, !.walkers = {r}, !.now = 3, !.until = 3,
              !.drafts[c1] = {Post}, !.faults = {"block"},
              !.seed = {Seeded(i, i, at[i], "POST_CREATE", Nil, {rust}) : i \in 1..4} \cup
                       {Seeded(5, 5, 2, "COMMENT_CREATE", 1, {})}] :
             at \in {f \in [1..4 -> 1..3] : \A i \in 1..3 : f[i] <= f[i + 1]}}

MCFeedScenarios == {Chain, Reads, Likes, Follows, Walls} \cup Paging

----------------------------------------------------------------------------
\* A Drive both devices have in common: folders 1 (a) and 2 (b) at the root,
\* file 3 (f) in folder 1.
Common ==
  [NewManifest(1, 1, 0) EXCEPT
     !.rev = 4,
     !.entries = 1 :> Entry(Root, TRUE, Plain("a"), 0, NoObject)
                 @@ 2 :> Entry(Root, TRUE, Plain("b"), 0, NoObject)
                 @@ 3 :> Entry(1, FALSE, Plain("f"), 0, 1)]
\* ... with a live share of the file.
Shared == [Common EXCEPT
  !.shares = 1 :> [entry |-> 3, live |-> TRUE, revoked |-> FALSE]]

\* ... with folder 2 and a file in it in the trash.
Trashed ==
  [Common EXCEPT !.entries = (2 :> [@[2] EXCEPT !.trashed = TRUE, !.trashedAt = 0])
     @@ (4 :> [Entry(2, FALSE, Plain("a"), 0, 2) EXCEPT !.trashed = TRUE]) @@ @]

Base == [fresh |-> {}, start |-> Common, made |-> 2, names |-> {"a"}, ops |-> {}, ids |-> {5},
         edits |-> <<2, 1>>, commits |-> <<1, 1>>, restarts |-> <<0, 0>>, until |-> 1, maxRev |-> 9]

\* folders made and moved on both sides
Moves == [Base EXCEPT !.ops = {"mkdir", "mv"}]
\* the trash: a folder trashed, restored or deleted on one side and used on
\* the other
Trashes == [Base EXCEPT !.ops = {"trash", "restore", "delete", "empty", "upload"},
                        !.start = Trashed, !.until = 2, !.edits = <<1, 1>>]
\* names and places of files
Files == [Base EXCEPT !.ops = {"upload", "copy", "rename", "star"}, !.ids = {4, 5},
                      !.names = {"a", "f"}, !.edits = <<1, 1>>]
\* versions of a file
Versions == [Base EXCEPT !.ops = {"update", "restore_version", "rename"},
                         !.edits = <<2, 2>>]
\* shares
Sharing == [Base EXCEPT !.ops = {"update", "rekey", "share", "revoke"},
                        !.start = Shared, !.edits = <<1, 1>>]
\* ... and a restart between them
Withdrawing == [Sharing EXCEPT !.ops = {"rekey", "share", "revoke"}, !.restarts = <<1, 0>>]
\* two new devices
NewDevices == [Base EXCEPT !.fresh = Devices, !.ops = {"mkdir", "upload"}, !.ids = {1, 2},
                      !.made = 0, !.restarts = <<1, 0>>, !.edits = <<1, 1>>]

MCDriveScenarios == {Moves, Trashes, Files, Versions, Sharing, Withdrawing, NewDevices}

----------------------------------------------------------------------------
Init ==
  /\ part \in {"feed", "drive"}
  /\ FeedInit(IF part = "feed" THEN MCFeedScenarios ELSE {Walls})
  /\ DriveInit(IF part = "drive" THEN MCDriveScenarios ELSE {Moves})

Next ==
  \/ part = "feed" /\ FeedNext /\ UNCHANGED <<part, driveVars>>
  \/ part = "drive" /\ DriveNext /\ UNCHANGED <<part, feedVars>>

Spec == Init /\ [][Next]_vars
=============================================================================
