------------------------------ MODULE Circles ------------------------------
(***************************************************************************)
(* Circles: private groups whose posts, comments, reactions, votes and     *)
(* deletions travel as events of one MLS group (sdk circles.rs), and the   *)
(* timeline each device folds them into (hashgram-app circle.rs).  The     *)
(* desktop commands are in cmd_feed.rs.                                    *)
(*                                                                         *)
(* Events are numbered as they are written and stamped with the writer's   *)
(* clock.  A device's store keeps every event it sent or received; its     *)
(* timeline is in memory and is rebuilt from the store by the first reader *)
(* after a restart, unless an event came first.                            *)
(***************************************************************************)
EXTENDS Integers, FiniteSets, Sequences

CONSTANTS CircleDevices, CircleOwner,  \* the devices, and the address of each
          PollOptions                  \* options of a poll: 0..PollOptions - 1

ASSUME CircleAssumption == IsFiniteSet(CircleDevices)

VARIABLES rsc,      \* the scenario: operations, polls, times and bounds
          cev,      \* every event written
          ctl,      \* the timeline in memory, or NoTimeline
          clog,     \* the events in the device's store
          cbox,     \* messages on their way: [to, id]
          cfaults

circleVars == <<rsc, cev, ctl, clog, cbox, cfaults>>

Reactions == {"like", "wow"}
CircleIds == 1..rsc.events
Authors == {CircleOwner[d] : d \in CircleDevices}

\* Timeline::default.  react and vote hold each author's current choice.
EmptyTimeline ==
  [open |-> TRUE, info |-> 0, items |-> {}, gone |-> {}, seen |-> {},
   react |-> [i \in CircleIds |-> [a \in Authors |-> "none"]],
   rcount |-> [i \in CircleIds |-> [r \in Reactions |-> 0]],
   vote |-> [i \in CircleIds |-> [a \in Authors |-> {}]],
   vcount |-> [i \in CircleIds |-> [o \in 0..PollOptions - 1 |-> 0]]]
NoTimeline == [EmptyTimeline EXCEPT !.open = FALSE]

----------------------------------------------------------------------------
(* Timeline::apply.                                                        *)

\* saturating_sub(1).
Less(n) == IF n = 0 THEN 0 ELSE n - 1

\* One reaction for each author and item: the previous one is taken back,
\* the new one counts if the item is there.
ReactedTwice(t, e) ==
  LET count == e.reaction # "none" /\ e.ref \in t.items
  IN [t EXCEPT !.react[e.ref][e.author] = IF count THEN e.reaction ELSE "none",
               !.rcount = IF count THEN [@ EXCEPT ![e.ref][e.reaction] = @ + 1] ELSE @]
Reacted(t, e) ==
  LET prev == t.react[e.ref][e.author]
      less == IF prev # "none" /\ e.ref \in t.items
              THEN [t.rcount EXCEPT ![e.ref][prev] = Less(@)] ELSE t.rcount
      count == e.reaction # "none" /\ e.ref \in t.items
  IN [t EXCEPT !.react[e.ref][e.author] = IF count THEN e.reaction ELSE "none",
               !.rcount = IF count THEN [less EXCEPT ![e.ref][e.reaction] = @ + 1] ELSE less]

\* A vote counts on an open poll; a poll with one answer takes the first.
Chosen(p, choice) ==
  IF p.multi THEN choice ELSE {o \in choice : \A q \in choice : o <= q}
Voted(t, e) ==
  LET p == cev[e.ref]
      prev == t.vote[e.ref][e.author]
      now == Chosen(p, e.choice)
  IN IF e.ref \notin t.items \/ ~p.poll \/ (p.closes # 0 /\ e.at > p.closes) THEN t
     ELSE [t EXCEPT !.vote[e.ref][e.author] = now,
                    !.vcount[e.ref] = [o \in DOMAIN @ |->
                        LET less == IF o \in prev THEN Less(@[o]) ELSE @[o]
                        IN IF o \in now THEN less + 1 ELSE less]]

Folded(t, e) ==
  CASE e.kind = "info" -> [t EXCEPT !.info = e.id]
    [] e.kind \in {"post", "comment"} -> [t EXCEPT !.items = @ \cup {e.id}]
    [] e.kind = "reaction" -> Reacted(t, e)
    [] e.kind = "vote" -> Voted(t, e)
    [] e.kind = "delete" ->
         [t EXCEPT !.gone = IF e.ref \in t.items /\ cev[e.ref].author = e.author
                            THEN @ \cup {e.ref} ELSE @]
ApplyCircle(t, e) ==
  IF e.id \in t.seen THEN t ELSE Folded([t EXCEPT !.open = TRUE, !.seen = @ \cup {e.id}], e)

----------------------------------------------------------------------------
(* The SDK: circles.rs.                                                    *)

\* timeline: rebuilt from the store in the order of its keys, (time, id),
\* if there is none in memory.
KeyOrder(i, j) ==
  \/ cev[i].at < cev[j].at
  \/ cev[i].at = cev[j].at /\ i < j
LastOf(S) == CHOOSE i \in S : \A j \in S \ {i} : KeyOrder(j, i)
Rebuilt(log) ==
  LET replayed[S \in SUBSET log] ==
        IF S = {} THEN EmptyTimeline
        ELSE ApplyCircle(replayed[S \ {LastOf(S)}], cev[LastOf(S)])
  IN replayed[log]

\* record: into the store, then into the timeline in memory, a new one if
\* there is none.
Record(d, e) ==
  /\ clog' = [clog EXCEPT ![d] = @ \cup {e.id}]
  /\ ctl' = [ctl EXCEPT ![d] = ApplyCircle(@, e)]

\* send: to the group, then recorded here.  A crash in between leaves the
\* event with the others only.
SendCircle(d, e) ==
  /\ cev' = Append(cev, e)
  /\ cbox' = cbox \cup [to : CircleDevices \ {d}, id : {e.id}]
  /\ \/ Record(d, e) /\ UNCHANGED cfaults
     \/ /\ cfaults < rsc.faults /\ cfaults' = cfaults + 1
        /\ ctl' = [ctl EXCEPT ![d] = NoTimeline]
        /\ UNCHANGED clog
  /\ UNCHANGED rsc

\* build: the fields an event does not use hold their defaults.
CircleEvent(d, kind, at) ==
  [id |-> Len(cev) + 1, author |-> CircleOwner[d], at |-> at, kind |-> kind, ref |-> 0,
   reaction |-> "none", choice |-> {}, poll |-> FALSE, multi |-> FALSE, closes |-> 0]
Items(d) == ctl[d].items

CirclePost(d, at) ==
  \E poll \in rsc.polls :
    SendCircle(d, [CircleEvent(d, "post", at) EXCEPT
                     !.poll = poll.on, !.multi = poll.multi, !.closes = poll.closes])
CircleComment(d, at) ==
  \E i \in Items(d) : SendCircle(d, [CircleEvent(d, "comment", at) EXCEPT !.ref = i])
React(d, at) ==
  \E i \in Items(d), r \in Reactions \cup {"none"} :
    SendCircle(d, [CircleEvent(d, "reaction", at) EXCEPT !.ref = i, !.reaction = r])
Vote(d, at) ==
  \E i \in Items(d), c \in SUBSET (0..PollOptions - 1) :
    SendCircle(d, [CircleEvent(d, "vote", at) EXCEPT !.ref = i, !.choice = c])
DeleteItem(d, at) ==
  \E i \in Items(d) : SendCircle(d, [CircleEvent(d, "delete", at) EXCEPT !.ref = i])
SetCircleInfo(d, at) == SendCircle(d, CircleEvent(d, "info", at))

\* handle_incoming: delivery may repeat, so a message is not used up until
\* the mailbox forgets it.
HandleCircle(d, i) ==
  /\ [to |-> d, id |-> i] \in cbox
  /\ Record(d, cev[i])
  /\ UNCHANGED <<rsc, cev, cbox, cfaults>>
RestartCircles(d) ==
  /\ "restart" \in rsc.ops
  /\ ctl' = [ctl EXCEPT ![d] = NoTimeline]
  /\ UNCHANGED <<rsc, cev, clog, cbox, cfaults>>

----------------------------------------------------------------------------
(* The desktop commands: cmd_feed.rs.                                      *)

CanWrite(d, op) == op \in rsc.ops /\ Len(cev) < rsc.events
circles_post(d) == CanWrite(d, "post") /\ \E at \in rsc.times : CirclePost(d, at)
circles_comment(d) == CanWrite(d, "comment") /\ \E at \in rsc.times : CircleComment(d, at)
circles_react(d) == CanWrite(d, "react") /\ \E at \in rsc.times : React(d, at)
circles_vote(d) == CanWrite(d, "vote") /\ \E at \in rsc.times : Vote(d, at)
circles_delete(d) == CanWrite(d, "delete") /\ \E at \in rsc.times : DeleteItem(d, at)
circles_set_info(d) == CanWrite(d, "info") /\ \E at \in rsc.times : SetCircleInfo(d, at)
\* Reading brings the timeline into memory.
circles_posts(d) ==
  /\ ~ctl[d].open
  /\ rsc.ops # {}
  /\ ctl' = [ctl EXCEPT ![d] = Rebuilt(clog[d])]
  /\ UNCHANGED <<rsc, cev, clog, cbox, cfaults>>

CircleInit(scenarios) ==
  /\ rsc \in scenarios
  /\ cev = << >> /\ cbox = {} /\ cfaults = 0
  /\ ctl = [d \in CircleDevices |-> NoTimeline]
  /\ clog = [d \in CircleDevices |-> {}]

CircleNext ==
  \E d \in CircleDevices :
    \/ circles_post(d)
    \/ circles_comment(d)
    \/ circles_react(d)
    \/ circles_vote(d)
    \/ circles_delete(d)
    \/ circles_set_info(d)
    \/ circles_posts(d)
    \/ \E i \in 1..Len(cev) : HandleCircle(d, i)
    \/ RestartCircles(d)

----------------------------------------------------------------------------
(* Properties.                                                             *)

\* Whatever was repeated, reordered, taken back or rebuilt, what a timeline
\* counts is what its authors chose: one reaction for each author and item,
\* and one answer for each author of a poll with one answer (Timeline::apply
\* keeps the counts and the choices in separate maps).
CountsAreChoices ==
  \A d \in CircleDevices, i \in 1..Len(cev) :
    LET t == ctl[d] IN
    /\ \A r \in Reactions :
         t.rcount[i][r] = Cardinality({a \in Authors : t.react[i][a] = r})
    /\ \A o \in 0..PollOptions - 1 :
         t.vcount[i][o] = Cardinality({a \in Authors : o \in t.vote[i][a]})
    /\ ~cev[i].multi => \A a \in Authors : Cardinality(t.vote[i][a]) <= 1

=============================================================================
