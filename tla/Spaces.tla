------------------------------- MODULE Spaces -------------------------------
(***************************************************************************)
(* Spaces: a log of signed events that every member's device replays into  *)
(* a role table (hashgram-app space.rs), the SDK that writes, sends,       *)
(* records and replays the log (sdk spaces.rs), and the desktop commands   *)
(* over it (cmd_spaces.rs).                                                *)
(*                                                                         *)
(* Events are numbered in the order they are written; their time stamps    *)
(* are whatever the writer's clock says.  A message that is never handled  *)
(* is a lost one.  The MLS group is the set of addresses that receive.     *)
(***************************************************************************)
EXTENDS Integers, FiniteSets, Sequences
LOCAL INSTANCE SequencesExt
LOCAL INSTANCE TLC

CONSTANTS SpaceDevices, SpaceOwner,   \* the devices, and the address of each
          MaxMembers                  \* MAX_MEMBERS

VARIABLES ssc,      \* the scenario: operations, roles, times, bounds, and
                    \* MAX_PENDING in ssc.pending
          sev,      \* every event written
          srep,     \* a device's replayed state
          slog,     \* a device's stored log: the events it recorded
          smls,     \* addresses in the Space's MLS group
          sbox,     \* messages on their way: [to, sender, id]
          sfaults

spaceVars == <<ssc, sev, srep, slog, smls, sbox, sfaults>>

People == {SpaceOwner[d] : d \in SpaceDevices}
Nobody == "nobody"

\* SpaceRole, by rank.
NoRole == 0
GuestRole == 1
MemberRole == 2
AdminRole == 3
OwnerRole == 4

SpaceBody(kind, who, role, ref) == [kind |-> kind, who |-> who, role |-> role, ref |-> ref]

NewState ==
  [made |-> FALSE, info |-> 0, mem |-> [p \in People |-> NoRole], content |-> {}, drive |-> {},
   seq |-> [p \in People |-> 0], applied |-> {}, pending |-> << >>]

----------------------------------------------------------------------------
(* The rules: hashgram-app space.rs.                                       *)

\* validate: what an event may say at all.
ValidEvent(b) ==
  /\ b.kind = "add" => b.role \in {GuestRole, MemberRole, AdminRole}
  /\ b.kind = "role" => b.role \in {GuestRole, MemberRole, AdminRole, OwnerRole}

\* An event that depends on one not seen yet is kept for later.
GapForPosts(s, e) ==
  e.body.kind \notin {"create", "add", "remove", "role"} /\ e.seq > s.seq[e.actor] + 1
Gap(s, e) == e.body.kind # "create" /\ e.seq > s.seq[e.actor] + 1
Waits(s, e) ==
  LET b == e.body IN
  \/ Gap(s, e)
  \/ b.kind # "create" /\ ~s.made
  \/ b.kind \in {"remove", "role"} /\ s.mem[b.who] = NoRole
  \/ b.kind = "unshare" /\ b.ref \notin s.drive
  \/ b.kind = "comment" /\ s.mem[e.actor] >= MemberRole
       /\ ~\E i \in s.content : i = b.ref /\ sev[i].body.kind # "comment"

MayAdd(s, e) ==
  LET rank == s.mem[e.actor] IN
  /\ rank >= AdminRole
  /\ e.body.role <= rank
  /\ e.body.role = AdminRole => rank = OwnerRole
  /\ s.mem[e.body.who] = NoRole
  /\ Cardinality({p \in People : s.mem[p] # NoRole}) < MaxMembers
MayRemove(s, e) ==
  LET rank == s.mem[e.actor] IN
  \/ e.body.who = e.actor /\ rank # OwnerRole
  \/ rank >= AdminRole /\ s.mem[e.body.who] < rank
MayChangeRole(s, e) ==
  \/ s.mem[e.actor] = OwnerRole
  \/ /\ s.mem[e.actor] = AdminRole /\ e.body.who # e.actor
     /\ s.mem[e.body.who] < AdminRole /\ e.body.role <= MemberRole

Allowed(s, e) ==
  LET b == e.body
      rank == s.mem[e.actor]
  IN \/ b.kind = "create" /\ ~s.made /\ b.who = e.actor
     \/ b.kind \in {"info", "announce"} /\ rank >= AdminRole
     \/ b.kind = "add" /\ MayAdd(s, e)
     \/ b.kind = "remove" /\ MayRemove(s, e)
     \/ b.kind = "role" /\ MayChangeRole(s, e)
     \/ b.kind \in {"share", "post", "comment"} /\ rank >= MemberRole
     \/ b.kind = "unshare" /\ (sev[b.ref].actor = e.actor \/ rank >= AdminRole)

MembersAfter(s, e) ==
  LET b == e.body IN
  CASE b.kind = "create" -> [s.mem EXCEPT ![e.actor] = OwnerRole]
    [] b.kind = "add"    -> [s.mem EXCEPT ![b.who] = b.role]
    [] b.kind = "remove" -> [s.mem EXCEPT ![b.who] = NoRole]
    [] b.kind = "role"   -> IF b.role = OwnerRole
                            THEN [s.mem EXCEPT ![e.actor] = AdminRole, ![b.who] = OwnerRole]
                            ELSE [s.mem EXCEPT ![b.who] = b.role]
    [] OTHER -> s.mem
\* apply_verified, of an event that neither waits nor is refused.
Applied(s, e) ==
  LET b == e.body IN
  [s EXCEPT !.made = TRUE,
            !.info = IF b.kind \in {"create", "info"} THEN e.id ELSE @,
            !.mem = MembersAfter(s, e),
            !.content = IF b.kind \in {"announce", "post", "comment"} THEN @ \cup {e.id} ELSE @,
            !.drive = (IF b.kind = "share" THEN @ \cup {e.id} ELSE @)
                      \ (IF b.kind = "unshare" THEN {b.ref} ELSE {}),
            !.seq[e.actor] = e.seq,
            !.applied = @ \cup {e.id}]

\* A repeated event is one the state has, or a sequence number it has used.
Replayed(s, e) == e.id \in s.applied \/ e.seq <= s.seq[e.actor]

Verdict(s, e) ==
  CASE Replayed(s, e) -> "replay"
    [] ~Replayed(s, e) /\ Waits(s, e) -> "pending"
    [] ~Replayed(s, e) /\ ~Waits(s, e) /\ Allowed(s, e) -> "ok"
    [] OTHER -> "forbidden"

\* retry_pending: passes in the order of (time, sequence, id) for as long as
\* one makes progress; what is refused now is dropped.
Before(i, j) ==
  LET a == sev[i] c == sev[j] IN
  \/ a.at < c.at
  \/ a.at = c.at /\ a.seq < c.seq
  \/ a.at = c.at /\ a.seq = c.seq /\ i < j
RetryOne(s, i) ==
  LET v == Verdict(s, sev[i]) IN
  CASE v = "ok" -> Applied(s, sev[i])
    [] v = "pending" -> [s EXCEPT !.pending = Append(@, i)]
    [] OTHER -> s
RetryPass(s) ==
  LET q == SortSeq(s.pending, Before)
      upto[k \in 0..Len(q)] ==
        IF k = 0 THEN [s EXCEPT !.pending = << >>]
        ELSE CHOOSE t \in {RetryOne(u, q[k]) : u \in {upto[k - 1]}} : TRUE
  IN upto[Len(q)]
RetryPending(s) ==
  LET pass[k \in 0..Len(s.pending)] ==
        IF k = 0 THEN s ELSE CHOOSE t \in {RetryPass(u) : u \in {pass[k - 1]}} : TRUE
  IN pass[Len(s.pending)]

\* State::apply: the sender MLS vouches for must be the actor.
ApplyEvent(s, e, sender) ==
  LET v == IF sender = e.actor THEN Verdict(s, e) ELSE "forbidden" IN
  CASE v = "ok" -> RetryPending(Applied(s, e))
    [] v = "pending" /\ Len(s.pending) < ssc.pending ->
         [s EXCEPT !.pending = SortSeq(Append(@, e.id), Before)]
    [] OTHER -> s

----------------------------------------------------------------------------
(* The SDK: sdk spaces.rs.                                                 *)

\* state_mut: after a restart the stored log is replayed by (time, id).
LogOrder(i, j) ==
  \/ sev[i].at < sev[j].at
  \/ sev[i].at = sev[j].at /\ i < j
Replay(log) ==
  LET q == SetToSortSeq(log, LogOrder)
      upto[k \in 0..Len(q)] ==
        IF k = 0 THEN NewState
        ELSE CHOOSE t \in {ApplyEvent(u, sev[q[k]], sev[q[k]].actor) : u \in {upto[k - 1]}} : TRUE
  IN upto[Len(q)]
\* The devices a message to the group reaches, if its sender is still in it.
Readers(d, mls) ==
  IF SpaceOwner[d] \in mls THEN {x \in SpaceDevices \ {d} : SpaceOwner[x] \in mls} ELSE {}
Messages(d, mls, ids) ==
  [to : Readers(d, mls), sender : {SpaceOwner[d]}, id : ids]

\* build: the next sequence number of this address as this device knows it.
SpaceEvent(d, body, at) ==
  [id |-> Len(sev) + 1, actor |-> SpaceOwner[d], seq |-> srep[d].seq[SpaceOwner[d]] + 1,
   at |-> at, body |-> body]

\* emit: applied here first, then recorded, then sent.  The send can fail
\* and leave the event with its writer.
Written(d, body, e) ==
  /\ ValidEvent(body)
  /\ sev' = Append(sev, e)
  /\ Verdict(srep[d], e) = "ok"
  /\ slog' = [slog EXCEPT ![d] = @ \cup {e.id}]
EmittedState(d, e) ==
  srep' = [srep EXCEPT ![d] = LET s == Applied(@, e) IN
             IF s.pending = << >> THEN s ELSE RetryPending(s)]
Emit(d, body) ==
  \E at \in ssc.times, sent \in BOOLEAN :
    LET e == SpaceEvent(d, body, at) IN
    /\ sent \/ sfaults < ssc.faults
    /\ Written(d, body, e)
    /\ EmittedState(d, e)
    /\ sfaults' = IF sent THEN sfaults ELSE sfaults + 1
    /\ sbox' = IF sent THEN sbox \cup Messages(d, smls, {e.id}) ELSE sbox
    /\ UNCHANGED <<ssc, smls>>

\* create: the group starts with the creator's own devices.
CreateSpace(d) ==
  /\ smls = {}
  /\ \E at \in ssc.times :
       LET e == SpaceEvent(d, SpaceBody("create", SpaceOwner[d], OwnerRole, 0), at)
           mls == {SpaceOwner[d]}
       IN /\ Written(d, e.body, e)
          /\ EmittedState(d, e)
          /\ smls' = mls
          /\ sbox' = sbox \cup Messages(d, mls, {e.id})
  /\ UNCHANGED <<ssc, sfaults>>

\* invite: the event, then the MLS add, then the whole log once more to
\* everyone in the group, as messages of the inviter.  The add can fail and
\* leave a member who is not in the group.
HistoryNone(d) == {}
History(d) == slog[d]
Invite(d, who, role) ==
  \E at \in ssc.times, added \in BOOLEAN :
    LET e == SpaceEvent(d, SpaceBody("add", who, role, 0), at)
        mls == IF added /\ SpaceOwner[d] \in smls THEN smls \cup {who} ELSE smls
    IN /\ added \/ sfaults < ssc.faults
       /\ Written(d, e.body, e)
       /\ EmittedState(d, e)
       /\ sfaults' = IF added THEN sfaults ELSE sfaults + 1
       /\ smls' = mls
       /\ sbox' = sbox \cup Messages(d, smls, {e.id})
                   \cup (IF mls = smls THEN {} ELSE Messages(d, mls, History(d) \cup {e.id}))
       /\ UNCHANGED ssc

\* remove: the event, then the MLS removal.  A member that leaves cannot
\* remove its own devices, so the removal is refused; it can also fail.
RemoveFromSpace(d, who) ==
  \E at \in ssc.times, removed \in BOOLEAN :
    LET e == SpaceEvent(d, SpaceBody("remove", who, NoRole, 0), at)
    IN /\ removed \/ who = SpaceOwner[d] \/ sfaults < ssc.faults
       /\ removed => who # SpaceOwner[d]
       /\ Written(d, e.body, e)
       /\ EmittedState(d, e)
       /\ sfaults' = IF removed \/ who = SpaceOwner[d] THEN sfaults ELSE sfaults + 1
       /\ smls' = IF removed /\ SpaceOwner[d] \in smls THEN smls \ {who} ELSE smls
       /\ sbox' = sbox \cup Messages(d, smls, {e.id})
       /\ UNCHANGED ssc

SetRole(d, who, role) == Emit(d, SpaceBody("role", who, role, 0))
SetInfo(d) == Emit(d, SpaceBody("info", Nobody, NoRole, 0))
Announce(d) == Emit(d, SpaceBody("announce", Nobody, NoRole, 0))
SpacePost(d) == Emit(d, SpaceBody("post", Nobody, NoRole, 0))
SpaceComment(d, post) == Emit(d, SpaceBody("comment", Nobody, NoRole, post))
ShareDrive(d) == Emit(d, SpaceBody("share", Nobody, NoRole, 0))
UnshareDrive(d, share) == Emit(d, SpaceBody("unshare", Nobody, NoRole, share))

\* handle_incoming: an event that is applied or kept for later is recorded.
Recorded(s, e, sender) ==
  sender = e.actor /\ Verdict(s, e) \in {"ok", "pending"}
HandleIncoming(msg) ==
  LET d == msg.to e == sev[msg.id] IN
  /\ d \in ssc.online
  /\ srep' = [srep EXCEPT ![d] = ApplyEvent(@, e, msg.sender)]
  /\ slog' = [slog EXCEPT ![d] = IF Recorded(srep[d], e, msg.sender) THEN @ \cup {e.id} ELSE @]
  /\ sbox' = sbox \ {msg}
  /\ UNCHANGED <<ssc, sev, smls, sfaults>>

\* The process ends and its state is replayed from the log it left.
RestartSpaces(d) ==
  /\ "restart" \in ssc.ops
  /\ srep' = [srep EXCEPT ![d] = Replay(slog[d])]
  /\ UNCHANGED <<ssc, sev, slog, smls, sbox, sfaults>>

----------------------------------------------------------------------------
(* The desktop commands: cmd_spaces.rs.                                    *)

spaces_create(d) == "create" \in ssc.ops /\ d = ssc.creator /\ CreateSpace(d)
spaces_invite(d) ==
  "add" \in ssc.ops /\ \E who \in People, role \in ssc.roles : Invite(d, who, role)
spaces_remove(d) == "remove" \in ssc.ops /\ \E who \in People : RemoveFromSpace(d, who)
spaces_set_role(d) ==
  "role" \in ssc.ops /\ \E who \in People, role \in ssc.roles : SetRole(d, who, role)
spaces_set_info(d) == "info" \in ssc.ops /\ SetInfo(d)
spaces_announce(d) == "announce" \in ssc.ops /\ Announce(d)
spaces_post(d) == "post" \in ssc.ops /\ SpacePost(d)
spaces_comment(d) == "comment" \in ssc.ops /\ \E i \in srep[d].content : SpaceComment(d, i)
spaces_share_drive(d) == "share" \in ssc.ops /\ ShareDrive(d)
spaces_unshare_drive(d) == "unshare" \in ssc.ops /\ \E i \in srep[d].drive : UnshareDrive(d, i)

SpaceInit(scenarios) ==
  /\ ssc \in scenarios
  /\ sev = << >> /\ smls = {} /\ sbox = {} /\ sfaults = 0
  /\ srep = [d \in SpaceDevices |-> NewState]
  /\ slog = [d \in SpaceDevices |-> {}]

SpaceNext ==
  \/ Len(sev) < ssc.events /\ \E d \in ssc.writers :
       \/ spaces_create(d)
       \/ spaces_invite(d)
       \/ spaces_remove(d)
       \/ spaces_set_role(d)
       \/ spaces_set_info(d)
       \/ spaces_announce(d)
       \/ spaces_post(d)
       \/ spaces_comment(d)
       \/ spaces_share_drive(d)
       \/ spaces_unshare_drive(d)
  \/ \E d \in ssc.online : RestartSpaces(d)
  \/ \E msg \in sbox : HandleIncoming(msg)

----------------------------------------------------------------------------
(* Properties.                                                             *)

\* No order of transfers, promotions, removals and restarts gives one
\* replica two owners (apply_verified, RoleChange).
OneOwner ==
  \A d \in SpaceDevices : Cardinality({p \in People : srep[d].mem[p] = OwnerRole}) <= 1

\* One device does all the managing.
OneManager == ssc.writers = {ssc.creator}

\* Where one device does all the managing, two replicas that have seen equally
\* much of its log have the same role table, whatever order the events came
\* in, how often, and whatever restarts they went through (apply_verified's
\* gap and replay checks, retry_pending, state_mut: "every member applies
\* the same rules to the same events").
RolesFollowTheLog ==
  OneManager =>
    \A c, d \in SpaceDevices :
      LET boss == SpaceOwner[ssc.creator] IN
      srep[c].seq[boss] = srep[d].seq[boss] => srep[c].mem = srep[d].mem

\* Replicas agree on who may do what.
RolesAgree == RolesFollowTheLog /\ OneOwner

\* Where one device does all the managing and none of its sends failed, every
\* device in the group ends up with the whole of its log, also when it
\* joined late and the history overtook its welcome (invite's replay).
MembersCatchUp ==
  <>[](OneManager /\ sfaults = 0 =>
         \A d \in SpaceDevices :
           LET boss == SpaceOwner[ssc.creator] IN
           d \in ssc.online /\ SpaceOwner[d] \in smls => srep[d].seq[boss] = srep[ssc.creator].seq[boss])
=============================================================================
