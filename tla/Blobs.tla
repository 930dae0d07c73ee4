-------------------------------- MODULE Blobs --------------------------------
(***************************************************************************)
(* Blob storage between nodes: uploads by clients, replication between     *)
(* store nodes, the sweep of unfinished uploads, local deletes and         *)
(* fetches, and the storage lease a client pays by the epoch.              *)
(*                                                                         *)
(* A node runs three tasks over one database: "net" answers peers one      *)
(* request at a time (hashgram-node/src/app.rs), "api" serves the local    *)
(* API, "maint" is the minute tick of main.rs.  A handler is a sequence    *)
(* of transactions, and every transaction is a step here, so the tasks     *)
(* interleave inside put_manifest, put_chunk, delete and the sweep.        *)
(* Requests and answers may be lost; a sender then gives up, and what the  *)
(* other side was doing goes on.                                           *)
(***************************************************************************)
EXTENDS BlobStore, SequencesExt

CONSTANTS Nodes, Clients, BlobIds, Nobody,
          Target,      \* TARGET_REPLICAS
          MaxPushes    \* pushes of one repair pass

\* Uploaders and blobs are finitely many; a manifest lists its chunks and
\* declares its size.
ASSUME BlobsAssumption ==
  /\ IsFiniteSet(Nodes \cup Clients) /\ Nobody \notin Nodes \cup Clients
  /\ IsFiniteSet(BlobIds) /\ BlobIds # {}
  /\ Quota \in Nat
  /\ \A c \in BlobIds :
       SizeOf[c] \in Nat /\ Len(ChunksOf[c]) \in Nat /\ Indices(c) = 1..Len(ChunksOf[c])

VARIABLES bsc,      \* the scenario: [ops, nodes, ticking, clients, blobs, to, bounds]
          store,    \* store[n]: the database of node n
          task,     \* task[n][k]: what task k of node n is doing
          call,     \* call[x]: the transfer sender x has under way
          know,     \* know[n]: store peers, and the holders node n knows
          lease,    \* the client's record of one lease and what it paid
          clock, budget

blobVars == <<bsc, store, task, call, know, lease, clock, budget>>

Senders == Nodes \cup Clients
NodeTasks == {"net", "api", "maint"}
\* for: the sender that waits for the answer; up: the uploader to record;
\* todo: the blobs a sweep or a pass still has before it; more: the chunk
\* indices the API still has to store; from: the peer it fetches them from.
Idle == [op |-> "idle", c |-> Nobody, i |-> 0, step |-> "none", for |-> Nobody, up |-> Nobody,
         todo |-> <<>>, more |-> {}, from |-> Nobody]
NoCall == [c |-> Nobody, to |-> Nobody, next |-> <<>>, todo |-> {}, stage |-> "none", i |-> 0,
           answer |-> "none", missing |-> {}, took |-> {}]
\* Nothing is known of a blob's copies, or a set looked up a while ago.
Unknown == [holders |-> {}, fresh |-> FALSE]

BlobsInit(scenarios) ==
  /\ bsc \in scenarios
  /\ store = [n \in Nodes |-> EmptyStore]
  /\ task = [n \in Nodes |-> [k \in NodeTasks |-> Idle]]
  /\ call = [x \in Senders |-> NoCall]
  /\ know = [n \in Nodes |-> [peers |-> bsc.nodes \ {n}, reps |-> [c \in BlobIds |-> Unknown]]]
  /\ lease = [seen |-> "none", paid |-> FALSE, sent |-> 0, crashes |-> 0, sending |-> FALSE]
  /\ clock = 0
  /\ budget = [loss |-> bsc.losses, crash |-> bsc.crashes, del |-> bsc.deletes,
               start |-> bsc.starts]

Does(op) == op \in bsc.ops
Goes(n, k, t) == task' = [task EXCEPT ![n][k] = t]
Write(n, s) == store' = [store EXCEPT ![n] = s]
NoteReplica(n, c, p) ==
  know' = [know EXCEPT ![n].reps[c] = [holders |-> @.holders \cup {p}, fresh |-> TRUE]]
Forget(n, c) == know' = [know EXCEPT ![n].reps[c] = Unknown]

(***************************************************************************)
(* The senders: a client's upload to its list of stores, and a node's      *)
(* push_blob.  Both send the manifest, then every chunk the answer lists.  *)
(***************************************************************************)
Begin(x, c, to, next) ==
  call' = [call EXCEPT ![x] = [NoCall EXCEPT !.c = c, !.to = to, !.next = next, !.stage = "put"]]
\* On to the next target, or done: Uploaded.providers is "took".
NextTarget(x, took) ==
  call' = [call EXCEPT ![x] =
    IF call[x].next = <<>> THEN [NoCall EXCEPT !.took = took]
    ELSE [NoCall EXCEPT !.c = call[x].c, !.to = Head(call[x].next), !.next = Tail(call[x].next),
                        !.stage = "put", !.took = took]]

StartUpload(u, c) ==
  /\ Does("upload")
  /\ budget.start > 0 /\ u \in bsc.clients
  /\ call[u].to = Nobody /\ c \in bsc.blobs
  /\ Begin(u, c, Head(bsc.to), Tail(bsc.to))
  /\ budget' = [budget EXCEPT !.start = @ - 1]
  /\ UNCHANGED <<bsc, store, task, know, lease, clock>>

\* The reaction to an answer, client and node alike: a refusal or an error
\* ends with this target.
TransferAnswered(x) ==
  /\ call[x].answer \in {"accepted", "refused"}
  /\ LET t == call[x] IN
     IF t.answer = "refused" THEN NextTarget(x, t.took) /\ UNCHANGED know
     ELSE LET todo == IF t.stage = "put" THEN t.missing ELSE t.todo
          IN IF todo # {}
             THEN LET i == CHOOSE j \in todo : \A k \in todo : j <= k
                  IN /\ call' = [call EXCEPT ![x].stage = "chunk", ![x].i = i, ![x].todo = todo \ {i},
                                       ![x].answer = "none", ![x].missing = {}]
                     /\ UNCHANGED know
             ELSE /\ NextTarget(x, t.took \cup {t.to})
                  /\ IF x \in Nodes THEN NoteReplica(x, t.c, t.to) ELSE UNCHANGED know
  /\ UNCHANGED <<bsc, store, task, lease, clock, budget>>

\* A request or its answer is lost: the sender gives this target up.
GiveUp(x) ==
  /\ budget.loss > 0
  /\ call[x].to # Nobody /\ call[x].answer # "refused"
  /\ NextTarget(x, call[x].took)
  /\ task' = [n \in Nodes |-> [k \in NodeTasks |->
       IF task[n][k].for = x THEN [task[n][k] EXCEPT !.for = Nobody] ELSE task[n][k]]]
  /\ budget' = [budget EXCEPT !.loss = @ - 1]
  /\ UNCHANGED <<bsc, store, know, lease, clock>>

(***************************************************************************)
(* The receiving side.  A task takes a request, and its transactions       *)
(* follow one by one.                                                      *)
(***************************************************************************)
Answer(x, a, missing) ==
  IF x = Nobody THEN UNCHANGED call
  ELSE call' = [call EXCEPT ![x].answer = a, ![x].missing = missing]

\* put_manifest and put_chunk open with a read: what is known already is
\* answered from it, what does not fit is refused, and the rest goes on to
\* the writes.
NetTakes(n, x) ==
  /\ task[n]["net"] = Idle
  /\ call[x].to = n /\ call[x].answer = "none"
  /\ LET c == call[x].c
         s == store[n]
     IN IF call[x].stage = "put"
        THEN IF c \in DOMAIN s.meta
             THEN Answer(x, "accepted", Missing(s, c)) /\ UNCHANGED task
             ELSE IF QuotaRefuses(s, c, x)
             THEN Answer(x, "refused", {}) /\ UNCHANGED task
             ELSE /\ Goes(n, "net", [Idle EXCEPT !.op = "put", !.c = c, !.step = "reserve", !.for = x,
                                                !.up = x])
                  /\ call' = [call EXCEPT ![x].answer = "pending"]
        ELSE IF c \notin DOMAIN s.meta
             THEN Answer(x, "refused", {}) /\ UNCHANGED task
             ELSE /\ Goes(n, "net", [Idle EXCEPT !.op = "chunk", !.c = c, !.i = call[x].i,
                                                !.step = "add", !.for = x])
                  /\ call' = [call EXCEPT ![x].answer = "pending"]
  /\ UNCHANGED <<bsc, store, know, lease, clock, budget>>

\* The API task goes on to its next chunk (put_local stores every chunk,
\* pull_blob the missing ones), or has finished: a fetch notes its peer.
ApiNext(n, t, more) ==
  IF more # {}
  THEN LET i == CHOOSE j \in more : \A m \in more : j <= m
       IN /\ Goes(n, "api", [t EXCEPT !.op = "chunk", !.step = "read", !.i = i, !.more = more \ {i}])
          /\ UNCHANGED know
  ELSE /\ Goes(n, "api", Idle)
       /\ IF t.from = Nobody THEN UNCHANGED know ELSE NoteReplica(n, t.c, t.from)
ApiChunks(t, missing) == IF t.from = Nobody THEN Indices(t.c) ELSE missing
ReserveStep(n, k) ==
  /\ task[n][k].op = "put" /\ task[n][k].step = "reserve"
  /\ Write(n, Reserve(store[n], task[n][k].c, task[n][k].up, clock))
  /\ Goes(n, k, [task[n][k] EXCEPT !.step = "mark"])
  /\ UNCHANGED <<bsc, call, know, lease, clock, budget>>
MarkStep(n, k) ==
  /\ task[n][k].op = "put" /\ task[n][k].step = "mark"
  /\ Write(n, MarkHeld(store[n], task[n][k].c))
  /\ LET t == task[n][k]
         missing == {i \in Indices(t.c) : ~Holds(store[n], HashAt(t.c, i))}
     IN IF k = "net" THEN Goes(n, k, Idle) /\ Answer(t.for, "accepted", missing) /\ UNCHANGED know
        ELSE ApiNext(n, t, ApiChunks(t, missing)) /\ UNCHANGED call
  /\ UNCHANGED <<bsc, lease, clock, budget>>

\* put_chunk's write; a chunk that completes the blob notes this node.
ChunkStep(n, k) ==
  /\ task[n][k].op = "chunk" /\ task[n][k].step = "add"
  /\ LET t == task[n][k]
         s == AddChunk(store[n], t.c, t.i)
     IN /\ Write(n, s)
        /\ IF k = "net"
           THEN /\ Goes(n, k, Idle) /\ Answer(t.for, "accepted", {})
                /\ IF Row(s, t.c) = Indices(t.c) THEN NoteReplica(n, t.c, n) ELSE UNCHANGED know
           ELSE ApiNext(n, t, t.more) /\ UNCHANGED call
  /\ UNCHANGED <<bsc, lease, clock, budget>>

(***************************************************************************)
(* The local API: put_local, pull_blob and delete.                         *)
(***************************************************************************)
\* put_manifest's read, for the API task, which uploads as the node itself;
\* from is the peer of a fetch.
ApiPuts(n, c, from) ==
  LET s == store[n]
      t == [Idle EXCEPT !.op = "put", !.c = c, !.step = "reserve", !.up = n, !.from = from]
  IN IF c \in DOMAIN s.meta
     THEN ApiNext(n, t, ApiChunks(t, Missing(s, c)))
     ELSE ~QuotaRefuses(s, c, n) /\ Goes(n, "api", t) /\ UNCHANGED know
PutLocal(n, c) ==
  /\ Does("local") /\ budget.start > 0 /\ n \in bsc.nodes /\ c \in bsc.blobs /\ task[n]["api"] = Idle
  /\ ApiPuts(n, c, Nobody)
  /\ budget' = [budget EXCEPT !.start = @ - 1]
  /\ UNCHANGED <<bsc, store, call, lease, clock>>
Fetch(n, p, c) ==
  /\ Does("fetch") /\ budget.start > 0 /\ p # n /\ n \in bsc.nodes /\ task[n]["api"] = Idle
  /\ c \in DOMAIN store[p].meta
  /\ ApiPuts(n, c, p)
  /\ budget' = [budget EXCEPT !.start = @ - 1]
  /\ UNCHANGED <<bsc, store, call, lease, clock>>
\* put_chunk's read; a fetch also needs the peer to serve the chunk.
ApiReadStep(n) ==
  /\ task[n]["api"].op = "chunk" /\ task[n]["api"].step = "read"
  /\ LET t == task[n]["api"]
         served == \/ t.from = Nobody
                   \/ /\ t.c \in DOMAIN store[t.from].meta
                      /\ Holds(store[t.from], HashAt(t.c, t.i))
     IN Goes(n, "api", IF served /\ t.c \in DOMAIN store[n].meta
                      THEN [t EXCEPT !.step = "add"] ELSE Idle)
  /\ UNCHANGED <<bsc, store, call, know, lease, clock, budget>>

ApiDeletes(n, c) ==
  /\ budget.del > 0 /\ task[n]["api"] = Idle
  /\ c \in DOMAIN store[n].meta
  /\ Goes(n, "api", [Idle EXCEPT !.op = "del", !.c = c, !.step = "release"])
  /\ budget' = [budget EXCEPT !.del = @ - 1]
  /\ UNCHANGED <<bsc, store, call, know, lease, clock>>
\* delete's transaction, then the map of replicas.
ReleaseStep(n, k) ==
  /\ task[n][k].op = "del" /\ task[n][k].step = "release"
  /\ Write(n, ReleaseRows(store[n], task[n][k].c))
  /\ Goes(n, k, [task[n][k] EXCEPT !.step = "forget"])
  /\ UNCHANGED <<bsc, call, know, lease, clock, budget>>
ForgetStep(n, k) ==
  /\ task[n][k].op = "del" /\ task[n][k].step = "forget"
  /\ Forget(n, task[n][k].c)
  /\ Goes(n, k, IF k = "api" THEN Idle ELSE [task[n][k] EXCEPT !.op = "expire", !.step = "next"])
  /\ UNCHANGED <<bsc, store, call, lease, clock, budget>>

(***************************************************************************)
(* The maintenance tick: expire_incomplete, then one repair_pass.          *)
(***************************************************************************)
MaintTick(n) ==
  /\ Does("maint") /\ n \in bsc.ticking /\ task[n]["maint"] = Idle /\ call[n].to = Nobody
  /\ Goes(n, "maint", [Idle EXCEPT !.op = "expire", !.step = "next",
                                  !.todo = SetToSeq(Due(store[n], clock))])
  /\ UNCHANGED <<bsc, store, call, know, lease, clock, budget>>
\* delete reads the manifest first; a due blob that is gone is skipped.
ExpireStep(n) ==
  /\ task[n]["maint"].op = "expire"
  /\ LET t == task[n]["maint"] IN
     Goes(n, "maint",
       IF t.todo = <<>>
       THEN [Idle EXCEPT !.op = "repair", !.step = "next",
               !.todo = IF know[n].peers = {} THEN <<>>
                        ELSE SetToSeq({c \in DOMAIN store[n].meta : Complete(store[n], c)})]
       ELSE IF Head(t.todo) \in DOMAIN store[n].meta
       THEN [t EXCEPT !.op = "del", !.c = Head(t.todo), !.step = "release", !.todo = Tail(@)]
       ELSE [t EXCEPT !.todo = Tail(@)])
  /\ UNCHANGED <<bsc, store, call, know, lease, clock, budget>>

\* Whom a blob may be pushed to.
RepairTargetsHeld(n, holders) == {p \in know[n].peers : p \in holders}
RepairTargets(n, holders) == {p \in know[n].peers : p \notin holders}
RepairWantsMore(holders) == Cardinality(holders) + 1 < Target
\* One blob of the pass: look its holders up again when the last look is
\* old, and push to the first peer without it.  A peer that does not answer
\* counts as one without it.
RepairStep(n) ==
  /\ task[n]["maint"].op = "repair" /\ task[n]["maint"].step = "next" /\ call[n].to = Nobody
  /\ LET t == task[n]["maint"]
         c == Head(t.todo)
     IN IF t.todo = <<>>
        THEN Goes(n, "maint", Idle) /\ UNCHANGED <<call, know, budget>>
        ELSE \E mute \in IF budget.loss > 0 /\ ~know[n].reps[c].fresh
                         THEN SUBSET know[n].peers ELSE {{}} :
             LET asked == {p \in know[n].peers \ mute : Complete(store[p], c)}
                 k == IF know[n].reps[c].fresh THEN know[n].reps[c]
                      ELSE [holders |-> asked, fresh |-> TRUE]
                 rest == RepairTargets(n, k.holders)
                 push == RepairWantsMore(k.holders) /\ t.i < MaxPushes /\ rest # {}
                         /\ c \in DOMAIN store[n].meta
             IN /\ know' = [know EXCEPT ![n].reps[c] = k]
                /\ budget' = [budget EXCEPT !.loss = @ - (IF mute = {} THEN 0 ELSE 1)]
                /\ Goes(n, "maint", [t EXCEPT !.todo = Tail(@), !.i = IF push THEN @ + 1 ELSE @])
                /\ IF push THEN Begin(n, c, CHOOSE p \in rest : TRUE, <<>>) ELSE UNCHANGED call
  /\ UNCHANGED <<bsc, store, lease, clock>>

\* What is known of a blob's holders is looked up again after ten minutes.
GrowStale(n, c) ==
  /\ Does("maint") /\ n \in bsc.ticking /\ know[n].reps[c].fresh
  /\ know' = [know EXCEPT ![n].reps[c].fresh = FALSE]
  /\ UNCHANGED <<bsc, store, task, call, lease, clock, budget>>
PeerLost(n, p) ==
  /\ Does("peers") /\ p \in know[n].peers /\ budget.loss > 0
  /\ know' = [know EXCEPT ![n] = [peers |-> @.peers \ {p},
       reps |-> [c \in BlobIds |-> [@.reps[c] EXCEPT !.holders = @ \ {p}]]]]
  /\ budget' = [budget EXCEPT !.loss = @ - 1]
  /\ UNCHANGED <<bsc, store, task, call, lease, clock>>
PeerVerified(n, p) ==
  /\ Does("peers") /\ {n, p} \subseteq bsc.nodes /\ p \notin know[n].peers /\ p # n
  /\ know' = [know EXCEPT ![n].peers = @ \cup {p}]
  /\ UNCHANGED <<bsc, store, task, call, lease, clock, budget>>

\* The database survives, what the tasks were doing and knew does not.
Crash(n) ==
  /\ budget.crash > 0 /\ n \in bsc.nodes
  /\ task' = [m \in Nodes |-> [k \in NodeTasks |->
       IF m = n THEN Idle
       ELSE IF task[m][k].for = n THEN [task[m][k] EXCEPT !.for = Nobody] ELSE task[m][k]]]
  /\ know' = [know EXCEPT ![n] = [peers |-> bsc.nodes \ {n}, reps |-> [c \in BlobIds |-> Unknown]]]
  /\ call' = [x \in Senders |->
       IF x = n THEN NoCall   \* its push dies with it
       ELSE IF call[x].to = n /\ call[x].answer = "pending"
       THEN [call[x] EXCEPT !.answer = "refused"] ELSE call[x]]
  /\ budget' = [budget EXCEPT !.crash = @ - 1]
  /\ UNCHANGED <<bsc, store, lease, clock>>
ClockTick ==
  /\ clock < bsc.ticks
  /\ clock' = clock + 1
  /\ UNCHANGED <<bsc, store, task, call, know, lease, budget>>

(***************************************************************************)
(* The lease of a blob for one epoch (storage_lease.rs): verify_epoch asks *)
(* the provider, pay_epoch pays only what was verified and records it      *)
(* after the chain took the payment.                                       *)
(***************************************************************************)
LeaseOf == CHOOSE c \in BlobIds : TRUE
Provider == CHOOSE n \in Nodes : TRUE
VerifyEpoch ==
  /\ Does("lease") /\ ~lease.sending
  /\ \E answered \in IF budget.loss > 0 THEN BOOLEAN ELSE {TRUE} :
       lease' = [lease EXCEPT !.seen =
         IF answered /\ Complete(store[Provider], LeaseOf) THEN "whole" ELSE "failed"]
  /\ UNCHANGED <<bsc, store, task, call, know, clock, budget>>
MayPay == ~lease.paid /\ lease.seen = "whole"
PayEpoch ==
  /\ Does("lease") /\ ~lease.sending
  /\ MayPay
  /\ lease' = [lease EXCEPT !.sending = TRUE, !.sent = @ + 1]
  /\ UNCHANGED <<bsc, store, task, call, know, clock, budget>>
PaymentRecorded ==
  /\ lease.sending
  /\ lease' = [lease EXCEPT !.sending = FALSE, !.paid = TRUE]
  /\ UNCHANGED <<bsc, store, task, call, know, clock, budget>>
\* The answer of the chain is lost, or the client stops before it saves.
PaymentForgotten ==
  /\ lease.sending /\ budget.crash > 0
  /\ lease' = [lease EXCEPT !.sending = FALSE, !.crashes = @ + 1]
  /\ budget' = [budget EXCEPT !.crash = @ - 1]
  /\ UNCHANGED <<bsc, store, task, call, know, clock>>

\* What a task does next.
TaskStep(n, k) ==
  \/ ReserveStep(n, k) \/ MarkStep(n, k) \/ ChunkStep(n, k)
  \/ ReleaseStep(n, k) \/ ForgetStep(n, k)
NetTask(n) == TaskStep(n, "net") \/ \E x \in Senders : NetTakes(n, x)
ApiTask(n) == TaskStep(n, "api") \/ ApiReadStep(n)
MaintTask(n) == TaskStep(n, "maint") \/ MaintTick(n) \/ ExpireStep(n) \/ RepairStep(n)
BlobsNext ==
  \/ \E n \in Nodes : NetTask(n) \/ ApiTask(n) \/ MaintTask(n) \/ Crash(n)
  \/ \E n \in Nodes, c \in BlobIds : GrowStale(n, c) \/ PutLocal(n, c) \/ ApiDeletes(n, c)
  \/ \E n \in Nodes, p \in Nodes, c \in BlobIds : Fetch(n, p, c)
  \/ \E n \in Nodes, p \in Nodes : PeerLost(n, p) \/ PeerVerified(n, p)
  \/ \E u \in Clients, c \in BlobIds : StartUpload(u, c)
  \/ \E x \in Senders : TransferAnswered(x) \/ GiveUp(x)
  \/ ClockTick \/ VerifyEpoch \/ PayEpoch \/ PaymentRecorded \/ PaymentForgotten

-----------------------------------------------------------------------------
\* A chunk listed as present is there, and counted at least once for every
\* row that lists it, however the tasks interleave inside put_manifest,
\* put_chunk and delete: no delete drops bytes another blob still needs.
ChunksStay == \A n \in Nodes : PresentAreHeld(store[n])

\* What an uploader has reserved covers every blob accepted from it, and the
\* node's total passes the quota by at most what the tasks that were past
\* the check at the same time had checked (the check and the reservation
\* are two transactions).
MaxSize == LET sizes == {SizeOf[c] : c \in BlobIds} IN CHOOSE m \in sizes : \A x \in sizes : x <= m
ReservationsAreHonest ==
  \A n \in Nodes :
    /\ \A u \in Senders : At(store[n].usage, u) >= Total(SizeOf, ReservedBy(store[n], u))
    /\ Quota > 0 => BytesUsed(store[n]) <= Quota + MaxSize

\* An epoch is paid once, and once more for every time the client stopped
\* between the payment and its record.
PaidOncePerEpoch == lease.sent <= 1 + lease.crashes

\* What a node stored, reserved and was paid for stays true whatever order
\* the steps of put_manifest, put_chunk, delete and the sweep come in.
StoredAndPaid == ChunksStay /\ ReservationsAreHonest /\ PaidOncePerEpoch

\* A blob some node holds whole reaches the target number of nodes, when
\* nothing is deleted and requests are lost only so many times.
RepairReachesTarget ==
  \A c \in BlobIds :
    (("live" \in bsc.ops) /\ \E n \in Nodes : Complete(store[n], c))
      ~> (Cardinality({n \in Nodes : Complete(store[n], c)}) >= Target)
=============================================================================
