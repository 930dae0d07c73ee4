---------------------------- MODULE ServiceProof ----------------------------
(***************************************************************************)
(* x/serviceproof: useful-service nodes post a bond, are assigned blobs    *)
(* and challenged about them, hand in receipts their clients signed, and   *)
(* are paid once per epoch out of a finite reserve.  Cheating raises a     *)
(* fraud score; crossing the threshold jails the node and slashes its bond.*)
(* A block is the module's BeginBlocker followed by any number of          *)
(* transactions.  A transaction that returns an error changes nothing, so  *)
(* every refusal is a guard.  One denomination stands for sdk.Coins.       *)
(***************************************************************************)
EXTENDS Integers, FiniteSets, FiniteSetsExt

CONSTANTS
  Operators, Assigners, Clients, Blobs,
  BlobSize,              \* bytes of each blob replica
  Rewards, BlockedRewards,  \* reward addresses; those x/bank refuses to credit
  Receipts,              \* the receipts that exist, signed or forged
  InitialReserve,
  BasisPointsMax,        \* 10000
  CreditScale, Gibibyte, \* unit conversion of credit
  ChallengeFailureScore, InvalidEvidenceScore,
  Instances              \* the instances, by name: who acts with which messages (operators,
                         \* blobs, registrations, updates, receipts, paramSets,
                         \* params at genesis) within which bounds (height, bond,
                         \* changes, restarts; zero: restart at height zero too)

ASSUME DomainAssumption ==
  /\ BlobSize \in [Blobs -> Nat \ {0}]
  /\ BlockedRewards \subseteq Rewards
  /\ \A n \in DOMAIN Instances : LET i == Instances[n] IN
       /\ i.operators \subseteq Operators /\ i.blobs \subseteq Blobs /\ i.receipts \subseteq Receipts
       /\ i.params \in i.paramSets /\ i.zero \in BOOLEAN
       /\ {i.height, i.bond, i.changes, i.restarts} \subseteq Nat
ASSUME NumberAssumption ==
  /\ {InitialReserve, ChallengeFailureScore, InvalidEvidenceScore} \subseteq Nat
  /\ {BasisPointsMax, CreditScale, Gibibyte} \subseteq Nat \ {0}
(* The stores and the messages of an instance are finite.                  *)
ASSUME FinitenessAssumption ==
  IsFiniteSet(Operators) /\ IsFiniteSet(Clients) /\ IsFiniteSet(Blobs) /\ IsFiniteSet(Receipts)
(* Amounts, block counts and rates of messages and parameters are not      *)
(* negative, and a registration offers at least one role (ValidateBasic).  *)
ASSUME MessageAssumption ==
  \A n \in DOMAIN Instances : LET i == Instances[n] IN
    /\ \A r \in i.registrations : {r.bond, r.declared} \subseteq Nat /\ r.roles # {}
    /\ \A u \in i.updates : {u.bond, u.declared} \subseteq Nat
    /\ \A p \in i.paramSets :
         /\ {p.epochBlocks, p.rate, p.maxEmission, p.minBond, p.maxShare, p.concentration,
             p.perEpoch, p.response, p.threshold, p.decay, p.slash, p.jail, p.unbonding,
             p.maxAge, p.maxUnits, p.storageRate, p.relayRate} \subseteq Nat
         /\ p.enabled \in BOOLEAN
    /\ \A r \in i.receipts : r.provider \in Operators /\ r.client \in Clients /\ r.units \in Nat

VARIABLES
  height, phase,         \* "genesis" until the first BeginBlocker has run
  params, assigners,
  epoch, epochStart,
  registered, bond, provider,   \* the providers map, with its bonds apart
  assignment,            \* [operator, blob -> StorageAssignment], NoAssignment if none
  open, nextChallengeId, \* the unanswered challenges, the id counter
  credit, clientCredit,  \* credit of the OPEN epoch: a settled epoch's is never
                         \* read again
  nonces,                \* receiptNonces
  reserve, bondPool,     \* bank balances of the two module accounts
  emitted, slashed,      \* ReserveState
  settlement,            \* the last settled Epoch: its budget, who was paid what,
                         \* the share cap in force then (ghost)
  fraudSeq, reports,     \* the report counter, the keys of the stored reports
  timesCredited,         \* ghost: how often each receipt was credited
  epochsCredited,        \* ghost: how often each assignment was credited
  jailEnds,              \* ghost: when the operator's latest jail term ends
  changes, restarts,     \* counters of the bounds
  inst                   \* the instance

chain == <<height, phase>>
config == <<params, assigners, changes>>
epochVars == <<epoch, epochStart>>
fraudVars == <<bond, provider, reserve, bondPool, slashed, fraudSeq, reports,
               jailEnds>>
storageVars == <<assignment, epochsCredited>>
challengeVars == <<open, nextChallengeId>>
creditVars == <<credit, clientCredit, nonces, timesCredited>>
payVars == <<emitted, settlement>>
vars == <<chain, config, epochVars, registered, fraudVars, storageVars,
          challengeVars, creditVars, payVars, restarts, inst>>

Instance == Instances[inst]

NoProvider == [declared |-> 0, roles |-> {}, reward |-> "none", jailed |-> FALSE,
               until |-> 0, unbonding |-> 0, score |-> 0]
NoAssignment == [exists |-> FALSE, active |-> FALSE, assigned |-> 0, credited |-> 0]
NoCredit == [relay |-> 0, issued |-> 0, passed |-> 0, missed |-> 0]

Share(amount, bps) == (amount * bps) \div BasisPointsMax
Total(f, S) == MapThenSumSet(LAMBDA x : f[x], S)

IsActive(p) == ~p.jailed /\ p.unbonding = 0

----------------------------------------------------------------------------
(* Fraud scores, jail and slashing.                                        *)

(* addFraudScore, applied to the providers ps for the points every         *)
(* operator gets in this step: the threshold is crossed at most once.      *)
Crosses(ps, points, o) ==
  /\ points[o] > 0
  /\ ~ps[o].jailed
  /\ ps[o].score + points[o] >= params.threshold

Scored(ps, points, h) ==
  [o \in Operators |->
     [ps[o] EXCEPT !.score = @ + points[o],
                   !.jailed = @ \/ Crosses(ps, points, o),
                   !.until = IF Crosses(ps, points, o) THEN h + params.jail ELSE @]]

Slash(points, o) ==
  IF Crosses(provider, points, o) THEN Share(bond[o], params.slash) ELSE 0

(* Mutant: the slashed coins leave the pool but the bond keeps its value.  *)
MutSlashBonds(points) ==
  LET cut == [o \in Operators |-> Slash(points, o)]
  IN /\ bond' = bond
     /\ bondPool' = bondPool - Total(cut, Operators)
     /\ slashed' = slashed + Total(cut, Operators)

(* slashBond moves the slash from the bond pool to the reserve, whose      *)
(* balance the caller writes.                                              *)
SlashBonds(points) ==
  LET cut == [o \in Operators |-> Slash(points, o)]
  IN /\ bond' = [o \in Operators |-> bond[o] - cut[o]]
     /\ bondPool' = bondPool - Total(cut, Operators)
     /\ slashed' = slashed + Total(cut, Operators)

SlashedNow(points) == Total([o \in Operators |-> Slash(points, o)], Operators)

AddReports(keys) ==
  reports' = reports \cup keys /\ fraudSeq' = fraudSeq + Cardinality(keys)

NoteJail(points, h) ==
  jailEnds' = [o \in Operators |-> IF Crosses(provider, points, o)
                                   THEN h + params.jail ELSE jailEnds[o]]

(* One receipt's fraud points, given to the provider the receipt names.    *)
Penalise(o, points) ==
  LET given == [q \in Operators |-> IF q = o THEN points ELSE 0]
  IN /\ provider' = Scored(provider, given, height)
     /\ SlashBonds(given)
     /\ reserve' = reserve + SlashedNow(given)
     /\ AddReports({<<o, fraudSeq>>})
     /\ NoteJail(given, height)

----------------------------------------------------------------------------
(* Providers.                                                              *)

(* r carries the bond, the declared capacity, the roles and the reward     *)
(* address of MsgRegisterProvider.                                         *)
RegisterProvider(o, r) ==
  /\ phase = "txs"
  /\ params.enabled
  /\ o \notin registered
  /\ r.bond >= params.minBond
  /\ registered' = registered \cup {o}
  /\ bond' = [bond EXCEPT ![o] = r.bond]
  /\ bondPool' = bondPool + r.bond
  /\ provider' = [provider EXCEPT ![o] =
       [declared |-> r.declared, roles |-> r.roles, reward |-> r.reward,
        jailed |-> FALSE, until |-> 0, unbonding |-> 0, score |-> 0]]
  /\ UNCHANGED <<chain, config, epochVars, reserve, slashed, fraudSeq, reports,
                 jailEnds, storageVars, challengeVars, creditVars, payVars,
                 restarts, inst>>

ActiveBlobs(o) == {b \in Blobs : assignment[<<o, b>>].active}
AssignedBytes(o) == Total(BlobSize, ActiveBlobs(o))

MayDeclare(o, bytes) == bytes = 0 \/ bytes >= AssignedBytes(o)

(* An empty field of the message leaves the provider's field alone.        *)
Updated(p, u) ==
  [p EXCEPT !.reward = IF u.reward = "none" THEN @ ELSE u.reward,
            !.roles = IF u.roles = {} THEN @ ELSE u.roles,
            !.declared = IF u.declared = 0 THEN @ ELSE u.declared]

UpdateProvider(o, u) ==
  /\ phase = "txs"
  /\ o \in registered
  /\ provider[o].unbonding = 0
  /\ MayDeclare(o, u.declared)
  /\ bond[o] + u.bond <= Instance.bond
  /\ provider' = [provider EXCEPT ![o] = Updated(@, u)]
  /\ bond' = [bond EXCEPT ![o] = @ + u.bond]
  /\ bondPool' = bondPool + u.bond
  /\ UNCHANGED <<chain, config, epochVars, registered, reserve, slashed,
                 fraudSeq, reports, jailEnds, storageVars, challengeVars,
                 creditVars, payVars, restarts, inst>>

(* Mutant: the term of the jail is not checked.                            *)
MutMayUnjail(o) == provider[o].jailed /\ bond[o] >= params.minBond

MayUnjail(o) ==
  /\ provider[o].jailed
  /\ height >= provider[o].until
  /\ bond[o] >= params.minBond

Unjail(o) ==
  /\ phase = "txs"
  /\ o \in registered
  /\ MayUnjail(o)
  /\ provider' = [provider EXCEPT ![o].jailed = FALSE, ![o].until = 0, ![o].score = 0]
  /\ UNCHANGED <<chain, config, epochVars, registered, bond, reserve, bondPool,
                 slashed, fraudSeq, reports, jailEnds, storageVars,
                 challengeVars, creditVars, payVars, restarts, inst>>

BeginUnbonding(o) ==
  /\ phase = "txs"
  /\ o \in registered
  /\ provider[o].unbonding = 0
  /\ provider' = [provider EXCEPT ![o].unbonding = height]
  /\ UNCHANGED <<chain, config, epochVars, registered, bond, reserve, bondPool,
                 slashed, fraudSeq, reports, jailEnds, storageVars,
                 challengeVars, creditVars, payVars, restarts, inst>>

(* Mutant: the bond is released one response window early.                 *)
MutBondReleased(o) ==
  height >= provider[o].unbonding + params.unbonding - params.response - 1

BondReleased(o) == height >= provider[o].unbonding + params.unbonding

(* The registration is removed; assignments and open challenges stay.      *)
WithdrawBond(o) ==
  /\ phase = "txs"
  /\ o \in registered
  /\ provider[o].unbonding # 0
  /\ bond[o] # 0
  /\ BondReleased(o)
  /\ bondPool' = bondPool - bond[o]
  /\ bond' = [bond EXCEPT ![o] = 0]
  /\ registered' = registered \ {o}
  /\ provider' = [provider EXCEPT ![o] = NoProvider]
  /\ UNCHANGED <<chain, config, epochVars, reserve, slashed, fraudSeq, reports,
                 jailEnds, storageVars, challengeVars, creditVars, payVars,
                 restarts, inst>>

----------------------------------------------------------------------------
(* Storage assignments.  A blob stands for a blob id and a replica index.  *)

HasStorageRole(p) == "storage" \in p.roles

FreshAssignment ==
  [exists |-> TRUE, active |-> TRUE, assigned |-> epoch, credited |-> epoch]

AssignStorage(o, b) ==
  /\ phase = "txs"
  /\ params.enabled
  /\ assigners # {}
  /\ o \in registered
  /\ IsActive(provider[o])
  /\ HasStorageRole(provider[o])
  /\ ~assignment[<<o, b>>].exists
  /\ \/ provider[o].declared = 0
     \/ AssignedBytes(o) + BlobSize[b] <= provider[o].declared
  /\ assignment' = [assignment EXCEPT ![<<o, b>>] = FreshAssignment]
  /\ UNCHANGED <<chain, config, epochVars, registered, fraudVars,
                 epochsCredited, challengeVars, creditVars, payVars, restarts, inst>>

ReleaseStorage(o, b) ==
  /\ phase = "txs"
  /\ assigners # {}
  /\ assignment[<<o, b>>].active
  /\ assignment' = [assignment EXCEPT ![<<o, b>>].active = FALSE]
  /\ UNCHANGED <<chain, config, epochVars, registered, fraudVars,
                 epochsCredited, challengeVars, creditVars, payVars, restarts, inst>>

----------------------------------------------------------------------------
(* Challenges.                                                             *)

(* What AnswerChallenge checks before it looks at the proof.               *)
Answerable(c) ==
  /\ phase = "txs"
  /\ c \in open
  /\ height <= c.deadline
  /\ c.provider \in registered
  /\ assignment[<<c.provider, c.blob>>].exists

Close(c) == open' = open \ {c}

(* An answer with a valid proof; it counts for the epoch that issued the   *)
(* challenge, which may already be settled.                                *)
AnswerChallenge(c) ==
  /\ Answerable(c)
  /\ Close(c)
  /\ credit' = IF c.epoch = epoch
               THEN [credit EXCEPT ![c.provider].passed = @ + 1] ELSE credit
  /\ UNCHANGED <<chain, config, epochVars, registered, fraudVars, storageVars,
                 nextChallengeId, clientCredit, nonces, timesCredited,
                 payVars, restarts, inst>>

----------------------------------------------------------------------------
(* Receipts.  A batch of SubmitReceipts is a sequence of these.            *)

(* The checks that end in a plain refusal.                                 *)
Acceptable(r) ==
  /\ phase = "txs"
  /\ params.enabled
  /\ r.provider \in registered
  /\ IsActive(provider[r.provider])
  /\ "relay" \in provider[r.provider].roles
  /\ r.epoch = epoch
  /\ r.expiry >= height
  /\ r.expiry <= height + params.maxAge

SelfTraffic(r) == r.client \in {r.provider, provider[r.provider].reward}

NonceKey(r) == <<r.provider, r.client, r.nonce>>

(* The checks that end in a fraud score: oversize, self-traffic, a         *)
(* signature that does not verify, a replay.                               *)
Fraudulent(r) ==
  \/ r.units > params.maxUnits
  \/ SelfTraffic(r)
  \/ r.forged
  \/ NonceKey(r) \in nonces

CreditForReceipt(r) == (r.units * CreditScale * params.relayRate) \div Gibibyte

(* Mutant: the nonce is not recorded.                                      *)
MutUseNonce(r) == nonces' = nonces

UseNonce(r) == nonces' = nonces \cup {NonceKey(r)}

ApplyReceipt(r) ==
  /\ Acceptable(r)
  /\ ~Fraudulent(r)
  /\ UseNonce(r)
  /\ credit' = [credit EXCEPT ![r.provider].relay = @ + CreditForReceipt(r)]
  /\ clientCredit' = [clientCredit EXCEPT ![r.provider][r.client] = @ + CreditForReceipt(r)]
  /\ timesCredited' = [timesCredited EXCEPT ![r] = @ + 1]
  /\ UNCHANGED <<chain, config, epochVars, registered, fraudVars, storageVars,
                 challengeVars, payVars, restarts, inst>>

RefuseReceipt(r) ==
  /\ Acceptable(r)
  /\ Fraudulent(r)
  /\ Penalise(r.provider, InvalidEvidenceScore)
  /\ UNCHANGED <<chain, config, epochVars, registered, storageVars,
                 challengeVars, creditVars, payVars, restarts, inst>>

----------------------------------------------------------------------------
(* BeginBlocker, for the block at height h.                                *)

(* ExpireChallenges: a challenge nobody answered counts as failed.         *)
(* Mutant: the challenges of a jailed provider wait until it leaves.       *)
MutMissed(h) ==
  {c \in open : LET p == provider[c.provider]
                 IN h > c.deadline /\ (p.jailed => p.unbonding > 0)}

Missed(h) == {c \in open : h > c.deadline}

MissedBy(h, o) == {c \in Missed(h) : c.provider = o /\ o \in registered}

ExpiryPoints(h) ==
  [o \in Operators |-> Cardinality(MissedBy(h, o)) * ChallengeFailureScore]

(* Reports are numbered in the order of the challenge ids.                 *)
ExpiryReports(h) ==
  LET late == {c \in Missed(h) : c.provider \in registered}
  IN {<<c.provider, fraudSeq + Cardinality({d \in late : d.id < c.id})>> : c \in late}

ExpireChallenges(h) ==
  /\ SlashBonds(ExpiryPoints(h))
  /\ AddReports(ExpiryReports(h))
  /\ NoteJail(ExpiryPoints(h), h)

(* What the steps after ExpireChallenges see.                              *)
AfterExpiry(h) == Scored(provider, ExpiryPoints(h), h)
ReserveAfterExpiry(h) == reserve + SlashedNow(ExpiryPoints(h))
NoteMissed(h) ==
  [o \in Operators |-> [credit[o] EXCEPT !.missed =
     @ + Cardinality({c \in Missed(h) : c.provider = o /\ c.epoch = epoch})]]

(* decayFraudScores.                                                       *)
Decayed(ps) ==
  [o \in Operators |-> [ps[o] EXCEPT !.score =
     IF @ <= params.decay THEN 0 ELSE @ - params.decay]]

(* IssueChallenges picks, for every active storage provider, as many of    *)
(* its active assignments as the parameters ask for; the app hash decides  *)
(* which, and may decide for the same one twice.                           *)
Slots(ps) ==
  UNION {{o} \X (1..Min({params.perEpoch, Cardinality(ActiveBlobs(o))})) :
           o \in {q \in registered : IsActive(ps[q]) /\ HasStorageRole(ps[q])
                                     /\ ActiveBlobs(q) # {}}}

Challenge(id, o, b, e, h) ==
  [id |-> id, provider |-> o, blob |-> b, epoch |-> e,
   deadline |-> h + params.response]

(* openEpoch for epoch e: remaining are the challenges still unanswered.   *)
OpenEpoch(e, h, ps, remaining) ==
  LET slots == Slots(ps)
      order == CHOOSE f \in [slots -> 1..Cardinality(slots)] :
                 \A s, t \in slots : f[s] = f[t] => s = t
      id(s) == nextChallengeId + order[s]
  IN /\ provider' = Decayed(ps)
     /\ nextChallengeId' = nextChallengeId + Cardinality(slots)
     /\ \E pick \in [slots -> Blobs] :
          /\ \A s \in slots : pick[s] \in ActiveBlobs(s[1])
          /\ open' = {c \in remaining : \A s \in slots : c.id # id(s)}
                       \cup {Challenge(id(s), s[1], pick[s], e, h) : s \in slots}
     /\ credit' = [o \in Operators |->
          [NoCredit EXCEPT !.issued = Cardinality({s \in slots : s[1] = o})]]
     /\ clientCredit' = [o \in Operators |-> [c \in Clients |-> 0]]

----------------------------------------------------------------------------
(* SettleEpoch.                                                            *)

Held(o) == {b \in ActiveBlobs(o) : assignment[<<o, b>>].credited < epoch}

Accrues(ps, o) ==
  /\ o \in registered
  /\ IsActive(ps[o])
  /\ HasStorageRole(ps[o])
  /\ credit[o].issued > 0

StorageCredit(ps, o) ==
  IF Accrues(ps, o)
  THEN (((Total(BlobSize, Held(o)) * CreditScale * params.storageRate) \div Gibibyte)
          * credit[o].passed) \div credit[o].issued
  ELSE 0

(* AccrueStorageCredit marks what it counted.                              *)
MarkCredited(ps) ==
  /\ assignment' = [a \in Operators \X Blobs |->
       IF Accrues(ps, a[1]) /\ a[2] \in Held(a[1])
       THEN [assignment[a] EXCEPT !.credited = epoch] ELSE assignment[a]]
  /\ epochsCredited' = [a \in Operators \X Blobs |->
       epochsCredited[a] + IF Accrues(ps, a[1]) /\ a[2] \in Held(a[1]) THEN 1 ELSE 0]

LargestClientCredit(o) == Max({clientCredit[o][c] : c \in Clients} \cup {0})

(* EffectiveCredit: credit that comes mostly from one client is scaled down.*)
EffectiveCredit(ps, o) ==
  LET earned  == credit[o].relay
      allowed == Share(earned, params.concentration)
      largest == LargestClientCredit(o)
  IN StorageCredit(ps, o)
       + IF largest > allowed THEN (earned * allowed) \div largest ELSE earned

Lesser(limit, amount) == IF limit > 0 /\ amount > limit THEN limit ELSE amount

EmissionForEpoch(remaining) ==
  Lesser(params.maxEmission, Share(remaining, params.rate))

(* ProRata, capped by ProviderRewardCap; a cap that rounds to zero does    *)
(* not apply.                                                              *)
Reward(budget, mine, all) ==
  IF all = 0 THEN 0
  ELSE Lesser(Share(budget, params.maxShare), (budget * mine) \div all)

Payable(o) == o \in registered /\ provider[o].reward \notin BlockedRewards

SettleEpoch(h, ps, held) ==
  LET effective == [o \in Operators |-> EffectiveCredit(ps, o)]
      all       == Total(effective, Operators)
      budget    == EmissionForEpoch(held)
      paid      == [o \in Operators |->
                      IF Payable(o) THEN Reward(budget, effective[o], all) ELSE 0]
  IN /\ MarkCredited(ps)
     /\ settlement' = [budget |-> budget, paid |-> paid, share |-> params.maxShare]
     /\ reserve' = held - Total(paid, Operators)
     /\ emitted' = emitted + Total(paid, Operators)

----------------------------------------------------------------------------
(* The four ways through BeginBlocker.                                     *)

NewBlock ==
  /\ height < Instance.height
  /\ height' = height + 1
  /\ phase' = "txs"
  /\ UNCHANGED <<config, registered, nonces, timesCredited, restarts, inst>>

BlockDisabled ==
  /\ NewBlock
  /\ ~params.enabled
  /\ UNCHANGED <<epochVars, fraudVars, storageVars, open, nextChallengeId,
                 credit, clientCredit, payVars>>

(* The first block opens the first epoch.                                  *)
BlockFirst ==
  LET h == height + 1
  IN /\ NewBlock
     /\ params.enabled
     /\ epochStart = 0
     /\ ExpireChallenges(h)
     /\ epochStart' = h
     /\ OpenEpoch(epoch, h, AfterExpiry(h), open \ Missed(h))
     /\ reserve' = ReserveAfterExpiry(h)
     /\ UNCHANGED <<epoch, storageVars, payVars>>

BlockWithinEpoch ==
  LET h == height + 1
  IN /\ NewBlock
     /\ params.enabled
     /\ epochStart # 0
     /\ h - epochStart < params.epochBlocks
     /\ ExpireChallenges(h)
     /\ provider' = AfterExpiry(h)
     /\ reserve' = ReserveAfterExpiry(h)
     /\ open' = open \ Missed(h)
     /\ credit' = NoteMissed(h)
     /\ UNCHANGED <<epochVars, storageVars, nextChallengeId, clientCredit, payVars>>

BlockEndsEpoch ==
  LET h == height + 1
  IN /\ NewBlock
     /\ params.enabled
     /\ epochStart # 0
     /\ h - epochStart >= params.epochBlocks
     /\ ExpireChallenges(h)
     /\ SettleEpoch(h, AfterExpiry(h), ReserveAfterExpiry(h))
     /\ epoch' = epoch + 1
     /\ epochStart' = h
     /\ OpenEpoch(epoch + 1, h, AfterExpiry(h), open \ Missed(h))

----------------------------------------------------------------------------
(* Governance, and the export and re-import of the chain.                  *)

ValidParams(p) ==
  /\ p.epochBlocks > 0 /\ p.rate <= BasisPointsMax /\ p.minBond > 0
  /\ p.maxShare \in 1..BasisPointsMax /\ p.concentration \in 1..BasisPointsMax
  /\ p.perEpoch > 0 /\ p.response > 0 /\ p.threshold > 0
  /\ p.slash <= BasisPointsMax /\ p.jail >= 0 /\ p.unbonding > 0
  /\ p.maxAge > 0 /\ p.maxUnits > 0

(* A genesis file is validated before the chain starts.                    *)
ASSUME GenesisAssumption ==
  \A n \in DOMAIN Instances : ValidParams(Instances[n].params)

UpdateParams(p, as) ==
  /\ phase = "txs"
  /\ changes < Instance.changes
  /\ changes' = changes + 1
  /\ ValidParams(p)
  /\ params' = p
  /\ assigners' = as
  /\ UNCHANGED <<chain, epochVars, registered, fraudVars, storageVars,
                 challengeVars, creditVars, payVars, restarts, inst>>

(* What GenesisState.Validate asks of an exported state.                   *)
Importable ==
  /\ ValidParams(params)
  /\ emitted <= InitialReserve + slashed
  /\ \A o \in registered : provider[o].roles # {} /\ bond[o] >= 0
  /\ settlement.budget >= Total(settlement.paid, Operators)

(* ExportGenesis leaves out the nonces, the per-client credit and the      *)
(* report counter.  A zero-height export changes no height of this module. *)
Restart(zero) ==
  /\ phase = "txs"
  /\ restarts < Instance.restarts
  /\ Importable
  /\ restarts' = restarts + 1
  /\ phase' = "genesis"
  /\ height' = IF zero THEN 0 ELSE height
  /\ nonces' = {}
  /\ clientCredit' = [o \in Operators |-> [c \in Clients |-> 0]]
  /\ fraudSeq' = 0
  /\ UNCHANGED <<config, epochVars, registered, bond, provider, reserve,
                 bondPool, slashed, reports, jailEnds, storageVars,
                 challengeVars, credit, timesCredited, payVars, inst>>

Init ==
  /\ inst \in DOMAIN Instances
  /\ height = 0 /\ phase = "genesis"
  /\ params = Instance.params /\ assigners = Assigners /\ changes = 0
  /\ epoch = 0 /\ epochStart = 0
  /\ registered = {} /\ bond = [o \in Operators |-> 0]
  /\ provider = [o \in Operators |-> NoProvider]
  /\ assignment = [a \in Operators \X Blobs |-> NoAssignment]
  /\ epochsCredited = [a \in Operators \X Blobs |-> 0]
  /\ open = {} /\ nextChallengeId = 0
  /\ credit = [o \in Operators |-> NoCredit]
  /\ clientCredit = [o \in Operators |-> [c \in Clients |-> 0]]
  /\ nonces = {} /\ timesCredited = [r \in Receipts |-> 0]
  /\ reserve = InitialReserve /\ bondPool = 0 /\ emitted = 0 /\ slashed = 0
  /\ settlement = [budget |-> 0, paid |-> [o \in Operators |-> 0], share |-> 0]
  /\ fraudSeq = 0 /\ reports = {}
  /\ jailEnds = [o \in Operators |-> 0]
  /\ restarts = 0

(* The run ends at the last height of the model.                           *)
Done == height = Instance.height /\ UNCHANGED vars

Transaction ==
  \/ \E o \in Instance.operators :
       \/ \E r \in Instance.registrations : RegisterProvider(o, r)
       \/ \E u \in Instance.updates : UpdateProvider(o, u)
       \/ Unjail(o)
       \/ BeginUnbonding(o)
       \/ WithdrawBond(o)
       \/ \E b \in Instance.blobs : AssignStorage(o, b) \/ ReleaseStorage(o, b)
  \/ \E c \in open : AnswerChallenge(c)
  \/ \E r \in Instance.receipts : ApplyReceipt(r) \/ RefuseReceipt(r)

BeginBlock == BlockDisabled \/ BlockFirst \/ BlockWithinEpoch \/ BlockEndsEpoch

Next ==
  \/ BeginBlock
  \/ Transaction
  \/ \E p \in Instance.paramSets, as \in SUBSET Assigners : UpdateParams(p, as)
  \/ \E zero \in {FALSE, Instance.zero} : Restart(zero)
  \/ Done

Spec == Init /\ [][Next]_vars
FairSpec == Spec /\ WF_vars(BeginBlock)

----------------------------------------------------------------------------
(* Properties.                                                             *)

(* The bond pool's bank balance is the sum of the registered providers'    *)
(* bonds: registering, topping up, slashing (RegisterProvider,             *)
(* UpdateProvider, slashBond) and withdrawing move both sides together.    *)
BondsAreBacked ==
  /\ bondPool = Total(bond, Operators)
  /\ \A o \in Operators \ registered : bond[o] = 0

(* The finite-reserve guarantee of SettleEpoch: the reserve's balance is   *)
(* what genesis gave it, less what was emitted, plus what was slashed.     *)
ReserveAddsUp == reserve + emitted = InitialReserve + slashed

(* Every challenge issued in the open epoch is passed, missed or still     *)
(* open, whatever order answers and expiries come in, so the success rate  *)
(* AccrueStorageCredit uses is never above one.                            *)
ChallengesAccountedFor ==
  \A o \in Operators :
    credit[o].issued = credit[o].passed + credit[o].missed
      + Cardinality({c \in open : c.provider = o /\ c.epoch = epoch})

(* SettleEpoch never distributes more than the epoch's budget, and never   *)
(* more than max_provider_share_bps of it to one provider, unless that     *)
(* share is less than one coin: ProviderRewardCap is then zero and no cap. *)
ProviderShareCapped ==
  /\ Total(settlement.paid, Operators) <= settlement.budget
  /\ \A o \in Operators :
       \/ settlement.paid[o] * BasisPointsMax <= settlement.budget * settlement.share
       \/ settlement.budget * settlement.share < BasisPointsMax

(* The books of the module: bonds, reserve, challenges and settlement, and *)
(* GenesisState.Validate accepts what ExportGenesis would write.           *)
ServiceBooks ==
  /\ BondsAreBacked /\ ReserveAddsUp
  /\ ChallengesAccountedFor /\ ProviderShareCapped
  /\ Importable

(* AccrueStorageCredit never pays an assignment for the epoch it was made  *)
(* in, nor twice for one epoch, across release, withdrawal and             *)
(* re-registration.                                                        *)
StoragePaidOncePerEpoch ==
  \A a \in Operators \X Blobs :
    epochsCredited[a] = 0 \/ epochsCredited[a] <= epoch - 1 - assignment[a].assigned

(* A provider that was jailed is not active again before its term ends:    *)
(* Unjail waits for it, and leaving and registering again takes longer.    *)
(* (A restart at height zero sets the height back and not the terms.)      *)
JailIsServed ==
  restarts = 0 => \A o \in registered : IsActive(provider[o]) => height >= jailEnds[o]

(* A bond is not withdrawn while a challenge of the provider is open: the  *)
(* delay of BeginUnbonding outlasts the window in which a missed challenge *)
(* can still be slashed.                                                   *)
BondOutlastsEvidence ==
  [][restarts = 0 => \A o \in registered \ registered' : \A c \in open : c.provider # o]_vars

(* Each (provider, client, nonce) of applyReceipt is credited at most once.*)
NonceCreditedOnce ==
  \A r \in Receipts :
    Total(timesCredited, {q \in Receipts : NonceKey(q) = NonceKey(r)}) <= 1

(* No work is paid twice, neither a receipt nor an epoch of storage, on a  *)
(* chain that is not restarted from an export (which forgets the nonces).  *)
NothingPaidTwice == restarts = 0 => NonceCreditedOnce /\ StoragePaidOncePerEpoch

(* Every challenge whose deadline the model reaches is eventually closed,  *)
(* answered or missed, while blocks are produced (ExpireChallenges) and    *)
(* governance neither stops the module nor restarts the chain.             *)
ChallengesAreResolved ==
  \A n \in 1..4 :
    (restarts = 0 /\ changes = 0 /\ \E c \in open : c.id = n /\ c.deadline < Instance.height) 
      ~> (restarts + changes > 0 \/ \A c \in open : c.id # n)
=============================================================================
