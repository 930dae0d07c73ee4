---------------------------- MODULE ServiceProofs ----------------------------
(***************************************************************************)
(* x/serviceproof for any operators, blobs, messages and parameters.       *)
(***************************************************************************)
EXTENDS ServiceProof, FiniteSums

----------------------------------------------------------------------------
(* The terms of jail, challenge and unbonding.                             *)

(* What the run's parameter sets satisfy and the comments in params.go ask *)
(* for ("unbonding_blocks ... should exceed the window in which fraud can  *)
(* still be discovered"): the module is enabled, and unbonding outlasts a  *)
(* challenge and the jail it may end in, each from any of the parameter    *)
(* sets governance may put in force.  The defaults are 453600 > 300 + 21600.*)
TermsFit ==
  /\ \A p \in Instance.paramSets : p.enabled
  /\ \A p, q, r \in Instance.paramSets : q.response + r.jail < p.unbonding

(* The last height a provider could be challenged from.                    *)
Since(o) == IF provider[o].unbonding = 0 THEN height ELSE provider[o].unbonding

ProviderFields == {"declared", "roles", "reward", "jailed", "until", "unbonding", "score"}

TermTypes ==
  /\ restarts \in Nat /\ height \in Nat
  /\ inst \in DOMAIN Instances /\ params \in Instance.paramSets
  /\ registered \subseteq Operators
  /\ DOMAIN provider = Operators /\ jailEnds \in [Operators -> Nat]
  /\ \A o \in Operators : /\ DOMAIN provider[o] = ProviderFields
                          /\ provider[o].jailed \in BOOLEAN
                          /\ provider[o].unbonding \in Nat

(* An open challenge is one of a registered provider, not overdue, and was *)
(* issued before the provider began to leave.                              *)
ChallengeInTerm(c) ==
  /\ c.provider \in registered
  /\ c.deadline \in Nat /\ height <= c.deadline
  /\ \E q \in Instance.paramSets : c.deadline <= Since(c.provider) + q.response

(* A jailed provider stays until its term ends, one that is not jailed has *)
(* served it, and no term outlasts the unbonding that runs beside it.      *)
JailInTerm(o) ==
  /\ provider[o].jailed = TRUE => o \in registered /\ provider[o].until = jailEnds[o]
  /\ provider[o].jailed = FALSE => jailEnds[o] <= height
  /\ \E q, r \in Instance.paramSets : jailEnds[o] <= Since(o) + q.response + 1 + r.jail

TermInv ==
  TermsFit /\ restarts = 0 =>
    /\ \A c \in open : ChallengeInTerm(c)
    /\ \A o \in Operators : JailInTerm(o)

LEMMA ParamTypes ==
  ASSUME TermTypes, NEW p \in Instance.paramSets
  PROVE  /\ p.epochBlocks \in Nat /\ p.rate \in Nat /\ p.maxEmission \in Nat /\ p.minBond \in Nat
         /\ p.maxShare \in Nat /\ p.concentration \in Nat /\ p.perEpoch \in Nat
         /\ p.response \in Nat /\ p.threshold \in Nat /\ p.decay \in Nat /\ p.slash \in Nat
         /\ p.jail \in Nat /\ p.unbonding \in Nat /\ p.maxAge \in Nat /\ p.maxUnits \in Nat
         /\ p.storageRate \in Nat /\ p.relayRate \in Nat /\ p.enabled \in BOOLEAN
BY MessageAssumption DEF TermTypes, Instance

LEMMA TermInit == Init => TermTypes /\ TermInv
<1> SUFFICES ASSUME Init PROVE TermTypes /\ TermInv
  OBVIOUS
<1>1. TermTypes
  BY DomainAssumption DEF Init, TermTypes, Instance, NoProvider, ProviderFields
<1>2. ASSUME NEW o \in Operators PROVE JailInTerm(o)
  <2>1. provider[o].jailed = FALSE /\ jailEnds[o] = 0 /\ Since(o) = 0
    BY DEF Init, NoProvider, Since
  <2>2. params \in Instance.paramSets /\ params.response \in Nat /\ params.jail \in Nat
    BY <1>1, ParamTypes DEF TermTypes
  <2>3. jailEnds[o] <= Since(o) + params.response + 1 + params.jail
    BY <2>1, <2>2
  <2>4. jailEnds[o] <= height
    BY <2>1 DEF Init
  <2> QED
    BY <2>1, <2>2, <2>3, <2>4 DEF JailInTerm
<1>3. open = {}
  BY DEF Init
<1> QED
  BY <1>1, <1>2, <1>3 DEF TermInv

(* A step of one provider, or of none, that keeps its terms.               *)
LEMMA TermFrame ==
  ASSUME TermTypes, TermInv, TermTypes',
         restarts' = restarts, height' = height, inst' = inst, jailEnds' = jailEnds,
         registered' = registered, open' \subseteq open,
         \A o \in Operators : /\ provider'[o].jailed = provider[o].jailed
                              /\ provider'[o].until = provider[o].until
                              /\ provider'[o].unbonding = provider[o].unbonding
  PROVE  TermInv'
<1> SUFFICES ASSUME TermsFit', restarts' = 0
             PROVE  /\ \A c \in open' : ChallengeInTerm(c)'
                    /\ \A o \in Operators : JailInTerm(o)'
  BY DEF TermInv
<1>1. TermsFit /\ restarts = 0 /\ Instance' = Instance
  BY DEF TermsFit, Instance
<1>2. \A o \in Operators : Since(o)' = Since(o)
  BY DEF Since
<1>3. \A c \in open' : ChallengeInTerm(c)'
  BY <1>1, <1>2 DEF TermInv, ChallengeInTerm, TermTypes
<1>4. \A o \in Operators : JailInTerm(o)'
  BY <1>1, <1>2 DEF TermInv, JailInTerm
<1> QED
  BY <1>3, <1>4

(* A step that sets one provider's record anew: the others keep their terms.*)
LEMMA OneProviderFrame ==
  ASSUME TermTypes, TermInv, NEW o \in Operators, TermsFit', restarts' = 0,
         restarts' = restarts, height' = height, inst' = inst, jailEnds' = jailEnds,
         open' = open, NEW p, provider' = [provider EXCEPT ![o] = p],
         \A c \in open : c.provider = o => o \in registered' /\ Since(o)' = Since(o),
         \A q \in registered : q # o => q \in registered',
         JailInTerm(o)'
  PROVE  /\ \A c \in open' : ChallengeInTerm(c)'
         /\ \A q \in Operators : JailInTerm(q)'
<1>1. TermsFit /\ restarts = 0 /\ Instance' = Instance
  BY DEF TermsFit, Instance
<1>2. \A q \in Operators : q # o => provider'[q] = provider[q] /\ Since(q)' = Since(q)
  BY DEF Since, TermTypes
<1>3. \A q \in Operators : q # o => JailInTerm(q)'
  BY <1>1, <1>2 DEF TermInv, JailInTerm
<1>4. \A c \in open : ChallengeInTerm(c)
  BY <1>1 DEF TermInv
<1>5. ASSUME NEW c \in open PROVE ChallengeInTerm(c)'
  <2>1. c.provider \in Operators /\ c.provider \in registered'
    BY <1>4 DEF ChallengeInTerm, TermTypes
  <2>2. Since(c.provider)' = Since(c.provider)
    BY <1>2, <2>1
  <2> QED
    BY <1>1, <1>4, <2>1, <2>2 DEF ChallengeInTerm
<1> QED
  BY <1>3, <1>5

(* addFraudScore changes nothing of a provider but its score and its jail. *)
LEMMA ScoredKeeps ==
  ASSUME TermTypes, NEW points, NEW h, NEW ps, ps = Scored(provider, points, h)
  PROVE  /\ DOMAIN ps = Operators
         /\ \A o \in Operators :
              /\ DOMAIN ps[o] = ProviderFields
              /\ ps[o].unbonding = provider[o].unbonding
              /\ ps[o].jailed \in BOOLEAN
              /\ ps[o].jailed = (provider[o].jailed \/ Crosses(provider, points, o))
              /\ ps[o].until = IF Crosses(provider, points, o) THEN h + params.jail
                                                             ELSE provider[o].until
<1>1. DOMAIN ps = Operators
  BY DEF Scored
<1> SUFFICES ASSUME NEW o \in Operators
             PROVE  /\ DOMAIN ps[o] = ProviderFields
                    /\ ps[o].unbonding = provider[o].unbonding
                    /\ ps[o].jailed \in BOOLEAN
                    /\ ps[o].jailed = (provider[o].jailed \/ Crosses(provider, points, o))
                    /\ ps[o].until = IF Crosses(provider, points, o) THEN h + params.jail
                                                                   ELSE provider[o].until
  BY <1>1
<1> DEFINE p == provider[o]
           x == Crosses(provider, points, o)
<1>2. ps[o] = [p EXCEPT !.score = @ + points[o], !.jailed = @ \/ x,
                        !.until = IF x THEN h + params.jail ELSE @]
  BY DEF Scored
<1>3. DOMAIN p = ProviderFields /\ p.jailed \in BOOLEAN
  BY DEF TermTypes
<1>5. x \in BOOLEAN
  BY DEF Crosses
<1> HIDE DEF p, x
<1>6. /\ DOMAIN ps[o] = DOMAIN p /\ ps[o].unbonding = p.unbonding
      /\ ps[o].jailed = (p.jailed \/ x)
      /\ ps[o].until = IF x THEN h + params.jail ELSE p.until
  BY <1>2, <1>3 DEF ProviderFields
<1> QED
  BY <1>3, <1>5, <1>6 DEF p, x

(* Providers that decayScores leaves: their terms too.                     *)
LEMMA DecayKeeps ==
  ASSUME NEW ps, NEW o \in Operators, DOMAIN ps[o] = ProviderFields
  PROVE  /\ DOMAIN Decayed(ps)[o] = ProviderFields
         /\ Decayed(ps)[o].jailed = ps[o].jailed /\ Decayed(ps)[o].until = ps[o].until
         /\ Decayed(ps)[o].unbonding = ps[o].unbonding
         /\ DOMAIN Decayed(ps) = Operators
<1> QED
  BY DEF Decayed, ProviderFields

(* What a block does to a provider: it is jailed or not, and its score is  *)
(* decayed or not.                                                         *)
SameTerms(p, q) ==
  /\ DOMAIN p = DOMAIN q /\ p.jailed = q.jailed /\ p.until = q.until
  /\ p.unbonding = q.unbonding

BlockRuns ==
  /\ NewBlock /\ params.enabled
  /\ LET h == height + 1 IN
     /\ ExpireChallenges(h)
     /\ DOMAIN provider' = Operators
     /\ \A o \in Operators : SameTerms(provider'[o], AfterExpiry(h)[o])
     /\ \A c \in open' :
          \/ c \in open \ Missed(h)
          \/ \E o \in registered :
               /\ AfterExpiry(h)[o].unbonding = 0
               /\ c.provider = o /\ c.deadline = h + params.response

LEMMA OpenedChallenges ==
  ASSUME NEW e, NEW h, NEW ps, NEW remaining, OpenEpoch(e, h, ps, remaining)
  PROVE  /\ provider' = Decayed(ps)
         /\ \A c \in open' :
              \/ c \in remaining
              \/ \E o \in registered : /\ ps[o].unbonding = 0
                                       /\ c.provider = o /\ c.deadline = h + params.response
<1> DEFINE slots == Slots(ps)
           order == CHOOSE f \in [slots -> 1..Cardinality(slots)] :
                      \A s, t \in slots : f[s] = f[t] => s = t
           id(s) == nextChallengeId + order[s]
<1>1. provider' = Decayed(ps)
  BY DEF OpenEpoch
<1>2. PICK pick \in [slots -> Blobs] :
        open' = {c \in remaining : \A s \in slots : c.id # id(s)}
                  \cup {Challenge(id(s), s[1], pick[s], e, h) : s \in slots}
  BY DEF OpenEpoch
<1>3. \A s \in slots : s[1] \in registered /\ ps[s[1]].unbonding = 0
  <2> DEFINE picked == {q \in registered : IsActive(ps[q]) /\ HasStorageRole(ps[q])
                                           /\ ActiveBlobs(q) # {}}
             count(o) == 1..Min({params.perEpoch, Cardinality(ActiveBlobs(o))})
  <2>1. slots = UNION {{o} \X count(o) : o \in picked}
    BY DEF Slots
  <2> HIDE DEF slots, count
  <2>2. \A s \in slots : s[1] \in picked
    BY <2>1
  <2> QED
    BY <2>2 DEF IsActive
<1> HIDE DEF slots, id
<1>4. \A s \in slots : /\ Challenge(id(s), s[1], pick[s], e, h).provider = s[1]
                       /\ Challenge(id(s), s[1], pick[s], e, h).deadline = h + params.response
  BY DEF Challenge
<1> QED
  BY <1>1, <1>2, <1>3, <1>4

LEMMA EnabledBlockRuns ==
  ASSUME TermTypes, BlockFirst \/ BlockWithinEpoch \/ BlockEndsEpoch
  PROVE  BlockRuns
<1> DEFINE h == height + 1
           ps == AfterExpiry(h)
<1>1. \A o \in Operators : DOMAIN ps[o] = ProviderFields
  <2>1. ps = Scored(provider, ExpiryPoints(h), h)
    BY DEF AfterExpiry
  <2> HIDE DEF ps, h
  <2> QED
    BY <2>1, ScoredKeeps
<1>2. NewBlock /\ params.enabled /\ ExpireChallenges(h)
  BY DEF BlockFirst, BlockWithinEpoch, BlockEndsEpoch
<1>3. CASE BlockWithinEpoch
  <2>1. provider' = ps /\ open' = open \ Missed(h)
    BY <1>3 DEF BlockWithinEpoch
  <2>2. DOMAIN provider' = Operators
    BY <2>1 DEF AfterExpiry, Scored
  <2> HIDE DEF ps
  <2> QED
    BY <1>2, <2>1, <2>2 DEF BlockRuns, SameTerms, ps
<1>4. CASE BlockFirst \/ BlockEndsEpoch
  <2>1. \E e : OpenEpoch(e, h, ps, open \ Missed(h))
    BY <1>4 DEF BlockFirst, BlockEndsEpoch
  <2>2. /\ provider' = Decayed(ps)
        /\ \A c \in open' :
             \/ c \in open \ Missed(h)
             \/ \E o \in registered : /\ ps[o].unbonding = 0
                                      /\ c.provider = o /\ c.deadline = h + params.response
    <3> HIDE DEF ps, h
    <3> QED
      BY <2>1, OpenedChallenges
  <2> HIDE DEF ps
  <2>3. DOMAIN provider' = Operators
    BY <2>2 DEF Decayed
  <2>4. \A o \in Operators : SameTerms(provider'[o], ps[o])
    BY <1>1, <2>2, DecayKeeps DEF SameTerms
  <2> QED
    BY <1>2, <2>2, <2>3, <2>4 DEF BlockRuns, ps
<1> QED
  BY <1>3, <1>4

----------------------------------------------------------------------------
(* The steps, one by one.                                                  *)

Kept == TermTypes' /\ TermInv'

(* Steps that touch no provider and no challenge.                          *)
LEMMA QuietStep ==
  ASSUME TermTypes, TermInv, params' \in Instance.paramSets,
         UNCHANGED <<provider, jailEnds, registered, height, restarts, inst>>,
         open' \subseteq open
  PROVE  Kept
<1>1. Instance' = Instance
  BY DEF Instance
<1>2. TermTypes'
  BY <1>1 DEF TermTypes
<1>3. TermInv'
  BY <1>2, TermFrame
<1> QED
  BY <1>2, <1>3 DEF Kept

LEMMA OneProviderTypes ==
  ASSUME TermTypes, NEW o \in Operators, NEW p, provider' = [provider EXCEPT ![o] = p],
         DOMAIN p = ProviderFields, p.jailed \in BOOLEAN, p.unbonding \in Nat,
         registered' \subseteq Operators, UNCHANGED <<height, params, jailEnds, restarts, inst>>
  PROVE  TermTypes'
<1>1. Instance' = Instance
  BY DEF Instance
<1>2. DOMAIN provider' = Operators /\ \A q \in Operators : provider'[q] = IF q = o THEN p ELSE provider[q]
  BY DEF TermTypes
<1> QED
  BY <1>1, <1>2 DEF TermTypes

LEMMA RegisterStep ==
  ASSUME TermTypes, TermInv, NEW o \in Operators, NEW r, RegisterProvider(o, r)
  PROVE  Kept
<1> DEFINE p == [declared |-> r.declared, roles |-> r.roles, reward |-> r.reward,
                 jailed |-> FALSE, until |-> 0, unbonding |-> 0, score |-> 0]
<1>1. /\ o \notin registered /\ registered' = registered \cup {o}
      /\ provider' = [provider EXCEPT ![o] = p]
      /\ UNCHANGED <<height, params, jailEnds, open, restarts, inst>>
  BY DEF RegisterProvider, chain, config, challengeVars
<1>2. DOMAIN p = ProviderFields /\ p.jailed = FALSE /\ p.unbonding = 0
  BY DEF ProviderFields
<1> HIDE DEF p
<1>3. Instance' = Instance
  BY <1>1 DEF Instance
<1>4. TermTypes'
  <2>1. registered' \subseteq Operators
    BY <1>1 DEF TermTypes
  <2>2. p.jailed \in BOOLEAN
    BY <1>2
  <2>3. p.unbonding \in Nat
    BY <1>2
  <2> QED
    BY <1>1, <1>2, <2>1, <2>2, <2>3, OneProviderTypes
<1>5. ASSUME TermsFit', restarts' = 0
      PROVE  (\A c \in open' : ChallengeInTerm(c)') /\ (\A q \in Operators : JailInTerm(q)')
  <2>1. TermsFit /\ restarts = 0
    BY <1>1, <1>3, <1>5 DEF TermsFit
  <2>2. JailInTerm(o) /\ \A c \in open : c.provider # o
    BY <1>1, <2>1 DEF TermInv, ChallengeInTerm
  <2>3. jailEnds[o] <= height
    BY <1>1, <2>2 DEF JailInTerm, TermTypes
  <2>4. provider'[o].jailed = FALSE /\ Since(o)' = height
    BY <1>1, <1>2 DEF Since, TermTypes
  <2>5. params.response \in Nat /\ params.jail \in Nat /\ params \in Instance.paramSets
        /\ jailEnds[o] \in Nat /\ height \in Nat
    BY ParamTypes DEF TermTypes
  <2>6. jailEnds[o] <= height + params.response + 1 + params.jail
    BY <2>3, <2>5
  <2>7. JailInTerm(o)'
    BY <1>1, <1>3, <2>3, <2>4, <2>5, <2>6 DEF JailInTerm
  <2> QED
    BY <1>1, <1>5, <2>2, <2>7, OneProviderFrame
<1> QED
  BY <1>4, <1>5 DEF Kept, TermInv

LEMMA UpdateStep ==
  ASSUME TermTypes, TermInv, NEW o \in Operators, NEW u, UpdateProvider(o, u)
  PROVE  Kept
<1>1. /\ provider' = [provider EXCEPT ![o] = Updated(@, u)]
      /\ UNCHANGED <<height, params, jailEnds, registered, open, restarts, inst>>
  BY DEF UpdateProvider, chain, config, challengeVars
<1> DEFINE p == provider[o]
<1>2. DOMAIN p = ProviderFields
  BY DEF TermTypes
<1> HIDE DEF p
<1>3. /\ DOMAIN Updated(p, u) = ProviderFields /\ Updated(p, u).jailed = p.jailed
      /\ Updated(p, u).until = p.until /\ Updated(p, u).unbonding = p.unbonding
  BY <1>2 DEF Updated, ProviderFields
<1>4. /\ DOMAIN provider' = Operators
      /\ \A q \in Operators : /\ DOMAIN provider'[q] = ProviderFields
                              /\ provider'[q].jailed = provider[q].jailed
                              /\ provider'[q].until = provider[q].until
                              /\ provider'[q].unbonding = provider[q].unbonding
  BY <1>1, <1>3 DEF p, TermTypes
<1>5. Instance' = Instance
  BY <1>1 DEF Instance
<1>6. TermTypes'
  BY <1>1, <1>4, <1>5 DEF TermTypes
<1>7. TermInv'
  BY <1>1, <1>4, <1>6, TermFrame
<1> QED
  BY <1>6, <1>7 DEF Kept

(* Unjail waits for the end of the term.                                   *)
LEMMA UnjailStep ==
  ASSUME TermTypes, TermInv, NEW o \in Operators, Unjail(o)
  PROVE  Kept
<1> DEFINE p == [provider[o] EXCEPT !.jailed = FALSE, !.until = 0, !.score = 0]
<1>1. /\ provider' = [provider EXCEPT ![o].jailed = FALSE, ![o].until = 0, ![o].score = 0]
      /\ provider[o].jailed = TRUE /\ height >= provider[o].until
      /\ UNCHANGED <<height, params, jailEnds, registered, open, restarts, inst>>
  BY DEF Unjail, MayUnjail, TermTypes, chain, config, challengeVars
<1>2. provider' = [provider EXCEPT ![o] = p]
  BY <1>1 DEF TermTypes
<1>3. DOMAIN p = ProviderFields /\ p.jailed = FALSE /\ p.unbonding = provider[o].unbonding
  BY DEF TermTypes, ProviderFields
<1> HIDE DEF p
<1>4. Instance' = Instance
  BY <1>1 DEF Instance
<1>5. TermTypes'
  BY <1>1, <1>2, <1>3, <1>4 DEF TermTypes
<1>6. Since(o)' = Since(o) /\ provider'[o].jailed = FALSE
  BY <1>1, <1>2, <1>3 DEF Since, TermTypes
<1>7. ASSUME TermsFit', restarts' = 0
      PROVE  (\A c \in open' : ChallengeInTerm(c)') /\ (\A q \in Operators : JailInTerm(q)')
  <2>1. TermsFit /\ restarts = 0
    BY <1>1, <1>4, <1>7 DEF TermsFit
  <2>2. JailInTerm(o) /\ \A c \in open : c.provider \in registered
    BY <2>1 DEF TermInv, ChallengeInTerm
  <2>3. jailEnds[o] <= height
    BY <1>1, <2>2 DEF JailInTerm
  <2>4. JailInTerm(o)'
    BY <1>1, <1>4, <1>6, <2>2, <2>3 DEF JailInTerm
  <2> QED
    BY <1>1, <1>2, <1>6, <1>7, <2>2, <2>4, OneProviderFrame
<1> QED
  BY <1>5, <1>7 DEF Kept, TermInv

LEMMA UnbondingStep ==
  ASSUME TermTypes, TermInv, NEW o \in Operators, BeginUnbonding(o)
  PROVE  Kept
<1> DEFINE p == [provider[o] EXCEPT !.unbonding = height]
<1>1. /\ provider' = [provider EXCEPT ![o].unbonding = height]
      /\ provider[o].unbonding = 0
      /\ UNCHANGED <<height, params, jailEnds, registered, open, restarts, inst>>
  BY DEF BeginUnbonding, chain, config, challengeVars
<1>2. provider' = [provider EXCEPT ![o] = p]
  BY <1>1 DEF TermTypes
<1>3. /\ DOMAIN p = ProviderFields /\ p.jailed = provider[o].jailed
      /\ p.until = provider[o].until /\ p.unbonding = height
  BY DEF TermTypes, ProviderFields
<1> HIDE DEF p
<1>4. Instance' = Instance
  BY <1>1 DEF Instance
<1>5. TermTypes'
  BY <1>1, <1>2, <1>3, <1>4 DEF TermTypes
<1>6. provider'[o] = p
  BY <1>2 DEF TermTypes
<1>7. Since(o)' = Since(o)
  BY <1>1, <1>3, <1>6 DEF Since
<1>8. ASSUME TermsFit', restarts' = 0
      PROVE  (\A c \in open' : ChallengeInTerm(c)') /\ (\A q \in Operators : JailInTerm(q)')
  <2>1. TermsFit /\ restarts = 0
    BY <1>1, <1>4, <1>8 DEF TermsFit
  <2>2. JailInTerm(o) /\ \A c \in open : c.provider \in registered
    BY <2>1 DEF TermInv, ChallengeInTerm
  <2>3. JailInTerm(o)'
    BY <1>1, <1>3, <1>4, <1>6, <1>7, <2>2 DEF JailInTerm
  <2> QED
    BY <1>1, <1>2, <1>7, <1>8, <2>2, <2>3, OneProviderFrame
<1> QED
  BY <1>5, <1>8 DEF Kept, TermInv

(* By the time the bond may go no challenge is open and the term is over.  *)
LEMMA WithdrawalIsLate ==
  ASSUME TermTypes, TermInv, TermsFit, restarts = 0, NEW o \in Operators, WithdrawBond(o)
  PROVE  jailEnds[o] <= height /\ \A c \in open : c.provider # o
<1>1. /\ provider[o].unbonding # 0 /\ provider[o].unbonding \in Nat
      /\ height >= provider[o].unbonding + params.unbonding
      /\ height \in Nat /\ jailEnds[o] \in Nat
  BY DEF WithdrawBond, BondReleased, TermTypes
<1>2. Since(o) = provider[o].unbonding
  BY <1>1 DEF Since
<1>3. PICK q \in Instance.paramSets, r \in Instance.paramSets :
        jailEnds[o] <= Since(o) + q.response + 1 + r.jail
  BY DEF TermInv, JailInTerm
<1>4. q.response \in Nat /\ r.jail \in Nat /\ params.unbonding \in Nat /\ params \in Instance.paramSets
  BY ParamTypes DEF TermTypes
<1>5. q.response + r.jail < params.unbonding
  BY <1>4 DEF TermsFit
<1>6. jailEnds[o] <= height
  BY <1>1, <1>2, <1>3, <1>4, <1>5
<1>7. ASSUME NEW c \in open, c.provider = o PROVE FALSE
  <2>1. ChallengeInTerm(c)
    BY DEF TermInv
  <2>2. PICK s \in Instance.paramSets : c.deadline <= Since(o) + s.response
    BY <1>7, <2>1 DEF ChallengeInTerm
  <2>3. s.response \in Nat /\ r.jail \in Nat /\ s.response + r.jail < params.unbonding
    BY <1>4, ParamTypes DEF TermsFit
  <2>4. c.deadline \in Nat /\ height <= c.deadline
    BY <2>1 DEF ChallengeInTerm
  <2> QED
    BY <1>1, <1>2, <1>4, <2>2, <2>3, <2>4
<1> QED
  BY <1>6, <1>7

LEMMA WithdrawStep ==
  ASSUME TermTypes, TermInv, NEW o \in Operators, WithdrawBond(o)
  PROVE  Kept
<1>1. /\ registered' = registered \ {o}
      /\ provider' = [provider EXCEPT ![o] = NoProvider]
      /\ UNCHANGED <<height, params, jailEnds, open, restarts, inst>>
  BY DEF WithdrawBond, chain, config, challengeVars
<1>2. DOMAIN NoProvider = ProviderFields /\ NoProvider.jailed = FALSE /\ NoProvider.unbonding = 0
  BY DEF NoProvider, ProviderFields
<1>3. Instance' = Instance
  BY <1>1 DEF Instance
<1>4. TermTypes'
  <2>1. registered' \subseteq Operators
    BY <1>1 DEF TermTypes
  <2>2. NoProvider.jailed \in BOOLEAN
    BY <1>2
  <2>3. NoProvider.unbonding \in Nat
    BY <1>2
  <2> QED
    BY <1>1, <1>2, <2>1, <2>2, <2>3, OneProviderTypes
<1>5. ASSUME TermsFit', restarts' = 0
      PROVE  (\A c \in open' : ChallengeInTerm(c)') /\ (\A q \in Operators : JailInTerm(q)')
  <2>1. TermsFit /\ restarts = 0
    BY <1>1, <1>3, <1>5 DEF TermsFit
  <2>2. jailEnds[o] <= height /\ \A c \in open : c.provider # o
    BY <2>1, WithdrawalIsLate
  <2>3. provider'[o].jailed = FALSE /\ Since(o)' = height
    BY <1>1, <1>2 DEF Since, TermTypes
  <2>4. params.response \in Nat /\ params.jail \in Nat /\ params \in Instance.paramSets
        /\ jailEnds[o] \in Nat /\ height \in Nat
    BY ParamTypes DEF TermTypes
  <2>5. jailEnds[o] <= height + params.response + 1 + params.jail
    BY <2>2, <2>4
  <2>6. JailInTerm(o)'
    BY <1>1, <1>3, <2>2, <2>3, <2>4, <2>5 DEF JailInTerm
  <2> QED
    BY <1>1, <1>5, <2>2, <2>6, OneProviderFrame
<1> QED
  BY <1>4, <1>5 DEF Kept, TermInv

(* Fraud points at height h, the height of the step: only a provider that  *)
(* is jailed now gets a new term.                                          *)
LEMMA ScoringTypes ==
  ASSUME TermTypes, NEW points, NEW h \in Nat, height' = h,
         UNCHANGED <<registered, params, restarts, inst>>,
         DOMAIN provider' = Operators,
         \A o \in Operators : SameTerms(provider'[o], Scored(provider, points, h)[o]),
         NoteJail(points, h)
  PROVE  /\ TermTypes'
         /\ \A o \in Operators :
              /\ provider'[o].unbonding = provider[o].unbonding
              /\ provider'[o].jailed = (provider[o].jailed \/ Crosses(provider, points, o))
              /\ provider'[o].until = IF Crosses(provider, points, o) THEN h + params.jail
                                                                      ELSE provider[o].until
              /\ jailEnds'[o] = IF Crosses(provider, points, o) THEN h + params.jail
                                                                ELSE jailEnds[o]
<1> DEFINE ps == Scored(provider, points, h)
<1>1. \A o \in Operators :
        /\ DOMAIN ps[o] = ProviderFields
        /\ ps[o].unbonding = provider[o].unbonding
        /\ ps[o].jailed \in BOOLEAN
        /\ ps[o].jailed = (provider[o].jailed \/ Crosses(provider, points, o))
        /\ ps[o].until = IF Crosses(provider, points, o) THEN h + params.jail
                                                         ELSE provider[o].until
  BY ScoredKeeps
<1>2. \A o \in Operators : SameTerms(provider'[o], ps[o])
  OBVIOUS
<1> HIDE DEF ps
<1>3. params.jail \in Nat
  BY ParamTypes DEF TermTypes
<1>4. \A o \in Operators : jailEnds'[o] = IF Crosses(provider, points, o) THEN h + params.jail
                                                                          ELSE jailEnds[o]
  BY DEF NoteJail
<1>5. jailEnds' \in [Operators -> Nat]
  BY <1>3 DEF NoteJail, TermTypes
<1>6. \A o \in Operators :
        /\ DOMAIN provider'[o] = ProviderFields
        /\ provider'[o].unbonding = provider[o].unbonding
        /\ provider'[o].jailed \in BOOLEAN
        /\ provider'[o].jailed = (provider[o].jailed \/ Crosses(provider, points, o))
        /\ provider'[o].until = IF Crosses(provider, points, o) THEN h + params.jail
                                                                ELSE provider[o].until
  BY <1>1, <1>2 DEF SameTerms
<1>7. Instance' = Instance
  BY DEF Instance
<1>8. TermTypes'
  BY <1>5, <1>6, <1>7 DEF TermTypes
<1> QED
  BY <1>4, <1>6, <1>8

LEMMA ScoringTerms ==
  ASSUME TermTypes, TermInv, TermsFit, restarts = 0,
         NEW points, NEW h \in Nat, height' = h, height <= h,
         UNCHANGED <<registered, params, restarts, inst>>,
         DOMAIN provider' = Operators,
         \A o \in Operators : SameTerms(provider'[o], Scored(provider, points, h)[o]),
         NoteJail(points, h),
         \A o \in Operators : Crosses(provider, points, o) =>
           /\ o \in registered
           /\ \/ provider[o].unbonding = 0
              \/ \E q \in Instance.paramSets : h <= provider[o].unbonding + q.response + 1
  PROVE  /\ \A o \in Operators : JailInTerm(o)'
         /\ \A o \in Operators : provider'[o].unbonding = provider[o].unbonding
<1>1. /\ TermTypes'
      /\ \A o \in Operators :
              /\ provider'[o].unbonding = provider[o].unbonding
              /\ provider'[o].jailed = (provider[o].jailed \/ Crosses(provider, points, o))
              /\ provider'[o].until = IF Crosses(provider, points, o) THEN h + params.jail
                                                                      ELSE provider[o].until
              /\ jailEnds'[o] = IF Crosses(provider, points, o) THEN h + params.jail
                                                                ELSE jailEnds[o]
  BY ScoringTypes
<1>2. Instance' = Instance
  BY DEF Instance
<1> SUFFICES ASSUME NEW o \in Operators PROVE JailInTerm(o)'
  BY <1>1
<1>3. /\ JailInTerm(o) /\ jailEnds[o] \in Nat /\ height \in Nat /\ provider[o].unbonding \in Nat
      /\ provider[o].jailed \in BOOLEAN
  BY DEF TermInv, TermTypes
<1>4. params \in Instance.paramSets /\ params.jail \in Nat /\ params.response \in Nat
  BY ParamTypes DEF TermTypes
<1>5. Since(o) \in Nat /\ Since(o)' \in Nat /\ Since(o) <= Since(o)'
  BY <1>1, <1>3 DEF Since
<1>6. CASE Crosses(provider, points, o)
  <2>1. provider'[o].jailed = TRUE
    BY <1>1, <1>6
  <2>2. o \in registered' /\ provider'[o].until = jailEnds'[o] /\ jailEnds'[o] = h + params.jail
    BY <1>1, <1>6
  <2>3. \E q, r \in Instance.paramSets : jailEnds'[o] <= Since(o)' + q.response + 1 + r.jail
    <3>1. CASE provider[o].unbonding = 0
      <4>1. Since(o)' = h
        BY <1>1, <3>1 DEF Since
      <4>2. jailEnds'[o] <= Since(o)' + params.response + 1 + params.jail
        BY <1>4, <2>2, <4>1
      <4> QED
        BY <1>4, <4>2
    <3>2. CASE provider[o].unbonding # 0
      <4>1. PICK q \in Instance.paramSets : h <= provider[o].unbonding + q.response + 1
        BY <1>6, <3>2
      <4>2. Since(o)' = provider[o].unbonding /\ q.response \in Nat
        BY <1>1, <3>2, ParamTypes DEF Since
      <4>3. jailEnds'[o] <= Since(o)' + q.response + 1 + params.jail
        BY <1>3, <1>4, <2>2, <4>1, <4>2
      <4> QED
        BY <1>4, <4>3
    <3> QED
      BY <3>1, <3>2
  <2> QED
    BY <1>2, <2>1, <2>2, <2>3 DEF JailInTerm
<1>7. CASE ~Crosses(provider, points, o)
  <2>1. /\ provider'[o].jailed = provider[o].jailed /\ provider'[o].until = provider[o].until
        /\ jailEnds'[o] = jailEnds[o]
    BY <1>1, <1>3, <1>7
  <2>2. PICK q \in Instance.paramSets, r \in Instance.paramSets :
          jailEnds[o] <= Since(o) + q.response + 1 + r.jail
    BY <1>3 DEF JailInTerm
  <2>3. q.response \in Nat /\ r.jail \in Nat
    BY ParamTypes
  <2>4. jailEnds'[o] <= Since(o)' + q.response + 1 + r.jail
    BY <1>3, <1>5, <2>1, <2>2, <2>3
  <2>5. provider[o].jailed = FALSE => jailEnds'[o] <= height'
    BY <1>3, <2>1 DEF JailInTerm
  <2>6. provider[o].jailed = TRUE => o \in registered' /\ provider'[o].until = jailEnds'[o]
    BY <1>3, <2>1 DEF JailInTerm
  <2> QED
    BY <1>2, <2>1, <2>4, <2>5, <2>6 DEF JailInTerm
<1> QED
  BY <1>6, <1>7

LEMMA RefuseStep ==
  ASSUME TermTypes, TermInv, NEW r \in Instance.receipts, RefuseReceipt(r)
  PROVE  Kept
<1> DEFINE o == r.provider
           given == [q \in Operators |-> IF q = o THEN InvalidEvidenceScore ELSE 0]
<1>1. /\ o \in registered /\ provider[o].unbonding = 0
      /\ provider' = Scored(provider, given, height)
      /\ NoteJail(given, height)
      /\ UNCHANGED <<height, params, registered, open, restarts, inst>>
  BY DEF RefuseReceipt, Acceptable, IsActive, Penalise, chain, config, challengeVars
<1>2. \A q \in Operators : Crosses(provider, given, q) => q = o
  BY DEF Crosses
<1>3. height \in Nat /\ o \in Operators
  BY <1>1 DEF TermTypes
<1> HIDE DEF given, o
<1>4. DOMAIN provider' = Operators /\ \A q \in Operators : SameTerms(provider'[q], Scored(provider, given, height)[q])
  BY <1>1, ScoredKeeps DEF SameTerms
<1>5. TermTypes'
  BY <1>1, <1>3, <1>4, ScoringTypes
<1>6. ASSUME TermsFit', restarts' = 0
      PROVE  (\A c \in open' : ChallengeInTerm(c)') /\ (\A q \in Operators : JailInTerm(q)')
  <2>1. TermsFit /\ restarts = 0 /\ Instance' = Instance
    BY <1>1, <1>6 DEF TermsFit, Instance
  <2>2. /\ \A q \in Operators : JailInTerm(q)'
        /\ \A q \in Operators : provider'[q].unbonding = provider[q].unbonding
    BY <1>1, <1>2, <1>3, <1>4, <2>1, ScoringTerms
  <2>3. ASSUME NEW c \in open PROVE ChallengeInTerm(c)'
    <3>1. ChallengeInTerm(c) /\ c.provider \in Operators
      BY <2>1 DEF TermInv, ChallengeInTerm, TermTypes
    <3>2. Since(c.provider)' = Since(c.provider)
      BY <1>1, <2>2, <3>1 DEF Since
    <3> QED
      BY <1>1, <2>1, <3>1, <3>2 DEF ChallengeInTerm
  <2> QED
    BY <1>1, <2>2, <2>3
<1> QED
  BY <1>5, <1>6 DEF Kept, TermInv

(* BeginBlocker jails only for a challenge missed just now.                *)
LEMMA ExpiryJails ==
  ASSUME TermTypes, TermInv, TermsFit, restarts = 0, NEW o \in Operators,
         Crosses(provider, ExpiryPoints(height + 1), o)
  PROVE  /\ o \in registered
         /\ \/ provider[o].unbonding = 0
            \/ \E q \in Instance.paramSets : height + 1 <= provider[o].unbonding + q.response + 1
<1> DEFINE h == height + 1
<1>1. MissedBy(h, o) # {}
  <2>1. SUFFICES ASSUME MissedBy(h, o) = {} PROVE FALSE
    OBVIOUS
  <2>2. ExpiryPoints(h)[o] = Cardinality(MissedBy(h, o)) * ChallengeFailureScore
    BY DEF ExpiryPoints
  <2>3. Cardinality(MissedBy(h, o)) = 0
    BY <2>1, FS_EmptySet
  <2>4. ExpiryPoints(h)[o] = 0
    BY <2>2, <2>3, NumberAssumption
  <2> QED
    BY <2>4 DEF Crosses
<1>2. PICK c \in open : h > c.deadline /\ c.provider = o /\ o \in registered
  BY <1>1 DEF MissedBy, Missed
<1>3. ChallengeInTerm(c)
  BY DEF TermInv
<1>4. PICK q \in Instance.paramSets : c.deadline <= Since(o) + q.response
  BY <1>2, <1>3 DEF ChallengeInTerm
<1>5. /\ q.response \in Nat /\ height \in Nat /\ provider[o].unbonding \in Nat
      /\ c.deadline \in Nat /\ height <= c.deadline
  BY <1>3, ParamTypes DEF TermTypes, ChallengeInTerm
<1>6. ASSUME provider[o].unbonding # 0 PROVE h <= provider[o].unbonding + q.response + 1
  BY <1>2, <1>4, <1>5, <1>6 DEF Since
<1> QED
  BY <1>2, <1>6

LEMMA BlockStep ==
  ASSUME TermTypes, TermInv, BlockFirst \/ BlockWithinEpoch \/ BlockEndsEpoch
  PROVE  Kept
<1> DEFINE h == height + 1
           points == ExpiryPoints(h)
<1>1. BlockRuns
  BY EnabledBlockRuns
<1>2. /\ height' = h /\ UNCHANGED <<registered, params, restarts, inst>>
      /\ NoteJail(points, h) /\ DOMAIN provider' = Operators
      /\ \A o \in Operators : SameTerms(provider'[o], Scored(provider, points, h)[o])
  BY <1>1 DEF BlockRuns, NewBlock, ExpireChallenges, AfterExpiry, config
<1>3. h \in Nat /\ height \in Nat /\ height <= h
  BY DEF TermTypes
<1>4. \A c \in open' :
        \/ c \in open /\ ~(h > c.deadline)
        \/ \E o \in registered :
             /\ Scored(provider, points, h)[o].unbonding = 0
             /\ c.provider = o /\ c.deadline = h + params.response
  BY <1>1 DEF BlockRuns, Missed, AfterExpiry
<1> DEFINE ps == Scored(provider, points, h)
<1>5. \A o \in Operators : ps[o].unbonding = provider[o].unbonding
  <2> HIDE DEF points, h
  <2> QED
    BY ScoredKeeps
<1>6. ASSUME TermsFit, restarts = 0, NEW o \in Operators, Crosses(provider, points, o)
      PROVE  /\ o \in registered
             /\ \/ provider[o].unbonding = 0
                \/ \E q \in Instance.paramSets : h <= provider[o].unbonding + q.response + 1
  BY <1>6, ExpiryJails
<1> HIDE DEF h, points
<1>7. TermTypes'
  BY <1>2, <1>3, ScoringTypes
<1>8. ASSUME TermsFit', restarts' = 0
      PROVE  (\A c \in open' : ChallengeInTerm(c)') /\ (\A q \in Operators : JailInTerm(q)')
  <2>1. TermsFit /\ restarts = 0 /\ Instance' = Instance
    BY <1>2, <1>8 DEF TermsFit, Instance
  <2>2. /\ \A q \in Operators : JailInTerm(q)'
        /\ \A q \in Operators : provider'[q].unbonding = provider[q].unbonding
    BY <1>2, <1>3, <1>6, <2>1, ScoringTerms
  <2>3. params \in Instance.paramSets /\ params.response \in Nat
    BY ParamTypes DEF TermTypes
  <2>4. ASSUME NEW c \in open' PROVE ChallengeInTerm(c)'
    <3>1. CASE c \in open /\ ~(h > c.deadline)
      <4>1. ChallengeInTerm(c) /\ c.provider \in Operators
        BY <2>1, <3>1 DEF TermInv, ChallengeInTerm, TermTypes
      <4>2. /\ provider'[c.provider].unbonding = provider[c.provider].unbonding
            /\ provider[c.provider].unbonding \in Nat
        BY <2>2, <4>1 DEF TermTypes
      <4>3. PICK q \in Instance.paramSets : c.deadline <= Since(c.provider) + q.response
        BY <4>1 DEF ChallengeInTerm
      <4>4. q.response \in Nat /\ c.deadline \in Nat
        BY <4>1, ParamTypes DEF ChallengeInTerm
      <4>5. h <= c.deadline
        BY <1>3, <3>1, <4>4
      <4>6. c.deadline <= Since(c.provider)' + q.response
        BY <1>2, <1>3, <4>2, <4>3, <4>4 DEF Since
      <4> QED
        BY <1>2, <2>1, <4>1, <4>4, <4>5, <4>6 DEF ChallengeInTerm
    <3>2. ASSUME NEW o \in registered, Scored(provider, points, h)[o].unbonding = 0,
                 c.provider = o, c.deadline = h + params.response
          PROVE  ChallengeInTerm(c)'
      <4>1. o \in Operators /\ provider'[o].unbonding = 0
        BY <1>5, <2>2, <3>2 DEF TermTypes
      <4>2. Since(o)' = h
        BY <1>2, <4>1 DEF Since
      <4>3. c.deadline \in Nat /\ h <= c.deadline /\ c.deadline <= Since(o)' + params.response
        BY <1>3, <2>3, <3>2, <4>2
      <4>4. \E q \in Instance'.paramSets : c.deadline <= Since(c.provider)' + q.response
        BY <2>1, <2>3, <3>2, <4>3
      <4> QED
        BY <1>2, <3>2, <4>3, <4>4 DEF ChallengeInTerm
    <3> QED
      BY <1>4, <3>1, <3>2
  <2> QED
    BY <2>2, <2>4
<1> QED
  BY <1>7, <1>8 DEF Kept, TermInv

(* With the module disabled the height moves on; TermsFit excludes it.     *)
LEMMA DisabledStep ==
  ASSUME TermTypes, BlockDisabled
  PROVE  Kept
<1>1. /\ height' = height + 1 /\ ~params.enabled
      /\ UNCHANGED <<registered, params, provider, jailEnds, restarts, inst>>
  BY DEF BlockDisabled, NewBlock, config, fraudVars
<1>2. Instance' = Instance
  BY <1>1 DEF Instance
<1>3. TermTypes'
  BY <1>1, <1>2 DEF TermTypes
<1>4. ~TermsFit'
  BY <1>1, <1>2 DEF TermsFit, TermTypes
<1> QED
  BY <1>3, <1>4 DEF Kept, TermInv

(* After a restart the invariant speaks of nothing but types.              *)
LEMMA RestartStep ==
  ASSUME TermTypes, NEW zero, Restart(zero)
  PROVE  Kept
<1>1. /\ restarts' = restarts + 1 /\ height' = IF zero THEN 0 ELSE height
      /\ UNCHANGED <<registered, params, provider, jailEnds, inst>>
  BY DEF Restart, config
<1>2. Instance' = Instance
  BY <1>1 DEF Instance
<1>3. TermTypes'
  BY <1>1, <1>2 DEF TermTypes
<1>4. restarts' # 0
  BY <1>1 DEF TermTypes
<1> QED
  BY <1>3, <1>4 DEF Kept, TermInv

LEMMA TermNext ==
  ASSUME TermTypes, TermInv, [Next]_vars
  PROVE  Kept
<1>1. Instance.operators \subseteq Operators
  BY DomainAssumption DEF TermTypes, Instance
<1>2. CASE BeginBlock
  BY <1>2, BlockStep, DisabledStep DEF BeginBlock
<1>3. CASE Transaction
  <2>1. ASSUME NEW o \in Instance.operators, NEW r, RegisterProvider(o, r) PROVE Kept
    BY <1>1, <2>1, RegisterStep
  <2>2. ASSUME NEW o \in Instance.operators, NEW u, UpdateProvider(o, u) PROVE Kept
    BY <1>1, <2>2, UpdateStep
  <2>3. ASSUME NEW o \in Instance.operators, Unjail(o) PROVE Kept
    BY <1>1, <2>3, UnjailStep
  <2>4. ASSUME NEW o \in Instance.operators, BeginUnbonding(o) PROVE Kept
    BY <1>1, <2>4, UnbondingStep
  <2>5. ASSUME NEW o \in Instance.operators, WithdrawBond(o) PROVE Kept
    BY <1>1, <2>5, WithdrawStep
  <2>6. ASSUME NEW o, NEW b, AssignStorage(o, b) \/ ReleaseStorage(o, b) PROVE Kept
    <3>1. UNCHANGED <<params, provider, jailEnds, registered, height, restarts, inst, open>>
      BY <2>6 DEF AssignStorage, ReleaseStorage, chain, config, fraudVars, challengeVars
    <3> QED
      BY <3>1, QuietStep DEF TermTypes
  <2>7. ASSUME NEW c \in open, AnswerChallenge(c) PROVE Kept
    <3>1. UNCHANGED <<params, provider, jailEnds, registered, height, restarts, inst>>
      BY <2>7 DEF AnswerChallenge, chain, config, fraudVars
    <3>2. open' \subseteq open
      BY <2>7 DEF AnswerChallenge, Close
    <3> QED
      BY <3>1, <3>2, QuietStep DEF TermTypes
  <2>8. ASSUME NEW r, ApplyReceipt(r) PROVE Kept
    <3>1. UNCHANGED <<params, provider, jailEnds, registered, height, restarts, inst, open>>
      BY <2>8 DEF ApplyReceipt, chain, config, fraudVars, challengeVars
    <3> QED
      BY <3>1, QuietStep DEF TermTypes
  <2>9. ASSUME NEW r \in Instance.receipts, RefuseReceipt(r) PROVE Kept
    BY <2>9, RefuseStep
  <2> QED
    BY <1>3, <2>1, <2>2, <2>3, <2>4, <2>5, <2>6, <2>7, <2>8, <2>9 DEF Transaction
<1>4. ASSUME NEW p \in Instance.paramSets, NEW as, UpdateParams(p, as) PROVE Kept
  <2>1. UNCHANGED <<provider, jailEnds, registered, height, restarts, inst, open>> /\ params' = p
    BY <1>4 DEF UpdateParams, chain, fraudVars, challengeVars
  <2> QED
    BY <2>1, QuietStep
<1>5. ASSUME NEW zero, Restart(zero) PROVE Kept
  BY <1>5, RestartStep
<1>6. CASE UNCHANGED vars
  <2>1. UNCHANGED <<params, provider, jailEnds, registered, height, restarts, inst, open>>
    BY <1>6 DEF vars, chain, config, fraudVars, challengeVars
  <2> QED
    BY <2>1, QuietStep DEF TermTypes
<1> QED
  BY <1>2, <1>3, <1>4, <1>5, <1>6 DEF Next, Done

LEMMA TermsHold == Spec => [](TermTypes /\ TermInv)
<1>1. Init => TermTypes /\ TermInv
  BY TermInit
<1>2. TermTypes /\ TermInv /\ [Next]_vars => (TermTypes /\ TermInv)'
  BY TermNext DEF Kept
<1> QED
  BY <1>1, <1>2, PTL DEF Spec

(* While the parameters fit together (TermsFit), a provider that is active *)
(* has served every jail term it was given: neither Unjail nor leaving and *)
(* registering again lets it back early.                                   *)
THEOREM JailServed == Spec => [](TermsFit => JailIsServed)
<1>1. TermTypes /\ TermInv => (TermsFit => JailIsServed)
  <2> SUFFICES ASSUME TermTypes, TermInv, TermsFit, restarts = 0,
                      NEW o \in registered, IsActive(provider[o])
               PROVE  height >= jailEnds[o]
    BY DEF JailIsServed
  <2>1. JailInTerm(o) /\ provider[o].jailed = FALSE /\ height \in Nat /\ jailEnds[o] \in Nat
    BY DEF TermInv, TermTypes, IsActive
  <2> QED
    BY <2>1 DEF JailInTerm
<1> QED
  BY <1>1, TermsHold, PTL

(* While the parameters fit together, no bond is withdrawn with a          *)
(* challenge of its provider still open: what was asked before the         *)
(* provider left can still be slashed.                                     *)
THEOREM EvidenceOutlived == Spec /\ []TermsFit => BondOutlastsEvidence
<1> DEFINE Late == restarts = 0 => \A o \in registered \ registered' : \A c \in open : c.provider # o
<1>1. TermTypes /\ TermInv /\ TermsFit /\ [Next]_vars => [Late]_vars
  <2> SUFFICES ASSUME TermTypes, TermInv, TermsFit, Next, restarts = 0,
                      NEW o \in registered \ registered'
               PROVE  \A c \in open : c.provider # o
    OBVIOUS
  <2>1. ASSUME \E q \in Instance.operators : WithdrawBond(q) PROVE \A c \in open : c.provider # o
    <3>1. PICK q \in Instance.operators : WithdrawBond(q)
      BY <2>1
    <3>2. q \in Operators
      BY DomainAssumption DEF TermTypes, Instance
    <3>3. registered' = registered \ {q}
      BY <3>1 DEF WithdrawBond
    <3>4. q = o
      BY <3>3
    <3> QED
      BY <3>1, <3>2, <3>4, WithdrawalIsLate
  <2>2. ASSUME ~\E q \in Instance.operators : WithdrawBond(q) PROVE registered \subseteq registered'
    <3>1. CASE BeginBlock
      BY <3>1 DEF BeginBlock, BlockDisabled, BlockFirst, BlockWithinEpoch, BlockEndsEpoch, NewBlock
    <3>2. CASE Transaction
      BY <2>2, <3>2 DEF Transaction, RegisterProvider, UpdateProvider, Unjail, BeginUnbonding,
                        AssignStorage, ReleaseStorage, AnswerChallenge, ApplyReceipt, RefuseReceipt
    <3>3. CASE \E p \in Instance.paramSets, as \in SUBSET Assigners : UpdateParams(p, as)
      BY <3>3 DEF UpdateParams
    <3>4. CASE \E zero \in {FALSE, Instance.zero} : Restart(zero)
      BY <3>4 DEF Restart
    <3>5. CASE Done
      BY <3>5 DEF Done, vars
    <3> QED
      BY <3>1, <3>2, <3>3, <3>4, <3>5 DEF Next
  <2> QED
    BY <2>1, <2>2
<1> QED
  BY <1>1, TermsHold, PTL DEF Spec, BondOutlastsEvidence

----------------------------------------------------------------------------
(* The books: for any finite number of operators, blobs, clients and       *)
(* receipts, any messages and any parameters that validate.                *)

LEMMA TotalIsSum == \A f, S : Total(f, S) = SumOf(f, S)
BY DEF Total, SumOf

----------------------------------------------------------------------------
(* Receipts: a nonce that is not in the store was never credited.          *)

SameNonce(r) == {q \in Receipts : NonceKey(q) = NonceKey(r)}

NonceTypes == restarts \in Nat /\ timesCredited \in [Receipts -> Nat] /\ inst \in DOMAIN Instances

NonceInv ==
  restarts = 0 =>
    \A r \in Receipts :
      /\ SumOf(timesCredited, SameNonce(r)) <= 1
      /\ NonceKey(r) \notin nonces => SumOf(timesCredited, SameNonce(r)) = 0

LEMMA ApplyOnce ==
  ASSUME NonceTypes, NonceInv, NEW r \in Instance.receipts, ApplyReceipt(r)
  PROVE  NonceTypes' /\ NonceInv'
<1>1. /\ NonceKey(r) \notin nonces /\ nonces' = nonces \cup {NonceKey(r)}
      /\ timesCredited' = [timesCredited EXCEPT ![r] = @ + 1]
      /\ UNCHANGED <<restarts, inst>>
  BY DEF ApplyReceipt, Fraudulent, UseNonce
<1>2. r \in Receipts
  BY DomainAssumption DEF NonceTypes, Instance
<1>3. NonceTypes'
  BY <1>1, <1>2 DEF NonceTypes
<1>4. ASSUME restarts' = 0, NEW q \in Receipts
      PROVE  /\ SumOf(timesCredited', SameNonce(q)) <= 1
             /\ NonceKey(q) \notin nonces' => SumOf(timesCredited', SameNonce(q)) = 0
  <2>1. /\ SumOf(timesCredited, SameNonce(q)) <= 1
        /\ NonceKey(q) \notin nonces => SumOf(timesCredited, SameNonce(q)) = 0
    BY <1>1, <1>4 DEF NonceInv
  <2>2. /\ IsFiniteSet(SameNonce(q))
        /\ \A y \in SameNonce(q) : /\ timesCredited[y] \in Int /\ timesCredited'[y] \in Int
                                   /\ y # r => timesCredited'[y] = timesCredited[y]
    <3>1. IsFiniteSet(SameNonce(q))
      BY FinitenessAssumption, FS_Subset DEF SameNonce
    <3> QED
      BY <1>1, <1>3, <3>1 DEF SameNonce, NonceTypes
  <2>3. CASE NonceKey(q) = NonceKey(r)
    <3>1. r \in SameNonce(q) /\ SumOf(timesCredited, SameNonce(q)) = 0
      BY <1>1, <1>2, <2>1, <2>3 DEF SameNonce
    <3>2. SumOf(timesCredited', SameNonce(q))
            = SumOf(timesCredited, SameNonce(q)) - timesCredited[r] + timesCredited'[r]
      BY <2>2, <3>1, SumChangesBy
    <3>3. timesCredited'[r] = timesCredited[r] + 1 /\ timesCredited[r] \in Int
      BY <1>1, <1>2 DEF NonceTypes
    <3> QED
      BY <1>1, <2>3, <3>1, <3>2, <3>3
  <2>4. CASE NonceKey(q) # NonceKey(r)
    <3>1. r \notin SameNonce(q)
      BY <2>4 DEF SameNonce
    <3>2. SumOf(timesCredited', SameNonce(q)) = SumOf(timesCredited, SameNonce(q))
      BY <2>2, <3>1, SumAgrees
    <3> QED
      BY <1>1, <2>1, <3>2
  <2> QED
    BY <2>3, <2>4
<1> QED
  BY <1>3, <1>4 DEF NonceInv

LEMMA NonceStep ==
  ASSUME NonceTypes, NonceInv, [Next]_vars
  PROVE  NonceTypes' /\ NonceInv'
<1>1. CASE UNCHANGED <<nonces, timesCredited, restarts, inst>>
  BY <1>1 DEF NonceTypes, NonceInv
<1>2. ASSUME NEW zero, Restart(zero) PROVE NonceTypes' /\ NonceInv'
  BY <1>2 DEF Restart, NonceTypes, NonceInv
<1>3. CASE BeginBlock
  BY <1>1, <1>3 DEF BeginBlock, BlockDisabled, BlockFirst, BlockWithinEpoch, BlockEndsEpoch, NewBlock
<1>4. CASE Transaction /\ ~\E r \in Instance.receipts : ApplyReceipt(r)
  <2> USE DEF creditVars
  <2>1. ASSUME NEW o, NEW r, RegisterProvider(o, r) PROVE NonceTypes' /\ NonceInv'
    BY <1>1, <2>1 DEF RegisterProvider
  <2>2. ASSUME NEW o, NEW u, UpdateProvider(o, u) PROVE NonceTypes' /\ NonceInv'
    BY <1>1, <2>2 DEF UpdateProvider
  <2>3. ASSUME NEW o, Unjail(o) \/ BeginUnbonding(o) \/ WithdrawBond(o)
        PROVE  NonceTypes' /\ NonceInv'
    BY <1>1, <2>3 DEF Unjail, BeginUnbonding, WithdrawBond
  <2>4. ASSUME NEW o, NEW b, AssignStorage(o, b) \/ ReleaseStorage(o, b)
        PROVE  NonceTypes' /\ NonceInv'
    BY <1>1, <2>4 DEF AssignStorage, ReleaseStorage
  <2>5. ASSUME NEW c, AnswerChallenge(c) PROVE NonceTypes' /\ NonceInv'
    BY <1>1, <2>5 DEF AnswerChallenge
  <2>6. ASSUME NEW r, RefuseReceipt(r) PROVE NonceTypes' /\ NonceInv'
    BY <1>1, <2>6 DEF RefuseReceipt
  <2> QED
    BY <1>4, <2>1, <2>2, <2>3, <2>4, <2>5, <2>6 DEF Transaction
<1>5. ASSUME NEW p, NEW as, UpdateParams(p, as) PROVE NonceTypes' /\ NonceInv'
  BY <1>1, <1>5 DEF UpdateParams, creditVars
<1>6. CASE UNCHANGED vars
  BY <1>1, <1>6 DEF vars, creditVars
<1> QED
  BY <1>2, <1>3, <1>4, <1>5, <1>6, ApplyOnce DEF Next, Done

LEMMA NonceInit == Init => NonceTypes /\ NonceInv
<1> SUFFICES ASSUME Init PROVE NonceTypes /\ NonceInv
  OBVIOUS
<1>1. NonceTypes /\ timesCredited = [r \in Receipts |-> 0]
  BY DEF Init, NonceTypes
<1>2. ASSUME NEW r \in Receipts PROVE SumOf(timesCredited, SameNonce(r)) = 0
  <2>1. IsFiniteSet(SameNonce(r))
    BY FinitenessAssumption, FS_Subset DEF SameNonce
  <2>2. \A q \in SameNonce(r) : timesCredited[q] = 0
    BY <1>1 DEF SameNonce
  <2> QED
    BY <2>1, <2>2, SumOfZeros
<1> QED
  BY <1>1, <1>2 DEF NonceInv

----------------------------------------------------------------------------
(* Storage: an assignment is marked with the last epoch it was paid for,   *)
(* and its marks are never more than the epochs since it was made.         *)

AssignmentRecord == [exists : BOOLEAN, active : BOOLEAN, assigned : Nat, credited : Nat]

MarkInv ==
  /\ epoch \in Nat
  /\ assignment \in [Operators \X Blobs -> AssignmentRecord]
  /\ epochsCredited \in [Operators \X Blobs -> Nat]
  /\ \A a \in Operators \X Blobs :
       /\ ~assignment[a].exists => epochsCredited[a] = 0 /\ ~assignment[a].active
       /\ epochsCredited[a] + assignment[a].assigned <= assignment[a].credited
       /\ assignment[a].credited <= epoch
       /\ assignment[a].credited = epoch => epochsCredited[a] = 0

LEMMA MarkInit == Init => MarkInv
<1> SUFFICES ASSUME Init PROVE MarkInv
  OBVIOUS
<1>1. NoAssignment \in AssignmentRecord
  BY DEF NoAssignment, AssignmentRecord
<1> QED
  BY <1>1 DEF Init, MarkInv, NoAssignment

LEMMA MarkOne ==
  ASSUME MarkInv, NEW a \in Operators \X Blobs, NEW m \in AssignmentRecord,
         assignment' = [assignment EXCEPT ![a] = m], UNCHANGED <<epoch, epochsCredited>>,
         ~m.exists => epochsCredited[a] = 0 /\ ~m.active,
         epochsCredited[a] + m.assigned <= m.credited, m.credited <= epoch,
         m.credited = epoch => epochsCredited[a] = 0
  PROVE  MarkInv'
<1>1. \A b \in Operators \X Blobs : assignment'[b] = IF b = a THEN m ELSE assignment[b]
  BY DEF MarkInv
<1> QED
  BY <1>1 DEF MarkInv

LEMMA AssignStep ==
  ASSUME MarkInv, NEW o \in Operators, NEW b \in Blobs, AssignStorage(o, b)
  PROVE  MarkInv'
<1> DEFINE a == <<o, b>>
<1>1. /\ a \in Operators \X Blobs /\ ~assignment[a].exists
      /\ assignment' = [assignment EXCEPT ![a] = FreshAssignment]
      /\ UNCHANGED <<epoch, epochsCredited>>
  BY DEF AssignStorage, epochVars
<1>2. FreshAssignment \in AssignmentRecord
  BY DEF FreshAssignment, AssignmentRecord, MarkInv
<1>3. FreshAssignment.exists /\ FreshAssignment.assigned = epoch /\ FreshAssignment.credited = epoch
  BY DEF FreshAssignment
<1>4. epochsCredited[a] = 0 /\ epoch \in Nat
  BY <1>1 DEF MarkInv
<1> HIDE DEF a
<1>5. /\ epochsCredited[a] + FreshAssignment.assigned <= FreshAssignment.credited
      /\ FreshAssignment.credited <= epoch
  BY <1>3, <1>4
<1>6. ~FreshAssignment.exists => epochsCredited[a] = 0 /\ ~FreshAssignment.active
  BY <1>3
<1> QED
  BY <1>1, <1>2, <1>4, <1>5, <1>6, MarkOne

LEMMA ReleaseStep ==
  ASSUME MarkInv, NEW o \in Operators, NEW b \in Blobs, ReleaseStorage(o, b)
  PROVE  MarkInv'
<1> DEFINE a == <<o, b>>
           m == [assignment[a] EXCEPT !.active = FALSE]
<1>1. /\ a \in Operators \X Blobs /\ assignment' = [assignment EXCEPT ![a].active = FALSE]
      /\ UNCHANGED <<epoch, epochsCredited>>
  BY DEF ReleaseStorage, epochVars
<1>2. assignment[a] \in AssignmentRecord
  BY <1>1 DEF MarkInv
<1>3. assignment' = [assignment EXCEPT ![a] = m]
  BY <1>1 DEF MarkInv
<1>4. /\ m \in AssignmentRecord /\ m.exists = assignment[a].exists /\ ~m.active
      /\ m.assigned = assignment[a].assigned /\ m.credited = assignment[a].credited
  BY <1>2 DEF AssignmentRecord
<1> HIDE DEF a, m
<1>5. /\ ~m.exists => epochsCredited[a] = 0 /\ ~m.active
      /\ epochsCredited[a] + m.assigned <= m.credited /\ m.credited <= epoch
      /\ m.credited = epoch => epochsCredited[a] = 0
  BY <1>1, <1>4 DEF MarkInv
<1> QED
  BY <1>1, <1>3, <1>4, <1>5, MarkOne

(* AccrueStorageCredit marks with the epoch that ends now what was marked  *)
(* with an earlier one.                                                    *)
LEMMA SettleMarks ==
  ASSUME MarkInv, NEW ps, MarkCredited(ps), epoch' = epoch + 1
  PROVE  MarkInv'
<1> DEFINE paid(a) == Accrues(ps, a[1]) /\ a[2] \in Held(a[1])
<1>1. /\ assignment' = [a \in Operators \X Blobs |->
           IF paid(a) THEN [assignment[a] EXCEPT !.credited = epoch] ELSE assignment[a]]
      /\ epochsCredited' = [a \in Operators \X Blobs |-> epochsCredited[a] + IF paid(a) THEN 1 ELSE 0]
  BY DEF MarkCredited
<1>2. \A a \in Operators \X Blobs : paid(a) => assignment[a].active /\ assignment[a].credited < epoch
  BY DEF Held, ActiveBlobs
<1> HIDE DEF paid
<1>3. ASSUME NEW a \in Operators \X Blobs
      PROVE  /\ assignment'[a] \in AssignmentRecord /\ epochsCredited'[a] \in Nat
             /\ ~assignment'[a].exists => epochsCredited'[a] = 0 /\ ~assignment'[a].active
             /\ epochsCredited'[a] + assignment'[a].assigned <= assignment'[a].credited
             /\ assignment'[a].credited <= epoch
  <2>1. /\ assignment[a] \in AssignmentRecord /\ epochsCredited[a] \in Nat /\ epoch \in Nat
        /\ ~assignment[a].exists => epochsCredited[a] = 0 /\ ~assignment[a].active
        /\ epochsCredited[a] + assignment[a].assigned <= assignment[a].credited
        /\ assignment[a].credited <= epoch
    BY DEF MarkInv
  <2>2. CASE paid(a)
    <3>1. assignment'[a] = [assignment[a] EXCEPT !.credited = epoch]
      BY <1>1, <2>2
    <3>2. epochsCredited'[a] = epochsCredited[a] + 1
      BY <1>1, <2>1, <2>2
    <3>3. /\ assignment'[a] \in AssignmentRecord /\ assignment'[a].credited = epoch
          /\ assignment'[a].exists = assignment[a].exists
          /\ assignment'[a].active = assignment[a].active
          /\ assignment'[a].assigned = assignment[a].assigned
      BY <2>1, <3>1 DEF AssignmentRecord
    <3>4. assignment[a].active /\ assignment[a].credited < epoch
      BY <1>2, <2>2
    <3>5. assignment[a].assigned \in Nat /\ assignment[a].credited \in Nat
      BY <2>1 DEF AssignmentRecord
    <3> QED
      BY <2>1, <3>2, <3>3, <3>4, <3>5
  <2>3. CASE ~paid(a)
    <3>1. assignment'[a] = assignment[a] /\ epochsCredited'[a] = epochsCredited[a]
      BY <1>1, <2>1, <2>3
    <3> QED
      BY <2>1, <3>1
  <2> QED
    BY <2>2, <2>3
<1>4. /\ assignment' \in [Operators \X Blobs -> AssignmentRecord]
      /\ epochsCredited' \in [Operators \X Blobs -> Nat]
  BY <1>1, <1>3
<1>5. \A a \in Operators \X Blobs : assignment'[a].credited # epoch'
  BY <1>3 DEF MarkInv, AssignmentRecord
<1>6. epoch' \in Nat /\ epoch <= epoch' /\ epoch \in Nat
  BY DEF MarkInv
<1>7. \A a \in Operators \X Blobs : assignment'[a].credited <= epoch'
  BY <1>3, <1>4, <1>6 DEF AssignmentRecord
<1> QED
  BY <1>3, <1>4, <1>5, <1>6, <1>7 DEF MarkInv

LEMMA MarkStep ==
  ASSUME MarkInv, inst \in DOMAIN Instances, [Next]_vars
  PROVE  MarkInv'
<1>1. CASE UNCHANGED <<epoch, assignment, epochsCredited>>
  BY <1>1 DEF MarkInv
<1> USE DEF epochVars, storageVars
<1>2. CASE BlockEndsEpoch
  BY <1>2, SettleMarks DEF BlockEndsEpoch, SettleEpoch
<1>3. CASE BlockDisabled \/ BlockFirst \/ BlockWithinEpoch
  BY <1>1, <1>3 DEF BlockDisabled, BlockFirst, BlockWithinEpoch
<1>4. CASE Transaction
  <2>1. ASSUME NEW o, NEW r, RegisterProvider(o, r) PROVE MarkInv'
    BY <1>1, <2>1 DEF RegisterProvider
  <2>2. ASSUME NEW o, NEW u, UpdateProvider(o, u) PROVE MarkInv'
    BY <1>1, <2>2 DEF UpdateProvider
  <2>3. ASSUME NEW o, Unjail(o) \/ BeginUnbonding(o) \/ WithdrawBond(o) PROVE MarkInv'
    BY <1>1, <2>3 DEF Unjail, BeginUnbonding, WithdrawBond
  <2>4. ASSUME NEW o \in Instance.operators, NEW b \in Instance.blobs,
               AssignStorage(o, b) \/ ReleaseStorage(o, b)
        PROVE  MarkInv'
    <3>1. o \in Operators /\ b \in Blobs
      BY DomainAssumption DEF Instance
    <3> QED
      BY <2>4, <3>1, AssignStep, ReleaseStep
  <2>5. ASSUME NEW c, AnswerChallenge(c) PROVE MarkInv'
    BY <1>1, <2>5 DEF AnswerChallenge
  <2>6. ASSUME NEW r, ApplyReceipt(r) \/ RefuseReceipt(r) PROVE MarkInv'
    BY <1>1, <2>6 DEF ApplyReceipt, RefuseReceipt
  <2> QED
    BY <1>4, <2>1, <2>2, <2>3, <2>4, <2>5, <2>6 DEF Transaction
<1>5. ASSUME NEW p, NEW as, UpdateParams(p, as) PROVE MarkInv'
  BY <1>1, <1>5 DEF UpdateParams
<1>6. ASSUME NEW zero, Restart(zero) PROVE MarkInv'
  BY <1>1, <1>6 DEF Restart
<1>7. CASE UNCHANGED vars
  BY <1>1, <1>7 DEF vars
<1> QED
  BY <1>2, <1>3, <1>4, <1>5, <1>6, <1>7 DEF Next, Done, BeginBlock

(* No receipt is credited twice and no epoch of storage is paid twice, nor *)
(* the epoch the assignment was made in, for any receipts, assignments and *)
(* order of messages.                                                      *)
THEOREM PaidOnce == Spec => []NothingPaidTwice
<1>1. NonceTypes /\ NonceInv /\ MarkInv => NothingPaidTwice
  <2> SUFFICES ASSUME NonceTypes, NonceInv, MarkInv, restarts = 0
               PROVE  NonceCreditedOnce /\ StoragePaidOncePerEpoch
    BY DEF NothingPaidTwice
  <2>1. NonceCreditedOnce
    BY TotalIsSum DEF NonceInv, NonceCreditedOnce, SameNonce
  <2>2. ASSUME NEW a \in Operators \X Blobs, epochsCredited[a] # 0
        PROVE  epochsCredited[a] <= epoch - 1 - assignment[a].assigned
    <3>1. /\ assignment[a].assigned \in Nat /\ assignment[a].credited \in Nat
          /\ epochsCredited[a] \in Nat /\ epoch \in Nat
      BY DEF MarkInv, AssignmentRecord
    <3>2. /\ epochsCredited[a] + assignment[a].assigned <= assignment[a].credited
          /\ assignment[a].credited <= epoch /\ assignment[a].credited # epoch
      BY <2>2 DEF MarkInv
    <3> QED
      BY <3>1, <3>2
  <2> QED
    BY <2>1, <2>2 DEF StoragePaidOncePerEpoch
<1>2. Init => NonceTypes /\ NonceInv /\ MarkInv
  BY NonceInit, MarkInit
<1>3. NonceTypes /\ NonceInv /\ MarkInv /\ [Next]_vars => (NonceTypes /\ NonceInv /\ MarkInv)'
  BY NonceStep, MarkStep DEF NonceTypes
<1> QED
  BY <1>1, <1>2, <1>3, PTL DEF Spec

----------------------------------------------------------------------------
(* Money: bonds, the reserve and what a settlement pays.                   *)

CreditRecord == [relay : Nat, issued : Nat, passed : Nat, missed : Nat]

MoneyInv ==
  /\ ValidParams(params)
  /\ bond \in [Operators -> Nat] /\ bondPool = SumOf(bond, Operators)
  /\ \A o \in Operators \ registered : bond[o] = 0
  /\ reserve \in Nat /\ emitted \in Nat /\ slashed \in Nat
  /\ reserve + emitted = InitialReserve + slashed
  /\ \A o \in registered : provider[o].roles # {}
  /\ credit \in [Operators -> CreditRecord]
  /\ clientCredit \in [Operators -> [Clients -> Nat]]
  /\ settlement \in [budget : Nat, paid : [Operators -> Nat], share : Nat]
  /\ SumOf(settlement.paid, Operators) <= settlement.budget
  /\ \A o \in Operators :
       \/ settlement.paid[o] * BasisPointsMax <= settlement.budget * settlement.share
       \/ settlement.budget * settlement.share < BasisPointsMax

(* A share of an amount, rounded down.                                     *)
LEMMA ShareBound ==
  ASSUME NEW amount \in Nat, NEW bps \in Nat
  PROVE  /\ Share(amount, bps) \in Nat
         /\ Share(amount, bps) * BasisPointsMax <= amount * bps
         /\ amount * bps < (Share(amount, bps) + 1) * BasisPointsMax
         /\ bps <= BasisPointsMax => Share(amount, bps) <= amount
<1> DEFINE q == Share(amount, bps)
           m == BasisPointsMax
<1>1. m \in Nat /\ m > 0
  BY NumberAssumption
<1>2. amount * bps \in Nat
  OBVIOUS
<1>3. q \in Nat /\ q * m <= amount * bps /\ amount * bps < (q + 1) * m
  BY <1>1, <1>2 DEF Share
<1> HIDE DEF q, m
<1>4. ASSUME bps <= m, q > amount PROVE FALSE
  <2>1. amount * bps <= amount * m
    BY <1>1, <1>4
  <2>2. q * m >= (amount + 1) * m
    BY <1>1, <1>3, <1>4
  <2>3. (amount + 1) * m = amount * m + m
    BY <1>1
  <2> QED
    BY <1>1, <1>2, <1>3, <2>1, <2>2, <2>3
<1> QED
  BY <1>3, <1>4 DEF q, m

(* slashBond takes from the pool what it takes from the bonds.             *)
LEMMA SlashMoney ==
  ASSUME TermTypes, MoneyInv, NEW points, SlashBonds(points)
  PROVE  /\ bond' \in [Operators -> Nat] /\ bondPool' = SumOf(bond', Operators)
         /\ \A o \in Operators : bond[o] = 0 => bond'[o] = 0
         /\ SlashedNow(points) \in Nat /\ slashed' = slashed + SlashedNow(points)
<1> DEFINE cut == [o \in Operators |-> Slash(points, o)]
<1>1. /\ bond' = [o \in Operators |-> bond[o] - cut[o]]
      /\ bondPool' = bondPool - SumOf(cut, Operators)
      /\ slashed' = slashed + SumOf(cut, Operators)
      /\ SlashedNow(points) = SumOf(cut, Operators)
  BY TotalIsSum DEF SlashBonds, SlashedNow
<1>2. params.slash \in Nat /\ params.slash <= BasisPointsMax
  BY ParamTypes DEF TermTypes, MoneyInv, ValidParams
<1>3. ASSUME NEW o \in Operators PROVE cut[o] \in Nat /\ cut[o] <= bond[o] /\ bond[o] \in Nat
  <2>1. bond[o] \in Nat
    BY DEF MoneyInv
  <2>2. Share(bond[o], params.slash) \in Nat /\ Share(bond[o], params.slash) <= bond[o]
    BY <1>2, <2>1, ShareBound
  <2>3. cut[o] = IF Crosses(provider, points, o) THEN Share(bond[o], params.slash) ELSE 0
    BY DEF Slash
  <2> HIDE DEF cut
  <2> QED
    BY <2>1, <2>2, <2>3
<1> HIDE DEF cut
<1>4. SumOf(cut, Operators) \in Nat
  BY <1>3, SumIsNat, FinitenessAssumption
<1>5. bond' \in [Operators -> Nat] /\ \A o \in Operators : bond'[o] = bond[o] - cut[o]
  BY <1>1, <1>3
<1>6. SumOf(bond', Operators) = SumOf(bond, Operators) - SumOf(cut, Operators)
  BY <1>3, <1>5, SumOfDifferences, FinitenessAssumption
<1>7. \A o \in Operators : bond[o] = 0 => bond'[o] = 0
  BY <1>3, <1>5
<1> QED
  BY <1>1, <1>4, <1>5, <1>6, <1>7 DEF MoneyInv

(* Money that moves neither in the reserve nor in a settlement.            *)
LEMMA BondFrame ==
  ASSUME MoneyInv, UNCHANGED <<reserve, emitted, slashed, settlement>>,
         ValidParams(params)',
         bond' \in [Operators -> Nat], bondPool' = SumOf(bond', Operators),
         \A o \in Operators \ registered' : bond'[o] = 0,
         \A o \in registered' : provider'[o].roles # {},
         credit' \in [Operators -> CreditRecord],
         clientCredit' \in [Operators -> [Clients -> Nat]]
  PROVE  MoneyInv'
BY DEF MoneyInv

LEMMA MoneyFrame ==
  ASSUME MoneyInv,
         UNCHANGED <<params, bond, bondPool, registered, reserve, emitted, slashed, settlement>>,
         \A o \in registered : provider'[o].roles = provider[o].roles,
         credit' \in [Operators -> CreditRecord],
         clientCredit' \in [Operators -> [Clients -> Nat]]
  PROVE  MoneyInv'
BY DEF MoneyInv, ValidParams

LEMMA RegisterMoney ==
  ASSUME TermTypes, MoneyInv, NEW o \in Operators, NEW r \in Instance.registrations,
         RegisterProvider(o, r)
  PROVE  MoneyInv'
<1>1. /\ o \notin registered /\ registered' = registered \cup {o}
      /\ bond' = [bond EXCEPT ![o] = r.bond] /\ bondPool' = bondPool + r.bond
      /\ UNCHANGED <<reserve, emitted, slashed, settlement, params, credit, clientCredit>>
  BY DEF RegisterProvider, config, creditVars, payVars
<1>2. provider' = [provider EXCEPT ![o] =
         [declared |-> r.declared, roles |-> r.roles, reward |-> r.reward,
          jailed |-> FALSE, until |-> 0, unbonding |-> 0, score |-> 0]]
  BY DEF RegisterProvider
<1>3. r.bond \in Nat /\ r.roles # {}
  BY MessageAssumption DEF TermTypes, Instance
<1>4. bond[o] = 0 /\ bond \in [Operators -> Nat] /\ bondPool = SumOf(bond, Operators)
  BY <1>1 DEF MoneyInv
<1>5. /\ bond' \in [Operators -> Nat] /\ bond'[o] = r.bond
      /\ \A q \in Operators : q # o => bond'[q] = bond[q]
  BY <1>1, <1>3, <1>4
<1>6. SumOf(bond', Operators) = SumOf(bond, Operators) - bond[o] + bond'[o]
  BY <1>4, <1>5, SumChangesBy, FinitenessAssumption
<1>7. SumOf(bond, Operators) \in Nat
  BY <1>4, SumIsNat, FinitenessAssumption
<1>8. bondPool' = SumOf(bond', Operators)
  BY <1>1, <1>3, <1>4, <1>5, <1>6, <1>7
<1>9. \A q \in registered' : provider'[q].roles # {}
  BY <1>1, <1>2, <1>3 DEF MoneyInv, TermTypes
<1>10. \A q \in Operators \ registered' : bond'[q] = 0
  BY <1>1, <1>5 DEF MoneyInv
<1>11. /\ ValidParams(params)' /\ credit' \in [Operators -> CreditRecord]
       /\ clientCredit' \in [Operators -> [Clients -> Nat]]
  BY <1>1 DEF MoneyInv, ValidParams
<1> QED
  BY <1>1, <1>5, <1>8, <1>9, <1>10, <1>11, BondFrame

LEMMA UpdateMoney ==
  ASSUME TermTypes, MoneyInv, NEW o \in Operators, NEW u \in Instance.updates,
         UpdateProvider(o, u)
  PROVE  MoneyInv'
<1>1. /\ o \in registered /\ registered' = registered
      /\ bond' = [bond EXCEPT ![o] = @ + u.bond] /\ bondPool' = bondPool + u.bond
      /\ UNCHANGED <<reserve, emitted, slashed, settlement, params, credit, clientCredit>>
  BY DEF UpdateProvider, config, creditVars, payVars
<1>2. provider' = [provider EXCEPT ![o] = Updated(@, u)]
  BY DEF UpdateProvider
<1>3. u.bond \in Nat
  BY MessageAssumption DEF TermTypes, Instance
<1>4. bond \in [Operators -> Nat] /\ bondPool = SumOf(bond, Operators)
  BY DEF MoneyInv
<1>5. /\ bond' \in [Operators -> Nat] /\ bond'[o] = bond[o] + u.bond
      /\ \A q \in Operators : q # o => bond'[q] = bond[q]
  BY <1>1, <1>3, <1>4
<1>6. SumOf(bond', Operators) = SumOf(bond, Operators) - bond[o] + bond'[o]
  BY <1>4, <1>5, SumChangesBy, FinitenessAssumption
<1>7. SumOf(bond, Operators) \in Nat
  BY <1>4, SumIsNat, FinitenessAssumption
<1>8. bondPool' = SumOf(bond', Operators)
  BY <1>1, <1>3, <1>4, <1>5, <1>6, <1>7
<1>9. ASSUME NEW q \in registered' PROVE provider'[q].roles # {}
  <2>1. q \in registered /\ provider[q].roles # {} /\ q \in Operators
    BY <1>1 DEF MoneyInv, TermTypes
  <2>2. CASE q = o
    <3> DEFINE p == provider[o]
    <3>1. DOMAIN p = ProviderFields
      BY DEF TermTypes
    <3>2. p.roles # {}
      BY <2>1, <2>2
    <3>3. provider'[o] = Updated(p, u)
      BY <1>2 DEF TermTypes
    <3> HIDE DEF p
    <3>4. Updated(p, u).roles = IF u.roles = {} THEN p.roles ELSE u.roles
      BY <3>1 DEF Updated, ProviderFields
    <3> QED
      BY <2>2, <3>2, <3>3, <3>4
  <2>3. CASE q # o
    BY <1>2, <2>1, <2>3 DEF TermTypes
  <2> QED
    BY <2>2, <2>3
<1>10. \A q \in Operators \ registered' : bond'[q] = 0
  BY <1>1, <1>5 DEF MoneyInv
<1>11. /\ ValidParams(params)' /\ credit' \in [Operators -> CreditRecord]
       /\ clientCredit' \in [Operators -> [Clients -> Nat]]
  BY <1>1 DEF MoneyInv, ValidParams
<1> QED
  BY <1>1, <1>5, <1>8, <1>9, <1>10, <1>11, BondFrame

LEMMA WithdrawMoney ==
  ASSUME TermTypes, MoneyInv, NEW o \in Operators, WithdrawBond(o)
  PROVE  MoneyInv'
<1>1. /\ registered' = registered \ {o}
      /\ bond' = [bond EXCEPT ![o] = 0] /\ bondPool' = bondPool - bond[o]
      /\ provider' = [provider EXCEPT ![o] = NoProvider]
      /\ UNCHANGED <<reserve, emitted, slashed, settlement, params, credit, clientCredit>>
  BY DEF WithdrawBond, config, creditVars, payVars
<1>4. bond \in [Operators -> Nat] /\ bondPool = SumOf(bond, Operators)
  BY DEF MoneyInv
<1>5. /\ bond' \in [Operators -> Nat] /\ bond'[o] = 0
      /\ \A q \in Operators : q # o => bond'[q] = bond[q]
  BY <1>1, <1>4
<1>6. SumOf(bond', Operators) = SumOf(bond, Operators) - bond[o] + bond'[o]
  BY <1>4, <1>5, SumChangesBy, FinitenessAssumption
<1>7. SumOf(bond, Operators) \in Nat
  BY <1>4, SumIsNat, FinitenessAssumption
<1>8. bondPool' = SumOf(bond', Operators)
  BY <1>1, <1>4, <1>5, <1>6, <1>7
<1>9. \A q \in registered' : provider'[q].roles # {}
  BY <1>1 DEF MoneyInv, TermTypes
<1>10. \A q \in Operators \ registered' : bond'[q] = 0
  BY <1>1, <1>5 DEF MoneyInv
<1>11. /\ ValidParams(params)' /\ credit' \in [Operators -> CreditRecord]
       /\ clientCredit' \in [Operators -> [Clients -> Nat]]
  BY <1>1 DEF MoneyInv, ValidParams
<1> QED
  BY <1>1, <1>5, <1>8, <1>9, <1>10, <1>11, BondFrame

LEMMA UnjailMoney ==
  ASSUME TermTypes, MoneyInv, NEW o \in Operators, Unjail(o) \/ BeginUnbonding(o)
  PROVE  MoneyInv'
<1>1. UNCHANGED <<params, bond, bondPool, registered, reserve, emitted, slashed, settlement,
                  credit, clientCredit>>
  BY DEF Unjail, BeginUnbonding, config, creditVars, payVars
<1>2. ASSUME NEW q \in registered PROVE provider'[q].roles = provider[q].roles
  <2>1. DOMAIN provider = Operators /\ q \in Operators /\ DOMAIN provider[o] = ProviderFields
    BY DEF TermTypes
  <2>2. CASE Unjail(o)
    BY <2>1, <2>2 DEF Unjail, ProviderFields
  <2>3. CASE BeginUnbonding(o)
    BY <2>1, <2>3 DEF BeginUnbonding, ProviderFields
  <2> QED
    BY <2>2, <2>3
<1> QED
  BY <1>1, <1>2, MoneyFrame DEF MoneyInv

LEMMA AnswerMoney ==
  ASSUME TermTypes, MoneyInv, NEW c, c.provider \in Operators, AnswerChallenge(c)
  PROVE  MoneyInv'
<1>1. UNCHANGED <<params, bond, bondPool, registered, reserve, emitted, slashed, settlement,
                  provider, clientCredit>>
  BY DEF AnswerChallenge, config, fraudVars, payVars
<1>2. credit' = IF c.epoch = epoch THEN [credit EXCEPT ![c.provider].passed = @ + 1] ELSE credit
  BY DEF AnswerChallenge
<1>3. credit \in [Operators -> CreditRecord]
  BY DEF MoneyInv
<1>4. credit' \in [Operators -> CreditRecord]
  BY <1>2, <1>3 DEF CreditRecord
<1> QED
  BY <1>1, <1>4, MoneyFrame DEF MoneyInv

LEMMA ApplyMoney ==
  ASSUME TermTypes, MoneyInv, NEW r \in Instance.receipts, ApplyReceipt(r)
  PROVE  MoneyInv'
<1> DEFINE o == r.provider
           cr == CreditForReceipt(r)
<1>1. /\ UNCHANGED <<params, bond, bondPool, registered, reserve, emitted, slashed, settlement,
                     provider>>
      /\ credit' = [credit EXCEPT ![o].relay = @ + cr]
      /\ clientCredit' = [clientCredit EXCEPT ![o][r.client] = @ + cr]
  BY DEF ApplyReceipt, config, fraudVars, payVars
<1>2. o \in Operators /\ r.client \in Clients /\ r.units \in Nat
  BY MessageAssumption DEF TermTypes, Instance
<1>3. cr \in Nat
  <2>1. params.relayRate \in Nat /\ CreditScale \in Nat /\ Gibibyte \in Nat /\ Gibibyte > 0
    BY ParamTypes, NumberAssumption DEF TermTypes
  <2>2. r.units * CreditScale * params.relayRate \in Nat
    BY <1>2, <2>1
  <2> QED
    BY <2>1, <2>2 DEF CreditForReceipt
<1>4. credit \in [Operators -> CreditRecord] /\ clientCredit \in [Operators -> [Clients -> Nat]]
  BY DEF MoneyInv
<1> HIDE DEF cr, o
<1>5. credit' \in [Operators -> CreditRecord]
  BY <1>1, <1>2, <1>3, <1>4 DEF CreditRecord
<1>6. clientCredit' \in [Operators -> [Clients -> Nat]]
  BY <1>1, <1>2, <1>3, <1>4
<1> QED
  BY <1>1, <1>5, <1>6, MoneyFrame

LEMMA ScoredRoles ==
  ASSUME TermTypes, NEW points, NEW h, NEW o \in Operators
  PROVE  Scored(provider, points, h)[o].roles = provider[o].roles
<1> DEFINE p == provider[o]
           x == Crosses(provider, points, o)
<1>1. Scored(provider, points, h)[o] =
        [p EXCEPT !.score = @ + points[o], !.jailed = @ \/ x,
                  !.until = IF x THEN h + params.jail ELSE @]
  BY DEF Scored
<1>2. DOMAIN p = ProviderFields
  BY DEF TermTypes
<1> HIDE DEF p, x
<1>3. Scored(provider, points, h)[o].roles = p.roles
  BY <1>1, <1>2 DEF ProviderFields
<1> QED
  BY <1>3 DEF p

(* A step that scores fraud and moves the slashed coins to the reserve.    *)
LEMMA SlashFrame ==
  ASSUME TermTypes, MoneyInv, NEW points, SlashBonds(points),
         reserve' = reserve + SlashedNow(points),
         UNCHANGED <<params, registered, emitted, settlement>>,
         \A o \in registered : provider'[o].roles = provider[o].roles,
         credit' \in [Operators -> CreditRecord],
         clientCredit' \in [Operators -> [Clients -> Nat]]
  PROVE  MoneyInv'
<1>1. /\ bond' \in [Operators -> Nat] /\ bondPool' = SumOf(bond', Operators)
      /\ \A o \in Operators : bond[o] = 0 => bond'[o] = 0
      /\ SlashedNow(points) \in Nat /\ slashed' = slashed + SlashedNow(points)
  BY SlashMoney
<1>2. /\ reserve' \in Nat /\ slashed' \in Nat
      /\ reserve' + emitted' = InitialReserve + slashed'
  <2>1. /\ reserve \in Nat /\ emitted \in Nat /\ slashed \in Nat
        /\ reserve + emitted = InitialReserve + slashed
    BY DEF MoneyInv
  <2>2. InitialReserve \in Nat
    BY NumberAssumption
  <2> DEFINE n == SlashedNow(points)
  <2>3. /\ n \in Nat /\ slashed' = slashed + n /\ reserve' = reserve + n
        /\ emitted' = emitted
    BY <1>1
  <2> HIDE DEF n
  <2>4. reserve' \in Nat /\ slashed' \in Nat
    BY <2>1, <2>3
  <2>5. reserve' + emitted' = (reserve + n) + emitted
    BY <2>3
  <2>6. (reserve + n) + emitted = (reserve + emitted) + n
    BY <2>1, <2>3
  <2>7. (InitialReserve + slashed) + n = InitialReserve + (slashed + n)
    BY <2>1, <2>2, <2>3
  <2> QED
    BY <2>1, <2>3, <2>4, <2>5, <2>6, <2>7
<1>3. \A o \in Operators \ registered' : bond'[o] = 0
  BY <1>1 DEF MoneyInv
<1> QED
  BY <1>1, <1>2, <1>3 DEF MoneyInv, ValidParams

LEMMA RefuseMoney ==
  ASSUME TermTypes, MoneyInv, NEW r \in Instance.receipts, RefuseReceipt(r)
  PROVE  MoneyInv'
<1> DEFINE given == [q \in Operators |-> IF q = r.provider THEN InvalidEvidenceScore ELSE 0]
<1>1. /\ SlashBonds(given) /\ reserve' = reserve + SlashedNow(given)
      /\ provider' = Scored(provider, given, height)
      /\ UNCHANGED <<params, registered, emitted, settlement, credit, clientCredit>>
  BY DEF RefuseReceipt, Penalise, config, creditVars, payVars
<1> HIDE DEF given
<1>2. \A o \in registered : provider'[o].roles = provider[o].roles
  BY <1>1, ScoredRoles DEF TermTypes
<1> QED
  BY <1>1, <1>2, SlashFrame DEF MoneyInv

----------------------------------------------------------------------------
(* SettleEpoch.                                                            *)

LEMMA HeldBytes ==
  ASSUME NEW o
  PROVE  Total(BlobSize, Held(o)) \in Nat
<1>1. IsFiniteSet(Held(o)) /\ Held(o) \subseteq Blobs
  <2>1. Held(o) \subseteq Blobs
    BY DEF Held, ActiveBlobs
  <2> QED
    BY <2>1, FinitenessAssumption, FS_Subset
<1>2. \A b \in Held(o) : BlobSize[b] \in Nat
  BY <1>1, DomainAssumption
<1>3. SumOf(BlobSize, Held(o)) \in Nat
  BY <1>1, <1>2, SumIsNat
<1> QED
  BY <1>3, TotalIsSum

LEMMA QuotientIsNat ==
  ASSUME NEW a \in Nat, NEW d \in Nat, d # 0
  PROVE  a \div d \in Nat /\ d * (a \div d) <= a
OBVIOUS

LEMMA EffectiveCreditIsNat ==
  ASSUME TermTypes, MoneyInv, NEW ps, NEW o \in Operators
  PROVE  EffectiveCredit(ps, o) \in Nat
<1> DEFINE held == Total(BlobSize, Held(o))
           earned == credit[o].relay
           allowed == Share(earned, params.concentration)
           largest == LargestClientCredit(o)
<1>1. /\ credit[o] \in CreditRecord /\ clientCredit[o] \in [Clients -> Nat]
  BY DEF MoneyInv
<1>2. /\ earned \in Nat /\ credit[o].issued \in Nat /\ credit[o].passed \in Nat
  BY <1>1 DEF CreditRecord
<1>3. /\ params.storageRate \in Nat /\ params.concentration \in Nat
      /\ CreditScale \in Nat /\ Gibibyte \in Nat /\ Gibibyte # 0
  BY ParamTypes, NumberAssumption DEF TermTypes
<1>4. StorageCredit(ps, o) \in Nat
  <2> DEFINE full == (held * CreditScale * params.storageRate) \div Gibibyte
  <2>1. held * CreditScale * params.storageRate \in Nat
    BY <1>3, HeldBytes
  <2>2. full \in Nat
    BY <1>3, <2>1, QuotientIsNat
  <2>3. StorageCredit(ps, o) = IF Accrues(ps, o) THEN (full * credit[o].passed) \div credit[o].issued
                                                ELSE 0
    BY DEF StorageCredit
  <2>4. Accrues(ps, o) => credit[o].issued # 0
    BY <1>2 DEF Accrues
  <2> HIDE DEF full
  <2>5. full * credit[o].passed \in Nat
    BY <1>2, <2>2
  <2> QED
    BY <1>2, <2>3, <2>4, <2>5, QuotientIsNat
<1>5. allowed \in Nat
  BY <1>2, <1>3, ShareBound
<1>6. largest \in Nat
  <2> DEFINE amounts == {clientCredit[o][c] : c \in Clients} \cup {0}
  <2>1. amounts \subseteq Nat /\ amounts # {}
    BY <1>1
  <2>2. IsFiniteSet({clientCredit[o][c] : c \in Clients})
    <3> DEFINE f == [c \in Clients |-> clientCredit[o][c]]
               T == {clientCredit[o][c] : c \in Clients}
    <3>1. f \in [Clients -> T] /\ \A t \in T : \E c \in Clients : f[c] = t
      OBVIOUS
    <3> HIDE DEF f, T
    <3>2. f \in Surjection(Clients, T)
      BY <3>1 DEF Surjection
    <3> QED
      BY <3>2, FS_Surjection, FinitenessAssumption DEF T
  <2>3. IsFiniteSet(amounts)
    BY <2>2, FS_AddElement
  <2>4. largest = Max(amounts)
    BY DEF LargestClientCredit
  <2> HIDE DEF amounts
  <2> QED
    BY <2>1, <2>3, <2>4, GreatestIsMax
<1>7. EffectiveCredit(ps, o) = StorageCredit(ps, o)
        + IF largest > allowed THEN (earned * allowed) \div largest ELSE earned
  BY DEF EffectiveCredit
<1> HIDE DEF earned, allowed, largest
<1>8. earned * allowed \in Nat
  BY <1>2, <1>5
<1>9. largest > allowed => (earned * allowed) \div largest \in Nat
  <2> SUFFICES ASSUME largest > allowed PROVE (earned * allowed) \div largest \in Nat
    OBVIOUS
  <2>1. largest # 0
    BY <1>5, <1>6
  <2> QED
    BY <1>6, <1>8, <2>1, QuotientIsNat
<1> QED
  BY <1>2, <1>4, <1>7, <1>9

(* ProRata and the cap: a reward is at most the provider's part of the     *)
(* budget and at most the share cap, if the cap is a coin at least.        *)
RewardFits(r, budget, mine, all) ==
  /\ r \in Nat
  /\ all * r <= budget * mine
  /\ \/ r * BasisPointsMax <= budget * params.maxShare
     \/ budget * params.maxShare < BasisPointsMax

LEMMA NoRewardFits ==
  ASSUME TermTypes, NEW budget \in Nat, NEW mine \in Nat, NEW all \in Nat
  PROVE  RewardFits(0, budget, mine, all)
<1>1. params.maxShare \in Nat /\ BasisPointsMax \in Nat
  BY ParamTypes, NumberAssumption DEF TermTypes
<1>2. budget * mine \in Nat /\ budget * params.maxShare \in Nat
  BY <1>1
<1>3. all * 0 = 0 /\ 0 * BasisPointsMax = 0
  BY <1>1
<1>4. all * 0 <= budget * mine
  BY <1>2, <1>3
<1>5. 0 * BasisPointsMax <= budget * params.maxShare
  BY <1>2, <1>3
<1> QED
  BY <1>4, <1>5 DEF RewardFits

LEMMA RewardBound ==
  ASSUME TermTypes, MoneyInv, NEW budget \in Nat, NEW mine \in Nat, NEW all \in Nat, mine <= all
  PROVE  RewardFits(Reward(budget, mine, all), budget, mine, all)
<1> DEFINE cap == Share(budget, params.maxShare)
           cut == (budget * mine) \div all
           m == BasisPointsMax
<1>1. params.maxShare \in Nat /\ m \in Nat /\ m > 0
  BY ParamTypes, NumberAssumption DEF TermTypes
<1>2. /\ cap \in Nat /\ cap * m <= budget * params.maxShare
      /\ budget * params.maxShare < (cap + 1) * m
  BY <1>1, ShareBound
<1>3. budget * mine \in Nat
  OBVIOUS
<1>4. CASE all = 0
  <2>1. Reward(budget, mine, all) = 0
    BY <1>4 DEF Reward
  <2> QED
    BY <2>1, NoRewardFits
<1>5. CASE all # 0
  <2>1. cut \in Nat /\ all * cut <= budget * mine
    BY <1>3, <1>5, QuotientIsNat
  <2>2. Reward(budget, mine, all) = IF cap > 0 /\ cut > cap THEN cap ELSE cut
    BY <1>5 DEF Reward, Lesser
  <2> HIDE DEF cap, cut, m
  <2> DEFINE r == Reward(budget, mine, all)
  <2>3. r \in Nat /\ r <= cut
    BY <1>2, <2>1, <2>2
  <2>4. all * r <= all * cut
    BY <2>1, <2>3
  <2>5. cap > 0 => r <= cap
    BY <1>2, <2>1, <2>2
  <2> HIDE DEF r
  <2>6. CASE cap > 0
    <3>1. r * m <= cap * m
      BY <1>1, <1>2, <2>3, <2>5, <2>6
    <3>2. r * m <= budget * params.maxShare
      BY <1>1, <1>2, <2>3, <3>1
    <3>3. all * r <= budget * mine
      BY <2>1, <2>3, <2>4
    <3> QED
      BY <2>3, <3>2, <3>3 DEF r, m, RewardFits
  <2>7. CASE cap = 0
    <3>1. budget * params.maxShare < m
      BY <1>1, <1>2, <2>7
    <3>2. all * r <= budget * mine
      BY <2>1, <2>3, <2>4
    <3> QED
      BY <2>3, <3>1, <3>2 DEF r, m, RewardFits
  <2> QED
    BY <1>2, <2>6, <2>7
<1> QED
  BY <1>4, <1>5

LEMMA BudgetBound ==
  ASSUME TermTypes, MoneyInv, NEW held \in Nat
  PROVE  EmissionForEpoch(held) \in Nat /\ EmissionForEpoch(held) <= held
<1>1. params.rate \in Nat /\ params.rate <= BasisPointsMax /\ params.maxEmission \in Nat
  BY ParamTypes DEF TermTypes, MoneyInv, ValidParams
<1>2. Share(held, params.rate) \in Nat /\ Share(held, params.rate) <= held
  BY <1>1, ShareBound
<1> QED
  BY <1>1, <1>2 DEF EmissionForEpoch, Lesser

(* What a settlement pays fits its budget, and the budget the reserve.     *)
LEMMA SettleMoney ==
  ASSUME TermTypes, MoneyInv, NEW h, NEW ps, NEW held \in Nat, SettleEpoch(h, ps, held)
  PROVE  /\ reserve' \in Nat /\ emitted' \in Nat
         /\ reserve' + emitted' = held + emitted
         /\ settlement' \in [budget : Nat, paid : [Operators -> Nat], share : Nat]
         /\ SumOf(settlement'.paid, Operators) <= settlement'.budget
         /\ \A o \in Operators :
              \/ settlement'.paid[o] * BasisPointsMax <= settlement'.budget * settlement'.share
              \/ settlement'.budget * settlement'.share < BasisPointsMax
<1> DEFINE effective == [o \in Operators |-> EffectiveCredit(ps, o)]
           all == Total(effective, Operators)
           budget == EmissionForEpoch(held)
           paid == [o \in Operators |->
                      IF Payable(o) THEN Reward(budget, effective[o], all) ELSE 0]
<1>1. /\ settlement' = [budget |-> budget, paid |-> paid, share |-> params.maxShare]
      /\ reserve' = held - SumOf(paid, Operators)
      /\ emitted' = emitted + SumOf(paid, Operators)
  BY TotalIsSum DEF SettleEpoch
<1>2. budget \in Nat /\ budget <= held /\ params.maxShare \in Nat /\ emitted \in Nat
      /\ BasisPointsMax \in Nat
  BY BudgetBound, ParamTypes, NumberAssumption DEF TermTypes, MoneyInv
<1>3. \A o \in Operators : effective[o] \in Nat
  BY EffectiveCreditIsNat
<1>4. all = SumOf(effective, Operators)
  BY TotalIsSum
<1>5. \A o \in Operators : paid[o] = IF Payable(o) THEN Reward(budget, effective[o], all) ELSE 0
  OBVIOUS
<1>6. DOMAIN paid = Operators /\ paid = [o \in Operators |-> paid[o]]
  OBVIOUS
<1> HIDE DEF effective, all, budget, paid
<1>7. all \in Nat /\ \A o \in Operators : effective[o] <= all
  BY <1>3, <1>4, SumIsNat, FinitenessAssumption
<1>8. ASSUME NEW o \in Operators PROVE RewardFits(paid[o], budget, effective[o], all)
  <2>1. effective[o] \in Nat /\ effective[o] <= all
    BY <1>3, <1>7
  <2>2. paid[o] = Reward(budget, effective[o], all) \/ paid[o] = 0
    BY <1>5
  <2>3. RewardFits(Reward(budget, effective[o], all), budget, effective[o], all)
    BY <1>2, <1>7, <2>1, RewardBound
  <2>4. RewardFits(0, budget, effective[o], all)
    BY <1>2, <1>7, <2>1, NoRewardFits
  <2> QED
    BY <2>2, <2>3, <2>4
<1>9. paid \in [Operators -> Nat]
  BY <1>6, <1>8 DEF RewardFits
<1>10. SumOf(paid, Operators) \in Nat
  BY <1>9, SumIsNat, FinitenessAssumption
<1>11. SumOf(paid, Operators) <= budget
  <2>1. CASE all = 0
    <3>1. \A o \in Operators : paid[o] = 0
      <4> SUFFICES ASSUME NEW o \in Operators PROVE paid[o] = 0
        OBVIOUS
      <4>1. Reward(budget, effective[o], all) = 0
        BY <2>1 DEF Reward
      <4> QED
        BY <1>5, <4>1
    <3>2. SumOf(paid, Operators) = 0
      BY <3>1, SumOfZeros, FinitenessAssumption
    <3> QED
      BY <1>2, <3>2
  <2>2. CASE all # 0
    <3>1. \A o \in Operators : effective[o] \in Nat /\ paid[o] \in Nat
      BY <1>3, <1>9
    <3>2. \A o \in Operators : SumOf(effective, Operators) * paid[o] <= budget * effective[o]
      BY <1>4, <1>8 DEF RewardFits
    <3> QED
      BY <1>2, <1>4, <2>2, <3>1, <3>2, SharesFitTheWhole, FinitenessAssumption
  <2> QED
    BY <2>1, <2>2
<1>12. /\ settlement'.budget = budget /\ settlement'.paid = paid
       /\ settlement'.share = params.maxShare
  BY <1>1
<1>13. settlement' \in [budget : Nat, paid : [Operators -> Nat], share : Nat]
  BY <1>1, <1>2, <1>9
<1>14. reserve' \in Nat /\ emitted' \in Nat /\ reserve' + emitted' = held + emitted
  BY <1>1, <1>2, <1>10, <1>11
<1>15. \A o \in Operators : \/ paid[o] * BasisPointsMax <= budget * params.maxShare
                            \/ budget * params.maxShare < BasisPointsMax
  BY <1>8 DEF RewardFits
<1> QED
  BY <1>11, <1>12, <1>13, <1>14, <1>15

----------------------------------------------------------------------------
(* Challenges: issued, passed, missed and open.                            *)

Mine(o, e, cs) == {c \in cs : c.provider = o /\ c.epoch = e}

ChallengeInv ==
  /\ IsFiniteSet(open)
  /\ \A c \in open : c.provider \in Operators /\ c.epoch \in Nat /\ c.epoch <= epoch
  /\ epochStart \in Nat /\ (epochStart = 0 => open = {})
  /\ nextChallengeId \in Nat
  /\ \A o \in Operators :
       credit[o].issued = credit[o].passed + credit[o].missed + Cardinality(Mine(o, epoch, open))

LEMMA SlotsAreFinite ==
  ASSUME TermTypes, NEW ps
  PROVE  IsFiniteSet(Slots(ps)) /\ \A s \in Slots(ps) : s[1] \in registered
<1> DEFINE picked == {q \in registered : IsActive(ps[q]) /\ HasStorageRole(ps[q])
                                          /\ ActiveBlobs(q) # {}}
           most(o) == Min({params.perEpoch, Cardinality(ActiveBlobs(o))})
           count(o) == {o} \X (1..most(o))
           sets == {count(o) : o \in picked}
<1>1. Slots(ps) = UNION sets
  BY DEF Slots
<1>2. IsFiniteSet(picked)
  BY FS_Subset, FinitenessAssumption DEF TermTypes
<1>3. ASSUME NEW o PROVE most(o) \in Nat
  <2>1. ActiveBlobs(o) \subseteq Blobs
    BY DEF ActiveBlobs
  <2>2. Cardinality(ActiveBlobs(o)) \in Nat
    BY <2>1, FS_Subset, FS_CardinalityType, FinitenessAssumption
  <2>3. params.perEpoch \in Nat
    BY ParamTypes DEF TermTypes
  <2> DEFINE a == params.perEpoch
             b == Cardinality(ActiveBlobs(o))
  <2>4. a \in Nat /\ b \in Nat /\ most(o) = Min({a, b})
    BY <2>2, <2>3
  <2> HIDE DEF a, b
  <2>5. \E x \in {a, b} : \A y \in {a, b} : x <= y
    BY <2>4
  <2> QED
    BY <2>4, <2>5 DEF Min
<1>4. ASSUME NEW o PROVE IsFiniteSet(count(o))
  <2> DEFINE f == [i \in 1..most(o) |-> <<o, i>>]
  <2>1. f \in [1..most(o) -> count(o)] /\ \A t \in count(o) : \E i \in 1..most(o) : f[i] = t
    <3>1. \A t \in count(o) : t[2] \in 1..most(o) /\ t = <<o, t[2]>>
      OBVIOUS
    <3> HIDE DEF most
    <3> QED
      BY <3>1
  <2>2. IsFiniteSet(1..most(o))
    <3>1. most(o) \in Int
      BY <1>3
    <3> HIDE DEF most
    <3> QED
      BY <3>1, FS_Interval
  <2> HIDE DEF f, count, most
  <2>3. f \in Surjection(1..most(o), count(o))
    BY <2>1 DEF Surjection
  <2> QED
    BY <2>2, <2>3, FS_Surjection
<1>5. IsFiniteSet(sets)
  <2> DEFINE f == [o \in picked |-> count(o)]
  <2>1. f \in [picked -> sets] /\ \A t \in sets : \E o \in picked : f[o] = t
    <3> HIDE DEF picked, count
    <3> QED
      OBVIOUS
  <2> HIDE DEF f, picked, sets
  <2>2. f \in Surjection(picked, sets)
    BY <2>1 DEF Surjection
  <2> QED
    BY <1>2, <2>2, FS_Surjection
<1>6. \A t \in sets : IsFiniteSet(t)
  BY <1>4
<1>7. \A s \in UNION sets : s[1] \in picked
  <2> HIDE DEF picked, most
  <2> QED
    OBVIOUS
<1>8. picked \subseteq registered
  OBVIOUS
<1> HIDE DEF sets, picked
<1> QED
  BY <1>1, <1>5, <1>6, <1>7, <1>8, FS_UNION

(* An order of the slots exists, so the ids of new challenges differ.      *)
LEMMA SlotsAreNumbered ==
  ASSUME NEW S, IsFiniteSet(S), NEW order,
         order = CHOOSE f \in [S -> 1..Cardinality(S)] : \A s, t \in S : f[s] = f[t] => s = t
  PROVE  order \in [S -> Nat] /\ \A s, t \in S : order[s] = order[t] => s = t
<1> DEFINE n == Cardinality(S)
<1>1. n \in Nat
  BY FS_CardinalityType
<1>2. IsFiniteSet(1..n) /\ Cardinality(1..n) = n
  BY <1>1, FS_Interval
<1>3. ExistsBijection(S, 1..n)
  BY <1>2, FS_SameCardinalityBij
<1>4. PICK f \in Bijection(S, 1..n) : TRUE
  BY <1>3 DEF ExistsBijection
<1>5. f \in [S -> 1..n] /\ \A s, t \in S : f[s] = f[t] => s = t
  BY <1>4 DEF Bijection, Injection, IsInjective
<1>6. order \in [S -> 1..n] /\ \A s, t \in S : order[s] = order[t] => s = t
  BY <1>5
<1> QED
  BY <1>1, <1>6

(* What openEpoch issues for epoch e, when no older challenge carries it.  *)
LEMMA OpenedCount ==
  ASSUME TermTypes, NEW e \in Nat, NEW h, NEW ps, NEW remaining, OpenEpoch(e, h, ps, remaining),
         nextChallengeId \in Nat, IsFiniteSet(remaining), \A c \in remaining : c.epoch # e
  PROVE  /\ IsFiniteSet(open') /\ credit' \in [Operators -> CreditRecord]
         /\ nextChallengeId' \in Nat
         /\ \A c \in open' : c \in remaining \/ (c.provider \in registered /\ c.epoch = e)
         /\ \A o \in Operators :
              /\ credit'[o].issued = Cardinality(Mine(o, e, open'))
              /\ credit'[o].passed = 0 /\ credit'[o].missed = 0
<1> DEFINE slots == Slots(ps)
           order == CHOOSE f \in [slots -> 1..Cardinality(slots)] :
                      \A s, t \in slots : f[s] = f[t] => s = t
           id(s) == nextChallengeId + order[s]
<1>1. PICK pick \in [slots -> Blobs] :
        open' = {c \in remaining : \A s \in slots : c.id # id(s)}
                  \cup {Challenge(id(s), s[1], pick[s], e, h) : s \in slots}
  BY DEF OpenEpoch
<1>2. credit' = [o \in Operators |->
          [NoCredit EXCEPT !.issued = Cardinality({s \in slots : s[1] = o})]]
  BY DEF OpenEpoch
<1>3. IsFiniteSet(slots) /\ \A s \in slots : s[1] \in registered
  BY SlotsAreFinite
<1>0. nextChallengeId' \in Nat
  <2>1. nextChallengeId' = nextChallengeId + Cardinality(slots)
    BY DEF OpenEpoch
  <2> HIDE DEF slots
  <2>2. Cardinality(slots) \in Nat
    BY <1>3, FS_CardinalityType
  <2> QED
    BY <2>1, <2>2
<1> HIDE DEF slots
<1>4. order \in [slots -> Nat] /\ \A s, t \in slots : order[s] = order[t] => s = t
  BY <1>3, SlotsAreNumbered
<1> DEFINE new(s) == Challenge(id(s), s[1], pick[s], e, h)
           news == {new(s) : s \in slots}
           old == {c \in remaining : \A s \in slots : c.id # id(s)}
<1> HIDE DEF order
<1>5. \A s \in slots : new(s).id = id(s) /\ new(s).provider = s[1] /\ new(s).epoch = e
  BY DEF Challenge
<1>6. \A s, t \in slots : new(s) = new(t) => s = t
  <2> SUFFICES ASSUME NEW s \in slots, NEW t \in slots, new(s) = new(t) PROVE s = t
    OBVIOUS
  <2>1. id(s) = id(t)
    BY <1>5
  <2>2. order[s] \in Nat /\ order[t] \in Nat
    BY <1>4
  <2>3. order[s] = order[t]
    BY <2>1, <2>2
  <2> QED
    BY <1>4, <2>3
<1>7. open' = old \cup news /\ old \subseteq remaining
  BY <1>1
<1> HIDE DEF new, id
<1>8. IsFiniteSet(open')
  <2>1. IsFiniteSet(old)
    BY <1>7, FS_Subset
  <2>2. IsFiniteSet(news)
    <3> DEFINE f == [s \in slots |-> new(s)]
    <3>1. f \in [slots -> news] /\ \A t \in news : \E s \in slots : f[s] = t
      OBVIOUS
    <3> HIDE DEF f, news
    <3>2. f \in Surjection(slots, news)
      BY <3>1 DEF Surjection
    <3> QED
      BY <1>3, <3>2, FS_Surjection
  <2> QED
    BY <1>7, <2>1, <2>2, FS_Union
<1>9. \A c \in open' : c \in remaining \/ (c.provider \in registered /\ c.epoch = e)
  BY <1>3, <1>5, <1>7
<1>10. ASSUME NEW o \in Operators
       PROVE  /\ credit'[o] \in CreditRecord
              /\ credit'[o].issued = Cardinality(Mine(o, e, open'))
              /\ credit'[o].passed = 0 /\ credit'[o].missed = 0
  <2> DEFINE his == {s \in slots : s[1] = o}
             f == [s \in his |-> new(s)]
             T == Mine(o, e, open')
  <2>1. IsFiniteSet(his)
    BY <1>3, FS_Subset
  <2>2. Cardinality(his) \in Nat
    BY <2>1, FS_CardinalityType
  <2>3. \A s \in his : new(s) \in T
    BY <1>5, <1>7 DEF Mine
  <2>4. \A c \in T : \E s \in his : c = new(s)
    <3> SUFFICES ASSUME NEW c \in T PROVE \E s \in his : c = new(s)
      OBVIOUS
    <3>1. c \in open' /\ c.provider = o /\ c.epoch = e
      BY DEF Mine
    <3>2. c \in news
      BY <1>7, <3>1
    <3> QED
      BY <1>5, <3>1, <3>2
  <2>5. f \in [his -> T] /\ \A a, b \in his : f[a] = f[b] => a = b
    BY <1>6, <2>3
  <2>6. \A c \in T : \E s \in his : f[s] = c
    BY <2>4
  <2> HIDE DEF T, f
  <2>7. f \in Bijection(his, T)
    BY <2>5, <2>6 DEF Bijection, Injection, Surjection, IsInjective
  <2>8. ExistsBijection(his, T)
    BY <2>7 DEF ExistsBijection
  <2>9. Cardinality(T) = Cardinality(his)
    BY <2>1, <2>8, FS_Bijection
  <2>10. credit'[o] = [NoCredit EXCEPT !.issued = Cardinality(his)]
    BY <1>2
  <2> HIDE DEF his
  <2>11. /\ credit'[o].issued = Cardinality(his) /\ credit'[o].passed = 0 /\ credit'[o].missed = 0
         /\ credit'[o] \in CreditRecord
    BY <2>2, <2>10 DEF NoCredit, CreditRecord
  <2> QED
    BY <2>9, <2>11 DEF T
<1>11. credit' \in [Operators -> CreditRecord]
  BY <1>2, <1>10
<1> QED
  BY <1>0, <1>8, <1>9, <1>10, <1>11

(* Steps that issue, close and expire nothing.                             *)
LEMMA ChallengeFrame ==
  ASSUME ChallengeInv, UNCHANGED <<open, epoch, epochStart, nextChallengeId>>,
         \A o \in Operators : /\ credit'[o].issued = credit[o].issued
                              /\ credit'[o].passed = credit[o].passed
                              /\ credit'[o].missed = credit[o].missed
  PROVE  ChallengeInv'
BY DEF ChallengeInv, Mine

LEMMA AnswerCount ==
  ASSUME MoneyInv, ChallengeInv, NEW c \in open, AnswerChallenge(c)
  PROVE  ChallengeInv'
<1>1. /\ open' = open \ {c} /\ UNCHANGED <<epoch, epochStart, nextChallengeId>>
      /\ credit' = IF c.epoch = epoch THEN [credit EXCEPT ![c.provider].passed = @ + 1] ELSE credit
  BY DEF AnswerChallenge, Close, epochVars
<1>2. c.provider \in Operators /\ IsFiniteSet(open)
  BY DEF ChallengeInv
<1>3. ASSUME NEW o \in Operators
      PROVE  credit'[o].issued
               = credit'[o].passed + credit'[o].missed + Cardinality(Mine(o, epoch, open'))
  <2> DEFINE T == Mine(o, epoch, open)
  <2>1. IsFiniteSet(T)
    BY <1>2, FS_Subset DEF Mine
  <2>2. Cardinality(T) \in Nat /\ credit[o] \in CreditRecord
    BY <2>1, FS_CardinalityType DEF MoneyInv
  <2>3. credit[o].issued = credit[o].passed + credit[o].missed + Cardinality(T)
    BY DEF ChallengeInv
  <2>4. CASE c \in T
    <3>1. Mine(o, epoch, open') = T \ {c}
      BY <1>1 DEF Mine
    <3>2. Cardinality(T \ {c}) = Cardinality(T) - 1
      BY <2>1, <2>4, FS_RemoveElement
    <3>3. c.provider = o /\ c.epoch = epoch
      BY <2>4 DEF Mine
    <3>4. credit'[o] = [credit[o] EXCEPT !.passed = @ + 1]
      BY <1>1, <3>3 DEF MoneyInv
    <3>5. /\ credit'[o].issued = credit[o].issued /\ credit'[o].passed = credit[o].passed + 1
          /\ credit'[o].missed = credit[o].missed
      BY <2>2, <3>4 DEF CreditRecord
    <3>6. credit[o].passed \in Nat /\ credit[o].missed \in Nat
      BY <2>2 DEF CreditRecord
    <3> HIDE DEF T
    <3> QED
      BY <2>2, <2>3, <3>1, <3>2, <3>5, <3>6
  <2>5. CASE c \notin T
    <3>1. Mine(o, epoch, open') = T
      BY <1>1, <2>5 DEF Mine
    <3>2. c.provider # o \/ c.epoch # epoch
      BY <2>5 DEF Mine
    <3>3. credit'[o] = credit[o]
      BY <1>1, <3>2 DEF MoneyInv
    <3> QED
      BY <2>3, <3>1, <3>3
  <2> QED
    BY <2>4, <2>5
<1>4. IsFiniteSet(open')
  BY <1>1, <1>2, FS_RemoveElement
<1> QED
  BY <1>1, <1>3, <1>4 DEF ChallengeInv

(* The block's expiry: what is missed is counted as missed.                *)
LEMMA ExpiryCount ==
  ASSUME TermTypes, MoneyInv, ChallengeInv, NEW h,
         open' = open \ Missed(h), credit' = NoteMissed(h),
         UNCHANGED <<epoch, epochStart, nextChallengeId>>
  PROVE  ChallengeInv' /\ credit' \in [Operators -> CreditRecord]
<1>1. IsFiniteSet(open) /\ Missed(h) \subseteq open
  BY DEF ChallengeInv, Missed
<1>2. IsFiniteSet(open')
  BY <1>1, FS_Difference
<1>3. ASSUME NEW o \in Operators
      PROVE  /\ credit'[o] \in CreditRecord
             /\ credit'[o].issued
                  = credit'[o].passed + credit'[o].missed + Cardinality(Mine(o, epoch, open'))
  <2> DEFINE T == Mine(o, epoch, open)
             M == {c \in Missed(h) : c.provider = o /\ c.epoch = epoch}
  <2>1. IsFiniteSet(T) /\ IsFiniteSet(M)
    BY <1>1, FS_Subset DEF Mine
  <2>2. Cardinality(T) \in Nat /\ Cardinality(M) \in Nat /\ credit[o] \in CreditRecord
    BY <2>1, FS_CardinalityType DEF MoneyInv
  <2>3. credit[o].issued = credit[o].passed + credit[o].missed + Cardinality(T)
    BY DEF ChallengeInv
  <2>4. Mine(o, epoch, open') = T \ M /\ T \cap M = M
    BY <1>1 DEF Mine
  <2>5. credit'[o] = [credit[o] EXCEPT !.missed = @ + Cardinality(M)]
    BY DEF NoteMissed
  <2> HIDE DEF T, M
  <2>6. Cardinality(Mine(o, epoch, open')) = Cardinality(T) - Cardinality(M)
    <3>1. Cardinality(T \ M) = Cardinality(T) - Cardinality(T \cap M)
      BY <2>1, FS_Difference
    <3> QED
      BY <2>4, <3>1
  <2>7. /\ credit'[o] \in CreditRecord /\ credit'[o].issued = credit[o].issued
        /\ credit'[o].passed = credit[o].passed
        /\ credit'[o].missed = credit[o].missed + Cardinality(M)
    BY <2>2, <2>5 DEF CreditRecord
  <2>8. credit[o].passed \in Nat /\ credit[o].missed \in Nat
    BY <2>2 DEF CreditRecord
  <2> QED
    BY <2>2, <2>3, <2>6, <2>7, <2>8
<1>4. credit' \in [Operators -> CreditRecord]
  BY <1>3 DEF NoteMissed
<1>5. /\ \A c \in open' : c.provider \in Operators /\ c.epoch \in Nat /\ c.epoch <= epoch'
      /\ epochStart' \in Nat /\ (epochStart' = 0 => open' = {})
  BY DEF ChallengeInv
<1> QED
  BY <1>2, <1>3, <1>4, <1>5 DEF ChallengeInv

(* A new epoch: its challenges are exactly those that were issued.         *)
LEMMA OpenCount ==
  ASSUME TermTypes, ChallengeInv, NEW e \in Nat, NEW h, NEW ps,
         epoch \in Nat, height \in Nat, epoch <= e, epoch' = e, epochStart' = height + 1,
         OpenEpoch(e, h, ps, open \ Missed(h)), epoch = e => epochStart = 0
  PROVE  ChallengeInv' /\ credit' \in [Operators -> CreditRecord]
<1> DEFINE remaining == open \ Missed(h)
<1>1. IsFiniteSet(remaining)
  BY FS_Difference DEF ChallengeInv
<1>2. \A c \in remaining : c.provider \in Operators /\ c.epoch \in Nat /\ c.epoch <= e /\ c.epoch # e
  BY DEF ChallengeInv
<1>0. nextChallengeId \in Nat
  BY DEF ChallengeInv
<1>3. /\ IsFiniteSet(open') /\ credit' \in [Operators -> CreditRecord]
      /\ nextChallengeId' \in Nat
      /\ \A c \in open' : c \in remaining \/ (c.provider \in registered /\ c.epoch = e)
      /\ \A o \in Operators :
           /\ credit'[o].issued = Cardinality(Mine(o, e, open'))
           /\ credit'[o].passed = 0 /\ credit'[o].missed = 0
  BY <1>0, <1>1, <1>2, OpenedCount
<1> HIDE DEF remaining
<1>4. \A c \in open' : c.provider \in Operators /\ c.epoch \in Nat /\ c.epoch <= epoch'
  BY <1>2, <1>3 DEF TermTypes
<1>5. \A o \in Operators : Cardinality(Mine(o, e, open')) \in Nat
  <2> SUFFICES ASSUME NEW o \in Operators PROVE Cardinality(Mine(o, e, open')) \in Nat
    OBVIOUS
  <2>1. IsFiniteSet(Mine(o, e, open'))
    BY <1>3, FS_Subset DEF Mine
  <2> QED
    BY <2>1, FS_CardinalityType
<1>6. \A o \in Operators :
        credit'[o].issued = credit'[o].passed + credit'[o].missed + Cardinality(Mine(o, e, open'))
  BY <1>3, <1>5
<1>7. epochStart' \in Nat /\ epochStart' # 0
  OBVIOUS
<1> QED
  BY <1>3, <1>4, <1>6, <1>7 DEF ChallengeInv

----------------------------------------------------------------------------
(* The steps together.                                                     *)

BooksKept == MoneyInv' /\ ChallengeInv'

(* Steps that touch neither credit nor challenges.                         *)
LEMMA QuietBooks ==
  ASSUME MoneyInv', ChallengeInv, UNCHANGED <<open, epoch, epochStart, nextChallengeId, credit>>
  PROVE  BooksKept
BY ChallengeFrame DEF BooksKept

LEMMA OpenedClients ==
  ASSUME NEW e, NEW h, NEW ps, NEW remaining, OpenEpoch(e, h, ps, remaining)
  PROVE  clientCredit' \in [Operators -> [Clients -> Nat]]
<1>1. clientCredit' = [o \in Operators |-> [c \in Clients |-> 0]]
  BY DEF OpenEpoch
<1> QED
  BY <1>1

LEMMA BlockRoles ==
  ASSUME TermTypes, NEW h, NEW o \in Operators
  PROVE  /\ AfterExpiry(h)[o].roles = provider[o].roles
         /\ Decayed(AfterExpiry(h))[o].roles = provider[o].roles
<1> DEFINE points == ExpiryPoints(h)
           ps == Scored(provider, points, h)
<1>1. AfterExpiry(h) = ps
  BY DEF AfterExpiry
<1> HIDE DEF points
<1>2. ps[o].roles = provider[o].roles
  BY ScoredRoles
<1>3. DOMAIN ps[o] = ProviderFields
  BY ScoredKeeps
<1> HIDE DEF ps
<1>4. Decayed(ps)[o].roles = ps[o].roles
  BY <1>3 DEF Decayed, ProviderFields
<1> QED
  BY <1>1, <1>2, <1>4

LEMMA FirstBooks ==
  ASSUME TermTypes, epoch \in Nat, MoneyInv, ChallengeInv, BlockFirst
  PROVE  BooksKept
<1> DEFINE h == height + 1
           ps == AfterExpiry(h)
<1>1. /\ epochStart = 0 /\ epochStart' = h /\ SlashBonds(ExpiryPoints(h))
      /\ OpenEpoch(epoch, h, ps, open \ Missed(h))
      /\ reserve' = reserve + SlashedNow(ExpiryPoints(h))
      /\ UNCHANGED <<epoch, params, registered, emitted, settlement>>
  BY DEF BlockFirst, NewBlock, ExpireChallenges, ReserveAfterExpiry, config, payVars
<1>2. provider' = Decayed(ps)
  BY <1>1, OpenedChallenges
<1>3. \A o \in registered : provider'[o].roles = provider[o].roles
  BY <1>2, BlockRoles DEF TermTypes
<1>4. height \in Nat
  BY DEF TermTypes
<1> HIDE DEF ps
<1>5. ChallengeInv' /\ credit' \in [Operators -> CreditRecord]
  BY <1>1, <1>4, OpenCount
<1>6. clientCredit' \in [Operators -> [Clients -> Nat]]
  BY <1>1, OpenedClients
<1> HIDE DEF h
<1>7. MoneyInv'
  BY <1>1, <1>3, <1>5, <1>6, SlashFrame
<1> QED
  BY <1>5, <1>7 DEF BooksKept

LEMMA WithinBooks ==
  ASSUME TermTypes, MoneyInv, ChallengeInv, BlockWithinEpoch
  PROVE  BooksKept
<1> DEFINE h == height + 1
<1>1. /\ SlashBonds(ExpiryPoints(h)) /\ reserve' = reserve + SlashedNow(ExpiryPoints(h))
      /\ provider' = AfterExpiry(h) /\ open' = open \ Missed(h) /\ credit' = NoteMissed(h)
      /\ UNCHANGED <<epoch, epochStart, params, registered, emitted, settlement,
                     nextChallengeId, clientCredit>>
  BY DEF BlockWithinEpoch, NewBlock, ExpireChallenges, ReserveAfterExpiry, config, payVars, epochVars
<1> HIDE DEF h
<1>2. ChallengeInv' /\ credit' \in [Operators -> CreditRecord]
  BY <1>1, ExpiryCount
<1>3. \A o \in registered : provider'[o].roles = provider[o].roles
  BY <1>1, BlockRoles DEF TermTypes
<1>4. clientCredit' \in [Operators -> [Clients -> Nat]]
  BY <1>1 DEF MoneyInv
<1>5. MoneyInv'
  BY <1>1, <1>2, <1>3, <1>4, SlashFrame
<1> QED
  BY <1>2, <1>5 DEF BooksKept

LEMMA EndBooks ==
  ASSUME TermTypes, epoch \in Nat, MoneyInv, ChallengeInv, BlockEndsEpoch
  PROVE  BooksKept
<1> DEFINE h == height + 1
           ps == AfterExpiry(h)
           points == ExpiryPoints(h)
           held == reserve + SlashedNow(points)
<1>1. /\ SlashBonds(points) /\ SettleEpoch(h, ps, held)
      /\ epoch' = epoch + 1 /\ epochStart' = h
      /\ OpenEpoch(epoch + 1, h, ps, open \ Missed(h))
      /\ UNCHANGED <<params, registered>>
  BY DEF BlockEndsEpoch, NewBlock, ExpireChallenges, ReserveAfterExpiry, config
<1>2. height \in Nat /\ epoch + 1 \in Nat /\ epoch <= epoch + 1 /\ epoch # epoch + 1
  BY DEF TermTypes
<1>3. \A o \in registered : provider'[o].roles = provider[o].roles
  <2>1. provider' = Decayed(ps)
    BY <1>1, OpenedChallenges
  <2> QED
    BY <2>1, BlockRoles DEF TermTypes
<1> HIDE DEF ps, points
<1>4. ChallengeInv' /\ credit' \in [Operators -> CreditRecord]
  BY <1>1, <1>2, OpenCount
<1>5. clientCredit' \in [Operators -> [Clients -> Nat]]
  BY <1>1, OpenedClients
<1>6. /\ bond' \in [Operators -> Nat] /\ bondPool' = SumOf(bond', Operators)
      /\ \A o \in Operators : bond[o] = 0 => bond'[o] = 0
      /\ SlashedNow(points) \in Nat /\ slashed' = slashed + SlashedNow(points)
  BY <1>1, SlashMoney
<1>7. /\ reserve \in Nat /\ slashed \in Nat /\ emitted \in Nat
      /\ reserve + emitted = InitialReserve + slashed /\ InitialReserve \in Nat
  BY NumberAssumption DEF MoneyInv
<1>8. held \in Nat
  BY <1>6, <1>7
<1>9. /\ reserve' \in Nat /\ emitted' \in Nat
      /\ reserve' + emitted' = held + emitted
      /\ settlement' \in [budget : Nat, paid : [Operators -> Nat], share : Nat]
      /\ SumOf(settlement'.paid, Operators) <= settlement'.budget
      /\ \A o \in Operators :
           \/ settlement'.paid[o] * BasisPointsMax <= settlement'.budget * settlement'.share
           \/ settlement'.budget * settlement'.share < BasisPointsMax
  <2> HIDE DEF held, h
  <2> QED
    BY <1>1, <1>8, SettleMoney
<1>10. slashed' \in Nat /\ reserve' + emitted' = InitialReserve + slashed'
  <2> DEFINE n == SlashedNow(points)
  <2>1. n \in Nat /\ slashed' = slashed + n /\ reserve' + emitted' = (reserve + n) + emitted
    BY <1>6, <1>9
  <2> HIDE DEF n
  <2>2. (reserve + n) + emitted = (reserve + emitted) + n
    BY <1>7, <2>1
  <2>3. (InitialReserve + slashed) + n = InitialReserve + (slashed + n)
    BY <1>7, <2>1
  <2>4. slashed' \in Nat
    BY <1>7, <2>1
  <2> QED
    BY <1>7, <2>1, <2>2, <2>3, <2>4
<1>11. /\ ValidParams(params)' /\ \A o \in Operators \ registered' : bond'[o] = 0
       /\ \A o \in registered' : provider'[o].roles # {}
  BY <1>1, <1>3, <1>6 DEF MoneyInv, ValidParams
<1> HIDE DEF held, h
<1>12. MoneyInv'
  BY <1>4, <1>5, <1>6, <1>9, <1>10, <1>11 DEF MoneyInv
<1> QED
  BY <1>4, <1>12 DEF BooksKept

LEMMA BooksNext ==
  ASSUME TermTypes, epoch \in Nat, MoneyInv, ChallengeInv, [Next]_vars
  PROVE  BooksKept
<1>1. Instance.operators \subseteq Operators
  BY DomainAssumption DEF TermTypes, Instance
<1>2. CASE BeginBlock
  <2>1. CASE BlockDisabled
    <3>1. /\ UNCHANGED <<params, bond, bondPool, registered, reserve, emitted, slashed, settlement,
                         provider, credit, clientCredit>>
          /\ UNCHANGED <<open, epoch, epochStart, nextChallengeId>>
      BY <2>1 DEF BlockDisabled, NewBlock, config, fraudVars, payVars, epochVars
    <3>2. MoneyInv'
      BY <3>1, MoneyFrame DEF MoneyInv
    <3> QED
      BY <3>1, <3>2, QuietBooks
  <2> QED
    BY <1>2, <2>1, FirstBooks, WithinBooks, EndBooks DEF BeginBlock
<1>3. CASE Transaction
  <2> USE DEF epochVars, challengeVars, creditVars
  <2>1. ASSUME NEW o \in Instance.operators, NEW r \in Instance.registrations, RegisterProvider(o, r)
        PROVE  BooksKept
    BY <1>1, <2>1, RegisterMoney, QuietBooks DEF RegisterProvider
  <2>2. ASSUME NEW o \in Instance.operators, NEW u \in Instance.updates, UpdateProvider(o, u)
        PROVE  BooksKept
    BY <1>1, <2>2, UpdateMoney, QuietBooks DEF UpdateProvider
  <2>3. ASSUME NEW o \in Instance.operators, Unjail(o) \/ BeginUnbonding(o) PROVE BooksKept
    BY <1>1, <2>3, UnjailMoney, QuietBooks DEF Unjail, BeginUnbonding
  <2>4. ASSUME NEW o \in Instance.operators, WithdrawBond(o) PROVE BooksKept
    BY <1>1, <2>4, WithdrawMoney, QuietBooks DEF WithdrawBond
  <2>5. ASSUME NEW o, NEW b, AssignStorage(o, b) \/ ReleaseStorage(o, b) PROVE BooksKept
    <3>1. /\ UNCHANGED <<params, bond, bondPool, registered, reserve, emitted, slashed, settlement,
                         provider, credit, clientCredit>>
          /\ UNCHANGED <<open, epoch, epochStart, nextChallengeId>>
      BY <2>5 DEF AssignStorage, ReleaseStorage, config, fraudVars, payVars
    <3>2. MoneyInv'
      BY <3>1, MoneyFrame DEF MoneyInv
    <3> QED
      BY <3>1, <3>2, QuietBooks
  <2>6. ASSUME NEW c \in open, AnswerChallenge(c) PROVE BooksKept
    <3>1. c.provider \in Operators
      BY DEF ChallengeInv
    <3> QED
      BY <2>6, <3>1, AnswerMoney, AnswerCount DEF BooksKept
  <2>7. ASSUME NEW r \in Instance.receipts, ApplyReceipt(r) PROVE BooksKept
    <3> DEFINE o == r.provider
               cr == CreditForReceipt(r)
    <3>1. /\ credit' = [credit EXCEPT ![o].relay = @ + cr]
          /\ UNCHANGED <<open, epoch, epochStart, nextChallengeId>>
      BY <2>7 DEF ApplyReceipt
    <3> HIDE DEF o, cr
    <3>2. credit \in [Operators -> CreditRecord]
      BY DEF MoneyInv
    <3>3. \A q \in Operators : /\ credit'[q].issued = credit[q].issued
                               /\ credit'[q].passed = credit[q].passed
                               /\ credit'[q].missed = credit[q].missed
      BY <3>1, <3>2 DEF CreditRecord
    <3> QED
      BY <2>7, <3>1, <3>3, ApplyMoney, ChallengeFrame DEF BooksKept
  <2>8. ASSUME NEW r \in Instance.receipts, RefuseReceipt(r) PROVE BooksKept
    BY <2>8, RefuseMoney, QuietBooks DEF RefuseReceipt
  <2> QED
    BY <1>3, <2>1, <2>2, <2>3, <2>4, <2>5, <2>6, <2>7, <2>8 DEF Transaction
<1>4. ASSUME NEW p \in Instance.paramSets, NEW as, UpdateParams(p, as) PROVE BooksKept
  <2>1. /\ params' = p /\ ValidParams(p)
        /\ UNCHANGED <<bond, bondPool, registered, reserve, emitted, slashed, settlement,
                       provider, credit, clientCredit, open, epoch, epochStart, nextChallengeId>>
    BY <1>4 DEF UpdateParams, fraudVars, creditVars, payVars, challengeVars, epochVars
  <2>2. MoneyInv'
    BY <2>1 DEF MoneyInv, ValidParams
  <2> QED
    BY <2>1, <2>2, QuietBooks
<1>5. ASSUME NEW zero, Restart(zero) PROVE BooksKept
  <2>1. /\ UNCHANGED <<params, bond, bondPool, registered, reserve, emitted, slashed, settlement,
                       provider, credit>>
        /\ UNCHANGED <<open, epoch, epochStart, nextChallengeId>>
        /\ clientCredit' = [o \in Operators |-> [c \in Clients |-> 0]]
    BY <1>5 DEF Restart, config, payVars, challengeVars, epochVars
  <2>2. clientCredit' \in [Operators -> [Clients -> Nat]]
    BY <2>1
  <2>3. MoneyInv'
    BY <2>1, <2>2, MoneyFrame DEF MoneyInv
  <2> QED
    BY <2>1, <2>3, QuietBooks
<1>6. CASE UNCHANGED vars
  <2>1. /\ UNCHANGED <<params, bond, bondPool, registered, reserve, emitted, slashed, settlement,
                       provider, credit, clientCredit>>
        /\ UNCHANGED <<open, epoch, epochStart, nextChallengeId>>
    BY <1>6 DEF vars, config, fraudVars, payVars, epochVars, challengeVars, creditVars
  <2>2. MoneyInv'
    BY <2>1, MoneyFrame DEF MoneyInv
  <2> QED
    BY <2>1, <2>2, QuietBooks
<1> QED
  BY <1>2, <1>3, <1>4, <1>5, <1>6 DEF Next, Done

LEMMA BooksInit == Init => MoneyInv /\ ChallengeInv
<1> SUFFICES ASSUME Init PROVE MoneyInv /\ ChallengeInv
  OBVIOUS
<1>1. ValidParams(params)
  BY GenesisAssumption DEF Init, Instance, ValidParams
<1>2. bond \in [Operators -> Nat] /\ \A o \in Operators : bond[o] = 0
  BY DEF Init
<1>3. bondPool = SumOf(bond, Operators)
  BY <1>2, SumOfZeros, FinitenessAssumption DEF Init
<1>4. /\ reserve \in Nat /\ emitted \in Nat /\ slashed \in Nat
      /\ reserve + emitted = InitialReserve + slashed
  BY NumberAssumption DEF Init
<1>5. NoCredit \in CreditRecord
  BY DEF NoCredit, CreditRecord
<1>6. credit \in [Operators -> CreditRecord] /\ clientCredit \in [Operators -> [Clients -> Nat]]
  BY <1>5 DEF Init
<1>7. /\ settlement.budget = 0 /\ settlement.share = 0
      /\ settlement.paid = [o \in Operators |-> 0]
      /\ settlement \in [budget : Nat, paid : [Operators -> Nat], share : Nat]
  BY DEF Init
<1>8. SumOf(settlement.paid, Operators) <= settlement.budget
  <2> DEFINE paid == settlement.paid
  <2>1. \A o \in Operators : paid[o] = 0
    BY <1>7
  <2> HIDE DEF paid
  <2>2. SumOf(paid, Operators) = 0
    BY <2>1, SumOfZeros, FinitenessAssumption
  <2> QED
    BY <1>7, <2>2 DEF paid
<1>9. settlement.budget * settlement.share < BasisPointsMax
  BY <1>7, NumberAssumption
<1>10. registered = {}
  BY DEF Init
<1>11. MoneyInv
  BY <1>1, <1>2, <1>3, <1>4, <1>6, <1>7, <1>8, <1>9, <1>10 DEF MoneyInv
<1>12. ChallengeInv
  <2>1. open = {} /\ epochStart = 0 /\ nextChallengeId = 0 /\ credit = [o \in Operators |-> NoCredit]
    BY DEF Init
  <2>2. \A o \in Operators : Mine(o, epoch, open) = {}
    BY <2>1 DEF Mine
  <2> QED
    BY <2>1, <2>2, FS_EmptySet DEF ChallengeInv, NoCredit
<1> QED
  BY <1>11, <1>12

(* The books of the module balance after every step, whatever the bonds,   *)
(* receipts, challenges and settlements: bonds are backed, the reserve     *)
(* adds up, every challenge is accounted for, no settlement exceeds its    *)
(* budget nor a provider its share, and an export validates.               *)
THEOREM BooksAlwaysBalanced == Spec => []ServiceBooks
<1>1. TermTypes /\ MoneyInv /\ ChallengeInv => ServiceBooks
  <2> SUFFICES ASSUME TermTypes, MoneyInv, ChallengeInv PROVE ServiceBooks
    OBVIOUS
  <2>1. BondsAreBacked
    BY TotalIsSum DEF MoneyInv, BondsAreBacked
  <2>2. ReserveAddsUp
    BY DEF MoneyInv, ReserveAddsUp
  <2>3. ChallengesAccountedFor
    <3>1. \A o \in Operators :
            Mine(o, epoch, open) = {c \in open : c.provider = o /\ c.epoch = epoch}
      BY DEF Mine
    <3> QED
      BY <3>1 DEF ChallengeInv, ChallengesAccountedFor
  <2>4. Total(settlement.paid, Operators) <= settlement.budget
    BY TotalIsSum DEF MoneyInv
  <2>5. ProviderShareCapped
    BY <2>4 DEF MoneyInv, ProviderShareCapped
  <2>6. emitted <= InitialReserve + slashed
    BY NumberAssumption DEF MoneyInv
  <2>7. \A o \in registered : provider[o].roles # {} /\ bond[o] >= 0
    BY DEF MoneyInv, TermTypes
  <2>8. settlement.budget >= Total(settlement.paid, Operators)
    <3>1. SumOf(settlement.paid, Operators) <= settlement.budget
      BY DEF MoneyInv
    <3> QED
      BY <3>1, TotalIsSum
  <2>9. Importable
    BY <2>6, <2>7, <2>8 DEF Importable, MoneyInv
  <2> QED
    BY <2>1, <2>2, <2>3, <2>5, <2>9 DEF ServiceBooks
<1>2. Init => MoneyInv /\ ChallengeInv
  BY BooksInit
<1>3. TermTypes /\ MarkInv /\ MoneyInv /\ ChallengeInv /\ [Next]_vars => (MoneyInv /\ ChallengeInv)'
  BY BooksNext DEF BooksKept, MarkInv
<1>4. TermTypes /\ MarkInv /\ [Next]_vars => MarkInv'
  BY MarkStep DEF TermTypes
<1>5. Init => MarkInv
  BY MarkInit
<1> QED
  BY <1>1, <1>2, <1>3, <1>4, <1>5, TermsHold, PTL DEF Spec
=============================================================================
