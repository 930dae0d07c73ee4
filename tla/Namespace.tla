------------------------------ MODULE Namespace ------------------------------
(***************************************************************************)
(* What x/username promises: a look (the skeleton all confusable spellings *)
(* share) belongs to at most one person, under one spelling, and passes to *)
(* another only when it is free, when its holder let it lapse, or when its *)
(* holder hands it over.                                                   *)
(***************************************************************************)
CONSTANTS Skeletons, Names, Owners, Free

VARIABLES
  holder,    \* who holds each look: [name, owner], or Free
  lapsed     \* the looks whose holder is no longer protected

Holding == [name : Names, owner : Owners]

Init == holder = [s \in Skeletons |-> Free] /\ lapsed = {}

Grant(s, n, o) ==
  /\ holder[s] = Free \/ s \in lapsed
  /\ holder' = [holder EXCEPT ![s] = [name |-> n, owner |-> o]]
  /\ lapsed' = lapsed \ {s}

HandOver(s, o) ==
  /\ holder[s] # Free
  /\ holder' = [holder EXCEPT ![s] = [name |-> holder[s].name, owner |-> o]]
  /\ lapsed' = lapsed

Vacate(s) ==
  /\ holder[s] # Free
  /\ holder' = [holder EXCEPT ![s] = Free]
  /\ lapsed' = lapsed \ {s}

(* Time passes, or governance changes how long a holder is protected.      *)
Lapse ==
  /\ holder' = holder
  /\ lapsed' \subseteq {s \in Skeletons : holder[s] # Free}

Next ==
  \/ \E s \in Skeletons :
       \/ \E n \in Names, o \in Owners : Grant(s, n, o)
       \/ \E o \in Owners : HandOver(s, o)
       \/ Vacate(s)
  \/ Lapse

Spec == Init /\ [][Next]_<<holder, lapsed>>
=============================================================================
