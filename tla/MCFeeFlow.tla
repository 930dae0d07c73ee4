----------------------------- MODULE MCFeeFlow -----------------------------
(* A small instance of FeeFlow: the code's own basis-point denominator and *)
(* ceiling, fees just below and above a whole number of cuts, three        *)
(* beneficiaries of which one is a blocked module account.                 *)
EXTENDS FeeFlow

CONSTANTS alice, bob, module, none

MCParams == {
  [beneficiary |-> none,   feeBps |-> 100, period |-> 2, minPayout |-> 0],
  [beneficiary |-> alice,  feeBps |-> 100, period |-> 2, minPayout |-> 3],
  [beneficiary |-> bob,    feeBps |-> 50,  period |-> 0, minPayout |-> 0],
  [beneficiary |-> module, feeBps |-> 100, period |-> 1, minPayout |-> 0],
  [beneficiary |-> bob,    feeBps |-> 101, period |-> 1, minPayout |-> 0]}
=============================================================================
