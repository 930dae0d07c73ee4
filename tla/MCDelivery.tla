----------------------------- MODULE MCDelivery -----------------------------
(* A group's Welcome (id 3), a chat line (1) and a mail (2) that need it.  *)
EXTENDS Delivery, TLC

MCKind == <<"chat", "mail", "welcome">>
MCNeeds == <<3, 3, 0>>
StoreSymmetry == Permutations(Stores)
=============================================================================
