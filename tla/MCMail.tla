------------------------------- MODULE MCMail -------------------------------
(***************************************************************************)
(* Mail for TLC: the people list and mail box of the SDK, and the Internet *)
(* mail gateway.  They meet only in the mailbox store and share no state:  *)
(* a behaviour runs one of them (part).                                    *)
(***************************************************************************)
EXTENDS MailBox, MailGateway, TLC
CONSTANTS a1, a2, b1, c1, m1, m2, root, u1, u2, n1, n2
VARIABLE part
vars == <<part, contactVars, mailVars, gatewayVars>>

----------------------------------------------------------------------------
(* People and mail: requests and answers crossing, blocks, a second device *)
(* of one owner, blind copies, flags set on two devices, bins, ties.       *)
MCOwner == [d \in Devs |-> CASE d = b1 -> "b" [] d = c1 -> "c" [] OTHER -> "a"]
CM(devs, ops, mailn, steps, nfaults, letters) ==
  [devs |-> devs, mails |-> mailn, ops |-> ops, letters |-> letters, receipts |-> Devs \ {a2},
   steps |-> steps, faults |-> nfaults]
CS(devs, ops, steps, nfaults) == CM(devs, ops, 0, steps, nfaults, {})
L(by, to, bcc) == [by |-> by, to |-> to, bcc |-> bcc]
Meet == CS({a1, b1}, {"request", "accept", "restart", "remove", "reject"}, 4, 1)
Shun == CS({a1, b1}, {"request", "accept", "block"}, 6, 0)
Rest == CS({a1, b1}, {"request", "accept", "card", "follow", "mute", "trust"}, 4, 0)
Boot == CS({a1, a2, b1}, {"request", "accept", "snapshot", "bootstrap"}, 2, 0)
Hide == CM({a1, b1, c1}, {"reply"}, 2, 3, 0, {L(a1, {"b"}, {"c"}), L(a1, {}, {"b", "c"})})
Flag == CM({a1, a2, b1}, {"read", "star", "move"}, 1, 3, 0, {L(b1, {"a"}, {})})
Bins == CM({a1, a2, b1}, {"move", "delete", "purge", "mail_restart", "draft"}, 1, 4, 1, {L(b1, {"a"}, {})})
Ties == CM({a1, b1}, {"request", "block", "mute", "read"}, 2, 3, 0, {L(b1, {"a"}, {})})
MCContactScenarios == {Meet, Shun, Rest, Boot, Hide, Flag, Bins, Ties}

----------------------------------------------------------------------------
(* The gateway: one Internet message for two users over two connections,   *)
(* or over one with a fault; one of the same conversation; two native      *)
(* messages to two domains.                                                *)
MCWants == (m1 :> {u1, u2}) @@ (m2 :> {u1})
MCRefs == (m1 :> <<root>>) @@ (m2 :> <<root, m1>>)
MCAt == (n1 :> 1) @@ (n2 :> 2)
MCExtRcpts == (n1 :> {a1, a2, b1}) @@ (n2 :> {b1})
MCDomainOf == (a1 :> "a") @@ (a2 :> "a") @@ (b1 :> "b")
Load(internet, natives, nconnects, nfaults) ==
  [mails |-> internet, natives |-> natives, connects |-> nconnects, faults |-> nfaults]
NoLoad == Load({}, {}, 0, 0)
MCLoads == {Load({m1}, {}, 0, 1), Load({m1}, {}, 1, 0), Load({m2}, {}, 0, 0), Load({}, {n1, n2}, 0, 0)}
ASSUME MCGatewayFits == RefsAgree /\ Loads(MCLoads) /\ Loads({NoLoad})
ConnSymmetry == Permutations(Conns)

----------------------------------------------------------------------------
Init ==
  /\ part \in {"people", "gateway"}
  /\ ContactInit(IF part = "people" THEN MCContactScenarios ELSE {Meet}) /\ MailInit
  /\ GatewayInit(IF part = "gateway" THEN MCLoads ELSE {NoLoad})

Next ==
  \/ part = "people" /\ ContactNext /\ UNCHANGED <<part, mailVars, gatewayVars>>
  \/ part = "people" /\ MailNext /\ UNCHANGED <<part, gatewayVars>>
  \/ part = "gateway" /\ GatewayNext /\ UNCHANGED <<part, contactVars, mailVars>>

Spec == Init /\ [][Next]_vars
=============================================================================
