SPECIFICATION Spec
CONSTANTS
  a1 = a1
  a2 = a2
  b1 = b1
  c1 = c1
  m1 = m1
  m2 = m2
  root = root
  u1 = u1
  u2 = u2
  n1 = n1
  n2 = n2
  Devs = {a1, a2, b1, c1}
  MailIds = {1, 2}
  DevOwner <- MCOwner
  FRIEND = "friend"
  PENDING_OUT = "pending_out"
  PENDING_IN = "pending_in"
  BLOCKED = "blocked"
  MUTED = "muted"
  TRUSTED = "trusted"
  FOLLOWING = "following"
  NoMessage = NoMessage
  MaxErrors = 2
  MaxRecipients = 1
  Mails = {m1, m2}
  Users = {u1, u2}
  Natives = {n1, n2}
  Wants <- MCWants
  Refs <- MCRefs
  At <- MCAt
  ExtRcpts <- MCExtRcpts
  DomainOf <- MCDomainOf
  Conns = {k1, k2}
  MaxAttempts = 2
  MaxHosts = 2
  MaxRender = 2
  MaxConnects = 2
  MaxFaults = 1
SYMMETRY ConnSymmetry
INVARIANTS
  ContactsAgreed
  MailAgrees
  
CHECK_DEADLOCK FALSE
