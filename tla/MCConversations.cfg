SPECIFICATION Spec
CONSTANTS
  a1 = a1
  a2 = a2
  b1 = b1
  c1 = c1
  Devices = {a1, a2, b1}
  Owner <- MCOwner
  GroupIds = {1, 2}
  Texts = {"t"}
  KeyPackageBatch = 1
  SpaceDevices = {a1, a2, b1, c1}
  SpaceOwner <- MCOwner
  MaxMembers = 3
  CircleDevices = {a1, b1}
  CircleOwner <- MCOwner
  PollOptions = 2
INVARIANTS  RolesAgree CountsAreChoices
PROPERTIES RevokedLeave 
CHECK_DEADLOCK FALSE
