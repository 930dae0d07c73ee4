SPECIFICATION Spec
CONSTANTS
  Names = {"bill", "bi11", "eve"}
  Skeletons = {"bill", "eve"}
  Owners = {"ann", "bob"}
  Skeleton <- MCSkeleton
  NoName = NoName
  NoReg = NoReg
  Nobody = Nobody
  ParamSets <- MCParamSets
  InitialParams <- Launch
  MaxHeight = 6
  MaxExpiry = 8
  MaxPaid = 3
  MaxChanges = 1
INVARIANTS
  NamesAgree
PROPERTIES
  TermsAreKept
  ImplementsNamespace
