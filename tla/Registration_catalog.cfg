CONSTANTS
  Callers = {c1, c2}
  Structs <- MCStructs
  RegisterOps <- MCRegisterOps
  Fields <- MCFields
  Methods <- MCMethods
  SnakeCase <- MCSnakeCase
  Types = {t1, t2}
  t1 = t1
  t2 = t2
  NoType = NoType
  Missing = Missing
SPECIFICATION Spec
INVARIANTS TypeOK ManifestMatchesMethod RegisteredStays
SYMMETRY Symmetry
