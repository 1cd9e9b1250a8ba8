SPECIFICATION Spec
CONSTANTS
  Classes <- MCClasses
  Ids = {"a", "b", "c"}
  Subclasses <- MCSubclasses
  Objects <- MCObjects
  Handles = {h1, h2}
  None = None
  Registered = {"App", "RunApp"}
  Generated = {"t"}
  Templates = {t1, t2}
  MaxChanges = 2
  ReusesNames = FALSE
SYMMETRY MCSymmetry
INVARIANTS
  TypeOK
  OneTemplatePerId
  CastIsSafe
  FoundByNotification
  FreshTemplate
  DeletedThrows
