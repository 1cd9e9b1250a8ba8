SPECIFICATION Spec
CONSTANTS
  Classes <- MCClasses
  Ids = {"a", "b", "c"}
  Subclasses <- MCSubclasses
  Objects <- MCObjects
  Handles = {h1, h2, h3, h4}
  None = None
  UsesReplaced = FALSE
  WritesWhileNotified = FALSE
SYMMETRY HandleSymmetry
INVARIANTS TypeOK OwnedOnce KeyIsName ValidIsStored DeletedIsGone FreshContent
