CONSTANTS
  None = None
  root = root  kid = kid
  e1 = e1  e2 = e2  e3 = e3
  d1 = d1  d2 = d2  d3 = d3  d4 = d4
  Scopes = {root, kid}
  Effects = {e1, e2, e3}
  Disposers = {d1, d2, d3, d4}
  Callers = {c1}
  ParentOf <- MCParentOf
  Owner <- MCOwner
  Shape <- MCShape
  Yields <- MCYields
  Kind <- MCKind
  Handled = {e2}
SPECIFICATION Spec
INVARIANTS NothingStranded DoneReachesDescendants NoEarlyReturn
PROPERTIES UnwindOrder RollbackIsLocal
CHECK_DEADLOCK FALSE
