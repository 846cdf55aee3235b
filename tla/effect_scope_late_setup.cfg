CONSTANTS
  None = None
  root = root  kid = kid
  e1 = e1  e2 = e2  e3 = e3
  d1 = d1  d2 = d2  d3 = d3  d4 = d4
  Scopes = {root}
  Effects = {e1, e2}
  Disposers = {d1, d2, d3}
  Callers = {c1}
  ParentOf <- MCFlatParentOf
  Owner <- MCFlatOwner
  Shape <- MCFlatShape
  Yields <- MCSharedYields
  Kind <- MCSharedKind
  Handled = {}
SPECIFICATION Spec
INVARIANT NoLiveResource
CHECK_DEADLOCK FALSE
