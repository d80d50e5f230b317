SPECIFICATION Spec
CONSTANTS
  a = a
  b = b
  u1 = u1
  u2 = u2
  u3 = u3
  n1 = n1
  n2 = n2
  n3 = n3
  n4 = n4
  old = old
  new = new
  Sources = {a, b}
  Uuids = {u1, u2, u3}
  Names = {n1, n2, n3, n4}
  Policies = {old, new}
SYMMETRY Symmetric
INVARIANTS
  CatalogBacked
  NamesUnique
  AllOrNothing
  FilesAsUsed
  RollbackOnlyCreated
