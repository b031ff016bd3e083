SPECIFICATION Spec
CONSTANTS
  a = a
  b = b
  u1 = u1
  u2 = u2
  u3 = u3
  u4 = u4
  Content = {a, b}
  Upload = {u1, u2, u3, u4}
  ContentOf <- MCContentOf
  Media = {u1, u2, u4}
  Remover = {"r1", "r2"}
INVARIANTS
  TypeOK
  RefCountIsAttachments
  ReadyHasFile
  DeletingIsUnused
  FileIsKept
CHECK_DEADLOCK FALSE
