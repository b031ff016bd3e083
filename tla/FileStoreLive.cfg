SPECIFICATION FairSpec
CONSTANTS
  a = a
  b = b
  u1 = u1
  u2 = u2
  u3 = u3
  u4 = u4
  Content = {a}
  Upload = {u1, u2, u3}
  ContentOf <- MCContentOf
  Media = {u1, u2}
  Remover = {"r1", "r2"}
PROPERTIES
  RequestsEnd
CHECK_DEADLOCK FALSE
