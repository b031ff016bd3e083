SPECIFICATION Spec
CONSTANTS
  owner = owner
  x = x
  r1 = r1
  q1 = q1
  q2 = q2
  User = {x}
  Owner = owner
  Role = {r1}
  Permission = {"MEMBERS_MANAGE", "ROLES_MANAGE"}
  Request = {q1, q2}
  NoRole = NoRole
SYMMETRY Alike
INVARIANTS
  TypeOK
  MembershipIsAgreed
  MaskAsAnswered
