------------------------------ MODULE MCAccounts -------------------------------
(* Instances of Accounts for TLC. *)
EXTENDS Accounts, TLC

CONSTANTS u1, u2, e1, e2

\* One account is there, and one address is free.
MCEmailAt0 == [u \in User |-> IF u = u1 THEN e1 ELSE None]

\* The free address is wanted by both, the other one by who has none.
MCWants == {<<u1, e2>>, <<u2, e2>>, <<u2, e1>>}

Plan(reg, oa, log, forg, ask, conf, new, ver) ==
  "register" :> reg @@ "oauth" :> oa @@ "login" :> log @@ "forgot" :> forg @@
  "askChange" :> ask @@ "confirm" :> conf @@ "newPassword" :> new @@
  "verifyChange" :> ver

\* What meets: registrations and confirmations; registrations and a change to
\* the same address, or from it; logins with codes; lost passwords, and a
\* change of the address between; two changes, or one confirmed twice.
MCPlans ==
  {Plan(2, 0, 0, 0, 0, 1, 0, 0), Plan(1, 0, 1, 0, 0, 2, 0, 0),
   Plan(1, 1, 0, 0, 0, 1, 0, 0), Plan(1, 0, 0, 0, 1, 1, 0, 1),
   Plan(0, 2, 0, 0, 1, 0, 0, 1), Plan(0, 0, 4, 0, 0, 0, 0, 0),
   Plan(0, 0, 0, 2, 0, 0, 2, 0), Plan(0, 0, 0, 1, 1, 0, 1, 1),
   Plan(0, 0, 0, 0, 2, 0, 0, 1), Plan(0, 0, 0, 0, 1, 0, 0, 2)}
=============================================================================
