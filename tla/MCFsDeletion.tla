------------------------------ MODULE MCFsDeletion ----------------------------
(* Instances of FsDeletion for TLC. *)
EXTENDS FsDeletion, FiniteSetsExt

CONSTANTS alice, bob

MCUser == {alice, bob}

\* Rows 1 and 2 are the system folders; bob owns the last row.
MCOwner == [n \in NodeID |-> IF n = MaxNode THEN bob ELSE alice]

\* A folder (3), then files.
MCSize == [n \in NodeID |-> IF n <= 3 THEN 0 ELSE n - 3]

MCSizeOf == [S \in SUBSET NodeID |-> MapThenSumSet(LAMBDA n : MCSize[n], S)]

MCLimitBytes == [u \in MCUser |-> IF u = bob THEN 2 ELSE 1]
=============================================================================
