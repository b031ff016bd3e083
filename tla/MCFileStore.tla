------------------------------ MODULE MCFileStore -----------------------------
(* Instances of FileStore for TLC. *)
EXTENDS FileStore

CONSTANTS a, b, u1, u2, u3, u4

\* Three uploads of one content, the last of them a node, and one of another.
MCContentOf == [u \in Upload |-> IF u = u4 THEN b ELSE a]
=============================================================================
