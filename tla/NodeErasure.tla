------------------------------ MODULE NodeErasure -----------------------------
(***************************************************************************)
(* What the deletion of file system nodes promises, independently of the   *)
(* tables and the worker loops that do it (module FsDeletion):             *)
(*                                                                         *)
(*  - a node disappears only after it was doomed, and being doomed is      *)
(*    final;                                                               *)
(*  - its bytes are charged when it appears and refunded when it           *)
(*    disappears, once each;                                               *)
(*  - its grants are given up for erasure only after it disappeared;       *)
(*  - the id of a doomed node is never used again.                         *)
(***************************************************************************)
EXTENDS Integers

CONSTANTS
  Node, User, Owner,
  Seed,        \* the nodes that are there from the start
  SizeOf       \* bytes of a set of nodes

VARIABLES
  live,        \* nodes that exist
  doomed,      \* nodes queued for deletion, now or earlier
  erased,      \* nodes whose grants were given up for erasure
  used         \* bytes charged to each user

vars == <<live, doomed, erased, used>>

Owned(S, u) == {n \in S : Owner[n] = u}

Init ==
  /\ live = Seed
  /\ doomed = {}
  /\ erased = {}
  /\ used = [u \in User |-> 0]

Appear(n) ==
  /\ n \notin live \cup doomed
  /\ live' = live \cup {n}
  /\ used' = [used EXCEPT ![Owner[n]] = @ + SizeOf[{n}]]
  /\ UNCHANGED <<doomed, erased>>

Doom(S) ==
  /\ S \subseteq live \ Seed
  /\ doomed' = doomed \cup S
  /\ UNCHANGED <<live, erased, used>>

Disappear(S) ==
  /\ S \subseteq live \cap doomed
  /\ live' = live \ S
  /\ used' = [u \in User |-> used[u] - SizeOf[Owned(S, u)]]
  /\ UNCHANGED <<doomed, erased>>

GiveUp(S) ==
  /\ S \subseteq doomed \ live
  /\ erased' = erased \cup S
  /\ UNCHANGED <<live, doomed, used>>

Next ==
  \/ \E n \in Node : Appear(n)
  \/ \E S \in SUBSET Node : Doom(S) \/ Disappear(S) \/ GiveUp(S)

Spec == Init /\ [][Next]_vars
=============================================================================
