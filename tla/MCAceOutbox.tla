------------------------------ MODULE MCAceOutbox -----------------------------
(* Instances of AceOutbox for TLC. *)
EXTENDS AceOutbox

CONSTANTS folder, file, alice, bob

\* The file is shared with two users, one of them through the audit; the folder
\* has a parent relation to the file (its subject).
MCTuple == {<<file, alice>>, <<file, bob>>, <<folder, file>>}

MCAudited == {<<file, bob>>}

\* How often each resource is sent.
MCOnce     == [r \in {folder, file} |-> 1]
MCTwice    == [r \in {folder, file} |-> 2]
MCFileAgain == [r \in {folder, file} |-> IF r = file THEN 2 ELSE 1]
=============================================================================
