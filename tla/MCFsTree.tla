------------------------------ MODULE MCFsTree ------------------------------
(* Instances of FsTree for TLC.                                            *)
EXTENDS FsTree, TLC

CONSTANTS alice, bob, r1, r2

N(by, type, under) == [by |-> by, type |-> type, under |-> under]

\* Two folders in a third, with a file in one of them; a folder with a file
\* that has a link below it, which has a file below; and no tree at all.
MCSeed ==
  { <<N(alice, "folder", 0), N(alice, "folder", 1), N(alice, "folder", 1),
      N(alice, "file", 2)>>,
    <<N(alice, "folder", 0), N(alice, "file", 1), N(alice, "link", 2),
      N(alice, "file", 3)>>,
    <<>> }

Of(counts) ==
  [op \in Op \cup AclCall |-> IF op \in DOMAIN counts THEN counts[op] ELSE 0]

MCPlans ==
  { Of("move" :> 2),
    Of("move" :> 1 @@ "createFolder" :> 1),
    Of("softDelete" :> 1 @@ "createFile" :> 1 @@ "get" :> 1),
    Of("grant" :> 1 @@ "softDelete" :> 1 @@ "move" :> 1),
    Of("grant" :> 1 @@ "revoke" :> 1 @@ "update" :> 1),
    Of("softDelete" :> 2 @@ "restore" :> 1 @@ "purge" :> 1),
    Of("update" :> 1 @@ "move" :> 1),
    Of("createLink" :> 1 @@ "softDelete" :> 1) }

\* One soft delete, for FsTreeTrash.
TrashPlans == {Of("softDelete" :> 1)}

Symmetry == Permutations(Request)

=============================================================================
