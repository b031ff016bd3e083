------------------------ MODULE FsTreeAcyclic_proofs ------------------------
(***************************************************************************)
(* Proof that the rows of FsTree never hold a folder below itself          *)
(* (Acyclic), and what the permissions of the schema include.  Both rest   *)
(* on Reach, of which it is shown first that it is the least set closed    *)
(* under the edges.                                                        *)
(***************************************************************************)
EXTENDS FsTree_proofs, FiniteSetTheorems, WellFoundedInduction

\* The edges do not lead out of S.
Closed(S, edges) == \A d \in edges : d[2] \in S => d[1] \in S

\* No set of nodes has for each of them another, or itself, above it.
NoLoop(edges) ==
  \A S \in SUBSET NodeID : S # {} => \E n \in S : \A p \in S : <<p, n>> \notin edges

\* SpiceDB has no way from p up to n.
Clear(n, p) ==
  \E A \in SUBSET NodeID : p \in A /\ n \notin A /\ Closed(A, parent)

Kept == ~ notes.raced /\ notes.torn = {}

\* The roots are on top of the rows, and a trash is below its root.
RowTops ==
  \A u \in User : parentID[Root(u)] = Null /\ parentID[Trash(u)] \in {Null, Root(u)}

\* SpiceDB knows the folder of a row, but for the row of an open move.
RowsTold ==
  Kept => \A n \in UserNode :
    \/ parentID[n] \in {Null} \cup TrashNode
    \/ n \in node /\ (<<parentID[n], n>> \in parent \/ MirroredIn(n, {"move"}))

MovesTold ==
  \A r \in Request : req[r].phase = "mirrored" /\ req[r].op = "move" =>
    <<req[r].target, req[r].nodeID>> \in parent

\* The folder the request names was a row when it was looked up.
HasPlace(r) ==
  \/ req[r].phase \in {"ask"} \cup Asked /\ req[r].op = "move" /\ req[r].target # Null
  \/ InTx(r) /\ req[r].op \in Creates

IsKnown(n) == n \in UserNode => n.of <= minted

\* Nothing is below a node that is not there yet.
PlacesKnown ==
  /\ \A e \in parent : IsKnown(e[1])
  /\ \A r \in Request : HasPlace(r) => IsKnown(NewParent(r))
  /\ \A r \in Request : InTx(r) /\ req[r].op \in Creates =>
       /\ \A e \in parent : e[1] # req[r].nodeID
       /\ \A q \in Request : HasPlace(q) => NewParent(q) # req[r].nodeID

Waits(r) ==
  /\ req[r].phase \in {"open", "written"} /\ req[r].op = "move"
  /\ req[r].target # Null /\ ~ req[r].overtaken

\* What SpiceDB told a move holds until another one overtakes it.
MovesClear == \A r \in Request : Waits(r) => Clear(req[r].nodeID, req[r].target)

Spoilt(r) == req[r].phase = "mirrored" /\ req[r].op = "move" /\ req[r].overtaken

\* Only a move that was overtaken can close a loop in SpiceDB.
ParentNoLoop == Kept /\ (\A r \in Request : ~ Spoilt(r)) => NoLoop(parent)

\* The inductive invariant, next to the one of FsTree_proofs.
AInv ==
  RowTops /\ RowsTold /\ MovesTold /\ PlacesKnown /\ MovesClear /\ ParentNoLoop

-----------------------------------------------------------------------------
(* Induction, and what Reach computes *)

\* Every set of natural numbers that is not empty has a least one.
LEMMA Least ==
  ASSUME NEW T \in SUBSET Nat, T # {}
  PROVE  \E k \in T : \A j \in T : k <= j
<1> DEFINE R == OpToRel(<, Nat)
<1>1. IsWellFoundedOn(R, Nat)
  BY NatLessThanWellFounded
<1>2. \A i, j \in Nat : i < j => <<i, j>> \in R
  BY DEF OpToRel
<1> HIDE DEF R
<1>3. PICK x \in T : \A y \in T : ~ (<<y, x>> \in R)
  BY <1>1, WFMin
<1>4. \A y \in T : x <= y
  <2> TAKE y \in T
  <2>1. x \in Nat /\ y \in Nat
    OBVIOUS
  <2>2. ~ (y < x)
    BY <1>2, <1>3, <2>1
  <2> QED
    BY <2>1, <2>2
<1> QED
  BY <1>4

\* Induction over the natural numbers, for the set of those a formula is true of.
LEMMA SetInduction ==
  ASSUME NEW P \in SUBSET Nat, 0 \in P,
         \A k \in Nat : k \in P => k + 1 \in P
  PROVE  P = Nat
<1> SUFFICES ASSUME P # Nat PROVE FALSE
  OBVIOUS
<1> DEFINE T == Nat \ P
<1>1. PICK k \in T : \A j \in T : k <= j
  <2>1. T \in SUBSET Nat /\ T # {}
    OBVIOUS
  <2> HIDE DEF T
  <2> QED
    BY <2>1, Least
<1>2. k \in Nat /\ k # 0
  OBVIOUS
<1>3. k - 1 \in Nat /\ ~ (k <= k - 1) /\ (k - 1) + 1 = k
  BY <1>2
<1>4. k - 1 \in P
  BY <1>1, <1>3
<1> QED
  BY <1>3, <1>4

Rounds(reach, base, edges) ==
  reach = [k \in Nat |-> IF k = 0 THEN base ELSE Widened(reach[k - 1], edges)]

\* The nodes a path of k steps or less leads to are a solution.
LEMMA RoundsExist ==
  ASSUME NEW N, NEW base \in SUBSET N, NEW edges \in SUBSET (N \X N)
  PROVE  \E f : Rounds(f, base, edges)
<1> DEFINE Path(s, k) == /\ s \in [0 .. k -> N]
                         /\ s[0] \in base
                         /\ \A i \in 1 .. k : s[i] \in Widened({s[i - 1]}, edges)
           Ends(k) == {x \in N : \E s : Path(s, k) /\ s[k] = x}
           f == [k \in Nat |-> Ends(k)]
<1>1. Ends(0) = base
  <2>1. ASSUME NEW x \in base PROVE x \in Ends(0)
    <3> DEFINE s == [i \in 0 .. 0 |-> x]
    <3>1. Path(s, 0) /\ s[0] = x
      OBVIOUS
    <3> QED
      BY <3>1
  <2> QED
    BY <2>1
<1>2. ASSUME NEW k \in Nat, k # 0 PROVE Ends(k) = Widened(Ends(k - 1), edges)
  <2> DEFINE j == k - 1
  <2>0. j \in Nat /\ j + 1 = k /\ j \in 0 .. k /\ j \in 0 .. j /\ k \in 1 .. k /\ k \in 0 .. k
    BY <1>2
  <2>1. ASSUME NEW x \in Ends(k) PROVE x \in Widened(Ends(j), edges)
    <3>1. PICK s : Path(s, k) /\ s[k] = x
      OBVIOUS
    <3> DEFINE t == [i \in 0 .. j |-> s[i]]
    <3>2. Path(t, j) /\ t[j] = s[j]
      <4>1. \A i \in 0 .. j : i \in 0 .. k
        BY <2>0
      <4>2. \A i \in 1 .. j : i \in 1 .. k /\ i \in 0 .. j /\ i - 1 \in 0 .. j
        BY <2>0
      <4>3. 0 \in 0 .. j
        BY <2>0
      <4> QED
        BY <2>0, <3>1, <4>1, <4>2, <4>3
    <3>3. s[j] \in N
      BY <2>0, <3>1
    <3>4. s[j] \in Ends(j)
      BY <3>2, <3>3
    <3>5. x \in Widened({s[j]}, edges)
      BY <2>0, <3>1
    <3> HIDE DEF Ends, j
    <3> QED
      BY <3>4, <3>5 DEF Widened
  <2>2. ASSUME NEW x \in Widened(Ends(j), edges) PROVE x \in Ends(k)
    <3>1. PICK y \in Ends(j) : x \in Widened({y}, edges)
      BY <2>2 DEF Widened
    <3>2. PICK s : Path(s, j) /\ s[j] = y
      BY <3>1
    <3>3. x \in N
      BY <3>1 DEF Widened
    <3> DEFINE t == [i \in 0 .. k |-> IF i = k THEN x ELSE s[i]]
    <3>4. t \in [0 .. k -> N]
      <4>1. \A i \in 0 .. k : i # k => i \in 0 .. j
        BY <2>0
      <4> QED
        BY <3>2, <3>3, <4>1
    <3>5. t[0] \in base /\ t[k] = x
      <4>1. 0 \in 0 .. k /\ 0 # k
        BY <1>2
      <4> QED
        BY <2>0, <3>2, <4>1
    <3>6. ASSUME NEW i \in 1 .. k PROVE t[i] \in Widened({t[i - 1]}, edges)
      <4>1. i \in 0 .. k /\ i - 1 \in 0 .. k /\ i - 1 # k
        BY <1>2
      <4>2. CASE i = k
        <5>1. t[i] = x /\ t[i - 1] = y
          BY <2>0, <3>2, <4>1, <4>2
        <5> QED
          BY <3>1, <5>1
      <4>3. CASE i # k
        <5>1. i \in 1 .. j
          BY <2>0, <4>3
        <5>2. t[i] = s[i] /\ t[i - 1] = s[i - 1]
          BY <4>1, <4>3
        <5> QED
          BY <3>2, <5>1, <5>2
      <4> QED
        BY <4>2, <4>3
    <3>7. Path(t, k)
      BY <3>4, <3>5, <3>6
    <3> HIDE DEF Path, t
    <3> QED
      BY <3>3, <3>5, <3>7
  <2> HIDE DEF Ends
  <2>3. Widened(Ends(j), edges) = Ends(k)
    BY <2>1, <2>2
  <2> QED
    BY <2>3
<1> HIDE DEF Ends
<1>3. f = [k \in Nat |-> IF k = 0 THEN base ELSE Widened(f[k - 1], edges)]
  <2>1. \A k \in Nat : Ends(k) = IF k = 0 THEN base ELSE Widened(Ends(k - 1), edges)
    BY <1>1, <1>2
  <2>2. \A k \in Nat : k # 0 => k - 1 \in Nat
    OBVIOUS
  <2>3. \A k \in Nat : k # 0 => f[k - 1] = Ends(k - 1)
    BY <2>2
  <2> QED
    BY <2>1, <2>3
<1> QED
  BY <1>3 DEF Rounds

LEMMA RoundsStep ==
  ASSUME NEW f, NEW base, NEW edges, Rounds(f, base, edges)
  PROVE  f[0] = base /\ \A k \in Nat : f[k + 1] = Widened(f[k], edges)
<1> DEFINE body(k) == IF k = 0 THEN base ELSE Widened(f[k - 1], edges)
<1>1. f = [k \in Nat |-> body(k)]
  BY DEF Rounds
<1>2. \A k \in Nat : f[k] = body(k)
  <2> HIDE DEF body
  <2> QED
    BY <1>1
<1>3. \A k \in Nat : k + 1 \in Nat /\ k + 1 # 0 /\ (k + 1) - 1 = k
  OBVIOUS
<1>4. 0 \in Nat
  OBVIOUS
<1> HIDE <1>1
<1>5. ASSUME NEW k \in Nat PROVE f[k + 1] = Widened(f[k], edges)
  <2>1. f[k + 1] = Widened(f[(k + 1) - 1], edges)
    BY <1>2, <1>3
  <2> QED
    BY <2>1, <1>3
<1> QED
  BY <1>2, <1>4, <1>5

LEMMA WidenedClosed ==
  ASSUME NEW low, NEW edges
  PROVE  /\ low \subseteq Widened(low, edges)
         /\ Closed(low, edges) <=> Widened(low, edges) = low
         /\ \A S : low \subseteq S /\ Closed(S, edges) => Widened(low, edges) \subseteq S
BY DEF Widened, Closed

\* No round leaves a closed set that holds the base.
LEMMA RoundsWithin ==
  ASSUME NEW f, NEW base, NEW edges, Rounds(f, base, edges),
         NEW S, base \subseteq S, Closed(S, edges)
  PROVE  \A k \in Nat : f[k] \subseteq S
<1> DEFINE P == {k \in Nat : f[k] \subseteq S}
<1>1. P \in SUBSET Nat
  OBVIOUS
<1>2. 0 \in P
  BY RoundsStep
<1>3. \A k \in Nat : k \in P => k + 1 \in P
  <2> TAKE k \in Nat
  <2>1. f[k + 1] = Widened(f[k], edges) /\ k + 1 \in Nat
    BY RoundsStep
  <2> QED
    BY <2>1, WidenedClosed
<1>4. P = Nat
  <2> HIDE DEF P
  <2> QED
    BY <1>1, <1>2, <1>3, SetInduction
<1> QED
  BY <1>4

\* Once a round is closed nothing more is added.
LEMMA RoundsStable ==
  ASSUME NEW f, NEW base, NEW edges, Rounds(f, base, edges),
         NEW i \in Nat, Closed(f[i], edges)
  PROVE  \A j \in Nat : i <= j => f[j] = f[i]
<1> DEFINE P == {j \in Nat : i <= j => f[j] = f[i]}
<1>1. P \in SUBSET Nat
  OBVIOUS
<1>2. 0 \in P
  OBVIOUS
<1>3. \A k \in Nat : k \in P => k + 1 \in P
  <2> SUFFICES ASSUME NEW k \in Nat, k \in P, i <= k + 1 PROVE f[k + 1] = f[i]
    OBVIOUS
  <2>1. CASE i = k + 1
    BY <2>1
  <2>2. CASE i <= k
    <3>1. f[k] = f[i]
      BY <2>2
    <3>2. f[k + 1] = Widened(f[k], edges)
      BY RoundsStep
    <3> QED
      BY <3>1, <3>2, WidenedClosed
  <2> QED
    BY <2>1, <2>2
<1>4. P = Nat
  <2> HIDE DEF P
  <2> QED
    BY <1>1, <1>2, <1>3, SetInduction
<1> QED
  BY <1>4

\* Every round before a closed one adds a node, so that there is one after as
\* many rounds as there are nodes.
LEMMA RoundsClose ==
  ASSUME NEW N, IsFiniteSet(N), NEW base \in SUBSET N, NEW edges \in SUBSET (N \X N),
         NEW f, Rounds(f, base, edges)
  PROVE  \E i \in 0 .. Cardinality(N) : Closed(f[i], edges)
<1>0. Cardinality(N) \in Nat
  BY FS_CardinalityType
<1> DEFINE Q(k) == (\E i \in 0 .. k : Closed(f[i], edges)) \/ k < Cardinality(f[k])
           P == {k \in Nat : Q(k)}
<1>1. \A k \in Nat : f[k] \subseteq N
  <2>1. Closed(N, edges)
    BY DEF Closed
  <2> QED
    BY <2>1, RoundsWithin
<1>2. \A k \in Nat : IsFiniteSet(f[k]) /\ Cardinality(f[k]) \in Nat
                       /\ Cardinality(f[k]) <= Cardinality(N)
  BY <1>1, FS_Subset, FS_CardinalityType
<1>3. 0 \in P
  <2>1. CASE f[0] = {}
    <3>1. Closed(f[0], edges)
      BY <2>1 DEF Closed
    <3> QED
      BY <3>1
  <2>2. CASE f[0] # {}
    <3>1. Cardinality(f[0]) # 0
      BY <1>2, <2>2, FS_EmptySet
    <3> QED
      BY <1>2, <3>1
  <2> QED
    BY <2>1, <2>2
<1>4. \A k \in Nat : k \in P => k + 1 \in P
  <2> SUFFICES ASSUME NEW k \in Nat, Q(k) PROVE Q(k + 1)
    OBVIOUS
  <2>1. CASE \E i \in 0 .. k : Closed(f[i], edges)
    <3>1. \A i \in 0 .. k : i \in 0 .. (k + 1)
      OBVIOUS
    <3> QED
      BY <2>1, <3>1
  <2>2. CASE ~ Closed(f[k], edges) /\ k < Cardinality(f[k])
    <3>1. f[k + 1] = Widened(f[k], edges)
      BY RoundsStep
    <3>2. f[k] \subseteq f[k + 1] /\ f[k] # f[k + 1]
      BY <2>2, <3>1, WidenedClosed
    <3>3. k + 1 \in Nat /\ IsFiniteSet(f[k + 1])
      BY <1>2
    <3>4. Cardinality(f[k]) <= Cardinality(f[k + 1])
          /\ Cardinality(f[k]) # Cardinality(f[k + 1])
      BY <3>2, <3>3, FS_Subset
    <3> QED
      BY <1>2, <2>2, <3>3, <3>4
  <2>3. k \in 0 .. k
    OBVIOUS
  <2> QED
    BY <2>1, <2>2, <2>3
<1>5. P = Nat
  <2>1. P \in SUBSET Nat
    OBVIOUS
  <2> HIDE DEF P
  <2> QED
    BY <2>1, <1>3, <1>4, SetInduction
<1>6. Q(Cardinality(N))
  BY <1>0, <1>5
<1>7. ~ (Cardinality(N) < Cardinality(f[Cardinality(N)]))
  BY <1>0, <1>2
<1> QED
  BY <1>6, <1>7

LEMMA NodeIDFinite == IsFiniteSet(NodeID)
<1>1. IsFiniteSet(UserNode)
  <2>1. IsFiniteSet(1 .. MaxNode)
    BY BoundAssumption, FS_Interval
  <2>2. UserNode = {FreshID(i) : i \in 1 .. MaxNode}
    BY DEF UserNode
  <2> DEFINE f == [i \in 1 .. MaxNode |-> FreshID(i)]
  <2>3. f \in Surjection(1 .. MaxNode, UserNode)
    BY <2>2 DEF Surjection
  <2> QED
    BY <2>1, <2>3, FS_Surjection
<1>2. IsFiniteSet({"ROOT", "TRASH"} \X User)
  <2>1. IsFiniteSet({"ROOT"}) /\ IsFiniteSet({"TRASH"})
    BY FS_Singleton
  <2>2. {"ROOT", "TRASH"} = {"ROOT"} \cup {"TRASH"}
    OBVIOUS
  <2>3. IsFiniteSet({"ROOT", "TRASH"})
    BY <2>1, <2>2, FS_Union
  <2> QED
    BY <2>3, UserAssumption, FS_Product
<1>3. IsFiniteSet(SystemNode)
  <2> DEFINE f == [x \in {"ROOT", "TRASH"} \X User |-> SystemID(x[1], x[2])]
  <2>1. \A x \in {"ROOT", "TRASH"} \X User : f[x] = SystemID(x[1], x[2])
    OBVIOUS
  <2>2. \A x \in {"ROOT", "TRASH"} \X User : f[x] \in SystemNode
    BY <2>1 DEF SystemNode
  <2>3. ASSUME NEW t \in {"ROOT", "TRASH"}, NEW u \in User
        PROVE  \E x \in {"ROOT", "TRASH"} \X User : f[x] = SystemID(t, u)
    <3>1. <<t, u>> \in {"ROOT", "TRASH"} \X User /\ f[<<t, u>>] = SystemID(t, u)
      OBVIOUS
    <3> QED
      BY <3>1
  <2>4. f \in [{"ROOT", "TRASH"} \X User -> SystemNode]
    BY <2>2
  <2> HIDE DEF f
  <2>5. f \in Surjection({"ROOT", "TRASH"} \X User, SystemNode)
    <3>1. \A s \in SystemNode : \E x \in {"ROOT", "TRASH"} \X User : f[x] = s
      <4> TAKE s \in SystemNode
      <4>1. PICK t \in {"ROOT", "TRASH"}, u \in User : s = SystemID(t, u)
        BY DEF SystemNode
      <4>2. \E x \in {"ROOT", "TRASH"} \X User : f[x] = SystemID(t, u)
        BY <2>3
      <4> QED
        BY <4>1, <4>2
    <3> QED
      BY <2>4, <3>1 DEF Surjection
  <2> QED
    BY <1>2, <2>5, FS_Surjection
<1> QED
  BY <1>1, <1>3, FS_Union DEF NodeID

\* What Reach computes: the least set that holds the base and is closed.
LEMMA ReachIsLeast ==
  ASSUME NEW base \in SUBSET NodeID,
         NEW edges \in SUBSET (NodeID \X NodeID)
  PROVE  /\ base \subseteq Reach(base, edges)
         /\ Reach(base, edges) \subseteq NodeID
         /\ Closed(Reach(base, edges), edges)
         /\ \A S : base \subseteq S /\ Closed(S, edges) => Reach(base, edges) \subseteq S
<1> DEFINE g == CHOOSE f : f = [k \in Nat |-> IF k = 0 THEN base ELSE Widened(f[k - 1], edges)]
           n == Cardinality(NodeID)
<1>1. Reach(base, edges) = g[n]
  BY DEF Reach
<1>2. \E f : f = [k \in Nat |-> IF k = 0 THEN base ELSE Widened(f[k - 1], edges)]
  <2>1. \E f : Rounds(f, base, edges)
    BY RoundsExist
  <2> QED
    BY <2>1 DEF Rounds
<1>3. Rounds(g, base, edges)
  BY <1>2 DEF Rounds
<1>0. IsFiniteSet(NodeID)
  BY NodeIDFinite
<1>4. n \in Nat
  BY <1>0, FS_CardinalityType
<1> HIDE DEF g
<1>5. \A S : base \subseteq S /\ Closed(S, edges) => g[n] \subseteq S
  BY <1>3, <1>4, RoundsWithin
<1>6. Closed(g[n], edges)
  <2>1. PICK i \in 0 .. n : Closed(g[i], edges)
    BY <1>0, <1>3, RoundsClose
  <2>2. i \in Nat /\ i <= n
    BY <1>4
  <2>3. g[n] = g[i]
    BY <1>3, <1>4, <2>1, <2>2, RoundsStable
  <2> QED
    BY <2>1, <2>3
<1>7. base \subseteq g[n]
  <2> DEFINE P == {k \in Nat : base \subseteq g[k]}
  <2>1. P \in SUBSET Nat /\ 0 \in P
    BY <1>3, RoundsStep
  <2>2. \A k \in Nat : k \in P => k + 1 \in P
    <3> TAKE k \in Nat
    <3>1. g[k + 1] = Widened(g[k], edges) /\ k + 1 \in Nat
      BY <1>3, RoundsStep
    <3> QED
      BY <3>1, WidenedClosed
  <2>3. P = Nat
    <3> HIDE DEF P
    <3> QED
      BY <2>1, <2>2, SetInduction
  <2> QED
    BY <1>4, <2>3
<1>8. g[n] \subseteq NodeID
  <2>1. Closed(NodeID, edges)
    BY DEF Closed
  <2> QED
    BY <1>5, <2>1
<1> QED
  BY <1>1, <1>5, <1>6, <1>7, <1>8
-----------------------------------------------------------------------------
(* Loops *)

\* What is above a set that n is not in can be put above n.
LEMMA NoLoopBelow ==
  ASSUME NEW edges \in SUBSET (NodeID \X NodeID), NoLoop(edges),
         NEW A \in SUBSET NodeID, Closed(A, edges), NEW p \in A, NEW n \in NodeID \ A,
         NEW more, \A e \in more : e \in edges \/ e = <<p, n>>
  PROVE  NoLoop(more)
<1> SUFFICES ASSUME NEW S \in SUBSET NodeID, S # {},
                    \A m \in S : \E x \in S : <<x, m>> \in more
             PROVE  FALSE
  BY DEF NoLoop
<1>1. CASE S \cap A = {}
  <2>1. \A m \in S : \E x \in S : <<x, m>> \in edges
    BY <1>1
  <2> QED
    BY <2>1 DEF NoLoop
<1>2. CASE S \cap A # {}
  <2>1. ASSUME NEW m \in S \cap A PROVE \E x \in S \cap A : <<x, m>> \in edges
    <3>1. PICK x \in S : <<x, m>> \in more
      OBVIOUS
    <3>2. <<x, m>> \in edges
      BY <3>1
    <3> QED
      BY <3>2 DEF Closed
  <2> QED
    BY <1>2, <2>1 DEF NoLoop
<1> QED
  BY <1>1, <1>2

\* Rows without a loop have no node above itself.
LEMMA NoneAboveItself ==
  ASSUME RowsTyped, NoLoop(RowEdges), NEW n \in NodeID
  PROVE  n \notin Above(n)
<1> SUFFICES ASSUME n \in Above(n) PROVE FALSE
  OBVIOUS
<1>1. RowEdges \in SUBSET (NodeID \X NodeID)
  BY DEF RowsTyped, RowEdges
<1>2. ASSUME NEW m \in NodeID
      PROVE  /\ {parentID[m]} \ {Null} \subseteq Above(m)
             /\ Closed(Above(m), RowEdges)
             /\ \A S : {parentID[m]} \ {Null} \subseteq S /\ Closed(S, RowEdges)
                         => Above(m) \subseteq S
  <2>1. {parentID[m]} \ {Null} \in SUBSET NodeID
    BY DEF RowsTyped
  <2> QED
    BY <1>1, <2>1, ReachIsLeast DEF Above
<1>3. \A m \in NodeID : parentID[m] # Null => <<parentID[m], m>> \in RowEdges
  BY DEF RowEdges
<1>4. \A d \in RowEdges : d[2] \in NodeID /\ d[1] = parentID[d[2]] /\ d[1] # Null
  BY DEF RowEdges
<1> DEFINE S == {m \in NodeID : m \in Above(m)}
<1>5. PICK m \in S : \A p \in S : <<p, m>> \notin RowEdges
  BY DEF NoLoop
<1> DEFINE p == parentID[m]
<1>6. p # Null /\ p \in NodeID
  <2>1. p = Null => Above(m) \subseteq {}
    <3>1. Closed({}, RowEdges)
      BY DEF Closed
    <3> QED
      BY <1>2, <3>1
  <2> QED
    BY <2>1 DEF RowsTyped
<1>7. Closed({p} \cup Above(p), RowEdges)
  BY <1>2, <1>4, <1>6 DEF Closed
<1>8. m \in {p} \cup Above(p)
  BY <1>2, <1>5, <1>6, <1>7
<1>9. p \in Above(p)
  <2>1. CASE m = p
    BY <1>2, <1>6, <2>1
  <2>2. CASE m \in Above(p)
    <3>1. <<p, m>> \in RowEdges
      BY <1>3, <1>6
    <3>2. Closed(Above(p), RowEdges)
      BY <1>2, <1>6
    <3> HIDE DEF p
    <3> QED
      BY <2>2, <3>1, <3>2 DEF Closed
  <2> QED
    BY <1>8, <2>1, <2>2
<1> QED
  BY <1>3, <1>5, <1>6, <1>9

\* What SpiceDB refuses a move is all that could close a loop.
LEMMA RefusedOrClear ==
  ASSUME AclTyped, NEW n, NEW p \in NodeID, ~ LeadsTo(n, p)
  PROVE  Clear(n, p)
<1>1. parent \in SUBSET (NodeID \X NodeID)
  BY Ids DEF AclTyped
<1>2. {d \in parent : d[2] \notin {}} = parent
  OBVIOUS
<1>3. n \notin Reach({p}, parent)
  BY <1>2 DEF LeadsTo, Inherited
<1>4. /\ {p} \subseteq Reach({p}, parent) /\ Reach({p}, parent) \subseteq NodeID
      /\ Closed(Reach({p}, parent), parent)
  BY <1>1, ReachIsLeast
<1> QED
  BY <1>3, <1>4 DEF Clear

\* While SpiceDB has no loop, and the rows are as it knows them, they have none.
LEMMA RowsHaveNoLoop ==
  ASSUME IInv, RowTops, RowsTold, Kept, NoLoop(parent),
         \A n : ~ MirroredIn(n, {"move"})
  PROVE  NoLoop(RowEdges)
<1> SUFFICES ASSUME NEW S \in SUBSET NodeID, S # {},
                    \A m \in S : \E x \in S : <<x, m>> \in RowEdges
             PROVE  FALSE
  BY DEF NoLoop
<1>1. \A m \in S : parentID[m] \in S
  BY DEF RowEdges
<1>2. ASSUME NEW u \in User PROVE Root(u) \notin S /\ Trash(u) \notin S
  BY <1>1, Ids DEF RowTops
<1>3. \A m \in S : m \in UserNode
  BY <1>2, Ids DEF SystemNode, Root, Trash
<1>4. \A m \in S : parentID[m] \notin {Null} \cup TrashNode
  BY <1>1, <1>2, Ids DEF TrashNode
<1>5. \A m \in S : <<parentID[m], m>> \in parent
  BY <1>3, <1>4 DEF RowsTold
<1> QED
  BY <1>1, <1>5 DEF NoLoop

-----------------------------------------------------------------------------
(* Steps that leave SpiceDB as it is *)

\* A step of r that writes no relation and no new id.
LEMMA StepOfOne ==
  ASSUME IInv, AInv, NEW r \in Request, Others(r), parent' = parent, minted' = minted,
         RowTops', RowsTold', Kept' => Kept, Spoilt(r) => ~ Kept',
         req'[r].phase # "mirrored",
         ~ (InTx(r)' /\ req'[r].op \in Creates),
         HasPlace(r)' =>
           /\ IsKnown(NewParent(r)')
           /\ \A q \in Request \ {r} : InTx(q) /\ req[q].op \in Creates =>
                NewParent(r)' # req[q].nodeID,
         Waits(r)' => Clear(req'[r].nodeID, req'[r].target)
  PROVE  AInv'
<1>1. \A q \in Request \ {r} :
        /\ req'[q] = req[q]
        /\ HasPlace(q)' <=> HasPlace(q)
        /\ InTx(q)' <=> InTx(q)
        /\ NewParent(q)' = NewParent(q)
        /\ Waits(q)' <=> Waits(q)
        /\ Spoilt(q)' <=> Spoilt(q)
  BY DEF Others, HasPlace, InTx, NewParent, Waits, Spoilt
<1>2. \A n, p : Clear(n, p)' <=> Clear(n, p)
  BY DEF Clear
<1>4. MovesTold'
  BY <1>1 DEF AInv, MovesTold
<1>5. PlacesKnown'
  <2>1. (\A e \in parent : IsKnown(e[1]))'
    BY DEF AInv, PlacesKnown, IsKnown
  <2>2. ASSUME NEW q \in Request, HasPlace(q)' PROVE IsKnown(NewParent(q))'
    <3>1. IsKnown(NewParent(q)')
      BY <1>1, <2>2 DEF AInv, PlacesKnown
    <3> QED
      BY <3>1 DEF IsKnown
  <2>3. ASSUME NEW q \in Request, InTx(q)', req'[q].op \in Creates
        PROVE  /\ \A e \in parent' : e[1] # req'[q].nodeID
               /\ \A p \in Request : HasPlace(p)' => NewParent(p)' # req'[q].nodeID
    <3>1. q # r /\ InTx(q) /\ req'[q] = req[q] /\ req[q].op \in Creates
      BY <1>1, <2>3
    <3> QED
      BY <1>1, <3>1 DEF AInv, PlacesKnown
  <2> QED
    BY <2>1, <2>2, <2>3 DEF PlacesKnown
<1>6. MovesClear'
  BY <1>1, <1>2 DEF AInv, MovesClear
<1>7. ParentNoLoop'
  BY <1>1 DEF AInv, ParentNoLoop, NoLoop
<1> QED
  BY <1>4, <1>5, <1>6, <1>7 DEF AInv

\* A step that takes user nodes to a trash or out of every folder, at most.
LEMMA RowsStayTold ==
  ASSUME AInv, parent' = parent, Kept' => Kept,
         \A n \in UserNode :
           \/ parentID'[n] \in {Null} \cup TrashNode
           \/ parentID'[n] = parentID[n] /\ (n \in node => n \in node'),
         \A n \in UserNode : MirroredIn(n, {"move"}) /\ Kept' => MirroredIn(n, {"move"})'
  PROVE  RowsTold'
BY DEF AInv, RowsTold

LEMMA RowTopsStay ==
  ASSUME AInv, \A n \in SystemNode : parentID'[n] = parentID[n]
  PROVE  RowTops'
BY Ids DEF AInv, RowTops

\* The end of a request, its rows and history set apart.
LEMMA EndOfOne ==
  ASSUME IInv, AInv, NEW r \in Request, Others(r), req'[r] = Idle,
         parent' = parent, minted' = minted,
         RowTops', RowsTold', Kept' => Kept, Spoilt(r) => ~ Kept'
  PROVE  AInv'
<1>1. /\ req'[r].phase # "mirrored" /\ ~ InTx(r)' /\ ~ HasPlace(r)' /\ ~ Waits(r)'
  BY IdleFits DEF InTx, HasPlace, Waits, Asked
<1> QED
  BY <1>1, StepOfOne

\* Whether a row has an open move in SpiceDB, but for the request r.
LEMMA MirroredApart ==
  ASSUME NEW r \in Request, Others(r), NEW n, MirroredIn(n, {"move"})
  PROVE  \/ MirroredIn(n, {"move"})'
         \/ req[r].phase = "mirrored" /\ req[r].op = "move" /\ req[r].nodeID = n
BY DEF MirroredIn, Others

LEMMA BeginAcyclic ==
  ASSUME IInv, AInv, NEW r \in Request, NEW u \in User, Begin(r, u)
  PROVE  AInv'
<1>1. PICK op, n, p, to, inherit :
        Call(op, n, p, to) /\ inherit \in BOOLEAN /\ Start(r, u, op, n, p, inherit, to)
  BY BeginStarts, Parts
<1>2. /\ Others(r) /\ req[r].phase = "idle" /\ req'[r].phase = "look"
  BY <1>1, StartShape, Parts
<1>3. UNCHANGED <<node, parentID, parent, minted, notes>>
  BY <1>1 DEF Start, rowVars, aclVars
<1>4. Kept' <=> Kept
  BY <1>3 DEF Kept
<1>5. RowTops' /\ RowsTold'
  BY <1>2, <1>3, <1>4, RowTopsStay, RowsStayTold, MirroredApart
<1>6. ~ Spoilt(r) /\ ~ InTx(r)' /\ ~ HasPlace(r)' /\ ~ Waits(r)'
  BY <1>2 DEF Spoilt, InTx, HasPlace, Waits, Asked
<1> QED
  BY <1>2, <1>3, <1>4, <1>5, <1>6, StepOfOne

LEMMA RefuseAcyclic ==
  ASSUME IInv, AInv, NEW r \in Request, Refuse(r)
  PROVE  AInv'
<1>1. Others(r) /\ req'[r] = Idle /\ req[r].phase # "mirrored"
  BY EndShape, Parts DEF Refuse
<1>2. UNCHANGED <<node, parentID, parent, minted, notes>>
  BY DEF Refuse, rowVars, aclVars
<1>3. Kept' <=> Kept
  BY <1>2 DEF Kept
<1>4. RowTops' /\ RowsTold'
  BY <1>1, <1>2, <1>3, RowTopsStay, RowsStayTold, MirroredApart
<1> QED
  BY <1>1, <1>2, <1>3, <1>4, EndOfOne DEF Spoilt

\* A move is looked up in a folder that is there.
LEMMA LookAcyclic ==
  ASSUME IInv, AInv, NEW r \in Request, Look(r)
  PROVE  AInv'
<1> DEFINE q == req[r]
<1>1. /\ q.phase = "look" /\ GoesTo(r, "ask") /\ req'[r].nodeID = q.nodeID
  BY LookShape, Parts DEF IInv
<1>2. /\ Others(r) /\ req'[r].phase = "ask" /\ req'[r].op = q.op
      /\ req'[r].target = q.target
  BY <1>1 DEF GoesTo
<1>3. UNCHANGED <<node, parentID, parent, minted, notes>>
  BY DEF Look, rowVars, aclVars
<1>4. Kept' <=> Kept
  BY <1>3 DEF Kept
<1>5. RowTops' /\ RowsTold'
  BY <1>1, <1>2, <1>3, <1>4, RowTopsStay, RowsStayTold, MirroredApart
<1>6. ~ Spoilt(r) /\ ~ InTx(r)' /\ ~ Waits(r)'
  BY <1>1, <1>2 DEF Spoilt, InTx, Waits
<1>7. ASSUME HasPlace(r)'
      PROVE  NewParent(r)' = q.target /\ q.target \in node
  <2>1. q.op = "move" /\ q.target # Null
    BY <1>2, <1>6, <1>7 DEF HasPlace
  <2>2. Head(q.checks).targetParentID = q.target
    BY <2>1, LookAllows DEF ChecksFit
  <2> QED
    BY <1>2, <2>1, <2>2 DEF Look, Allowed, NewParent
<1>8. ASSUME HasPlace(r)', NEW p \in Request \ {r}, InTx(p), req[p].op \in Creates
      PROVE  NewParent(r)' # req[p].nodeID
  BY <1>7, <1>8 DEF IInv, NewIsAlone
<1>9. HasPlace(r)' => IsKnown(NewParent(r)')
  BY <1>7 DEF IInv, IdsAreFresh, IsKnown
<1> QED
  BY <1>2, <1>3, <1>4, <1>5, <1>6, <1>8, <1>9, StepOfOne

\* A move SpiceDB has granted does not lead below the node it moves.
LEMMA GrantedIsClear ==
  ASSUME IInv, NEW r \in Request, req[r].phase = "ask", req[r].op = "move",
         req[r].target # Null, Granted(req[r].user, Head(req[r].checks))
  PROVE  Clear(req[r].nodeID, req[r].target)
<1> DEFINE q == req[r]
           c == Head(q.checks)
<1>1. ChecksFit(q) /\ Fits(q)
  BY DEF IInv, RequestsFit, Fits
<1>2. /\ c.action = "MOVE" /\ c.targetParentID = q.target /\ ~ c.onlyParentCheck
      /\ c.sourceID = q.nodeID /\ q.nodeID \in UserNode
  BY <1>1 DEF ChecksFit, Fits, Creates
<1>3. Subject(q.user, c) = q.nodeID /\ Goal(q.user, c) = q.target
  BY <1>2 DEF Subject, Goal
<1>4. ~ OwnSystemNode(q.user, c)
  BY <1>2, <1>3, FreshIds DEF OwnSystemNode
<1>5. ~ LeadsTo(q.nodeID, q.target)
  BY <1>2, <1>3, <1>4 DEF Granted
<1>6. q.target \in NodeID
  BY Parts DEF ReqsTyped, RequestRecord
<1> QED
  BY <1>5, <1>6, Parts, RefusedOrClear

LEMMA AskAcyclic ==
  ASSUME IInv, AInv, NEW r \in Request, Ask(r)
  PROVE  AInv'
<1> DEFINE q == req[r]
<1>1. /\ q.phase = "ask"
      /\ \/ GoesTo(r, "look") /\ req'[r].nodeID = q.nodeID
         \/ Others(r) /\ req'[r] = Idle
         \/ GoesTo(r, "open") /\ req'[r].nodeID = q.nodeID
  BY AskShape, Parts DEF IInv
<1>2. UNCHANGED <<node, parentID, parent, minted, notes>>
  BY DEF Ask, rowVars, aclVars
<1>3. Others(r) /\ ~ Spoilt(r)
  BY <1>1 DEF GoesTo, Spoilt
<1>4. Kept' <=> Kept
  BY <1>2 DEF Kept
<1>5. RowTops' /\ RowsTold'
  BY <1>1, <1>2, <1>3, <1>4, RowTopsStay, RowsStayTold, MirroredApart
<1>6. CASE req'[r] = Idle
  BY <1>2, <1>3, <1>4, <1>5, <1>6, EndOfOne
<1>7. CASE GoesTo(r, "look")
  <2>1. ~ InTx(r)' /\ ~ HasPlace(r)' /\ ~ Waits(r)' /\ req'[r].phase # "mirrored"
    BY <1>7 DEF GoesTo, InTx, HasPlace, Waits, Asked
  <2> QED
    BY <1>2, <1>3, <1>4, <1>5, <2>1, StepOfOne
<1>8. CASE GoesTo(r, "open") /\ req'[r].nodeID = q.nodeID
  <2>1. /\ req'[r].phase = "open" /\ req'[r].op = q.op /\ req'[r].target = q.target
        /\ req'[r].user = q.user
    BY <1>8 DEF GoesTo
  <2>2. ~ InTx(r)' /\ NewParent(r)' = NewParent(r)
    BY <2>1 DEF InTx, NewParent
  <2>3. HasPlace(r)' => HasPlace(r)
    BY <1>1, <2>1, <2>2 DEF HasPlace
  <2>4. Waits(r)' => Clear(req'[r].nodeID, req'[r].target)
    BY <1>1, <1>8, <2>1, GrantedIsClear DEF Waits, Ask
  <2>5. HasPlace(r) =>
           /\ IsKnown(NewParent(r))
           /\ \A p \in Request \ {r} : InTx(p) /\ req[p].op \in Creates =>
                NewParent(r) # req[p].nodeID
    BY DEF AInv, PlacesKnown
  <2> QED
    BY <1>2, <1>3, <1>4, <1>5, <2>1, <2>2, <2>3, <2>4, <2>5, StepOfOne
<1> QED
  BY <1>1, <1>6, <1>7, <1>8

LEMMA WriteRowAcyclic ==
  ASSUME IInv, AInv, NEW r \in Request, WriteRow(r)
  PROVE  AInv'
<1>1. /\ req[r].phase = "open" /\ Others(r) /\ req'[r].phase = "written"
      /\ req'[r].op = req[r].op /\ req'[r].user = req[r].user
      /\ req'[r].target = req[r].target /\ req'[r].nodeID = req[r].nodeID
      /\ req'[r].overtaken = req[r].overtaken /\ req[r].op \notin Creates
  BY WriteRowShape, Parts DEF GoesTo, WriteRow
<1>2. /\ UNCHANGED <<node, parentID, parent, minted>>
      /\ notes' = [notes EXCEPT !.crossed = notes'.crossed]
  BY Parts DEF WriteRow, rowVars, aclVars, RestTyped
<1>3. Kept' <=> Kept
  BY <1>2, Parts DEF Kept, RestTyped
<1>4. RowTops' /\ RowsTold'
  BY <1>1, <1>2, <1>3, RowTopsStay, RowsStayTold, MirroredApart
<1>5. /\ ~ (InTx(r)' /\ req'[r].op \in Creates)
      /\ HasPlace(r)' => HasPlace(r)
      /\ NewParent(r)' = NewParent(r)
      /\ Waits(r)' => Waits(r)
      /\ ~ Spoilt(r)
  BY <1>1 DEF InTx, HasPlace, NewParent, Waits, Spoilt, Asked
<1>6. HasPlace(r) =>
         /\ IsKnown(NewParent(r))
         /\ \A p \in Request \ {r} : InTx(p) /\ req[p].op \in Creates =>
              NewParent(r) # req[p].nodeID
  BY DEF AInv, PlacesKnown
<1>7. Waits(r) => Clear(req[r].nodeID, req[r].target)
  BY DEF AInv, MovesClear
<1> QED
  BY <1>1, <1>2, <1>3, <1>4, <1>5, <1>6, <1>7, StepOfOne

\* A system folder is made: a step that is no request's own.
LEMMA EnsureAcyclic ==
  ASSUME IInv, AInv, NEW u \in User, NEW m \in {Root(u), Trash(u)}, Ensure(u, m)
  PROVE  AInv'
<1>1. /\ node' = node \cup {Root(u), m}
      /\ parentID' = [parentID EXCEPT ![m] = IF m = Root(u) THEN Null ELSE Root(u)]
      /\ UNCHANGED <<parent, req, minted, notes>>
  BY DEF Ensure, aclVars
<1>2. m \in SystemNode /\ parentID \in [NodeID -> NodeID \cup {Null}]
  BY Ids, Parts DEF RowsTyped
<1>3. \A n \in UserNode : parentID'[n] = parentID[n] /\ (n \in node => n \in node')
  BY <1>1, <1>2, Ids
<1>4. RowTops'
  <2>1. ASSUME NEW v \in User
        PROVE  parentID'[Root(v)] = Null /\ parentID'[Trash(v)] \in {Null, Root(v)}
    <3>1. parentID[Root(v)] = Null /\ parentID[Trash(v)] \in {Null, Root(v)}
      BY DEF AInv, RowTops
    <3>2. /\ Root(v) = Root(u) => v = u
          /\ Trash(v) = Trash(u) => v = u
          /\ Root(v) # Trash(u) /\ Trash(v) # Root(u)
      BY DEF Root, Trash, SystemID
    <3>3. Root(v) \in NodeID /\ Trash(v) \in NodeID
      BY Ids
    <3> QED
      BY <1>1, <1>2, <3>1, <3>2, <3>3
  <2> QED
    BY <2>1 DEF RowTops
<1>5. RowsTold'
  BY <1>1, <1>3 DEF AInv, RowsTold, MirroredIn, Kept
<1> QED
  BY <1>1, <1>4, <1>5
  DEF AInv, MovesTold, PlacesKnown, IsKnown, HasPlace, InTx, NewParent, MovesClear,
      Waits, Clear, ParentNoLoop, Kept, Spoilt, NoLoop

LEMMA ShareAcyclic ==
  ASSUME IInv, AInv, NEW n, NEW x, NEW u, Share(n, x, u) \/ Unshare(n, x, u)
  PROVE  AInv'
<1>1. UNCHANGED <<node, parentID, parent, req, minted, notes>>
  BY DEF Share, Unshare, rowVars
<1> QED
  BY <1>1
  DEF AInv, RowTops, RowsTold, MirroredIn, MovesTold, PlacesKnown, IsKnown, HasPlace,
      InTx, NewParent, MovesClear, Waits, Clear, ParentNoLoop, Kept, Spoilt, NoLoop

LEMMA DestroyLinkAcyclic ==
  ASSUME IInv, AInv, NEW r \in Request, DestroyLink(r)
  PROVE  AInv'
<1>1. Others(r) /\ req'[r] = Idle /\ req[r].phase = "open" /\ req[r].op = "softDelete"
  BY EndShape, Parts DEF DestroyLink
<1>2. /\ UNCHANGED <<parent, minted, notes>>
      /\ node' = node \ {req[r].nodeID}
      /\ parentID' = [m \in NodeID |->
                        IF m = req[r].nodeID \/ parentID[m] = req[r].nodeID
                        THEN Null ELSE parentID[m]]
  BY DEF DestroyLink, aclVars
<1>3. Kept' <=> Kept
  BY <1>2 DEF Kept
<1>4. RowTops'
  <2>1. req[r].nodeID \in UserNode
    BY <1>1 DEF IInv, RequestsFit, Fits, Asked
  <2>2. \A n \in SystemNode : n # req[r].nodeID /\ n \in NodeID
    BY <2>1, Ids
  <2>3. \A u \in User : Root(u) \in SystemNode /\ Trash(u) \in SystemNode
                          /\ Root(u) # req[r].nodeID
    BY <2>1, Ids
  <2> QED
    BY <1>2, <2>2, <2>3 DEF AInv, RowTops
<1>5. RowsTold'
  BY <1>1, <1>2, <1>3, Ids, RowsStayTold, MirroredApart
<1> QED
  BY <1>1, <1>2, <1>3, <1>4, <1>5, EndOfOne DEF Spoilt

\* What SpiceDB has of an open move that ends here is torn.
LEMMA RollbackAcyclic ==
  ASSUME IInv, AInv, NEW r \in Request, Rollback(r)
  PROVE  AInv'
<1>1. Others(r) /\ req'[r] = Idle
  BY EndShape, Parts DEF Rollback
<1>2. UNCHANGED <<node, parentID, parent, minted>>
  BY DEF Rollback, rowVars, aclVars
<1>3. /\ Kept' => Kept
      /\ req[r].phase = "mirrored" => ~ Kept'
  BY Parts DEF Rollback, Kept, RestTyped
<1>4. RowTops' /\ RowsTold'
  BY <1>1, <1>2, <1>3, RowTopsStay, RowsStayTold, MirroredApart
<1> QED
  BY <1>1, <1>2, <1>3, <1>4, EndOfOne DEF Spoilt

\* A new id is below and above nothing.
LEMMA WriteNewAcyclic ==
  ASSUME IInv, AInv, NEW r \in Request, WriteNew(r)
  PROVE  AInv'
<1> DEFINE f == FreshID(minted + 1)
<1>1. /\ req[r].phase = "open" /\ Others(r) /\ req'[r].phase = "written"
      /\ req'[r].op = req[r].op /\ req'[r].user = req[r].user
      /\ req'[r].target = req[r].target /\ req'[r].nodeID = f
      /\ f \in UserNode /\ f.of = minted + 1 /\ minted' = minted + 1
      /\ req[r].op \in Creates /\ NewParent(r) \in node
  BY WriteNewShape, Parts DEF GoesTo, WriteNew
<1>2. UNCHANGED <<node, parentID, parent, notes>>
  BY DEF WriteNew, rowVars, aclVars
<1>3. minted \in Nat
  BY Parts DEF RestTyped
<1>4. \A n \in UserNode : n.of \in Nat
  BY FreshIds
<1> HIDE DEF f
<1>5. \A q \in Request \ {r} :
        /\ req'[q] = req[q]
        /\ HasPlace(q)' <=> HasPlace(q)
        /\ InTx(q)' <=> InTx(q)
        /\ NewParent(q)' = NewParent(q)
        /\ Waits(q)' <=> Waits(q)
        /\ Spoilt(q)' <=> Spoilt(q)
  BY <1>1 DEF Others, HasPlace, InTx, NewParent, Waits, Spoilt
<1>6. NewParent(r)' = NewParent(r) /\ ~ Waits(r)' /\ ~ Spoilt(r)' /\ ~ Spoilt(r)
  BY <1>1 DEF NewParent, Waits, Spoilt, Creates
<1>7. RowTops'
  BY <1>2, RowTopsStay
<1>8. RowsTold'
  <2>1. Kept' <=> Kept
    BY <1>2 DEF Kept
  <2> QED
    BY <1>1, <1>2, <2>1, RowsStayTold, MirroredApart
<1>9. MovesTold'
  BY <1>1, <1>2, <1>5 DEF AInv, MovesTold
<1>10. PlacesKnown'
  <2>1. \A n : IsKnown(n) => IsKnown(n)' /\ n # f
    BY <1>1, <1>3, <1>4 DEF IsKnown
  <2>2. IsKnown(NewParent(r))
    BY <1>1 DEF IInv, IdsAreFresh, IsKnown
  <2>3. \A e \in parent : IsKnown(e[1])
    BY DEF AInv, PlacesKnown
  <2>4. (\A e \in parent : IsKnown(e[1]))'
    BY <1>1, <1>2, <1>3, <1>4, <2>3 DEF IsKnown
  <2>5. ASSUME NEW q \in Request, HasPlace(q)'
        PROVE  IsKnown(NewParent(q)) /\ NewParent(q)' = NewParent(q)
    BY <1>5, <1>6, <2>2, <2>5 DEF AInv, PlacesKnown
  <2>6. ASSUME NEW q \in Request, HasPlace(q)' PROVE IsKnown(NewParent(q))'
    BY <1>1, <1>3, <1>4, <2>5, <2>6 DEF IsKnown
  <2>7. ASSUME NEW p \in Request, InTx(p)', req'[p].op \in Creates
        PROVE  /\ \A e \in parent' : e[1] # req'[p].nodeID
               /\ \A q \in Request : HasPlace(q)' => NewParent(q)' # req'[p].nodeID
    <3>1. CASE p = r
      BY <1>1, <1>2, <2>1, <2>3, <2>5, <3>1
    <3>2. CASE p # r
      <4>1. InTx(p) /\ req[p].op \in Creates /\ req'[p].nodeID = req[p].nodeID
        BY <1>5, <2>7, <3>2
      <4>2. NewParent(r) # req[p].nodeID
        BY <1>1, <4>1 DEF IInv, NewIsAlone
      <4>3. \A e \in parent : e[1] # req[p].nodeID
        BY <4>1 DEF AInv, PlacesKnown
      <4>4. \A q \in Request \ {r} : HasPlace(q) => NewParent(q) # req[p].nodeID
        BY <4>1 DEF AInv, PlacesKnown
      <4> QED
        BY <1>2, <1>5, <1>6, <4>1, <4>2, <4>3, <4>4
    <3> QED
      BY <3>1, <3>2
  <2> QED
    BY <2>4, <2>6, <2>7 DEF PlacesKnown
<1>11. MovesClear'
  BY <1>2, <1>5, <1>6 DEF AInv, MovesClear, Clear
<1>12. ParentNoLoop'
  BY <1>2, <1>5, <1>6 DEF AInv, ParentNoLoop, NoLoop, Kept
<1> QED
  BY <1>7, <1>8, <1>9, <1>10, <1>11, <1>12 DEF AInv

-----------------------------------------------------------------------------
(* Steps that write relations *)

\* What becomes of the relation parent when r writes SpiceDB.
LEMMA ParentStep ==
  ASSUME IInv, AInv, NEW r \in Request, req[r].phase = "written", WriteAcl(r),
         NEW n, n = req[r].nodeID, NEW p, p = NewParent(r)
  PROVE  /\ n \in UserNode /\ n \in NodeID /\ p \in NodeID
         /\ parent \in SUBSET (NodeID \X NodeID)
         /\ \A e \in parent' : e \in parent \/ e = <<p, n>>
         /\ \A e \in parent' \ parent : HasPlace(r)
         /\ req[r].op # "move" => parent \subseteq parent'
         /\ req[r].op \notin Creates \cup {"move"} => parent' = parent
         /\ req[r].op = "move" =>
              /\ req[r].target # Null /\ p = req[r].target
              /\ <<p, n>> \in parent'
              /\ \A e \in parent \ parent' : e[2] = n
<1>1. n \in UserNode /\ n \in NodeID /\ req[r].user \in User
  BY Ids DEF IInv, RequestsFit, Fits
<1>2. req[r].target \in NodeID \cup {Null}
  BY Parts DEF ReqsTyped, RequestRecord
<1>3. p \in NodeID
  BY <1>1, <1>2, Ids DEF NewParent
<1>4. parent \in SUBSET (NodeID \X NodeID)
  BY Ids, Parts DEF AclTyped
<1>5. CASE GrantNode(r)
  <2>1. req[r].op \in Creates /\ parent' = parent \cup {<<p, n>>}
    BY <1>5 DEF GrantNode
  <2>2. HasPlace(r)
    BY <2>1 DEF HasPlace, InTx
  <2> QED
    BY <1>1, <1>3, <1>4, <2>1, <2>2 DEF Creates
<1>6. CASE ChangeParent(r)
  <2>1. /\ req[r].op = "move" /\ req[r].target # Null /\ p = req[r].target
        /\ parent' = (parent \ {<<req[r].seenParent, n>>}) \cup {<<p, n>>}
    BY <1>6 DEF ChangeParent, Reparented, NewParent
  <2>2. HasPlace(r)
    BY <2>1 DEF HasPlace, Asked
  <2> QED
    BY <1>1, <1>3, <1>4, <2>1, <2>2 DEF Creates
<1>7. CASE SwitchInherit(r) \/ MarkTrashed(r)
  <2>1. req[r].op \notin Creates \cup {"move"} /\ parent' = parent
    BY <1>7 DEF SwitchInherit, MarkTrashed, Creates
  <2> QED
    BY <1>1, <1>3, <1>4, <2>1 DEF Creates
<1> QED
  BY <1>5, <1>6, <1>7 DEF WriteAcl

\* What the other requests keep.
LEMMA OthersAcyclic ==
  ASSUME IInv, AInv, NEW r \in Request, req[r].phase = "written", WriteAcl(r),
         OthersTold(r), UNCHANGED <<rowVars, minted>>
  PROVE  /\ \A q \in Request \ {r} :
              /\ req'[q].op = req[q].op /\ req'[q].nodeID = req[q].nodeID
              /\ req'[q].phase = req[q].phase /\ req'[q].target = req[q].target
              /\ HasPlace(q)' <=> HasPlace(q)
              /\ InTx(q)' <=> InTx(q)
              /\ NewParent(q)' = NewParent(q)
              /\ Spoilt(q) => Spoilt(q)'
              /\ Waits(q)' => Clear(req[q].nodeID, req[q].target)'
              /\ req[q].phase = "mirrored" /\ req[q].op = "move" =>
                   <<req[q].target, req[q].nodeID>> \in parent'
         /\ RowTops'
         /\ (\A e \in parent : IsKnown(e[1]))'
         /\ \A p \in Request : InTx(p) /\ req[p].op \in Creates =>
              \A e \in parent' : e[1] # req[p].nodeID
<1>1. PICK n, t : n = req[r].nodeID /\ t = NewParent(r)
  OBVIOUS
<1>2. /\ n \in UserNode /\ n \in NodeID /\ t \in NodeID
      /\ parent \in SUBSET (NodeID \X NodeID)
      /\ \A e \in parent' : e \in parent \/ e = <<t, n>>
      /\ \A e \in parent' \ parent : HasPlace(r)
      /\ req[r].op # "move" => parent \subseteq parent'
      /\ req[r].op \notin Creates \cup {"move"} => parent' = parent
      /\ req[r].op = "move" =>
           /\ req[r].target # Null /\ t = req[r].target
           /\ <<t, n>> \in parent'
           /\ \A e \in parent \ parent' : e[2] = n
  BY <1>1, ParentStep
<1>3. UNCHANGED <<node, parentID, minted>>
  BY DEF rowVars
<1>4. ASSUME NEW q \in Request \ {r}
      PROVE  /\ req'[q].op = req[q].op /\ req'[q].nodeID = req[q].nodeID
             /\ req'[q].phase = req[q].phase /\ req'[q].target = req[q].target
             /\ req'[q].user = req[q].user
             /\ req'[q].overtaken = (req[q].overtaken \/ Overtakes(r, q))
  BY DEF OthersTold, Stays
<1>5. ASSUME NEW q \in Request \ {r}
      PROVE  /\ HasPlace(q)' <=> HasPlace(q)
             /\ InTx(q)' <=> InTx(q)
             /\ NewParent(q)' = NewParent(q)
             /\ Spoilt(q) => Spoilt(q)'
             /\ Waits(q)' => Waits(q) /\ ~ Overtakes(r, q)
  BY <1>4 DEF HasPlace, InTx, NewParent, Spoilt, Waits
<1>6. ASSUME NEW q \in Request \ {r}, Waits(q)'
      PROVE  Clear(req[q].nodeID, req[q].target)'
  <2>1. Waits(q) /\ ~ Overtakes(r, q)
    BY <1>5, <1>6
  <2>2. req[r].op # "move"
    BY <2>1 DEF Waits, Overtakes
  <2>3. PICK A \in SUBSET NodeID :
          req[q].target \in A /\ req[q].nodeID \notin A /\ Closed(A, parent)
    BY <2>1 DEF AInv, MovesClear, Clear
  <2>4. CASE parent' = parent
    BY <1>4, <2>3, <2>4 DEF Clear
  <2>5. CASE parent' # parent
    <3>1. req[r].op \in Creates /\ InTx(r)
      BY <1>2, <2>2, <2>5 DEF InTx
    <3>2. \A e \in parent : e[1] # n
      BY <1>1, <3>1 DEF AInv, PlacesKnown
    <3>3. HasPlace(q) /\ NewParent(q) = req[q].target
      BY <2>1 DEF HasPlace, Waits, Asked, NewParent
    <3>4. req[q].target # n
      BY <1>1, <3>1, <3>3 DEF AInv, PlacesKnown
    <3> DEFINE B == A \ {n}
    <3>5. Closed(B, parent')
      BY <1>2, <2>3, <3>2 DEF Closed
    <3>6. B \in SUBSET NodeID /\ req[q].target \in B /\ req[q].nodeID \notin B
      BY <2>3, <3>4
    <3> HIDE DEF B
    <3> QED
      BY <1>4, <3>5, <3>6 DEF Clear
  <2> QED
    BY <2>4, <2>5
<1>7. ASSUME NEW q \in Request \ {r}, req[q].phase = "mirrored", req[q].op = "move"
      PROVE  <<req[q].target, req[q].nodeID>> \in parent'
  <2>1. <<req[q].target, req[q].nodeID>> \in parent
    BY <1>7 DEF AInv, MovesTold
  <2>2. req[r].op = "move" => req[q].nodeID # n
    BY <1>1, <1>7 DEF IInv, Locks, InTx, WritesRow
  <2> QED
    BY <1>2, <2>1, <2>2
<1>8. RowTops'
  BY <1>3, RowTopsStay
<1>9. HasPlace(r) =>
         /\ IsKnown(t)
         /\ \A p \in Request : InTx(p) /\ req[p].op \in Creates => t # req[p].nodeID
  BY <1>1 DEF AInv, PlacesKnown
<1>10. (\A e \in parent : IsKnown(e[1]))'
  <2>1. \A e \in parent' : IsKnown(e[1])
    BY <1>2, <1>9 DEF AInv, PlacesKnown
  <2> QED
    BY <1>3, <2>1 DEF IsKnown
<1>11. \A p \in Request : InTx(p) /\ req[p].op \in Creates =>
         \A e \in parent' : e[1] # req[p].nodeID
  BY <1>2, <1>9 DEF AInv, PlacesKnown
<1> QED
  BY <1>4, <1>5, <1>6, <1>7, <1>8, <1>10, <1>11

\* The loops a step on SpiceDB can close are those of a move that was overtaken.
LEMMA MirrorNoLoop ==
  ASSUME IInv, AInv, NEW r \in Request, req[r].phase = "written", WriteAcl(r),
         NoLoop(parent), req[r].op = "move" => ~ req[r].overtaken
  PROVE  NoLoop(parent')
<1>1. PICK n, t : n = req[r].nodeID /\ t = NewParent(r)
  OBVIOUS
<1>2. /\ n \in NodeID /\ t \in NodeID
      /\ parent \in SUBSET (NodeID \X NodeID)
      /\ \A e \in parent' : e \in parent \/ e = <<t, n>>
      /\ req[r].op \notin Creates \cup {"move"} => parent' = parent
      /\ req[r].op = "move" => req[r].target # Null /\ t = req[r].target
  BY <1>1, ParentStep
<1>3. CASE parent' = parent
  BY <1>3
<1>4. CASE req[r].op \in Creates
  <2>1. InTx(r) /\ HasPlace(r)
    BY <1>4 DEF InTx, HasPlace
  <2>2. (\A e \in parent : e[1] # n) /\ t # n
    BY <1>1, <1>4, <2>1 DEF AInv, PlacesKnown
  <2> DEFINE A == NodeID \ {n}
  <2>3. Closed(A, parent)
    BY <1>2, <2>2 DEF Closed
  <2>4. A \in SUBSET NodeID /\ t \in A /\ n \in NodeID \ A
    BY <1>2, <2>2
  <2> HIDE DEF A
  <2> QED
    BY <1>2, <2>3, <2>4, NoLoopBelow
<1>5. CASE req[r].op = "move"
  <2>1. Waits(r)
    BY <1>2, <1>5 DEF Waits
  <2>2. PICK A \in SUBSET NodeID : t \in A /\ n \notin A /\ Closed(A, parent)
    BY <1>1, <1>2, <1>5, <2>1 DEF AInv, MovesClear, Clear
  <2> QED
    BY <1>2, <2>2, NoLoopBelow
<1> QED
  BY <1>2, <1>3, <1>4, <1>5

LEMMA MirrorAcyclic ==
  ASSUME IInv, AInv, NEW r \in Request, Mirror(r)
  PROVE  AInv'
<1>1. /\ req[r].phase = "written" /\ OthersTold(r) /\ req'[r].phase = "mirrored"
      /\ req'[r].op = req[r].op /\ req'[r].nodeID = req[r].nodeID
      /\ req'[r].target = req[r].target /\ req'[r].user = req[r].user
      /\ req'[r].overtaken = req[r].overtaken
  BY MirrorShape, Parts DEF Stays
<1>2. WriteAcl(r) /\ UNCHANGED <<rowVars, minted, notes>> /\ UNCHANGED <<node, parentID>>
  BY DEF Mirror, rowVars
<1>3. /\ \A q \in Request \ {r} :
           /\ req'[q].op = req[q].op /\ req'[q].nodeID = req[q].nodeID
           /\ req'[q].phase = req[q].phase /\ req'[q].target = req[q].target
           /\ HasPlace(q)' <=> HasPlace(q)
           /\ InTx(q)' <=> InTx(q)
           /\ NewParent(q)' = NewParent(q)
           /\ Spoilt(q) => Spoilt(q)'
           /\ Waits(q)' => Clear(req[q].nodeID, req[q].target)'
           /\ req[q].phase = "mirrored" /\ req[q].op = "move" =>
                <<req[q].target, req[q].nodeID>> \in parent'
      /\ RowTops'
      /\ (\A e \in parent : IsKnown(e[1]))'
      /\ \A p \in Request : InTx(p) /\ req[p].op \in Creates =>
           \A e \in parent' : e[1] # req[p].nodeID
  BY <1>1, <1>2, OthersAcyclic
<1>4. /\ HasPlace(r)' <=> HasPlace(r)
      /\ InTx(r) /\ InTx(r)'
      /\ NewParent(r)' = NewParent(r)
      /\ ~ Spoilt(r) /\ ~ Waits(r)'
      /\ Spoilt(r)' <=> req[r].op = "move" /\ req[r].overtaken
  BY <1>1 DEF HasPlace, InTx, NewParent, Spoilt, Waits, Asked
<1>5. PICK n, t : n = req[r].nodeID /\ t = NewParent(r)
  OBVIOUS
<1>6. req[r].op = "move" => t = req[r].target /\ <<t, n>> \in parent'
                              /\ \A e \in parent \ parent' : e[2] = n
  BY <1>1, <1>2, <1>5, ParentStep
<1>7. req[r].op # "move" => parent \subseteq parent'
  BY <1>1, <1>2, <1>5, ParentStep
<1>8. \A m : MirroredIn(m, {"move"}) => MirroredIn(m, {"move"})'
  BY <1>1, <1>3 DEF MirroredIn
<1>9. RowsTold'
  <2>1. req[r].op = "move" => MirroredIn(n, {"move"})'
    BY <1>1, <1>5 DEF MirroredIn
  <2>2. \A m \in UserNode : <<parentID[m], m>> \in parent =>
          <<parentID[m], m>> \in parent' \/ MirroredIn(m, {"move"})'
    BY <1>6, <1>7, <2>1
  <2> QED
    BY <1>2, <1>8, <2>2 DEF AInv, RowsTold, Kept
<1>10. MovesTold'
  BY <1>1, <1>3, <1>5, <1>6 DEF MovesTold
<1>11. PlacesKnown'
  <2>1. ASSUME NEW q \in Request, HasPlace(q)' PROVE IsKnown(NewParent(q))'
    <3>1. IsKnown(NewParent(q)) /\ NewParent(q)' = NewParent(q)
      BY <1>3, <1>4, <2>1 DEF AInv, PlacesKnown
    <3> QED
      BY <1>2, <3>1 DEF IsKnown
  <2>2. ASSUME NEW p \in Request, InTx(p)', req'[p].op \in Creates
        PROVE  /\ \A e \in parent' : e[1] # req'[p].nodeID
               /\ \A q \in Request : HasPlace(q)' => NewParent(q)' # req'[p].nodeID
    <3>1. InTx(p) /\ req[p].op \in Creates /\ req'[p].nodeID = req[p].nodeID
      BY <1>1, <1>3, <1>4, <2>2
    <3>2. \A q \in Request : HasPlace(q) => NewParent(q) # req[p].nodeID
      BY <3>1 DEF AInv, PlacesKnown
    <3> QED
      BY <1>3, <1>4, <3>1, <3>2
  <2> QED
    BY <1>3, <2>1, <2>2 DEF PlacesKnown
<1>12. MovesClear'
  <2>1. ASSUME NEW q \in Request, Waits(q)'
        PROVE  Clear(req[q].nodeID, req[q].target)'
    BY <1>3, <1>4, <2>1
  <2> QED
    BY <2>1 DEF MovesClear
<1>13. ParentNoLoop'
  <2>1. ASSUME Kept', \A q \in Request : ~ Spoilt(q)'
        PROVE  NoLoop(parent')
    <3>1. Kept /\ \A q \in Request : ~ Spoilt(q)
      BY <1>2, <1>3, <1>4, <2>1 DEF Kept
    <3>2. NoLoop(parent)
      BY <3>1 DEF AInv, ParentNoLoop
    <3> QED
      BY <1>1, <1>2, <1>4, <2>1, <3>2, MirrorNoLoop
  <2> QED
    BY <2>1 DEF ParentNoLoop, NoLoop
<1> QED
  BY <1>3, <1>9, <1>10, <1>11, <1>12, <1>13 DEF AInv

LEMMA MirrorLostAcyclic ==
  ASSUME IInv, AInv, NEW r \in Request, MirrorLost(r)
  PROVE  AInv'
<1>1. req[r].phase = "written" /\ OthersTold(r) /\ req'[r] = Idle
  BY MirrorLostShape, Parts
<1>2. WriteAcl(r) /\ UNCHANGED <<rowVars, minted>>
  BY DEF MirrorLost
<1>3. ~ Kept'
  BY Parts DEF MirrorLost, Kept, RestTyped
<1>4. /\ \A q \in Request \ {r} :
           /\ req'[q].op = req[q].op /\ req'[q].nodeID = req[q].nodeID
           /\ req'[q].phase = req[q].phase /\ req'[q].target = req[q].target
           /\ HasPlace(q)' <=> HasPlace(q)
           /\ InTx(q)' <=> InTx(q)
           /\ NewParent(q)' = NewParent(q)
           /\ Spoilt(q) => Spoilt(q)'
           /\ Waits(q)' => Clear(req[q].nodeID, req[q].target)'
           /\ req[q].phase = "mirrored" /\ req[q].op = "move" =>
                <<req[q].target, req[q].nodeID>> \in parent'
      /\ RowTops'
      /\ (\A e \in parent : IsKnown(e[1]))'
      /\ \A p \in Request : InTx(p) /\ req[p].op \in Creates =>
           \A e \in parent' : e[1] # req[p].nodeID
  BY <1>1, <1>2, OthersAcyclic
<1>5. /\ ~ HasPlace(r)' /\ ~ InTx(r)' /\ ~ Waits(r)' /\ req'[r].phase = "idle"
  BY <1>1, IdleFits DEF HasPlace, InTx, Waits, Asked
<1>6. RowsTold' /\ ParentNoLoop'
  BY <1>3 DEF RowsTold, ParentNoLoop
<1>7. MovesTold'
  BY <1>4, <1>5 DEF MovesTold
<1>8. PlacesKnown'
  <2>1. ASSUME NEW q \in Request, HasPlace(q)' PROVE IsKnown(NewParent(q))'
    <3>1. IsKnown(NewParent(q)) /\ NewParent(q)' = NewParent(q)
      BY <1>4, <1>5, <2>1 DEF AInv, PlacesKnown
    <3> QED
      BY <1>2, <3>1 DEF IsKnown
  <2>2. ASSUME NEW p \in Request, InTx(p)', req'[p].op \in Creates
        PROVE  /\ \A e \in parent' : e[1] # req'[p].nodeID
               /\ \A q \in Request : HasPlace(q)' => NewParent(q)' # req'[p].nodeID
    <3>1. InTx(p) /\ req[p].op \in Creates /\ req'[p].nodeID = req[p].nodeID
      BY <1>4, <1>5, <2>2
    <3>2. \A q \in Request : HasPlace(q) => NewParent(q) # req[p].nodeID
      BY <3>1 DEF AInv, PlacesKnown
    <3> QED
      BY <1>4, <1>5, <3>1, <3>2
  <2> QED
    BY <1>4, <2>1, <2>2 DEF PlacesKnown
<1>9. MovesClear'
  <2>1. ASSUME NEW q \in Request, Waits(q)'
        PROVE  Clear(req[q].nodeID, req[q].target)'
    BY <1>4, <1>5, <2>1
  <2> QED
    BY <2>1 DEF MovesClear
<1> QED
  BY <1>4, <1>6, <1>7, <1>8, <1>9 DEF AInv

\* A commit writes to the row what SpiceDB has been told, or the trash.
LEMMA CommitAcyclic ==
  ASSUME IInv, AInv, NEW r \in Request, Commit(r)
  PROVE  AInv'
<1>1. PICK n : n = req[r].nodeID
  OBVIOUS
<1>2. /\ InTx(r) /\ Others(r) /\ req'[r] = Idle
      /\ UNCHANGED <<parent, minted>> /\ notes'.torn = notes.torn
      /\ req[r].op # "purge" => req[r].phase = "mirrored"
      /\ req[r].op = "purge" => req[r].phase = "written"
      /\ n \in UserNode /\ n \in NodeID
  BY <1>1, CommitShape
<1>3. /\ notes.raced => notes'.raced
      /\ req[r].op = "move" /\ req[r].overtaken => notes'.raced
  BY Parts DEF Commit, RestTyped
<1>4. /\ Kept' => Kept
      /\ Spoilt(r) => ~ Kept'
  BY <1>2, <1>3 DEF Kept, Spoilt
<1>5. parentID \in [NodeID -> NodeID \cup {Null}] /\ UserNode \subseteq NodeID
  BY Parts, Ids DEF RowsTyped
<1>6. /\ \A m \in NodeID : m # n => parentID'[m] = parentID[m]
      /\ node \subseteq node'
  BY <1>1, <1>2, <1>5
  DEF Commit, CommitNew, CommitMove, CommitUpdate, CommitSoftDelete,
      CommitRestore, CommitPurge, rowVars
<1>7. RowTops'
  BY <1>2, <1>6, Ids, RowTopsStay
<1>8. ASSUME Kept'
      PROVE  \/ parentID'[n] \in {Null} \cup TrashNode
             \/ n \in node' /\ <<parentID'[n], n>> \in parent
             \/ parentID'[n] = parentID[n] /\ req[r].op # "move"
  <2>1. CASE CommitNew(r)
    <3>1. /\ req[r].op \in Creates /\ node' = node \cup {n}
          /\ parentID'[n] = NewParent(r)
      BY <1>1, <1>2, <1>5, <2>1 DEF CommitNew
    <3>2. Par(n) = {NewParent(r)}
      BY <1>1, <1>2, <3>1 DEF IInv, NewIsAlone, Creates
    <3> QED
      BY <3>1, <3>2 DEF Par
  <2>2. CASE CommitMove(r)
    <3>1. /\ req[r].op = "move" /\ node' = node
          /\ parentID'[n] = IF n \in node THEN req[r].target ELSE parentID[n]
      BY <1>1, <1>2, <1>5, <2>2 DEF CommitMove
    <3>2. <<req[r].target, n>> \in parent
      BY <1>1, <1>2, <3>1 DEF AInv, MovesTold
    <3>3. n \notin node => parentID[n] \in {Null} \cup TrashNode
      BY <1>2, <1>4, <1>8 DEF AInv, RowsTold
    <3> QED
      BY <3>1, <3>2, <3>3
  <2>3. CASE CommitUpdate(r) \/ CommitPurge(r)
    BY <2>3 DEF CommitUpdate, CommitPurge, rowVars
  <2>4. CASE CommitSoftDelete(r)
    <3>1. parentID'[n] = Trash(req[r].user)
      BY <1>1, <1>2, <1>5, <2>4 DEF CommitSoftDelete
    <3>2. req[r].user \in User
      BY CommitShape
    <3> QED
      BY <3>1, <3>2, Ids
  <2>5. CASE CommitRestore(r)
    BY <1>1, <1>2, <1>5, <2>5 DEF CommitRestore
  <2> QED
    BY <2>1, <2>2, <2>3, <2>4, <2>5 DEF Commit
<1>9. RowsTold'
  <2>1. ASSUME Kept', NEW m \in UserNode
        PROVE  \/ parentID'[m] \in {Null} \cup TrashNode
               \/ /\ m \in node'
                  /\ <<parentID'[m], m>> \in parent' \/ MirroredIn(m, {"move"})'
    <3>1. \/ parentID[m] \in {Null} \cup TrashNode
          \/ m \in node /\ (<<parentID[m], m>> \in parent \/ MirroredIn(m, {"move"}))
      BY <1>4, <2>1 DEF AInv, RowsTold
    <3>2. MirroredIn(m, {"move"}) =>
            MirroredIn(m, {"move"})' \/ (req[r].op = "move" /\ m = n)
      BY <1>1, <1>2, MirroredApart
    <3>3. CASE m # n
      BY <1>2, <1>5, <1>6, <3>1, <3>2, <3>3
    <3>4. CASE m = n
      BY <1>2, <1>6, <1>8, <2>1, <3>1, <3>2, <3>4
    <3> QED
      BY <3>3, <3>4
  <2> QED
    BY <2>1 DEF RowsTold
<1> QED
  BY <1>2, <1>4, <1>7, <1>9, EndOfOne

-----------------------------------------------------------------------------
(* The invariant *)

\* Every node of a seed is under one that came before it.
LEMMA InitAcyclic == Init => AInv
<1> SUFFICES ASSUME Init PROVE AInv
  OBVIOUS
<1>1. PICK s \in Seed : Seeded(s)
  BY DEF Init
<1>2. /\ s \in Seq([by : User, type : {"folder", "file", "link"}, under : Nat])
      /\ Len(s) <= MaxNode
      /\ \A i \in 1 .. Len(s) : s[i].under < i
  BY SeedAssumption
<1>3. Len(s) \in Nat /\ \A i \in 1 .. Len(s) : s[i].under \in Nat /\ s[i].by \in User
  <2> DEFINE R == [by : User, type : {"folder", "file", "link"}, under : Nat]
  <2>1. s \in Seq(R)
    BY <1>2
  <2>2. \A x \in R : x.under \in Nat /\ x.by \in User
    OBVIOUS
  <2> HIDE DEF R
  <2>3. Len(s) \in Nat /\ \A i \in 1 .. Len(s) : s[i] \in R
    BY <2>1
  <2> QED
    BY <2>2, <2>3
<1> DEFINE ids == {FreshID(i) : i \in 1 .. Len(s)}
           under(n) == IF s[n.of].under = 0 THEN Root(s[n.of].by)
                       ELSE FreshID(s[n.of].under)
<1>4. /\ node = ids \cup {Root(s[i].by) : i \in 1 .. Len(s)}
      /\ parentID = [n \in NodeID |-> IF n \in ids THEN under(n) ELSE Null]
      /\ parent = {<<under(n), n>> : n \in ids}
      /\ minted = Len(s)
  BY <1>1 DEF Seeded
<1>5. \A n \in ids : /\ n \in UserNode /\ n \in NodeID
                     /\ n.of \in 1 .. Len(s) /\ n = FreshID(n.of)
  <2>1. \A i \in 1 .. Len(s) : i \in 1 .. MaxNode
    BY <1>2, <1>3, BoundAssumption
  <2> QED
    BY <2>1, FreshIds, Ids
<1>6. ASSUME NEW n \in ids
      PROVE  \/ \E u \in User : under(n) = Root(u)
             \/ /\ under(n) \in UserNode /\ under(n).of < n.of
                /\ under(n).of \in Nat
  <2>1. n.of \in 1 .. Len(s) /\ s[n.of].under \in Nat /\ s[n.of].under < n.of
    BY <1>2, <1>3, <1>5
  <2>2. CASE s[n.of].under = 0
    BY <1>3, <2>1, <2>2
  <2>3. CASE s[n.of].under # 0
    <3>1. s[n.of].under \in 1 .. MaxNode
      BY <1>2, <1>3, <2>1, <2>3, BoundAssumption
    <3> QED
      BY <2>1, <2>3, <3>1, FreshIds
  <2> QED
    BY <2>2, <2>3
<1> HIDE DEF ids, under
<1>7. \A r \in Request : req[r] = Idle
  BY DEF Init
<1>8. \A r \in Request :
        /\ ~ InTx(r) /\ ~ HasPlace(r) /\ ~ Waits(r) /\ req[r].phase = "idle"
  BY <1>7, IdleFits DEF InTx, HasPlace, Waits, Asked
<1>9. RowTops
  <2>1. \A u \in User : /\ Root(u) \in NodeID /\ Trash(u) \in NodeID
                        /\ Root(u) \notin ids /\ Trash(u) \notin ids
    BY <1>5, Ids
  <2> QED
    BY <1>4, <2>1 DEF RowTops
<1>10. RowsTold
  <2>1. \A n \in UserNode : n \in NodeID
    BY Ids
  <2> QED
    BY <1>4, <2>1 DEF RowsTold
<1>11. MovesTold /\ MovesClear
  BY <1>8 DEF MovesTold, MovesClear
<1>12. PlacesKnown
  <2>1. ASSUME NEW n \in ids PROVE IsKnown(under(n))
    <3>1. CASE under(n) \notin UserNode
      BY <3>1 DEF IsKnown
    <3>2. CASE under(n) \in UserNode
      <4>1. under(n).of < n.of /\ under(n).of \in Nat
        BY <1>6, <3>2, Ids
      <4> QED
        BY <1>3, <1>4, <1>5, <4>1 DEF IsKnown
    <3> QED
      BY <3>1, <3>2
  <2> QED
    BY <1>4, <1>8, <2>1 DEF PlacesKnown
<1>13. NoLoop(parent)
  <2> SUFFICES ASSUME NEW S \in SUBSET NodeID, S # {},
                      \A n \in S : \E p \in S : <<p, n>> \in parent
               PROVE  FALSE
    BY DEF NoLoop
  <2>1. ASSUME NEW n \in S
        PROVE  n \in ids /\ under(n) \in S
    <3>1. PICK p \in S : <<p, n>> \in parent
      OBVIOUS
    <3>2. PICK m \in ids : <<p, n>> = <<under(m), m>>
      BY <1>4, <3>1
    <3> QED
      BY <3>1, <3>2
  <2> DEFINE T == {n.of : n \in S}
  <2>2. T \in SUBSET Nat /\ T # {}
    BY <1>5, <2>1
  <2>3. PICK k \in T : \A j \in T : k <= j
    <3> HIDE DEF T
    <3> QED
      BY <2>2, Least
  <2>4. PICK n \in S : n.of = k
    OBVIOUS
  <2>5. n \in ids /\ under(n) \in S /\ under(n) \in ids
    BY <2>1
  <2>6. under(n).of < n.of /\ under(n).of \in Nat /\ n.of \in Nat
    BY <1>5, <1>6, <2>5, Ids
  <2>7. n.of <= under(n).of
    BY <2>3, <2>4, <2>5
  <2> QED
    BY <2>6, <2>7
<1> QED
  BY <1>9, <1>10, <1>11, <1>12, <1>13 DEF AInv, ParentNoLoop

LEMMA NextAcyclic == IInv /\ AInv /\ [Next]_vars => AInv'
<1> SUFFICES ASSUME IInv, AInv, [Next]_vars PROVE AInv'
  OBVIOUS
<1>1. CASE UNCHANGED vars
  BY <1>1
  DEF vars, rowVars, aclVars, AInv, RowTops, RowsTold, MirroredIn, MovesTold,
      PlacesKnown, IsKnown, HasPlace, InTx, NewParent, MovesClear, Waits, Clear,
      ParentNoLoop, Kept, Spoilt, NoLoop
<1>2. ASSUME NEW r \in Request, Step(r) PROVE AInv'
  <2>1. CASE EnsureRoot(r)
    <3>1. req[r].user \in User /\ Ensure(req[r].user, Root(req[r].user))
      BY <2>1 DEF EnsureRoot, NeedsRoot, IInv, RequestsFit, Fits
    <3> QED
      BY <3>1, EnsureAcyclic
  <2>2. CASE EnsureTrash(r)
    <3>1. req[r].user \in User /\ Ensure(req[r].user, Trash(req[r].user))
      BY <2>2 DEF EnsureTrash, IInv, RequestsFit, Fits
    <3> QED
      BY <3>1, EnsureAcyclic
  <2> QED
    BY <1>2, <2>1, <2>2, LookAcyclic, AskAcyclic, RefuseAcyclic, WriteRowAcyclic,
       WriteNewAcyclic, DestroyLinkAcyclic, MirrorAcyclic, MirrorLostAcyclic,
       RollbackAcyclic, CommitAcyclic
    DEF Step
<1> QED
  BY <1>1, <1>2, BeginAcyclic, ShareAcyclic DEF Next

LEMMA AcyclicInvariance == Spec => [](IInv /\ AInv)
<1>1. Init => IInv /\ AInv
  BY InitIInv, InitAcyclic
<1>2. IInv /\ AInv /\ [Next]_vars => (IInv /\ AInv)'
  BY NextIInv, NextAcyclic
<1> QED
  BY <1>1, <1>2, PTL DEF Spec

\* Once the moves have ended no created node is below itself, whatever moves,
\* creations, deletions and restores ran at the same time, unless a move
\* committed on an answer of SpiceDB that another had overtaken, or SpiceDB has
\* kept what was rolled back.
THEOREM AcyclicCorrect == Spec => []Acyclic
<1>1. IInv /\ AInv => Acyclic
  <2> SUFFICES ASSUME IInv, AInv, MovesEnded, NEW n \in Created
               PROVE  n \notin Above(n)
    BY DEF Acyclic
  <2>1. Kept /\ (\A r \in Request : ~ Spoilt(r)) /\ (\A m : ~ MirroredIn(m, {"move"}))
    BY DEF MovesEnded, Kept, Spoilt, MirroredIn, InTx
  <2>2. NoLoop(RowEdges)
    BY <2>1, RowsHaveNoLoop DEF AInv, ParentNoLoop
  <2>3. n \in NodeID
    BY Ids DEF Created
  <2> QED
    BY <2>2, <2>3, Parts, NoneAboveItself
<1> QED
  BY <1>1, AcyclicInvariance, PTL

-----------------------------------------------------------------------------
(* The permissions *)

\* A permission is inherited with the base and lost with what bars it.
LEMMA InheritedGrows ==
  ASSUME AclTyped,
         NEW base \in SUBSET NodeID, NEW more \in SUBSET NodeID, base \subseteq more,
         NEW barred, NEW less \in SUBSET barred
  PROVE  /\ base \ barred \subseteq Inherited(base, barred)
         /\ Inherited(base, barred) \subseteq Inherited(more, less)
         /\ Inherited(base, barred) \subseteq NodeID
<1> DEFINE few == {d \in parent : d[2] \notin barred}
           all == {d \in parent : d[2] \notin less}
<1>1. parent \subseteq NodeID \X NodeID
  BY Ids DEF AclTyped
<1>2. few \in SUBSET (NodeID \X NodeID) /\ all \in SUBSET (NodeID \X NodeID)
  BY <1>1
<1>3. few \subseteq all
  OBVIOUS
<1>4. /\ Inherited(base, barred) = Reach(base, few) \ barred
      /\ Inherited(more, less) = Reach(more, all) \ less
  BY DEF Inherited
<1> HIDE DEF few, all
<1>5. /\ base \subseteq Reach(base, few) /\ Reach(base, few) \subseteq NodeID
      /\ \A S : base \subseteq S /\ Closed(S, few) => Reach(base, few) \subseteq S
  BY <1>2, ReachIsLeast
<1>6. more \subseteq Reach(more, all) /\ Closed(Reach(more, all), all)
  BY <1>2, ReachIsLeast
<1>7. Closed(Reach(more, all), few)
  BY <1>3, <1>6 DEF Closed
<1>8. Reach(base, few) \subseteq Reach(more, all)
  BY <1>5, <1>6, <1>7
<1> QED
  BY <1>4, <1>5, <1>8

\* Whoever may edit a node may view it, and whoever may delete one that is not
\* blocked may edit it, whatever was granted, inherited or put in the trash.
THEOREM PermissionsNest ==
  Spec => [](\A u \in User : /\ Editable(u) \subseteq Viewable(u)
                             /\ Deletable(u) \ blocked \subseteq Editable(u))
<1> DEFINE Nest == \A u \in User : /\ Editable(u) \subseteq Viewable(u)
                                   /\ Deletable(u) \ blocked \subseteq Editable(u)
<1>1. IInv => Nest
  <2> SUFFICES ASSUME IInv, NEW u \in User
               PROVE  /\ Editable(u) \subseteq Viewable(u)
                      /\ Deletable(u) \ blocked \subseteq Editable(u)
    OBVIOUS
  <2> DEFINE own == RecursiveOwned(u)
             edit == own \cup HasRole(u, {"editor", "manager"})
             view == own \cup HasRole(u, {"reader", "editor", "manager"})
  <2>1. AclTyped
    BY Parts
  <2>2. Owned(u) \in SUBSET NodeID
    BY DEF Owned
  <2>3. own \in SUBSET NodeID /\ Owned(u) \subseteq own
    BY <2>1, <2>2, InheritedGrows DEF RecursiveOwned
  <2>4. /\ HasRole(u, {"reader", "editor", "manager"}) \in SUBSET NodeID
        /\ HasRole(u, {"editor", "manager"}) \in SUBSET NodeID
        /\ HasRole(u, {"editor", "manager"}) \subseteq
             HasRole(u, {"reader", "editor", "manager"})
        /\ HasRole(u, {"manager"}) \subseteq HasRole(u, {"editor", "manager"})
    BY DEF HasRole
  <2>5. /\ Viewable(u) = Inherited(view, blocked)
        /\ Editable(u) = Inherited(edit, blocked \cup InTrash)
        /\ Deletable(u) \subseteq edit \ InTrash
    BY <2>3, <2>4 DEF Viewable, Editable, Deletable
  <2>6. /\ edit \in SUBSET NodeID /\ view \in SUBSET NodeID /\ edit \subseteq view
    BY <2>3, <2>4
  <2> HIDE DEF own, edit, view
  <2>7. Inherited(edit, blocked \cup InTrash) \subseteq Inherited(view, blocked)
    BY <2>1, <2>6, InheritedGrows
  <2>8. edit \ (blocked \cup InTrash) \subseteq Inherited(edit, blocked \cup InTrash)
    BY <2>1, <2>6, InheritedGrows
  <2> QED
    BY <2>5, <2>7, <2>8
<1> QED
  BY <1>1, Invariance, PTL

\* A move is refused exactly when the relations lead from the folder it names
\* up to the node it moves, in any number of steps: every set that holds the
\* folder and whatever is above its members holds the node.
THEOREM LeadsToIsReachability ==
  Spec => [](\A n \in NodeID, p \in NodeID : LeadsTo(n, p) <=> ~ Clear(n, p))
<1>1. ASSUME IInv, NEW n \in NodeID, NEW p \in NodeID
      PROVE  LeadsTo(n, p) <=> ~ Clear(n, p)
  <2>1. AclTyped
    BY <1>1, Parts
  <2>2. {d \in parent : d[2] \notin {}} = parent /\ parent \in SUBSET (NodeID \X NodeID)
    BY <2>1, Ids DEF AclTyped
  <2>3. LeadsTo(n, p) <=> n \in Reach({p}, parent)
    BY <2>2 DEF LeadsTo, Inherited
  <2>4. \A S : {p} \subseteq S /\ Closed(S, parent) => Reach({p}, parent) \subseteq S
    BY <2>2, ReachIsLeast
  <2> QED
    BY <2>1, <2>3, <2>4, RefusedOrClear DEF Clear
<1>2. IInv => \A n \in NodeID, p \in NodeID : LeadsTo(n, p) <=> ~ Clear(n, p)
  BY <1>1
<1> QED
  BY <1>2, Invariance, PTL
=============================================================================
