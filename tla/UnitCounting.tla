----------------------------- MODULE UnitCounting -----------------------------
(***************************************************************************)
(* Sums of natural amounts counted as sets of units.  An amount a held     *)
(* under a key k is the block {k} \X (1..a), one pair per unit; the total *)
(* held under several keys is the cardinality of the union of their       *)
(* blocks.  Adding, removing or replacing one key's block changes the     *)
(* count by exactly the amounts involved.  Escrow's custody and the total *)
(* staked of the batch contract are both counted this way.                 *)
(***************************************************************************)
EXTENDS FiniteSetTheorems, TLAPS

(* The units of one entry: a block of exactly its amount many pairs.       *)
LEMMA BlockCard ==
    ASSUME NEW k, NEW a \in Nat
    PROVE  /\ IsFiniteSet({k} \X (1..a))
           /\ Cardinality({k} \X (1..a)) = a
<1>1. IsFiniteSet({k}) /\ Cardinality({k}) = 1
  BY FS_Singleton
<1>2. IsFiniteSet(1..a) /\ Cardinality(1..a) = a
  BY FS_Interval
<1>3. /\ IsFiniteSet({k} \X (1..a))
      /\ Cardinality({k} \X (1..a)) = Cardinality({k}) * Cardinality(1..a)
  BY <1>1, <1>2, FS_Product
<1>. QED
  BY <1>1, <1>2, <1>3

(* Adding a block disjoint from a finite set of units adds its size.       *)
LEMMA AddBlock ==
    ASSUME NEW U, IsFiniteSet(U), NEW k, NEW a \in Nat,
           U \cap ({k} \X (1..a)) = {}
    PROVE  /\ IsFiniteSet(U \cup ({k} \X (1..a)))
           /\ Cardinality(U \cup ({k} \X (1..a))) = Cardinality(U) + a
<1>1. IsFiniteSet({k} \X (1..a)) /\ Cardinality({k} \X (1..a)) = a
  BY BlockCard
<1>2. Cardinality(U) \in Nat
  BY FS_CardinalityType
<1>3. Cardinality({}) = 0
  BY FS_EmptySet
<1>. QED
  BY <1>1, <1>2, <1>3, FS_Union

(* Taking a block out of a finite set of units that contains it removes   *)
(* its size.                                                               *)
LEMMA RemoveBlock ==
    ASSUME NEW U, IsFiniteSet(U), NEW k, NEW a \in Nat,
           {k} \X (1..a) \subseteq U
    PROVE  /\ IsFiniteSet(U \ ({k} \X (1..a)))
           /\ Cardinality(U \ ({k} \X (1..a))) = Cardinality(U) - a
<1>1. Cardinality({k} \X (1..a)) = a
  BY BlockCard
<1>2. U \cap ({k} \X (1..a)) = {k} \X (1..a)
  OBVIOUS
<1>3. /\ IsFiniteSet(U \ ({k} \X (1..a)))
      /\ Cardinality(U \ ({k} \X (1..a)))
           = Cardinality(U) - Cardinality(U \cap ({k} \X (1..a)))
  BY FS_Difference
<1>. QED
  BY <1>1, <1>2, <1>3
(* Replacing a block a key holds in a finite set of units by a block of   *)
(* another size for the same key changes the count by the difference.     *)
LEMMA ReplaceBlock ==
    ASSUME NEW U, IsFiniteSet(U), NEW k, NEW a \in Nat, NEW b \in Nat,
           {k} \X (1..a) \subseteq U,
           (U \ ({k} \X (1..a))) \cap ({k} \X (1..b)) = {}
    PROVE  /\ IsFiniteSet((U \ ({k} \X (1..a))) \cup ({k} \X (1..b)))
           /\ Cardinality((U \ ({k} \X (1..a))) \cup ({k} \X (1..b)))
                = Cardinality(U) - a + b
<1> DEFINE R == U \ ({k} \X (1..a))
<1>1. IsFiniteSet(R) /\ Cardinality(R) = Cardinality(U) - a
  BY RemoveBlock
<1>2. IsFiniteSet(R \cup ({k} \X (1..b)))
      /\ Cardinality(R \cup ({k} \X (1..b))) = Cardinality(R) + b
  BY <1>1, AddBlock, Zenon
<1>3. Cardinality(U) \in Nat
  BY FS_CardinalityType
<1>. QED
  BY <1>1, <1>2, <1>3
(* Swapping a finite subset A of a finite set U for a finite set C        *)
(* disjoint from what remains changes the count by |C| - |A|.             *)
LEMMA SwapSubset ==
    ASSUME NEW U, NEW A, NEW C, IsFiniteSet(U), IsFiniteSet(C),
           A \subseteq U, (U \ A) \cap C = {}
    PROVE  /\ IsFiniteSet((U \ A) \cup C)
           /\ Cardinality((U \ A) \cup C)
                = Cardinality(U) - Cardinality(A) + Cardinality(C)
<1>1. IsFiniteSet(U \ A) /\ Cardinality(U \ A) = Cardinality(U) - Cardinality(A)
  <2>1. U \cap A = A /\ IsFiniteSet(A)
    BY FS_Subset
  <2>. QED
    BY <2>1, FS_Difference
<1>2. /\ IsFiniteSet((U \ A) \cup C)
      /\ Cardinality((U \ A) \cup C) = Cardinality(U \ A) + Cardinality(C)
  <2>1. Cardinality({}) = 0 /\ Cardinality(U \ A) \in Nat /\ Cardinality(C) \in Nat
    BY <1>1, FS_EmptySet, FS_CardinalityType
  <2>2. /\ IsFiniteSet((U \ A) \cup C)
        /\ Cardinality((U \ A) \cup C) =
             Cardinality(U \ A) + Cardinality(C) - Cardinality((U \ A) \cap C)
    BY <1>1, FS_Union
  <2>3. Cardinality((U \ A) \cap C) = 0
    BY <2>1, Zenon
  <2>. QED
    BY <2>1, <2>2, <2>3
<1>3. Cardinality(U) \in Nat /\ Cardinality(A) \in Nat
  BY FS_Subset, FS_CardinalityType
<1>. QED
  BY <1>1, <1>2, <1>3
=============================================================================
