--------------------------- MODULE CountingLemmas ---------------------------
(***************************************************************************)
(* Counting by sets of pairs.  What several calls add to one counter is     *)
(* the number of pairs <<call, i>> with i in an interval of the call, so    *)
(* that a sum over the calls is the size of a set.                          *)
(***************************************************************************)
EXTENDS Integers, FiniteSets, FiniteSetTheorems, TLAPS

LEMMA IntervalSize ==
  ASSUME NEW a \in Nat, NEW n \in Nat
  PROVE  IsFiniteSet(a + 1 .. a + n) /\ Cardinality(a + 1 .. a + n) = n
  <1>1. /\ IsFiniteSet(a + 1 .. a + n)
        /\ Cardinality(a + 1 .. a + n) = IF a + 1 > a + n THEN 0 ELSE (a + n) - (a + 1) + 1
    BY FS_Interval
  <1> QED
    BY <1>1

\* The pairs of a call that had none so far.
LEMMA CountOneMore ==
  ASSUME NEW C, IsFiniteSet(C), NEW G, IsFiniteSet(G), NEW w, \A i \in G : <<w, i>> \notin C
  PROVE  /\ IsFiniteSet(C \cup ({w} \X G))
         /\ Cardinality(C \cup ({w} \X G)) = Cardinality(C) + Cardinality(G)
  <1> DEFINE P == {w} \X G
  <1>1. Cardinality(C) \in Nat /\ Cardinality(G) \in Nat
    BY FS_CardinalityType
  <1>2. IsFiniteSet({w}) /\ Cardinality({w}) = 1
    BY FS_Singleton
  <1>3. IsFiniteSet(P) /\ Cardinality(P) = Cardinality({w}) * Cardinality(G)
    BY <1>2, FS_Product
  <1>4. C \cap P = {}
    OBVIOUS
  <1>5. Cardinality(P) = Cardinality(G)
    BY <1>1, <1>2, <1>3
  <1>6. Cardinality(C \cap P) = 0
    BY <1>4, FS_EmptySet
  <1> HIDE DEF P
  <1>7. IsFiniteSet(C \cup P) /\ Cardinality(C \cup P) = Cardinality(C) + Cardinality(P) - Cardinality(C \cap P)
    BY <1>3, FS_Union
  <1> QED
    BY <1>1, <1>5, <1>6, <1>7 DEF P
=============================================================================
