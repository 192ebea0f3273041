----------------------------- MODULE Filtering -----------------------------
(***************************************************************************)
(* Vector.filter as the elevator programs use it: the entries of a queue   *)
(* that belong to a set, in their order (Airplane only counts and selects  *)
(* messages with it, for its bound and its property).  It is what          *)
(* SelectSeq(q, LAMBDA e : e \in K) denotes; it is written as a recursive  *)
(* function because the proof system can unfold a definition of this form  *)
(* and not SelectSeq (FilteringLemmas proves what the specifications need).*)
(***************************************************************************)
EXTENDS Integers, Sequences, Functions

Kept(q, K) ==          \* what the filter has kept after i entries, for each i
  LET kept[i \in 0..Len(q)] ==
        IF i = 0           THEN << >>
        ELSE IF q[i] \in K THEN Append(kept[i - 1], q[i])
                           ELSE kept[i - 1]
  IN  kept

Only(q, K) == Kept(q, K)[Len(q)]

(***************************************************************************)
(* The definition agrees with SelectSeq on every queue of at most three    *)
(* entries (evaluated by TLC on each run that extends this module).        *)
(***************************************************************************)
ASSUME OnlyIsSelectSeq ==
  \A n \in 0..3 : \A q \in [1..n -> 1..3] : \A K \in SUBSET (1..3) :
    Only(q, K) = SelectSeq(q, LAMBDA e : e \in K)
=============================================================================
