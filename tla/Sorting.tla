------------------------------ MODULE Sorting -------------------------------
(***************************************************************************)
(* sort_by of the Rust standard library, as the sources use it: the        *)
(* elements in a strict order that leaves no two of them tied (a stable    *)
(* sort breaks ties by the place an element had before).                   *)
(***************************************************************************)
EXTENDS Integers, FiniteSets

(* The members of S, in the order R.                                       *)
Arranged(S, R) ==
    [k \in 1 .. Cardinality(S) |->
        CHOOSE x \in S : Cardinality({y \in S : <<y, x>> \in R}) = k - 1]

(* A set of numbers from the least to the greatest.                        *)
Ascending(I) == Arranged(I, {e \in I \X I : e[1] < e[2]})

(* The elements of s at the places I, in their order: Iterator::filter,    *)
(* Vec::retain.                                                            *)
Subsequence(s, I) == [k \in 1 .. Cardinality(I) |-> s[Ascending(I)[k]]]
=============================================================================
