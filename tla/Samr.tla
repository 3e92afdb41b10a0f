-------------------------------- MODULE Samr --------------------------------
(***************************************************************************)
(* The prime channels of crates/rtfsn-core/src/holonomy/samr.rs: what is   *)
(* known of a node's clock, as residues modulo 2, 3, 5 and 7, refined      *)
(* worst channel first and decoded by the Chinese remainder theorem.       *)
(* The classifications are named by their outcome: each maps a measured    *)
(* value to one of the channel's residues.                                 *)
(***************************************************************************)
EXTENDS Integers, FiniteSets, FiniteSetsExt, Functions

CONSTANTS
    Defect,     \* defects a classification can report
    Unknown     \* u64::MAX, the defect of a channel never classified

Prime == <<2, 3, 5, 7>>
Channel == 1 .. 4

ASSUME SamrAssumption ==
    Defect \subseteq 0 .. Unknown /\ Unknown \in Nat \ {0}

VARIABLES
    value, defect,  \* PrimeChannel.value, PrimeChannel.defect
    refined         \* channels classified so far

samrVars == <<value, defect, refined>>

SamrInit ==
    /\ value = [c \in Channel |-> 0]
    /\ defect = [c \in Channel |-> Unknown]
    /\ refined = {}

(* Reachability and tier always report defect 0; the offset its            *)
(* uncertainty, u64::MAX included; the drift the absolute value of an i64. *)
DefectsOf(c) ==
    IF c <= 2 THEN {0} ELSE {d \in Defect : c = 4 => d < Unknown}

(* Faulty variant: the best known channel.                                 *)
LeastDefect ==
    Max({c \in Channel : \A d \in Channel : defect[c] <= defect[d]})

(* max_by_key returns the last of the largest.                             *)
next_channel_to_refine ==
    Max({c \in Channel : \A d \in Channel : defect[c] >= defect[d]})

(* classify_reachability, _tier, _offset, _drift, of the channel asked for.*)
classify(v, d) ==
    LET c == next_channel_to_refine
    IN  /\ v < Prime[c] /\ d \in DefectsOf(c)
        /\ value' = [value EXCEPT ![c] = v]
        /\ defect' = [defect EXCEPT ![c] = d]
        /\ refined' = refined \cup {c}

SamrNext == \E v \in 0 .. 6, d \in Defect : classify(v, d)

SamrSpec == SamrInit /\ [][SamrNext]_samrVars

total_resolution == Prime[1] * Prime[2] * Prime[3] * Prime[4]

(* A round of the extended Euclidean loop, on <<old_r, r, old_s, s>>; the  *)
(* quotients are of positive numbers.                                      *)
Round(t) ==
    IF t[2] = 0 THEN t
    ELSE <<t[2], t[1] % t[2], t[4], t[3] - (t[1] \div t[2]) * t[4]>>

(* Modulo 7 or less, the remainder is 0 after four rounds at the latest.   *)
mod_inverse(a, m) ==
    LET end == Round(Round(Round(Round(<<a, m, 1, 0>>))))
    IN  IF end[1] # 1 THEN 0 ELSE end[3] % m

crt_decode ==
    LET term == [c \in Channel |->
                    LET n == total_resolution \div Prime[c]
                    IN  value[c] * n * mod_inverse(n, Prime[c])]
    IN  SumFunction(term) % total_resolution
-----------------------------------------------------------------------------
(* The decoded number has all four residues, and no other number of the    *)
(* range has: nothing is lost.  Refining the channel with the highest      *)
(* defect gets to every channel before any is refined twice, unless an     *)
(* offset was classified with an uncertainty of u64::MAX: that channel is  *)
(* asked for again as if it had never been classified.                     *)
DecodesAllChannels ==
    /\ {x \in 0 .. total_resolution - 1 : \A c \in Channel : x % Prime[c] = value[c]}
          = {crt_decode}
    /\ refined # Channel =>
         \/ next_channel_to_refine \notin refined
         \/ next_channel_to_refine = 3 /\ defect[3] = Unknown
=============================================================================
