-------------------------------- MODULE Lists --------------------------------
(* What the rules do with lists: part of one is taken, in its order, as the    *)
(* loops of the code that append what they keep to a new slice.                *)
EXTENDS Integers, Sequences, FiniteSets, SequencesExt

(* What of s is in keep, in its order.                                         *)
Among(s, keep) == FoldLeft(LAMBDA got, x : IF x \in keep THEN Append(got, x) ELSE got, <<>>, s)

(* The places at which a value comes for the first time.                       *)
Indices(s) == [i \in DOMAIN s |-> i]
Firsts(s) == Among(Indices(s), {i \in DOMAIN s : \A j \in 1..(i - 1) : s[j] # s[i]})
==============================================================================
