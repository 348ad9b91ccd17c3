-------------------------------- MODULE Lists --------------------------------
(* Lists as the code makes them, in definitions the prover can expand.     *)
EXTENDS Naturals, Sequences, FiniteSets, SequencesExt

(* The elements of a set in an order without ties, as a sort leaves them:  *)
(* each is at the place that the number of those before it says.           *)
Sorted(S, Before(_, _)) ==
    [k \in 1 .. Cardinality(S) |->
        CHOOSE x \in S : Cardinality({y \in S : Before(y, x)}) = k - 1]

(* What a loop that appends the elements it wants has when it ends.        *)
Filter(s, Wanted(_)) ==
    FlattenSeq([k \in DOMAIN s |-> IF Wanted(s[k]) THEN <<s[k]>> ELSE <<>>])

=============================================================================
