---------------------------- MODULE UniqueNumbers ----------------------------
(* What becomes of a list of numbers: new Set(given) drops those that come   *)
(* twice, given.filter those that are there already.  Each operator gives    *)
(* the set of its one result.                                                *)
EXTENDS Integers, Sequences, SequencesExt

\* Where a number first comes.
FirstPlace(given, n) == SelectInSeq(given, LAMBDA m : m = n)

\* The numbers that are in wanted, each once, in the order they first come.
Unique(given, wanted) ==
    {s \in SetToSeqs(ToSet(given) \cap wanted) :
        \A i, j \in DOMAIN s :
            i < j => FirstPlace(given, s[i]) < FirstPlace(given, s[j])}

\* The numbers that are not in there, as often and in the order they come.
Without(given, there) ==
    {[k \in DOMAIN places |-> given[places[k]]] :
        places \in {p \in SetToSeqs({i \in DOMAIN given : given[i] \notin there}) :
                       \A j, k \in DOMAIN p : j < k => p[j] < p[k]}}
=============================================================================
