------------------------------ MODULE SortedLists ------------------------------
(***************************************************************************)
(* Sorting and filtering, as the ORDER BY clauses, sort() and filter()     *)
(* calls of the code do it: lists are sequences, orders sets of pairs.     *)
(***************************************************************************)
EXTENDS Naturals, Sequences, FiniteSets

\* The elements of S in the order of a relation: as many precede one as stand
\* before its place.
Sorted(S, before) ==
    [i \in 1..Cardinality(S) |->
        CHOOSE o \in S : Cardinality({p \in S : <<p, o>> \in before}) = i - 1]

\* Numbers, the least first.
Ascending(S) == Sorted(S, {p \in S \X S : p[1] < p[2]})

\* The elements of a list that T has, in the order of the list.
Sublist(list, T) ==
    LET places == Ascending({i \in DOMAIN list : list[i] \in T})
    IN  [n \in DOMAIN places |-> list[places[n]]]
==============================================================================
