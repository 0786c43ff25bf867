----------------------------- MODULE OrderLemmas -----------------------------
(***************************************************************************)
(* Sets of natural numbers have a least element, and a greatest one when   *)
(* they are bounded: what "the first row", "the newest event" or "the last *)
(* chained row before this one" rest on in the proofs.  A sorted list      *)
(* holds what it sorts, each element once and in order, and a filtered one *)
(* what is left: what pages, batches and parsed chunks rest on.            *)
(***************************************************************************)
EXTENDS Integers, SortedLists, SequenceTheorems, FiniteSetTheorems,
        WellFoundedInduction, TLAPS

------------------------------------------------------------------------------
(* Numbers. *)

\* A nonempty set of natural numbers has a least element.
LEMMA LeastExists ==
    ASSUME NEW S \in SUBSET Nat, S # {}
    PROVE  \E m \in S : \A n \in S : m <= n
<1>1. PICK m \in S : \A n \in S : <<n, m>> \notin OpToRel(<, Nat)
    BY WFMin, NatLessThanWellFounded, Zenon
<1>2. ASSUME NEW n \in S, n < m PROVE FALSE
  <2>1. n \in Nat /\ m \in Nat
    OBVIOUS
  <2>2. <<n, m>> \in OpToRel(<, Nat)
    BY <1>2, <2>1, Zenon DEF OpToRel
  <2> QED
    BY <1>1, <2>2
<1>3. \A n \in S : m <= n
    BY <1>2
<1> QED
    BY <1>3

\* A nonempty set of natural numbers below a bound has a greatest element.
LEMMA GreatestExists ==
    ASSUME NEW S \in SUBSET Nat, S # {}, NEW b \in Nat, \A n \in S : n <= b
    PROVE  \E m \in S : \A n \in S : n <= m
<1> DEFINE T == {b - n : n \in S}
<1>1. T \in SUBSET Nat /\ T # {}
  <2>1. \A n \in S : b - n \in Nat
    OBVIOUS
  <2>2. T \in SUBSET Nat
    BY <2>1, Zenon
  <2>3. PICK n \in S : TRUE
    OBVIOUS
  <2> QED
    BY <2>2, <2>3, Zenon
<1>2. PICK d \in T : \A e \in T : d <= e
    BY <1>1, LeastExists, Zenon
<1>3. PICK m \in S : d = b - m
    OBVIOUS
<1>4. ASSUME NEW n \in S PROVE n <= m
  <2>1. b - n \in T
    OBVIOUS
  <2>2. d <= b - n
    BY <1>2, <2>1
  <2> QED
    BY <1>3, <2>2
<1> QED
    BY <1>4

------------------------------------------------------------------------------
(* Orders. *)

\* A strict total order of the elements of S.
Orders(R, S) ==
    /\ \A a \in S : <<a, a>> \notin R
    /\ \A a, b \in S : a # b => <<a, b>> \in R \/ <<b, a>> \in R
    /\ \A a, b, c \in S : <<a, b>> \in R /\ <<b, c>> \in R => <<a, c>> \in R

\* What precedes an element.
Preceding(o, R, S) == {p \in S : <<p, o>> \in R}

\* An element has more before it than any that precedes it.
LEMMA PlacesDiffer ==
    ASSUME NEW S, IsFiniteSet(S), NEW R, Orders(R, S), NEW a \in S, NEW b \in S,
           <<a, b>> \in R
    PROVE  Cardinality(Preceding(a, R, S)) < Cardinality(Preceding(b, R, S))
<1> DEFINE A == Preceding(a, R, S)
           B == Preceding(b, R, S)
<1>1. A \subseteq S /\ B \subseteq S /\ a \notin A
    BY DEF Preceding, Orders
<1>2. A \cup {a} \subseteq B
    BY DEF Preceding, Orders
<1> HIDE DEF A, B
<1>3. IsFiniteSet(A) /\ IsFiniteSet(B) /\ Cardinality(A) \in Nat /\ Cardinality(B) \in Nat
    BY <1>1, FS_Subset, FS_CardinalityType
<1>4. Cardinality(A \cup {a}) = Cardinality(A) + 1
    BY <1>1, <1>3, FS_AddElement
<1>5. Cardinality(A \cup {a}) <= Cardinality(B)
    BY <1>2, <1>3, FS_Subset
<1>6. Cardinality(A) < Cardinality(B)
    BY <1>3, <1>4, <1>5
<1> QED BY <1>6 DEF A, B

\* Each place of an ordered finite set is taken: n different elements have n
\* different places below n.
LEMMA PlacesTaken ==
    ASSUME NEW S, IsFiniteSet(S), NEW R, Orders(R, S)
    PROVE  \A k \in 0..(Cardinality(S) - 1) :
               \E o \in S : Cardinality(Preceding(o, R, S)) = k
<1> DEFINE n == Cardinality(S)
           place == [o \in S |-> Cardinality(Preceding(o, R, S))]
<1>1. n \in Nat
    BY FS_CardinalityType
<1>2. ASSUME NEW o \in S PROVE place[o] \in 0..(n - 1)
    <2> DEFINE B == Preceding(o, R, S)
    <2>1. B \subseteq S /\ o \notin B /\ B \cup {o} \subseteq S
        BY DEF Preceding, Orders
    <2>2. place[o] = Cardinality(B)
        OBVIOUS
    <2> HIDE DEF B, place
    <2>3. IsFiniteSet(B) /\ Cardinality(B) \in Nat
        BY <2>1, FS_Subset, FS_CardinalityType
    <2>4. Cardinality(B \cup {o}) = Cardinality(B) + 1
        BY <2>1, <2>3, FS_AddElement
    <2>5. Cardinality(B \cup {o}) <= n
        BY <2>1, FS_Subset
    <2> HIDE DEF n
    <2> QED BY <1>1, <2>2, <2>3, <2>4, <2>5
<1>3. ASSUME NEW a \in S, NEW b \in S, place[a] = place[b] PROVE a = b
    <2>1. SUFFICES ASSUME a # b PROVE FALSE
        OBVIOUS
    <2>2. place[a] \in Nat /\ place[b] \in Nat
        BY <1>1, <1>2
    <2>3. <<a, b>> \in R \/ <<b, a>> \in R
        BY <2>1 DEF Orders
    <2>4. place[a] < place[b] \/ place[b] < place[a]
        BY <2>3, PlacesDiffer
    <2> HIDE DEF place
    <2> QED BY <1>3, <2>2, <2>4
<1>4. place \in Injection(S, 0..(n - 1))
    <2>1. place \in [S -> 0..(n - 1)] /\ DOMAIN place = S
        BY <1>2
    <2> HIDE DEF place
    <2> QED BY <2>1, <1>3 DEF Injection, IsInjective
<1>5. IsFiniteSet(0..(n - 1)) /\ Cardinality(0..(n - 1)) = n
    <2> HIDE DEF n
    <2> QED BY <1>1, FS_Interval
<1>6. place \in Surjection(S, 0..(n - 1))
    <2> HIDE DEF place
    <2> QED BY <1>4, <1>5, FS_Injection
<1>7. ASSUME NEW k \in 0..(n - 1) PROVE \E o \in S : place[o] = k
    <2> HIDE DEF place
    <2> QED BY <1>6 DEF Surjection
<1> QED BY <1>7

\* Each place of a sorted list holds the element with as many before it.
LEMMA SortedPlaces ==
    ASSUME NEW S, IsFiniteSet(S), NEW R, Orders(R, S)
    PROVE  /\ Cardinality(S) \in Nat
           /\ DOMAIN Sorted(S, R) = 1..Cardinality(S)
           /\ Sorted(S, R) \in Seq(S) /\ Len(Sorted(S, R)) = Cardinality(S)
           /\ \A i \in DOMAIN Sorted(S, R) :
                 /\ Sorted(S, R)[i] \in S
                 /\ Cardinality(Preceding(Sorted(S, R)[i], R, S)) = i - 1
<1> DEFINE n == Cardinality(S)
           list == Sorted(S, R)
<1>1. n \in Nat
    BY FS_CardinalityType
<1>2. /\ DOMAIN list = 1..n
      /\ list = [i \in 1..n |-> CHOOSE o \in S : Cardinality({p \in S : <<p, o>> \in R}) = i - 1]
    BY DEF Sorted
<1>3. ASSUME NEW i \in 1..n
      PROVE  list[i] \in S /\ Cardinality(Preceding(list[i], R, S)) = i - 1
    <2>1. i - 1 \in 0..(n - 1)
        BY <1>1
    <2>2. \E o \in S : Cardinality(Preceding(o, R, S)) = i - 1
        BY <2>1, PlacesTaken
    <2>3. list[i] = CHOOSE o \in S : Cardinality(Preceding(o, R, S)) = i - 1
        BY <1>2, Zenon DEF Preceding
    <2> HIDE DEF list, n
    <2> QED BY <2>2, <2>3
<1> HIDE DEF list, n
<1>4. list \in [1..n -> S]
    BY <1>2, <1>3
<1>5. list \in Seq(S) /\ Len(list) = n
    BY <1>1, <1>4, SeqDef, LenProperties
<1> QED BY <1>1, <1>2, <1>3, <1>5 DEF list, n

\* A sorted list holds elements of the set it sorts, none of them twice.
LEMMA SortedList ==
    ASSUME NEW S, IsFiniteSet(S), NEW R, Orders(R, S)
    PROVE  /\ Sorted(S, R) \in Seq(S)
           /\ \A i, j \in DOMAIN Sorted(S, R) :
                 i # j => Sorted(S, R)[i] # Sorted(S, R)[j]
<1> DEFINE list == Sorted(S, R)
<1>1. list \in Seq(S) /\ DOMAIN list \subseteq Nat
    BY SortedPlaces
<1>2. \A i \in DOMAIN list : Cardinality(Preceding(list[i], R, S)) = i - 1
    BY SortedPlaces
<1> HIDE DEF list
<1>3. ASSUME NEW i \in DOMAIN list, NEW j \in DOMAIN list, i # j PROVE list[i] # list[j]
    <2>1. list[i] = list[j] => i - 1 = j - 1
        BY <1>2
    <2> QED BY <1>1, <1>3, <2>1
<1> QED BY <1>1, <1>3 DEF list

\* It holds all of them.
LEMMA SortedAll ==
    ASSUME NEW S, IsFiniteSet(S), NEW R, Orders(R, S), NEW o \in S
    PROVE  \E i \in DOMAIN Sorted(S, R) : Sorted(S, R)[i] = o
<1> DEFINE list == Sorted(S, R)
           n == Cardinality(S)
           c == Cardinality(Preceding(o, R, S))
<1>1. /\ n \in Nat /\ DOMAIN list = 1..n
      /\ \A i \in 1..n : list[i] \in S /\ Cardinality(Preceding(list[i], R, S)) = i - 1
    BY SortedPlaces
<1>2. c \in Nat /\ c < n
    <2>1. Preceding(o, R, S) \subseteq S /\ o \notin Preceding(o, R, S)
        BY DEF Preceding, Orders
    <2>2. IsFiniteSet(Preceding(o, R, S)) /\ c \in Nat
        BY <2>1, FS_Subset, FS_CardinalityType
    <2>3. Cardinality(Preceding(o, R, S) \cup {o}) = c + 1
        BY <2>1, <2>2, FS_AddElement
    <2>4. Preceding(o, R, S) \cup {o} \subseteq S
        BY <2>1
    <2>5. Cardinality(Preceding(o, R, S) \cup {o}) <= n
        BY <2>4, FS_Subset
    <2> HIDE DEF n, c
    <2> QED BY <1>1, <2>2, <2>3, <2>5
<1> HIDE DEF list, n
<1>3. c + 1 \in 1..n
    <2> HIDE DEF c
    <2> QED BY <1>1, <1>2
<1>4. list[c + 1] \in S /\ Cardinality(Preceding(list[c + 1], R, S)) = c
    <2>1. list[c + 1] \in S /\ Cardinality(Preceding(list[c + 1], R, S)) = (c + 1) - 1
        BY <1>1, <1>3
    <2> HIDE DEF c
    <2> QED BY <1>2, <2>1
<1>5. ASSUME list[c + 1] # o PROVE FALSE
    <2>1. <<list[c + 1], o>> \in R \/ <<o, list[c + 1]>> \in R
        BY <1>4, <1>5 DEF Orders
    <2>2. c < c
        BY <1>4, <2>1, PlacesDiffer
    <2> HIDE DEF c
    <2> QED BY <1>2, <2>2
<1> QED BY <1>1, <1>3, <1>5 DEF list

\* And it holds them in order.
LEMMA SortedInOrder ==
    ASSUME NEW S, IsFiniteSet(S), NEW R, Orders(R, S),
           NEW i \in DOMAIN Sorted(S, R), NEW j \in DOMAIN Sorted(S, R), i < j
    PROVE  <<Sorted(S, R)[i], Sorted(S, R)[j]>> \in R
<1> DEFINE list == Sorted(S, R)
<1>1. /\ DOMAIN list \subseteq Nat
      /\ \A k \in DOMAIN list :
            list[k] \in S /\ Cardinality(Preceding(list[k], R, S)) = k - 1
    BY SortedPlaces
<1>2. i \in DOMAIN list /\ j \in DOMAIN list
    OBVIOUS
<1> HIDE DEF list
<1>3. list[i] # list[j]
    <2>1. list[i] = list[j] => i - 1 = j - 1
        BY <1>1, <1>2
    <2> QED BY <1>1, <1>2, <2>1
<1>4. <<list[i], list[j]>> \in R \/ <<list[j], list[i]>> \in R
    BY <1>1, <1>2, <1>3 DEF Orders
<1>5. ASSUME <<list[j], list[i]>> \in R PROVE FALSE
    <2>1. Cardinality(Preceding(list[j], R, S)) < Cardinality(Preceding(list[i], R, S))
        BY <1>1, <1>2, <1>5, PlacesDiffer
    <2>2. j - 1 < i - 1
        BY <1>1, <1>2, <2>1
    <2> QED BY <1>1, <1>2, <2>2
<1> QED BY <1>4, <1>5 DEF list

------------------------------------------------------------------------------
(* Numbers in order, and what a filter leaves. *)

\* The natural numbers are in order.
LEMMA NumbersInOrder ==
    ASSUME NEW S \in SUBSET Nat
    PROVE  Orders({p \in S \X S : p[1] < p[2]}, S)
BY DEF Orders

\* A list of numbers in order holds each of them, the least first.
LEMMA AscendingList ==
    ASSUME NEW S \in SUBSET Nat, IsFiniteSet(S)
    PROVE  /\ Ascending(S) \in Seq(S)
           /\ \A o \in S : \E i \in DOMAIN Ascending(S) : Ascending(S)[i] = o
           /\ \A i, j \in DOMAIN Ascending(S) : i < j => Ascending(S)[i] < Ascending(S)[j]
<1> DEFINE R == {p \in S \X S : p[1] < p[2]}
<1>1. Orders(R, S)
    BY NumbersInOrder
<1>2. Ascending(S) = Sorted(S, R)
    BY DEF Ascending
<1>3. \A a, b : <<a, b>> \in R => a < b
    OBVIOUS
<1> HIDE DEF R
<1>4. Ascending(S) \in Seq(S)
    BY <1>1, <1>2, SortedList
<1>5. \A o \in S : \E i \in DOMAIN Ascending(S) : Ascending(S)[i] = o
    BY <1>1, <1>2, SortedAll
<1>6. ASSUME NEW i \in DOMAIN Ascending(S), NEW j \in DOMAIN Ascending(S), i < j
      PROVE  Ascending(S)[i] < Ascending(S)[j]
    BY <1>1, <1>2, <1>3, <1>6, SortedInOrder
<1> QED BY <1>4, <1>5, <1>6

\* The numbers of an interval in order are the interval, shifted.
LEMMA AscendingInterval ==
    ASSUME NEW a \in Nat, NEW b \in Nat, a <= b + 1
    PROVE  /\ Ascending(a..b) = [i \in 1..(b - a + 1) |-> a + i - 1]
           /\ Len(Ascending(a..b)) = b - a + 1
<1> DEFINE S == a..b
           R == {p \in S \X S : p[1] < p[2]}
           n == b - a + 1
<1>1. S \in SUBSET Nat /\ n \in Nat /\ IsFiniteSet(S) /\ Cardinality(S) = n
    <2>1. IsFiniteSet(S) /\ Cardinality(S) = IF a > b THEN 0 ELSE b - a + 1
        BY FS_Interval
    <2> QED BY <2>1
<1>2. Orders(R, S)
    BY <1>1, NumbersInOrder
<1>3. Ascending(S) = Sorted(S, R)
    BY DEF Ascending
<1>4. /\ DOMAIN Sorted(S, R) = 1..n /\ Len(Sorted(S, R)) = n
      /\ \A i \in 1..n : /\ Sorted(S, R)[i] \in S
                         /\ Cardinality(Preceding(Sorted(S, R)[i], R, S)) = i - 1
    <2> HIDE DEF S, R, n
    <2>1. IsFiniteSet(S) /\ Orders(R, S) /\ Cardinality(S) = n
        BY <1>1, <1>2
    <2> QED BY <2>1, SortedPlaces
<1>5. ASSUME NEW i \in 1..n PROVE Sorted(S, R)[i] = a + i - 1
    <2> DEFINE o == Sorted(S, R)[i]
    <2>1. o \in S /\ Cardinality(Preceding(o, R, S)) = i - 1
        BY <1>4
    <2> HIDE DEF o
    <2>2. Preceding(o, R, S) = a..(o - 1)
        BY <2>1 DEF Preceding
    <2>3. Cardinality(a..(o - 1)) = o - a
        <3>1. o \in Nat /\ o >= a /\ o - 1 \in Int
            BY <2>1
        <3>2. Cardinality(a..(o - 1)) = IF a > o - 1 THEN 0 ELSE (o - 1) - a + 1
            BY <3>1, FS_Interval
        <3> QED BY <3>1, <3>2
    <2>4. o - a = i - 1
        BY <2>1, <2>2, <2>3
    <2>5. o = a + i - 1
        BY <2>1, <2>4
    <2> QED BY <2>5 DEF o
<1>6. Sorted(S, R) = [i \in 1..n |-> Sorted(S, R)[i]]
    <2> HIDE DEF S, R, n
    <2>1. Sorted(S, R) \in [1..n -> S]
        <3>1. IsFiniteSet(S) /\ Orders(R, S)
            BY <1>1, <1>2
        <3>2. Sorted(S, R) \in Seq(S)
            BY <3>1, SortedPlaces
        <3> QED BY <1>4, <3>2, LenProperties
    <2> QED BY <2>1
<1>7. Sorted(S, R) = [i \in 1..n |-> a + i - 1]
    <2> HIDE DEF S, R, n
    <2> QED BY <1>5, <1>6
<1> QED BY <1>3, <1>4, <1>7

\* What a filter leaves: the elements that T has, in the order of the list.
LEMMA SublistList ==
    ASSUME NEW X, NEW list \in Seq(X), NEW T
    PROVE  /\ Sublist(list, T) \in Seq(X \cap T)
           /\ Range(Sublist(list, T)) = Range(list) \cap T
           /\ IsInjective(list) => IsInjective(Sublist(list, T))
<1> DEFINE S == {i \in DOMAIN list : list[i] \in T}
           places == Ascending(S)
           kept == Sublist(list, T)
<1>1. S \in SUBSET Nat /\ IsFiniteSet(S) /\ S \subseteq DOMAIN list
    <2>1. DOMAIN list = 1..Len(list) /\ Len(list) \in Nat
        BY LenProperties
    <2>2. IsFiniteSet(1..Len(list))
        BY <2>1, FS_Interval
    <2> QED BY <2>1, <2>2, FS_Subset
<1>2. /\ places \in Seq(S)
      /\ \A o \in S : \E n \in DOMAIN places : places[n] = o
      /\ \A m, n \in DOMAIN places : m < n => places[m] < places[n]
    BY <1>1, AscendingList
<1>3. kept = [n \in DOMAIN places |-> list[places[n]]]
    BY DEF Sublist
<1>4. \A i \in S : list[i] \in X \cap T
    BY ElementOfSeq, <1>1, LenProperties
<1>5. \A i \in DOMAIN list : list[i] \in T => i \in S
    OBVIOUS
<1> HIDE DEF S, places, kept
<1>6. /\ DOMAIN kept = DOMAIN places
      /\ \A n \in DOMAIN places : places[n] \in S /\ kept[n] = list[places[n]]
      /\ DOMAIN places = 1..Len(places) /\ Len(places) \in Nat
    BY <1>2, <1>3, ElementOfSeq, LenProperties
<1>7. kept \in Seq(X \cap T)
    <2>1. kept \in [1..Len(places) -> X \cap T]
        BY <1>3, <1>4, <1>6
    <2> QED BY <1>6, <2>1, SeqDef
<1>8. ASSUME NEW o \in T
      PROVE  (\E i \in DOMAIN list : list[i] = o) <=> \E n \in DOMAIN kept : kept[n] = o
    <2>1. ASSUME NEW i \in DOMAIN list, list[i] = o PROVE \E n \in DOMAIN kept : kept[n] = o
        <3>1. i \in S
            BY <1>5, <2>1
        <3>2. PICK n \in DOMAIN places : places[n] = i
            BY <1>2, <3>1
        <3> QED BY <1>6, <2>1, <3>2
    <2>2. ASSUME NEW n \in DOMAIN kept, kept[n] = o PROVE \E i \in DOMAIN list : list[i] = o
        BY <1>1, <1>6, <2>2
    <2> QED BY <2>1, <2>2
<1>9. ASSUME \A i, j \in DOMAIN list : i # j => list[i] # list[j],
             NEW m \in DOMAIN kept, NEW n \in DOMAIN kept, m # n
      PROVE  kept[m] # kept[n]
    <2>1. m \in Nat /\ n \in Nat /\ m \in DOMAIN places /\ n \in DOMAIN places
        BY <1>6
    <2>2. places[m] \in Nat /\ places[n] \in Nat
        BY <1>1, <1>6, <2>1
    <2>3. places[m] # places[n]
        <3>1. CASE m < n
            BY <1>2, <2>1, <2>2, <3>1
        <3>2. CASE n < m
            BY <1>2, <2>1, <2>2, <3>2
        <3> QED BY <1>9, <2>1, <3>1, <3>2
    <2>4. places[m] \in DOMAIN list /\ places[n] \in DOMAIN list
        BY <1>1, <1>6, <2>1
    <2>5. kept[m] = list[places[m]] /\ kept[n] = list[places[n]]
        BY <1>6, <2>1
    <2> QED BY <1>9, <2>3, <2>4, <2>5, Zenon
<1>10. Range(kept) = Range(list) \cap T
    <2>1. \A n \in DOMAIN kept : kept[n] \in T
        BY <1>7, ElementOfSeq, LenProperties
    <2> QED BY <1>8, <2>1 DEF Range
<1>11. IsInjective(list) => IsInjective(kept)
    BY <1>9 DEF IsInjective
<1> QED BY <1>7, <1>10, <1>11 DEF kept
==============================================================================
