---------------------------- MODULE IngestProofs ----------------------------
(***************************************************************************)
(* What holds of enrichment and reconciliation for every report, every     *)
(* checkout and every edit of the file.                                    *)
(***************************************************************************)
EXTENDS Ingest, FiniteSetTheorems, FunctionTheorems, SequenceTheorems, TLAPS

-----------------------------------------------------------------------------
(* The numbering, for any sequence of findings whose sort keys are numbers. *)

Keyed(items) ==
    \A i \in DOMAIN items :
        /\ items[i].uri \in Int /\ items[i].line \in Int /\ items[i].message \in Int
        /\ items[i].column = None \/ items[i].column \in Int

Keys == Int \X Int \X Int \X Int

\* The lexicographic order of assign_swb_ids' sort key is irreflexive,
\* transitive and total.
LEMMA KeyLessIsOrder ==
    ASSUME NEW k \in Keys, NEW l \in Keys, NEW m \in Keys
    PROVE  /\ ~KeyLess(k, k)
           /\ KeyLess(k, l) /\ KeyLess(l, m) => KeyLess(k, m)
           /\ KeyLess(k, l) \/ KeyLess(l, k) \/ k = l
<1>1. PICK k1 \in Int, k2 \in Int, k3 \in Int, k4 \in Int : k = <<k1, k2, k3, k4>>
      BY DEF Keys
<1>2. PICK l1 \in Int, l2 \in Int, l3 \in Int, l4 \in Int : l = <<l1, l2, l3, l4>>
      BY DEF Keys
<1>3. PICK m1 \in Int, m2 \in Int, m3 \in Int, m4 \in Int : m = <<m1, m2, m3, m4>>
      BY DEF Keys
<1> QED BY <1>1, <1>2, <1>3 DEF KeyLess

\* Every sort key is one: a missing column counts as 0.
LEMMA SortKeyType ==
    ASSUME NEW items, Keyed(items), NEW i \in DOMAIN items
    PROVE  SortKey(items[i]) \in Keys
BY DEF Keyed, SortKey, Keys

\* The position in a sorted group is a strict total order on the findings.
LEMMA PrecedesIsOrder ==
    ASSUME NEW n \in Nat, NEW items, DOMAIN items = 1..n, Keyed(items),
           NEW i \in 1..n, NEW j \in 1..n, NEW k \in 1..n
    PROVE  /\ ~Precedes(items, i, i)
           /\ Precedes(items, i, j) /\ Precedes(items, j, k) => Precedes(items, i, k)
           /\ i # j => Precedes(items, i, j) \/ Precedes(items, j, i)
<1> DEFINE ki == SortKey(items[i])
           kj == SortKey(items[j])
           kk == SortKey(items[k])
<1>1. ki \in Keys /\ kj \in Keys /\ kk \in Keys
      BY SortKeyType
<1> HIDE DEF ki, kj, kk
<1>2. /\ ~KeyLess(ki, ki)
      /\ KeyLess(ki, kj) /\ KeyLess(kj, kk) => KeyLess(ki, kk)
      /\ KeyLess(ki, kj) \/ KeyLess(kj, ki) \/ ki = kj
      BY <1>1, KeyLessIsOrder
<1>3. /\ Precedes(items, i, i) <=> (KeyLess(ki, ki) \/ (ki = ki /\ i < i))
      /\ Precedes(items, i, j) <=> (KeyLess(ki, kj) \/ (ki = kj /\ i < j))
      /\ Precedes(items, j, i) <=> (KeyLess(kj, ki) \/ (kj = ki /\ j < i))
      /\ Precedes(items, j, k) <=> (KeyLess(kj, kk) \/ (kj = kk /\ j < k))
      /\ Precedes(items, i, k) <=> (KeyLess(ki, kk) \/ (ki = kk /\ i < k))
      BY DEF Precedes, ki, kj, kk
<1>4. i < j /\ j < k => i < k
      OBVIOUS
<1>5. ~(i < i) /\ (i # j => i < j \/ j < i)
      OBVIOUS
<1>6. CASE ki = kj
      BY <1>2, <1>3, <1>4, <1>5, <1>6
<1>7. CASE kj = kk
      BY <1>2, <1>3, <1>4, <1>5, <1>7
<1>8. CASE ki # kj /\ kj # kk
      BY <1>2, <1>3, <1>5, <1>8
<1> QED BY <1>6, <1>7, <1>8

\* Two findings of one group get different numbers: the one that comes first
\* has fewer before it.
LEMMA EarlierIsSmaller ==
    ASSUME NEW n \in Nat, NEW items, DOMAIN items = 1..n, Keyed(items),
           NEW i \in 1..n, NEW j \in 1..n,
           Group(items, i) = Group(items, j), Precedes(items, i, j)
    PROVE  Occurrence(items, i) # Occurrence(items, j)
<1> DEFINE Before(m) == {k \in Group(items, m) : Precedes(items, k, m)}
<1>1. Group(items, i) \subseteq 1..n
      BY DEF Group
<1>2. Before(i) \subseteq Before(j)
  <2> SUFFICES ASSUME NEW k \in Group(items, i), Precedes(items, k, i)
               PROVE  Precedes(items, k, j)
      OBVIOUS
  <2> QED BY <1>1, PrecedesIsOrder
<1>3. i \in Before(j) /\ i \notin Before(i)
      BY PrecedesIsOrder DEF Group
<1>4. IsFiniteSet(Before(j))
      BY <1>1, FS_Interval, FS_Subset
<1>5. Cardinality(Before(i)) # Cardinality(Before(j))
  <2> HIDE DEF Before
  <2> QED BY <1>2, <1>3, <1>4, FS_Subset
<1> QED BY <1>5 DEF Occurrence

\* assign_swb_ids gives no two findings the same id.
LEMMA NumberingIsInjective ==
    ASSUME NEW n \in Nat, NEW items, DOMAIN items = 1..n, Keyed(items),
           NEW i \in 1..n, NEW j \in 1..n, i # j
    PROVE  AssignSwbIds(items)[i] # AssignSwbIds(items)[j]
<1> SUFFICES ASSUME AssignSwbIds(items)[i] = AssignSwbIds(items)[j]
             PROVE  FALSE
    OBVIOUS
<1>1. /\ items[i].level = items[j].level
      /\ items[i].base = items[j].base
      /\ Occurrence(items, i) = Occurrence(items, j)
      BY DEF AssignSwbIds
<1>2. Group(items, i) = Group(items, j)
      BY <1>1 DEF Group
<1>3. Precedes(items, i, j) \/ Precedes(items, j, i)
      BY PrecedesIsOrder
<1> QED BY <1>1, <1>2, <1>3, EarlierIsSmaller

-----------------------------------------------------------------------------
(* The findings listed in another order.                                   *)

\* The findings of a group that sort before i, and those that the key cannot
\* tell from i: only these are numbered in file order.
Lower(items, i) ==
    {k \in Group(items, i) : KeyLess(SortKey(items[k]), SortKey(items[i]))}
Peers(items, i) ==
    {k \in Group(items, i) : SortKey(items[k]) = SortKey(items[i])}

\* The numbers left for i and its peers by those that sort before them.
Share(items, i) ==
    Cardinality(Lower(items, i))
      ..(Cardinality(Lower(items, i)) + Cardinality(Peers(items, i)) - 1)

\* The findings before and beside one are finitely many.
LEMMA SharesAreFinite ==
    ASSUME NEW n \in Nat, NEW items, DOMAIN items = 1..n, NEW i \in 1..n
    PROVE  /\ Lower(items, i) \subseteq 1..n /\ Peers(items, i) \subseteq 1..n
           /\ IsFiniteSet(Lower(items, i)) /\ IsFiniteSet(Peers(items, i))
           /\ Cardinality(Lower(items, i)) \in Nat /\ Cardinality(Peers(items, i)) \in Nat
<1>1. Lower(items, i) \subseteq 1..n /\ Peers(items, i) \subseteq 1..n
      BY DEF Lower, Peers, Group
<1>2. IsFiniteSet(1..n)
      BY FS_Interval
<1>3. IsFiniteSet(Lower(items, i)) /\ IsFiniteSet(Peers(items, i))
      BY <1>1, <1>2, FS_Subset
<1> QED BY <1>1, <1>3, FS_CardinalityType

\* A finding's number is one of its share.
LEMMA NumberIsOfTheShare ==
    ASSUME NEW n \in Nat, NEW items, DOMAIN items = 1..n, Keyed(items), NEW i \in 1..n
    PROVE  Occurrence(items, i) \in Share(items, i)
<1> DEFINE lower == Lower(items, i)
           peers == Peers(items, i)
           earlier == {k \in peers : k < i}
           before == {k \in Group(items, i) : Precedes(items, k, i)}
<1>1. before = lower \cup earlier
      BY DEF Precedes, Lower, Peers
<1>2. lower \cap earlier = {}
  <2> SUFFICES ASSUME NEW k \in lower, k \in earlier PROVE FALSE
      OBVIOUS
  <2>1. KeyLess(SortKey(items[i]), SortKey(items[i]))
        BY DEF Lower, Peers
  <2> QED BY <2>1, SortKeyType, KeyLessIsOrder
<1>3. /\ IsFiniteSet(lower) /\ IsFiniteSet(peers)
      /\ Cardinality(lower) \in Nat /\ Cardinality(peers) \in Nat
      BY SharesAreFinite
<1>4. i \in peers
      BY DEF Peers, Group
<1>5. earlier \subseteq peers \ {i}
      OBVIOUS
<1> HIDE DEF lower, peers, earlier, before
<1>6. IsFiniteSet(peers \ {i}) /\ Cardinality(peers \ {i}) = Cardinality(peers) - 1
      BY <1>3, <1>4, FS_RemoveElement
<1>7. IsFiniteSet(earlier) /\ Cardinality(earlier) <= Cardinality(peers) - 1
      BY <1>5, <1>6, FS_Subset
<1>8. Cardinality(earlier) \in Nat
      BY <1>7, FS_CardinalityType
<1>9. Cardinality(lower \cup earlier) = Cardinality(lower) + Cardinality(earlier)
  <2>1. Cardinality(lower \cup earlier)
          = Cardinality(lower) + Cardinality(earlier) - Cardinality(lower \cap earlier)
        BY <1>3, <1>7, FS_Union
  <2>2. Cardinality(lower \cap earlier) = 0
        BY <1>2, FS_EmptySet
  <2> QED BY <1>3, <1>8, <2>1, <2>2
<1>10. Occurrence(items, i) = Cardinality(before)
      BY DEF Occurrence, before
<1>11. Occurrence(items, i) = Cardinality(lower) + Cardinality(earlier)
      BY <1>1, <1>9, <1>10
<1>12. Share(items, i) = Cardinality(lower)..(Cardinality(lower) + Cardinality(peers) - 1)
      BY DEF Share, lower, peers
<1> QED BY <1>3, <1>7, <1>8, <1>11, <1>12

\* Between them, peers take every number of their share.
LEMMA PeersTakeTheirShare ==
    ASSUME NEW n \in Nat, NEW items, DOMAIN items = 1..n, Keyed(items), NEW i \in 1..n,
           NEW o \in Share(items, i)
    PROVE  \E j \in Peers(items, i) : Occurrence(items, j) = o
<1> DEFINE peers == Peers(items, i)
           numbers == [j \in peers |-> Occurrence(items, j)]
<1>1. peers \subseteq 1..n
      BY SharesAreFinite
<1>2. ASSUME NEW j \in peers
      PROVE  /\ Group(items, j) = Group(items, i)
             /\ Lower(items, j) = Lower(items, i) /\ Peers(items, j) = Peers(items, i)
  <2>1. Group(items, j) = Group(items, i) /\ SortKey(items[j]) = SortKey(items[i])
        BY DEF Peers, Group
  <2> QED BY <2>1 DEF Lower, Peers
<1>3. ASSUME NEW j \in peers PROVE Occurrence(items, j) \in Share(items, i)
  <2>1. Occurrence(items, j) \in Share(items, j)
        BY <1>1, NumberIsOfTheShare
  <2> QED BY <1>2, <2>1 DEF Share
<1>4. ASSUME NEW j \in peers, NEW k \in peers, numbers[j] = numbers[k] PROVE j = k
  <2>1. Group(items, j) = Group(items, k) /\ j \in 1..n /\ k \in 1..n
        BY <1>1, <1>2
  <2>2. Occurrence(items, j) = Occurrence(items, k)
        BY <1>4
  <2>3. j # k => Precedes(items, j, k) \/ Precedes(items, k, j)
        BY <2>1, PrecedesIsOrder
  <2> QED BY <2>1, <2>2, <2>3, EarlierIsSmaller
<1>5. numbers \in [peers -> Share(items, i)]
      BY <1>3
<1>6. numbers \in Injection(peers, Share(items, i))
  <2> HIDE DEF numbers, peers
  <2> QED BY <1>4, <1>5, Fun_IsInj
<1>7. /\ IsFiniteSet(Share(items, i))
      /\ Cardinality(Share(items, i)) = Cardinality(peers)
  <2> DEFINE a == Cardinality(Lower(items, i))
             b == Cardinality(peers)
  <2>1. a \in Nat /\ b \in Nat
        BY SharesAreFinite
  <2>2. Share(items, i) = a..(a + b - 1)
        BY DEF Share
  <2> HIDE DEF a, b
  <2> DEFINE c == a + b - 1
  <2>3. a \in Int /\ c \in Int /\ (IF a > c THEN 0 ELSE c - a + 1) = b
        BY <2>1
  <2>4. Share(items, i) = a..c
        BY <2>2
  <2> HIDE DEF c
  <2>5. IsFiniteSet(a..c) /\ Cardinality(a..c) = IF a > c THEN 0 ELSE c - a + 1
        BY <2>3, FS_Interval
  <2> QED BY <2>3, <2>4, <2>5 DEF b
<1>8. numbers \in Surjection(peers, Share(items, i))
  <2> HIDE DEF numbers, peers
  <2> QED BY <1>6, <1>7, FS_Injection
<1>9. \E j \in peers : numbers[j] = o
  <2> HIDE DEF numbers, peers
  <2> QED BY <1>8, Fun_SurjectionProperties
<1> QED BY <1>9

\* other lists the findings of items in another order.
Reordered(n, items, other, q) ==
    /\ DOMAIN items = 1..n /\ DOMAIN other = 1..n
    /\ q \in [1..n -> 1..n]
    /\ \A i, j \in 1..n : q[i] = q[j] => i = j
    /\ \A t \in 1..n : \E i \in 1..n : q[i] = t
    /\ \A i \in 1..n : other[i] = items[q[i]]

\* As many sort before a finding, and as many are its peers, in either order.
LEMMA ReorderingKeepsShares ==
    ASSUME NEW n \in Nat, NEW items, NEW other, NEW q, Reordered(n, items, other, q),
           NEW i \in 1..n
    PROVE  Share(other, i) = Share(items, q[i])
<1>1. /\ DOMAIN items = 1..n /\ DOMAIN other = 1..n /\ q \in [1..n -> 1..n]
      /\ \A k, j \in 1..n : q[k] = q[j] => k = j
      /\ \A t \in 1..n : \E k \in 1..n : q[k] = t
      /\ \A k \in 1..n : other[k] = items[q[k]]
      BY DEF Reordered
<1>2. q[i] \in 1..n
      BY <1>1
<1>3. ASSUME NEW k \in 1..n
      PROVE  /\ k \in Lower(other, i) <=> q[k] \in Lower(items, q[i])
             /\ k \in Peers(other, i) <=> q[k] \in Peers(items, q[i])
  <2>1. other[k] = items[q[k]] /\ other[i] = items[q[i]] /\ q[k] \in 1..n
        BY <1>1
  <2>2. k \in Group(other, i) <=> q[k] \in Group(items, q[i])
        BY <1>1, <2>1 DEF Group
  <2> QED BY <2>1, <2>2 DEF Lower, Peers
<1>4. ASSUME NEW A \in SUBSET (1..n), NEW B \in SUBSET (1..n),
             \A k \in 1..n : k \in A <=> q[k] \in B
      PROVE  Cardinality(A) = Cardinality(B)
  <2> DEFINE F == [k \in A |-> q[k]]
  <2>1. F \in [A -> B]
        BY <1>1, <1>4
  <2>2. \A k, j \in A : F[k] = F[j] => k = j
        BY <1>1
  <2>3. ASSUME NEW t \in B PROVE \E k \in A : F[k] = t
    <3>1. PICK k \in 1..n : q[k] = t
          BY <1>1
    <3> QED BY <1>4, <3>1
  <2> HIDE DEF F
  <2>4. F \in Bijection(A, B)
        BY <2>1, <2>2, <2>3, Fun_IsBij
  <2>5. IsFiniteSet(A)
    <3>1. IsFiniteSet(1..n)
          BY FS_Interval
    <3> QED BY <3>1, FS_Subset
  <2> QED BY <2>4, <2>5, FS_Bijection DEF ExistsBijection
<1>5. /\ Lower(other, i) \subseteq 1..n /\ Peers(other, i) \subseteq 1..n
      /\ Lower(items, q[i]) \subseteq 1..n /\ Peers(items, q[i]) \subseteq 1..n
      BY <1>1, <1>2, SharesAreFinite
<1>6. Cardinality(Lower(other, i)) = Cardinality(Lower(items, q[i]))
      BY <1>3, <1>4, <1>5
<1>7. Cardinality(Peers(other, i)) = Cardinality(Peers(items, q[i]))
      BY <1>3, <1>4, <1>5
<1> QED BY <1>6, <1>7 DEF Share

\* Peers have the same peers.
LEMMA PeersAgree ==
    ASSUME NEW items, NEW i \in DOMAIN items, NEW j \in Peers(items, i)
    PROVE  Peers(items, j) = Peers(items, i)
<1>1. Group(items, j) = Group(items, i) /\ SortKey(items[j]) = SortKey(items[i])
      BY DEF Peers, Group
<1> QED BY <1>1 DEF Peers

\* An id given in one order is given in the other, to a peer of the finding.
LEMMA ReorderedIdIsFound ==
    ASSUME NEW n \in Nat, NEW items, NEW other, NEW q, Reordered(n, items, other, q),
           Keyed(items), Keyed(other), NEW i \in 1..n
    PROVE  \E j \in Peers(items, q[i]) : AssignSwbIds(items)[j] = AssignSwbIds(other)[i]
<1>1. /\ DOMAIN items = 1..n /\ DOMAIN other = 1..n
      /\ q[i] \in 1..n /\ other[i] = items[q[i]]
      BY DEF Reordered
<1>2. Occurrence(other, i) \in Share(other, i)
      BY <1>1, NumberIsOfTheShare
<1>3. Occurrence(other, i) \in Share(items, q[i])
      BY <1>2, ReorderingKeepsShares
<1>4. PICK j \in Peers(items, q[i]) : Occurrence(items, j) = Occurrence(other, i)
      BY <1>1, <1>3, PeersTakeTheirShare
<1>5. /\ j \in 1..n
      /\ items[j].level = other[i].level /\ items[j].base = other[i].base
      BY <1>1 DEF Peers, Group
<1>6. AssignSwbIds(items)[j] = AssignSwbIds(other)[i]
      BY <1>1, <1>4, <1>5 DEF AssignSwbIds
<1> QED BY <1>6

\* Where the peers of a finding are in the other order, and the ids of some.
MovedPeers(n, items, q, i) == {k \in 1..n : q[k] \in Peers(items, i)}
IdsOf(items, S) == {AssignSwbIds(items)[j] : j \in S}

\* Findings that nothing tells apart share the same ids in either order.
LEMMA ReorderingKeepsIds ==
    ASSUME NEW n \in Nat, NEW items, NEW other, NEW q, Reordered(n, items, other, q),
           Keyed(items), NEW i \in 1..n
    PROVE  IdsOf(other, MovedPeers(n, items, q, i)) = IdsOf(items, Peers(items, i))
<1> DEFINE back == [t \in 1..n |-> CHOOSE k \in 1..n : q[k] = t]
<1>1. /\ DOMAIN items = 1..n /\ DOMAIN other = 1..n /\ q \in [1..n -> 1..n]
      /\ \A k, j \in 1..n : q[k] = q[j] => k = j
      /\ \A t \in 1..n : \E k \in 1..n : q[k] = t
      /\ \A k \in 1..n : other[k] = items[q[k]]
      BY DEF Reordered
<1>2. \A t \in 1..n : back[t] \in 1..n /\ q[back[t]] = t
      BY <1>1
<1>3. DOMAIN back = 1..n /\ back = [t \in 1..n |-> back[t]]
      OBVIOUS
<1> HIDE DEF back
<1>4. Reordered(n, other, items, back)
  <2>1. back \in [1..n -> 1..n]
        BY <1>2, <1>3
  <2>2. \A k, j \in 1..n : back[k] = back[j] => k = j
        BY <1>2
  <2>3. ASSUME NEW t \in 1..n PROVE \E k \in 1..n : back[k] = t
    <3>1. q[t] \in 1..n /\ q[back[q[t]]] = q[t] /\ back[q[t]] \in 1..n
          BY <1>1, <1>2
    <3>2. back[q[t]] = t
          BY <1>1, <3>1
    <3> QED BY <3>1, <3>2
  <2>4. \A k \in 1..n : items[k] = other[back[k]]
        BY <1>1, <1>2
  <2> QED BY <1>1, <2>1, <2>2, <2>3, <2>4 DEF Reordered
<1>5. Keyed(other)
  <2> SUFFICES ASSUME NEW k \in 1..n
               PROVE  /\ other[k].uri \in Int /\ other[k].line \in Int
                      /\ other[k].message \in Int
                      /\ other[k].column = None \/ other[k].column \in Int
      BY <1>1 DEF Keyed
  <2>1. other[k] = items[q[k]] /\ q[k] \in DOMAIN items
        BY <1>1
  <2> QED BY <2>1 DEF Keyed
<1>6. ASSUME NEW k \in 1..n, q[k] \in Peers(items, i)
      PROVE  \E j \in Peers(items, i) : AssignSwbIds(items)[j] = AssignSwbIds(other)[k]
  <2>1. PICK j \in Peers(items, q[k]) : AssignSwbIds(items)[j] = AssignSwbIds(other)[k]
        BY <1>5, ReorderedIdIsFound
  <2>2. Peers(items, q[k]) = Peers(items, i)
        BY <1>1, <1>6, PeersAgree
  <2> QED BY <2>1, <2>2
<1>7. ASSUME NEW j \in Peers(items, i)
      PROVE  \E k \in 1..n : /\ q[k] \in Peers(items, i)
                             /\ AssignSwbIds(other)[k] = AssignSwbIds(items)[j]
  <2>1. j \in 1..n
        BY <1>1, SharesAreFinite
  <2>2. PICK k \in Peers(other, back[j]) : AssignSwbIds(other)[k] = AssignSwbIds(items)[j]
        BY <1>4, <1>5, <2>1, ReorderedIdIsFound
  <2>3. back[j] \in 1..n /\ q[back[j]] = j
        BY <1>2, <2>1
  <2>4. k \in 1..n
        BY <1>1, <2>3, SharesAreFinite
  <2>5. q[k] \in Peers(items, q[back[j]])
    <3>1. /\ other[k] = items[q[k]] /\ other[back[j]] = items[q[back[j]]]
          /\ q[k] \in 1..n /\ q[back[j]] \in 1..n
          BY <1>1, <2>3, <2>4
    <3> QED BY <1>1, <3>1 DEF Peers, Group
  <2>6. Peers(items, j) = Peers(items, i)
        BY <1>1, PeersAgree
  <2> QED BY <2>2, <2>3, <2>4, <2>5, <2>6
<1> QED BY <1>6, <1>7 DEF IdsOf, MovedPeers

-----------------------------------------------------------------------------
(* A finding taken out.                                                    *)

\* Where a finding comes from once g is gone.
Origin(g, j) == IF j < g THEN j ELSE j + 1

\* What is left of a sequence, element by element.
LEMMA WithoutElement ==
    ASSUME NEW S, NEW items \in Seq(S), NEW g \in 1..Len(items)
    PROVE  /\ Without(items, g) \in Seq(S)
           /\ Len(Without(items, g)) = Len(items) - 1
           /\ \A j \in 1..(Len(items) - 1) : Without(items, g)[j] = items[Origin(g, j)]
<1> DEFINE n == Len(items)
           before == SubSeq(items, 1, g - 1)
           after == SubSeq(items, g + 1, n)
<1>1. n \in Nat /\ g \in 1..n /\ \A i \in 1..n : items[i] \in S
      BY LenProperties, ElementOfSeq
<1>2. /\ before \in Seq(S) /\ Len(before) = g - 1
      /\ \A i \in 1..(g - 1) : before[i] = items[i]
  <2>1. \A i \in 1..(g - 1) : items[i] \in S
        BY <1>1
  <2>2. 1 \in Int /\ g - 1 \in Int /\ g \in Int
        BY <1>1
  <2>3. /\ before \in Seq(S)
        /\ Len(before) = IF 1 <= g - 1 THEN g - 1 - 1 + 1 ELSE 0
        /\ \A i \in 1..(g - 1 - 1 + 1) : before[i] = items[1 + i - 1]
        BY <2>1, <2>2, SubSeqProperties
  <2>4. ASSUME NEW i \in 1..(g - 1) PROVE before[i] = items[i]
    <3>1. i \in 1..(g - 1 - 1 + 1) /\ 1 + i - 1 = i
          BY <1>1
    <3> QED BY <2>3, <3>1
  <2>5. Len(before) = g - 1
        BY <1>1, <2>3
  <2> QED BY <2>3, <2>4, <2>5
<1>3. /\ after \in Seq(S) /\ Len(after) = n - g
      /\ \A i \in 1..(n - g) : after[i] = items[g + i]
  <2>1. \A i \in (g + 1)..n : items[i] \in S
        BY <1>1
  <2>2. g + 1 \in Int /\ n \in Int /\ g \in Int
        BY <1>1
  <2>3. /\ after \in Seq(S)
        /\ Len(after) = IF g + 1 <= n THEN n - (g + 1) + 1 ELSE 0
        /\ \A i \in 1..(n - (g + 1) + 1) : after[i] = items[g + 1 + i - 1]
        BY <2>1, <2>2, SubSeqProperties
  <2>4. ASSUME NEW i \in 1..(n - g) PROVE after[i] = items[g + i]
    <3>1. i \in 1..(n - (g + 1) + 1) /\ g + 1 + i - 1 = g + i
          BY <1>1
    <3> QED BY <2>3, <3>1
  <2>5. Len(after) = n - g
        BY <1>1, <2>3
  <2> QED BY <2>3, <2>4, <2>5
<1>4. Without(items, g) = before \o after
      BY DEF Without
<1> HIDE DEF n, before, after
<1>5. /\ before \o after \in Seq(S)
      /\ Len(before \o after) = Len(before) + Len(after)
      /\ \A i \in 1..(Len(before) + Len(after)) :
            (before \o after)[i] = IF i <= Len(before) THEN before[i] ELSE after[i - Len(before)]
      BY <1>2, <1>3, ConcatProperties
<1>6. (g - 1) + (n - g) = n - 1
      BY <1>1
<1>7. ASSUME NEW j \in 1..(n - 1) PROVE (before \o after)[j] = items[Origin(g, j)]
  <2>1. CASE j < g
    <3>1. j \in 1..(g - 1) /\ j <= Len(before)
          BY <1>1, <1>2, <2>1
    <3> QED BY <1>2, <1>3, <1>5, <1>6, <2>1, <3>1 DEF Origin
  <2>2. CASE ~(j < g)
    <3>1. j - (g - 1) \in 1..(n - g) /\ ~(j <= Len(before)) /\ g + (j - (g - 1)) = j + 1
          BY <1>1, <1>2, <2>2
    <3>2. (before \o after)[j] = after[j - (g - 1)]
          BY <1>2, <1>3, <1>5, <1>6, <3>1
    <3> QED BY <1>3, <2>2, <3>1, <3>2 DEF Origin
  <2> QED BY <2>1, <2>2
<1> QED BY <1>2, <1>3, <1>4, <1>5, <1>6, <1>7 DEF n

\* A finding that g is not numbered before keeps its number: those before it
\* are the same, each one place further on at most.
LEMMA SurvivorKeepsId ==
    ASSUME NEW S, NEW items \in Seq(S), NEW g \in 1..Len(items), NEW j \in 1..(Len(items) - 1),
           LET i == Origin(g, j) IN
             ~(g \in Group(items, i) /\ Precedes(items, g, i))
    PROVE  AssignSwbIds(Without(items, g))[j] = AssignSwbIds(items)[Origin(g, j)]
<1> DEFINE n == Len(items)
           rest == Without(items, g)
           i == Origin(g, j)
           left == {k \in Group(rest, j) : Precedes(rest, k, j)}
           right == {k \in Group(items, i) : Precedes(items, k, i)}
<1>1. /\ n \in Nat /\ g \in 1..n /\ DOMAIN items = 1..n
      /\ DOMAIN rest = 1..(n - 1)
      /\ \A k \in 1..(n - 1) : rest[k] = items[Origin(g, k)]
      BY WithoutElement, LenProperties
<1>2. \A k \in 1..(n - 1) : Origin(g, k) \in 1..n /\ Origin(g, k) # g
      BY <1>1 DEF Origin
<1>3. \A k, l \in 1..(n - 1) : k < l <=> Origin(g, k) < Origin(g, l)
      BY <1>1 DEF Origin
<1>4. \A t \in 1..n : t # g => \E k \in 1..(n - 1) : Origin(g, k) = t
  <2> SUFFICES ASSUME NEW t \in 1..n, t # g PROVE \E k \in 1..(n - 1) : Origin(g, k) = t
      OBVIOUS
  <2>1. CASE t < g
    <3>1. t \in 1..(n - 1) /\ Origin(g, t) = t
          BY <1>1, <2>1 DEF Origin
    <3> QED BY <3>1
  <2>2. CASE t > g
    <3>1. t - 1 \in 1..(n - 1) /\ Origin(g, t - 1) = t
          BY <1>1, <2>2 DEF Origin
    <3> QED BY <3>1
  <2> QED BY <1>1, <2>1, <2>2
<1>5. j \in 1..(n - 1)
      OBVIOUS
<1> HIDE DEF rest, n
<1>6. ASSUME NEW k \in 1..(n - 1)
      PROVE  k \in left <=> Origin(g, k) \in right
  <2>1. rest[k] = items[Origin(g, k)] /\ rest[j] = items[i]
        BY <1>1, <1>5
  <2>2. k < j <=> Origin(g, k) < i
        BY <1>3, <1>5
  <2>3. Precedes(rest, k, j) <=> Precedes(items, Origin(g, k), i)
        BY <2>1, <2>2 DEF Precedes
  <2>4. k \in Group(rest, j) <=> Origin(g, k) \in Group(items, i)
        BY <1>1, <1>2, <2>1 DEF Group
  <2> QED BY <2>3, <2>4
<1>7. left \subseteq 1..(n - 1) /\ right \subseteq (1..n) \ {g}
      BY <1>1 DEF Group
<1>8. IsFiniteSet(left)
  <2>1. 1 \in Int /\ n - 1 \in Int
        BY <1>1
  <2>2. IsFiniteSet(1..(n - 1))
        BY <2>1, FS_Interval
  <2> HIDE DEF left
  <2> QED BY <1>7, <2>2, FS_Subset
<1>9. ExistsBijection(left, right)
  <2> DEFINE F == [k \in left |-> Origin(g, k)]
  <2> HIDE DEF left, right
  <2>1. F \in [left -> right]
        BY <1>6, <1>7
  <2>2. ASSUME NEW k \in left, NEW l \in left, F[k] = F[l] PROVE k = l
    <3>1. k \in Int /\ l \in Int /\ Origin(g, k) = Origin(g, l)
          BY <1>1, <1>7, <2>2
    <3> QED BY <1>1, <3>1 DEF Origin
  <2>3. ASSUME NEW t \in right PROVE \E k \in left : F[k] = t
    <3>1. PICK k \in 1..(n - 1) : Origin(g, k) = t
          BY <1>4, <1>7
    <3>2. k \in left
          BY <1>6, <3>1
    <3> QED BY <3>1, <3>2
  <2> HIDE DEF F
  <2>4. F \in Bijection(left, right)
        BY <2>1, <2>2, <2>3, Fun_IsBij
  <2> QED BY <2>4 DEF ExistsBijection
<1>10. Cardinality(left) = Cardinality(right)
  <2> HIDE DEF left, right
  <2> QED BY <1>8, <1>9, FS_Bijection
<1>11. Occurrence(rest, j) = Occurrence(items, i)
      BY <1>10 DEF Occurrence
<1>12. rest[j].level = items[i].level /\ rest[j].base = items[i].base
      BY <1>1, <1>5
<1>13. i \in DOMAIN items /\ j \in DOMAIN rest
      BY <1>1, <1>2, <1>5
<1> HIDE DEF i, left, right
<1> QED BY <1>11, <1>12, <1>13 DEF AssignSwbIds, rest, i

-----------------------------------------------------------------------------
(* A line inserted at the top of a file.                                   *)

\* The window moves with its lines: its text is the same.
LEMMA ShiftedWindow ==
    ASSUME NEW lines \in Seq(Lines), NEW text \in Lines, NEW start \in Nat \ {0},
           NEW end \in Int \cup {None}
    PROVE  NormalizeWindow(<<text>> \o lines, start + 1, IF end = None THEN None ELSE end + 1)
             = NormalizeWindow(lines, start, end)
<1> DEFINE more == <<text>> \o lines
           moved == IF end = None THEN None ELSE end + 1
           last == IF end # None /\ end >= start THEN end ELSE start
           last1 == IF moved # None /\ moved >= start + 1 THEN moved ELSE start + 1
           to == Smaller(Len(lines), Smaller(last, start + MaxWindow - 1))
           to1 == Smaller(Len(more), Smaller(last1, start + 1 + MaxWindow - 1))
<1>1. /\ <<text>> \in Seq(Lines) /\ Len(<<text>>) = 1
      /\ Len(lines) \in Nat
      OBVIOUS
<1>2. /\ more \in Seq(Lines)
      /\ Len(more) = Len(lines) + 1
      /\ \A n \in 1..Len(lines) : more[n + 1] = lines[n]
      BY <1>1
<1>3. last \in Int /\ last1 = last + 1
      BY NoneAssumption
<1>4. to \in Int /\ to <= Len(lines) /\ to1 = to + 1
  <2> HIDE DEF last, last1, more
  <2> QED BY <1>1, <1>2, <1>3, BoundsAssumption DEF Smaller
<1> HIDE DEF more, moved, last, last1, to, to1
<1>5. SubSeq(more, start + 1, to + 1) = SubSeq(lines, start, to)
  <2>1. SubSeq(lines, start, to) = [i \in 1..(to - start + 1) |-> lines[i + start - 1]]
        BY <1>4
  <2>2. SubSeq(more, start + 1, to + 1) = [i \in 1..(to - start + 1) |-> more[i + start]]
        BY <1>4
  <2>3. ASSUME NEW i \in 1..(to - start + 1)
        PROVE  more[i + start] = lines[i + start - 1]
    <3>1. i + start - 1 \in 1..Len(lines) /\ i + start - 1 + 1 = i + start
          BY <1>1, <1>4
    <3> QED BY <1>2, <3>1
  <2> QED BY <2>1, <2>2, <2>3
<1>6. /\ NormalizeWindow(more, start + 1, moved) = Joined(SubSeq(more, start + 1, to1))
      /\ NormalizeWindow(lines, start, end) = Joined(SubSeq(lines, start, to))
      BY DEF NormalizeWindow, last, last1, to, to1
<1> QED BY <1>4, <1>5, <1>6 DEF more, moved

\* What the insertion does to the material of a result: the line moves if the
\* file is its own, and nothing that a tool or content id is made of changes.
LEMMA ShiftedIdentity ==
    ASSUME source \in Sources, NEW r \in Results, NEW u, NEW text \in Lines
    PROVE  LET old == IdentitySource(r, source[r.uri])
               new == AfterInsertion(r, u, text)
           IN  /\ new.uri = old.uri /\ new.column = old.column /\ new.message = old.message
               /\ new.line = old.line + (IF r.uri = u THEN 1 ELSE 0)
               /\ new.level = old.level
               /\ old.level # "legacy" => new.base = old.base
<1>1. CASE r.uri # u
      BY <1>1, ResultsAssumption DEF AfterInsertion, IdentitySource
<1>2. CASE r.uri = u
  <2> DEFINE lines == source[u]
             longer == IF lines = None THEN None ELSE <<text>> \o lines
             s == Shifted(r)
  <2>1. /\ s.uri = r.uri /\ s.tool = r.tool /\ s.rule = r.rule
        /\ s.column = r.column /\ s.message = r.message
        /\ s.fingerprints = r.fingerprints /\ s.partial = r.partial
        /\ s.start = r.start + 1
        /\ s.end = IF r.end = None THEN None ELSE r.end + 1
        BY ResultsAssumption DEF Shifted
  <2>2. /\ r.start \in Nat \ {0} /\ r.end \in Int \cup {None}
        /\ lines \in Seq(Lines) \cup {None}
        BY <1>2, ResultsAssumption, SourcesAssumption
  <2>3. longer = None <=> lines = None
        BY <2>2, NoneAssumption
  <2>4. AfterInsertion(r, u, text) = IdentitySource(s, longer)
        BY <1>2 DEF AfterInsertion
  <2>5. lines # None => ContentHash(s, longer) = ContentHash(r, lines)
    <3> SUFFICES ASSUME lines # None PROVE ContentHash(s, longer) = ContentHash(r, lines)
        OBVIOUS
    <3>1. NormalizeWindow(<<text>> \o lines, r.start + 1,
                          IF r.end = None THEN None ELSE r.end + 1)
            = NormalizeWindow(lines, r.start, r.end)
          BY <2>2, ShiftedWindow
    <3> HIDE DEF s, lines
    <3> QED BY <2>1, <3>1 DEF ContentHash
  <2> HIDE DEF s, longer, lines
  <2>6. ToolFingerprint(s) = ToolFingerprint(r)
        BY <2>1 DEF ToolFingerprint
  <2>7. Level(s, longer) = Level(r, lines)
        BY <2>3, <2>6 DEF Level
  <2>8. Level(r, lines) # "legacy" => BaseHash(s, longer) = BaseHash(r, lines)
    <3>1. CASE ToolFingerprint(r) # None
      <4>1. Level(r, lines) = "tool"
            BY <3>1 DEF Level
      <4> QED BY <2>1, <2>6, <2>7, <4>1 DEF BaseHash
    <3>2. CASE ToolFingerprint(r) = None /\ lines # None
      <4>1. Level(r, lines) = "content"
            BY <3>2 DEF Level
      <4> QED BY <2>5, <2>7, <3>2, <4>1 DEF BaseHash
    <3>3. CASE ToolFingerprint(r) = None /\ lines = None
          BY <3>3 DEF Level
    <3> QED BY <3>1, <3>2, <3>3
  <2>9. IdentitySource(r, source[r.uri]) = IdentitySource(r, lines)
        BY <1>2 DEF lines
  <2> QED BY <1>2, <2>1, <2>4, <2>7, <2>8, <2>9 DEF IdentitySource
<1> QED BY <1>1, <1>2

\* If a group keeps its members and the order of any two of them, each finding
\* keeps its number.
LEMMA SameNumber ==
    ASSUME NEW items, NEW moved, NEW i \in DOMAIN items,
           Group(moved, i) = Group(items, i),
           \A j \in DOMAIN items : Precedes(moved, j, i) <=> Precedes(items, j, i)
    PROVE  Occurrence(moved, i) = Occurrence(items, i)
<1>1. {j \in Group(moved, i) : Precedes(moved, j, i)}
        = {j \in Group(items, i) : Precedes(items, j, i)}
      BY DEF Group
<1> QED BY <1>1 DEF Occurrence

\* An insertion into file u, as numbering sees it.
Moved(items, moved, u) ==
    \A i \in DOMAIN items :
        /\ moved[i].uri = items[i].uri /\ moved[i].column = items[i].column
        /\ moved[i].message = items[i].message
        /\ moved[i].line = items[i].line + (IF items[i].uri = u THEN 1 ELSE 0)
        /\ moved[i].level = items[i].level
        /\ items[i].level # "legacy" => moved[i].base = items[i].base

\* Findings whose lines move with their file, and nothing else of which changes
\* that a tool or content id is made of, keep those ids.
LEMMA MovedKeepIds ==
    ASSUME NEW n \in Nat, NEW items, DOMAIN items = 1..n, Keyed(items), NEW u,
           NEW moved, DOMAIN moved = 1..n,
           Moved(items, moved, u),
           NEW i \in 1..n, items[i].level # "legacy"
    PROVE  AssignSwbIds(moved)[i] = AssignSwbIds(items)[i]
<1> USE DEF Moved
<1>1. Group(moved, i) = Group(items, i)
      BY DEF Group
<1>2. ASSUME NEW j \in 1..n
      PROVE  Precedes(moved, j, i) <=> Precedes(items, j, i)
  <2> DEFINE d(m) == IF items[m].uri = u THEN 1 ELSE 0
             c(m) == IF items[m].column = None THEN 0 ELSE items[m].column
  <2>1. \A m \in {i, j} :
          /\ SortKey(items[m]) = <<items[m].uri, items[m].line, c(m), items[m].message>>
          /\ SortKey(moved[m]) =
               <<items[m].uri, items[m].line + d(m), c(m), items[m].message>>
        BY DEF SortKey
  <2>2. \A m \in {i, j} : items[m].line \in Int /\ d(m) \in Int
        BY DEF Keyed
  <2>3. items[i].uri = items[j].uri => d(i) = d(j)
        OBVIOUS
  <2> HIDE DEF d, c
  <2>4. KeyLess(SortKey(moved[j]), SortKey(moved[i]))
          <=> KeyLess(SortKey(items[j]), SortKey(items[i]))
    <3> DEFINE KJ == <<items[j].uri, items[j].line, c(j), items[j].message>>
               KI == <<items[i].uri, items[i].line, c(i), items[i].message>>
               MJ == <<items[j].uri, items[j].line + d(j), c(j), items[j].message>>
               MI == <<items[i].uri, items[i].line + d(i), c(i), items[i].message>>
    <3>1. KeyLess(MJ, MI) <=> KeyLess(KJ, KI)
          BY <2>2, <2>3 DEF KeyLess
    <3> QED BY <2>1, <3>1
  <2>5. SortKey(moved[j]) = SortKey(moved[i]) <=> SortKey(items[j]) = SortKey(items[i])
        BY <2>1, <2>2, <2>3
  <2> QED BY <2>4, <2>5 DEF Precedes
<1>3. Occurrence(moved, i) = Occurrence(items, i)
      BY <1>1, <1>2, SameNumber
<1> QED BY <1>3 DEF AssignSwbIds

-----------------------------------------------------------------------------
(* The run of both programs.                                               *)

\* What the first pass may gather of a result.
Gatherable ==
    [locator : Nat, item : {IdentitySource(r, s[r.uri]) : r \in Results, s \in Sources}]

\* The identity material of the n-th result of a report.
ItemOf(results, checkout, n) ==
    IdentitySource(results[n], checkout[results[n].uri])

\* The first pass has gathered exactly the located results before `at`, each
\* of them once; the file is what the second pass made of them until somebody
\* edits it, and only then may it be refused.
GatherInv ==
    /\ report \in Seq(Results)
    /\ source \in Sources
    /\ at \in 1..(Len(report) + 1)
    /\ prepared \in Seq(Gatherable)
    /\ \A i \in DOMAIN prepared :
          /\ prepared[i].locator \in 1..(at - 1)
          /\ report[prepared[i].locator].located
          /\ prepared[i].item = ItemOf(report, source, prepared[i].locator)
    /\ \A n \in 1..(at - 1) :
          report[n].located => \E i \in DOMAIN prepared : prepared[i].locator = n
    /\ \A i, j \in DOMAIN prepared : prepared[i].locator = prepared[j].locator => i = j

WrittenInv ==
    /\ edits \in Nat
    /\ pc \in {"gathering", "enriched", "accepted", "refused"}
    /\ pc = "gathering" => edits = 0
    /\ pc # "gathering" /\ edits = 0 =>
          /\ at = Len(report) + 1
          /\ meta = [i \in DOMAIN prepared |->
               [locator |-> prepared[i].locator, swb_id |-> AssignSwbIds(Items)[i]]]

IngestInv == GatherInv /\ WrittenInv /\ EnrichedIsAccepted

\* No result has been looked at yet.
LEMMA InitEstablishes == Init => IngestInv
<1> SUFFICES ASSUME Init PROVE IngestInv
    OBVIOUS
<1>1. report \in Seq(Results) /\ Len(report) \in Nat
      BY BoundsAssumption DEF Init, Reports
<1>2. GatherInv
      BY <1>1 DEF Init, GatherInv
<1>3. WrittenInv /\ EnrichedIsAccepted
      BY DEF Init, WrittenInv, EnrichedIsAccepted
<1> QED BY <1>2, <1>3 DEF IngestInv

\* A result with a location gets an entry, which joins the match at the end.
LEMMA GatherPreserves ==
    ASSUME IngestInv, GatherResult
    PROVE  IngestInv'
<1> DEFINE new == [locator |-> at, item |-> IdentitySource(report[at], source[report[at].uri])]
<1> USE DEF GatherResult, IngestInv, GatherInv
<1>1. /\ Len(report) \in Nat /\ DOMAIN report = 1..Len(report)
      /\ report[at] \in Results
      BY ElementOfSeq, LenProperties
<1>2. new \in Gatherable
      BY <1>1 DEF Gatherable
<1> HIDE DEF new
<1>3. prepared' = Append(prepared, new) /\ new.locator = at
      BY DEF new
<1>4. /\ prepared' \in Seq(Gatherable)
      /\ DOMAIN prepared' = 1..(Len(prepared) + 1)
      /\ DOMAIN prepared = 1..Len(prepared)
      /\ Len(prepared) \in Nat
      /\ \A i \in 1..Len(prepared) : prepared'[i] = prepared[i]
      /\ prepared'[Len(prepared) + 1] = new
      BY <1>2, <1>3, AppendProperties, LenProperties
<1>5. at' \in 1..(Len(report') + 1) /\ at' - 1 = at /\ at - 1 \in Nat /\ at \in Nat
      BY <1>1
<1>6. ASSUME NEW i \in DOMAIN prepared'
      PROVE  /\ prepared'[i].locator \in 1..(at' - 1)
             /\ report'[prepared'[i].locator].located
             /\ prepared'[i].item = ItemOf(report', source', prepared'[i].locator)
  <2>1. CASE i \in 1..Len(prepared)
        BY <1>4, <1>5, <2>1
  <2>2. CASE i = Len(prepared) + 1
        BY <1>3, <1>4, <1>5, <2>2 DEF ItemOf, new
  <2> QED BY <1>4, <2>1, <2>2
<1>7. ASSUME NEW n \in 1..(at' - 1), report'[n].located
      PROVE  \E i \in DOMAIN prepared' : prepared'[i].locator = n
  <2>1. CASE n = at
    <3>1. Len(prepared) + 1 \in DOMAIN prepared'
          BY <1>4
    <3>2. prepared'[Len(prepared) + 1].locator = n
          BY <1>3, <1>4, <2>1
    <3> QED BY <3>1, <3>2
  <2>2. CASE n \in 1..(at - 1)
    <3>1. PICK i \in DOMAIN prepared : prepared[i].locator = n
          BY <1>7, <2>2
    <3> QED BY <1>4, <3>1
  <2> QED BY <1>5, <2>1, <2>2
<1>8. ASSUME NEW i \in DOMAIN prepared', NEW j \in DOMAIN prepared',
             prepared'[i].locator = prepared'[j].locator
      PROVE  i = j
  <2>1. \A k \in 1..Len(prepared) : prepared'[k].locator # at
    <3> SUFFICES ASSUME NEW k \in 1..Len(prepared) PROVE prepared'[k].locator # at
        OBVIOUS
    <3>1. prepared'[k] = prepared[k] /\ k \in DOMAIN prepared
          BY <1>4
    <3>2. prepared[k].locator \in 1..(at - 1)
          BY <3>1
    <3>3. at \notin 1..(at - 1)
          BY <1>5
    <3> QED BY <3>1, <3>2, <3>3
  <2> QED BY <1>3, <1>4, <1>8, <2>1
<1>9. GatherInv'
      BY <1>4, <1>5, <1>6, <1>7, <1>8
<1>10. WrittenInv' /\ EnrichedIsAccepted'
      BY DEF WrittenInv, EnrichedIsAccepted
<1> QED BY <1>9, <1>10

\* A result without a location gets none, and is not among the located ones.
LEMMA SkipPreserves ==
    ASSUME IngestInv, SkipResult
    PROVE  IngestInv'
<1> USE DEF SkipResult, AfterSkip, IngestInv, GatherInv
<1>1. Len(report) \in Nat /\ DOMAIN report = 1..Len(report)
      BY LenProperties
<1>2. at' \in 1..(Len(report') + 1) /\ at' - 1 = at /\ at \in Nat
      BY <1>1
<1>3. \A n \in 1..(at' - 1) : n = at \/ n \in 1..(at - 1)
      BY <1>2
<1>4. GatherInv'
      BY <1>2, <1>3
<1>5. WrittenInv' /\ EnrichedIsAccepted'
      BY DEF WrittenInv, EnrichedIsAccepted
<1> QED BY <1>4, <1>5

\* Numbering and writing keep the entries.
LEMMA WritePreserves ==
    ASSUME IngestInv, WriteMeta
    PROVE  IngestInv'
<1> USE DEF WriteMeta, IngestInv
<1>1. GatherInv'
      BY DEF GatherInv
<1>2. at = Len(report) + 1
      BY LenProperties DEF GatherInv
<1>3. Items' = Items
      BY DEF Items
<1>4. WrittenInv' /\ EnrichedIsAccepted'
      BY <1>2, <1>3 DEF WrittenInv, EnrichedIsAccepted
<1> QED BY <1>1, <1>4

\* An edited file is no longer claimed to be the written one.
LEMMA EditPreserves ==
    ASSUME IngestInv, EditMeta
    PROVE  IngestInv'
<1> USE DEF EditMeta, IngestInv
<1>1. GatherInv'
      BY DEF GatherInv
<1>2. edits' \in Nat /\ edits' # 0 /\ edits' > 0
      BY DEF WrittenInv
<1>3. WrittenInv' /\ EnrichedIsAccepted'
      BY <1>2 DEF WrittenInv, EnrichedIsAccepted
<1> QED BY <1>1, <1>3

\* The file as enrich wrote it passes both checks of the upload.
LEMMA WrittenPasses ==
    ASSUME GatherInv, WrittenInv, Written
    PROVE  ValidFindings /\ Reconciled
<1>1. /\ at = Len(report) + 1
      /\ DOMAIN meta = DOMAIN prepared
      /\ \A i \in DOMAIN meta : meta[i].locator = prepared[i].locator
      /\ \A i \in DOMAIN meta : meta[i].swb_id = AssignSwbIds(Items)[i]
      BY DEF WrittenInv, Written
<1>2. DOMAIN report = 1..(at - 1)
      BY <1>1, LenProperties DEF GatherInv
<1>3. \A i \in DOMAIN meta : meta[i].swb_id # NoId
  <2> SUFFICES ASSUME NEW i \in DOMAIN meta PROVE meta[i].swb_id # NoId
      OBVIOUS
  <2>1. prepared[i] \in Gatherable
        BY <1>1, ElementOfSeq DEF GatherInv
  <2>2. PICK r \in Results, s \in Sources : prepared[i].item = IdentitySource(r, s[r.uri])
        BY <2>1 DEF Gatherable
  <2>3. meta[i].swb_id.level = Level(r, s[r.uri])
    <3>1. Items[i] = IdentitySource(r, s[r.uri]) /\ i \in DOMAIN Items
          BY <1>1, <2>2 DEF Items
    <3>2. AssignSwbIds(Items)[i].level = Items[i].level
          BY <3>1 DEF AssignSwbIds
    <3>3. Items[i].level = Level(r, s[r.uri])
          BY <3>1 DEF IdentitySource
    <3> QED BY <1>1, <3>2, <3>3
  <2>4. Level(r, s[r.uri]) # ""
        BY DEF Level
  <2>5. NoId.level = ""
        BY DEF NoId
  <2> QED BY <2>3, <2>4, <2>5
<1>4. Unanchored = {}
      BY <1>1, <1>2 DEF Unanchored, WithLocations, GatherInv
<1>5. ClaimedTwice = {}
      BY <1>1 DEF ClaimedTwice, GatherInv
<1>6. Missing = {}
  <2> SUFFICES ASSUME NEW n \in WithLocations PROVE n \in Seen
      BY DEF Missing
  <2>1. PICK i \in DOMAIN prepared : prepared[i].locator = n
        BY <1>2 DEF WithLocations, GatherInv
  <2> QED BY <1>1, <1>4, <2>1 DEF Seen
<1> QED BY <1>3, <1>4, <1>5, <1>6 DEF ValidFindings, Reconciled

\* The answer to an upload changes nothing else.
LEMMA UploadPreserves ==
    ASSUME IngestInv, Accept \/ Refuse
    PROVE  IngestInv'
<1> USE DEF Accept, Refuse, IngestInv
<1>1. GatherInv'
      BY DEF GatherInv
<1>2. Items' = Items
      BY DEF Items
<1>3. WrittenInv'
      BY <1>2 DEF WrittenInv
<1>4. Refuse => edits # 0
      BY WrittenPasses DEF Written
<1>5. EnrichedIsAccepted'
      BY <1>4 DEF WrittenInv, EnrichedIsAccepted
<1> QED BY <1>1, <1>3, <1>5

\* A step that changes nothing keeps the invariant.
LEMMA StutterPreserves ==
    ASSUME IngestInv, UNCHANGED vars
    PROVE  IngestInv'
<1> USE DEF IngestInv, vars
<1>1. GatherInv'
      BY DEF GatherInv
<1>2. Items' = Items
      BY DEF Items
<1>3. WrittenInv' /\ EnrichedIsAccepted'
      BY <1>2 DEF WrittenInv, EnrichedIsAccepted
<1> QED BY <1>1, <1>3

\* The first pass is sound and complete, and the file is its image.
THEOREM EnrichmentIsFaithful == Spec => []IngestInv
<1>1. Init => IngestInv
      BY InitEstablishes
<1>2. IngestInv /\ [Next]_vars => IngestInv'
      BY GatherPreserves, SkipPreserves, WritePreserves, EditPreserves,
         UploadPreserves, StutterPreserves DEF Next
<1> QED BY <1>1, <1>2, PTL DEF Spec

\* An unedited file is never refused, whatever report it was made of.
THEOREM EnrichedNeverRefused == Spec => []EnrichedIsAccepted
<1>1. IngestInv => EnrichedIsAccepted
      BY DEF IngestInv
<1> QED BY <1>1, EnrichmentIsFaithful, PTL

\* Every item is the identity material of some result in some checkout.
LEMMA GatheredItem ==
    ASSUME GatherInv, NEW k \in DOMAIN prepared
    PROVE  \E r \in Results, s \in Sources : Items[k] = IdentitySource(r, s[r.uri])
<1>1. prepared[k] \in Gatherable
      BY LenProperties, ElementOfSeq DEF GatherInv
<1> QED BY <1>1 DEF Gatherable, Items

\* What the second pass numbers has keys the code can sort by.
LEMMA ItemsAreKeyed ==
    ASSUME GatherInv
    PROVE  /\ Len(prepared) \in Nat
           /\ DOMAIN prepared = 1..Len(prepared) /\ DOMAIN Items = 1..Len(prepared)
           /\ Keyed(Items)
<1>1. /\ Len(prepared) \in Nat /\ DOMAIN prepared = 1..Len(prepared)
      /\ DOMAIN Items = DOMAIN prepared
      BY LenProperties DEF GatherInv, Items
<1>2. ASSUME NEW k \in DOMAIN prepared
      PROVE  /\ Items[k].uri \in Int /\ Items[k].line \in Int /\ Items[k].message \in Int
             /\ Items[k].column = None \/ Items[k].column \in Int
  <2>1. PICK r \in Results, s \in Sources : Items[k] = IdentitySource(r, s[r.uri])
        BY GatheredItem
  <2> QED BY <2>1, ResultsAssumption DEF IdentitySource
<1> QED BY <1>1, <1>2 DEF Keyed

\* No two findings of an enriched file share an id, whatever the results have
\* in common and in whatever order they are listed.
THEOREM IdsNeverCollide == Spec => []IdsDistinct
<1>1. IngestInv => IdsDistinct
  <2> SUFFICES ASSUME GatherInv, WrittenInv, Written,
                      NEW i \in DOMAIN meta, NEW j \in DOMAIN meta, i # j
               PROVE  meta[i].swb_id # meta[j].swb_id
      BY DEF IngestInv, IdsDistinct
  <2>1. /\ DOMAIN meta = DOMAIN prepared
        /\ meta[i].swb_id = AssignSwbIds(Items)[i]
        /\ meta[j].swb_id = AssignSwbIds(Items)[j]
        BY DEF WrittenInv, Written
  <2> QED BY <2>1, ItemsAreKeyed, NumberingIsInjective
<1> QED BY <1>1, EnrichmentIsFaithful, PTL

\* A finding with a fingerprint of its tool or with readable source keeps its
\* id when a line is inserted at the top of any file, whatever else the report
\* holds and however long its window is.
THEOREM ShiftsKeepIds == Spec => []ShiftKeepsIds
<1>1. IngestInv => ShiftKeepsIds
  <2> SUFFICES ASSUME GatherInv, WrittenInv, Written,
                      NEW u \in DOMAIN source, NEW text \in Lines,
                      NEW i \in DOMAIN prepared, Items[i].level # "legacy"
               PROVE  AssignSwbIds([k \in DOMAIN prepared |->
                          AfterInsertion(report[prepared[k].locator], u, text)])[i]
                        = meta[i].swb_id
      BY DEF IngestInv, ShiftKeepsIds
  <2> DEFINE moved == [k \in DOMAIN prepared |->
                          AfterInsertion(report[prepared[k].locator], u, text)]
  <2>1. meta[i].swb_id = AssignSwbIds(Items)[i]
        BY DEF WrittenInv, Written
  <2>2. ASSUME NEW k \in DOMAIN prepared
        PROVE  /\ moved[k].uri = Items[k].uri /\ moved[k].column = Items[k].column
               /\ moved[k].message = Items[k].message
               /\ moved[k].line = Items[k].line + (IF Items[k].uri = u THEN 1 ELSE 0)
               /\ moved[k].level = Items[k].level
               /\ Items[k].level # "legacy" => moved[k].base = Items[k].base
    <3> DEFINE r == report[prepared[k].locator]
    <3>1. r \in Results
      <4>1. prepared[k].locator \in 1..Len(report)
            BY LenProperties DEF GatherInv
      <4> QED BY <4>1, ElementOfSeq DEF GatherInv
    <3>2. Items[k] = IdentitySource(r, source[r.uri])
          BY DEF Items, GatherInv, ItemOf
    <3>3. moved[k] = AfterInsertion(r, u, text)
          OBVIOUS
    <3>4. Items[k].uri = r.uri
          BY <3>2 DEF IdentitySource
    <3>5. source \in Sources
          BY DEF GatherInv
    <3> HIDE DEF moved, r
    <3> QED BY <3>1, <3>2, <3>3, <3>4, <3>5, ShiftedIdentity
  <2>3. DOMAIN moved = DOMAIN prepared
        OBVIOUS
  <2> HIDE DEF moved
  <2>4. /\ Len(prepared) \in Nat /\ DOMAIN prepared = 1..Len(prepared)
        /\ DOMAIN Items = 1..Len(prepared) /\ Keyed(Items)
        BY ItemsAreKeyed
  <2>5. Moved(Items, moved, u)
        BY <2>2, <2>4 DEF Moved
  <2>6. AssignSwbIds(moved)[i] = AssignSwbIds(Items)[i]
        BY <2>3, <2>4, <2>5, MovedKeepIds
  <2> QED BY <2>1, <2>6 DEF moved
<1> QED BY <1>1, EnrichmentIsFaithful, PTL

\* When a finding is fixed the others keep their ids, but for those of the same
\* material that come after it, however many there are and in whatever order
\* the report lists them.
THEOREM FixesKeepOthers == Spec => []FixKeepsOthers
<1>1. IngestInv => FixKeepsOthers
  <2> SUFFICES ASSUME GatherInv, WrittenInv, Written,
                      NEW gone \in DOMAIN prepared, NEW i \in DOMAIN prepared,
                      \/ Items[i].level # Items[gone].level
                      \/ Items[i].base # Items[gone].base
                      \/ Precedes(Items, i, gone)
               PROVE  AssignSwbIds(Without(Items, gone))[IF i < gone THEN i ELSE i - 1]
                        = meta[i].swb_id
      BY DEF IngestInv, FixKeepsOthers
  <2> DEFINE n == Len(prepared)
             j == IF i < gone THEN i ELSE i - 1
             S == {Items[k] : k \in 1..n}
  <2>1. /\ n \in Nat /\ DOMAIN prepared = 1..n /\ DOMAIN Items = 1..n /\ Keyed(Items)
        BY ItemsAreKeyed
  <2>2. Items \in Seq(S) /\ Len(Items) = n
    <3>1. Items \in [1..n -> S]
          BY <2>1 DEF Items
    <3> HIDE DEF S
    <3> QED BY <2>1, <3>1, SeqDef, LenProperties
  <2>3. i # gone
        BY <2>1, PrecedesIsOrder
  <2>4. i \in 1..n /\ gone \in 1..n
        BY <2>1
  <2>5. j \in 1..(n - 1) /\ Origin(gone, j) = i
        BY <2>1, <2>3, <2>4 DEF Origin
  <2>6. ~(gone \in Group(Items, i) /\ Precedes(Items, gone, i))
        BY <2>1, <2>4, PrecedesIsOrder DEF Group
  <2> HIDE DEF n, j, S
  <2>7. AssignSwbIds(Without(Items, gone))[j] = AssignSwbIds(Items)[i]
        BY <2>2, <2>4, <2>5, <2>6, SurvivorKeepsId
  <2>8. meta[i].swb_id = AssignSwbIds(Items)[i]
        BY DEF WrittenInv, Written
  <2> QED BY <2>7, <2>8 DEF j
<1> QED BY <1>1, EnrichmentIsFaithful, PTL

\* Reconciliation as the code spells it, four lists of problems that must all
\* be empty, leaves only one-to-one matches of located results and findings.
THEOREM AcceptanceIsOneToOne == Spec => []AcceptedIsOneToOne
<1>1. Init => AcceptedIsOneToOne
      BY DEF Init, AcceptedIsOneToOne
<1>2. AcceptedIsOneToOne /\ [Next]_vars => AcceptedIsOneToOne'
  <2> SUFFICES ASSUME AcceptedIsOneToOne, [Next]_vars PROVE AcceptedIsOneToOne'
      OBVIOUS
  <2>1. CASE Accept
    <3>1. /\ report' = report /\ meta' = meta
          /\ ValidFindings /\ Unanchored = {} /\ ClaimedTwice = {} /\ Missing = {}
          BY <2>1 DEF Accept, Reconciled
    <3>2. \A i \in DOMAIN meta : meta[i].locator \in WithLocations /\ meta[i].locator \in Seen
          BY <3>1 DEF Unanchored, Seen
    <3>3. \A i, j \in DOMAIN meta : meta[i].locator = meta[j].locator => i = j
          BY <3>1, <3>2 DEF ClaimedTwice
    <3>4. \A n \in WithLocations : \E i \in DOMAIN meta : meta[i].locator = n
          BY <3>1 DEF Missing, Seen
    <3> QED BY <3>1, <3>2, <3>3, <3>4 DEF AcceptedIsOneToOne, WithLocations, ValidFindings
  <2>2. CASE GatherResult
        BY <2>2 DEF GatherResult, AcceptedIsOneToOne
  <2>3. CASE SkipResult
        BY <2>3 DEF SkipResult, AcceptedIsOneToOne
  <2>4. CASE WriteMeta
        BY <2>4 DEF WriteMeta, AcceptedIsOneToOne
  <2>5. CASE EditMeta
        BY <2>5 DEF EditMeta, AcceptedIsOneToOne
  <2>6. CASE Refuse
        BY <2>6 DEF Refuse, AcceptedIsOneToOne
  <2>7. CASE UNCHANGED vars
        BY <2>7 DEF vars, AcceptedIsOneToOne
  <2> QED BY <2>1, <2>2, <2>3, <2>4, <2>5, <2>6, <2>7 DEF Next
<1> QED BY <1>1, <1>2, PTL DEF Spec

\* Findings of the same result tie.
LEMMA SameResultTies ==
    ASSUME GatherInv, NEW i \in DOMAIN prepared, NEW j \in DOMAIN prepared,
           ResultOf(j) = ResultOf(i)
    PROVE  j \in Tied(i)
<1>1. /\ Items[i] = ItemOf(report, source, prepared[i].locator)
      /\ Items[j] = ItemOf(report, source, prepared[j].locator)
      /\ DOMAIN Items = DOMAIN prepared
      BY DEF GatherInv, Items
<1>2. Items[i] = Items[j]
      BY <1>1 DEF ItemOf, ResultOf
<1> QED BY <1>1, <1>2 DEF Tied, Group

\* The scanner may list its results in any order: those that level, material
\* and sort key do not tell apart share the same ids between them, so a result
\* with which no different one ties always has the same ids.
THEOREM OrderDoesNotMatter == Spec => []OrderIndependent
<1>1. IngestInv => OrderIndependent
  <2> SUFFICES ASSUME GatherInv, WrittenInv, Written, NEW p \in Reorderings,
                      NEW i \in DOMAIN prepared
               PROVE  LET ids      == AssignSwbIds([j \in DOMAIN prepared |-> Items[p[j]]])
                          Same(j)  == ResultOf(j) = ResultOf(i)
                      IN  /\ {ids[j] : j \in {k \in DOMAIN prepared : p[k] \in Tied(i)}} =
                                {meta[j].swb_id : j \in Tied(i)}
                          /\ (\A j \in Tied(i) : Same(j)) =>
                                {ids[j] : j \in {k \in DOMAIN prepared : Same(p[k])}} =
                                   {meta[j].swb_id : j \in {k \in DOMAIN prepared : Same(k)}}
      BY DEF IngestInv, OrderIndependent
  <2> DEFINE n == Len(prepared)
             other == [j \in DOMAIN prepared |-> Items[p[j]]]
             ids == AssignSwbIds(other)
             Same(j) == ResultOf(j) = ResultOf(i)
  <2>1. /\ n \in Nat /\ DOMAIN prepared = 1..n /\ DOMAIN Items = 1..n /\ Keyed(Items)
        BY ItemsAreKeyed
  <2>2. \A j \in 1..n : meta[j].swb_id = AssignSwbIds(Items)[j]
        BY <2>1 DEF WrittenInv, Written
  <2>3. p \in [1..n -> 1..n] /\ \A k, j \in 1..n : p[k] = p[j] => k = j
        BY <2>1 DEF Reorderings
  <2> HIDE DEF n
  <2>4. IsFiniteSet(1..n)
        BY <2>1, FS_Interval
  <2>5. \A t \in 1..n : \E k \in 1..n : p[k] = t
    <3> DEFINE places == 1..n
    <3> HIDE DEF places
    <3>1. p \in Injection(places, places)
          BY <2>3, Fun_IsInj DEF places
    <3>2. p \in Surjection(places, places)
          BY <2>4, <3>1, FS_Injection DEF places
    <3>3. \A t \in places : \E k \in places : p[k] = t
          BY <3>2, Fun_SurjectionProperties, Zenon
    <3> QED BY <3>3 DEF places
  <2>6. Reordered(n, Items, other, p)
        BY <2>1, <2>3, <2>5 DEF Reordered
  <2> HIDE DEF other
  <2>7. Tied(i) = Peers(Items, i) /\ Tied(i) \subseteq 1..n /\ i \in 1..n
        BY <2>1 DEF Tied, Peers, Group
  <2>8. IdsOf(other, MovedPeers(n, Items, p, i)) = IdsOf(Items, Peers(Items, i))
        BY <2>1, <2>6, <2>7, ReorderingKeepsIds
  <2> HIDE DEF ids
  <2>9. {ids[j] : j \in {k \in DOMAIN prepared : p[k] \in Tied(i)}}
          = {meta[j].swb_id : j \in Tied(i)}
    <3>1. {meta[j].swb_id : j \in Tied(i)} = {AssignSwbIds(Items)[j] : j \in Tied(i)}
          BY <2>2, <2>7
    <3>2. {ids[j] : j \in {k \in DOMAIN prepared : p[k] \in Tied(i)}}
            = IdsOf(other, MovedPeers(n, Items, p, i))
          BY <2>1, <2>7 DEF ids, IdsOf, MovedPeers
    <3> QED BY <2>7, <2>8, <3>1, <3>2 DEF IdsOf
  <2>10. ASSUME \A j \in Tied(i) : Same(j)
         PROVE  {ids[j] : j \in {k \in DOMAIN prepared : Same(p[k])}}
                  = {meta[j].swb_id : j \in {k \in DOMAIN prepared : Same(k)}}
    <3>1. \A k \in DOMAIN prepared : Same(k) <=> k \in Tied(i)
          BY <2>10, SameResultTies
    <3>2. \A k \in DOMAIN prepared : Same(p[k]) <=> p[k] \in Tied(i)
          BY <2>1, <2>3, <3>1
    <3>3. {k \in DOMAIN prepared : Same(k)} = Tied(i)
          BY <2>1, <2>7, <3>1
    <3>4. {k \in DOMAIN prepared : Same(p[k])} = {k \in DOMAIN prepared : p[k] \in Tied(i)}
          BY <3>2
    <3> HIDE DEF Same
    <3> QED BY <2>9, <3>3, <3>4, Zenon
  <2> QED BY <2>9, <2>10 DEF ids, other
<1> QED BY <1>1, EnrichmentIsFaithful, PTL

-----------------------------------------------------------------------------
(* The file, whoever wrote it.                                             *)

\* What a locator and an id of the file may be: an edit moves a locator only
\* onto a result or past the end, and blanks an id.
Locators == 1..(Len(report) + 1)
Levels == {"tool", "content", "legacy", ""}
Bases == {BaseHash(r, s[r.uri]) : r \in Results, s \in Sources} \cup {<<>>}
FileIds == [level : Levels, base : Bases, occurrence : Nat]
FileRows == [locator : Locators, swb_id : FileIds]

FileInv ==
    /\ report \in Reports
    /\ edits \in 0..MaxEdits
    /\ meta \in Seq(FileRows)

\* What numbering makes of the prepared results is a file.
LEMMA WrittenRows ==
    ASSUME GatherInv
    PROVE  [i \in DOMAIN prepared |->
              [locator |-> prepared[i].locator, swb_id |-> AssignSwbIds(Items)[i]]]
             \in Seq(FileRows)
<1> DEFINE n == Len(prepared)
           row(i) == [locator |-> prepared[i].locator, swb_id |-> AssignSwbIds(Items)[i]]
<1>1. /\ n \in Nat /\ DOMAIN prepared = 1..n /\ DOMAIN Items = 1..n /\ Keyed(Items)
      BY ItemsAreKeyed
<1>2. ASSUME NEW i \in 1..n PROVE row(i) \in FileRows
  <2>1. prepared[i].locator \in Locators
    <3>1. /\ prepared[i].locator \in 1..(at - 1) /\ at \in 1..(Len(report) + 1)
          /\ Len(report) \in Nat
          BY <1>1, LenProperties DEF GatherInv
    <3> QED BY <3>1 DEF Locators
  <2>2. PICK r \in Results, s \in Sources : Items[i] = IdentitySource(r, s[r.uri])
        BY <1>1, GatheredItem
  <2>3. Items[i].level = Level(r, s[r.uri]) /\ Items[i].base = BaseHash(r, s[r.uri])
        BY <2>2 DEF IdentitySource
  <2>4. Items[i].level \in Levels
    <3>1. Level(r, s[r.uri]) \in Levels
          BY DEF Level, Levels
    <3> QED BY <2>3, <3>1
  <2>5. Occurrence(Items, i) \in Nat
    <3>1. Occurrence(Items, i) \in Share(Items, i)
          BY <1>1, NumberIsOfTheShare
    <3>2. /\ Cardinality(Lower(Items, i)) \in Nat /\ Cardinality(Peers(Items, i)) \in Nat
          BY <1>1, SharesAreFinite
    <3> QED BY <3>1, <3>2 DEF Share
  <2>6. AssignSwbIds(Items)[i] = [level |-> Items[i].level, base |-> Items[i].base,
                                  occurrence |-> Occurrence(Items, i)]
        BY <1>1 DEF AssignSwbIds
  <2>7. Items[i].base \in Bases
        BY <2>3 DEF Bases
  <2>8. AssignSwbIds(Items)[i] \in FileIds
        BY <2>4, <2>5, <2>6, <2>7 DEF FileIds
  <2> QED BY <2>1, <2>8 DEF FileRows
<1> HIDE DEF row
<1>3. [i \in 1..n |-> row(i)] \in [1..n -> FileRows]
      BY <1>2
<1>4. [i \in 1..n |-> row(i)] \in Seq(FileRows)
  <2> HIDE DEF n
  <2> QED BY <1>1, <1>3, SeqDef
<1> QED BY <1>1, <1>4 DEF row

\* An edit of a file leaves a file.
LEMMA EditedRows ==
    ASSUME meta \in Seq(FileRows), Len(report) \in Nat, NEW m \in EditsOf(meta)
    PROVE  m \in Seq(FileRows)
<1>1. /\ Len(meta) \in Nat /\ DOMAIN meta = 1..Len(meta)
      /\ \A i \in 1..Len(meta) : meta[i] \in FileRows
      BY LenProperties, ElementOfSeq
<1>2. \/ \E i \in DOMAIN meta : m = Without(meta, i)
      \/ \E i \in DOMAIN meta : m = Append(meta, meta[i])
      \/ \E i \in DOMAIN meta, l \in 1..(Len(report) + 1) : m = [meta EXCEPT ![i].locator = l]
      \/ \E i \in DOMAIN meta : m = [meta EXCEPT ![i].swb_id = NoId]
      BY DEF EditsOf
<1>3. ASSUME NEW i \in DOMAIN meta, NEW row \in FileRows
      PROVE  [meta EXCEPT ![i] = row] \in Seq(FileRows)
  <2> HIDE DEF FileRows
  <2> QED BY <1>1
<1>4. ASSUME NEW row \in FileRows, NEW l \in Locators
      PROVE  [row EXCEPT !.locator = l] \in FileRows
      BY Zenon DEF FileRows
<1>5. ASSUME NEW row \in FileRows
      PROVE  [row EXCEPT !.swb_id = NoId] \in FileRows
  <2>1. NoId \in FileIds
        BY DEF NoId, FileIds, Levels, Bases
  <2> QED BY <2>1, Zenon DEF FileRows
<1>6. ASSUME NEW i \in DOMAIN meta, m = Without(meta, i) PROVE m \in Seq(FileRows)
      BY <1>1, <1>6, WithoutElement
<1>7. ASSUME NEW i \in DOMAIN meta, m = Append(meta, meta[i]) PROVE m \in Seq(FileRows)
      BY <1>1, <1>7, AppendProperties
<1>8. ASSUME NEW i \in DOMAIN meta, NEW l \in 1..(Len(report) + 1),
             m = [meta EXCEPT ![i].locator = l]
      PROVE  m \in Seq(FileRows)
  <2>1. m = [meta EXCEPT ![i] = [meta[i] EXCEPT !.locator = l]]
        BY <1>8
  <2>2. l \in Locators
        BY DEF Locators
  <2>3. [meta[i] EXCEPT !.locator = l] \in FileRows
        BY <1>1, <1>4, <2>2
  <2> QED BY <1>3, <2>1, <2>3
<1>9. ASSUME NEW i \in DOMAIN meta, m = [meta EXCEPT ![i].swb_id = NoId]
      PROVE  m \in Seq(FileRows)
  <2>1. m = [meta EXCEPT ![i] = [meta[i] EXCEPT !.swb_id = NoId]]
        BY <1>9
  <2> QED BY <1>1, <1>3, <1>5, <2>1
<1> QED BY <1>2, <1>6, <1>7, <1>8, <1>9

\* Every step leaves a report of the bounds, and rows of the file.
LEMMA FileStep ==
    ASSUME IngestInv, FileInv, [Next]_vars
    PROVE  FileInv'
<1>1. /\ report \in Reports /\ edits \in 0..MaxEdits /\ meta \in Seq(FileRows)
      /\ GatherInv
      BY DEF FileInv, IngestInv
<1>2. Len(report) \in Nat
      BY <1>1, LenProperties DEF GatherInv
<1>3. report' = report
      BY DEF Next, GatherResult, SkipResult, WriteMeta, EditMeta, Accept, Refuse, vars
<1>4. FileRows' = FileRows
      BY <1>3 DEF FileRows, FileIds, Locators, Levels, Bases
<1>5. meta' \in Seq(FileRows) /\ edits' \in 0..MaxEdits
  <2>1. CASE WriteMeta
        BY <1>1, <2>1, WrittenRows DEF WriteMeta
  <2>2. CASE EditMeta
    <3>1. meta' \in Seq(FileRows)
          BY <1>1, <1>2, <2>2, EditedRows DEF EditMeta
    <3>2. edits' = edits + 1 /\ edits < MaxEdits
          BY <2>2 DEF EditMeta
    <3> QED BY <1>1, <3>1, <3>2, BoundsAssumption
  <2>3. CASE meta' = meta /\ edits' = edits
        BY <1>1, <2>3
  <2> QED BY <2>1, <2>2, <2>3
          DEF Next, GatherResult, SkipResult, Accept, Refuse, vars
<1> QED BY <1>1, <1>3, <1>4, <1>5 DEF FileInv

\* The two programs stay within their types, and the file within what the
\* upload has to be able to read: every locator is a result of the report or
\* one past its end.
THEOREM IngestTypes == Spec => []TypeOK
<1>1. Init => IngestInv /\ FileInv
  <2> SUFFICES ASSUME Init PROVE FileInv
      BY InitEstablishes
  <2>1. meta \in Seq(FileRows)
        BY DEF Init
  <2> QED BY <2>1, BoundsAssumption DEF Init, FileInv
<1>2. IngestInv /\ FileInv /\ [Next]_vars => FileInv'
      BY FileStep
<1>3. IngestInv /\ FileInv => TypeOK
  <2> SUFFICES ASSUME IngestInv, FileInv PROVE TypeOK
      OBVIOUS
  <2>1. /\ source \in Sources /\ at \in 1..(Len(report) + 1)
        /\ pc \in {"gathering", "enriched", "accepted", "refused"}
        BY DEF IngestInv, GatherInv, WrittenInv
  <2>2. \A i \in DOMAIN meta : meta[i].locator \in 1..(Len(report) + 1)
    <3> SUFFICES ASSUME NEW i \in DOMAIN meta
                 PROVE  meta[i].locator \in 1..(Len(report) + 1)
        OBVIOUS
    <3>1. meta[i] \in FileRows
          BY LenProperties, ElementOfSeq DEF FileInv
    <3>2. meta[i].locator \in Locators
          BY <3>1, Zenon DEF FileRows
    <3> QED BY <3>2 DEF Locators
  <2> QED BY <2>1, <2>2 DEF FileInv, TypeOK
<1>4. Spec => [](IngestInv /\ FileInv)
  <2>1. Spec => []IngestInv
        BY EnrichmentIsFaithful
  <2> QED BY <1>1, <1>2, <2>1, PTL DEF Spec
<1> QED BY <1>3, <1>4, PTL
=============================================================================
