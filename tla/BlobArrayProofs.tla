---------------------------- MODULE BlobArrayProofs ----------------------------
(***************************************************************************)
(* What the edits of BlobArray return: picking positions of an array keeps *)
(* their elements, each once and in order, and every edit that the code    *)
(* allows of an array gives an array, with trailing bytes only at its end. *)
(***************************************************************************)
EXTENDS BlobArray, SequenceTheorems, FiniteSetTheorems, WellFoundedInduction,
        NaturalsInduction, TLAPS

----------------------------------------------------------------------------
(* Positions.                                                              *)

\* A set of naturals has a least element.
LEMMA Smallest ==
    ASSUME NEW T, T \subseteq Nat, T # {}
    PROVE  \E x \in T : \A y \in T : x <= y
<1>1. \E x \in T : \A y \in T : ~(<<y, x>> \in OpToRel(<, Nat))
    BY WFMin, NatLessThanWellFounded
<1>2. PICK x \in T : \A y \in T : ~(<<y, x>> \in OpToRel(<, Nat)) BY <1>1
<1>3. ASSUME NEW y \in T PROVE x <= y
    <2>1. ~(<<y, x>> \in OpToRel(<, Nat)) BY <1>2
    <2>2. x \in Nat /\ y \in Nat OBVIOUS
    <2>3. ~(y < x) BY <2>1, <2>2 DEF OpToRel
    <2> QED BY <2>2, <2>3
<1> QED BY <1>3

\* How many of the positions are at most i.
UpTo(pos, i) == {j \in pos : j <= i}
CountTo(pos, i) == Cardinality(UpTo(pos, i))

LEMMA PositionsFinite ==
    ASSUME NEW n \in Nat, NEW pos \in SUBSET (1..n)
    PROVE  /\ IsFiniteSet(pos) /\ Cardinality(pos) \in Nat
           /\ \A i : IsFiniteSet(UpTo(pos, i)) /\ CountTo(pos, i) \in Nat
<1>1. IsFiniteSet(pos)
    <2>1. IsFiniteSet(1..n) BY FS_Interval
    <2> QED BY <2>1, FS_Subset
<1>2. \A i : UpTo(pos, i) \in SUBSET pos BY DEF UpTo
<1>3. \A i : IsFiniteSet(UpTo(pos, i)) BY <1>1, <1>2, FS_Subset
<1> QED BY <1>1, <1>3, FS_CardinalityType DEF CountTo

\* The count grows by one at a position and stays elsewhere.
LEMMA CountStep ==
    ASSUME NEW n \in Nat, NEW pos \in SUBSET (1..n), NEW m \in Nat
    PROVE  /\ m + 1 \in pos => CountTo(pos, m + 1) = CountTo(pos, m) + 1
           /\ m + 1 \notin pos => CountTo(pos, m + 1) = CountTo(pos, m)
<1>1. IsFiniteSet(UpTo(pos, m)) BY PositionsFinite
<1>2. m + 1 \notin UpTo(pos, m) BY DEF UpTo
<1>3. \A j \in pos : j <= m + 1 <=> j <= m \/ j = m + 1
    <2>1. \A j \in pos : j \in Int OBVIOUS
    <2> QED BY <2>1
<1>4. CASE m + 1 \in pos
    <2>1. UpTo(pos, m + 1) = UpTo(pos, m) \cup {m + 1} BY <1>4, <1>3 DEF UpTo
    <2> QED BY <1>1, <1>2, <1>4, <2>1, FS_AddElement DEF CountTo
<1>5. CASE m + 1 \notin pos
    <2>1. UpTo(pos, m + 1) = UpTo(pos, m) BY <1>5, <1>3 DEF UpTo
    <2> QED BY <1>5, <2>1 DEF CountTo
<1> QED BY <1>4, <1>5

\* There is a k-th position for every k up to their number.
LEMMA NthIs ==
    ASSUME NEW n \in Nat, NEW pos \in SUBSET (1..n), NEW k \in 1..Cardinality(pos)
    PROVE  Nth(pos, k) \in pos /\ CountTo(pos, Nth(pos, k)) = k
<1> DEFINE T == {i \in Nat : CountTo(pos, i) >= k}
<1>1. Cardinality(pos) \in Nat /\ \A i : CountTo(pos, i) \in Nat BY PositionsFinite
<1>2. n \in T
    <2>1. \A j \in pos : j <= n OBVIOUS
    <2>2. UpTo(pos, n) = pos BY <2>1 DEF UpTo
    <2> QED BY <1>1, <2>2 DEF CountTo
<1>3. PICK m \in T : \A y \in T : m <= y
    <2>1. T \subseteq Nat /\ T # {} BY <1>2
    <2> HIDE DEF T
    <2> QED BY <2>1, Smallest
<1>4. CountTo(pos, 0) = 0
    <2>1. \A j \in pos : ~(j <= 0) OBVIOUS
    <2>2. UpTo(pos, 0) = {} BY <2>1 DEF UpTo
    <2> QED BY <2>2, FS_EmptySet DEF CountTo
<1>5. m # 0 BY <1>1, <1>4
<1>6. m - 1 \in Nat /\ m - 1 \notin T /\ m = (m - 1) + 1 BY <1>3, <1>5
<1>7. CountTo(pos, m - 1) < k BY <1>1, <1>6
<1>8. CountTo(pos, m) >= k OBVIOUS
<1> HIDE DEF T
<1>9. m \in pos /\ CountTo(pos, m) = CountTo(pos, m - 1) + 1
    <2>1. /\ m \in pos => CountTo(pos, m) = CountTo(pos, m - 1) + 1
          /\ m \notin pos => CountTo(pos, m) = CountTo(pos, m - 1)
        BY <1>6, CountStep
    <2> QED BY <1>1, <1>7, <1>8, <2>1
<1>10. CountTo(pos, m) = k BY <1>1, <1>7, <1>8, <1>9
<1>11. \E i \in pos : Cardinality({j \in pos : j <= i}) = k
    BY <1>9, <1>10 DEF CountTo, UpTo
<1> QED BY <1>11 DEF Nth, CountTo, UpTo

\* No two positions have the same number.
LEMMA CountDistinct ==
    ASSUME NEW n \in Nat, NEW pos \in SUBSET (1..n), NEW i \in pos, NEW j \in pos, i < j
    PROVE  CountTo(pos, i) < CountTo(pos, j)
<1>1. i \in Int /\ j \in Int /\ \A m \in pos : m \in Int OBVIOUS
<1>2. \A m \in pos : m <= i => m <= j BY <1>1
<1>3. UpTo(pos, i) \in SUBSET UpTo(pos, j) BY <1>2 DEF UpTo
<1>4. j \in UpTo(pos, j) /\ j \notin UpTo(pos, i) BY <1>1 DEF UpTo
<1>5. /\ IsFiniteSet(UpTo(pos, j)) /\ CountTo(pos, i) \in Nat /\ CountTo(pos, j) \in Nat
    BY PositionsFinite
<1>6. /\ CountTo(pos, i) <= CountTo(pos, j)
      /\ CountTo(pos, j) = CountTo(pos, i) => UpTo(pos, i) = UpTo(pos, j)
    BY <1>3, <1>5, FS_Subset DEF CountTo
<1> QED BY <1>4, <1>5, <1>6

\* So a position is the one its own number gives.
LEMMA NthOf ==
    ASSUME NEW n \in Nat, NEW pos \in SUBSET (1..n), NEW i \in pos
    PROVE  /\ CountTo(pos, i) \in 1..Cardinality(pos)
           /\ Nth(pos, CountTo(pos, i)) = i
<1> DEFINE k == CountTo(pos, i)
<1>1. /\ IsFiniteSet(pos) /\ Cardinality(pos) \in Nat /\ k \in Nat /\ IsFiniteSet(UpTo(pos, i))
    BY PositionsFinite
<1>2. k <= Cardinality(pos)
    <2>1. UpTo(pos, i) \in SUBSET pos BY DEF UpTo
    <2> QED BY <1>1, <2>1, FS_Subset DEF CountTo
<1>3. k # 0
    <2>1. i \in Int OBVIOUS
    <2>2. i \in UpTo(pos, i) BY <2>1 DEF UpTo
    <2> QED BY <1>1, <2>2, FS_EmptySet DEF CountTo
<1>4. k \in 1..Cardinality(pos) BY <1>1, <1>2, <1>3
<1> DEFINE m == Nth(pos, k)
<1>5. m \in pos /\ CountTo(pos, m) = k BY <1>4, NthIs
<1>6. m = i
    <2>1. ~(m < i) /\ ~(i < m)
        <3> HIDE DEF m, k
        <3>1. m < i => CountTo(pos, m) < CountTo(pos, i) BY <1>5, CountDistinct
        <3>2. i < m => CountTo(pos, i) < CountTo(pos, m) BY <1>5, CountDistinct
        <3>3. CountTo(pos, m) = CountTo(pos, i) BY <1>5 DEF k
        <3>4. CountTo(pos, i) \in Nat BY <1>1 DEF k
        <3> QED BY <3>1, <3>2, <3>3, <3>4
    <2>2. m \in Int /\ i \in Int
        <3> HIDE DEF m
        <3>1. \A j \in pos : j \in Int OBVIOUS
        <3> QED BY <1>5, <3>1
    <2> QED BY <2>1, <2>2
<1> QED BY <1>4, <1>6

----------------------------------------------------------------------------
(* Picking the elements at some positions.                                 *)

LEMMA ArrayElements ==
    ASSUME NEW a \in Arrays
    PROVE  /\ Len(a) \in Nat /\ DOMAIN a = 1..Len(a) /\ a \in Seq(Elements \cup {Junk})
           /\ \A i \in 1..Len(a) : a[i] \in Elements \cup {Junk} /\ (a[i] = Junk => i = Len(a))
BY DEF Arrays

\* The elements picked are those of the array, all of them and no others.
LEMMA PickedElements ==
    ASSUME NEW a \in Arrays, NEW pos \in SUBSET (1..Len(a))
    PROVE  /\ Len(Picked(a, pos)) = Cardinality(pos) /\ Cardinality(pos) \in Nat
           /\ \A k \in 1..Cardinality(pos) :
                 /\ Nth(pos, k) \in pos /\ Picked(a, pos)[k] = a[Nth(pos, k)]
           /\ \A i \in pos : \E k \in 1..Len(Picked(a, pos)) : Picked(a, pos)[k] = a[i]
<1>1. Len(a) \in Nat BY ArrayElements
<1>2. Cardinality(pos) \in Nat BY <1>1, PositionsFinite
<1>3. Len(Picked(a, pos)) = Cardinality(pos)
    <2>1. Picked(a, pos) \in [1..Cardinality(pos) -> {a[Nth(pos, k)] : k \in 1..Cardinality(pos)}]
        BY DEF Picked
    <2>2. DOMAIN Picked(a, pos) = 1..Cardinality(pos) BY <2>1
    <2>3. Picked(a, pos) \in Seq({a[Nth(pos, k)] : k \in 1..Cardinality(pos)}) BY <1>2, <2>1
    <2> QED BY <1>2, <2>2, <2>3
<1>4. \A k \in 1..Cardinality(pos) : Nth(pos, k) \in pos BY <1>1, NthIs
<1>5. \A k \in 1..Cardinality(pos) : Picked(a, pos)[k] = a[Nth(pos, k)] BY DEF Picked
<1>6. ASSUME NEW i \in pos
      PROVE  \E k \in 1..Len(Picked(a, pos)) : Picked(a, pos)[k] = a[i]
    <2>1. /\ CountTo(pos, i) \in 1..Cardinality(pos)
          /\ Nth(pos, CountTo(pos, i)) = i
        BY <1>1, NthOf
    <2> QED BY <1>3, <1>5, <2>1
<1> QED BY <1>2, <1>3, <1>4, <1>5, <1>6

LEMMA PickedIsArray ==
    ASSUME NEW a \in Arrays, NEW pos \in SUBSET (1..Len(a))
    PROVE  Picked(a, pos) \in Arrays
<1>1. /\ Len(a) \in Nat
      /\ \A i \in 1..Len(a) : a[i] \in Elements \cup {Junk} /\ (a[i] = Junk => i = Len(a))
    BY ArrayElements
<1>2. /\ Len(Picked(a, pos)) = Cardinality(pos) /\ Cardinality(pos) \in Nat
      /\ \A k \in 1..Cardinality(pos) : Nth(pos, k) \in pos /\ Picked(a, pos)[k] = a[Nth(pos, k)]
    BY PickedElements
<1>3. \A k \in 1..Cardinality(pos) : a[Nth(pos, k)] \in Elements \cup {Junk} BY <1>1, <1>2
<1>4. Picked(a, pos) \in [1..Cardinality(pos) -> Elements \cup {Junk}] BY <1>3 DEF Picked
<1>5. Picked(a, pos) \in Seq(Elements \cup {Junk}) BY <1>2, <1>4
<1>6. ASSUME NEW k \in 1..Cardinality(pos), Picked(a, pos)[k] = Junk
      PROVE  k = Cardinality(pos)
    <2>1. Nth(pos, k) = Len(a) BY <1>1, <1>2, <1>6
    <2>2. CountTo(pos, Len(a)) = k BY <1>1, <2>1, NthIs
    <2>3. \A j \in pos : j <= Len(a) BY <1>1
    <2>4. UpTo(pos, Len(a)) = pos BY <2>3 DEF UpTo
    <2> QED BY <2>2, <2>4 DEF CountTo
<1> QED BY <1>2, <1>5, <1>6 DEF Arrays

\* Nothing picked from an array without trailing bytes is trailing bytes.
LEMMA PickedNotTrailing ==
    ASSUME NEW a \in Arrays, NEW pos \in SUBSET (1..Len(a)), ~Trailing(a)
    PROVE  ~Trailing(Picked(a, pos))
<1>1. /\ Len(a) \in Nat /\ a \in Seq(Elements \cup {Junk})
      /\ \A i \in 1..Len(a) : a[i] = Junk => i = Len(a)
    BY ArrayElements
<1>2. \A i \in 1..Len(a) : a[i] # Junk BY <1>1 DEF Trailing
<1>3. /\ Len(Picked(a, pos)) = Cardinality(pos) /\ Cardinality(pos) \in Nat
      /\ \A k \in 1..Cardinality(pos) : Nth(pos, k) \in pos /\ Picked(a, pos)[k] = a[Nth(pos, k)]
    BY PickedElements
<1> SUFFICES ASSUME Picked(a, pos) # <<>>, Picked(a, pos)[Len(Picked(a, pos))] = Junk
             PROVE  FALSE
    BY DEF Trailing
<1>4. Cardinality(pos) # 0
    <2>1. Picked(a, pos) \in Arrays BY PickedIsArray
    <2>2. Picked(a, pos) \in Seq(Elements \cup {Junk}) BY <2>1, ArrayElements
    <2> QED BY <1>3, <2>2
<1>5. Cardinality(pos) \in 1..Cardinality(pos) BY <1>3, <1>4
<1> QED BY <1>2, <1>3, <1>5

----------------------------------------------------------------------------
(* The edits.                                                              *)

LEMMA AppendIsArray ==
    ASSUME NEW a \in Arrays, ~Trailing(a), NEW e \in Elements \cup {Junk}
    PROVE  Append(a, e) \in Arrays
<1>1. /\ Len(a) \in Nat /\ a \in Seq(Elements \cup {Junk})
      /\ \A i \in 1..Len(a) : a[i] = Junk => i = Len(a)
    BY ArrayElements
<1>2. \A i \in 1..Len(a) : a[i] # Junk BY <1>1 DEF Trailing
<1>3. /\ Append(a, e) \in Seq(Elements \cup {Junk}) /\ Len(Append(a, e)) = Len(a) + 1
      /\ \A i \in 1..Len(a) : Append(a, e)[i] = a[i]
    BY <1>1
<1>4. ASSUME NEW i \in 1..Len(Append(a, e)), Append(a, e)[i] = Junk
      PROVE  i = Len(Append(a, e))
    BY <1>1, <1>2, <1>3, <1>4
<1> QED BY <1>3, <1>4 DEF Arrays

LEMMA ReplaceIsArray ==
    ASSUME NEW a \in Arrays, NEW i, NEW e \in Elements
    PROVE  [a EXCEPT ![i] = e] \in Arrays
<1>1. /\ Len(a) \in Nat /\ a \in Seq(Elements \cup {Junk})
      /\ \A j \in 1..Len(a) : a[j] = Junk => j = Len(a)
    BY ArrayElements
<1> DEFINE f == [a EXCEPT ![i] = e]
<1>2. e # Junk BY BlobArrayAssumption
<1>3. a \in [1..Len(a) -> Elements \cup {Junk}] BY <1>1
<1>4. f \in [1..Len(a) -> Elements \cup {Junk}] BY <1>3, Zenon
<1>5. \A j \in 1..Len(a) : f[j] = e \/ f[j] = a[j] BY <1>3
<1> HIDE DEF f
<1>6. f \in Seq(Elements \cup {Junk}) /\ Len(f) = Len(a) BY <1>1, <1>4
<1>7. f \in Arrays BY <1>1, <1>2, <1>5, <1>6 DEF Arrays
<1> QED BY <1>7 DEF f

LEMMA EmptyIsArray == <<>> \in Arrays
BY DEF Arrays

\* with_label: the other elements, and the name after them.
LEMMA WithLabelIsArray ==
    ASSUME NEW a \in Arrays, ~Trailing(a), NEW name \in Elements \cup {NoItem}
    PROVE  WithLabel(a, name) \in Arrays
<1> DEFINE pos == (1..Len(a)) \ NamePositions(a)
<1>1. pos \in SUBSET (1..Len(a)) OBVIOUS
<1> HIDE DEF pos
<1>2. Picked(a, pos) \in Arrays /\ ~Trailing(Picked(a, pos))
    BY <1>1, PickedIsArray, PickedNotTrailing
<1>3. name # NoItem => Append(Picked(a, pos), name) \in Arrays
    BY <1>2, AppendIsArray
<1> QED BY <1>2, <1>3 DEF WithLabel, pos

\* What an index names is an entry of the array.
LEMMA EntryIs ==
    ASSUME NEW a \in Arrays, NEW i, HasEntry(a, i)
    PROVE  EntryAt(a, i) \in Elements
<1>1. Len(a) \in Nat BY ArrayElements
<1>2. EntryPositions(a) \in SUBSET (1..Len(a)) BY DEF EntryPositions
<1>3. Nth(EntryPositions(a), i) \in EntryPositions(a) BY <1>1, <1>2, NthIs DEF HasEntry
<1> QED BY <1>3 DEF EntryAt, ItemIndex, EntryPositions, Entries

\* The first of the positions where an element is, if it is anywhere.
LEMMA FirstIs ==
    ASSUME NEW a \in Arrays, NEW e, \E k \in 1..Len(a) : a[k] = e
    PROVE  LET d == Nth({i \in 1..Len(a) : a[i] = e}, 1)
           IN  d \in 1..Len(a) /\ a[d] = e
<1> DEFINE pos == {i \in 1..Len(a) : a[i] = e}
<1>1. Len(a) \in Nat BY ArrayElements
<1>2. pos \in SUBSET (1..Len(a)) /\ pos # {} OBVIOUS
<1> HIDE DEF pos
<1>3. IsFiniteSet(pos) /\ Cardinality(pos) \in Nat BY <1>1, <1>2, PositionsFinite
<1>4. Cardinality(pos) # 0 BY <1>2, <1>3, FS_EmptySet
<1>5. 1 \in 1..Cardinality(pos) BY <1>3, <1>4
<1>6. Nth(pos, 1) \in pos BY <1>1, <1>2, <1>5, NthIs
<1> QED BY <1>6 DEF pos

\* without_item: every element but the one left out is still there.
LEMMA WithoutItemKeeps ==
    ASSUME NEW a \in Arrays, NEW d, NEW i \in 1..Len(a), i # d
    PROVE  \E j \in 1..Len(WithoutItem(a, d)) : WithoutItem(a, d)[j] = a[i]
<1> DEFINE pos == (1..Len(a)) \ {d}
<1>1. pos \in SUBSET (1..Len(a)) /\ i \in pos OBVIOUS
<1> HIDE DEF pos
<1>2. \E j \in 1..Len(Picked(a, pos)) : Picked(a, pos)[j] = a[i] BY <1>1, PickedElements
<1> QED BY <1>2 DEF WithoutItem, pos
=============================================================================
