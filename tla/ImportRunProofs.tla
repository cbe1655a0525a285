-------------------------- MODULE ImportRunProofs --------------------------
(***************************************************************************)
(* Theorems about ImportRun, for every file, every key and every import:   *)
(* the report of a run is true, a code the key listed when the writing     *)
(* began is changed only by a row shown as replacing it, what the plan     *)
(* lets through fits the command, the room it counts is there, and one try *)
(* of the secret is spent at most.                                         *)
(*                                                                         *)
(* What the recursion over the file gives is proved by looking at the      *)
(* least entry for which it would fail.                                    *)
(***************************************************************************)
EXTENDS ImportRun, FiniteSetTheorems, WellFoundedInduction, TLAPS

(***************************************************************************)
(* A nonempty set of naturals has its Min.                                 *)
(***************************************************************************)
LEMMA MinIsLeast ==
    ASSUME NEW S, S \subseteq Nat, S # {}
    PROVE  Min(S) \in S /\ \A y \in S : Min(S) <= y
<1> DEFINE R == {ss \in Nat \X Nat : ss[1] < ss[2]}
<1>1. IsWellFoundedOn(R, Nat)
  BY NatLessThanWellFounded, Zenon DEF OpToRel
<1>2. PICK x \in S : \A y \in S : ~(<<y, x>> \in R)
  <2> HIDE DEF R
  <2> QED BY <1>1, WFMin, Zenon
<1>3. ASSUME NEW y \in S PROVE x <= y
  <2>1. y \in Nat /\ x \in Nat
    OBVIOUS
  <2>2. <<y, x>> \in Nat \X Nat /\ <<y, x>>[1] = y /\ <<y, x>>[2] = x
    BY <2>1
  <2>3. ~(y < x)
    BY <1>2, <2>2, Zenon
  <2> QED BY <2>1, <2>3
<1> QED BY <1>2, <1>3 DEF Min

-----------------------------------------------------------------------------
(***************************************************************************)
(* The recursive function of SeenIn exists, so its equation holds.         *)
(***************************************************************************)
SeenNext(seen, e, store, names, replace) ==
    LET n == NameOn(e, store)
        v == VerdictOf(n, store, names, seen, replace)
    IN  IF v = "skip" THEN seen ELSE seen \cup {n}

LEMMA SeenEquation ==
    ASSUME NEW file, NEW store, NEW names, NEW replace, Len(file) \in Nat
    PROVE  \A i \in 0..Len(file) :
             SeenIn(file, store, names, replace)[i] =
               IF i = 0 THEN {}
               ELSE SeenNext(SeenIn(file, store, names, replace)[i - 1],
                             file[i], store, names, replace)
<1> DEFINE N == Len(file)
           Then(x, i) == SeenNext(x, file[i], store, names, replace)
           Good(g, n) == g = [i \in 0..n |-> IF i = 0 THEN {} ELSE Then(g[i - 1], i)]
           Bad == {n \in 0..N : ~\E g : Good(g, n)}
<1> HIDE DEF Then
<1>1. Bad = {}
  <2> SUFFICES ASSUME Bad # {} PROVE FALSE
    OBVIOUS
  <2> DEFINE m == Min(Bad)
  <2>1. m \in Bad /\ \A y \in Bad : m <= y
    <3>1. Bad \subseteq Nat
      OBVIOUS
    <3> HIDE DEF Bad
    <3> QED BY <3>1, MinIsLeast
  <2> HIDE DEF m
  <2>2. m \in 0..N /\ ~\E g : Good(g, m)
    BY <2>1
  <2>3. m # 0
    <3> DEFINE g == [i \in 0..0 |-> {}]
    <3>1. Good(g, 0)
      OBVIOUS
    <3> QED BY <3>1, <2>2
  <2>4. m - 1 \in 0..N /\ m - 1 \notin Bad
    <3>1. m \in 0..N
      BY <2>2
    <3> HIDE DEF Bad
    <3> QED BY <2>1, <3>1, <2>3
  <2>5. PICK g : Good(g, m - 1)
    BY <2>4
  <2> DEFINE h == [i \in 0..m |-> IF i = m THEN Then(g[m - 1], m) ELSE g[i]]
  <2>6. ASSUME NEW i \in 0..m
        PROVE  h[i] = IF i = 0 THEN {} ELSE Then(h[i - 1], i)
    <3>1. CASE i = m
      BY <3>1, <2>2, <2>3
    <3>2. CASE i # m
      <4>1. i \in 0..(m - 1) /\ h[i] = g[i]
        BY <3>2, <2>2
      <4>2. g[i] = IF i = 0 THEN {} ELSE Then(g[i - 1], i)
        BY <4>1, <2>5
      <4>3. i # 0 => h[i - 1] = g[i - 1]
        BY <4>1, <2>2
      <4> QED BY <4>1, <4>2, <4>3
    <3> QED BY <3>1, <3>2
  <2>7. Good(h, m)
    <3>1. h = [i \in 0..m |-> h[i]]
      OBVIOUS
    <3> HIDE DEF h
    <3> QED BY <3>1, <2>6
  <2> QED BY <2>7, <2>2
<1>2. \E g : Good(g, N)
  BY <1>1
<1> DEFINE seen == CHOOSE g : Good(g, N)
<1>3. Good(seen, N)
  BY <1>2
<1>4. SeenIn(file, store, names, replace) = seen
  BY DEF SeenIn, SeenNext, Then
<1> HIDE DEF seen
<1>5. ASSUME NEW i \in 0..N
      PROVE  seen[i] = IF i = 0 THEN {} ELSE Then(seen[i - 1], i)
  BY <1>3
<1> QED BY <1>4, <1>5 DEF Then

(***************************************************************************)
(* Names planned stay planned.                                             *)
(***************************************************************************)
LEMMA SeenGrows ==
    ASSUME NEW file, NEW store, NEW names, NEW replace, Len(file) \in Nat,
           NEW i \in 0..Len(file), NEW j \in 0..Len(file), i <= j
    PROVE  SeenIn(file, store, names, replace)[i] \subseteq
             SeenIn(file, store, names, replace)[j]
<1> DEFINE seen == SeenIn(file, store, names, replace)
           Bad == {k \in i..Len(file) : ~(seen[i] \subseteq seen[k])}
<1>1. \A k \in 1..Len(file) : seen[k - 1] \subseteq seen[k]
  <2> TAKE k \in 1..Len(file)
  <2>1. seen[k] = SeenNext(seen[k - 1], file[k], store, names, replace)
    BY SeenEquation
  <2> QED BY <2>1 DEF SeenNext
<1> HIDE DEF seen
<1>2. Bad = {}
  <2> SUFFICES ASSUME Bad # {} PROVE FALSE
    OBVIOUS
  <2> DEFINE m == Min(Bad)
  <2>1. Bad \subseteq Nat
    OBVIOUS
  <2>2. m \in Bad /\ \A y \in Bad : m <= y
    <3> HIDE DEF Bad
    <3> QED BY <2>1, MinIsLeast
  <2> HIDE DEF m
  <2>3. m \in i..Len(file) /\ m # i /\ ~(seen[i] \subseteq seen[m])
    BY <2>2
  <2>4. m - 1 \notin Bad
    <3> HIDE DEF Bad
    <3> QED BY <2>2, <2>3
  <2>5. m - 1 \in i..Len(file) /\ m \in 1..Len(file)
    BY <2>3
  <2> QED BY <2>3, <2>4, <2>5, <1>1
<1>3. j \notin Bad
  BY <1>2
<1> QED BY <1>3 DEF seen

-----------------------------------------------------------------------------
(***************************************************************************)
(* The rows of a plan: one per entry; a row that adds does so under a name *)
(* the key did not list; a row that writes has a place on the key; and no  *)
(* two of them have the same.                                              *)
(***************************************************************************)
LEMMA NamedDistinct ==
    ASSUME NEW file, NEW store, NEW names, NEW replace, Len(file) \in Nat,
           NEW i \in 1..Len(file), NEW j \in 1..Len(file), i < j,
           NameOn(file[i], store) = NameOn(file[j], store),
           NamedRows(file, store, names, replace)[i].verdict # "skip"
    PROVE  NamedRows(file, store, names, replace)[j].verdict = "skip"
<1> DEFINE seen == SeenIn(file, store, names, replace)
           n == NameOn(file[i], store)
<1>1. VerdictOf(n, store, names, seen[i - 1], replace) # "skip"
  BY DEF NamedRows
<1>2. seen[i] = SeenNext(seen[i - 1], file[i], store, names, replace)
  BY SeenEquation
<1>3. n \in seen[i]
  BY <1>1, <1>2 DEF SeenNext
<1>4. seen[i] \subseteq seen[j - 1]
  BY SeenGrows
<1>5. n \in seen[j - 1]
  BY <1>3, <1>4
<1>6. VerdictOf(n, store, names, seen[j - 1], replace) = "skip"
  BY <1>5 DEF VerdictOf
<1> QED BY <1>6 DEF NamedRows

LEMMA NamedAdds ==
    ASSUME NEW file, NEW store, NEW names, NEW replace, Len(file) \in Nat,
           NEW i \in 1..Len(file)
    PROVE  LET row == NamedRows(file, store, names, replace)[i] IN
           /\ row = [name |-> NameOn(file[i], store), verdict |-> row.verdict]
           /\ row.verdict = "add" => row.name \notin names
           /\ writes(row) => row.name # NoName
<1> DEFINE seen == SeenIn(file, store, names, replace)
           n == NameOn(file[i], store)
           v == VerdictOf(n, store, names, seen[i - 1], replace)
<1>1. NamedRows(file, store, names, replace)[i] = [name |-> n, verdict |-> v]
  BY DEF NamedRows
<1> HIDE DEF n, seen
<1>2. v = "add" => n \notin names
  BY DEF VerdictOf
<1>3. v \in {"add", "replace"} => n # NoName
  BY DEF VerdictOf
<1> HIDE DEF v
<1> QED BY <1>1, <1>2, <1>3 DEF writes, n

LEMMA RoomKeeps ==
    ASSUME NEW r, NEW on_key, NEW cap, NEW i \in DOMAIN r
    PROVE  LET row == WithRoom(r, on_key, cap)[i] IN
           /\ DOMAIN WithRoom(r, on_key, cap) = DOMAIN r
           /\ row = r[i] \/ row = [r[i] EXCEPT !.verdict = "skip"]
  BY DEF WithRoom

LEMMA SlotsDistinct ==
    ASSUME NEW file, NEW first \in Nat, Len(file) \in Nat,
           NEW i \in 1..Len(file), NEW j \in 1..Len(file), i < j, TakesSlot(file[i])
    PROVE  LET Before(k) == {q \in 1..(k - 1) : TakesSlot(file[q])}
           IN  /\ Cardinality(Before(i)) \in Nat
               /\ Cardinality(Before(j)) \in Nat
               /\ Cardinality(Before(i)) < Cardinality(Before(j))
<1> DEFINE Before(k) == {q \in 1..(k - 1) : TakesSlot(file[q])}
<1>1. IsFiniteSet(1..(i - 1)) /\ IsFiniteSet(1..(j - 1))
  <2>1. 1 \in Int /\ i - 1 \in Int /\ j - 1 \in Int
    OBVIOUS
  <2> QED BY <2>1, FS_Interval
<1>2. IsFiniteSet(Before(i)) /\ IsFiniteSet(Before(j))
  <2>1. Before(i) \subseteq 1..(i - 1) /\ Before(j) \subseteq 1..(j - 1)
    OBVIOUS
  <2> HIDE DEF Before
  <2> QED BY <1>1, <2>1, FS_Subset
<1>3. i \notin Before(i) /\ Before(i) \cup {i} \subseteq Before(j)
  OBVIOUS
<1> HIDE DEF Before
<1>4. IsFiniteSet(Before(i) \cup {i}) /\ Cardinality(Before(i) \cup {i}) = Cardinality(Before(i)) + 1
  BY <1>2, <1>3, FS_AddElement
<1>5. Cardinality(Before(i) \cup {i}) <= Cardinality(Before(j))
  BY <1>2, <1>3, FS_Subset
<1>6. Cardinality(Before(i)) \in Nat /\ Cardinality(Before(j)) \in Nat
  BY <1>2, FS_CardinalityType
<1>7. Cardinality(Before(i)) < Cardinality(Before(j))
  BY <1>4, <1>5, <1>6
<1> QED BY <1>6, <1>7 DEF Before

PlanFor(im, names, h) == plan(im.file, im.store, im.first, names, h, im.replace)

LEMMA ImportFacts ==
    ASSUME NEW im \in Imports
    PROVE  /\ im.store \in Stores
           /\ Len(im.file) \in Nat /\ DOMAIN im.file = 1..Len(im.file)
           /\ im.first \in 0..LastSlot /\ LastSlot \in Nat
  BY ImportRunAssumption, ImportPlanAssumption

LEMMA PlanRows ==
    ASSUME NEW im \in Imports, NEW names, NEW h
    PROVE  LET P == PlanFor(im, names, h) IN
           /\ DOMAIN P = 1..Len(im.file)
           /\ \A i \in DOMAIN P : P[i].verdict = "add" => P[i].name \notin names
           /\ \A i \in DOMAIN P : writes(P[i]) => P[i].name \in PlacesOf(im)
           /\ \A i, j \in DOMAIN P :
                  writes(P[i]) /\ writes(P[j]) /\ P[i].name = P[j].name => i = j
<1> DEFINE P == PlanFor(im, names, h)
           N == Len(im.file)
<1>0. N \in Nat /\ im.first \in Nat /\ LastSlot \in Nat /\ DOMAIN im.file = 1..N
  BY ImportFacts
<1>1. CASE im.store = "molto2"
  <2> DEFINE Slot(i) == im.first + Cardinality({q \in 1..(i - 1) : TakesSlot(im.file[q])})
  <2>1. P = molto_plan(im.file, im.first, names)
    BY <1>1 DEF PlanFor, plan
  <2>2. DOMAIN P = 1..N
    BY <2>1 DEF molto_plan
  <2>3. ASSUME NEW i \in 1..N, P[i].verdict # "skip"
        PROVE  /\ TakesSlot(im.file[i]) /\ ~(Slot(i) > LastSlot)
               /\ P[i] = [name |-> Slot(i),
                          verdict |-> IF Slot(i) \in names THEN "replace" ELSE "add"]
    <3> DEFINE none == [name |-> NoName, verdict |-> "skip"]
    <3>1. P[i] = IF ~TakesSlot(im.file[i]) \/ Slot(i) > LastSlot THEN none
                 ELSE [name |-> Slot(i),
                       verdict |-> IF Slot(i) \in names THEN "replace" ELSE "add"]
      BY <2>1 DEF molto_plan
    <3>2. P[i] # none
      <4> HIDE DEF P
      <4> QED BY <2>3
    <3> HIDE DEF P, Slot, none
    <3> QED BY <3>1, <3>2
  <2>4. ASSUME NEW i \in 1..N, P[i].verdict = "add"
        PROVE  P[i].name \notin names
    <3> DEFINE v == IF Slot(i) \in names THEN "replace" ELSE "add"
    <3> HIDE DEF P, Slot
    <3>1. P[i] = [name |-> Slot(i), verdict |-> v]
      BY <2>3, <2>4
    <3>2. v = "add" /\ P[i].name = Slot(i)
      <4> HIDE DEF v
      <4> QED BY <3>1, <2>4
    <3> QED BY <3>2
  <2>5. ASSUME NEW i \in 1..N, writes(P[i])
        PROVE  TakesSlot(im.file[i]) /\ P[i].name = Slot(i) /\ ~(Slot(i) > LastSlot)
    <3> HIDE DEF P, Slot
    <3>1. P[i].verdict # "skip"
      BY <2>5 DEF writes
    <3>2. /\ TakesSlot(im.file[i]) /\ ~(Slot(i) > LastSlot)
          /\ \E v : P[i] = [name |-> Slot(i), verdict |-> v]
      BY <2>3, <3>1, Zenon
    <3>3. PICK v : P[i] = [name |-> Slot(i), verdict |-> v]
      BY <3>2
    <3>4. P[i].name = Slot(i)
      BY <3>3
    <3> QED BY <3>2, <3>4
  <2>6. ASSUME NEW i \in 1..N
        PROVE  Slot(i) \in Nat
    <3> DEFINE B == {q \in 1..(i - 1) : TakesSlot(im.file[q])}
    <3>1. IsFiniteSet(1..(i - 1)) /\ B \subseteq 1..(i - 1)
      BY FS_Interval
    <3>2. Cardinality(B) \in Nat
      <4> HIDE DEF B
      <4> QED BY <3>1, FS_Subset, FS_CardinalityType
    <3> QED BY <3>2, <1>0
  <2>7. ASSUME NEW i \in 1..N, writes(P[i])
        PROVE  P[i].name \in PlacesOf(im)
    <3> HIDE DEF Slot, P
    <3> QED BY <2>5, <2>6, <2>7, <1>0, <1>1 DEF PlacesOf
  <2>8. ASSUME NEW i \in 1..N, NEW j \in 1..N, i < j, writes(P[i]), writes(P[j])
        PROVE  P[i].name # P[j].name
    <3>1. Slot(i) < Slot(j)
      <4>1. TakesSlot(im.file[i])
        BY <2>5, <2>8
      <4> DEFINE B(k) == {q \in 1..(k - 1) : TakesSlot(im.file[q])}
      <4>2. /\ Cardinality(B(i)) \in Nat /\ Cardinality(B(j)) \in Nat
            /\ Cardinality(B(i)) < Cardinality(B(j))
        BY <4>1, <2>8, <1>0, SlotsDistinct
      <4> QED BY <4>2, <1>0
    <3> HIDE DEF Slot, P
    <3> QED BY <3>1, <2>5, <2>6, <2>8
  <2>9. \A i, j \in 1..N : writes(P[i]) /\ writes(P[j]) /\ P[i].name = P[j].name => i = j
    <3> TAKE i \in 1..N, j \in 1..N
    <3> HIDE DEF P, N
    <3>1. i = j \/ i < j \/ j < i
      BY <1>0
    <3> QED BY <3>1, <2>8
  <2> HIDE DEF P
  <2> QED BY <2>2, <2>4, <2>7, <2>9 DEF P
<1>2. CASE im.store # "molto2"
  <2> DEFINE r == NamedRows(im.file, im.store, names, im.replace)
             c == Cardinality(names) + h
             cap == Capacity[im.store]
             n(i) == NameOn(im.file[i], im.store)
  <2>1. P = WithRoom(r, c, cap)
    BY <1>2 DEF PlanFor, plan
  <2>2. DOMAIN r = 1..N
    BY DEF NamedRows
  <2>3. ASSUME NEW i \in 1..N
        PROVE  /\ DOMAIN P = 1..N
               /\ P[i] = r[i] \/ P[i] = [r[i] EXCEPT !.verdict = "skip"]
    <3> HIDE DEF P, r
    <3> QED BY <2>1, <2>2, RoomKeeps
  <2>4. ASSUME NEW i \in 1..N
        PROVE  /\ r[i] = [name |-> n(i), verdict |-> r[i].verdict]
               /\ r[i].verdict = "add" => r[i].name \notin names
               /\ writes(r[i]) => r[i].name # NoName
    <3> HIDE DEF N
    <3>1. N \in Nat
      BY <1>0
    <3> QED BY <3>1, NamedAdds DEF N
  <2>5. DOMAIN P = 1..N
    BY <2>1, <2>2 DEF WithRoom
  <2>6. ASSUME NEW i \in 1..N, P[i].verdict # "skip"
        PROVE  P[i] = r[i] /\ P[i].name = n(i)
    <3> HIDE DEF P, r, n
    <3>1. PICK v : r[i] = [name |-> n(i), verdict |-> v]
      BY <2>4
    <3>2. [r[i] EXCEPT !.verdict = "skip"].verdict = "skip"
      BY <3>1
    <3>3. P[i] = r[i]
      BY <2>3, <2>6, <3>2
    <3> QED BY <3>1, <3>3
  <2>7. ASSUME NEW i \in 1..N, P[i].verdict = "add"
        PROVE  P[i].name \notin names
    <3> HIDE DEF P, r, n
    <3> QED BY <2>4, <2>6, <2>7
  <2>8. ASSUME NEW i \in 1..N, writes(P[i])
        PROVE  P[i].name \in PlacesOf(im)
    <3>1. P[i].name = n(i) /\ n(i) # NoName
      <4> HIDE DEF P, r, n
      <4> QED BY <2>4, <2>6, <2>8 DEF writes
    <3> HIDE DEF P
    <3> QED BY <3>1, <1>0, <1>2 DEF PlacesOf
  <2>9. ASSUME NEW i \in 1..N, NEW j \in 1..N, i < j, writes(P[i]), writes(P[j])
        PROVE  P[i].name # P[j].name
    <3> SUFFICES ASSUME P[i].name = P[j].name PROVE FALSE
      OBVIOUS
    <3>1. P[i] = r[i] /\ P[j] = r[j] /\ n(i) = n(j)
      <4> HIDE DEF P, r, n
      <4> QED BY <2>6, <2>9 DEF writes
    <3>2. r[i].verdict # "skip" /\ r[j].verdict # "skip"
      <4> HIDE DEF P, r, n
      <4> QED BY <3>1, <2>9 DEF writes
    <3>3. r[j].verdict = "skip"
      BY <3>1, <3>2, <1>0, <2>9, NamedDistinct
    <3> QED BY <3>2, <3>3
  <2>10. \A i, j \in 1..N : writes(P[i]) /\ writes(P[j]) /\ P[i].name = P[j].name => i = j
    <3> TAKE i \in 1..N, j \in 1..N
    <3> HIDE DEF P, N
    <3>1. i = j \/ i < j \/ j < i
      BY <1>0
    <3> QED BY <3>1, <2>9
  <2> HIDE DEF P
  <2> QED BY <2>5, <2>7, <2>8, <2>10 DEF P
<1> QED BY <1>1, <1>2

-----------------------------------------------------------------------------
(***************************************************************************)
(* The inductive invariant.  While a run writes, the rows before the one   *)
(* it is at are settled as the report says, those after it are untouched,  *)
(* and the command about to be sent tells what has been done for the row   *)
(* itself; in particular only a row whose code was deleted is added again. *)
(***************************************************************************)
GoodRows(r) ==
    /\ DOMAIN r \subseteq Nat /\ DOMAIN r \subseteq 0..Len(imp.file)
    /\ \A i \in DOMAIN r : writes(r[i]) => r[i].name \in PlacesOf(imp)
    /\ \A i, j \in DOMAIN r : writes(r[i]) /\ writes(r[j]) /\ r[i].name = r[j].name => i = j

Steps == [at : Nat, cmd : {"add", "delete", "readd"}, again : BOOLEAN, part : 1..3]
Marks == {"kept", "wrote", "removed", "half"}

\* Before anything is written, and all the places an import can be at.
Asking == {"start", "secret", "reread", "asked"}
Pcs    == Asking \cup {"write", "auth", "done"}
USE DEF Asking, Pcs

Shape ==
    /\ imp \in Imports
    /\ foreign \in Nat
    /\ pc \in Pcs
    /\ DOMAIN codes = PlacesOf(imp)
    /\ mine \in [PlacesOf(imp) -> Marks]
    /\ GoodRows(shown) /\ GoodRows(rows)
    /\ listed \subseteq PlacesOf(imp)
    /\ step \in Steps

Untouched ==
    pc \in Asking =>
        /\ report = <<>> /\ lost = FALSE
        /\ \A p \in PlacesOf(imp) : mine[p] = "kept"

HasWork == pc = "asked" => ToWrite(shown, 0) # {}

Loop ==
    Writing =>
        /\ rows = shown
        /\ step.at \in ToWrite(rows, 0)
        /\ DOMAIN report = ToWrite(rows, 0)
        /\ lost = FALSE

\* What the key listed is not added to.
AddsNew ==
    Writing /\ Rechecks =>
        \A i \in DOMAIN rows : rows[i].verdict = "add" => rows[i].name \notin listed

Before ==
    Writing => \A i \in DOMAIN report : i < step.at =>
        \/ report[i] \in {"added", "replaced"} /\ mine[rows[i].name] = "wrote"
        \/ report[i] = "exists" /\ mine[rows[i].name] = "kept"

After ==
    Writing => \A i \in DOMAIN report : i > step.at => mine[rows[i].name] = "kept"

Current ==
    Writing =>
        /\ step.cmd # "add" => imp.store # "molto2"
        /\ mine[Place] = IF step.cmd = "readd" THEN "removed"
                         ELSE IF imp.store = "molto2" /\ mine[Place] = "half" THEN "half"
                         ELSE "kept"

Inv == /\ Shape /\ Untouched /\ HasWork /\ Loop /\ AddsNew
       /\ Before /\ After /\ Current /\ ReportTrue

\* A step of the run leaves alone what is not in the place it is at.
OnlyThere ==
    /\ UNCHANGED begun
    /\ DOMAIN codes' = PlacesOf(imp)
    /\ foreign' \in Nat
    /\ mine' \in [PlacesOf(imp) -> Marks]
    /\ \A p \in PlacesOf(imp) : p # Place => mine'[p] = mine[p]

\* What an outcome says of the place, after the step.
Says(outcome) ==
    /\ outcome \in {"added", "replaced"} => mine'[Place] = "wrote"
    /\ outcome \in {"exists", "no-room", "not-tried"} => mine'[Place] = "kept"
    /\ outcome = "removed-not-added" /\ ~lost' => mine'[Place] = "removed"
    /\ outcome = "failed" /\ ~lost' =>
            mine'[Place] \in (IF imp.store = "molto2" THEN {"kept", "half"} ELSE {"kept"})

LEMMA RowFacts ==
    ASSUME Shape, Loop, Writing
    PROVE  /\ step.at \in DOMAIN rows /\ step.at \in DOMAIN report /\ step.at \in Nat
           /\ writes(Row) /\ Place \in PlacesOf(imp)
           /\ \A i \in DOMAIN report :
                 /\ i \in DOMAIN rows /\ i \in Nat
                 /\ rows[i].name \in PlacesOf(imp)
                 /\ i # step.at => rows[i].name # Place
<1>1. step.at \in ToWrite(rows, 0) /\ DOMAIN report = ToWrite(rows, 0)
  BY DEF Loop
<1>2. GoodRows(rows)
  BY DEF Shape
<1>3. \A i \in ToWrite(rows, 0) : i \in DOMAIN rows /\ i \in Nat /\ writes(rows[i])
  BY <1>2 DEF ToWrite, GoodRows
<1> QED BY <1>1, <1>2, <1>3 DEF GoodRows, Row, Place

LEMMA ShapeKeeps ==
    ASSUME Shape, OnlyThere, step' \in Steps,
           pc' \in Pcs
    PROVE  Shape'
<1>1. /\ imp' = imp /\ shown' = shown /\ rows' = rows /\ listed' = listed
      /\ foreign' \in Nat /\ DOMAIN codes' = PlacesOf(imp)
      /\ mine' \in [PlacesOf(imp) -> Marks]
  BY DEF OnlyThere, begun
<1>2. PlacesOf(imp') = PlacesOf(imp)
  BY <1>1
<1>3. GoodRows(shown)' /\ GoodRows(rows)'
  BY <1>1, <1>2 DEF Shape, GoodRows
<1> QED BY <1>1, <1>2, <1>3 DEF Shape, Steps, Marks

(***************************************************************************)
(* A step that stays at its row.                                           *)
(***************************************************************************)
LEMMA StaysKeeps ==
    ASSUME Inv, Writing, OnlyThere, pc' \in {"write", "auth"},
           step' \in Steps, step'.at = step.at,
           report' = report, lost' = FALSE,
           step'.cmd # "add" => imp.store # "molto2",
           mine'[Place] = IF step'.cmd = "readd" THEN "removed"
                          ELSE IF imp.store = "molto2" /\ mine'[Place] = "half" THEN "half"
                          ELSE "kept"
    PROVE  Inv'
<1>1. Shape'
  BY ShapeKeeps DEF Inv
<1>2. imp' = imp /\ rows' = rows /\ shown' = shown /\ listed' = listed
  BY DEF OnlyThere, begun
<1>3. Loop'
  BY <1>2 DEF Inv, Loop, Writing, ToWrite
<1>4. AddsNew'
  BY <1>2 DEF Inv, AddsNew, Writing, Rechecks
<1>5. Place' = Place
  BY <1>2 DEF Place, Row
<1>6. ASSUME NEW i \in DOMAIN report, i # step.at
      PROVE  mine'[rows[i].name] = mine[rows[i].name]
  BY <1>6, RowFacts DEF Inv, OnlyThere
<1>7. Before'
  BY <1>2, <1>6, RowFacts DEF Inv, Before, Writing
<1>8. After'
  BY <1>2, <1>6, RowFacts DEF Inv, After, Writing
<1>9. Current'
  BY <1>2, <1>5 DEF Current
<1>10. (Untouched /\ HasWork /\ ReportTrue)'
  BY DEF Untouched, HasWork, ReportTrue
<1> QED BY <1>1, <1>3, <1>4, <1>7, <1>8, <1>9, <1>10 DEF Inv

(***************************************************************************)
(* The row is settled, and the run goes on to the next one or ends.        *)
(***************************************************************************)
LEMMA GoesOnKeeps ==
    ASSUME Inv, Writing, OnlyThere, lost' = FALSE,
           NEW outcome \in {"added", "replaced", "exists"}, Says(outcome),
           GoesOn(outcome)
    PROVE  Inv'
<1> DEFINE later == ToWrite(rows, step.at)
<1>1. imp' = imp /\ rows' = rows /\ shown' = shown /\ listed' = listed
  BY DEF OnlyThere, begun
<1>2. report' = [report EXCEPT ![step.at] = outcome]
  BY DEF GoesOn
<1>3. DOMAIN report = ToWrite(rows, 0) /\ rows = shown
  BY DEF Inv, Loop
<1>4. ASSUME NEW i \in DOMAIN report
      PROVE  /\ i # step.at => report'[i] = report[i] /\ mine'[rows[i].name] = mine[rows[i].name]
             /\ i = step.at => report'[i] = outcome
  BY <1>2, RowFacts DEF Inv, OnlyThere
<1>5. ASSUME NEW i \in DOMAIN report, i <= step.at
      PROVE  \/ report'[i] \in {"added", "replaced"} /\ mine'[rows[i].name] = "wrote"
             \/ report'[i] = "exists" /\ mine'[rows[i].name] = "kept"
  <2>1. CASE i = step.at
    BY <2>1, <1>4 DEF Says, Place, Row
  <2>2. CASE i # step.at
    BY <2>2, <1>4, <1>5, RowFacts DEF Inv, Before
  <2> QED BY <2>1, <2>2
<1>6. CASE later = {}
  <2>1. pc' = "done" /\ step' = step
    BY <1>6 DEF GoesOn
  <2>2. \A i \in DOMAIN report : i <= step.at
    BY <1>3, <1>6, RowFacts DEF ToWrite, Inv
  <2>3. ReportTrue'
    BY <1>1, <1>2, <1>5, <2>2, Zenon DEF ReportTrue
  <2>4. Shape'
    BY <2>1, ShapeKeeps DEF Inv, Shape, Steps
  <2> QED BY <2>1, <2>3, <2>4
      DEF Inv, Untouched, HasWork, Loop, AddsNew, Before, After, Current, Writing
<1>7. CASE later # {}
  <2>1. pc' = "write" /\ step' = [NoStep EXCEPT !.at = Min(later)]
    BY <1>7 DEF GoesOn
  <2>2. later \subseteq DOMAIN report /\ later \subseteq Nat /\ \A i \in later : i > step.at
    <3>1. \A i \in later : i \in DOMAIN rows /\ i > step.at /\ writes(rows[i])
      BY DEF ToWrite
    <3>2. DOMAIN rows \subseteq Nat /\ step.at \in Nat
      BY RowFacts DEF Inv, Shape, GoodRows
    <3>3. \A i \in later : i > 0
      BY <3>1, <3>2
    <3> QED BY <1>3, <3>1, <3>2, <3>3 DEF ToWrite
  <2> DEFINE m == Min(later)
  <2>3. m \in later /\ \A i \in later : m <= i
    <3> HIDE DEF later
    <3> QED BY <1>7, <2>2, MinIsLeast
  <2> HIDE DEF m
  <2>4. step' = [at |-> m, cmd |-> "add", again |-> FALSE, part |-> 1]
    BY <2>1 DEF NoStep, m
  <2>5. m \in DOMAIN report /\ m \in Nat /\ m > step.at
    BY <2>2, <2>3
  <2>6. Shape'
    <3>1. step' \in Steps
      BY <2>4, <2>5 DEF Steps
    <3> QED BY <2>1, <3>1, ShapeKeeps DEF Inv
  <2>7. Loop'
    BY <1>1, <1>2, <1>3, <2>4, <2>5 DEF Loop, ToWrite
  <2>8. AddsNew'
    BY <1>1 DEF Inv, AddsNew, Rechecks, Writing
  <2>9. ASSUME NEW i \in DOMAIN report
        PROVE  i < m <=> i <= step.at
    <3>1. i \in Nat /\ step.at \in Nat /\ m \in Nat
      BY <2>5, RowFacts DEF Inv
    <3>2. i > step.at => i \in later
      BY <1>3 DEF ToWrite
    <3> HIDE DEF later
    <3> QED BY <3>1, <3>2, <2>3, <2>5
  <2>10. Before'
    BY <1>1, <1>2, <1>5, <2>4, <2>9 DEF Before
  <2>11. ASSUME NEW i \in DOMAIN report, i >= m
         PROVE  mine'[rows[i].name] = "kept"
    <3>1. i > step.at /\ i # step.at
      BY <2>5, <2>11, RowFacts DEF Inv
    <3> QED BY <3>1, <1>4 DEF Inv, After
  <2>12. After'
    BY <1>1, <1>2, <2>4, <2>5, <2>11, RowFacts DEF After, Inv
  <2>13. Current'
    BY <1>1, <2>4, <2>5, <2>11 DEF Current, Place, Row
  <2>14. (Untouched /\ HasWork /\ ReportTrue)'
    BY <2>1 DEF Untouched, HasWork, ReportTrue
  <2> QED BY <2>6, <2>7, <2>8, <2>10, <2>12, <2>13, <2>14 DEF Inv
<1> QED BY <1>6, <1>7

(***************************************************************************)
(* The run stops.                                                          *)
(***************************************************************************)
LEMMA StopsKeeps ==
    ASSUME Inv, Writing, OnlyThere, lost' \in BOOLEAN,
           NEW outcome \in {"removed-not-added", "failed", "no-room"}, Says(outcome),
           NEW rest \in {"no-room", "not-tried"},
           Stops(outcome, rest)
    PROVE  Inv'
<1>1. imp' = imp /\ rows' = rows
  BY DEF OnlyThere, begun
<1>2. /\ report' = [i \in DOMAIN report |->
                     IF i = step.at THEN outcome ELSE IF i > step.at THEN rest ELSE report[i]]
      /\ pc' = "done" /\ step' = step
  BY DEF Stops
<1>3. DOMAIN report' = DOMAIN report
  BY <1>2
<1>4. ASSUME NEW i \in DOMAIN report
      PROVE  LET did == mine'[rows[i].name] IN
             /\ report'[i] \in {"added", "replaced"} => did = "wrote"
             /\ report'[i] \in {"exists", "no-room", "not-tried"} => did = "kept"
             /\ report'[i] = "removed-not-added" /\ ~lost' => did = "removed"
             /\ report'[i] = "failed" /\ ~lost' =>
                   did \in (IF imp.store = "molto2" THEN {"kept", "half"} ELSE {"kept"})
             /\ report'[i] # "none"
  <2>1. i \in Nat /\ step.at \in Nat
    BY RowFacts DEF Inv
  <2>2. i # step.at => mine'[rows[i].name] = mine[rows[i].name]
    BY RowFacts DEF Inv, OnlyThere
  <2>3. CASE i = step.at
    <3>1. report'[i] = outcome /\ rows[i].name = Place
      BY <2>3, <1>2 DEF Place, Row
    <3> QED BY <3>1 DEF Says
  <2>4. CASE i > step.at
    <3>1. report'[i] = rest /\ mine'[rows[i].name] = "kept"
      BY <2>1, <2>2, <2>4, <1>2 DEF Inv, After
    <3> QED BY <3>1
  <2>5. CASE i < step.at
    <3>1. report'[i] = report[i] /\ mine'[rows[i].name] = mine[rows[i].name]
      BY <2>1, <2>2, <2>5, <1>2
    <3>2. \/ report[i] \in {"added", "replaced"} /\ mine[rows[i].name] = "wrote"
          \/ report[i] = "exists" /\ mine[rows[i].name] = "kept"
      BY <2>5 DEF Inv, Before
    <3> QED BY <3>1, <3>2
  <2> QED BY <2>1, <2>3, <2>4, <2>5
<1>5. ReportTrue'
  BY <1>1, <1>3, <1>4, Zenon DEF ReportTrue
<1>6. Shape'
  BY <1>2, ShapeKeeps DEF Inv, Shape, Steps
<1> QED BY <1>2, <1>5, <1>6
    DEF Inv, Untouched, HasWork, Loop, AddsNew, Before, After, Current, Writing

(***************************************************************************)
(* What the loop makes of an answer.                                       *)
(***************************************************************************)
LEMMA WriteOneKeeps ==
    ASSUME Inv, Writing, OnlyThere,
           NEW answer \in {"ok", "full", "exists", "failed"}, write_one(answer),
           lost' \in BOOLEAN,
           answer = "ok" => /\ lost' = FALSE
                            /\ mine'[Place] = IF step.cmd = "delete" THEN "removed" ELSE "wrote",
           answer \in {"full", "exists"} => /\ lost' = FALSE /\ mine' = mine
                                            /\ imp.store # "molto2",
           answer = "failed" => lost' \/ mine' = mine
    PROVE  Inv'
<1>1. /\ step.cmd # "add" => imp.store # "molto2"
      /\ mine[Place] = IF step.cmd = "readd" THEN "removed"
                       ELSE IF imp.store = "molto2" /\ mine[Place] = "half" THEN "half"
                       ELSE "kept"
      /\ step \in Steps
  BY DEF Inv, Current, Shape, Steps
<1>2. CASE step.cmd = "add" /\ answer = "ok"
  <2> DEFINE o == IF Row.verdict = "replace" THEN "replaced" ELSE "added"
  <2>1. GoesOn(o)
    BY <1>2 DEF write_one
  <2>2. Says(o) /\ o \in {"added", "replaced", "exists"} /\ lost' = FALSE
    BY <1>2 DEF Says
  <2> HIDE DEF o
  <2> QED BY <2>1, <2>2, GoesOnKeeps
<1>3. CASE step.cmd = "add" /\ answer = "full"
  <2>1. Stops("no-room", "no-room")
    BY <1>3 DEF write_one
  <2>2. Says("no-room")
    BY <1>1, <1>3 DEF Says
  <2> QED BY <2>1, <2>2, StopsKeeps
<1>4. CASE step.cmd = "add" /\ answer = "exists" /\ may_replace
  <2>1. Sends("delete")
    BY <1>4 DEF write_one
  <2>2. pc' = "write" /\ report' = report /\ step' = [step EXCEPT !.cmd = "delete", !.again = FALSE]
    BY <2>1 DEF Sends
  <2>3. step' \in Steps /\ step'.at = step.at /\ step'.cmd = "delete"
    BY <1>1, <2>2 DEF Steps
  <2>4. mine'[Place] = "kept" /\ imp.store # "molto2" /\ lost' = FALSE
    BY <1>1, <1>4
  <2> QED BY <2>2, <2>3, <2>4, StaysKeeps
<1>5. CASE step.cmd = "add" /\ answer = "exists" /\ ~may_replace
  <2>1. GoesOn("exists")
    BY <1>5 DEF write_one
  <2>2. Says("exists") /\ lost' = FALSE
    BY <1>1, <1>5 DEF Says
  <2> QED BY <2>1, <2>2, GoesOnKeeps
<1>6. CASE step.cmd = "delete" /\ answer = "ok"
  <2>1. Sends("readd")
    BY <1>6 DEF write_one
  <2>2. pc' = "write" /\ report' = report /\ step' = [step EXCEPT !.cmd = "readd", !.again = FALSE]
    BY <2>1 DEF Sends
  <2>3. step' \in Steps /\ step'.at = step.at /\ step'.cmd = "readd"
    BY <1>1, <2>2 DEF Steps
  <2>4. mine'[Place] = "removed" /\ imp.store # "molto2" /\ lost' = FALSE
    BY <1>1, <1>6
  <2> QED BY <2>2, <2>3, <2>4, StaysKeeps
<1>7. CASE step.cmd = "readd" /\ answer = "ok"
  <2>1. GoesOn("replaced")
    BY <1>7 DEF write_one
  <2>2. Says("replaced") /\ lost' = FALSE
    BY <1>7 DEF Says
  <2> QED BY <2>1, <2>2, GoesOnKeeps
<1>8. CASE step.cmd = "readd" /\ answer # "ok"
  <2>1. Stops("removed-not-added", "not-tried")
    BY <1>8 DEF write_one
  <2>2. Says("removed-not-added")
    BY <1>1, <1>8 DEF Says
  <2> QED BY <2>1, <2>2, StopsKeeps
<1>9. CASE \/ step.cmd = "add" /\ answer = "failed"
           \/ step.cmd = "delete" /\ answer # "ok"
  <2>1. Stops("failed", "not-tried")
    BY <1>9 DEF write_one
  <2>2. Says("failed")
    BY <1>1, <1>9 DEF Says
  <2> QED BY <2>1, <2>2, StopsKeeps
<1> QED BY <1>1, <1>2, <1>3, <1>4, <1>5, <1>6, <1>7, <1>8, <1>9 DEF Steps

\* The common case: nothing on the key changes.
LEMMA FailsKeeps ==
    ASSUME Inv, Writing, UNCHANGED <<begun, codes, foreign, mine, lost>>, write_one("failed")
    PROVE  Inv'
<1>1. OnlyThere /\ lost' = FALSE /\ mine' = mine
  BY DEF Inv, Shape, Loop, OnlyThere, Marks, begun
<1> QED BY <1>1, WriteOneKeeps

LEMMA WaitsKeeps ==
    ASSUME Inv, Writing, UNCHANGED <<begun, mine, lost, report>>,
           DOMAIN codes' = PlacesOf(imp), foreign' \in Nat,
           pc' \in {"write", "auth"}, step' \in Steps,
           step'.at = step.at, step'.cmd = step.cmd
    PROVE  Inv'
<1>1. OnlyThere /\ lost' = FALSE /\ mine' = mine /\ report' = report
  BY DEF Inv, Shape, Loop, OnlyThere, Marks, begun
<1>2. /\ step'.cmd # "add" => imp.store # "molto2"
      /\ mine'[Place] = IF step'.cmd = "readd" THEN "removed"
                        ELSE IF imp.store = "molto2" /\ mine'[Place] = "half" THEN "half"
                        ELSE "kept"
  BY <1>1 DEF Inv, Current
<1> QED BY <1>1, <1>2, StaysKeeps

\* The key carries out the command.
LEMMA KeyDoesThere ==
    ASSUME Inv, Writing, KeyDoes, UNCHANGED <<begun, foreign>>
    PROVE  /\ OnlyThere
           /\ mine'[Place] = IF step.cmd = "delete" THEN "removed"
                             ELSE IF imp.store = "molto2" /\ step.part < 3 THEN "half"
                             ELSE "wrote"
<1>1. Place \in PlacesOf(imp) /\ mine \in [PlacesOf(imp) -> Marks]
  BY RowFacts DEF Inv, Shape, Marks
<1> DEFINE v == IF step.cmd = "delete" THEN "removed"
                ELSE IF imp.store = "molto2" /\ step.part < 3 THEN "half" ELSE "wrote"
<1>2. mine' = [mine EXCEPT ![Place] = v] /\ v \in Marks
  BY DEF KeyDoes, Marks
<1>3. DOMAIN codes' = PlacesOf(imp) /\ foreign' \in Nat /\ UNCHANGED begun
  <2>1. DOMAIN codes = PlacesOf(imp) /\ foreign \in Nat
    BY DEF Inv, Shape
  <2> QED BY <2>1 DEF KeyDoes
<1> HIDE DEF v
<1>4. OnlyThere /\ mine'[Place] = v
  BY <1>1, <1>2, <1>3 DEF OnlyThere
<1> QED BY <1>4 DEF v

-----------------------------------------------------------------------------
LEMMA InitInv == Init => Inv
<1> SUFFICES ASSUME Init PROVE Inv
  OBVIOUS
<1>1. DOMAIN codes = PlacesOf(imp)
  BY DEF Init
<1>2. mine = [p \in PlacesOf(imp) |-> "kept"]
  BY <1>1 DEF Init, Places
<1>3. GoodRows(shown) /\ GoodRows(rows)
  BY DEF Init, GoodRows
<1>4. Shape
  BY <1>1, <1>2, <1>3 DEF Init, Shape, NoStep, Steps, Marks
<1>5. Untouched
  BY <1>2 DEF Init, Untouched
<1> QED BY <1>4, <1>5
    DEF Init, Inv, HasWork, Loop, AddsNew, Before, After, Current, ReportTrue, Writing

(***************************************************************************)
(* Before the writing: a plan that is shown is a plan for some listing.    *)
(***************************************************************************)
LEMMA PlansGood ==
    ASSUME imp \in Imports, NEW names, NEW h
    PROVE  /\ GoodRows(PlanFor(imp, names, h))
           /\ \A i \in DOMAIN PlanFor(imp, names, h) :
                 PlanFor(imp, names, h)[i].verdict = "add" =>
                    PlanFor(imp, names, h)[i].name \notin names
<1> DEFINE P == PlanFor(imp, names, h)
<1>1. /\ DOMAIN P = 1..Len(imp.file)
      /\ \A i \in DOMAIN P : P[i].verdict = "add" => P[i].name \notin names
      /\ \A i \in DOMAIN P : writes(P[i]) => P[i].name \in PlacesOf(imp)
      /\ \A i, j \in DOMAIN P :
             writes(P[i]) /\ writes(P[j]) /\ P[i].name = P[j].name => i = j
  BY PlanRows
<1>2. Len(imp.file) \in Nat
  BY ImportFacts
<1> HIDE DEF P
<1>3. GoodRows(P)
  BY <1>1, <1>2 DEF GoodRows
<1> QED BY <1>1, <1>3 DEF P

LEMMA ShownGood ==
    ASSUME imp \in Imports, NEW p \in ShownPlans \cup {PlanNow}
    PROVE  GoodRows(p)
<1>1. PlanNow = PlanFor(imp, Listing, Cardinality(unlisted))
  BY DEF PlanNow, PlanFor
<1>2. ~Rechecks => molto_plan(imp.file, imp.first, {}) = PlanFor(imp, {}, 0)
  BY DEF PlanFor, plan, Rechecks
<1>3. GoodRows(PlanNow)
  BY <1>1, PlansGood
<1>4. ~Rechecks => GoodRows(molto_plan(imp.file, imp.first, {}))
  BY <1>2, PlansGood
<1> QED BY <1>3, <1>4 DEF ShownPlans

LEMMA AskKeeps ==
    ASSUME Inv, pc \in Asking, NEW p, GoodRows(p), Ask(p),
           UNCHANGED <<imp, key, rows, step, report, listed, mine, lost>>
    PROVE  Inv'
<1>1. shown' = p /\ pc' \in {"done", "asked"} /\ (pc' = "asked" => ToWrite(p, 0) # {})
  BY DEF Ask
<1>2. /\ imp' = imp /\ codes' = codes /\ foreign' = foreign /\ rows' = rows /\ step' = step
      /\ report' = report /\ listed' = listed /\ mine' = mine /\ lost' = lost
  BY DEF key
<1>3. GoodRows(shown)' /\ GoodRows(rows)'
  BY <1>1, <1>2 DEF GoodRows, Inv, Shape
<1>4. Shape'
  BY <1>1, <1>2, <1>3 DEF Shape, Inv
<1>5. Untouched' /\ report = <<>>
  BY <1>2 DEF Untouched, Inv
<1>6. HasWork'
  BY <1>1 DEF HasWork, ToWrite
<1>7. ReportTrue'
  BY <1>2, <1>5 DEF ReportTrue
<1> QED BY <1>1, <1>4, <1>5, <1>6, <1>7
    DEF Inv, Loop, AddsNew, Before, After, Current, Writing

\* An attempt that comes to nothing, or the person typing a secret or giving up.
Idle == ReadFails \/ Declined \/ StartFails \/ \E s \in Secrets : Unlock(s)

LEMMA IdleSteps ==
    ASSUME Idle
    PROVE  /\ pc \in Asking /\ pc' \in Asking \cup {"done"} /\ (pc' = "asked" => pc = "asked")
           /\ UNCHANGED <<imp, key, shown, rows, step, auth, report, listed, mine, lost, raced, locked>>
  BY DEF Idle, ReadFails, Declined, StartFails, Unlock, Reading, StopsCtl, FindsLocked, RefusesSecret,
         ComesToNothing, Asking

LEMMA IdleKeeps ==
    ASSUME Inv, pc \in Asking, pc' \in Asking \cup {"done"}, pc' = "asked" => pc = "asked",
           UNCHANGED <<imp, key, shown, rows, step, report, listed, mine, lost>>
    PROVE  Inv'
<1>1. pc' \in Pcs /\ pc' \notin {"write", "auth"}
  BY DEF Asking, Pcs
<1>2. /\ imp' = imp /\ codes' = codes /\ foreign' = foreign /\ rows' = rows /\ step' = step
      /\ report' = report /\ listed' = listed /\ mine' = mine /\ lost' = lost /\ shown' = shown
  BY DEF key
<1>3. GoodRows(shown)' /\ GoodRows(rows)'
  BY <1>2 DEF GoodRows, Inv, Shape
<1>4. Shape'
  BY <1>1, <1>2, <1>3 DEF Shape, Inv
<1>5. report' = <<>> /\ Untouched'
  BY <1>2 DEF Untouched, Inv
<1>6. ReportTrue'
  BY <1>5 DEF ReportTrue
<1>7. HasWork'
  BY <1>2 DEF HasWork, Inv, ToWrite
<1> QED BY <1>1, <1>4, <1>5, <1>6, <1>7
    DEF Inv, Loop, AddsNew, Before, After, Current, Writing

LEMMA StartKeeps ==
    ASSUME Inv, Start
    PROVE  Inv'
<1> DEFINE W == ToWrite(shown, 0)
           m == Min(W)
<1>1. /\ pc = "asked" /\ pc' = "write" /\ rows' = shown /\ shown' = shown /\ imp' = imp
      /\ codes' = codes /\ foreign' = foreign /\ mine' = mine /\ lost' = lost
      /\ listed' = Listing /\ report' = [i \in W |-> "none"]
      /\ step' = [NoStep EXCEPT !.at = m]
      /\ Rechecks => shown = PlanNow
  BY DEF Start, recheck
<1>2. GoodRows(shown) /\ imp \in Imports /\ DOMAIN codes = PlacesOf(imp)
  BY DEF Inv, Shape
<1>3. W # {} /\ W \subseteq Nat
  BY <1>1, <1>2 DEF Inv, HasWork, ToWrite, GoodRows
<1>4. m \in W /\ \A i \in W : m <= i
  <2> HIDE DEF W
  <2> QED BY <1>3, MinIsLeast
<1> HIDE DEF m
<1>5. step' = [at |-> m, cmd |-> "add", again |-> FALSE, part |-> 1] /\ m \in Nat
  BY <1>1, <1>3, <1>4 DEF NoStep
<1>6. GoodRows(shown)' /\ GoodRows(rows)'
  BY <1>1, <1>2 DEF GoodRows
<1>7. Listing \subseteq PlacesOf(imp)
  BY <1>2 DEF Listing, Places
<1>8. step' \in Steps
  BY <1>5 DEF Steps
<1>9. Shape'
  BY <1>1, <1>6, <1>7, <1>8 DEF Shape, Inv
<1>10. lost = FALSE /\ \A p \in PlacesOf(imp) : mine[p] = "kept"
  BY <1>1 DEF Inv, Untouched
<1>11. DOMAIN report' = W
  BY <1>1
<1>12. Loop'
  BY <1>1, <1>4, <1>5, <1>10, <1>11 DEF Loop, ToWrite
<1>13. AddsNew'
  <2>1. PlanNow = PlanFor(imp, Listing, Cardinality(unlisted))
    BY DEF PlanNow, PlanFor
  <2>2. Rechecks => \A i \in DOMAIN shown :
            shown[i].verdict = "add" => shown[i].name \notin Listing
    BY <1>1, <1>2, <2>1, PlansGood
  <2> QED BY <1>1, <2>2 DEF AddsNew, Rechecks
<1>14. \A i \in W : shown[i].name \in PlacesOf(imp)
  BY <1>2 DEF GoodRows, ToWrite
<1>15. Before'
  <2>1. \A i \in W : ~(i < m)
    BY <1>3, <1>4
  <2> QED BY <2>1, <1>5, <1>11 DEF Before
<1>16. After'
  BY <1>1, <1>10, <1>11, <1>14 DEF After
<1>17. Current'
  BY <1>1, <1>4, <1>5, <1>10, <1>14 DEF Current, Place, Row
<1>18. (Untouched /\ HasWork /\ ReportTrue)'
  BY <1>1 DEF Untouched, HasWork, ReportTrue
<1> QED BY <1>9, <1>12, <1>13, <1>15, <1>16, <1>17, <1>18 DEF Inv

(***************************************************************************)
(* Every step.                                                             *)
(***************************************************************************)
LEMMA DoneKeeps ==
    ASSUME Inv, Done
    PROVE  Inv'
<1>1. /\ pc = "write" /\ KeyDoes /\ Carried /\ UNCHANGED <<begun, foreign, lost>>
  BY DEF Done, Sent
<1>2. Writing /\ lost' = FALSE /\ step \in Steps
  BY <1>1 DEF Writing, Inv, Loop, Shape, Steps
<1>3. /\ OnlyThere
      /\ mine'[Place] = IF step.cmd = "delete" THEN "removed"
                        ELSE IF imp.store = "molto2" /\ step.part < 3 THEN "half"
                        ELSE "wrote"
  BY <1>1, <1>2, KeyDoesThere
<1>4. CASE imp.store = "molto2" /\ step.part < 3
  <2>1. /\ step' = [step EXCEPT !.part = step.part + 1]
        /\ pc' = pc /\ report' = report
    BY <1>1, <1>4 DEF Carried
  <2>2. step.part + 1 \in 1..3
    BY <1>2, <1>4 DEF Steps
  <2>3. step' \in Steps /\ step'.at = step.at /\ step'.cmd = step.cmd
    BY <1>2, <2>1, <2>2 DEF Steps
  <2>4. step.cmd = "add"
    BY <1>2, <1>4 DEF Inv, Current
  <2>5. mine'[Place] = "half"
    BY <1>3, <1>4, <2>4
  <2> QED BY <1>1, <1>2, <1>3, <1>4, <2>1, <2>3, <2>4, <2>5, StaysKeeps
<1>5. CASE ~(imp.store = "molto2" /\ step.part < 3)
  <2>1. write_one("ok")
    BY <1>1, <1>5 DEF Carried
  <2>2. mine'[Place] = IF step.cmd = "delete" THEN "removed" ELSE "wrote"
    BY <1>3, <1>5
  <2> QED BY <1>2, <1>3, <2>1, <2>2, WriteOneKeeps
<1> QED BY <1>4, <1>5

LEMMA NextInv == Inv /\ [Next]_vars => Inv'
<1> SUFFICES ASSUME Inv, [Next]_vars PROVE Inv'
  OBVIOUS
<1>0. /\ imp \in Imports /\ DOMAIN codes = PlacesOf(imp) /\ foreign \in Nat /\ step \in Steps
      /\ Writing => lost = FALSE
  BY DEF Inv, Shape, Steps, Loop
<1>1. ASSUME ReadKey PROVE Inv'
  <2>1. PICK p \in ShownPlans : Ask(p)
    BY <1>1 DEF ReadKey
  <2>2. GoodRows(p)
    BY <1>0, ShownGood
  <2> QED BY <1>1, <2>1, <2>2, AskKeeps DEF ReadKey, Reading
<1>2. ASSUME Idle PROVE Inv'
  BY <1>2, IdleSteps, IdleKeeps
<1>3. ASSUME KeyChanged PROVE Inv'
  <2>1. pc = "asked" /\ UNCHANGED <<imp, key, rows, step, report, listed, mine, lost>>
    BY <1>3 DEF KeyChanged
  <2>2. CASE imp.front = "app"
    <3>1. Ask(PlanNow) /\ GoodRows(PlanNow)
      BY <1>0, <1>3, <2>2, ShownGood DEF KeyChanged
    <3> QED BY <2>1, <3>1, AskKeeps
  <2>3. CASE imp.front # "app"
    <3>1. pc' = "done" /\ shown' = shown
      BY <1>3, <2>3 DEF KeyChanged
    <3> QED BY <2>1, <3>1, IdleKeeps DEF Asking
  <2> QED BY <2>2, <2>3
<1>4. ASSUME Start PROVE Inv'
  BY <1>4, StartKeeps
<1>5. ASSUME Unsent \/ NotDone PROVE Inv'
  <2>1. Writing /\ write_one("failed") /\ UNCHANGED <<begun, codes, foreign, mine, lost>>
    BY <1>5 DEF Unsent, NotDone, Sent, Writing, key
  <2> QED BY <2>1, FailsKeeps
<1>6. ASSUME VerifyFirst PROVE Inv'
  <2>1. /\ Writing /\ UNCHANGED <<begun, mine, lost, report>>
        /\ codes' = codes /\ foreign' = foreign /\ pc' = "write" /\ step' = step
    BY <1>6 DEF VerifyFirst, Writing
  <2> QED BY <1>0, <2>1, WaitsKeeps
<1>7. ASSUME VerifyFirstFails PROVE Inv'
  <2>1. pc = "write" /\ Writing /\ UNCHANGED <<begun, codes, foreign, mine, lost>>
    BY <1>7 DEF VerifyFirstFails, Writing, key
  <2>2. CASE write_one("failed")
    BY <2>1, <2>2, FailsKeeps
  <2>3. CASE pc' = "auth" /\ UNCHANGED <<step, report>>
    BY <1>0, <2>1, <2>3, WaitsKeeps
  <2> QED BY <1>7, <2>2, <2>3 DEF VerifyFirstFails
<1>8. ASSUME Done PROVE Inv'
  BY <1>8, DoneKeeps
<1>9. ASSUME Refused PROVE Inv'
  <2>1. /\ Writing /\ write_one(KeyAnswer) /\ KeyAnswer # "ok"
        /\ UNCHANGED <<begun, codes, foreign, mine, lost>>
    BY <1>9 DEF Refused, Sent, Writing, key
  <2>2. KeyAnswer \in {"ok", "full", "exists", "failed"}
    BY DEF KeyAnswer
  <2>3. KeyAnswer \in {"full", "exists"} => imp.store # "molto2"
    BY DEF KeyAnswer
  <2>4. OnlyThere /\ lost' = FALSE /\ mine' = mine
    BY <1>0, <2>1 DEF OnlyThere, Inv, Shape, Marks
  <2> HIDE DEF KeyAnswer
  <2> QED BY <2>1, <2>2, <2>3, <2>4, WriteOneKeeps
<1>10. ASSUME AnswerLost PROVE Inv'
  <2>1. Writing /\ write_one("failed") /\ KeyDoes /\ lost' = TRUE /\ UNCHANGED <<begun, foreign>>
    BY <1>10 DEF AnswerLost, Sent, Writing
  <2>2. OnlyThere
    BY <2>1, KeyDoesThere
  <2> QED BY <2>1, <2>2, WriteOneKeeps
<1>11. ASSUME Asked PROVE Inv'
  <2>1. pc = "write" /\ Writing /\ UNCHANGED <<begun, codes, foreign, mine, lost>>
    BY <1>11 DEF Asked, Sent, Writing, key
  <2>2. CASE write_one("failed")
    BY <2>1, <2>2, FailsKeeps
  <2>3. CASE pc' = "auth" /\ UNCHANGED <<step, report>>
    BY <1>0, <2>1, <2>3, WaitsKeeps
  <2> QED BY <1>11, <2>2, <2>3 DEF Asked
<1>12. ASSUME Answers PROVE Inv'
  <2>1. /\ Writing /\ UNCHANGED <<begun, mine, lost, report>>
        /\ codes' = codes /\ foreign' = foreign /\ pc' = "write"
        /\ step' = [step EXCEPT !.again = TRUE]
    BY <1>12 DEF Answers, Writing, SendAgain
  <2>2. step' \in Steps /\ step'.at = step.at /\ step'.cmd = step.cmd
    BY <1>0, <2>1 DEF Steps
  <2> QED BY <1>0, <2>1, <2>2, WaitsKeeps
<1>13. ASSUME AnswerFails PROVE Inv'
  <2>1. Writing /\ write_one("failed") /\ UNCHANGED <<begun, codes, foreign, mine, lost>>
    BY <1>13 DEF AnswerFails, Writing, key
  <2> QED BY <2>1, FailsKeeps
<1>14. ASSUME Forgets PROVE Inv'
  <2>1. /\ Writing /\ UNCHANGED <<begun, mine, lost, report>>
        /\ codes' = codes /\ foreign' = foreign /\ pc' = pc /\ step' = step
    BY <1>14 DEF Forgets
  <2> QED BY <1>0, <2>1, WaitsKeeps DEF Writing
<1>15. ASSUME Foreign, DOMAIN codes' = PlacesOf(imp) PROVE Inv'
  <2>1. /\ foreign' \in Nat /\ pc' = pc /\ step' = step /\ pc # "done"
        /\ UNCHANGED <<begun, mine, lost, report>>
    BY <1>0, <1>15 DEF Foreign
  <2>2. CASE Writing
    BY <1>0, <1>15, <2>1, <2>2, WaitsKeeps DEF Writing
  <2>3. CASE ~Writing
    <3>1. imp' = imp /\ shown' = shown /\ rows' = rows /\ listed' = listed
      BY <2>1 DEF begun
    <3>2. GoodRows(shown)' /\ GoodRows(rows)'
      BY <3>1 DEF GoodRows, Inv, Shape
    <3>3. Shape'
      BY <1>15, <2>1, <3>1, <3>2 DEF Shape, Inv
    <3>4. Untouched' /\ HasWork' /\ ReportTrue'
      BY <2>1, <3>1 DEF Inv, Untouched, HasWork, ReportTrue, ToWrite
    <3> QED BY <2>1, <2>3, <3>3, <3>4
        DEF Inv, Loop, AddsNew, Before, After, Current, Writing
  <2> QED BY <2>2, <2>3
<1>16. ASSUME NEW p \in Places, ForeignStores(p) \/ ForeignDeletes(p) PROVE Inv'
  <2>1. Foreign /\ DOMAIN codes' = PlacesOf(imp)
    BY <1>0, <1>16 DEF ForeignStores, ForeignDeletes
  <2> QED BY <2>1, <1>15
<1>17. ASSUME NEW s \in Secrets \cup {NoSecret}, ForeignLocks(s) PROVE Inv'
  <2>1. Foreign /\ DOMAIN codes' = PlacesOf(imp)
    BY <1>0, <1>17 DEF ForeignLocks
  <2> QED BY <2>1, <1>15
<1>18. ASSUME UNCHANGED vars PROVE Inv'
  BY <1>18 DEF vars, Inv, Shape, GoodRows, Untouched, HasWork, Loop, AddsNew, Before, After,
               Current, ReportTrue, Writing, Rechecks, ToWrite, Place, Row
<1> QED
  BY <1>1, <1>2, <1>3, <1>4, <1>5, <1>6, <1>7, <1>8, <1>9, <1>10, <1>11, <1>12, <1>13,
     <1>14, <1>16, <1>17, <1>18 DEF Next, Writes, Over, Idle

(***************************************************************************)
(* The report of an import is true, whatever the file, the key and the     *)
(* surroundings (run.rs, run and write_one).                               *)
(***************************************************************************)
THEOREM ReportHolds == Spec => []ReportTrue
<1>1. Inv => ReportTrue
  BY DEF Inv
<1> QED BY <1>1, InitInv, NextInv, PTL DEF Spec

(***************************************************************************)
(* A code the key listed when the writing began is changed only by a row   *)
(* that was shown as replacing it (code_import.rs and import_flow.rs,      *)
(* recheck; run.rs, write_one).                                            *)
(***************************************************************************)
THEOREM ListedHolds == Spec => KeepsListed
<1>1. ASSUME Inv, [Next]_vars, Rechecks, foreign' = foreign, NEW p \in listed, codes'[p] # codes[p]
      PROVE  \E i \in DOMAIN shown : shown[i].name = p /\ shown[i].verdict = "replace"
  <2>1. Sent /\ KeyDoes
    <3>1. CASE ~(Done \/ AnswerLost)
      <4>1. foreign \in Nat
        BY <1>1 DEF Inv, Shape
      <4>2. ~Foreign
        BY <1>1, <4>1 DEF Foreign
      <4>3. codes' = codes
        BY <1>1, <3>1, <4>2, IdleSteps DEF Next, Writes, Over, vars, key, ReadKey, Idle,
           KeyChanged, Start, Unsent, VerifyFirst, VerifyFirstFails, Refused, NotDone, Asked,
           Answers, AnswerFails, Forgets, ForeignStores, ForeignDeletes, ForeignLocks
      <4> QED BY <1>1, <4>3
    <3>2. CASE Done \/ AnswerLost
      BY <3>2 DEF Done, AnswerLost
    <3> QED BY <3>1, <3>2
  <2>2. Writing
    BY <2>1 DEF Sent, Writing
  <2>3. /\ step.at \in DOMAIN rows /\ writes(Row) /\ rows = shown
        /\ listed \subseteq PlacesOf(imp) /\ DOMAIN codes = PlacesOf(imp)
    BY <1>1, <2>2, RowFacts DEF Inv, Loop, Shape
  <2>4. p = Place
    BY <1>1, <2>1, <2>3 DEF KeyDoes
  <2>5. Row.verdict # "add"
    BY <1>1, <2>2, <2>3, <2>4 DEF Inv, AddsNew, Row, Place
  <2> QED BY <2>3, <2>4, <2>5 DEF writes, Row, Place
<1>2. Inv /\ [Next]_vars =>
        [Rechecks /\ foreign' = foreign =>
            \A p \in listed : codes'[p] # codes[p] =>
                \E i \in DOMAIN shown : shown[i].name = p /\ shown[i].verdict = "replace"]_vars
  BY <1>1, Zenon
<1> QED BY <1>2, InitInv, NextInv, PTL DEF Spec, KeepsListed

-----------------------------------------------------------------------------
(***************************************************************************)
(* What the plan lets through, the adapter can send.                       *)
(***************************************************************************)
LEMMA Token2Limits ==
    limits["token2"] =
        [name_max |-> 64, hashes |-> {"sha1", "sha256"}, digits |-> 4..10,
         totp |-> 1..U16Max, hotp |-> {"zero"}, secret_max |-> 64]
<1>1. "token2" \in Stores
  BY DEF Stores
<1> QED BY <1>1, SMTT(30) DEF limits

LEMMA Molto2Limits ==
    limits["molto2"] =
        [name_max |-> 12, hashes |-> {"sha1", "sha256"}, digits |-> {4, 6, 8, 10},
         totp |-> {30, 60}, hotp |-> {}, secret_max |-> 63]
<1>1. "molto2" \in Stores
  BY DEF Stores
<1> QED BY <1>1, SMTT(30) DEF limits

LEMMA OathLimits ==
    ASSUME NEW s \in OathStores
    PROVE  limits[s].hotp = {"zero", "u32"} /\ (s = "solo2" => limits[s].name_max = 127)
<1>1. s \in Stores
  BY DEF Stores
<1>2. CASE s = "yubikey4"
  BY <1>1, <1>2, SMTT(30) DEF limits
<1>3. CASE s = "yubikey5"
  BY <1>1, <1>3, SMTT(30) DEF limits
<1>4. CASE s = "solo2"
  BY <1>1, <1>4, SMTT(30) DEF limits
<1>5. CASE s = "nitrokey3"
  BY <1>1, <1>5, SMTT(30) DEF limits
<1>6. CASE s = "other"
  BY <1>1, <1>6, SMTT(30) DEF limits
<1> QED BY <1>2, <1>3, <1>4, <1>5, <1>6 DEF OathStores

LEMMA NameLength ==
    ASSUME NEW period \in Nat, NEW l \in Labels
    PROVE  /\ NameBytes(<<period, l>>) \in Nat
           /\ period = 0 => NameBytes(<<period, l>>) = Length[l]
<1>1. PrefixBytes(period) \in Nat /\ (period = 0 => PrefixBytes(period) = 0)
  <2> DEFINE D == {d \in 1..9 : period >= 10^d}
  <2>0. 1 \in Int /\ 9 \in Int
    OBVIOUS
  <2>1. IsFiniteSet(1..9) /\ D \subseteq 1..9
    BY <2>0, FS_Interval, Zenon
  <2> HIDE DEF D
  <2>2. Cardinality(D) \in Nat
    BY <2>1, FS_Subset, FS_CardinalityType
  <2> QED BY <2>2 DEF PrefixBytes, D
<1>2. Length[l] \in Nat
  BY ImportPlanAssumption
<1> QED BY <1>1, <1>2 DEF NameBytes

LEMMA NameOnFits ==
    ASSUME NEW e \in Entries, NEW s \in Stores \ {"molto2"}, NameOn(e, s) # NoName
    PROVE  Sendable(e, s, NameOn(e, s), FALSE)
<1> DEFINE n == NameOn(e, s)
<1>1. check_params(e, s) /\ n = name_for(e, s)
  BY DEF NameOn
<1>2. /\ e.secret \in 1..255 /\ e.period \in Nat /\ e.hash \in limits[s].hashes
      /\ e.digits \in limits[s].digits /\ e.secret <= limits[s].secret_max
      /\ e.kind = "totp" => e.period \in limits[s].totp
      /\ e.kind = "hotp" => e.counter \in limits[s].hotp
  BY <1>1 DEF check_params, Entries
<1>3. CASE s = "token2"
  <2>1. /\ n = <<0, e.label>> /\ e.label # NoLabel /\ e.label \notin NonAscii
        /\ ~(NameBytes(n) > limits[s].name_max)
    BY <1>1, <1>3 DEF name_for, token2_name
  <2>2. e.label \in Labels
    BY <2>1 DEF Entries
  <2>3. Length[e.label] \in 1..64
    <3>1. NameBytes(n) = Length[e.label] /\ Length[e.label] \in Nat \ {0}
      BY <2>1, <2>2, NameLength, ImportPlanAssumption
    <3>2. limits[s].name_max = 64
      BY <1>3, Token2Limits
    <3> HIDE DEF n
    <3> QED BY <2>1, <3>1, <3>2
  <2>4. n[2] = e.label
    BY <2>1
  <2> HIDE DEF n
  <2>5. token2_write_entry(n, e)
    <3>1. /\ e.secret \in 1..64 /\ e.hash # "sha512" /\ e.digits \in 4..10
          /\ e.kind = "totp" => e.period \in 1..U16Max
      <4>1. limits[s].secret_max = 64 /\ limits[s].hashes = {"sha1", "sha256"}
        BY <1>3, Token2Limits
      <4>2. e.hash # "sha512" /\ e.secret \in 1..64
        BY <1>2, <4>1
      <4>3. ASSUME NEW d \in limits[s].digits PROVE d \in 4..10
        BY <1>3, Token2Limits
      <4>4. ASSUME NEW d \in limits[s].totp PROVE d \in 1..U16Max
        BY <1>3, Token2Limits
      <4>5. e.digits \in 4..10
        BY <1>2, <4>3
      <4>6. e.kind = "totp" => e.period \in 1..U16Max
        BY <1>2, <4>4
      <4> QED BY <4>2, <4>5, <4>6
    <3> QED BY <2>1, <2>3, <2>4, <3>1 DEF token2_write_entry
  <2> QED BY <1>3, <2>5 DEF Sendable, n
<1>4. CASE s # "token2"
  <2>0. s \in OathStores
    BY <1>4 DEF Stores
  <2>1. /\ n = oath_name(e, s) /\ ~(NameBytes(n) > limits[s].name_max)
        /\ oath_put_fits(NameBytes(n), e.secret, SendsCounter(e))
    BY <1>1, <1>4 DEF name_for
  <2>2. PICK period \in Nat : n = <<period, e.label>> /\ e.label # NoLabel
    BY <1>2, <2>1 DEF oath_name
  <2>3. NameBytes(n) \in Nat
    BY <2>2, NameLength DEF Entries
  <2> HIDE DEF n
  <2>4. oath_put(n, e, FALSE)
    BY <1>2, <2>1, <2>3 DEF oath_put, oath_put_fits
  <2>5. put_params(e)
    BY <1>2, <2>0, OathLimits DEF put_params
  <2>6. ~name_refusal(n, s)
    BY <2>0, <2>1, <2>3, OathLimits DEF name_refusal
  <2> QED BY <1>4, <2>4, <2>5, <2>6 DEF Sendable, n
<1> QED BY <1>3, <1>4

LEMMA SlotFits ==
    ASSUME NEW e \in Entries, TakesSlot(e)
    PROVE  molto_write(e)
<1>1. /\ e.secret \in 1..255 /\ e.kind \in {"totp", "hotp", "unusable"} /\ e.label # NoLabel
      /\ e.kind # "unusable" /\ e.hash \in limits["molto2"].hashes
      /\ e.digits \in limits["molto2"].digits /\ e.secret <= limits["molto2"].secret_max
      /\ e.kind = "totp" => e.period \in limits["molto2"].totp
      /\ e.kind = "hotp" => e.counter \in limits["molto2"].hotp
  BY DEF TakesSlot, check_params, Entries
<1> QED BY <1>1, Molto2Limits DEF molto_write

FitsPlan(r, im) ==
    \A i \in DOMAIN r : writes(r[i]) => Sendable(im.file[i], im.store, r[i].name, FALSE)

LEMMA PlanFits ==
    ASSUME NEW im \in Imports, NEW names, NEW h
    PROVE  FitsPlan(PlanFor(im, names, h), im)
<1> DEFINE P == PlanFor(im, names, h)
           N == Len(im.file)
<1>1. /\ im.store \in Stores /\ N \in Nat /\ DOMAIN P = 1..N
      /\ \A i \in 1..N : im.file[i] \in Entries
  <2>1. im.file \in Seq(Entries)
    BY ImportRunAssumption
  <2> QED BY <2>1, ImportFacts, PlanRows
<1> SUFFICES ASSUME NEW i \in 1..N, writes(P[i])
             PROVE  Sendable(im.file[i], im.store, P[i].name, FALSE)
  BY <1>1 DEF FitsPlan
<1>2. CASE im.store = "molto2"
  <2>1. P = molto_plan(im.file, im.first, names)
    BY <1>2 DEF PlanFor, plan
  <2>2. TakesSlot(im.file[i])
    BY <2>1 DEF molto_plan, writes
  <2> QED BY <1>1, <1>2, <2>2, SlotFits DEF Sendable
<1>3. CASE im.store # "molto2"
  <2> DEFINE r == NamedRows(im.file, im.store, names, im.replace)
         c == Cardinality(names) + h
         cap == Capacity[im.store]
  <2>1. P = WithRoom(r, c, cap)
    BY <1>3 DEF PlanFor, plan
  <2>2. DOMAIN r = 1..N
    BY DEF NamedRows
  <2>3. r[i] = [name |-> NameOn(im.file[i], im.store), verdict |-> r[i].verdict]
        /\ (writes(r[i]) => r[i].name # NoName)
    BY <1>1, NamedAdds
  <2> HIDE DEF r, P, c, cap
  <2>r. i \in DOMAIN r
    BY <2>2
  <2>4. P[i] = r[i] \/ P[i] = [r[i] EXCEPT !.verdict = "skip"]
    <3>1. WithRoom(r, c, cap)[i] = r[i] \/ WithRoom(r, c, cap)[i] = [r[i] EXCEPT !.verdict = "skip"]
      BY <2>r, RoomKeeps
    <3> QED BY <2>1, <3>1
  <2>5. P[i] = r[i]
    BY <2>3, <2>4 DEF writes
  <2>6. P[i].name = NameOn(im.file[i], im.store) /\ P[i].name # NoName
    BY <2>3, <2>5
  <2> QED BY <1>1, <1>3, <2>6, NameOnFits
<1> QED BY <1>2, <1>3

FitsInv == FitsPlan(shown, imp) /\ FitsPlan(rows, imp)

(***************************************************************************)
(* Every row that an import writes fits the adapter's command, the two     *)
(* bytes of a required touch aside: whatever the file, the store and the   *)
(* codes on it, "the plan only lets through what the applet stores"        *)
(* (import.rs; plan.rs, name_for and check_params).                        *)
(***************************************************************************)
THEOREM PlanSendable == Spec => []PlannedFits
<1>1. Init => FitsInv
  BY DEF Init, FitsInv, FitsPlan
<1>2. Inv /\ FitsInv /\ [Next]_vars => FitsInv'
  <2> SUFFICES ASSUME Inv, FitsInv, [Next]_vars PROVE FitsInv'
    OBVIOUS
  <2>0. imp \in Imports /\ imp' = imp
    BY IdleSteps DEF Inv, Shape, Next, Writes, Over, vars, begun, ReadKey, Idle, KeyChanged,
       Start, Unsent, VerifyFirst, VerifyFirstFails, Refused, NotDone, Done, AnswerLost, Asked,
       Answers, AnswerFails, Forgets, Foreign, ForeignStores, ForeignDeletes, ForeignLocks
  <2>1. PlanNow = PlanFor(imp, Listing, Cardinality(unlisted))
    BY DEF PlanNow, PlanFor
  <2>2. ASSUME NEW p \in ShownPlans \cup {PlanNow} PROVE FitsPlan(p, imp)
    <3>1. ~Rechecks => molto_plan(imp.file, imp.first, {}) = PlanFor(imp, {}, 0)
      BY DEF PlanFor, plan, Rechecks
    <3> QED BY <2>0, <2>1, <3>1, PlanFits DEF ShownPlans
  <2>3. CASE ReadKey \/ KeyChanged
    <3>1. rows' = rows /\ (shown' = shown \/ shown' \in ShownPlans \cup {PlanNow})
      BY <2>3 DEF ReadKey, KeyChanged, Ask
    <3> QED BY <2>0, <2>2, <3>1 DEF FitsInv
  <2>4. CASE Start
    BY <2>0, <2>4 DEF Start, FitsInv
  <2>5. CASE ~(ReadKey \/ KeyChanged \/ Start)
    <3>1. rows' = rows /\ shown' = shown
      BY <2>5, IdleSteps DEF Next, Writes, Over, vars, begun, Idle, Unsent, VerifyFirst,
         VerifyFirstFails, Refused, NotDone, Done, AnswerLost, Asked, Answers, AnswerFails,
         Forgets, Foreign, ForeignStores, ForeignDeletes, ForeignLocks
    <3> QED BY <2>0, <3>1 DEF FitsInv
  <2> QED BY <2>3, <2>4, <2>5
<1>3. FitsInv => PlannedFits
  BY DEF FitsInv, FitsPlan, PlannedFits
<1> QED BY <1>1, <1>2, <1>3, InitInv, NextInv, PTL DEF Spec

-----------------------------------------------------------------------------
(***************************************************************************)
(* The types that Inv leaves out.                                          *)
(***************************************************************************)
CodesOK == /\ codes \in [PlacesOf(imp) -> [by : 0..Len(imp.file), parts : 0..3]]
           /\ unlisted \subseteq {p \in Places : Used(p)}

KeyOK == lock \in Secrets \cup {NoSecret} /\ open \in BOOLEAN /\ foreign \in 0..MaxForeign

SessionOK == /\ auth \in [kept : BOOLEAN, verified : BOOLEAN, proven : BOOLEAN]
             /\ \A i \in DOMAIN report : report[i] \in Outcomes
             /\ spent \in Nat /\ given \in Secrets \cup {NoSecret}

Types == CodesOK /\ KeyOK /\ SessionOK

\* No step changes the import.
LEMMA SameImport ==
    ASSUME [Next]_vars
    PROVE  imp' = imp
  BY IdleSteps DEF Next, Writes, Over, vars, begun, ReadKey, Idle, KeyChanged, Start, Unsent,
     VerifyFirst, VerifyFirstFails, Refused, NotDone, Done, AnswerLost, Asked, Answers,
     AnswerFails, Forgets, Foreign, ForeignStores, ForeignDeletes, ForeignLocks

\* A code at one place is written; no other is.
LEMMA OneCode ==
    ASSUME imp \in Imports, CodesOK, imp' = imp, NEW p \in PlacesOf(imp),
           NEW c \in [by : 0..Len(imp.file), parts : 0..3],
           codes' = [codes EXCEPT ![p] = c], unlisted' = unlisted \ {p}
    PROVE  CodesOK'
<1>1. codes' \in [PlacesOf(imp) -> [by : 0..Len(imp.file), parts : 0..3]]
  BY DEF CodesOK
<1>2. DOMAIN codes = PlacesOf(imp) /\ DOMAIN codes' = PlacesOf(imp)
  BY <1>1 DEF CodesOK
<1>3. ASSUME NEW q \in unlisted' PROVE q \in {x \in Places : Used(x)}'
  <2>1. q \in PlacesOf(imp) /\ q # p /\ codes[q].parts > 0
    BY <1>2, <1>3 DEF CodesOK, Places, Used
  <2>2. codes'[q] = codes[q]
    BY <1>2, <2>1
  <2> QED BY <1>2, <2>1, <2>2 DEF Places, Used
<1> QED BY <1>1, <1>3 DEF CodesOK

LEMMA CodesKeep ==
    ASSUME Inv, Types, [Next]_vars
    PROVE  CodesOK'
<1>0. imp' = imp /\ imp \in Imports /\ CodesOK /\ step \in Steps /\ Len(imp.file) \in Nat
      /\ Places = PlacesOf(imp)
  BY SameImport, ImportFacts DEF Inv, Shape, Steps, Types, Places
<1>1. CASE Done \/ AnswerLost
  <2>1. KeyDoes /\ Writing
    BY <1>1 DEF Done, AnswerLost, Sent, Writing
  <2>2. Place \in PlacesOf(imp) /\ step.at \in 0..Len(imp.file) /\ step.part \in 0..3
    BY <1>0, <2>1, RowFacts DEF Inv, Shape, GoodRows, Steps
  <2> DEFINE c == IF step.cmd = "delete" THEN NoCode
                  ELSE [by |-> step.at, parts |-> IF imp.store = "molto2" THEN step.part ELSE 3]
  <2>3. c \in [by : 0..Len(imp.file), parts : 0..3]
    BY <1>0, <2>2 DEF NoCode
  <2>4. codes' = [codes EXCEPT ![Place] = c] /\ unlisted' = unlisted \ {Place}
    BY <2>1 DEF KeyDoes
  <2> HIDE DEF c
  <2> QED BY <1>0, <2>2, <2>3, <2>4, OneCode
<1>2. ASSUME NEW p \in Places, ForeignStores(p) \/ ForeignDeletes(p) PROVE CodesOK'
  <2>1. /\ codes' = [codes EXCEPT ![p] = Theirs] \/ codes' = [codes EXCEPT ![p] = NoCode]
        /\ unlisted' = unlisted \ {p}
    BY <1>2 DEF ForeignStores, ForeignDeletes
  <2>2. Theirs \in [by : 0..Len(imp.file), parts : 0..3] /\ NoCode \in [by : 0..Len(imp.file), parts : 0..3]
    BY <1>0 DEF Theirs, NoCode
  <2> QED BY <1>0, <2>1, <2>2, OneCode
<1>3. CASE codes' = codes /\ unlisted' = unlisted
  BY <1>0, <1>3 DEF CodesOK, Places, Used
<1>4. \/ Done \/ AnswerLost
      \/ \E p \in Places : ForeignStores(p) \/ ForeignDeletes(p)
      \/ codes' = codes /\ unlisted' = unlisted
  BY IdleSteps DEF Next, Writes, Over, vars, key, ReadKey, Idle, KeyChanged, Start, Unsent,
     VerifyFirst, VerifyFirstFails, Refused, NotDone, Asked, Answers, AnswerFails, Forgets,
     ForeignLocks
<1> QED BY <1>1, <1>2, <1>3, <1>4

LEMMA KeyKeeps ==
    ASSUME Types, [Next]_vars
    PROVE  KeyOK'
<1>1. KeyOK /\ MaxForeign \in Nat
  BY ImportRunAssumption DEF Types
<1>2. CASE UNCHANGED <<lock, open, foreign>>
  BY <1>1, <1>2 DEF KeyOK
<1>3. CASE UNCHANGED <<lock, foreign>> /\ open' \in BOOLEAN
  BY <1>1, <1>3 DEF KeyOK
<1>4. ASSUME NEW p \in Places, ForeignStores(p) \/ ForeignDeletes(p) PROVE KeyOK'
  BY <1>1, <1>4 DEF ForeignStores, ForeignDeletes, Foreign, KeyOK
<1>5. ASSUME NEW s \in Secrets \cup {NoSecret}, ForeignLocks(s) PROVE KeyOK'
  <2>1. lock' = s /\ open' = FALSE /\ foreign < MaxForeign /\ foreign' = foreign + 1
    BY <1>5 DEF ForeignLocks, Foreign
  <2>2. foreign' \in 0..MaxForeign
    BY <1>1, <2>1 DEF KeyOK
  <2>3. lock' \in Secrets \cup {NoSecret}
    BY <2>1, Zenon
  <2> QED BY <2>1, <2>2, <2>3 DEF KeyOK
<1>6. \/ UNCHANGED <<lock, open, foreign>>
      \/ UNCHANGED <<lock, foreign>> /\ open' \in BOOLEAN
      \/ \E p \in Places : ForeignStores(p) \/ ForeignDeletes(p)
      \/ \E s \in Secrets \cup {NoSecret} : ForeignLocks(s)
  BY IdleSteps DEF Next, Writes, Over, vars, key, ReadKey, Idle, KeyChanged, Start, Unsent,
     VerifyFirst, VerifyFirstFails, Refused, NotDone, Asked, Answers, AnswerFails, Forgets,
     Done, AnswerLost
<1> QED BY <1>2, <1>3, <1>4, <1>5, <1>6

\* What the loop does with an answer: it settles the row it is at, and with it
\* the rest, or sends the next command.
LEMMA OutcomesKeep ==
    ASSUME SessionOK, NEW answer, write_one(answer)
    PROVE  \A i \in DOMAIN report' : report'[i] \in Outcomes
<1>1. ASSUME NEW o \in Outcomes, GoesOn(o) PROVE \A i \in DOMAIN report' : report'[i] \in Outcomes
  BY <1>1 DEF GoesOn, SessionOK
<1>2. ASSUME NEW o \in Outcomes, NEW rest \in Outcomes, Stops(o, rest)
      PROVE \A i \in DOMAIN report' : report'[i] \in Outcomes
  BY <1>2 DEF Stops, SessionOK
<1>3. ASSUME NEW cmd, Sends(cmd) PROVE \A i \in DOMAIN report' : report'[i] \in Outcomes
  BY <1>3 DEF Sends, SessionOK
<1>4. \/ \E o \in Outcomes : GoesOn(o)
      \/ \E o \in Outcomes : \E rest \in Outcomes : Stops(o, rest)
      \/ \E cmd : Sends(cmd)
  BY DEF write_one, Outcomes
<1> QED BY <1>1, <1>2, <1>3, <1>4

LEMMA SessionKeeps ==
    ASSUME Types, [Next]_vars
    PROVE  SessionOK'
<1>0. SessionOK /\ lock \in Secrets \cup {NoSecret} /\ open \in BOOLEAN
  BY DEF Types, KeyOK
<1>1. auth' \in [kept : BOOLEAN, verified : BOOLEAN, proven : BOOLEAN]
  <2>1. CASE Start
    <3>1. auth' = [kept |-> IsOath /\ lock # NoSecret, verified |-> ~IsOath /\ lock # NoSecret,
                   proven |-> ~IsOath /\ lock # NoSecret]
      BY <2>1 DEF Start
    <3> QED BY <3>1, Zenon
  <2>2. CASE VerifyFirst
    BY <1>0, <2>2 DEF VerifyFirst, SessionOK
  <2>3. CASE Done
    <3> DEFINE b == auth.proven \/ (imp.store = "token2" /\ given # NoSecret)
    <3>1. auth' = [auth EXCEPT !.proven = b] /\ b \in BOOLEAN
      BY <2>3, <1>0 DEF Done, SessionOK
    <3> HIDE DEF b
    <3> QED BY <3>1, <1>0 DEF SessionOK
  <2>4. CASE Answers
    <3> DEFINE b == ~IsOath
    <3>1. auth' = [auth EXCEPT !.verified = b] /\ b \in BOOLEAN
      BY <2>4 DEF Answers
    <3> HIDE DEF b
    <3> QED BY <3>1, <1>0 DEF SessionOK
  <2>5. CASE auth' = auth
    BY <1>0, <2>5 DEF SessionOK
  <2>6. Start \/ VerifyFirst \/ Done \/ Answers \/ auth' = auth
    BY IdleSteps DEF Next, Writes, Over, vars, ReadKey, Idle, KeyChanged, Unsent,
       VerifyFirstFails, Refused, NotDone, Asked, AnswerLost, AnswerFails, Forgets, Foreign,
       ForeignStores, ForeignDeletes, ForeignLocks
  <2> QED BY <2>1, <2>2, <2>3, <2>4, <2>5, <2>6
<1>2. \A i \in DOMAIN report' : report'[i] \in Outcomes
  <2>1. ASSUME NEW answer, write_one(answer)
        PROVE  \A i \in DOMAIN report' : report'[i] \in Outcomes
    BY <1>0, <2>1, OutcomesKeep
  <2>2. CASE report' = report
    BY <1>0, <2>2 DEF SessionOK
  <2>3. CASE Start
    BY <2>3 DEF Start, Outcomes
  <2>4. Start \/ report' = report \/ \E answer : write_one(answer)
    BY IdleSteps DEF Next, Writes, Over, vars, ReadKey, Idle, KeyChanged, Unsent, VerifyFirst,
       VerifyFirstFails, Refused, NotDone, Asked, AnswerLost, Done, Carried, Answers,
       AnswerFails, Forgets, Foreign, ForeignStores, ForeignDeletes, ForeignLocks
  <2> QED BY <2>1, <2>2, <2>3, <2>4
<1>3. spent' \in Nat
  <2>1. spent \in Nat
    BY <1>0 DEF SessionOK
  <2>2. CASE Idle
    BY <2>1, <2>2 DEF Idle, ReadFails, Declined, StartFails, Unlock, StopsCtl, FindsLocked,
         RefusesSecret, ComesToNothing, Kept, Try
  <2>3. CASE ~Idle
    <3>1. spent' \in {0, spent, spent + 1}
      BY <2>3 DEF Next, Writes, Over, vars, Idle, ReadKey, KeyChanged, Start, Kept, Unsent,
           VerifyFirst, VerifyFirstFails, Refused, NotDone, Asked, AnswerLost, Done, Answers,
           AnswerFails, Forgets, Foreign, ForeignStores, ForeignDeletes, ForeignLocks
    <3> QED BY <2>1, <3>1
  <2> QED BY <2>2, <2>3
<1>4. given' \in Secrets \cup {NoSecret}
  <2>1. given \in Secrets \cup {NoSecret}
    BY <1>0 DEF SessionOK
  <2>2. given' \in {given, NoSecret} \/ \E s \in Secrets : given' = s
    BY DEF Next, Writes, Over, vars, begun, ReadKey, ReadFails, Declined, StartFails, Unlock,
         StopsCtl, FindsLocked, RefusesSecret, ComesToNothing, KeyChanged, Start, Unsent,
         VerifyFirst, VerifyFirstFails, Refused, NotDone, Asked, AnswerLost, Done, Answers,
         AnswerFails, Forgets, Foreign, ForeignStores, ForeignDeletes, ForeignLocks
  <2> QED BY <2>1, <2>2
<1> QED BY <1>1, <1>2, <1>3, <1>4 DEF SessionOK

LEMMA TypesHold == Spec => [](Inv /\ Types)
<1>1. Init => Types
  <2> SUFFICES ASSUME Init PROVE Types
    OBVIOUS
  <2>1. imp \in Imports /\ Len(imp.file) \in Nat /\ MaxForeign \in Nat
    BY ImportFacts, ImportRunAssumption DEF Init
  <2>2. NoCode \in [by : 0..Len(imp.file), parts : 0..3] /\ Theirs \in [by : 0..Len(imp.file), parts : 0..3]
    BY <2>1 DEF NoCode, Theirs
  <2>3. codes \in [PlacesOf(imp) -> [by : 0..Len(imp.file), parts : 0..3]]
    <3>1. codes \in [PlacesOf(imp) -> {NoCode, Theirs}]
      BY DEF Init
    <3> QED BY <2>2, <3>1
  <2>4. unlisted \subseteq {p \in Places : Used(p)}
    <3>1. unlisted \in SUBSET {p \in Places : codes[p] = Theirs}
      BY DEF Init
    <3>2. Theirs.parts > 0
      BY DEF Theirs
    <3> QED BY <3>1, <3>2 DEF Used
  <2>5. KeyOK
    <3>1. lock \in Secrets \cup {NoSecret}
      BY DEF Init
    <3>2. open = FALSE /\ foreign = 0
      BY DEF Init
    <3>3. foreign \in 0..MaxForeign
      BY <2>1, <3>2
    <3> QED BY <3>1, <3>2, <3>3 DEF KeyOK
  <2>6. SessionOK
    <3>1. given \in Secrets \cup {NoSecret}
      BY <2>1, ImportRunAssumption DEF Init
    <3> QED BY <3>1 DEF Init, SessionOK, NoAuth
  <2> QED BY <2>3, <2>4, <2>5, <2>6 DEF Types, CodesOK
<1>2. Inv /\ Types /\ [Next]_vars => Types'
  BY CodesKeep, KeyKeeps, SessionKeeps DEF Types
<1> QED BY <1>1, <1>2, InitInv, NextInv, PTL DEF Spec

(***************************************************************************)
(* The state of an import is well formed, whatever the file, the store and *)
(* the other programs: the row a run is at is one the plan writes, with a  *)
(* place on the key, and every row it writes has an outcome (run.rs, run). *)
(***************************************************************************)
THEOREM TypeCorrect == Spec => []TypeOK
<1>1. Inv /\ Types => TypeOK
  <2> SUFFICES ASSUME Inv, Types PROVE TypeOK
    OBVIOUS
  <2>1. imp \in Imports /\ Places = PlacesOf(imp) /\ step \in Steps
    BY DEF Inv, Shape, Steps, Places
  <2>2. imp.store \in Stores
    BY <2>1, ImportFacts
  <2>3. \A i \in DOMAIN rows : writes(rows[i]) => rows[i].name \in Places
    BY <2>1 DEF Inv, Shape, GoodRows
  <2>4. Writing => step.at \in ToWrite(rows, 0) /\ DOMAIN report = ToWrite(rows, 0)
    BY DEF Inv, Loop
  <2>5. step.cmd \in {"add", "delete", "readd"} /\ step.part \in 1..3
    BY <2>1 DEF Steps
  <2>6. mine \in [Places -> {"kept", "wrote", "removed", "half"}]
    BY <2>1 DEF Inv, Shape, Marks
  <2>7. pc \in Pcs
    BY DEF Inv, Shape
  <2> QED BY <2>2, <2>3, <2>4, <2>5, <2>6, <2>7 DEF Types, CodesOK, KeyOK, SessionOK, TypeOK
<1> QED BY <1>1, TypesHold, PTL

(***************************************************************************)
(* Wrong tries.  A session that has begun on a locked key has verified the *)
(* secret, so a Token2 key is not asked to verify it before a command; and *)
(* a key that counts tries never lets a wrong one pass for a closed window.*)
(***************************************************************************)
TriesInv ==
    /\ Reading => spent = 0
    /\ pc = "secret" => spent <= 1
    /\ pc = "asked" => spent <= 1 /\ Kept = 0
    /\ Writing /\ (imp.tally \/ locked) => spent = 0
    /\ OneWrongTry
    /\ Writing /\ locked /\ imp.store = "token2" => auth.verified

\* A refused command ends the run.
LEMMA FailedStops ==
    ASSUME step \in Steps, write_one("failed")
    PROVE  pc' = "done"
  BY DEF write_one, Stops, Steps

LEMMA TriesKeep ==
    ASSUME Inv, Types, TriesInv, [Next]_vars
    PROVE  TriesInv'
<1>0. imp' = imp /\ step \in Steps /\ spent \in Nat /\ pc \in Pcs
      /\ auth \in [kept : BOOLEAN, verified : BOOLEAN, proven : BOOLEAN]
  BY SameImport DEF Inv, Shape, Steps, Types, SessionOK
<1>k. Kept \in {0, spent} /\ Kept' \in {0, spent'} /\ Try \in {0, 1}
  BY DEF Kept, Try
<1>1. CASE ReadKey \/ KeyChanged
  <2>1. pc' \in {"asked", "done"} /\ spent' = 0
    BY <1>1, <1>k DEF ReadKey, KeyChanged, Ask, TriesInv
  <2> QED BY <1>k, <2>1 DEF TriesInv, OneWrongTry, Writing, Reading
<1>2. CASE Idle
  <2>1. CASE ReadFails
    <3>1. pc' \in {"done", "secret"} /\ spent' \in {Kept, Kept + Try} /\ spent = 0
      BY <2>1 DEF ReadFails, StopsCtl, FindsLocked, RefusesSecret, ComesToNothing, TriesInv
    <3> QED BY <1>k, <3>1 DEF TriesInv, OneWrongTry, Writing, Reading
  <2>2. CASE Declined
    <3>1. pc' = "done" /\ spent' = spent /\ spent <= 1
      BY <2>2 DEF Declined, ComesToNothing, TriesInv
    <3> QED BY <3>1 DEF TriesInv, OneWrongTry, Writing, Reading
  <2>3. CASE StartFails
    <3>1. /\ pc = "asked" /\ Kept = 0 /\ spent' \in {Kept, Kept + Try}
          /\ pc' \in {"done", "secret", "asked"}
      BY <2>3 DEF StartFails, StopsCtl, FindsLocked, RefusesSecret, ComesToNothing, TriesInv
    <3>2. ASSUME pc' = "asked" PROVE Kept' = 0
      <4>1. imp.front = "app" /\ Rechecks /\ (IsOath => spent' = Kept)
        BY <2>3, <3>2 DEF StartFails, StopsCtl, FindsLocked, RefusesSecret, ComesToNothing
      <4>2. imp.store = "token2" \/ IsOath
        BY <4>1, <1>0, ImportFacts DEF Rechecks, IsOath, OathStores, Stores, Inv, Shape
      <4> QED BY <1>0, <1>k, <3>1, <4>1, <4>2 DEF Kept
    <3> QED BY <1>k, <3>1, <3>2 DEF TriesInv, OneWrongTry, Writing, Reading
  <2>4. ASSUME NEW s \in Secrets, Unlock(s) PROVE TriesInv'
    <3>1. pc' = "reread" /\ spent' = 0
      BY <2>4 DEF Unlock
    <3> QED BY <3>1 DEF TriesInv, OneWrongTry, Writing, Reading
  <2> QED BY <1>2, <2>1, <2>2, <2>3, <2>4 DEF Idle
<1>3. CASE Start
  <2>1. pc' = "write" /\ spent' = 0 /\ locked' = (lock # NoSecret)
    BY <1>3 DEF Start, TriesInv
  <2>2. imp.store = "token2" => auth'.verified = (lock # NoSecret)
    BY <1>3 DEF Start, IsOath, OathStores
  <2> QED BY <1>0, <2>1, <2>2 DEF TriesInv, OneWrongTry, Writing, Reading
\* A step of a run that sends no wrong secret.
<1>4. ASSUME Writing, spent' = spent, locked' = locked, imp.store = "token2" /\ auth.verified => auth'.verified,
             pc' \notin Asking
      PROVE  TriesInv'
  BY <1>0, <1>4 DEF TriesInv, OneWrongTry, Writing, Reading
<1>5. CASE Unsent \/ NotDone \/ Refused \/ AnswerLost \/ Asked \/ Done \/ Answers \/ VerifyFirst \/ Forgets
  <2>1. Writing /\ spent' = spent /\ locked' = locked
    BY <1>5 DEF Unsent, NotDone, Refused, AnswerLost, Asked, Done, Answers, VerifyFirst, Forgets,
                Sent, Writing, begun
  <2>2. imp.store = "token2" /\ auth.verified => auth'.verified
    BY <1>0, <1>5 DEF Unsent, NotDone, Refused, AnswerLost, Asked, Done, Answers, VerifyFirst, Forgets,
                IsOath, OathStores
  <2>3. pc' \notin Asking
    BY <1>5, <2>1 DEF Unsent, NotDone, Refused, AnswerLost, Asked, Done, Answers, VerifyFirst, Forgets,
                Carried, write_one, GoesOn, Stops, Sends, Writing
  <2> QED BY <1>4, <2>1, <2>2, <2>3
<1>6. CASE VerifyFirstFails
  <2>1. /\ pc = "write" /\ imp.store = "token2" /\ ~auth.verified /\ locked' = locked /\ auth' = auth
        /\ spent' = spent \/ spent' = spent + 1
    BY <1>6 DEF VerifyFirstFails, PinFirst, begun
  <2>2. pc' = "done" \/ (pc' = "auth" /\ ~imp.tally)
    BY <1>0, <1>6, FailedStops DEF VerifyFirstFails
  <2>3. ~locked
    BY <2>1 DEF TriesInv, Writing
  <2> QED BY <1>0, <2>1, <2>2, <2>3 DEF TriesInv, OneWrongTry, Writing, Reading
<1>7. CASE AnswerFails
  <2>1. /\ pc = "auth" /\ pc' = "done" /\ locked' = locked
        /\ spent' = spent \/ spent' = spent + 1
    BY <1>0, <1>7, FailedStops DEF AnswerFails, begun
  <2> QED BY <1>0, <2>1 DEF TriesInv, OneWrongTry, Writing, Reading
<1>8. CASE Foreign
  <2>1. pc' = pc /\ spent' = spent /\ locked' = locked /\ auth' = auth
    BY <1>8 DEF Foreign, begun
  <2> QED BY <1>0, <2>1 DEF TriesInv, OneWrongTry, Writing, Reading, Kept
<1>9. CASE UNCHANGED vars
  BY <1>9 DEF vars, TriesInv, OneWrongTry, Writing, Reading, Kept
<1> QED BY <1>1, <1>2, <1>3, <1>5, <1>6, <1>7, <1>8, <1>9
        DEF Next, Writes, Over, Idle, ForeignStores, ForeignDeletes, ForeignLocks

(***************************************************************************)
(* A secret given to an import spends at most one try of the key's,        *)
(* whatever other programs do to it and however often the key forgets that *)
(* it was given (import.rs, token2_with_pin and oath_with_reauth), on a    *)
(* key that counts tries or that had a secret when the writing began.      *)
(* Where the app keeps a refused PIN (import_finish), this is said of each *)
(* click on Add.                                                           *)
(***************************************************************************)
THEOREM TriesBounded == Spec => []OneWrongTry
<1>1. Init => TriesInv
  BY DEF Init, TriesInv, OneWrongTry, Writing, Reading
<1>2. Inv /\ Types /\ TriesInv /\ [Next]_vars => TriesInv'
  BY TriesKeep
<1>3. TriesInv => OneWrongTry
  BY DEF TriesInv
<1> QED BY <1>1, <1>2, <1>3, TypesHold, PTL DEF Spec

-----------------------------------------------------------------------------
(***************************************************************************)
(* Room.  What is stored while a run writes is what was there when it      *)
(* began and what the rows before it added; a code that the person agreed  *)
(* to replace is there until its row is written.                           *)
(***************************************************************************)
Stored == {p \in Places : Used(p)}

AddsBefore(r, n) == {j \in DOMAIN r : j < n /\ r[j].verdict = "add"}

\* The codes that were there when the writing began leave room for the rows
\* that add one.
RoomFor(r, start) ==
    \A i \in DOMAIN r : r[i].verdict = "add" =>
        Cardinality(start) + Cardinality(AddsBefore(r, i)) < Holds[imp.store]

RoomKept(start) ==
    /\ RoomFor(rows, start)
    /\ Stored \subseteq start \cup {rows[j].name : j \in AddsBefore(rows, step.at)}
    /\ step.cmd # "add" => Place \in start
    /\ \A i \in DOMAIN rows :
          rows[i].verdict = "replace" /\ (i > step.at \/ (i = step.at /\ step.cmd = "add")) =>
              Used(rows[i].name)

Counts == imp.store # "molto2" /\ Capacity[imp.store] = Holds[imp.store] /\ ~raced

RoomInv ==
    /\ Writing /\ Counts => \E start \in SUBSET Places : RoomKept(start)
    /\ RoomAsPlanned

LEMMA ImageFinite ==
    ASSUME NEW S, IsFiniteSet(S), NEW f, DOMAIN f = S
    PROVE  /\ IsFiniteSet({f[x] : x \in S})
           /\ Cardinality({f[x] : x \in S}) <= Cardinality(S)
<1> DEFINE T == {f[x] : x \in S}
           g == [x \in S |-> f[x]]
<1>1. g \in [S -> T] /\ \A t \in T : \E x \in S : g[x] = t
  OBVIOUS
<1>2. g \in Surjection(S, T)
  BY <1>1 DEF Surjection
<1> HIDE DEF T, g
<1>3. IsFiniteSet(T) /\ Cardinality(T) <= Cardinality(S)
  BY <1>2, FS_Surjection
<1> QED BY <1>3 DEF T

LEMMA PlacesFinite ==
    ASSUME NEW im \in Imports, im.store # "molto2"
    PROVE  IsFiniteSet(PlacesOf(im))
<1> DEFINE D == DOMAIN im.file
           names == {NameOn(im.file[k], im.store) : k \in D}
           others == {<<0, l>> : l \in Elsewhere}
<1>1. IsFiniteSet(D)
  <2>1. D = 1..Len(im.file) /\ 1 \in Int /\ Len(im.file) \in Int
    BY ImportFacts
  <2> QED BY <2>1, FS_Interval
<1>2. IsFiniteSet(names)
  <2> DEFINE f == [k \in D |-> NameOn(im.file[k], im.store)]
  <2>1. DOMAIN f = D /\ names = {f[k] : k \in D}
    OBVIOUS
  <2> HIDE DEF f, D, names
  <2> QED BY <1>1, <2>1, ImageFinite
<1>3. IsFiniteSet(others)
  <2> DEFINE f == [l \in Elsewhere |-> <<0, l>>]
  <2>1. DOMAIN f = Elsewhere /\ others = {f[l] : l \in Elsewhere}
    OBVIOUS
  <2>2. IsFiniteSet(Elsewhere)
    BY ImportRunAssumption
  <2> HIDE DEF f, others
  <2> QED BY <2>1, <2>2, ImageFinite
<1>4. PlacesOf(im) = (names \ {NoName}) \cup others
  BY DEF PlacesOf
<1> HIDE DEF names, others
<1>5. PlacesOf(im) \in SUBSET (names \cup others)
  BY <1>4
<1>6. IsFiniteSet(names \cup others)
  BY <1>2, <1>3, FS_Union
<1> QED BY <1>5, <1>6, FS_Subset

\* The indices before one of a plan.
LEMMA AddsFinite ==
    ASSUME NEW r, NEW N \in Nat, DOMAIN r \subseteq 0..N, NEW n
    PROVE  IsFiniteSet(AddsBefore(r, n)) /\ Cardinality(AddsBefore(r, n)) \in Nat
<1>1. AddsBefore(r, n) \in SUBSET (0..N)
  BY DEF AddsBefore
<1>2. 0 \in Int /\ N \in Int
  OBVIOUS
<1>3. IsFiniteSet(0..N)
  BY <1>2, FS_Interval
<1>4. IsFiniteSet(AddsBefore(r, n))
  BY <1>1, <1>3, FS_Subset
<1> QED BY <1>4, FS_CardinalityType

LEMMA PlanRoom ==
    ASSUME NEW im \in Imports, im.store # "molto2", NEW names, NEW h,
           Cardinality(names) \in Nat, h \in Nat,
           Capacity[im.store] = Holds[im.store],
           NEW i \in 1..Len(im.file)
    PROVE  LET P == PlanFor(im, names, h) IN
           /\ P[i].verdict = "add" =>
                 Cardinality(names) + h + Cardinality(AddsBefore(P, i)) < Holds[im.store]
           /\ P[i].verdict = "replace" => P[i].name \in names
<1> DEFINE P == PlanFor(im, names, h)
           r == NamedRows(im.file, im.store, names, im.replace)
           c == Cardinality(names) + h
           cap == Capacity[im.store]
           N == Len(im.file)
           B == {j \in 1..(i - 1) : r[j].verdict = "add"}
<1>0. N \in Nat /\ c \in Nat /\ cap \in Nat /\ cap # Unknown /\ im.store \in Stores
  BY ImportFacts, ImportRunAssumption, ImportPlanAssumption
<1>1. P = WithRoom(r, c, cap) /\ DOMAIN r = 1..N
  BY DEF PlanFor, plan, NamedRows
<1>2. r[i].verdict = "replace" => r[i].name \in names
  <2> DEFINE seen == SeenIn(im.file, im.store, names, im.replace)
             n == NameOn(im.file[i], im.store)
             v == VerdictOf(n, im.store, names, seen[i - 1], im.replace)
  <2>1. r[i] = [name |-> n, verdict |-> v]
    BY DEF NamedRows
  <2> HIDE DEF n, seen, r
  <2>2. v = "replace" => n \in names
    BY DEF VerdictOf
  <2> HIDE DEF v
  <2> QED BY <2>1, <2>2
<1> HIDE DEF r, c, cap, P
<1>3. ASSUME NEW k \in 1..N
      PROVE  P[k] = IF r[k].verdict = "add" /\ cap # Unknown
                         /\ c + Cardinality({j \in 1..(k - 1) : r[j].verdict = "add"}) >= cap
                    THEN [r[k] EXCEPT !.verdict = "skip"] ELSE r[k]
  BY <1>1 DEF WithRoom
<1>4. ASSUME NEW k \in 1..N, P[k].verdict \in {"add", "replace"} PROVE P[k] = r[k]
  <2>1. P[k] = r[k] \/ P[k] = [r[k] EXCEPT !.verdict = "skip"]
    BY <1>3
  <2>2. r[k] = [name |-> NameOn(im.file[k], im.store), verdict |-> r[k].verdict]
    BY <1>0, NamedAdds DEF r
  <2> QED BY <1>4, <2>1, <2>2
<1>5. DOMAIN P = 1..N
  BY PlanRows DEF P
<1>6. AddsBefore(P, i) \in SUBSET B
  <2>1. ASSUME NEW j \in AddsBefore(P, i) PROVE j \in B
    <3>1. j \in 1..N /\ j < i /\ P[j].verdict = "add"
      BY <1>5 DEF AddsBefore
    <3>2. j \in 1..(i - 1) /\ r[j].verdict = "add"
      BY <1>0, <1>4, <3>1
    <3> QED BY <3>2
  <2> QED BY <2>1
<1>7. IsFiniteSet(B)
  <2>1. 1 \in Int /\ i - 1 \in Int
    BY <1>0
  <2>2. IsFiniteSet(1..(i - 1))
    BY <2>1, FS_Interval
  <2>3. B \in SUBSET (1..(i - 1))
    OBVIOUS
  <2> HIDE DEF B
  <2> QED BY <2>2, <2>3, FS_Subset
<1>8. ASSUME P[i].verdict = "add" PROVE c + Cardinality(AddsBefore(P, i)) < cap
  <2>1. P[i] = r[i] /\ r[i].verdict = "add"
    BY <1>4, <1>8
  <2>2. ~(c + Cardinality(B) >= cap)
    <3>1. r[i] # [r[i] EXCEPT !.verdict = "skip"]
      <4>1. r[i] = [name |-> NameOn(im.file[i], im.store), verdict |-> r[i].verdict]
        BY <1>0, NamedAdds DEF r
      <4>2. [r[i] EXCEPT !.verdict = "skip"].verdict = "skip"
        BY <4>1
      <4> QED BY <2>1, <4>2
    <3> QED BY <1>0, <1>3, <2>1, <3>1
  <2> HIDE DEF B
  <2>3. /\ Cardinality(AddsBefore(P, i)) <= Cardinality(B) /\ Cardinality(B) \in Nat
        /\ Cardinality(AddsBefore(P, i)) \in Nat
    BY <1>6, <1>7, FS_Subset, FS_CardinalityType
  <2> QED BY <1>0, <2>2, <2>3
<1>9. P[i].verdict = "replace" => P[i].name \in names
  BY <1>2, <1>4
<1> QED BY <1>8, <1>9 DEF P, c, cap

\* A row that adds a code finds room.
LEMMA RoomLeft ==
    ASSUME Inv, Types, Writing, Counts, NEW start \in SUBSET Places, RoomKept(start),
           step.cmd = "add"
    PROVE  ~KeyFull
<1>0. imp \in Imports /\ Places = PlacesOf(imp) /\ Len(imp.file) \in Nat /\ imp.store \in Stores
      /\ DOMAIN rows \subseteq 0..Len(imp.file)
  BY ImportFacts DEF Inv, Shape, Places, GoodRows
<1>1. step.at \in DOMAIN rows /\ writes(Row) /\ Row = rows[step.at] /\ Place = rows[step.at].name
      /\ step.at \in Nat
  BY RowFacts DEF Inv, Row, Place
<1>2. CASE Row.verdict = "replace"
  BY <1>1, <1>2 DEF RoomKept, KeyFull
<1>3. CASE Row.verdict = "add"
  <2> DEFINE A == AddsBefore(rows, step.at)
             names == {rows[j].name : j \in A}
  <2>1. IsFiniteSet(A) /\ Cardinality(A) \in Nat
    BY <1>0, AddsFinite
  <2>2. IsFiniteSet(names) /\ Cardinality(names) <= Cardinality(A)
    <3> DEFINE f == [j \in A |-> rows[j].name]
    <3>1. DOMAIN f = A /\ names = {f[j] : j \in A}
      OBVIOUS
    <3> HIDE DEF f, A, names
    <3> QED BY <2>1, <3>1, ImageFinite
  <2>3. IsFiniteSet(start)
    BY <1>0, PlacesFinite, FS_Subset DEF Counts
  <2>4. Cardinality(start) + Cardinality(A) < Holds[imp.store] /\ Stored \in SUBSET (start \cup names)
    BY <1>1, <1>3 DEF RoomKept, RoomFor
  <2> HIDE DEF A, names
  <2>5. /\ IsFiniteSet(start \cup names)
        /\ Cardinality(start \cup names) = Cardinality(start) + Cardinality(names) - Cardinality(start \cap names)
    BY <2>2, <2>3, FS_Union
  <2>6. Cardinality(Stored) <= Cardinality(start \cup names) /\ IsFiniteSet(Stored)
    BY <2>4, <2>5, FS_Subset
  <2>7. start \cap names \in SUBSET start
    OBVIOUS
  <2>8. /\ Cardinality(start) \in Nat /\ Cardinality(names) \in Nat /\ Cardinality(Stored) \in Nat
        /\ Cardinality(start \cap names) \in Nat /\ Cardinality(start \cup names) \in Nat
    BY <2>2, <2>3, <2>5, <2>6, <2>7, FS_Subset, FS_CardinalityType
  <2>9. Holds[imp.store] \in Nat
    BY <1>0, ImportRunAssumption
  <2>10. Cardinality(Stored) < Holds[imp.store]
    BY <2>1, <2>2, <2>4, <2>5, <2>6, <2>8, <2>9
  <2> QED BY <2>8, <2>9, <2>10 DEF KeyFull, Stored
<1> QED BY <1>1, <1>2, <1>3 DEF writes

\* What a step of the run does to the codes.
OnlyPlace ==
    /\ imp' = imp /\ rows' = rows /\ DOMAIN codes' = DOMAIN codes
    /\ \A p \in Places : p # Place => codes'[p] = codes[p]

LEMMA RoomStays ==
    ASSUME Inv, Writing, OnlyPlace, NEW start \in SUBSET Places, RoomKept(start),
           step'.at = step.at,
           codes'[Place].parts > 0 => Used(Place) \/ Place \in start,
           step'.cmd # "add" => Place \in start,
           step'.cmd = "add" => step.cmd = "add" /\ codes' = codes
    PROVE  RoomKept(start)'
<1>0. imp' = imp /\ rows' = rows /\ Places' = Places /\ Place' = Place
  BY DEF OnlyPlace, Places, Place, Row
<1>1. Place \in Places /\ step.at \in Nat /\ step.at \in DOMAIN rows /\ DOMAIN rows \subseteq Nat
      /\ writes(rows[step.at]) /\ Place = rows[step.at].name
      /\ Places = PlacesOf(imp)
  BY RowFacts DEF Inv, Shape, GoodRows, Places, Place, Row
<1>2. RoomFor(rows, start)'
  BY <1>0 DEF RoomKept, RoomFor, AddsBefore
<1>3. Stored' \subseteq start \cup {rows[j].name : j \in AddsBefore(rows, step.at)}
  <2>1. ASSUME NEW p \in Stored' PROVE p \in start \/ p \in Stored
    BY <1>0, <2>1 DEF Stored, Used, OnlyPlace
  <2> QED BY <2>1 DEF RoomKept
<1>4. Stored' \subseteq start \cup {rows'[j].name : j \in AddsBefore(rows', step'.at)}
  BY <1>0, <1>3
<1>5. ASSUME NEW i \in DOMAIN rows, rows[i].verdict = "replace",
             i > step.at \/ (i = step.at /\ step'.cmd = "add")
      PROVE  codes'[rows[i].name].parts > 0
  <2>1. CASE i = step.at
    BY <1>1, <1>5, <2>1 DEF RoomKept, Used
  <2>2. CASE i > step.at
    <3>1. writes(rows[i]) /\ rows[i].name \in Places
      BY <1>1, <1>5 DEF writes, Inv, Shape, GoodRows
    <3>2. rows[i].name # Place
      BY <1>1, <2>2, <3>1 DEF Inv, Shape, GoodRows
    <3>3. codes[rows[i].name].parts > 0
      BY <1>5, <2>2 DEF RoomKept, Used
    <3> QED BY <3>1, <3>2, <3>3 DEF OnlyPlace
  <2> QED BY <1>5, <2>1, <2>2
<1> QED BY <1>0, <1>2, <1>4, <1>5 DEF RoomKept, Used

LEMMA RoomNext ==
    ASSUME Inv, Writing, OnlyPlace, NEW start \in SUBSET Places, RoomKept(start),
           step'.at \in Nat, step'.at > step.at, step'.cmd = "add",
           codes'[Place].parts > 0 => Used(Place) \/ Place \in start \/ Row.verdict = "add"
    PROVE  RoomKept(start)'
<1>0. imp' = imp /\ rows' = rows /\ Places' = Places
  BY DEF OnlyPlace, Places
<1>1. Place \in Places /\ step.at \in Nat /\ step.at \in DOMAIN rows /\ DOMAIN rows \subseteq Nat
      /\ writes(rows[step.at]) /\ Place = rows[step.at].name /\ Row = rows[step.at]
      /\ Places = PlacesOf(imp)
  BY RowFacts DEF Inv, Shape, GoodRows, Places, Place, Row
<1>2. RoomFor(rows, start)'
  BY <1>0 DEF RoomKept, RoomFor, AddsBefore
<1>3. AddsBefore(rows, step.at) \subseteq AddsBefore(rows, step'.at)
  BY <1>1 DEF AddsBefore
<1>4. Row.verdict = "add" => step.at \in AddsBefore(rows, step'.at)
  BY <1>1 DEF AddsBefore
<1>5. Stored' \subseteq start \cup {rows[j].name : j \in AddsBefore(rows, step'.at)}
  <2>1. ASSUME NEW p \in Stored' PROVE p \in start \/ p \in Stored \/ (p = Place /\ Row.verdict = "add")
    BY <1>0, <2>1 DEF Stored, Used, OnlyPlace
  <2>2. Stored \subseteq start \cup {rows[j].name : j \in AddsBefore(rows, step.at)}
    BY DEF RoomKept
  <2> QED BY <1>1, <1>3, <1>4, <2>1, <2>2
<1>6. ASSUME NEW i \in DOMAIN rows, rows[i].verdict = "replace", i >= step'.at
      PROVE  codes'[rows[i].name].parts > 0
  <2>1. i > step.at
    BY <1>1, <1>6
  <2>2. writes(rows[i]) /\ rows[i].name \in Places
    BY <1>1, <1>6 DEF writes, Inv, Shape, GoodRows
  <2>3. rows[i].name # Place
    BY <1>1, <2>1, <2>2 DEF Inv, Shape, GoodRows
  <2>4. codes[rows[i].name].parts > 0
    BY <1>6, <2>1 DEF RoomKept, Used
  <2> QED BY <2>2, <2>3, <2>4 DEF OnlyPlace
<1> QED BY <1>0, <1>1, <1>2, <1>5, <1>6 DEF RoomKept, Used

\* The row goes on or ends: room is kept for those after it.
LEMMA RoomGoesOn ==
    ASSUME Inv, Writing, OnlyPlace, NEW start \in SUBSET Places, RoomKept(start),
           NEW o, GoesOn(o),
           codes'[Place].parts > 0 => Used(Place) \/ Place \in start \/ Row.verdict = "add"
    PROVE  Writing' => RoomKept(start)'
<1> DEFINE later == ToWrite(rows, step.at)
<1>1. CASE later = {}
  BY <1>1 DEF GoesOn, Writing
<1>2. CASE later # {}
  <2>1. later \subseteq Nat /\ \A j \in later : j > step.at
    BY DEF ToWrite, Inv, Shape, GoodRows
  <2>2. step' = [NoStep EXCEPT !.at = Min(later)]
    BY <1>2 DEF GoesOn
  <2> HIDE DEF later
  <2>3. Min(later) \in later
    BY <1>2, <2>1, MinIsLeast
  <2>4. step'.at \in Nat /\ step'.at > step.at /\ step'.cmd = "add"
    BY <2>1, <2>2, <2>3 DEF NoStep
  <2> QED BY <2>4, RoomNext
<1> QED BY <1>1, <1>2

NoneFull(r) == \A i \in DOMAIN r : r[i] # "no-room"

\* Only a full key makes the loop say so.
LEMMA SaysFull ==
    ASSUME NoneFull(report), NEW answer, write_one(answer), ~(answer = "full" /\ step.cmd = "add")
    PROVE  NoneFull(report')
<1>1. ASSUME NEW o, o # "no-room", GoesOn(o) PROVE NoneFull(report')
  BY <1>1 DEF GoesOn, NoneFull
<1>2. ASSUME NEW o, o # "no-room", Stops(o, "not-tried") PROVE NoneFull(report')
  BY <1>2 DEF Stops, NoneFull
<1>3. ASSUME NEW cmd, Sends(cmd) PROVE NoneFull(report')
  BY <1>3 DEF Sends
<1>4. \/ \E o : o # "no-room" /\ GoesOn(o)
      \/ \E o : o # "no-room" /\ Stops(o, "not-tried")
      \/ \E cmd : Sends(cmd)
  BY DEF write_one
<1> QED BY <1>1, <1>2, <1>3, <1>4

LEMMA RoomStart ==
    ASSUME Inv, Types, Start, imp' = imp, Counts
    PROVE  RoomKept(Stored)'
<1>0. imp \in Imports /\ Places = PlacesOf(imp) /\ Len(imp.file) \in Nat /\ Rechecks
  BY ImportFacts DEF Inv, Shape, Places, Counts, Rechecks
<1>1. /\ rows' = shown /\ codes' = codes /\ shown = PlanNow
      /\ step' = [NoStep EXCEPT !.at = Min(ToWrite(shown, 0))]
  BY <1>0 DEF Start, recheck
<1> DEFINE h == Cardinality(unlisted)
           P == PlanFor(imp, Listing, h)
<1>2. shown = P /\ DOMAIN P = 1..Len(imp.file)
  BY <1>0, <1>1, PlanRows DEF PlanNow, PlanFor
<1>3. IsFiniteSet(Stored)
  <2>1. Stored \in SUBSET Places
    BY DEF Stored
  <2> QED BY <1>0, <2>1, PlacesFinite, FS_Subset DEF Counts
<1>4. /\ Cardinality(Listing) \in Nat /\ h \in Nat
      /\ Cardinality(Stored) = Cardinality(Listing) + h
  <2>1. /\ Listing \in SUBSET Stored /\ unlisted \in SUBSET Stored
        /\ Listing \cup unlisted = Stored /\ Listing \cap unlisted = {}
    BY DEF Listing, Stored, Used, Types, CodesOK
  <2>2. IsFiniteSet(Listing) /\ IsFiniteSet(unlisted)
    BY <1>3, <2>1, FS_Subset
  <2>3. Cardinality(Listing) \in Nat /\ Cardinality(unlisted) \in Nat /\ Cardinality({}) = 0
    BY <2>2, FS_CardinalityType, FS_EmptySet
  <2>4. Cardinality(Listing \cup unlisted)
            = Cardinality(Listing) + Cardinality(unlisted) - Cardinality(Listing \cap unlisted)
    BY <2>2, FS_Union
  <2>5. Cardinality(Stored) = Cardinality(Listing) + Cardinality(unlisted) - 0
    BY <2>1, <2>3, <2>4, Zenon
  <2> QED BY <2>3, <2>5
<1> HIDE DEF P
<1>5. ASSUME NEW i \in 1..Len(imp.file)
      PROVE  /\ P[i].verdict = "add" =>
                   Cardinality(Listing) + h + Cardinality(AddsBefore(P, i)) < Holds[imp.store]
             /\ P[i].verdict = "replace" => P[i].name \in Listing
  BY <1>0, <1>4, PlanRoom DEF P, Counts
<1> HIDE DEF h
<1>6. RoomFor(shown, Stored)
  BY <1>2, <1>4, <1>5 DEF RoomFor
<1>7. Stored' = Stored /\ step'.cmd = "add"
  BY <1>1 DEF Stored, Used, Places, NoStep
<1>8. RoomFor(rows, Stored)'
  BY <1>1, <1>6, <1>7 DEF RoomFor, AddsBefore
<1>9. ASSUME NEW i \in DOMAIN shown, shown[i].verdict = "replace" PROVE Used(shown[i].name)
  BY <1>2, <1>5, <1>9 DEF Listing, Used
<1> QED BY <1>1, <1>7, <1>8, <1>9 DEF RoomKept, Used

LEMMA RoomDone ==
    ASSUME Inv, Types, Done, imp' = imp, Counts, NEW start \in SUBSET Places, RoomKept(start)
    PROVE  Writing' => RoomKept(start)'
<1>1. pc = "write" /\ Writing /\ KeyDoes /\ Carried /\ rows' = rows
  BY DEF Done, Sent, Writing, begun
<1>2. write_one("ok") /\ imp.store # "molto2" /\ step \in Steps
  BY <1>1 DEF Carried, Counts, Inv, Shape, Steps
<1>3. Place \in Places /\ writes(Row) /\ Row = rows[step.at] /\ Place = rows[step.at].name
      /\ step.at \in DOMAIN rows /\ step.at \in Nat
  BY <1>1, RowFacts DEF Inv, Shape, Places, Row, Place
<1>4. OnlyPlace
  BY <1>1, <1>3 DEF OnlyPlace, KeyDoes, Places
<1>5. CASE step.cmd = "delete"
  <2>1. Sends("readd")
    BY <1>2, <1>5 DEF write_one
  <2>2. step'.at = step.at /\ step'.cmd = "readd"
    BY <1>2, <2>1 DEF Sends, Steps
  <2>3. codes'[Place] = NoCode
    BY <1>1, <1>3, <1>5 DEF KeyDoes, Places
  <2>4. ~(codes'[Place].parts > 0)
    BY <2>3 DEF NoCode
  <2>5. Place \in start
    BY <1>5 DEF RoomKept
  <2> QED BY <1>1, <1>4, <2>2, <2>4, <2>5, RoomStays
<1>6. CASE step.cmd \in {"add", "readd"}
  <2>1. PICK o : GoesOn(o)
    BY <1>2, <1>6 DEF write_one
  <2>2. Used(Place) \/ Place \in start \/ Row.verdict = "add"
    BY <1>3, <1>6 DEF RoomKept, writes
  <2> QED BY <1>1, <1>4, <2>1, <2>2, RoomGoesOn
<1> QED BY <1>2, <1>5, <1>6 DEF Steps

LEMMA RoomRefused ==
    ASSUME Inv, Types, Refused, imp' = imp, Counts, NEW start \in SUBSET Places, RoomKept(start)
    PROVE  Writing' => RoomKept(start)'
<1>1. pc = "write" /\ Writing /\ write_one(KeyAnswer) /\ rows' = rows /\ codes' = codes /\ KeyAnswer # "ok"
  BY DEF Refused, Sent, Writing, begun, key
<1>2. step \in Steps /\ Writing /\ step.at \in DOMAIN rows /\ writes(rows[step.at])
      /\ Place = rows[step.at].name /\ DOMAIN rows \subseteq Nat
  BY <1>1, RowFacts DEF Inv, Shape, Row, Place, GoodRows, Steps
<1>3. OnlyPlace
  BY <1>1 DEF OnlyPlace
<1>4. CASE step.cmd = "add" /\ KeyAnswer = "exists"
  <2>1. Used(Place)
    BY <1>4 DEF KeyAnswer
  <2>2. Place \in start
    <3>1. Place \in Stored
      BY <1>1, <2>1, RowFacts DEF Stored, Inv, Shape, Places
    <3>2. ASSUME NEW j \in AddsBefore(rows, step.at) PROVE rows[j].name # Place
      <4>1. j \in DOMAIN rows /\ j < step.at /\ writes(rows[j])
        BY DEF AddsBefore, writes
      <4>2. step.at \in Nat /\ j \in Nat
        BY <1>2, <4>1
      <4> QED BY <1>2, <4>1, <4>2 DEF Inv, Shape, GoodRows
    <3> QED BY <3>1, <3>2 DEF RoomKept
  <2>3. CASE may_replace
    <3>1. Sends("delete")
      BY <1>1, <1>4, <2>3 DEF write_one
    <3>2. step'.at = step.at /\ step'.cmd = "delete"
      BY <1>2, <3>1 DEF Sends, Steps
    <3> QED BY <1>1, <1>3, <2>1, <2>2, <3>2, RoomStays
  <2>4. CASE ~may_replace
    <3>1. GoesOn("exists")
      BY <1>1, <1>4, <2>4 DEF write_one
    <3> QED BY <1>1, <1>3, <2>1, <3>1, RoomGoesOn
  <2> QED BY <2>3, <2>4
<1>5. CASE ~(step.cmd = "add" /\ KeyAnswer = "exists")
  <2>1. \E o : \E rest : Stops(o, rest)
    BY <1>1, <1>2, <1>5 DEF write_one, Steps
  <2> QED BY <2>1 DEF Stops, Writing
<1> QED BY <1>4, <1>5

\* A full key: the plan left room, so it is not said of a row that adds.
LEMMA RefusedNotFull ==
    ASSUME Inv, Types, RoomInv, Refused, Capacity[imp.store] = Holds[imp.store], ~raced
    PROVE  ~(KeyAnswer = "full" /\ step.cmd = "add")
<1> SUFFICES ASSUME KeyAnswer = "full", step.cmd = "add" PROVE FALSE
  OBVIOUS
<1>1. imp.store # "molto2" /\ KeyFull
  BY DEF KeyAnswer
<1>2. Writing /\ Counts
  BY <1>1 DEF Refused, Sent, Writing, Counts
<1>3. PICK start \in SUBSET Places : RoomKept(start)
  BY <1>2 DEF RoomInv
<1> QED BY <1>1, <1>2, <1>3, RoomLeft

LEMMA RoomKeepsOn ==
    ASSUME Inv, Types, RoomInv, [Next]_vars
    PROVE  RoomInv'
<1>0. imp' = imp /\ step \in Steps
  BY SameImport DEF Inv, Shape, Steps
<1>r. ~raced' => ~raced
  BY IdleSteps DEF Next, Writes, Over, vars, ReadKey, Idle, KeyChanged, Start, Unsent,
     VerifyFirst, VerifyFirstFails, Refused, NotDone, Asked, Answers, AnswerFails, Forgets,
     Done, AnswerLost, Foreign, ForeignStores, ForeignDeletes, ForeignLocks
<1>c. Counts' => Counts
  BY <1>0, <1>r DEF Counts
\* The report of a run with room.
<1>p. ASSUME Capacity[imp.store] = Holds[imp.store], ~raced' PROVE NoneFull(report')
  <2>1. NoneFull(report)
    BY <1>p, <1>r DEF RoomInv, RoomAsPlanned, NoneFull
  <2>2. ASSUME NEW answer, write_one(answer), answer # "full" PROVE NoneFull(report')
    BY <2>1, <2>2, SaysFull
  <2>3. CASE Refused
    <3>1. write_one(KeyAnswer)
      BY <2>3 DEF Refused
    <3>2. ~(KeyAnswer = "full" /\ step.cmd = "add")
      BY <1>p, <1>r, <2>3, RefusedNotFull
    <3> HIDE DEF KeyAnswer
    <3> QED BY <2>1, <3>1, <3>2, SaysFull
  <2>4. CASE Start
    BY <2>4 DEF Start, NoneFull
  <2>5. CASE report' = report
    BY <2>1, <2>5
  <2>6. CASE write_one("failed") \/ write_one("ok")
    BY <2>2, <2>6
  <2>7. Refused \/ Start \/ report' = report \/ write_one("failed") \/ write_one("ok")
    BY IdleSteps DEF Next, Writes, Over, vars, ReadKey, Idle, KeyChanged, Unsent, VerifyFirst,
       VerifyFirstFails, NotDone, Asked, AnswerLost, Done, Carried, Answers, AnswerFails,
       Forgets, Foreign, ForeignStores, ForeignDeletes, ForeignLocks
  <2> QED BY <2>3, <2>4, <2>5, <2>6, <2>7
<1>q. RoomAsPlanned'
  BY <1>0, <1>p DEF RoomAsPlanned, NoneFull
<1>1. ASSUME Writing', Counts' PROVE (\E start \in SUBSET Places : RoomKept(start))'
  <2>0. Counts
    BY <1>c, <1>1
  <2>1. CASE Start
    <3>1. RoomKept(Stored)'
      BY <1>0, <2>0, <2>1, RoomStart
    <3>2. Stored' \in SUBSET Places'
      BY DEF Stored
    <3> QED BY <3>1, <3>2
  <2>2. CASE Done \/ Refused
    <3>1. Writing /\ Places' = Places
      BY <2>2 DEF Done, Refused, Sent, Writing, KeyDoes, key, Places
    <3>2. PICK start \in SUBSET Places : RoomKept(start)
      BY <2>0, <3>1 DEF RoomInv
    <3>3. RoomKept(start)'
      BY <1>0, <1>1, <2>0, <2>2, <3>2, RoomDone, RoomRefused
    <3> QED BY <3>1, <3>3
  <2>3. CASE Writing /\ UNCHANGED <<imp, rows, codes>> /\ step'.at = step.at /\ step'.cmd = step.cmd
    <3>1. PICK start \in SUBSET Places : RoomKept(start)
      BY <2>0, <2>3 DEF RoomInv
    <3>2. RoomKept(start)'
      BY <2>3, <3>1 DEF RoomKept, RoomFor, Stored, Places, Used, Place, Row, AddsBefore
    <3> QED BY <2>3, <3>2 DEF Places
  <2>4. CASE ~Writing /\ ~Start
    <3>1. ~Writing'
      BY <2>4, IdleSteps DEF Next, Writes, Over, vars, ReadKey, Idle, Ask, KeyChanged, Unsent,
         VerifyFirst, VerifyFirstFails, NotDone, Asked, AnswerLost, Done, Refused, Sent,
         Answers, AnswerFails, Forgets, Foreign, ForeignStores, ForeignDeletes, ForeignLocks,
         Writing
    <3> QED BY <1>1, <3>1
  <2>5. CASE Writing /\ Foreign
    BY <1>1, <2>5 DEF Foreign, Counts
  <2>6. CASE write_one("failed")
    BY <1>0, <1>1, <2>6, FailedStops DEF Writing
  <2>7. \/ Start \/ Done \/ Refused \/ (~Writing /\ ~Start) \/ (Writing /\ Foreign) \/ write_one("failed")
        \/ Writing /\ UNCHANGED <<imp, rows, codes>> /\ step'.at = step.at /\ step'.cmd = step.cmd
    <3>1. CASE Answers
      <4>1. step' = [step EXCEPT !.again = TRUE] /\ Writing /\ UNCHANGED <<imp, rows, codes>>
        BY <3>1 DEF Answers, SendAgain, Writing, begun
      <4> QED BY <1>0, <4>1 DEF Steps
    <3>2. CASE ~Answers /\ ~Start /\ Writing /\ ~Foreign
      BY <3>2, IdleSteps DEF Next, Writes, Over, vars, ReadKey, Idle, key, KeyChanged, Unsent,
         VerifyFirst, VerifyFirstFails, NotDone, Asked, AnswerLost, begun, AnswerFails, Forgets,
         ForeignStores, ForeignDeletes, ForeignLocks, Writing
    <3> QED BY <3>1, <3>2
  <2> QED BY <2>1, <2>2, <2>3, <2>4, <2>5, <2>6, <2>7
<1> QED BY <1>1, <1>q DEF RoomInv

(***************************************************************************)
(* A plan for a key whose capacity is known leaves room for all it adds:   *)
(* no import ends for want of room unless another program added codes while*)
(* it was written, even when the key listed only some of its codes         *)
(* (plan.rs, plan; run.rs, full).                                          *)
(***************************************************************************)
THEOREM RoomHolds == Spec => []RoomAsPlanned
<1>1. Init => RoomInv
  BY DEF Init, RoomInv, RoomAsPlanned, Writing
<1>2. Inv /\ Types /\ RoomInv /\ [Next]_vars => RoomInv'
  BY RoomKeepsOn
<1>3. RoomInv => RoomAsPlanned
  BY DEF RoomInv
<1> QED BY <1>1, <1>2, <1>3, TypesHold, PTL DEF Spec
=============================================================================
