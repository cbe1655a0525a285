--------------------------- MODULE LargeBlobsProofs ---------------------------
(***************************************************************************)
(* The properties of LargeBlobs for any number of processes, any arrays    *)
(* and any fragment size.  The first part is about the process that has    *)
(* the token: the array does not change under it, so what it writes is     *)
(* made from the array the key has.  It leaves the elements untyped.  The  *)
(* second part is about every process: the plans and reads it has made,    *)
(* and the names its scan thread has.                                      *)
(***************************************************************************)
EXTENDS LargeBlobs, BlobArrayProofs

IsSeq(s) == \E T : s \in Seq(T)

----------------------------------------------------------------------------
(* Sequences.                                                              *)

\* Two sequences are sequences over one set, and so is a sequence with one more.
LEMMA SeqPair ==
    ASSUME NEW s, NEW t, IsSeq(s), IsSeq(t)
    PROVE  \E T : s \in Seq(T) /\ t \in Seq(T)
<1>1. PICK S : s \in Seq(S) BY DEF IsSeq
<1>2. PICK T : t \in Seq(T) BY DEF IsSeq
<1>3. s \in Seq(S \cup T) /\ t \in Seq(S \cup T) BY <1>1, <1>2
<1> QED BY <1>3

LEMMA SeqConcat ==
    ASSUME NEW s, NEW t, IsSeq(s), IsSeq(t)
    PROVE  IsSeq(s \o t)
<1>1. PICK T : s \in Seq(T) /\ t \in Seq(T) BY SeqPair
<1> QED BY <1>1, ConcatProperties DEF IsSeq

LEMMA SeqAppend ==
    ASSUME NEW s, NEW e, IsSeq(s)
    PROVE  /\ IsSeq(Append(s, e))
           /\ Len(Append(s, e)) = Len(s) + 1
           /\ SubSeq(Append(s, e), 1, Len(s)) = s
<1>1. PICK T : s \in Seq(T) BY DEF IsSeq
<1>2. s \in Seq(T \cup {e}) /\ e \in T \cup {e} BY <1>1
<1>3. Append(s, e) \in Seq(T \cup {e}) /\ Len(Append(s, e)) = Len(s) + 1 BY <1>2
<1>4. SubSeq(Append(s, e), 1, Len(s)) = s BY <1>2
<1> QED BY <1>3, <1>4 DEF IsSeq

LEMMA SeqPart ==
    ASSUME NEW s, IsSeq(s), NEW m \in Nat, NEW n \in Nat, n <= Len(s)
    PROVE  IsSeq(SubSeq(s, m + 1, n))
<1>1. PICK T : s \in Seq(T) BY DEF IsSeq
<1>2. SubSeq(s, m + 1, n) \in Seq(T)
    <2>1. \A i \in (m + 1) .. n : i \in 1..Len(s) BY <1>1
    <2> QED BY <1>1, <2>1, SubSeqProperties
<1> QED BY <1>2 DEF IsSeq

LEMMA SeqLen ==
    ASSUME NEW s, IsSeq(s)
    PROVE  Len(s) \in Nat /\ SubSeq(s, 1, Len(s)) = s /\ (s = <<>> <=> Len(s) = 0)
<1>1. PICK T : s \in Seq(T) BY DEF IsSeq
<1> QED BY <1>1, SubSeqFull

----------------------------------------------------------------------------
(* The fragments of a read or a write.                                     *)

\* A fragment that follows on a prefix gives a longer prefix, and the last one the
\* whole.
LEMMA FragmentFollows ==
    ASSUME NEW s, IsSeq(s), NEW from \in Nat, from <= Len(s)
    PROVE  LET upto == from + Len(FragmentAt(s, from))
           IN  /\ upto \in Nat /\ upto <= Len(s) /\ IsSeq(FragmentAt(s, from))
               /\ Len(FragmentAt(s, from)) \in Nat
               /\ SubSeq(s, 1, from) \o FragmentAt(s, from) = SubSeq(s, 1, upto)
               /\ Len(SubSeq(s, 1, upto)) = upto
               /\ LastFragment(s, from) => upto = Len(s)
<1>1. PICK T : s \in Seq(T) BY DEF IsSeq
<1> DEFINE end == IF from + Frag < Len(s) THEN from + Frag ELSE Len(s)
<1>2. end \in Nat /\ from <= end /\ end <= Len(s) /\ Len(s) \in Nat
    BY <1>1, LargeBlobsAssumption
<1>3. FragmentAt(s, from) = SubSeq(s, from + 1, end) BY DEF FragmentAt
<1>4. Len(FragmentAt(s, from)) = end - from /\ IsSeq(FragmentAt(s, from))
    <2>1. Len(SubSeq(s, from + 1, end)) = end - from
        BY <1>1, <1>2, SubSeqProperties
    <2> QED BY <2>1, <1>2, <1>3, SeqPart
<1>5. SubSeq(s, 1, from) \o SubSeq(s, from + 1, end) = SubSeq(s, 1, end)
    <2>1. 1 \in 1..(Len(s) + 1) /\ from \in (1 - 1)..Len(s) /\ end \in from..Len(s) BY <1>2
    <2> HIDE DEF end
    <2> QED BY <1>1, <2>1, ConcatAdjacentSubSeq
<1>6. Len(SubSeq(s, 1, end)) = end BY <1>1, <1>2
<1>7. LastFragment(s, from) => end = Len(s)
    BY <1>2, LargeBlobsAssumption DEF LastFragment, MoreAfter
<1> HIDE DEF end
<1>8. from + Len(FragmentAt(s, from)) = end /\ Len(FragmentAt(s, from)) \in Nat BY <1>2, <1>4
<1> QED BY <1>2, <1>3, <1>4, <1>5, <1>6, <1>7, <1>8

\* A serialized array is read back as it was.
LEMMA CellsRoundTrip ==
    ASSUME NEW a, IsSeq(a)
    PROVE  IsSeq(Cells(a)) /\ Len(Cells(a)) = Len(a) + 1 /\ CellsIn(Cells(a)) = a
<1>1. /\ IsSeq(Cells(a)) /\ Len(Cells(a)) = Len(a) + 1
      /\ SubSeq(Cells(a), 1, Len(a)) = a
    BY SeqAppend DEF Cells
<1>2. Len(a) \in Nat BY SeqLen
<1>3. Len(Cells(a)) - 1 = Len(a) BY <1>1, <1>2
<1> QED BY <1>1, <1>3 DEF CellsIn

LEMMA PartIsSeq ==
    ASSUME NEW s, IsSeq(s), s # <<>>
    PROVE  IsSeq(CellsIn(s))
<1>1. Len(s) \in Nat /\ Len(s) # 0 BY SeqLen
<1>2. Len(s) - 1 \in Nat /\ Len(s) - 1 <= Len(s) BY <1>1
<1>3. IsSeq(SubSeq(s, 0 + 1, Len(s) - 1)) BY <1>2, SeqPart
<1> QED BY <1>3 DEF CellsIn

----------------------------------------------------------------------------
(* Every change of an array gives an array.                                *)

LEMMA PickedIsSeq ==
    ASSUME NEW a, NEW n \in Nat, NEW pos \in SUBSET (1..n)
    PROVE  IsSeq(Picked(a, pos))
<1>1. IsFiniteSet(pos)
    <2>1. IsFiniteSet(1..n) BY FS_Interval
    <2> QED BY <2>1, FS_Subset
<1>2. Cardinality(pos) \in Nat BY <1>1, FS_CardinalityType
<1> DEFINE T == {a[Nth(pos, k)] : k \in 1..Cardinality(pos)}
<1>3. Picked(a, pos) \in [1..Cardinality(pos) -> T] BY DEF Picked
<1>4. Picked(a, pos) \in Seq(T) BY <1>2, <1>3
<1> QED BY <1>4 DEF IsSeq

LEMMA FunctionIsSeq ==
    ASSUME NEW n \in Nat, NEW S, NEW f \in [1..n -> S]
    PROVE  f \in Seq(S)
OBVIOUS

LEMMA ChangedIsSeq ==
    ASSUME NEW p, NEW a, IsSeq(a)
    PROVE  IsSeq(Changed(p, a))
<1>1. Len(a) \in Nat BY SeqLen
<1>2. \A e : IsSeq(Append(a, e)) BY SeqAppend
<1>3. \A i, e : IsSeq([a EXCEPT ![i] = e])
    <2> SUFFICES ASSUME NEW i, NEW e PROVE IsSeq([a EXCEPT ![i] = e]) OBVIOUS
    <2>1. PICK T : a \in Seq(T) BY DEF IsSeq
    <2> DEFINE f == [a EXCEPT ![i] = e]
    <2>2. a \in [1..Len(a) -> T] BY <2>1
    <2>3. f \in [1..Len(a) -> T \cup {e}] BY <2>2, Zenon
    <2> HIDE DEF f
    <2>4. f \in Seq(T \cup {e}) BY <1>1, <2>3, FunctionIsSeq
    <2> QED BY <2>4 DEF IsSeq, f
<1>4. \A pos \in SUBSET (1..Len(a)) : IsSeq(Picked(a, pos)) BY <1>1, PickedIsSeq
<1>5. IsSeq(WithTextNote(a, op(p).item)) BY <1>2 DEF WithTextNote
<1>6. IsSeq(WithReplacedNote(a, op(p).at, op(p).item)) BY <1>3 DEF WithReplacedNote
<1>7. IsSeq(WithoutItem(a, ToDelete(p, a)))
    <2>1. (1..Len(a)) \ {ToDelete(p, a)} \in SUBSET (1..Len(a)) OBVIOUS
    <2> QED BY <1>4, <2>1 DEF WithoutItem
<1>8. IsSeq(OnlyLabel(a))
    <2>1. NamePositions(a) \in SUBSET (1..Len(a)) BY DEF NamePositions
    <2> QED BY <1>4, <2>1 DEF OnlyLabel
<1>9. IsSeq(WithLabel(a, op(p).item))
    <2>1. IsSeq(Picked(a, (1..Len(a)) \ NamePositions(a))) BY <1>4
    <2>2. IsSeq(Append(Picked(a, (1..Len(a)) \ NamePositions(a)), op(p).item)) BY <2>1, SeqAppend
    <2> QED BY <2>1, <2>2 DEF WithLabel
<1>10. IsSeq(<<>>)
    <2>1. <<>> \in Seq({}) OBVIOUS
    <2> QED BY <2>1 DEF IsSeq
<1> QED BY <1>5, <1>6, <1>7, <1>8, <1>9, <1>10 DEF Changed

----------------------------------------------------------------------------
(* The inductive invariant: what the process with the token knows.         *)

Fields == {"pc", "op", "data", "base", "sent"}
Shape ==
    /\ DOMAIN work = Procs
    /\ \A p \in Procs : DOMAIN work[p] = Fields
    /\ DOMAIN pending = {"cells", "length"}
Sequential ==
    /\ IsSeq(array) /\ IsSeq(pending.cells)
    /\ \A p \in Procs : IsSeq(work[p].base) /\ IsSeq(data(p)) /\ sent(p) \in Nat

\* Since the token was given nothing else has changed the array, so a second read
\* has a prefix of it so far.
HasPrefix(p) ==
    /\ Len(data(p)) <= Len(Cells(array))
    /\ data(p) = SubSeq(Cells(array), 1, Len(data(p)))
\* What the key has of a write is a prefix of it.
HasSent(p) ==
    /\ sent(p) <= Len(Output(p))
    /\ sent(p) # 0 /\ Len(pending.cells) = sent(p) =>
         pending.cells = SubSeq(Output(p), 1, sent(p)) /\ pending.length = Len(Output(p))

HeldBy(p) ==
    token = p =>
      /\ pc(p) = "check" => HasPrefix(p)
      /\ pc(p) = "write" /\ Rechecks(p) => work[p].base = array
      /\ pc(p) = "write" => HasSent(p)
Held == \A p \in Procs : HeldBy(p)

Inv == Shape /\ Sequential /\ Held

\* A process starts with nothing read and nothing sent.
LEMMA AtShape ==
    ASSUME NEW step, NEW o, NEW b
    PROVE  /\ DOMAIN At(step, o, b) = Fields
           /\ At(step, o, b).pc = step /\ At(step, o, b).op = o /\ At(step, o, b).base = b
           /\ At(step, o, b).data = <<>> /\ At(step, o, b).sent = 0
BY DEF At, Fields

LEMMA EmptyIsSeq == IsSeq(<<>>)
<1>1. <<>> \in Seq({}) OBVIOUS
<1> QED BY <1>1 DEF IsSeq

LEMMA InitInv == Init => Inv
<1> SUFFICES ASSUME Init PROVE Inv OBVIOUS
<1>1. Shape BY AtShape DEF Init, Shape, Idle, NoWrite
<1>2. IsSeq(array)
    <2>1. array \in Seq(Elements \cup {Junk}) BY LargeBlobsAssumption DEF Init, Arrays
    <2> QED BY <2>1 DEF IsSeq
<1>3. Sequential BY <1>2, AtShape, EmptyIsSeq DEF Init, Sequential, Idle, NoWrite, data, sent
<1>4. Held BY LargeBlobsAssumption DEF Init, Held, HeldBy
<1> QED BY <1>1, <1>3, <1>4 DEF Inv

\* What a read gives: a sequence, and the whole array when it is a prefix so far.
LEMMA ReadIsSeq ==
    ASSUME Inv, NEW p \in Procs, Len(data(p)) <= Len(Cells(array))
    PROVE  IsSeq(AllRead(p)) /\ (Accepted(p) => IsSeq(ReadArray(p)))
<1>1. IsSeq(data(p)) /\ IsSeq(Cells(array)) BY CellsRoundTrip DEF Inv, Sequential
<1>2. Len(data(p)) \in Nat BY <1>1, SeqLen
<1>3. IsSeq(FragmentAt(Cells(array), Len(data(p)))) BY <1>1, <1>2, FragmentFollows
<1>4. IsSeq(AllRead(p)) BY <1>1, <1>3, SeqConcat DEF AllRead
<1> QED BY <1>4, PartIsSeq DEF Accepted, ChecksumHolds, ReadArray

LEMMA ReadCurrent ==
    ASSUME Inv, NEW p \in Procs, HasPrefix(p)
    PROVE  LET n == Len(data(p)) + Len(FragmentAt(Cells(array), Len(data(p))))
           IN  /\ n <= Len(Cells(array)) /\ Len(AllRead(p)) = n
               /\ AllRead(p) = SubSeq(Cells(array), 1, n)
               /\ LastFragment(Cells(array), Len(data(p))) => ReadArray(p) = array
<1>1. /\ IsSeq(data(p)) /\ IsSeq(Cells(array)) /\ IsSeq(array)
      /\ CellsIn(Cells(array)) = array
    BY CellsRoundTrip DEF Inv, Sequential
<1>2. Len(data(p)) \in Nat BY <1>1, SeqLen
<1> DEFINE n == Len(data(p)) + Len(FragmentAt(Cells(array), Len(data(p))))
<1>3. /\ n \in Nat /\ n <= Len(Cells(array))
      /\ SubSeq(Cells(array), 1, Len(data(p))) \o FragmentAt(Cells(array), Len(data(p)))
            = SubSeq(Cells(array), 1, n)
      /\ Len(SubSeq(Cells(array), 1, n)) = n
      /\ LastFragment(Cells(array), Len(data(p))) => n = Len(Cells(array))
    BY <1>1, <1>2, FragmentFollows DEF HasPrefix
<1>4. AllRead(p) = SubSeq(Cells(array), 1, n) BY <1>3 DEF AllRead, HasPrefix
<1>5. ASSUME LastFragment(Cells(array), Len(data(p))) PROVE ReadArray(p) = array
    <2>1. AllRead(p) = Cells(array) BY <1>1, <1>3, <1>4, <1>5, SeqLen
    <2> QED BY <1>1, <2>1 DEF ReadArray
<1> QED BY <1>3, <1>4, <1>5

\* What the key has when it takes a fragment of p is a longer prefix of p's output.
LEMMA KeyHasPrefix ==
    ASSUME Inv, NEW p \in Procs, pc(p) = "write", KeyTakes(p)
    PROVE  LET n == sent(p) + Len(FragmentAt(Output(p), sent(p)))
           IN  /\ n \in Nat /\ n <= Len(Output(p)) /\ IsSeq(Output(p))
               /\ KeyHas(p).cells = SubSeq(Output(p), 1, n)
               /\ Len(KeyHas(p).cells) = n /\ IsSeq(KeyHas(p).cells)
               /\ KeyHas(p).length = Len(Output(p))
<1>1. /\ IsSeq(Output(p)) /\ sent(p) \in Nat
      /\ token = p /\ sent(p) <= Len(Output(p))
    BY ChangedIsSeq, CellsRoundTrip DEF Inv, Sequential, Held, HeldBy, HasSent, Output, KeyTakes
<1> DEFINE n == sent(p) + Len(FragmentAt(Output(p), sent(p)))
<1>2. /\ n \in Nat /\ n <= Len(Output(p))
      /\ IsSeq(FragmentAt(Output(p), sent(p)))
      /\ SubSeq(Output(p), 1, sent(p)) \o FragmentAt(Output(p), sent(p)) = SubSeq(Output(p), 1, n)
      /\ Len(SubSeq(Output(p), 1, n)) = n
    BY <1>1, FragmentFollows
<1>3. /\ (IF sent(p) = 0 THEN <<>> ELSE pending.cells) = SubSeq(Output(p), 1, sent(p))
      /\ (IF sent(p) = 0 THEN Len(Output(p)) ELSE pending.length) = Len(Output(p))
    <2>1. CASE sent(p) = 0
        <3>1. SubSeq(Output(p), 1, 0) = <<>> BY SubSeqEmpty
        <3> QED BY <2>1, <3>1
    <2>2. CASE sent(p) # 0
        BY <1>1, <2>2 DEF Inv, Held, HeldBy, HasSent, KeyTakes
    <2> QED BY <2>1, <2>2
<1>4. KeyHas(p).cells = SubSeq(Output(p), 1, n) /\ KeyHas(p).length = Len(Output(p))
    BY <1>2, <1>3 DEF KeyHas
<1>5. IsSeq(SubSeq(Output(p), 0 + 1, n)) BY <1>1, <1>2, SeqPart
<1> QED BY <1>1, <1>2, <1>4, <1>5

LEMMA WriteLastGives ==
    ASSUME Inv, NEW p \in Procs, WriteLast(p)
    PROVE  /\ array' = Changed(p, work[p].base) /\ IsSeq(array')
           /\ Rechecks(p) => array' = Changed(p, array) /\ work[p].base = array
<1>1. pc(p) = "write" /\ KeyTakes(p) /\ token = p BY DEF WriteLast, KeyTakes
<1> DEFINE n == sent(p) + Len(FragmentAt(Output(p), sent(p)))
<1>2. /\ n \in Nat /\ n <= Len(Output(p)) /\ IsSeq(Output(p))
      /\ KeyHas(p).cells = SubSeq(Output(p), 1, n)
      /\ Len(KeyHas(p).cells) = n
      /\ KeyHas(p).length = Len(Output(p))
    BY <1>1, KeyHasPrefix
<1>3. KeyHas(p).cells = Output(p) BY <1>2, SeqLen DEF WriteLast
<1>4. /\ IsSeq(Changed(p, work[p].base))
      /\ CellsIn(Output(p)) = Changed(p, work[p].base)
    BY ChangedIsSeq, CellsRoundTrip DEF Inv, Sequential, Output
<1>5. array' = Changed(p, work[p].base) BY <1>3, <1>4 DEF WriteLast, ArrayBecomes
<1>6. Rechecks(p) => work[p].base = array BY <1>1 DEF Inv, Held, HeldBy
<1> QED BY <1>4, <1>5, <1>6

----------------------------------------------------------------------------
(* Every step keeps the invariant.                                         *)

\* A process that does nothing keeps what it knows while neither the array nor the
\* unfinished write changes, and knows nothing once it lost the token.
LEMMA OtherHeld ==
    ASSUME Inv, NEW q \in Procs, work'[q] = work[q],
           token' = q => token = q /\ array' = array /\
                         (pending' = pending \/ pending' = NoWrite)
    PROVE  HeldBy(q)'
<1> SUFFICES ASSUME token' = q PROVE HeldBy(q)' BY DEF HeldBy
<1>1. token = q /\ array' = array OBVIOUS
<1>2. /\ pc(q)' = pc(q) /\ op(q)' = op(q) /\ data(q)' = data(q) /\ sent(q)' = sent(q)
      /\ work'[q].base = work[q].base
    BY DEF pc, op, data, sent
<1>3. Rechecks(q)' = Rechecks(q) BY <1>2 DEF Rechecks
<1>4. Output(q)' = Output(q)
    <2>1. Changed(q, work[q].base)' = Changed(q, work[q].base)
        <3>1. ToDelete(q, work[q].base)' = ToDelete(q, work[q].base) BY <1>2 DEF ToDelete
        <3> QED BY <1>2, <3>1 DEF Changed
    <2> QED BY <2>1 DEF Output
<1>5. HeldBy(q) BY DEF Inv, Held
<1>6. pc(q) = "check" => HasPrefix(q)' BY <1>1, <1>2, <1>5 DEF HeldBy, HasPrefix
<1>7. pc(q) = "write" /\ Rechecks(q) => work'[q].base = array' BY <1>1, <1>2, <1>5 DEF HeldBy
<1>8. pc(q) = "write" => HasSent(q)'
    <2> SUFFICES ASSUME pc(q) = "write" PROVE HasSent(q)' OBVIOUS
    <2>1. HasSent(q) BY <1>1, <1>5 DEF HeldBy
    <2>2. CASE pending' = pending BY <1>2, <1>4, <2>1, <2>2 DEF HasSent
    <2>3. CASE pending' = NoWrite
        <3>1. Len(pending.cells)' = 0 BY <2>3 DEF NoWrite
        <3> QED BY <1>2, <1>4, <2>1, <3>1 DEF HasSent
    <2> QED BY <2>2, <2>3
<1> QED BY <1>1, <1>2, <1>3, <1>6, <1>7, <1>8 DEF HeldBy

\* p moves on to another state and the key is left alone.
LEMMA MoveInv ==
    ASSUME Inv, NEW p \in Procs, NEW st,
           UNCHANGED <<array, pending>>, token' = token \/ token' = p,
           work' = [work EXCEPT ![p] = st],
           DOMAIN st = Fields, IsSeq(st.base), IsSeq(st.data), st.sent \in Nat,
           HeldBy(p)'
    PROVE  Inv'
<1>1. Shape' BY DEF Inv, Shape
<1>2. work'[p] = st /\ \A q \in Procs \ {p} : work'[q] = work[q] BY DEF Inv, Shape
<1>3. Sequential' BY <1>2 DEF Inv, Sequential, data, sent
<1>4. ASSUME NEW q \in Procs PROVE HeldBy(q)'
    <2>1. CASE q = p BY <2>1
    <2>2. CASE q # p BY <1>2, <2>2, OtherHeld
    <2> QED BY <2>1, <2>2
<1> QED BY <1>1, <1>3, <1>4 DEF Inv, Held

\* To a state that is neither the second read nor the write.
LEMMA MoveAway ==
    ASSUME Inv, NEW p \in Procs, NEW step, NEW o, NEW b, IsSeq(b),
           UNCHANGED <<array, pending, token>>,
           work' = [work EXCEPT ![p] = At(step, o, b)], step \notin {"check", "write"}
    PROVE  Inv'
<1>1. work'[p] = At(step, o, b) BY DEF Inv, Shape
<1>2. pc(p)' = step BY <1>1, AtShape DEF pc
<1>3. HeldBy(p)' BY <1>2 DEF HeldBy
<1>4. 0 \in Nat OBVIOUS
<1> DEFINE st == At(step, o, b)
<1>5. DOMAIN st = Fields /\ IsSeq(st.base) /\ IsSeq(st.data) /\ st.sent \in Nat
    BY <1>4, AtShape, EmptyIsSeq
<1> HIDE DEF st
<1> QED BY <1>3, <1>5, MoveInv DEF st

LEMMA BecomesIdle ==
    ASSUME Inv, NEW p \in Procs, UNCHANGED <<array, pending, token>>,
           \/ work' = [work EXCEPT ![p] = Idle]
           \/ work' = [work EXCEPT ![p] = Failed(p)]
    PROVE  Inv'
<1>1. \E step, o : /\ work' = [work EXCEPT ![p] = At(step, o, <<>>)]
                   /\ step \notin {"check", "write"}
    <2>1. CASE work' = [work EXCEPT ![p] = Idle]
        <3>1. "idle" \notin {"check", "write"} OBVIOUS
        <3> QED BY <2>1, <3>1 DEF Idle
    <2>2. CASE work' = [work EXCEPT ![p] = Failed(p)]
        <3>1. "failed" \notin {"check", "write"} OBVIOUS
        <3> QED BY <2>2, <3>1 DEF Failed
    <2> QED BY <2>1, <2>2
<1>2. PICK step, o : /\ work' = [work EXCEPT ![p] = At(step, o, <<>>)]
                     /\ step \notin {"check", "write"}
    BY <1>1
<1>3. IsSeq(<<>>) BY EmptyIsSeq
<1> QED BY <1>2, <1>3, MoveAway

LEMMA StartInv ==
    ASSUME Inv, NEW p \in Procs, AppStarts(p) \/ CtlStarts(p)
    PROVE  Inv'
<1>1. \E o, step : Begin(p, o, step) /\ step \in {"show", "plan"} BY DEF AppStarts, CtlStarts
<1>2. PICK o, step : Begin(p, o, step) /\ step \in {"show", "plan"} BY <1>1
<1> QED BY <1>2, MoveAway, EmptyIsSeq DEF Begin, Goes, key

LEMMA ReadMoreInv ==
    ASSUME Inv, NEW p \in Procs, ReadMore(p)
    PROVE  Inv'
<1>1. IsSeq(data(p)) /\ IsSeq(Cells(array)) BY CellsRoundTrip DEF Inv, Sequential
<1>2. Len(data(p)) \in Nat /\ Len(Cells(array)) \in Nat BY <1>1, SeqLen
<1>3. Len(data(p)) <= Len(Cells(array))
    BY <1>2, LargeBlobsAssumption DEF ReadMore, MoreAfter
<1> DEFINE st == [work[p] EXCEPT !.data = AllRead(p)]
<1>4. work' = [work EXCEPT ![p] = st] BY DEF ReadMore
<1>5. UNCHANGED <<array, pending, token>> BY DEF ReadMore, key
<1>6. /\ DOMAIN st = Fields /\ st.pc = pc(p) /\ st.data = AllRead(p) /\ st.base = work[p].base
      /\ st.sent = sent(p)
    BY DEF Inv, Shape, Fields, pc, sent
<1>7. IsSeq(st.base) /\ IsSeq(st.data) /\ st.sent \in Nat
    BY <1>3, <1>6, ReadIsSeq DEF Inv, Sequential
<1>8. pc(p)' = pc(p) /\ data(p)' = AllRead(p) BY <1>4, <1>6 DEF Inv, Shape, pc, data
<1>9. HeldBy(p)'
    <2> SUFFICES ASSUME token' = p, pc(p) = "check" PROVE HasPrefix(p)'
        BY <1>8 DEF HeldBy, ReadMore, Reading
    <2>1. HasPrefix(p) BY <1>5 DEF Inv, Held, HeldBy
    <2>2. /\ Len(AllRead(p)) <= Len(Cells(array))
          /\ AllRead(p) = SubSeq(Cells(array), 1, Len(AllRead(p)))
        BY <2>1, ReadCurrent
    <2> QED BY <1>5, <1>8, <2>2 DEF HasPrefix
<1> HIDE DEF st
<1> QED BY <1>4, <1>5, <1>6, <1>7, <1>9, MoveInv

LEMMA ReadEndsSeq ==
    ASSUME Inv, NEW p \in Procs, NEW at, ReadEnds(p, at), Accepted(p)
    PROVE  IsSeq(ReadArray(p))
BY ReadIsSeq DEF ReadEnds, LastFragment

LEMMA ShowReadInv ==
    ASSUME Inv, NEW p \in Procs, ShowRead(p)
    PROVE  Inv'
<1>1. UNCHANGED <<array, pending, token>> BY DEF ShowRead, key
<1>2. CASE Accepted(p) /\ p \notin Apps
    <2>1. work' = [work EXCEPT ![p] = At("plan", op(p), ReadArray(p))]
        BY <1>2 DEF ShowRead, Goes
    <2>2. IsSeq(ReadArray(p)) BY <1>2, ReadEndsSeq DEF ShowRead
    <2>3. "plan" \notin {"check", "write"} OBVIOUS
    <2> QED BY <1>1, <2>1, <2>2, <2>3, MoveAway
<1>3. CASE ~(Accepted(p) /\ p \notin Apps) BY <1>1, <1>3, BecomesIdle DEF ShowRead, Goes
<1> QED BY <1>2, <1>3

LEMMA PlanReadInv ==
    ASSUME Inv, NEW p \in Procs, PlanRead(p)
    PROVE  Inv'
<1>1. UNCHANGED <<array, pending, token>> BY DEF PlanRead, key
<1>2. CASE Accepted(p) /\ Plannable(p, ReadArray(p))
    <2>1. Goes(p, At("token", op(p), ReadArray(p))) BY <1>2 DEF PlanRead
    <2>2. IsSeq(ReadArray(p)) BY <1>2, ReadEndsSeq DEF PlanRead
    <2>3. work' = [work EXCEPT ![p] = At("token", op(p), ReadArray(p))] BY <2>1 DEF Goes
    <2>4. "token" \notin {"check", "write"} OBVIOUS
    <2> QED BY <1>1, <2>2, <2>3, <2>4, MoveAway
<1>3. CASE ~(Accepted(p) /\ Plannable(p, ReadArray(p)))
    <2>1. Goes(p, Idle) BY <1>3 DEF PlanRead
    <2> QED BY <1>1, <2>1, BecomesIdle DEF Goes
<1> QED BY <1>2, <1>3

\* The second read starts, or the write of an operation that has none.
LEMMA GetTokenInv ==
    ASSUME Inv, NEW p \in Procs, GetToken(p)
    PROVE  Inv'
<1> DEFINE step == IF Rechecks(p) THEN "check" ELSE "write"
           st == At(step, op(p), work[p].base)
<1>1. /\ UNCHANGED <<array, pending>> /\ token' = p
      /\ work' = [work EXCEPT ![p] = st]
    BY DEF GetToken, Goes
<1>2. /\ DOMAIN st = Fields /\ st.pc = step /\ st.op = op(p) /\ st.base = work[p].base
      /\ st.data = <<>> /\ st.sent = 0
    BY AtShape
<1>3. IsSeq(st.base) /\ IsSeq(st.data) /\ st.sent \in Nat
    BY <1>2, EmptyIsSeq DEF Inv, Sequential
<1>4. /\ pc(p)' = step /\ op(p)' = op(p) /\ data(p)' = <<>> /\ sent(p)' = 0
      /\ work'[p].base = work[p].base
    BY <1>1, <1>2 DEF Inv, Shape, pc, op, data, sent
<1>5. Rechecks(p)' = Rechecks(p) BY <1>4 DEF Rechecks
<1>6. IsSeq(array) /\ IsSeq(Cells(array)) BY CellsRoundTrip DEF Inv, Sequential
<1>7. HasPrefix(p)'
    <2>1. Len(data(p))' = 0 BY <1>4
    <2>2. SubSeq(Cells(array), 1, 0) = <<>> BY SubSeqEmpty
    <2>3. Len(Cells(array)) \in Nat BY <1>6, SeqLen
    <2> QED BY <1>1, <1>4, <2>1, <2>2, <2>3 DEF HasPrefix
<1>8. HasSent(p)'
    <2>1. IsSeq(work'[p].base) BY <1>4 DEF Inv, Sequential
    <2>2. IsSeq(Changed(p, work[p].base)')
        <3>1. ToDelete(p, work[p].base)' = ToDelete(p, work[p].base) BY <1>4 DEF ToDelete
        <3>2. Changed(p, work[p].base)' = Changed(p, work[p].base) BY <1>4, <3>1 DEF Changed
        <3> QED BY <3>2, ChangedIsSeq DEF Inv, Sequential
    <2>3. IsSeq(Output(p)') BY <2>2, CellsRoundTrip DEF Output
    <2>4. Len(Output(p)') \in Nat BY <2>3, SeqLen
    <2> QED BY <1>4, <2>4 DEF HasSent
<1>9. HeldBy(p)' BY <1>4, <1>5, <1>7, <1>8 DEF HeldBy
<1> HIDE DEF st
<1> QED BY <1>1, <1>2, <1>3, <1>9, MoveInv

\* The write starts from the array the key has.
LEMMA CheckReadInv ==
    ASSUME Inv, NEW p \in Procs, CheckRead(p)
    PROVE  Inv'
<1>1. UNCHANGED <<array, pending, token>> BY DEF CheckRead, key
<1>2. CASE ~(Accepted(p) /\ ReadArray(p) = work[p].base)
    BY <1>1, <1>2, BecomesIdle DEF CheckRead, Goes
<1>3. CASE Accepted(p) /\ ReadArray(p) = work[p].base
    <2> DEFINE st == At("write", op(p), work[p].base)
    <2>1. work' = [work EXCEPT ![p] = st] BY <1>3 DEF CheckRead, Goes
    <2>2. /\ DOMAIN st = Fields /\ st.pc = "write" /\ st.op = op(p) /\ st.base = work[p].base
          /\ st.data = <<>> /\ st.sent = 0
        BY AtShape
    <2>3. IsSeq(st.base) /\ IsSeq(st.data) /\ st.sent \in Nat
        BY <2>2, EmptyIsSeq DEF Inv, Sequential
    <2>4. /\ pc(p)' = "write" /\ op(p)' = op(p) /\ sent(p)' = 0
          /\ work'[p].base = work[p].base
        BY <2>1, <2>2 DEF Inv, Shape, pc, op, sent
    <2>5. token = p => work[p].base = array
        <3> SUFFICES ASSUME token = p PROVE work[p].base = array OBVIOUS
        <3>1. HasPrefix(p) BY DEF Inv, Held, HeldBy, CheckRead, ReadEnds
        <3> QED BY <1>3, <3>1, ReadCurrent DEF CheckRead, ReadEnds
    <2>6. HasSent(p)'
        <3>1. ToDelete(p, work[p].base)' = ToDelete(p, work[p].base) BY <2>4 DEF ToDelete
        <3>2. Changed(p, work[p].base)' = Changed(p, work[p].base) BY <2>4, <3>1 DEF Changed
        <3>3. IsSeq(Changed(p, work[p].base)') BY <3>2, ChangedIsSeq DEF Inv, Sequential
        <3>4. Len(Output(p)') \in Nat BY <3>3, CellsRoundTrip, SeqLen DEF Output
        <3> QED BY <2>4, <3>4 DEF HasSent
    <2>7. HeldBy(p)' BY <1>1, <2>4, <2>5, <2>6 DEF HeldBy
    <2> HIDE DEF st
    <2> QED BY <1>1, <2>1, <2>2, <2>3, <2>7, MoveInv
<1> QED BY <1>2, <1>3

\* The key has one more fragment of p's write.
LEMMA WritePartInv ==
    ASSUME Inv, NEW p \in Procs, WritePart(p)
    PROVE  Inv'
<1>1. pc(p) = "write" /\ KeyTakes(p) /\ token = p BY DEF WritePart, KeyTakes
<1> DEFINE n == sent(p) + Len(FragmentAt(Output(p), sent(p)))
<1>2. /\ n \in Nat /\ n <= Len(Output(p))
      /\ KeyHas(p).cells = SubSeq(Output(p), 1, n) /\ IsSeq(KeyHas(p).cells)
      /\ KeyHas(p).length = Len(Output(p))
    BY <1>1, KeyHasPrefix
<1> HIDE DEF n
<1>3. /\ pending' = KeyHas(p) /\ array' = array /\ token' = token
      /\ work' = [work EXCEPT ![p].sent = n]
    BY DEF WritePart, n, sent
<1>4. \A q \in Procs \ {p} : work'[q] = work[q] BY <1>3 DEF Inv, Shape
<1>5. /\ pc(p)' = pc(p) /\ op(p)' = op(p) /\ data(p)' = data(p) /\ sent(p)' = n
      /\ work'[p].base = work[p].base /\ DOMAIN work'[p] = Fields
    BY <1>3 DEF Inv, Shape, Fields, pc, op, data, sent
<1>6. Shape'
    <2>1. DOMAIN pending' = {"cells", "length"} BY <1>3 DEF KeyHas
    <2>2. DOMAIN work' = Procs BY <1>3 DEF Inv, Shape
    <2> QED BY <1>4, <1>5, <2>1, <2>2 DEF Inv, Shape
<1>7. Sequential'
    <2>1. IsSeq(array') /\ IsSeq(pending'.cells) BY <1>2, <1>3 DEF Inv, Sequential
    <2>2. ASSUME NEW q \in Procs
          PROVE  IsSeq(work'[q].base) /\ IsSeq(data(q)') /\ sent(q)' \in Nat
        <3>1. CASE q = p BY <1>2, <1>5, <3>1 DEF Inv, Sequential
        <3>2. CASE q # p BY <1>4, <3>2 DEF Inv, Sequential, data, sent
        <3> QED BY <3>1, <3>2
    <2> QED BY <2>1, <2>2 DEF Sequential
<1>8. HeldBy(p)'
    <2>1. Rechecks(p)' = Rechecks(p) BY <1>5 DEF Rechecks
    <2>2. ToDelete(p, work[p].base)' = ToDelete(p, work[p].base) BY <1>5 DEF ToDelete
    <2>3. Changed(p, work[p].base)' = Changed(p, work[p].base) BY <1>5, <2>2 DEF Changed
    <2>4. Output(p)' = Output(p) BY <2>3 DEF Output
    <2>5. HasSent(p)' BY <1>2, <1>3, <1>5, <2>4 DEF HasSent
    <2> QED BY <1>1, <1>3, <1>5, <2>1, <2>5 DEF Inv, Held, HeldBy
<1>9. ASSUME NEW q \in Procs PROVE HeldBy(q)'
    <2>1. CASE q = p BY <1>8, <2>1
    <2>2. CASE q # p BY <1>1, <1>3, <2>2 DEF HeldBy
    <2> QED BY <2>1, <2>2
<1> QED BY <1>6, <1>7, <1>9 DEF Inv, Held

\* The array changes, and only the process with the token knew anything of it.
LEMMA WriteLastInv ==
    ASSUME Inv, NEW p \in Procs, WriteLast(p)
    PROVE  Inv'
<1>1. token = p /\ token' = token /\ pending' = NoWrite BY DEF WriteLast, KeyTakes
<1>2. PICK end \in {"written", "failed"} : work' = [work EXCEPT ![p] = At(end, op(p), <<>>)]
    BY DEF WriteLast
<1>3. work'[p] = At(end, op(p), <<>>) /\ \A q \in Procs \ {p} : work'[q] = work[q]
    BY <1>2 DEF Inv, Shape
<1>4. Shape' BY <1>1, <1>2, <1>3, AtShape DEF Inv, Shape, NoWrite
<1>5. Sequential'
    <2>1. IsSeq(array') BY WriteLastGives
    <2>2. IsSeq(pending'.cells) BY <1>1, EmptyIsSeq DEF NoWrite
    <2>3. ASSUME NEW q \in Procs
          PROVE  IsSeq(work'[q].base) /\ IsSeq(data(q)') /\ sent(q)' \in Nat
        <3>1. CASE q = p BY <1>3, <3>1, AtShape, EmptyIsSeq DEF data, sent
        <3>2. CASE q # p BY <1>3, <3>2 DEF Inv, Sequential, data, sent
        <3> QED BY <3>1, <3>2
    <2> QED BY <2>1, <2>2, <2>3 DEF Sequential
<1>6. ASSUME NEW q \in Procs PROVE HeldBy(q)'
    <2>1. CASE q = p
        <3>1. pc(q)' = end BY <1>3, <2>1, AtShape DEF pc
        <3> QED BY <3>1 DEF HeldBy
    <2>2. CASE q # p BY <1>1, <2>2 DEF HeldBy
    <2> QED BY <2>1, <2>2
<1> QED BY <1>4, <1>5, <1>6 DEF Inv, Held

LEMMA EndInv ==
    ASSUME Inv, NEW p \in Procs,
           WriteRefused(p) \/ AfterWrite(p) \/ BackRead(p) \/ Fails(p)
    PROVE  Inv'
<1>1. UNCHANGED <<array, pending, token>>
    BY DEF WriteRefused, AfterWrite, BackRead, Fails, key
<1>2. \/ work' = [work EXCEPT ![p] = Idle]
      \/ work' = [work EXCEPT ![p] = Failed(p)]
      \/ work' = [work EXCEPT ![p] = At("back", op(p), <<>>)]
    BY DEF WriteRefused, AfterWrite, BackRead, Fails, Goes
<1>3. CASE work' = [work EXCEPT ![p] = At("back", op(p), <<>>)]
    <2>1. IsSeq(<<>>) /\ "back" \notin {"check", "write"} BY EmptyIsSeq
    <2> QED BY <1>1, <1>3, <2>1, MoveAway
<1> QED BY <1>1, <1>2, <1>3, BecomesIdle

\* Nobody's token counts once another program changed the array.
LEMMA KeyInv ==
    ASSUME Inv, KeyForgetsWrite \/ ForeignToken \/ ForeignWrite
    PROVE  Inv'
<1>1. work' = work /\ (token' = token \/ token' = NoItem)
    BY DEF KeyForgetsWrite, ForeignToken, ForeignWrite
<1>2. pending' = pending \/ pending' = NoWrite
    BY DEF KeyForgetsWrite, ForeignToken, ForeignWrite
<1>3. token' # NoItem => array' = array
    BY DEF KeyForgetsWrite, ForeignToken, ForeignWrite
<1>4. IsSeq(array')
    <2>1. IsSeq(array) /\ Len(array) \in Nat BY SeqLen DEF Inv, Sequential
    <2>2. CASE array' = array BY <2>1, <2>2
    <2>3. CASE \E e : array' = Append(array, e) BY <2>1, <2>3, SeqAppend
    <2>4. CASE \E i \in 1..Len(array) : array' = WithoutItem(array, i)
        <3>1. PICK i \in 1..Len(array) : array' = WithoutItem(array, i) BY <2>4
        <3>2. (1..Len(array)) \ {i} \in SUBSET (1..Len(array)) OBVIOUS
        <3>3. IsSeq(Picked(array, (1..Len(array)) \ {i})) BY <2>1, <3>2, PickedIsSeq
        <3> QED BY <3>1, <3>3 DEF WithoutItem
    <2> QED BY <2>2, <2>3, <2>4 DEF KeyForgetsWrite, ForeignToken, ForeignWrite, ArrayBecomes
<1>5. Shape' BY <1>1, <1>2 DEF Inv, Shape, NoWrite
<1>6. Sequential' BY <1>1, <1>2, <1>4, EmptyIsSeq DEF Inv, Sequential, NoWrite, data, sent
<1>7. ASSUME NEW q \in Procs PROVE HeldBy(q)'
    <2>1. q # NoItem BY LargeBlobsAssumption
    <2> QED BY <1>1, <1>2, <1>3, <2>1, OtherHeld
<1> QED BY <1>5, <1>6, <1>7 DEF Inv, Held

LEMMA StutterInv ==
    ASSUME Inv, UNCHANGED <<key, work>>
    PROVE  Inv'
<1>1. UNCHANGED <<array, pending, token, work>> BY DEF key
<1>2. Shape' /\ Sequential' BY <1>1 DEF Inv, Shape, Sequential, data, sent
<1>3. ASSUME NEW q \in Procs PROVE HeldBy(q)' BY <1>1, OtherHeld
<1> QED BY <1>2, <1>3 DEF Inv, Held

LEMMA NextInv ==
    ASSUME Inv, [Next]_vars
    PROVE  Inv'
<1>1. CASE UNCHANGED vars BY <1>1, StutterInv DEF vars
<1>2. ASSUME NEW p \in Procs, AppStarts(p) \/ CtlStarts(p) \/ Work(p) PROVE Inv'
    BY <1>2, StartInv, ReadMoreInv, ShowReadInv, PlanReadInv, GetTokenInv, CheckReadInv,
       WritePartInv, WriteLastInv, EndInv DEF Work
<1>3. ASSUME NEW p \in Scanners, Scan(p) PROVE Inv'
    BY <1>3, StutterInv DEF Scan, ScanStart, ScanEnd, LabelExpires
<1> QED BY <1>1, <1>2, <1>3, KeyInv DEF Next

----------------------------------------------------------------------------
\* What a step may do to the array: it stays, another program's write changes it, or
\* a process that is done with its write.
LEMMA StepWritesOnCurrent ==
    ASSUME Inv, [Next]_vars, NEW p \in Procs, Writes(p), Rechecks(p)
    PROVE  array' = Changed(p, array) /\ work[p].base = array
<1>1. array' # array /\ pc(p) = "write" /\ work'[p].pc # "write" BY DEF Writes
<1>2. ~UNCHANGED vars BY <1>1 DEF vars, key
<1>3. ~ForeignWrite /\ ~ForeignToken /\ ~KeyForgetsWrite
    BY <1>1 DEF ForeignWrite, ForeignToken, KeyForgetsWrite, pc
<1>4. \A q \in Procs : ~(AppStarts(q) \/ CtlStarts(q))
    BY <1>1 DEF AppStarts, CtlStarts, Begin, key
<1>5. \A q \in Scanners : ~Scan(q)
    BY <1>1 DEF Scan, ScanStart, ScanEnd, LabelExpires, key
<1>6. \E q \in Procs : WriteLast(q)
    BY <1>1, <1>2, <1>3, <1>4, <1>5 DEF Next, Work, ReadMore, ShowRead, PlanRead, GetToken,
       CheckRead, WritePart, WriteRefused, AfterWrite, BackRead, Fails, key
<1>7. PICK q \in Procs : WriteLast(q) BY <1>6
<1>8. q = p
    <2> SUFFICES ASSUME q # p PROVE FALSE OBVIOUS
    <2>1. work'[p] = work[p] BY <1>7 DEF WriteLast, Inv, Shape
    <2> QED BY <1>1, <2>1 DEF pc
<1> QED BY <1>7, <1>8, WriteLastGives

\* device_label.rs, apply_label_plan, and main.rs, large_blob_write_token: with any
\* number of apps, runs of keyroostctl and other programs, arrays and fragments of any
\* size, a write that re-reads once it has the token changes the key's own array.
THEOREM CurrentHolds == Spec => WritesOnCurrent
<1>1. Inv /\ [Next]_vars =>
        [\A p \in Procs : Writes(p) /\ Rechecks(p) => array' = Changed(p, array)]_vars
    BY StepWritesOnCurrent
<1>2. Inv /\ [Next]_vars => Inv' BY NextInv
<1> QED BY <1>1, <1>2, InitInv, PTL DEF Spec, WritesOnCurrent
----------------------------------------------------------------------------
(* What each process knows, with or without the token: the plan it made    *)
(* fits the array it was made from and what the person saw, and a read has *)
(* cells of the arrays the key had since it began.                         *)

Ready == {"token", "check", "write"}
PlanMade(p, w) ==
    /\ w.op.kind \in {"add", "edit"} => w.op.item \in Elements
    /\ w.pc \in Ready /\ w.op.kind \in {"add", "edit", "delete", "name"} => ~Trailing(w.base)
    /\ w.pc \in Ready /\ w.op.kind = "delete" /\ p \in Apps =>
         \E k \in 1..Len(w.base) : w.base[k] = w.op.item
PlanShown(p, w, listed) ==
    p \in Apps /\ w.pc \in Ready =>
      /\ w.op.kind \in {"clear", "keep"} => w.base = listed
      /\ w.op.kind = "name" => ReadableLabel(w.base) = w.op.was
CellFrom(c, S) == c \in Elements \cup {Junk} \/ \E b \in S : c = Checksum(b)
ReadFrom(w, a, S) ==
    w.pc \in Reading => a \in S /\ \A i \in 1..Len(w.data) : CellFrom(w.data[i], S)

Known ==
    /\ work \in [Procs -> WorkType] /\ seen \in [Procs -> SUBSET Arrays]
    /\ \A p \in Procs : /\ PlanMade(p, work[p])
                        /\ PlanShown(p, work[p], shown[p])
                        /\ ReadFrom(work[p], array, seen[p])

KeyTyped ==
    /\ array \in Arrays /\ token \in Procs \cup {NoItem}
    /\ foreign \in 0..MaxForeign /\ begun \in 0..MaxOps
    /\ pending \in [cells : Seq(CellValues), length : Nat]
    /\ shown \in [Apps -> Arrays \cup {<<NoItem>>}]

\* A name whose read a write overtook is in nobody's hands once the write is over.
ScanType == [on : BOOLEAN, fresh : BOOLEAN, old : BOOLEAN]
LabelType == [on : BOOLEAN, old : BOOLEAN]
NoneStale(w, s, c) ==
    (s.on /\ s.fresh /\ s.old) \/ (c.on /\ c.old) => w.pc \in {"written", "failed"}
NamesKnown ==
    /\ scan \in [Procs -> ScanType] /\ cache \in [Procs -> LabelType]
    /\ \A p \in Procs : NoneStale(work[p], scan[p], cache[p])

\* A state At gives: nothing read, nothing sent, and no plan unless it is for one.
LEMMA AtKnown ==
    ASSUME NEW p, NEW step \in Steps, NEW o \in OpType, NEW b \in Arrays,
           o.kind \in {"add", "edit"} => o.item \in Elements
    PROVE  /\ At(step, o, b) \in WorkType /\ At(step, o, b).data = <<>>
           /\ At(step, o, b).pc = step
           /\ step \notin Ready => /\ PlanMade(p, At(step, o, b))
                                   /\ \A s : PlanShown(p, At(step, o, b), s)
<1>1. <<>> \in Seq(CellValues) /\ 0 \in Nat OBVIOUS
<1>2. At(step, o, b) \in WorkType BY <1>1 DEF At, WorkType
<1> QED BY <1>2, AtShape DEF PlanMade, PlanShown

LEMMA IdleKnown ==
    ASSUME NEW p
    PROVE  /\ Idle \in WorkType /\ Idle.data = <<>> /\ Idle.pc = "idle"
           /\ PlanMade(p, Idle) /\ \A s : PlanShown(p, Idle, s)
<1>1. Load \in OpType /\ Load.kind = "load" BY DEF Load, Op, OpType, Kinds
<1>2. "idle" \in Steps /\ "idle" \notin Ready BY DEF Steps, Ready
<1> QED BY <1>1, <1>2, EmptyIsArray, AtKnown DEF Idle

LEMMA FailedKnown ==
    ASSUME Known, NEW p \in Procs
    PROVE  /\ Failed(p) \in WorkType /\ Failed(p).data = <<>> /\ Failed(p).pc = "failed"
           /\ PlanMade(p, Failed(p)) /\ \A s : PlanShown(p, Failed(p), s)
<1>1. op(p) \in OpType BY DEF Known, WorkType, op
<1>2. op(p).kind \in {"add", "edit"} => op(p).item \in Elements BY DEF Known, PlanMade, op
<1>3. "failed" \in Steps /\ "failed" \notin Ready BY DEF Steps, Ready
<1> QED BY <1>1, <1>2, <1>3, EmptyIsArray, AtKnown DEF Failed, op

\* Every change a process may have planned gives an array.
LEMMA ChangedIsArray ==
    ASSUME Known, NEW p \in Procs, pc(p) \in Ready
    PROVE  Changed(p, work[p].base) \in Arrays
<1> DEFINE a == work[p].base
           o == op(p)
<1>1. a \in Arrays /\ o.item \in Elements \cup {NoItem} /\ o.kind \in Kinds
    BY DEF Known, WorkType, OpType, op
<1>2. /\ o.kind \in {"add", "edit"} => o.item \in Elements
      /\ o.kind \in {"add", "edit", "delete", "name"} => ~Trailing(a)
    BY DEF Known, PlanMade, op, pc
<1> HIDE DEF a, o
<1>3. o.kind = "add" => WithTextNote(a, o.item) \in Arrays
    BY <1>1, <1>2, AppendIsArray DEF WithTextNote
<1>4. o.kind = "edit" => WithReplacedNote(a, o.at, o.item) \in Arrays
    BY <1>1, <1>2, ReplaceIsArray DEF WithReplacedNote
<1>5. WithoutItem(a, ToDelete(p, a)) \in Arrays
    <2>1. (1..Len(a)) \ {ToDelete(p, a)} \in SUBSET (1..Len(a)) OBVIOUS
    <2> QED BY <1>1, <2>1, PickedIsArray DEF WithoutItem
<1>6. OnlyLabel(a) \in Arrays
    <2>1. NamePositions(a) \in SUBSET (1..Len(a)) BY DEF NamePositions
    <2> QED BY <1>1, <2>1, PickedIsArray DEF OnlyLabel
<1>7. o.kind = "name" => WithLabel(a, o.item) \in Arrays BY <1>1, <1>2, WithLabelIsArray
<1>8. <<>> \in Arrays BY EmptyIsArray
<1>9. Changed(p, a) \in Arrays BY <1>3, <1>4, <1>5, <1>6, <1>7, <1>8 DEF Changed, o
<1> QED BY <1>9 DEF a

LEMMA CellsTyped ==
    ASSUME NEW a \in Arrays
    PROVE  /\ Cells(a) \in Seq(CellValues) /\ Len(Cells(a)) = Len(a) + 1
           /\ \A i \in 1..Len(Cells(a)) : CellFrom(Cells(a)[i], {a})
<1>1. /\ Len(a) \in Nat /\ a \in Seq(Elements \cup {Junk})
      /\ \A i \in 1..Len(a) : a[i] \in Elements \cup {Junk}
    BY ArrayElements
<1>2. a \in Seq(CellValues)
    <2>1. Elements \cup {Junk} \subseteq CellValues BY DEF CellValues
    <2> QED BY <1>1, <2>1
<1>3. Checksum(a) \in CellValues BY DEF Checksum, CellValues
<1>4. /\ Cells(a) \in Seq(CellValues) /\ Len(Cells(a)) = Len(a) + 1
      /\ Cells(a)[Len(a) + 1] = Checksum(a)
      /\ \A i \in 1..Len(a) : Cells(a)[i] = a[i]
    BY <1>2, <1>3 DEF Cells
<1>5. ASSUME NEW i \in 1..(Len(a) + 1) PROVE CellFrom(Cells(a)[i], {a})
    <2>1. CASE i = Len(a) + 1 BY <1>4, <2>1 DEF CellFrom
    <2>2. CASE i # Len(a) + 1
        <3>1. i \in 1..Len(a) BY <1>1, <2>2
        <3> QED BY <1>1, <1>4, <3>1 DEF CellFrom
    <2> QED BY <2>1, <2>2
<1> QED BY <1>4, <1>5

\* A fragment is of the cells it is taken from.
LEMMA FragmentTyped ==
    ASSUME NEW s \in Seq(CellValues), NEW from \in Nat, from <= Len(s)
    PROVE  /\ FragmentAt(s, from) \in Seq(CellValues)
           /\ \A i \in 1..Len(FragmentAt(s, from)) :
                 \E j \in 1..Len(s) : FragmentAt(s, from)[i] = s[j]
<1> DEFINE end == IF from + Frag < Len(s) THEN from + Frag ELSE Len(s)
<1>1. end \in Nat /\ from <= end /\ end <= Len(s) /\ Len(s) \in Nat
    BY LargeBlobsAssumption
<1>2. FragmentAt(s, from) = SubSeq(s, from + 1, end) BY DEF FragmentAt
<1> HIDE DEF end
<1>3. \A i \in (from + 1) .. end : i \in 1..Len(s) BY <1>1
<1>4. /\ SubSeq(s, from + 1, end) \in Seq(CellValues)
      /\ Len(SubSeq(s, from + 1, end)) = end - from
      /\ \A i \in 1..(end - from) : SubSeq(s, from + 1, end)[i] = s[from + i]
    BY <1>1, <1>3, SubSeqProperties
<1>5. \A i \in 1..(end - from) : from + i \in 1..Len(s) BY <1>1
<1> QED BY <1>2, <1>4, <1>5

\* What p has after the next fragment is still of arrays the key had since it began.
LEMMA AllReadKnown ==
    ASSUME Known, array \in Arrays, NEW p \in Procs, pc(p) \in Reading,
           Len(data(p)) <= Len(Cells(array))
    PROVE  /\ AllRead(p) \in Seq(CellValues)
           /\ \A i \in 1..Len(AllRead(p)) : CellFrom(AllRead(p)[i], seen[p])
<1> DEFINE d == data(p)
           f == FragmentAt(Cells(array), Len(data(p)))
<1>1. /\ d \in Seq(CellValues) /\ array \in seen[p]
      /\ \A i \in 1..Len(d) : CellFrom(d[i], seen[p])
    BY DEF Known, WorkType, ReadFrom, data, pc
<1>2. /\ Cells(array) \in Seq(CellValues)
      /\ \A i \in 1..Len(Cells(array)) : CellFrom(Cells(array)[i], {array})
    BY CellsTyped
<1>3. Len(d) \in Nat BY <1>1
<1>4. /\ f \in Seq(CellValues)
      /\ \A i \in 1..Len(f) : \E j \in 1..Len(Cells(array)) : f[i] = Cells(array)[j]
    BY <1>2, <1>3, FragmentTyped
<1> HIDE DEF f
<1>5. \A i \in 1..Len(f) : CellFrom(f[i], seen[p]) BY <1>1, <1>2, <1>4 DEF CellFrom
<1>6. AllRead(p) = d \o f BY DEF AllRead, f
<1> HIDE DEF d
<1>7. /\ d \o f \in Seq(CellValues) /\ Len(d \o f) = Len(d) + Len(f)
      /\ \A i \in 1..(Len(d) + Len(f)) :
            (d \o f)[i] = IF i <= Len(d) THEN d[i] ELSE f[i - Len(d)]
    BY <1>1, <1>4, ConcatProperties
<1>8. Len(d) \in Nat /\ Len(f) \in Nat BY <1>1, <1>4
<1>9. ASSUME NEW i \in 1..(Len(d) + Len(f)) PROVE CellFrom((d \o f)[i], seen[p])
    <2>1. CASE i <= Len(d)
        <3>1. i \in 1..Len(d) BY <1>8, <2>1
        <3> QED BY <1>1, <1>7, <2>1, <3>1
    <2>2. CASE ~(i <= Len(d))
        <3>1. i - Len(d) \in 1..Len(f) BY <1>8, <2>2
        <3> QED BY <1>5, <1>7, <2>2, <3>1
    <2> QED BY <2>1, <2>2
<1> QED BY <1>6, <1>7, <1>9

\* An accepted read is one of those arrays: only they have the checksum it ends in.
LEMMA AcceptedSeen ==
    ASSUME Known, array \in Arrays, NEW p \in Procs, pc(p) \in Reading,
           LastFragment(Cells(array), Len(data(p))), Accepted(p)
    PROVE  ReadArray(p) \in seen[p] /\ ReadArray(p) \in Arrays
<1>1. Len(data(p)) <= Len(Cells(array)) BY DEF LastFragment
<1> DEFINE s == AllRead(p)
<1>2. s \in Seq(CellValues) /\ \A i \in 1..Len(s) : CellFrom(s[i], seen[p])
    BY <1>1, AllReadKnown
<1>3. s # <<>> /\ s[Len(s)] = Checksum(CellsIn(s)) BY DEF Accepted, ChecksumHolds
<1>4. ReadArray(p) = CellsIn(s) BY DEF ReadArray
<1> HIDE DEF s
<1>5. Len(s) \in Nat /\ Len(s) \in 1..Len(s) BY <1>2, <1>3
<1>6. CellsIn(s) \in Seq(CellValues)
    <2>1. \A i \in 1..(Len(s) - 1) : i \in 1..Len(s) BY <1>5
    <2>2. Len(s) - 1 \in Nat BY <1>5
    <2> QED BY <1>2, <1>5, <2>1, <2>2, SubSeqProperties DEF CellsIn
<1>7. s[Len(s)] \notin Elements \cup {Junk}
    <2>1. Checksum(CellsIn(s)) \in [sum : Seq(CellValues)] BY <1>6 DEF Checksum
    <2> QED BY <1>3, <2>1, ChecksumAssumption
<1>8. PICK b \in seen[p] : s[Len(s)] = Checksum(b) BY <1>2, <1>5, <1>7 DEF CellFrom
<1>9. b = CellsIn(s)
    <2>1. Checksum(b).sum = b /\ Checksum(CellsIn(s)).sum = CellsIn(s) BY DEF Checksum
    <2> QED BY <1>3, <1>8, <2>1
<1> QED BY <1>4, <1>8, <1>9 DEF Known

----------------------------------------------------------------------------
(* Every step keeps what the processes know.                               *)

\* p goes on from nothing read; the others read, if they read, the same array.
LEMMA GoesKnown ==
    ASSUME Known, array \in Arrays, NEW p \in Procs, NEW st \in WorkType, Goes(p, st),
           array' = array, st.data = <<>>, PlanMade(p, st), PlanShown(p, st, shown'[p]),
           \A q \in Apps \ {p} : shown'[q] = shown[q]
    PROVE  Known'
<1>1. /\ work' = [work EXCEPT ![p] = st] /\ work \in [Procs -> WorkType]
      /\ seen' = [seen EXCEPT ![p] = IF st.pc \in Reading THEN {array} ELSE {}]
      /\ seen \in [Procs -> SUBSET Arrays]
    BY DEF Known, Goes
<1>2. work' \in [Procs -> WorkType] BY <1>1
<1>3. seen' \in [Procs -> SUBSET Arrays] BY <1>1
<1>4. /\ work'[p] = st /\ seen'[p] = IF st.pc \in Reading THEN {array} ELSE {}
      /\ \A q \in Procs \ {p} : work'[q] = work[q] /\ seen'[q] = seen[q]
    BY <1>1
<1>5. ASSUME NEW q \in Procs
      PROVE  /\ PlanMade(q, work'[q]) /\ PlanShown(q, work'[q], shown'[q])
             /\ ReadFrom(work'[q], array', seen'[q])
    <2>1. CASE q = p
        <3>1. ReadFrom(st, array, IF st.pc \in Reading THEN {array} ELSE {}) BY DEF ReadFrom
        <3> QED BY <1>4, <2>1, <3>1
    <2>2. CASE q # p
        <3>1. /\ PlanMade(q, work[q]) /\ PlanShown(q, work[q], shown[q])
              /\ ReadFrom(work[q], array, seen[q])
            BY DEF Known
        <3>2. q \in Apps => shown'[q] = shown[q] BY <2>2
        <3>3. PlanShown(q, work[q], shown'[q]) BY <3>1, <3>2 DEF PlanShown
        <3> QED BY <1>4, <2>2, <3>1, <3>3
    <2> QED BY <2>1, <2>2
<1> QED BY <1>2, <1>3, <1>5 DEF Known

\* It stops, or fails.
LEMMA StopsKnown ==
    ASSUME Known, array \in Arrays, NEW p \in Procs, Goes(p, Idle) \/ Goes(p, Failed(p)),
           array' = array, \A q \in Apps \ {p} : shown'[q] = shown[q]
    PROVE  Known'
<1>1. CASE Goes(p, Idle)
    <2>1. /\ Idle \in WorkType /\ Idle.data = <<>>
          /\ PlanMade(p, Idle) /\ PlanShown(p, Idle, shown'[p])
        BY IdleKnown
    <2> QED BY <1>1, <2>1, GoesKnown
<1>2. CASE Goes(p, Failed(p))
    <2>1. /\ Failed(p) \in WorkType /\ Failed(p).data = <<>>
          /\ PlanMade(p, Failed(p)) /\ PlanShown(p, Failed(p), shown'[p])
        BY FailedKnown
    <2> QED BY <1>2, <2>1, GoesKnown
<1> QED BY <1>1, <1>2

LEMMA BeginKnown ==
    ASSUME Known, array \in Arrays, NEW p \in Procs, NEW o \in OpType, NEW step \in {"show", "plan"},
           Begin(p, o, step), o.kind \in {"add", "edit"} => o.item \in Elements
    PROVE  Known'
<1>1. Goes(p, At(step, o, <<>>)) /\ array' = array /\ shown' = shown BY DEF Begin, key
<1>2. step \in Steps /\ step \notin Ready BY DEF Steps, Reading, Ready
<1>3. /\ At(step, o, <<>>) \in WorkType /\ At(step, o, <<>>).data = <<>>
      /\ PlanMade(p, At(step, o, <<>>)) /\ PlanShown(p, At(step, o, <<>>), shown'[p])
    BY <1>2, AtKnown, EmptyIsArray
<1> QED BY <1>1, <1>3, GoesKnown

LEMMA OpTyped ==
    ASSUME NEW kind \in Kinds, NEW item \in Elements \cup {NoItem}, NEW at \in Nat,
           NEW was \in Names \cup {NoItem}
    PROVE  /\ Op(kind, item, at, was) \in OpType
           /\ Op(kind, item, at, was).kind = kind /\ Op(kind, item, at, was).item = item
BY DEF Op, OpType

LEMMA StartKnown ==
    ASSUME Known, KeyTyped, NEW p \in Procs, AppStarts(p) \/ CtlStarts(p)
    PROVE  Known'
<1>1. array \in Arrays BY DEF KeyTyped
<1>2. /\ Notes \subseteq Elements /\ ValidNames \subseteq Elements /\ ValidNames \subseteq Names
      /\ 0 \in Nat /\ \A m, n : m..n \subseteq Int
    BY DEF Elements, ValidNames
<1>3. /\ NoItem \in Elements \cup {NoItem} /\ NoItem \in Names \cup {NoItem}
      /\ {"load", "add", "edit", "delete", "clear", "keep", "name"} = Kinds
    BY DEF Kinds
<1>4. \A note \in Notes, at \in Nat, step \in {"show", "plan"} :
         Begin(p, Op("add", note, at, NoItem), step) \/ Begin(p, Op("edit", note, at, NoItem), step) => Known'
    BY <1>1, <1>2, <1>3, OpTyped, BeginKnown
<1>5. \A kind \in Kinds \ {"add", "edit"}, item \in Elements \cup {NoItem}, at \in Nat,
         was \in Names \cup {NoItem}, step \in {"show", "plan"} :
         Begin(p, Op(kind, item, at, was), step) => Known'
    BY <1>1, OpTyped, BeginKnown
<1>6. CASE AppStarts(p)
    <2>1. p \in Apps BY <1>6 DEF AppStarts
    <2>2. CASE Begin(p, Load, "show") BY <1>2, <1>3, <1>5, <2>2 DEF Load
    <2>3. CASE \E note \in Notes : Begin(p, Op("add", note, 0, NoItem), "plan") BY <1>2, <1>4, <2>3
    <2>4. CASE \E name \in ValidNames \cup {NoItem}, was \in ValidNames \cup {NoItem} :
                 Begin(p, Op("name", name, 0, was), "plan")
        BY <1>2, <1>3, <1>5, <2>4
    <2>5. ASSUME IsShown(p) PROVE shown[p] \in Arrays /\ Len(shown[p]) \in Nat
        BY <2>1, <2>5, ArrayElements DEF KeyTyped, IsShown
    <2>6. ASSUME IsShown(p), NEW i \in 1..Len(shown[p]), NEW note \in Notes,
                 Begin(p, Op("edit", note, i, NoItem), "plan")
          PROVE  Known'
        <3>1. i \in Nat BY <2>5, <2>6
        <3> QED BY <1>4, <2>6, <3>1
    <2>7. ASSUME IsShown(p), NEW i \in 1..Len(shown[p]), HasEntry(shown[p], i),
                 Begin(p, Op("delete", EntryAt(shown[p], i), 0, NoItem), "plan")
          PROVE  Known'
        <3>1. EntryAt(shown[p], i) \in Elements BY <2>5, <2>7, EntryIs
        <3> QED BY <1>2, <1>3, <1>5, <2>7, <3>1
    <2>8. CASE \E kind \in {"clear", "keep"} : Begin(p, Op(kind, NoItem, 0, NoItem), "plan")
        BY <1>2, <1>3, <1>5, <2>8
    <2> QED BY <1>6, <2>2, <2>3, <2>4, <2>6, <2>7, <2>8 DEF AppStarts
<1>7. CASE CtlStarts(p)
    <2>1. \A i \in 1..(MaxCells - 1) : i \in Nat BY LargeBlobsAssumption
    <2> QED BY <1>2, <1>3, <1>4, <1>5, <1>7, <2>1 DEF CtlStarts
<1> QED BY <1>6, <1>7

LEMMA ReadMoreKnown ==
    ASSUME Known, array \in Arrays, NEW p \in Procs, ReadMore(p)
    PROVE  Known'
<1> DEFINE st == [work[p] EXCEPT !.data = AllRead(p)]
<1>1. /\ pc(p) \in Reading /\ work' = [work EXCEPT ![p] = st]
      /\ array' = array /\ seen' = seen /\ shown' = shown
    BY DEF ReadMore, key
<1>2. Len(data(p)) <= Len(Cells(array))
    <2>1. data(p) \in Seq(CellValues) /\ Cells(array) \in Seq(CellValues)
        BY CellsTyped DEF Known, WorkType, data
    <2>2. Len(data(p)) \in Nat /\ Len(Cells(array)) \in Nat BY <2>1
    <2> QED BY <2>2, LargeBlobsAssumption DEF ReadMore, MoreAfter
<1>3. /\ AllRead(p) \in Seq(CellValues)
      /\ \A i \in 1..Len(AllRead(p)) : CellFrom(AllRead(p)[i], seen[p])
    BY <1>1, <1>2, AllReadKnown
<1>4. work[p] \in WorkType BY DEF Known
<1>5. /\ st \in WorkType /\ st.data = AllRead(p)
      /\ st.pc = work[p].pc /\ st.op = work[p].op /\ st.base = work[p].base
    BY <1>3, <1>4 DEF WorkType
<1> HIDE DEF st
<1>6. /\ PlanMade(p, st) /\ PlanShown(p, st, shown[p])
    BY <1>5 DEF Known, PlanMade, PlanShown
<1>7. ReadFrom(st, array, seen[p]) BY <1>3, <1>5 DEF Known, ReadFrom
<1>8. work' \in [Procs -> WorkType] /\ work'[p] = st /\ \A q \in Procs \ {p} : work'[q] = work[q]
    BY <1>1, <1>5 DEF Known
<1>9. ASSUME NEW q \in Procs
      PROVE  /\ PlanMade(q, work'[q]) /\ PlanShown(q, work'[q], shown'[q])
             /\ ReadFrom(work'[q], array', seen'[q])
    <2>1. CASE q = p BY <1>1, <1>6, <1>7, <1>8, <2>1
    <2>2. CASE q # p BY <1>1, <1>8, <2>2 DEF Known
    <2> QED BY <2>1, <2>2
<1> QED BY <1>1, <1>8, <1>9 DEF Known

LEMMA ReadGives ==
    ASSUME Known, array \in Arrays, NEW p \in Procs, NEW at \in Reading, ReadEnds(p, at), Accepted(p)
    PROVE  ReadArray(p) \in Arrays
BY AcceptedSeen DEF ReadEnds

LEMMA ShowReadKnown ==
    ASSUME Known, array \in Arrays, NEW p \in Procs, ShowRead(p)
    PROVE  Known'
<1>1. array' = array /\ \A q \in Apps \ {p} : shown'[q] = shown[q] BY DEF ShowRead, key
<1>2. CASE Accepted(p) /\ p \notin Apps
    <2> DEFINE st == At("plan", op(p), ReadArray(p))
    <2>1. ReadArray(p) \in Arrays BY <1>2, ReadGives DEF ShowRead, Reading
    <2>2. /\ op(p) \in OpType
          /\ op(p).kind \in {"add", "edit"} => op(p).item \in Elements
        BY DEF Known, WorkType, PlanMade, op
    <2>3. "plan" \in Steps /\ "plan" \notin Ready BY DEF Steps, Reading, Ready
    <2>4. st \in WorkType /\ st.data = <<>> /\ PlanMade(p, st) /\ PlanShown(p, st, shown'[p])
        BY <2>1, <2>2, <2>3, AtKnown
    <2>5. Goes(p, st) BY <1>2 DEF ShowRead
    <2> HIDE DEF st
    <2> QED BY <1>1, <2>4, <2>5, GoesKnown
<1>3. CASE ~(Accepted(p) /\ p \notin Apps) BY <1>1, <1>3, StopsKnown DEF ShowRead
<1> QED BY <1>2, <1>3

\* The plan is made: it fits the array just read.
LEMMA PlanReadKnown ==
    ASSUME Known, array \in Arrays, NEW p \in Procs, PlanRead(p)
    PROVE  Known'
<1>1. array' = array /\ \A q \in Apps \ {p} : shown'[q] = shown[q] BY DEF PlanRead, key
<1>2. CASE Accepted(p) /\ Plannable(p, ReadArray(p))
    <2> DEFINE a == ReadArray(p)
               st == At("token", op(p), a)
    <2>1. a \in Arrays BY <1>2, ReadGives DEF PlanRead, Reading
    <2>2. /\ op(p) \in OpType
          /\ op(p).kind \in {"add", "edit"} => op(p).item \in Elements
        BY DEF Known, WorkType, PlanMade, op
    <2>3. "token" \in Steps BY DEF Steps
    <2>4. /\ st \in WorkType /\ st.data = <<>> /\ st.pc = "token" /\ st.op = op(p) /\ st.base = a
        <3>1. st \in WorkType BY <2>1, <2>2, <2>3, AtKnown
        <3> QED BY <3>1, AtShape
    <2>5. op(p).kind \in {"add", "edit", "delete", "name"} => ~Trailing(a)
        BY <1>2 DEF Plannable, Nameable
    <2>6. op(p).kind = "delete" /\ p \in Apps => \E k \in 1..Len(a) : a[k] = op(p).item
        BY <1>2 DEF Plannable, EntryPositions
    <2>7. p \in Apps => /\ op(p).kind \in {"clear", "keep"} => a = shown[p]
                        /\ op(p).kind = "name" => ReadableLabel(a) = op(p).was
        BY <1>2 DEF Plannable, AsShown
    <2>8. op(p).kind \in {"clear", "keep"} => shown' = shown
        BY DEF PlanRead, AlreadySo, NamePlanned
    <2>9. Goes(p, st) BY <1>2 DEF PlanRead
    <2> HIDE DEF a, st
    <2>10. PlanMade(p, st) BY <2>2, <2>4, <2>5, <2>6 DEF PlanMade
    <2>11. PlanShown(p, st, shown'[p]) BY <2>4, <2>7, <2>8 DEF PlanShown
    <2> QED BY <1>1, <2>4, <2>9, <2>10, <2>11, GoesKnown
<1>3. CASE ~(Accepted(p) /\ Plannable(p, ReadArray(p)))
    <2>1. Goes(p, Idle) BY <1>3 DEF PlanRead
    <2> QED BY <1>1, <2>1, StopsKnown
<1> QED BY <1>2, <1>3

\* The plan is kept from the token to the write.
LEMMA PlanKept ==
    ASSUME Known, array \in Arrays, NEW p \in Procs, pc(p) \in Ready, NEW step \in Ready,
           Goes(p, At(step, op(p), work[p].base)), array' = array, shown' = shown
    PROVE  Known'
<1> DEFINE st == At(step, op(p), work[p].base)
<1>1. /\ op(p) \in OpType /\ work[p].base \in Arrays
      /\ op(p).kind \in {"add", "edit"} => op(p).item \in Elements
    BY DEF Known, WorkType, PlanMade, op
<1>2. step \in Steps BY DEF Ready, Steps, Reading
<1>3. /\ st \in WorkType /\ st.data = <<>> /\ st.pc = step /\ st.op = work[p].op
      /\ st.base = work[p].base
    <2>1. st \in WorkType BY <1>1, <1>2, AtKnown
    <2> QED BY <2>1, AtShape DEF op
<1>4. Goes(p, st) OBVIOUS
<1> HIDE DEF st
<1>5. PlanMade(p, st) BY <1>3 DEF Known, PlanMade, pc
<1>6. PlanShown(p, st, shown'[p]) BY <1>3 DEF Known, PlanShown, pc
<1> QED BY <1>3, <1>4, <1>5, <1>6, GoesKnown

LEMMA TokenCheckKnown ==
    ASSUME Known, array \in Arrays, NEW p \in Procs, GetToken(p) \/ CheckRead(p)
    PROVE  Known'
<1>1. array' = array /\ shown' = shown BY DEF GetToken, CheckRead, key
<1>2. {"token", "check", "write"} = Ready BY DEF Ready
<1>3. CASE GetToken(p)
    <2>1. Goes(p, At("check", op(p), work[p].base)) \/ Goes(p, At("write", op(p), work[p].base))
        BY <1>3 DEF GetToken
    <2>2. pc(p) \in Ready BY <1>2, <1>3 DEF GetToken
    <2> QED BY <1>1, <1>2, <2>1, <2>2, PlanKept
<1>4. CASE CheckRead(p)
    <2>1. \/ Goes(p, At("write", op(p), work[p].base))
          \/ Goes(p, Idle) \/ Goes(p, Failed(p))
        BY <1>4 DEF CheckRead
    <2>2. pc(p) \in Ready BY <1>2, <1>4 DEF CheckRead, ReadEnds
    <2> QED BY <1>1, <1>2, <2>1, <2>2, PlanKept, StopsKnown
<1> QED BY <1>3, <1>4

LEMMA EndKnown ==
    ASSUME Known, KeyTyped, NEW p \in Procs,
           WriteRefused(p) \/ AfterWrite(p) \/ BackRead(p) \/ Fails(p)
    PROVE  Known'
<1>1. array' = array /\ array \in Arrays
    BY DEF WriteRefused, AfterWrite, BackRead, Fails, key, KeyTyped
<1>2. \A q \in Apps \ {p} : shown'[q] = shown[q]
    <2>1. shown' = shown \/ \E x : shown' = [shown EXCEPT ![p] = x]
        BY DEF WriteRefused, AfterWrite, BackRead, Fails
    <2>2. DOMAIN shown = Apps BY DEF KeyTyped
    <2> QED BY <2>1, <2>2
<1>3. Goes(p, Idle) \/ Goes(p, Failed(p)) \/ Goes(p, At("back", op(p), <<>>))
    BY DEF WriteRefused, AfterWrite, BackRead, Fails
<1>4. CASE Goes(p, At("back", op(p), <<>>))
    <2> DEFINE st == At("back", op(p), <<>>)
    <2>1. /\ op(p) \in OpType
          /\ op(p).kind \in {"add", "edit"} => op(p).item \in Elements
        BY DEF Known, WorkType, PlanMade, op
    <2>2. "back" \in Steps /\ "back" \notin Ready BY DEF Steps, Reading, Ready
    <2>3. st \in WorkType /\ st.data = <<>> /\ PlanMade(p, st) /\ PlanShown(p, st, shown'[p])
        BY <2>1, <2>2, AtKnown, EmptyIsArray
    <2> HIDE DEF st
    <2> QED BY <1>1, <1>2, <1>4, <2>3, GoesKnown DEF st
<1> QED BY <1>1, <1>2, <1>3, <1>4, StopsKnown

LEMMA WritePartKnown ==
    ASSUME Inv, Known, NEW p \in Procs, WritePart(p)
    PROVE  Known'
<1> DEFINE n == sent(p) + Len(FragmentAt(Output(p), sent(p)))
           st == [work[p] EXCEPT !.sent = n]
<1>1. pc(p) = "write" /\ KeyTakes(p) /\ n \in Nat BY KeyHasPrefix DEF WritePart
<1>2. /\ array' = array /\ seen' = seen /\ shown' = shown /\ work' = [work EXCEPT ![p] = st]
    BY DEF WritePart, sent
<1> HIDE DEF n
<1>3. work[p] \in WorkType BY DEF Known
<1>4. /\ st \in WorkType /\ st.pc = work[p].pc /\ st.op = work[p].op /\ st.base = work[p].base
      /\ st.data = work[p].data
    BY <1>1, <1>3 DEF WorkType
<1> HIDE DEF st
<1>5. /\ PlanMade(p, st) /\ PlanShown(p, st, shown[p]) /\ ReadFrom(st, array, seen[p])
    BY <1>4 DEF Known, PlanMade, PlanShown, ReadFrom
<1>6. work' \in [Procs -> WorkType] /\ work'[p] = st /\ \A q \in Procs \ {p} : work'[q] = work[q]
    BY <1>2, <1>4 DEF Known
<1>7. ASSUME NEW q \in Procs
      PROVE  /\ PlanMade(q, work'[q]) /\ PlanShown(q, work'[q], shown'[q])
             /\ ReadFrom(work'[q], array', seen'[q])
    <2>1. CASE q = p BY <1>2, <1>5, <1>6, <2>1
    <2>2. CASE q # p BY <1>2, <1>6, <2>2 DEF Known
    <2> QED BY <2>1, <2>2
<1> QED BY <1>2, <1>6, <1>7 DEF Known

\* Everyone who reads sees the new array too.
LEMMA BecomesKnown ==
    ASSUME Known, NEW a \in Arrays, ArrayBecomes(a), NEW q \in Procs, work'[q] = work[q],
           shown' = shown
    PROVE  /\ seen' \in [Procs -> SUBSET Arrays]
           /\ PlanMade(q, work'[q]) /\ PlanShown(q, work'[q], shown'[q])
           /\ ReadFrom(work'[q], array', seen'[q])
<1>1. /\ array' = a
      /\ seen' = [r \in Procs |-> IF pc(r) \in Reading THEN seen[r] \cup {a} ELSE seen[r]]
    BY DEF ArrayBecomes
<1>2. seen \in [Procs -> SUBSET Arrays] BY DEF Known
<1>3. seen' \in [Procs -> SUBSET Arrays] BY <1>1, <1>2
<1>4. ReadFrom(work[q], array', seen'[q])
    <2> SUFFICES ASSUME work[q].pc \in Reading
                 PROVE  array' \in seen'[q] /\ \A i \in 1..Len(work[q].data) : CellFrom(work[q].data[i], seen'[q])
        BY DEF ReadFrom
    <2>1. seen'[q] = seen[q] \cup {a} BY <1>1 DEF pc
    <2>2. \A i \in 1..Len(work[q].data) : CellFrom(work[q].data[i], seen[q]) BY DEF Known, ReadFrom
    <2> QED BY <1>1, <2>1, <2>2 DEF CellFrom
<1> QED BY <1>3, <1>4 DEF Known

LEMMA WriteLastKnown ==
    ASSUME Inv, Known, NEW p \in Procs, WriteLast(p)
    PROVE  Known' /\ array' \in Arrays
<1>1. pc(p) \in Ready BY DEF WriteLast, Ready
<1>2. array' \in Arrays BY <1>1, WriteLastGives, ChangedIsArray
<1>3. ArrayBecomes(array') BY DEF WriteLast, ArrayBecomes
<1>4. PICK end \in {"written", "failed"} : work' = [work EXCEPT ![p] = At(end, op(p), <<>>)]
    BY DEF WriteLast
<1> DEFINE st == At(end, op(p), <<>>)
<1>5. /\ op(p) \in OpType
      /\ op(p).kind \in {"add", "edit"} => op(p).item \in Elements
    BY DEF Known, WorkType, PlanMade, op
<1>6. end \in Steps /\ end \notin Ready /\ end \notin Reading BY DEF Steps, Reading, Ready
<1>7. /\ st \in WorkType /\ st.pc = end /\ PlanMade(p, st) /\ PlanShown(p, st, shown[p])
    BY <1>5, <1>6, AtKnown, EmptyIsArray
<1>8. shown' = shown BY DEF WriteLast
<1>9. work' = [work EXCEPT ![p] = st] BY <1>4
<1> HIDE DEF st
<1>10. work' \in [Procs -> WorkType] /\ work'[p] = st /\ \A q \in Procs \ {p} : work'[q] = work[q]
    BY <1>7, <1>9 DEF Known
<1>11. ASSUME NEW q \in Procs
       PROVE  /\ PlanMade(q, work'[q]) /\ PlanShown(q, work'[q], shown'[q])
              /\ ReadFrom(work'[q], array', seen'[q])
    <2>1. CASE q = p BY <1>6, <1>7, <1>8, <1>10, <2>1 DEF ReadFrom
    <2>2. CASE q # p BY <1>2, <1>3, <1>8, <1>10, <2>2, BecomesKnown
    <2> QED BY <2>1, <2>2
<1>12. seen' \in [Procs -> SUBSET Arrays]
    <2>1. seen' = [r \in Procs |-> IF pc(r) \in Reading THEN seen[r] \cup {array'} ELSE seen[r]]
        BY <1>3 DEF ArrayBecomes
    <2> QED BY <1>2, <2>1 DEF Known
<1> QED BY <1>2, <1>10, <1>11, <1>12 DEF Known

LEMMA ForeignWriteKnown ==
    ASSUME Known, array \in Arrays, ForeignWrite
    PROVE  Known' /\ array' \in Arrays
<1>1. array' \in Arrays
    <2>1. ASSUME NEW e \in Opaque \cup Names \cup Skipped \cup {Junk}, ~Trailing(array),
                 array' = Append(array, e)
          PROVE  array' \in Arrays
        <3>1. e \in Elements \cup {Junk} BY DEF Elements
        <3> QED BY <2>1, <3>1, AppendIsArray
    <2>2. ASSUME NEW i \in 1..Len(array), array' = WithoutItem(array, i)
          PROVE  array' \in Arrays
        <3>1. (1..Len(array)) \ {i} \in SUBSET (1..Len(array)) OBVIOUS
        <3> QED BY <2>2, <3>1, PickedIsArray DEF WithoutItem
    <2> QED BY <2>1, <2>2 DEF ForeignWrite, ArrayBecomes
<1>2. ArrayBecomes(array') BY DEF ForeignWrite, ArrayBecomes
<1>3. work' = work /\ shown' = shown BY DEF ForeignWrite
<1>4. ASSUME NEW q \in Procs
      PROVE  /\ PlanMade(q, work'[q]) /\ PlanShown(q, work'[q], shown'[q])
             /\ ReadFrom(work'[q], array', seen'[q])
    BY <1>1, <1>2, <1>3, BecomesKnown
<1>5. seen' \in [Procs -> SUBSET Arrays]
    <2>1. seen' = [r \in Procs |-> IF pc(r) \in Reading THEN seen[r] \cup {array'} ELSE seen[r]]
        BY <1>2 DEF ArrayBecomes
    <2> QED BY <1>1, <2>1 DEF Known
<1> QED BY <1>1, <1>3, <1>4, <1>5 DEF Known

LEMMA NextKnown ==
    ASSUME Inv, Known, KeyTyped, [Next]_vars
    PROVE  Known' /\ array' \in Arrays
<1>1. array \in Arrays BY DEF KeyTyped
<1>2. ASSUME UNCHANGED <<array, work, seen, shown>> PROVE Known' /\ array' \in Arrays
    BY <1>1, <1>2 DEF Known
<1>3. CASE UNCHANGED vars BY <1>2, <1>3 DEF vars, key
<1>4. ASSUME NEW p \in Procs, AppStarts(p) \/ CtlStarts(p) PROVE Known' /\ array' \in Arrays
    <2>1. array' = array BY <1>4 DEF AppStarts, CtlStarts, Begin, key
    <2> QED BY <1>1, <1>4, <2>1, StartKnown
<1>5. ASSUME NEW p \in Procs, Work(p) PROVE Known' /\ array' \in Arrays
    <2>1. CASE WriteLast(p) BY <2>1, WriteLastKnown
    <2>2. CASE ~WriteLast(p)
        <3>1. array' = array
            BY <1>5, <2>2 DEF Work, ReadMore, ShowRead, PlanRead, GetToken, CheckRead, WritePart,
               WriteRefused, AfterWrite, BackRead, Fails, key
        <3>2. Known'
            BY <1>1, <1>5, <2>2, ReadMoreKnown, ShowReadKnown, PlanReadKnown, TokenCheckKnown,
               WritePartKnown, EndKnown DEF Work
        <3> QED BY <1>1, <3>1, <3>2
    <2> QED BY <2>1, <2>2
<1>6. ASSUME NEW p \in Scanners, Scan(p) PROVE Known' /\ array' \in Arrays
    BY <1>2, <1>6 DEF Scan, ScanStart, ScanEnd, LabelExpires, key
<1>7. CASE KeyForgetsWrite \/ ForeignToken
    BY <1>2, <1>7 DEF KeyForgetsWrite, ForeignToken
<1>8. CASE ForeignWrite BY <1>1, <1>8, ForeignWriteKnown
<1> QED BY <1>3, <1>4, <1>5, <1>6, <1>7, <1>8 DEF Next

----------------------------------------------------------------------------
(* The key, the tab and the names.                                         *)

\* What a step does to the key's count and to what the tab lists.
LEMMA TabTyped ==
    ASSUME Known, KeyTyped, NEW p \in Procs, Work(p)
    PROVE  shown' \in [Apps -> Arrays \cup {<<NoItem>>}]
<1>1. shown \in [Apps -> Arrays \cup {<<NoItem>>}] /\ array \in Arrays BY DEF KeyTyped
<1>2. CASE shown' = shown BY <1>1, <1>2
<1>3. CASE shown' = [shown EXCEPT ![p] = <<NoItem>>] BY <1>1, <1>3
<1>4. ASSUME NEW at \in {"show", "back"}, ReadEnds(p, at), Accepted(p),
             shown' = [shown EXCEPT ![p] = ReadArray(p)]
      PROVE  shown' \in [Apps -> Arrays \cup {<<NoItem>>}]
    <2>1. at \in Reading BY DEF Reading
    <2>2. ReadArray(p) \in Arrays BY <1>1, <1>4, <2>1, ReadGives
    <2> QED BY <1>1, <1>4, <2>2
<1>5. CASE ShowRead(p) BY <1>2, <1>4, <1>5 DEF ShowRead
<1>6. CASE BackRead(p)
    <2>1. \/ shown' = shown \/ shown' = [shown EXCEPT ![p] = <<NoItem>>]
          \/ Accepted(p) /\ shown' = [shown EXCEPT ![p] = ReadArray(p)]
        BY <1>6 DEF BackRead
    <2> QED BY <1>2, <1>3, <1>4, <1>6, <2>1 DEF BackRead
<1>7. CASE PlanRead(p) BY <1>2, <1>3, <1>7 DEF PlanRead
<1>8. CASE ~(ShowRead(p) \/ PlanRead(p) \/ BackRead(p))
    BY <1>1, <1>8 DEF Work, ReadMore, GetToken, CheckRead, WritePart, WriteLast, WriteRefused,
       AfterWrite, Fails
<1> QED BY <1>5, <1>6, <1>7, <1>8

LEMMA PendingTyped ==
    ASSUME Inv, Known, NEW p \in Procs, WritePart(p)
    PROVE  pending' \in [cells : Seq(CellValues), length : Nat]
<1>1. pc(p) = "write" /\ KeyTakes(p) /\ pending' = KeyHas(p) BY DEF WritePart
<1> DEFINE n == sent(p) + Len(FragmentAt(Output(p), sent(p)))
<1>2. /\ n \in Nat /\ n <= Len(Output(p))
      /\ KeyHas(p).cells = SubSeq(Output(p), 1, n) /\ KeyHas(p).length = Len(Output(p))
    BY <1>1, KeyHasPrefix
<1> HIDE DEF n
<1>3. Output(p) \in Seq(CellValues)
    <2>1. pc(p) \in Ready BY <1>1 DEF Ready
    <2> QED BY <2>1, ChangedIsArray, CellsTyped DEF Output
<1>4. Len(Output(p)) \in Nat /\ \A i \in 1..n : i \in 1..Len(Output(p)) BY <1>2, <1>3
<1>5. SubSeq(Output(p), 1, n) \in Seq(CellValues) BY <1>2, <1>3, <1>4, SubSeqProperties
<1>6. KeyHas(p) = [cells |-> KeyHas(p).cells, length |-> KeyHas(p).length] BY DEF KeyHas
<1> QED BY <1>1, <1>2, <1>4, <1>5, <1>6

LEMMA NextKeyTyped ==
    ASSUME Inv, Known, KeyTyped, [Next]_vars
    PROVE  KeyTyped'
<1>1. array' \in Arrays BY NextKnown
<1>2. NoWrite \in [cells : Seq(CellValues), length : Nat]
    <2>1. <<>> \in Seq(CellValues) /\ 0 \in Nat OBVIOUS
    <2> QED BY <2>1 DEF NoWrite
<1>3. MaxOps \in Nat /\ MaxForeign \in Nat BY LargeBlobsAssumption
<1>4. CASE UNCHANGED vars BY <1>4 DEF KeyTyped, vars, key
<1>5. ASSUME NEW p \in Procs, AppStarts(p) \/ CtlStarts(p) PROVE KeyTyped'
    <2>1. UNCHANGED <<key, shown>> /\ begun < MaxOps /\ begun' = begun + 1
        BY <1>5 DEF AppStarts, CtlStarts, Begin
    <2>2. begun' \in 0..MaxOps BY <1>3, <2>1 DEF KeyTyped
    <2> QED BY <2>1, <2>2 DEF KeyTyped, key
<1>6. ASSUME NEW p \in Procs, Work(p) PROVE KeyTyped'
    <2>1. shown' \in [Apps -> Arrays \cup {<<NoItem>>}] BY <1>6, TabTyped
    <2>2. foreign' = foreign /\ begun' = begun /\ (token' = token \/ token' = p)
        BY <1>6 DEF Work, ReadMore, ShowRead, PlanRead, GetToken, CheckRead, WritePart, WriteLast,
           WriteRefused, AfterWrite, BackRead, Fails, key
    <2>3. CASE WritePart(p) BY <1>1, <2>1, <2>2, <2>3, PendingTyped DEF KeyTyped
    <2>4. CASE ~WritePart(p)
        <3>1. pending' = pending \/ pending' = NoWrite
            BY <1>6, <2>4 DEF Work, ReadMore, ShowRead, PlanRead, GetToken, CheckRead, WriteLast,
               WriteRefused, AfterWrite, BackRead, Fails, key
        <3> QED BY <1>1, <1>2, <2>1, <2>2, <3>1 DEF KeyTyped
    <2> QED BY <2>3, <2>4
<1>7. ASSUME NEW p \in Scanners, Scan(p) PROVE KeyTyped'
    BY <1>7 DEF Scan, ScanStart, ScanEnd, LabelExpires, KeyTyped, key
<1>8. CASE KeyForgetsWrite BY <1>2, <1>8 DEF KeyForgetsWrite, KeyTyped
<1>9. CASE ForeignToken \/ ForeignWrite
    <2>1. /\ foreign < MaxForeign /\ foreign' = foreign + 1 /\ token' = NoItem
          /\ pending' = pending \/ pending' = NoWrite
          /\ shown' = shown /\ begun' = begun
        BY <1>9 DEF ForeignToken, ForeignWrite
    <2>2. foreign' \in 0..MaxForeign BY <1>3, <2>1 DEF KeyTyped
    <2> QED BY <1>1, <1>2, <2>1, <2>2 DEF KeyTyped
<1> QED BY <1>4, <1>5, <1>6, <1>7, <1>8, <1>9 DEF Next

\* A forget leaves nothing behind that a write overtook.
LEMMA ForgetNames ==
    ASSUME NamesKnown, NEW p \in Procs, ForgetKeyNames(p) \/ UNCHANGED names
    PROVE  /\ scan' \in [Procs -> ScanType] /\ cache' \in [Procs -> LabelType]
           /\ \A q \in Procs \ {p} : scan'[q] = scan[q] /\ cache'[q] = cache[q]
           /\ ForgetKeyNames(p) => \A w : NoneStale(w, scan'[p], cache'[p])
<1>1. scan \in [Procs -> ScanType] /\ cache \in [Procs -> LabelType] BY DEF NamesKnown
<1>2. CASE UNCHANGED names /\ ~ForgetKeyNames(p) BY <1>1, <1>2 DEF names
<1>3. CASE ForgetKeyNames(p)
    <2>1. /\ scan' = [scan EXCEPT ![p] = [scan[p] EXCEPT !.fresh = FALSE]]
          /\ cache' = [cache EXCEPT ![p] = NoLabel]
        BY <1>3 DEF ForgetKeyNames
    <2>2. /\ [scan[p] EXCEPT !.fresh = FALSE] \in ScanType
          /\ [scan[p] EXCEPT !.fresh = FALSE].fresh = FALSE
        BY <1>1 DEF ScanType
    <2>3. NoLabel \in LabelType /\ NoLabel.on = FALSE BY DEF NoLabel, LabelType
    <2>4. scan'[p].fresh = FALSE /\ cache'[p].on = FALSE BY <1>1, <2>1, <2>2, <2>3
    <2>5. \A w : NoneStale(w, scan'[p], cache'[p]) BY <2>4 DEF NoneStale
    <2>6. scan' \in [Procs -> ScanType] BY <1>1, <2>1, <2>2
    <2>7. cache' \in [Procs -> LabelType] BY <1>1, <2>1, <2>3
    <2> QED BY <1>1, <2>1, <2>5, <2>6, <2>7
<1> QED BY <1>2, <1>3

\* A process that is done with its write forgets, the others have nothing stale.
LEMMA MoveNames ==
    ASSUME Known, NamesKnown, NEW p \in Procs, NEW st, work' = [work EXCEPT ![p] = st],
           ForgetKeyNames(p) \/ UNCHANGED names,
           pc(p) \in {"written", "failed"} => ForgetKeyNames(p)
    PROVE  NamesKnown'
<1>1. work'[p] = st /\ \A q \in Procs \ {p} : work'[q] = work[q] BY DEF Known
<1>2. /\ scan' \in [Procs -> ScanType] /\ cache' \in [Procs -> LabelType]
      /\ \A q \in Procs \ {p} : scan'[q] = scan[q] /\ cache'[q] = cache[q]
      /\ ForgetKeyNames(p) => \A w : NoneStale(w, scan'[p], cache'[p])
    BY ForgetNames
<1>3. NoneStale(work'[p], scan'[p], cache'[p])
    <2>1. CASE ForgetKeyNames(p) BY <1>2, <2>1
    <2>2. CASE ~ForgetKeyNames(p)
        <3>1. work[p].pc \notin {"written", "failed"} /\ scan' = scan /\ cache' = cache
            BY <2>2 DEF pc, names
        <3>2. NoneStale(work[p], scan[p], cache[p]) BY DEF NamesKnown
        <3> QED BY <3>1, <3>2 DEF NoneStale
    <2> QED BY <2>1, <2>2
<1>4. \A q \in Procs \ {p} : NoneStale(work'[q], scan'[q], cache'[q]) BY <1>1, <1>2 DEF NamesKnown
<1> QED BY <1>2, <1>3, <1>4 DEF NamesKnown

\* The write overtakes the reads under way and what the cache has: its process is
\* not done with it yet.
LEMMA WriteLastNames ==
    ASSUME Known, NamesKnown, NEW p \in Procs, WriteLast(p)
    PROVE  NamesKnown'
<1>1. scan \in [Procs -> ScanType] /\ cache \in [Procs -> LabelType] BY DEF NamesKnown
<1> DEFINE s == [scan[p] EXCEPT !.old = scan[p].old \/ scan[p].on]
           c == [cache[p] EXCEPT !.old = cache[p].old \/ cache[p].on]
<1>2. scan' = [scan EXCEPT ![p] = s] /\ cache' = [cache EXCEPT ![p] = c] BY DEF WriteLast
<1>3. s \in ScanType BY <1>1 DEF ScanType
<1>4. c \in LabelType BY <1>1 DEF LabelType
<1> HIDE DEF s, c
<1>5. scan' \in [Procs -> ScanType] BY <1>1, <1>2, <1>3
<1>6. cache' \in [Procs -> LabelType] BY <1>1, <1>2, <1>4
<1>7. PICK end \in {"written", "failed"} : work' = [work EXCEPT ![p] = At(end, op(p), <<>>)]
    BY DEF WriteLast
<1>8. work'[p] = At(end, op(p), <<>>) /\ \A q \in Procs \ {p} : work'[q] = work[q]
    BY <1>7 DEF Known
<1>9. NoneStale(work'[p], scan'[p], cache'[p]) BY <1>8, AtShape DEF NoneStale
<1>10. \A q \in Procs \ {p} : scan'[q] = scan[q] /\ cache'[q] = cache[q] BY <1>1, <1>2
<1>11. \A q \in Procs \ {p} : NoneStale(work'[q], scan'[q], cache'[q]) BY <1>8, <1>10 DEF NamesKnown
<1> QED BY <1>5, <1>6, <1>9, <1>11 DEF NamesKnown

\* What a scan keeps was read while no write was over that it does not know of.
LEMMA ScanNames ==
    ASSUME NamesKnown, NEW p \in Procs, Scan(p)
    PROVE  NamesKnown'
<1>1. /\ scan \in [Procs -> ScanType] /\ cache \in [Procs -> LabelType]
      /\ NoneStale(work[p], scan[p], cache[p])
    BY DEF NamesKnown
<1>2. work' = work BY DEF Scan, ScanStart, ScanEnd, LabelExpires
<1>3. PICK s \in ScanType, c \in LabelType :
        /\ scan' = [scan EXCEPT ![p] = s] /\ cache' = [cache EXCEPT ![p] = c]
        /\ NoneStale(work[p], s, c)
    <2>1. /\ scan = [scan EXCEPT ![p] = scan[p]] /\ cache = [cache EXCEPT ![p] = cache[p]]
          /\ scan[p] \in ScanType /\ cache[p] \in LabelType
        BY <1>1
    <2>2. NoScan \in ScanType /\ NoScan.on = FALSE /\ NoLabel \in LabelType /\ NoLabel.on = FALSE
        BY DEF NoScan, NoLabel, ScanType, LabelType
    <2>3. CASE ScanStart(p)
        <3> DEFINE s == [on |-> TRUE, fresh |-> TRUE, old |-> FALSE]
        <3>1. s \in ScanType /\ s.old = FALSE BY DEF ScanType
        <3>2. scan' = [scan EXCEPT ![p] = s] /\ cache' = cache /\ ~cache[p].on BY <2>3 DEF ScanStart
        <3> HIDE DEF s
        <3>3. NoneStale(work[p], s, cache[p]) BY <3>1, <3>2 DEF NoneStale
        <3> QED BY <2>1, <3>1, <3>2, <3>3
    <2>4. CASE ScanEnd(p)
        <3>1. scan' = [scan EXCEPT ![p] = NoScan] /\ scan[p].on BY <2>4 DEF ScanEnd
        <3>2. CASE scan[p].fresh
            <4> DEFINE c == [on |-> TRUE, old |-> scan[p].old]
            <4>1. c \in LabelType /\ c.old = scan[p].old BY <2>1 DEF LabelType, ScanType
            <4>2. cache' = [cache EXCEPT ![p] = c] BY <2>4, <3>2 DEF ScanEnd
            <4> HIDE DEF c
            <4>3. NoneStale(work[p], NoScan, c) BY <1>1, <2>2, <3>1, <3>2, <4>1 DEF NoneStale
            <4> QED BY <2>2, <3>1, <4>1, <4>2, <4>3
        <3>3. CASE ~scan[p].fresh
            <4>1. cache' = cache BY <2>4, <3>3 DEF ScanEnd
            <4>2. NoneStale(work[p], NoScan, cache[p]) BY <1>1, <2>2 DEF NoneStale
            <4> QED BY <2>1, <2>2, <3>1, <4>1, <4>2
        <3> QED BY <3>2, <3>3
    <2>5. CASE LabelExpires(p)
        <3>1. scan' = scan /\ cache' = [cache EXCEPT ![p] = NoLabel] BY <2>5 DEF LabelExpires
        <3>2. NoneStale(work[p], scan[p], NoLabel) BY <1>1, <2>2 DEF NoneStale
        <3> QED BY <2>1, <2>2, <3>1, <3>2
    <2> QED BY <2>3, <2>4, <2>5 DEF Scan
<1>4. scan' \in [Procs -> ScanType] /\ cache' \in [Procs -> LabelType] BY <1>1, <1>3
<1>5. scan'[p] = s /\ cache'[p] = c BY <1>1, <1>3
<1>6. \A q \in Procs \ {p} : scan'[q] = scan[q] /\ cache'[q] = cache[q] BY <1>1, <1>3
<1>7. ASSUME NEW q \in Procs PROVE NoneStale(work'[q], scan'[q], cache'[q])
    <2>1. CASE q = p BY <1>2, <1>3, <1>5, <2>1
    <2>2. CASE q # p BY <1>2, <1>6, <2>2 DEF NamesKnown
    <2> QED BY <2>1, <2>2
<1> QED BY <1>4, <1>7 DEF NamesKnown

LEMMA NextNames ==
    ASSUME Known, NamesKnown, [Next]_vars
    PROVE  NamesKnown'
<1>1. ASSUME UNCHANGED <<work, scan, cache>> PROVE NamesKnown' BY <1>1 DEF NamesKnown
<1>2. CASE UNCHANGED vars BY <1>1, <1>2 DEF vars, names
<1>3. ASSUME NEW p \in Procs, AppStarts(p) \/ CtlStarts(p) PROVE NamesKnown'
    <2>1. PICK st : work' = [work EXCEPT ![p] = st]
        BY <1>3 DEF AppStarts, CtlStarts, Begin, Goes
    <2>2. UNCHANGED names /\ pc(p) = "idle" BY <1>3 DEF AppStarts, CtlStarts, Begin
    <2> QED BY <2>1, <2>2, MoveNames
<1>4. ASSUME NEW p \in Procs, Work(p) PROVE NamesKnown'
    <2>1. CASE WriteLast(p) BY <2>1, WriteLastNames
    <2>2. CASE ReadMore(p) \/ WritePart(p)
        <3>1. \E st : work' = [work EXCEPT ![p] = st] BY <2>2 DEF ReadMore, WritePart
        <3>2. UNCHANGED names /\ pc(p) \notin {"written", "failed"}
            BY <2>2 DEF ReadMore, WritePart, Reading
        <3> QED BY <3>1, <3>2, MoveNames
    <2>3. CASE ShowRead(p) \/ PlanRead(p) \/ GetToken(p) \/ CheckRead(p)
        <3>1. \E st : work' = [work EXCEPT ![p] = st]
            BY <2>3 DEF ShowRead, PlanRead, GetToken, CheckRead, Goes
        <3>2. ForgetKeyNames(p) \/ UNCHANGED names BY <2>3 DEF ShowRead, PlanRead, GetToken, CheckRead
        <3>3. pc(p) \notin {"written", "failed"}
            BY <2>3 DEF ShowRead, PlanRead, GetToken, CheckRead, ReadEnds
        <3> QED BY <3>1, <3>2, <3>3, MoveNames
    <2>4. CASE WriteRefused(p) \/ AfterWrite(p) \/ BackRead(p) \/ Fails(p)
        <3>1. \E st : work' = [work EXCEPT ![p] = st]
            BY <2>4 DEF WriteRefused, AfterWrite, BackRead, Fails, Goes
        <3>2. ForgetKeyNames(p) \/ UNCHANGED names BY <2>4 DEF WriteRefused, AfterWrite, BackRead, Fails
        <3>3. pc(p) \in {"written", "failed"} => ForgetKeyNames(p)
            BY <2>4 DEF WriteRefused, AfterWrite, BackRead, Fails, ReadEnds
        <3> QED BY <3>1, <3>2, <3>3, MoveNames
    <2> QED BY <1>4, <2>1, <2>2, <2>3, <2>4 DEF Work
<1>5. ASSUME NEW p \in Scanners, Scan(p) PROVE NamesKnown'
    <2>1. p \in Procs BY LargeBlobsAssumption
    <2> QED BY <1>5, <2>1, ScanNames
<1>6. CASE KeyForgetsWrite \/ ForeignToken \/ ForeignWrite
    BY <1>1, <1>6 DEF KeyForgetsWrite, ForeignToken, ForeignWrite, names
<1> QED BY <1>2, <1>3, <1>4, <1>5, <1>6 DEF Next

----------------------------------------------------------------------------
(* The invariants.                                                         *)

AllKnown == Inv /\ Known /\ KeyTyped /\ NamesKnown

LEMMA InitKnown == Init => AllKnown
<1> SUFFICES ASSUME Init PROVE AllKnown OBVIOUS
<1>1. Inv BY InitInv
<1>2. array \in Arrays BY LargeBlobsAssumption DEF Init
<1>3. Known
    <2>1. work \in [Procs -> WorkType] BY IdleKnown DEF Init
    <2>2. seen \in [Procs -> SUBSET Arrays] BY DEF Init
    <2>3. ASSUME NEW p \in Procs
          PROVE  /\ PlanMade(p, work[p]) /\ PlanShown(p, work[p], shown[p])
                 /\ ReadFrom(work[p], array, seen[p])
        <3>1. work[p] = Idle BY DEF Init
        <3>2. Idle.pc \notin Reading BY IdleKnown DEF Reading
        <3> QED BY <3>1, <3>2, IdleKnown DEF ReadFrom
    <2> QED BY <2>1, <2>2, <2>3 DEF Known
<1>4. KeyTyped
    <2>1. <<>> \in Seq(CellValues) /\ 0 \in Nat OBVIOUS
    <2>2. pending \in [cells : Seq(CellValues), length : Nat] BY <2>1 DEF Init, NoWrite
    <2>3. shown \in [Apps -> Arrays \cup {<<NoItem>>}] BY <1>2 DEF Init
    <2> QED BY <1>2, <2>2, <2>3, LargeBlobsAssumption DEF Init, KeyTyped
<1>5. NamesKnown
    <2>1. NoScan \in ScanType /\ NoScan.on = FALSE /\ NoLabel \in LabelType /\ NoLabel.on = FALSE
        BY DEF NoScan, NoLabel, ScanType, LabelType
    <2>2. scan \in [Procs -> ScanType] /\ cache \in [Procs -> LabelType] BY <2>1 DEF Init
    <2>3. \A p \in Procs : scan[p] = NoScan /\ cache[p] = NoLabel BY DEF Init
    <2> QED BY <2>1, <2>2, <2>3 DEF NamesKnown, NoneStale
<1> QED BY <1>1, <1>3, <1>4, <1>5 DEF AllKnown

LEMMA AllKnownHolds == Spec => []AllKnown
<1>1. AllKnown /\ [Next]_vars => AllKnown'
    BY NextInv, NextKnown, NextKeyTyped, NextNames DEF AllKnown
<1> QED BY <1>1, InitKnown, PTL DEF Spec

\* large_blobs.rs, device_label.rs, device.rs: the array on the key, what was read and
\* sent of it, the plans, the tab and the cached names keep their types; above all no
\* edit ever makes an array with trailing bytes before its end.
THEOREM TypeCorrect == Spec => []TypeOK
<1>1. AllKnown => TypeOK BY DEF AllKnown, Known, KeyTyped, NamesKnown, TypeOK, ScanType, LabelType
<1> QED BY <1>1, AllKnownHolds, PTL

\* large_blobs.rs, read: for arrays and fragments of any size and any number of writes
\* between two fragments, a read that is accepted is an array the key had meanwhile.
THEOREM ReadsAreWhole == Spec => []ReadsWhole
<1>1. AllKnown => ReadsWhole BY AcceptedSeen DEF AllKnown, KeyTyped, ReadsWhole
<1> QED BY <1>1, AllKnownHolds, PTL

\* device.rs, with_key_names_forgotten: with any number of apps, a name read before a
\* write of the same app is not in its cache once that write is over.
THEOREM NamesAreFresh == Spec => []NoStaleName
<1>1. AllKnown => NoStaleName
    BY LargeBlobsAssumption DEF AllKnown, NamesKnown, NoneStale, NoStaleName, pc
<1> QED BY <1>1, AllKnownHolds, PTL

\* The step in which an app's write changes the array.
LEMMA StepDestroysShown ==
    ASSUME AllKnown, [Next]_vars, NEW p \in Apps, Writes(p)
    PROVE  /\ op(p).kind = "delete" =>
                \A i \in 1..Len(array) :
                   (\A j \in 1..Len(array') : array'[j] # array[i]) => array[i] = op(p).item
           /\ op(p).kind \in {"clear", "keep"} => array = shown[p]
           /\ op(p).kind = "name" => ReadableLabel(array) = op(p).was
<1>1. p \in Procs /\ Rechecks(p) BY LargeBlobsAssumption DEF Rechecks
<1>2. array' = Changed(p, array) BY <1>1, StepWritesOnCurrent DEF AllKnown
<1>3. work[p].base = array BY <1>1, StepWritesOnCurrent DEF AllKnown
<1>4. pc(p) \in Ready BY DEF Writes, Ready
<1>5. /\ PlanMade(p, work[p]) /\ PlanShown(p, work[p], shown[p]) /\ array \in Arrays
    BY <1>1 DEF AllKnown, Known, KeyTyped
<1>6. ASSUME op(p).kind = "delete", NEW i \in 1..Len(array),
             \A j \in 1..Len(array') : array'[j] # array[i]
      PROVE  array[i] = op(p).item
    <2> DEFINE d == Nth({k \in 1..Len(array) : array[k] = op(p).item}, 1)
    <2>1. \E k \in 1..Len(array) : array[k] = op(p).item
        BY <1>3, <1>4, <1>5, <1>6 DEF PlanMade, op, pc
    <2>2. array[d] = op(p).item BY <1>5, <2>1, FirstIs
    <2>3. array' = WithoutItem(array, d) BY <1>2, <1>6 DEF Changed, ToDelete
    <2> HIDE DEF d
    <2>4. i = d BY <1>5, <1>6, <2>3, WithoutItemKeeps
    <2> QED BY <2>2, <2>4
<1>7. /\ op(p).kind \in {"clear", "keep"} => array = shown[p]
      /\ op(p).kind = "name" => ReadableLabel(array) = op(p).was
    BY <1>3, <1>4, <1>5 DEF PlanShown, op, pc
<1> QED BY <1>6, <1>7

\* main.rs, delete_large_blob_entry, clear_large_blob_storage, write_key_name: whatever
\* other apps, runs of keyroostctl and programs do in between, an app's write destroys
\* only what the person saw.
THEOREM OnlyShownDestroyed == Spec => DestroysOnlyShown
<1>1. AllKnown /\ [Next]_vars =>
        [\A p \in Apps :
           Writes(p) =>
             /\ op(p).kind = "delete" =>
                  \A i \in 1..Len(array) :
                     (\A j \in 1..Len(array') : array'[j] # array[i]) => array[i] = op(p).item
             /\ op(p).kind \in {"clear", "keep"} => array = shown[p]
             /\ op(p).kind = "name" => ReadableLabel(array) = op(p).was]_vars
    BY StepDestroysShown
<1> QED BY <1>1, AllKnownHolds, PTL DEF Spec, DestroysOnlyShown
=============================================================================
