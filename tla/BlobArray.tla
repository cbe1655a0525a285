------------------------------ MODULE BlobArray ------------------------------
(***************************************************************************)
(* The large-blob array of a FIDO2 key and the edits of it                 *)
(* (crates/keyroost-ctap/src/large_blobs.rs, device_label.rs).             *)
(*                                                                         *)
(* An array is the sequence of its elements.  An element stands for the    *)
(* bytes it was read as, which every rewrite emits again.  What kind of    *)
(* element it is (conforming_entry, classify) is the set it belongs to:    *)
(* the magic prefix of a note and the AEAD tag of a name tell them apart.  *)
(* Bytes after the end of the array are a last element Junk.               *)
(***************************************************************************)
EXTENDS Naturals, Sequences, FiniteSets

CONSTANTS
    Opaque,    \* entries of relying parties and other tools
    Notes,     \* keyroost's own notes
    Names,     \* name entries
    BadNames,  \* those whose text validate_name refuses
    Skipped,   \* elements that are no conforming entry map
    Junk,      \* bytes after the end of the array
    NoItem     \* None

Elements == Opaque \cup Notes \cup Names \cup Skipped
Entries == Elements \ Skipped

ASSUME BlobArrayAssumption ==
    /\ BadNames \subseteq Names
    /\ Opaque \cap Notes = {} /\ Opaque \cap Names = {} /\ Notes \cap Names = {}
    /\ Skipped \cap (Opaque \cup Notes \cup Names) = {}
    /\ {Junk, NoItem} \cap Elements = {} /\ Junk # NoItem

\* The arrays as read from a key, trailing bytes included.
Arrays == {a \in Seq(Elements \cup {Junk}) : \A i \in 1..Len(a) : a[i] = Junk => i = Len(a)}

\* Mutant: bytes after the end are not noticed.
NeverTrailing(a) == FALSE
\* What serialize_with_checksum refuses to drop.
Trailing(a) == a # <<>> /\ a[Len(a)] = Junk

\* The k-th of a set of positions, and the elements at those positions in order.
Nth(pos, k) == CHOOSE i \in pos : Cardinality({j \in pos : j <= i}) = k
Picked(a, pos) == [k \in 1..Cardinality(pos) |-> a[Nth(pos, k)]]

\* Indices count conforming entries only.
EntryPositions(a) == {i \in 1..Len(a) : a[i] \in Entries}
HasEntry(a, i) == i \in 1..Cardinality(EntryPositions(a))
ItemIndex(a, i) == Nth(EntryPositions(a), i)
EntryAt(a, i) == a[ItemIndex(a, i)]
IsNote(e) == e \in Notes

\* The last name entry, and the name a reader makes of it: one that does not
\* validate counts as none.
NamePositions(a) == {i \in 1..Len(a) : a[i] \in Names}
Label(a) ==
    IF NamePositions(a) = {} THEN NoItem
    ELSE a[Nth(NamePositions(a), Cardinality(NamePositions(a)))]
ReadableLabel(a) == IF Label(a) \in BadNames THEN NoItem ELSE Label(a)

WithTextNote(a, note) == Append(a, note)
WithReplacedNote(a, i, note) == [a EXCEPT ![ItemIndex(a, i)] = note]
WithoutItem(a, pos) == Picked(a, (1..Len(a)) \ {pos})
OnlyLabel(a) == Picked(a, NamePositions(a))
WithLabel(a, name) ==
    LET others == Picked(a, (1..Len(a)) \ NamePositions(a))
    IN  IF name = NoItem THEN others ELSE Append(others, name)

\* The serialized form, in cells of one element: the array and a checksum that
\* no other array has.
Checksum(a) == [sum |-> a]
CellValues == Elements \cup {Junk} \cup [sum : Arrays]
Cells(a) == Append(a, Checksum(a))
CellsIn(s) == SubSeq(s, 1, Len(s) - 1)
\* Mutant: the trailer is cut off and not compared.
ChecksumUnread(s) == s # <<>>
ChecksumHolds(s) == s # <<>> /\ s[Len(s)] = Checksum(CellsIn(s))

\* No element is the checksum of what was read before it.
ASSUME ChecksumAssumption == \A e \in Elements \cup {Junk} : e \notin [sum : Seq(CellValues)]
=============================================================================
