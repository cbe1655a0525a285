---------------------------- MODULE MCImportRun ----------------------------
(***************************************************************************)
(* Instances of ImportRun.  Short files with every way entries can stand   *)
(* to each other are taken through every behaviour; the long tail of the   *)
(* rule table is covered by files of one entry, each off the common one in *)
(* one respect, or in name and secret length together.                     *)
(***************************************************************************)
EXTENDS ImportRun

CONSTANTS a, b, ab, colon, slash, accent, s1, s2

\* Labels that stand for their length alone.
Lengths == {1, 13, 58, 61, 62, 64, 65, 127, 128, 129, 231, 237, 238}
Long(n) == <<"long", n>>

MCLabels == {a, b, ab, colon, slash, accent} \cup {Long(n) : n \in Lengths}

MCLength == [l \in MCLabels |->
    IF \E n \in Lengths : l = Long(n) THEN CHOOSE n \in Lengths : l = Long(n) ELSE 8]

MCStartsLabel == {<<a, ab>>}

MCCapacity == [s \in Stores |->
    CASE s \in {"solo2", "other"} -> Unknown [] s = "molto2" -> 3 [] OTHER -> 2]

MCHolds == [s \in Stores |-> IF s = "molto2" THEN 3 ELSE 2]

Common(l) == [kind |-> "totp", period |-> 30, counter |-> "zero", hash |-> "sha1",
              digits |-> 6, secret |-> 20, label |-> l]

Unusable == [Common(NoLabel) EXCEPT !.kind = "unusable"]

Unusual ==
    {[Common(a) EXCEPT !.period = p] : p \in {1, 15, 60, 65535, 65536, 1000000000}}
    \cup {[Common(l) EXCEPT !.period = p] : l \in {slash, Long(58), Long(61), Long(62)}, p \in {15, 30}}
    \cup {[Common(a) EXCEPT !.hash = h] : h \in {"sha256", "sha512"}}
    \cup {[Common(a) EXCEPT !.digits = d] : d \in {3, 4, 5, 8, 9, 10}}
    \cup {[Common(l) EXCEPT !.kind = "hotp", !.counter = c, !.secret = s] :
            c \in {"zero", "u32", "past32"}, l \in {slash, Long(231), Long(237)}, s \in {14}}
    \cup {Common(l) : l \in {colon, accent, NoLabel}}
    \cup {[Common(Long(p[1])) EXCEPT !.secret = p[2]] : p \in
            {<<1, 65>>, <<1, 128>>, <<1, 129>>, <<13, 63>>, <<13, 64>>, <<64, 64>>, <<65, 1>>,
             <<127, 64>>, <<128, 64>>, <<128, 121>>, <<128, 122>>, <<129, 1>>,
             <<237, 14>>, <<237, 15>>, <<238, 1>>}}

Import(store, front, file, first, replace, secret, tally) ==
    [store |-> store, front |-> front, file |-> file, first |-> first, replace |-> replace,
     touch |-> FALSE, given |-> secret, tally |-> tally]

\* Every code to require a touch; the last one fills its command.
TouchImports ==
    {[Import("nitrokey3", "ctl", <<Common(a), [Common(Long(128)) EXCEPT !.secret = 121]>>,
             0, r, s1, TRUE) EXCEPT !.touch = TRUE] : r \in BOOLEAN}

Files == {<<Common(a), Common(b)>>, <<Common(a), Unusable, Common(a)>>,
          <<Common(ab), Common(a), Common(b)>>}

Locking == Stores \ {"molto2"}

MCImports ==
    {Import(s, "ctl", <<e>>, 0, FALSE, NoSecret, TRUE) : s \in Stores, e \in Unusual}
    \cup {Import(s, "ctl", f, 0, r, s1, TRUE) : s \in Locking, f \in Files, r \in BOOLEAN}
    \cup {Import("token2", "ctl", f, 0, FALSE, g, FALSE) : f \in Files, g \in {s1, NoSecret}}
    \cup {Import(s, "app", <<Common(a), Common(b)>>, 0, r, g, TRUE) :
            s \in {"solo2", "token2"}, r \in BOOLEAN, g \in {s1, NoSecret}}
    \cup {Import("molto2", f, <<Common(a), Common(b)>>, n, FALSE, NoSecret, TRUE) :
            f \in {"app", "ctl"}, n \in {0, 2}}
    \cup TouchImports
=============================================================================
