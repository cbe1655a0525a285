---------------------------- MODULE CtapHidProofs ----------------------------
(***************************************************************************)
(* Theorems about CtapHid, for any programs, channels, sizes and bounds.   *)
(***************************************************************************)
EXTENDS CtapHid, TLAPS

----------------------------------------------------------------------------
(* The inductive invariant.                                                *)

\* Where a host is says what it holds.
HostAt(m) ==
    /\ m.cid = NoCid <=> m.st \in {"closed", "init"}
    /\ m.st = "send" => m.left \in 1..m.size
    /\ m.st # "send" => m.left = 0
    /\ m.st \in {"recv", "sleep"} => m.size \in 1..MaxFrames
    /\ m.st = "sleep" => m.attempt < MaxAttempts
    /\ m.st = "init" => m.result = "none"
HostInv == \A h \in Hosts : HostAt(host[h])
DeviceInv ==
    /\ device.cid = NoCid <=> device.phase = "idle"
    /\ device.phase = "other" => device.cid = taken
    /\ wedged => device.phase = "idle"
    /\ device.phase = "answer" => device.got \in 1..device.size

\* An INIT answer: its channel is the channel of the program it answers, and of
\* no other; until that program reads it nobody has used the channel.
IsInit(f) == f.cmd = "init"
Chans ==
    /\ \A g \in Hosts : \A i \in 1..Len(inbox[g]) : IsInit(inbox[g][i]) =>
        LET f == inbox[g][i] IN
        /\ f.num \in Cids
        /\ \A h \in Hosts : host[h].cid = f.num => f.tag = Tag(h, 0, 1, 1)
        /\ taken = f.num => f.tag = Tag(NoCid, 0, 1, 1)
        /\ \A k \in Hosts : \A j \in 1..Len(inbox[k]) :
            IsInit(inbox[k][j]) /\ inbox[k][j].num = f.num => inbox[k][j].tag = f.tag
        /\ \A h \in Hosts : host[h].st = "init" /\ f.tag = Tag(h, 0, 1, 1) =>
            /\ device.cid # f.num
            /\ \A k \in Hosts : \A j \in 1..Len(inbox[k]) : inbox[k][j].cid # f.num

\* A frame of an answer, and one after which the key sends nothing more.
IsAnswer(f) == f.cmd \in {"cbor", "cont"}
IsFinal(f) == f.cmd = "busy" \/ (IsAnswer(f) /\ f.tag.part = f.tag.of)

\* Nothing of channel c is under way: no frame in the queue q, no work of the key d.
Clear(q, c, d) == d.cid # c /\ \A i \in 1..Len(q) : q[i].cid # c

\* A frame f at place i of the queue q of a host m, when the key is at d and has
\* carried the request out k times.
FrameInv(q, i, m, d, k) ==
    LET f == q[i] IN
    /\ f.cmd = "busy" => k = 0
    /\ IsAnswer(f) =>
        /\ k = 1
        /\ f.tag.part \in 1..f.tag.of
        /\ f = AnswerFrame(m.cid, m.req, f.tag.part, f.tag.of)
        /\ m.st = "more" => f.tag.of = m.total
        /\ d.cid = m.cid => d.phase = "answer" /\ d.size = f.tag.of /\ f.tag.part < d.got
        /\ \A j \in 1..Len(q) : q[j].cid = m.cid /\ IsAnswer(q[j]) => q[j].tag.of = f.tag.of
    /\ IsFinal(f) => d.cid # m.cid /\ \A j \in (i + 1)..Len(q) : q[j].cid # m.cid

\* What the key does for the host m.
WorkInv(m, d, k) ==
    /\ d.req = m.req
    /\ d.phase \in {"take", "work", "answer"}
    /\ d.phase = "take" => /\ m.st = "send" /\ d.size = m.size /\ k = 0
                           /\ d.got \in 1..m.size /\ d.got + m.left = m.size
    /\ d.phase \in {"work", "answer"} => k = 1
    /\ m.st = "more" => d.phase = "answer" /\ d.size = m.total

\* The frames the host has read are the first ones of the answer to its request.
Prefix(m) == m.acc = [i \in 1..Len(m.acc) |-> Tag(m.cid, m.req, i, m.total)]

Session(q, m, d, k) ==
    /\ m.st \in {"open", "sleep"} => Clear(q, m.cid, d)
    /\ m.st = "send" /\ m.left = m.size => Clear(q, m.cid, d) /\ k = 0
    /\ m.st = "sleep" => k = 0
    /\ \A i \in 1..Len(q) : q[i].cid = m.cid => FrameInv(q, i, m, d, k)
    /\ d.cid = m.cid => WorkInv(m, d, k)
    /\ m.st = "more" => k = 1 /\ Prefix(m) /\ Len(m.acc) \in 1..(m.total - 1)
Sessions ==
    \A h \in Hosts : host[h].cid # NoCid => Session(inbox[h], host[h], device, ran[h])

\* How the last call ended, when the key carried the request out k times.
ResultAt(m, k) ==
    /\ k <= 1
    /\ m.result = "busy" => m.cid = NoCid /\ k = 0
    /\ m.result = "ok" => k = 1 /\ m.st = "open" /\ Prefix(m) /\ Len(m.acc) = m.total
Results == \A h \in Hosts : ResultAt(host[h], ran[h])

Inv == TypeOK /\ HostInv /\ DeviceInv /\ ChannelsDistinct /\ Chans /\ Sessions /\ Results

----------------------------------------------------------------------------
(* Queues.                                                                 *)

\* Reading a report leaves the later ones in their order.
LEMMA TailAt ==
    ASSUME NEW q \in Seq(Frames), q # <<>>
    PROVE  /\ Tail(q) \in Seq(Frames) /\ Len(Tail(q)) = Len(q) - 1 /\ Len(q) \in Nat \ {0}
           /\ Head(q) = q[1] /\ Head(q) \in Frames
           /\ \A i \in 1..Len(Tail(q)) : i + 1 \in 1..Len(q) /\ Tail(q)[i] = q[i + 1]
PROOF OBVIOUS

\* A report that arrives comes last.
LEMMA AppendAt ==
    ASSUME NEW q \in Seq(Frames), NEW f \in Frames
    PROVE  /\ Append(q, f) \in Seq(Frames) /\ Len(Append(q, f)) = Len(q) + 1 /\ Len(q) \in Nat
           /\ Append(q, f)[Len(q) + 1] = f
           /\ \A i \in 1..Len(q) : Append(q, f)[i] = q[i]
PROOF OBVIOUS

\* A delivered report goes to the end of a queue or is lost.
LEMMA DeliveredIs ==
    ASSUME TypeOK, NEW f \in Frames
    PROVE  /\ Delivered(f) \in [Hosts -> Seq(Frames)]
           /\ \A h \in Hosts : /\ Delivered(f)[h] \in {inbox[h], Append(inbox[h], f)}
                               /\ Len(Delivered(f)[h]) <= MaxInbox
<1>1. \A h \in Hosts : inbox[h] \in Seq(Frames) /\ Len(inbox[h]) <= MaxInbox
  BY DEF TypeOK
<1>2. \A h \in Hosts : Append(inbox[h], f) \in Seq(Frames)
                       /\ Len(Append(inbox[h], f)) = Len(inbox[h]) + 1 /\ Len(inbox[h]) \in Nat
  BY <1>1, AppendAt
<1>3. \A h \in Hosts : /\ Delivered(f)[h] \in {inbox[h], Append(inbox[h], f)}
                       /\ Len(Delivered(f)[h]) <= MaxInbox
  <2>. TAKE h \in Hosts
  <2>. DEFINE q == inbox[h]  r == Append(q, f)
  <2>1. Len(q) <= MaxInbox /\ Len(r) = Len(q) + 1 /\ Len(q) \in Nat /\ MaxInbox \in Nat
    BY <1>1, <1>2, CtapHidAssumption
  <2>2. Delivered(f)[h] = IF host[h].st # "closed" /\ Len(q) < MaxInbox THEN r ELSE q
    BY DEF Delivered
  <2>. HIDE DEF q, r
  <2>3. Delivered(f)[h] \in {q, r} /\ Len(Delivered(f)[h]) <= MaxInbox
    BY <2>1, <2>2
  <2>. QED BY <2>3 DEF q, r
<1>4. \A h \in Hosts : Delivered(f)[h] \in Seq(Frames)
  BY <1>1, <1>2, <1>3
<1>5. Delivered(f) = [h \in Hosts |-> Delivered(f)[h]]
  BY DEF Delivered
<1>. QED BY <1>3, <1>4, <1>5

----------------------------------------------------------------------------
(* One host: what keeps its session in order.                              *)

\* Reports of other channels change nothing.
LEMMA SessionAppend ==
    ASSUME NEW q \in Seq(Frames), NEW m, NEW d, NEW k, NEW f \in Frames,
           Session(q, m, d, k), f.cid # m.cid
    PROVE  Session(Append(q, f), m, d, k)
<1>. DEFINE r == Append(q, f)
<1>1. /\ Len(r) = Len(q) + 1 /\ Len(q) \in Nat /\ r[Len(q) + 1] = f
      /\ \A i \in 1..Len(q) : r[i] = q[i]
  BY AppendAt
<1>. HIDE DEF r
<1>2. \A i \in 1..Len(r) : r[i].cid = m.cid => i \in 1..Len(q) /\ r[i] = q[i]
  BY <1>1
<1>3. Clear(q, m.cid, d) => Clear(r, m.cid, d)
  BY <1>2 DEF Clear
<1>4. ASSUME NEW i \in 1..Len(r), r[i].cid = m.cid PROVE FrameInv(r, i, m, d, k)
  <2>1. i \in 1..Len(q) /\ r[i] = q[i] /\ FrameInv(q, i, m, d, k)
    BY <1>2, <1>4 DEF Session
  <2>2. IsFinal(r[i]) => d.cid # m.cid /\ \A j \in (i + 1)..Len(r) : r[j].cid # m.cid
    BY <1>1, <1>2, <2>1 DEF FrameInv
  <2>3. IsAnswer(r[i]) => \A j \in 1..Len(r) : r[j].cid = m.cid /\ IsAnswer(r[j]) => r[j].tag.of = r[i].tag.of
    BY <1>2, <2>1 DEF FrameInv
  <2>. QED BY <2>1, <2>2, <2>3 DEF FrameInv
<1>. QED BY <1>3, <1>4 DEF Session, r

\* Nor does reading a report, as long as the host stays where it is.
LEMMA FramesTail ==
    ASSUME NEW q \in Seq(Frames), NEW m, NEW d, NEW k, q # <<>>,
           \A i \in 1..Len(q) : q[i].cid = m.cid => FrameInv(q, i, m, d, k)
    PROVE  \A i \in 1..Len(Tail(q)) : Tail(q)[i].cid = m.cid => FrameInv(Tail(q), i, m, d, k)
<1>. DEFINE r == Tail(q)
<1>1. /\ Len(r) = Len(q) - 1 /\ Len(q) \in Nat
      /\ \A i \in 1..Len(r) : i + 1 \in 1..Len(q) /\ r[i] = q[i + 1]
  BY TailAt
<1>. HIDE DEF r
<1>2. ASSUME NEW i \in 1..Len(r), r[i].cid = m.cid PROVE FrameInv(r, i, m, d, k)
  <2>1. i + 1 \in 1..Len(q) /\ r[i] = q[i + 1] /\ FrameInv(q, i + 1, m, d, k)
    BY <1>1, <1>2
  <2>2. IsFinal(r[i]) => d.cid # m.cid /\ \A j \in (i + 1)..Len(r) : r[j].cid # m.cid
    <3>1. \A j \in (i + 1)..Len(r) : j + 1 \in (i + 1 + 1)..Len(q) /\ r[j] = q[j + 1]
      BY <1>1
    <3>. QED BY <2>1, <3>1 DEF FrameInv
  <2>3. IsAnswer(r[i]) => \A j \in 1..Len(r) : r[j].cid = m.cid /\ IsAnswer(r[j]) => r[j].tag.of = r[i].tag.of
    BY <1>1, <2>1 DEF FrameInv
  <2>. QED BY <2>1, <2>2, <2>3 DEF FrameInv
<1>. QED BY <1>2 DEF r

LEMMA ClearTail ==
    ASSUME NEW q \in Seq(Frames), NEW c, NEW d, q # <<>>, Clear(q, c, d)
    PROVE  Clear(Tail(q), c, d)
BY TailAt DEF Clear

LEMMA SessionTail ==
    ASSUME NEW q \in Seq(Frames), NEW m, NEW d, NEW k, q # <<>>, Session(q, m, d, k)
    PROVE  Session(Tail(q), m, d, k)
BY FramesTail, ClearTail DEF Session

\* What the key does for other channels does not matter, nor that it drops a request.
LEMMA SessionElsewhere ==
    ASSUME NEW q, NEW m, NEW d, NEW e, NEW k, Session(q, m, d, k), e.cid # m.cid
    PROVE  Session(q, m, e, k)
BY DEF Session, Clear, FrameInv

\* With nothing of its channel under way, a host's session is in order.
LEMMA SessionClear ==
    ASSUME NEW q, NEW m, NEW d, NEW k, Clear(q, m.cid, d), m.st # "more",
           m.st \in {"send", "sleep"} => k = 0
    PROVE  Session(q, m, d, k)
BY DEF Session, Clear

----------------------------------------------------------------------------
(* Channels.                                                               *)

\* Somebody works on channel c, or it is the broadcast channel.
Used(c) == c \in {Broadcast, device.cid, taken} \/ \E g \in Hosts : host[g].cid = c

\* A channel whose INIT answer is not read yet is not in use.
LEMMA UnreadUnused ==
    ASSUME Inv, NEW h \in Hosts, host[h].st = "init", NEW g \in Hosts, NEW i \in 1..Len(inbox[g]),
           IsInit(inbox[g][i]), inbox[g][i].tag = Tag(h, 0, 1, 1)
    PROVE  ~Used(inbox[g][i].num)
<1>. DEFINE f == inbox[g][i]
<1>1. /\ f.num \in Cids /\ device.cid # f.num
      /\ \A k \in Hosts : host[k].cid = f.num => f.tag = Tag(k, 0, 1, 1)
      /\ taken = f.num => f.tag = Tag(NoCid, 0, 1, 1)
  BY DEF Inv, Chans
<1>2. f.num # Broadcast /\ f.num # NoCid /\ NoCid # h
  BY <1>1, CtapHidAssumption
<1>3. f.num # taken
  BY <1>1, <1>2 DEF Tag
<1>4. \A k \in Hosts : host[k].cid # f.num
  <2>1. SUFFICES ASSUME NEW k \in Hosts, host[k].cid = f.num PROVE FALSE
    OBVIOUS
  <2>2. Tag(k, 0, 1, 1) = Tag(h, 0, 1, 1)
    BY <1>1, <2>1
  <2>3. k = h
    BY <2>2 DEF Tag
  <2>4. host[h].cid = NoCid
    BY DEF Inv, HostInv, HostAt
  <2>. QED BY <1>2, <2>1, <2>3, <2>4
<1>. QED BY <1>1, <1>2, <1>3, <1>4 DEF Used

\* A step that hands out no channel keeps the channels apart, if every report it
\* delivers is of a channel in use.
LEMMA ChannelsKept ==
    ASSUME Inv,
           \A g \in Hosts : \A i \in 1..Len(inbox'[g]) :
               \/ \E j \in 1..Len(inbox[g]) : inbox'[g][i] = inbox[g][j]
               \/ ~IsInit(inbox'[g][i]) /\ Used(inbox'[g][i].cid),
           \A h \in Hosts : /\ host'[h].cid \in {host[h].cid, NoCid}
                            /\ host'[h].st = "init" => host[h].st = "init",
           device'.cid = NoCid \/ Used(device'.cid),
           taken' \in {taken, NoCid}
    PROVE  Chans' /\ ChannelsDistinct'
<1>1. ChannelsDistinct'
  BY DEF Inv, ChannelsDistinct
<1>2. ASSUME NEW g \in Hosts, NEW i \in 1..Len(inbox'[g]), IsInit(inbox'[g][i])
      PROVE  LET f == inbox'[g][i] IN
        /\ f.num \in Cids
        /\ \A h \in Hosts : host'[h].cid = f.num => f.tag = Tag(h, 0, 1, 1)
        /\ taken' = f.num => f.tag = Tag(NoCid, 0, 1, 1)
        /\ \A k \in Hosts : \A j \in 1..Len(inbox'[k]) :
            IsInit(inbox'[k][j]) /\ inbox'[k][j].num = f.num => inbox'[k][j].tag = f.tag
        /\ \A h \in Hosts : host'[h].st = "init" /\ f.tag = Tag(h, 0, 1, 1) =>
            /\ device'.cid # f.num
            /\ \A k \in Hosts : \A j \in 1..Len(inbox'[k]) : inbox'[k][j].cid # f.num
  <2>1. PICK j \in 1..Len(inbox[g]) : inbox'[g][i] = inbox[g][j]
    BY <1>2
  <2>. DEFINE f == inbox[g][j]
  <2>2. IsInit(f)
    BY <1>2, <2>1
  <2>3. f.num \in Cids /\ f.num # NoCid
    BY <2>2, CtapHidAssumption DEF Inv, Chans
  <2>4. \A h \in Hosts : host'[h].cid = f.num => f.tag = Tag(h, 0, 1, 1)
    BY <2>2, <2>3 DEF Inv, Chans
  <2>5. taken' = f.num => f.tag = Tag(NoCid, 0, 1, 1)
    BY <2>2, <2>3 DEF Inv, Chans
  <2>6. ASSUME NEW k \in Hosts, NEW l \in 1..Len(inbox'[k]),
               IsInit(inbox'[k][l]), inbox'[k][l].num = f.num
        PROVE  inbox'[k][l].tag = f.tag
    <3>1. PICK n \in 1..Len(inbox[k]) : inbox'[k][l] = inbox[k][n]
      BY <2>6
    <3>. QED BY <2>2, <2>6, <3>1 DEF Inv, Chans
  <2>7. ASSUME NEW h \in Hosts, host'[h].st = "init", f.tag = Tag(h, 0, 1, 1)
        PROVE  /\ device'.cid # f.num
               /\ \A k \in Hosts : \A l \in 1..Len(inbox'[k]) : inbox'[k][l].cid # f.num
    <3>1. host[h].st = "init"
      BY <2>7
    <3>2. ~Used(f.num)
      BY <2>2, <2>7, <3>1, UnreadUnused
    <3>3. device'.cid # f.num
      BY <2>3, <3>2
    <3>4. ASSUME NEW k \in Hosts, NEW l \in 1..Len(inbox'[k]) PROVE inbox'[k][l].cid # f.num
      <4>1. CASE Used(inbox'[k][l].cid)
        BY <3>2, <4>1
      <4>2. CASE \E n \in 1..Len(inbox[k]) : inbox'[k][l] = inbox[k][n]
        BY <2>2, <2>7, <3>1, <4>2 DEF Inv, Chans
      <4>. QED BY <4>1, <4>2
    <3>. QED BY <3>3, <3>4
  <2>. QED BY <2>1, <2>3, <2>4, <2>5, <2>6, <2>7
<1>. QED BY <1>1, <1>2 DEF Chans

\* Every report of a queue after a delivery was there before or is the new one.
LEMMA DeliveredFrames ==
    ASSUME TypeOK, NEW f \in Frames, NEW g \in Hosts, NEW i \in 1..Len(Delivered(f)[g])
    PROVE  \/ i \in 1..Len(inbox[g]) /\ Delivered(f)[g][i] = inbox[g][i]
           \/ Delivered(f)[g][i] = f
<1>. DEFINE q == inbox[g]
<1>1. q \in Seq(Frames)
  BY DEF TypeOK
<1>2. CASE Delivered(f)[g] = q
  BY <1>2
<1>3. CASE Delivered(f)[g] = Append(q, f)
  <2>. DEFINE r == Append(q, f)
  <2>1. Len(r) = Len(q) + 1 /\ Len(q) \in Nat /\ r[Len(q) + 1] = f /\ \A j \in 1..Len(q) : r[j] = q[j]
    BY <1>1, AppendAt
  <2>2. Delivered(f)[g] = r /\ i \in 1..Len(r)
    BY <1>3
  <2>. HIDE DEF r, q
  <2>3. i \in 1..Len(q) \/ i = Len(q) + 1
    BY <2>1, <2>2
  <2>4. (i \in 1..Len(q) /\ Delivered(f)[g][i] = q[i]) \/ Delivered(f)[g][i] = f
    BY <2>1, <2>2, <2>3
  <2>. QED BY <2>4 DEF q
<1>. QED BY <1>2, <1>3, DeliveredIs

\* A step that adds the INIT answer of `who` with a fresh channel keeps them apart too.
LEMMA ChannelsGiven ==
    ASSUME Inv, NEW who \in Hosts \cup {NoCid}, NEW c \in FreshCids,
           inbox' = Delivered(InitAnswer(who, c)), InitAnswer(who, c) \in Frames,
           UNCHANGED <<host, device>>,
           taken' = IF who = NoCid THEN c ELSE taken
    PROVE  Chans' /\ ChannelsDistinct'
<1>. DEFINE a == InitAnswer(who, c)
<1>1. /\ c \in Cids /\ device.cid # c /\ taken # c /\ c # NoCid /\ c # Broadcast
      /\ \A h \in Hosts : host[h].cid # c
      /\ \A g \in Hosts : \A i \in 1..Len(inbox[g]) : c # inbox[g][i].cid /\ c # inbox[g][i].num
  BY CtapHidAssumption DEF FreshCids
<1>2. a.cid = Broadcast /\ a.num = c /\ a.tag = Tag(who, 0, 1, 1)
  BY DEF InitAnswer, Frame
<1>3. \A g \in Hosts : \A i \in 1..Len(inbox'[g]) :
          (i \in 1..Len(inbox[g]) /\ inbox'[g][i] = inbox[g][i]) \/ inbox'[g][i] = a
  BY DeliveredFrames DEF Inv
<1>. HIDE DEF a
<1>4. ChannelsDistinct'
  BY <1>1 DEF Inv, ChannelsDistinct
<1>5. ASSUME NEW g \in Hosts, NEW i \in 1..Len(inbox'[g]), IsInit(inbox'[g][i])
      PROVE  LET f == inbox'[g][i] IN
        /\ f.num \in Cids
        /\ \A h \in Hosts : host'[h].cid = f.num => f.tag = Tag(h, 0, 1, 1)
        /\ taken' = f.num => f.tag = Tag(NoCid, 0, 1, 1)
        /\ \A k \in Hosts : \A j \in 1..Len(inbox'[k]) :
            IsInit(inbox'[k][j]) /\ inbox'[k][j].num = f.num => inbox'[k][j].tag = f.tag
        /\ \A h \in Hosts : host'[h].st = "init" /\ f.tag = Tag(h, 0, 1, 1) =>
            /\ device'.cid # f.num
            /\ \A k \in Hosts : \A j \in 1..Len(inbox'[k]) : inbox'[k][j].cid # f.num
  <2>1. CASE inbox'[g][i] = a
    <3>1. \A k \in Hosts : \A j \in 1..Len(inbox'[k]) :
            /\ inbox'[k][j].cid # c
            /\ inbox'[k][j].num = c => inbox'[k][j].tag = a.tag
      BY <1>1, <1>2, <1>3
    <3>. QED BY <1>1, <1>2, <2>1, <3>1
  <2>2. CASE i \in 1..Len(inbox[g]) /\ inbox'[g][i] = inbox[g][i]
    <3>. DEFINE f == inbox[g][i]
    <3>1. f.num # c /\ f.num \in Cids /\ f.num # Broadcast
      BY <1>1, <1>5, <2>2, CtapHidAssumption DEF Inv, Chans
    <3>2. /\ \A h \in Hosts : host'[h].cid = f.num => f.tag = Tag(h, 0, 1, 1)
          /\ taken' = f.num => f.tag = Tag(NoCid, 0, 1, 1)
      BY <1>5, <2>2, <3>1 DEF Inv, Chans
    <3>3. \A k \in Hosts : \A j \in 1..Len(inbox'[k]) :
            IsInit(inbox'[k][j]) /\ inbox'[k][j].num = f.num => inbox'[k][j].tag = f.tag
      <4>1. SUFFICES ASSUME NEW k \in Hosts, NEW j \in 1..Len(inbox'[k]),
                            IsInit(inbox'[k][j]), inbox'[k][j].num = f.num
                     PROVE  inbox'[k][j].tag = f.tag
        OBVIOUS
      <4>2. j \in 1..Len(inbox[k]) /\ inbox'[k][j] = inbox[k][j]
        BY <1>2, <1>3, <3>1, <4>1
      <4>. QED BY <1>5, <2>2, <4>1, <4>2 DEF Inv, Chans
    <3>4. \A h \in Hosts : host'[h].st = "init" /\ f.tag = Tag(h, 0, 1, 1) =>
            /\ device'.cid # f.num
            /\ \A k \in Hosts : \A j \in 1..Len(inbox'[k]) : inbox'[k][j].cid # f.num
      BY <1>2, <1>3, <1>5, <2>2, <3>1 DEF Inv, Chans
    <3>. QED BY <2>2, <3>1, <3>2, <3>3, <3>4
  <2>. QED BY <1>3, <2>1, <2>2
<1>. QED BY <1>4, <1>5 DEF Chans

----------------------------------------------------------------------------
(* Steps of one host.                                                      *)

\* The host keeps to its own record, queue and count.
Only(h) ==
    /\ host' = [host EXCEPT ![h] = host'[h]]
    /\ inbox' = [inbox EXCEPT ![h] = inbox'[h]]
    /\ ran' = [ran EXCEPT ![h] = ran'[h]]
    /\ UNCHANGED <<device, taken, wedged>>

\* What the host's new record m, queue q and count k have to be.
Good(q, m, d, k) ==
    /\ m \in HostRecs /\ m.left <= m.size /\ Len(m.acc) <= m.total
    /\ q \in Seq(Frames) /\ Len(q) <= MaxInbox /\ k \in Nat
    /\ HostAt(m) /\ ResultAt(m, k)
    /\ m.cid # NoCid => Session(q, m, d, k)

LEMMA HostGood ==
    ASSUME Inv, NEW h \in Hosts
    PROVE  Good(inbox[h], host[h], device, ran[h])
BY DEF Inv, TypeOK, HostInv, Results, Sessions, Good

LEMMA HostStep ==
    ASSUME Inv, NEW h \in Hosts, Only(h), inits' \subseteq Hosts, Good(inbox'[h], host'[h], device, ran'[h])
    PROVE  TypeOK' /\ HostInv' /\ DeviceInv' /\ Sessions' /\ Results'
<1>1. \A g \in Hosts : g # h => host'[g] = host[g] /\ inbox'[g] = inbox[g] /\ ran'[g] = ran[g]
  BY DEF Only, Inv, TypeOK
<1>2. TypeOK'
  <2>1. host' \in [Hosts -> HostRecs] /\ inbox' \in [Hosts -> Seq(Frames)] /\ ran' \in [Hosts -> Nat]
    BY DEF Only, Inv, TypeOK, Good
  <2>2. \A g \in Hosts : host'[g].left <= host'[g].size /\ Len(host'[g].acc) <= host'[g].total
    BY <1>1 DEF Inv, TypeOK, Good
  <2>3. \A g \in Hosts : Len(inbox'[g]) <= MaxInbox
    BY <1>1 DEF Inv, TypeOK, Good
  <2>4. device' \in Devices /\ taken' \in Cids \cup {NoCid} /\ wedged' \in BOOLEAN
    BY DEF Only, Inv, TypeOK
  <2>. QED BY <2>1, <2>2, <2>3, <2>4 DEF TypeOK
<1>3. HostInv'
  BY <1>1 DEF Inv, HostInv, Good
<1>4. DeviceInv'
  BY DEF Only, Inv, DeviceInv
<1>5. Sessions'
  BY <1>1 DEF Only, Inv, Sessions, Good
<1>6. Results'
  BY <1>1 DEF Inv, Results, Good
<1>. QED BY <1>2, <1>3, <1>4, <1>5, <1>6

\* A step of a host that keeps its channel or closes, and reads at most one report.
LEMMA HostKept ==
    ASSUME Inv, NEW h \in Hosts, Only(h), inits' \subseteq Hosts, Good(inbox'[h], host'[h], device, ran'[h]),
           host'[h].cid \in {host[h].cid, NoCid},
           host'[h].st = "init" => host[h].st = "init",
           \/ inbox'[h] = inbox[h]
           \/ inbox'[h] = Tail(inbox[h]) /\ inbox[h] # <<>>
           \/ inbox'[h] = <<>>
    PROVE  Inv'
<1>1. \A g \in Hosts : g # h => host'[g] = host[g] /\ inbox'[g] = inbox[g]
  BY DEF Only, Inv, TypeOK
<1>2. \A g \in Hosts : /\ host'[g].cid \in {host[g].cid, NoCid}
                       /\ host'[g].st = "init" => host[g].st = "init"
  BY <1>1
<1>3. inbox[h] \in Seq(Frames)
  BY DEF Inv, TypeOK
<1>4. \A i \in 1..Len(inbox'[h]) : \E j \in 1..Len(inbox[h]) : inbox'[h][i] = inbox[h][j]
  <2>1. CASE inbox'[h] = inbox[h]
    BY <2>1
  <2>2. CASE inbox'[h] = Tail(inbox[h]) /\ inbox[h] # <<>>
    BY <1>3, <2>2, TailAt
  <2>3. CASE inbox'[h] = <<>>
    BY <2>3
  <2>. QED BY <2>1, <2>2, <2>3
<1>5. \A g \in Hosts : \A i \in 1..Len(inbox'[g]) :
          \E j \in 1..Len(inbox[g]) : inbox'[g][i] = inbox[g][j]
  BY <1>1, <1>4
<1>6. (device'.cid = NoCid \/ Used(device'.cid)) /\ taken' \in {taken, NoCid}
  BY DEF Only, Used
<1>7. Chans' /\ ChannelsDistinct'
  BY <1>2, <1>5, <1>6, ChannelsKept
<1>. QED BY <1>7, HostStep DEF Inv

LEMMA FailInv ==
    ASSUME Inv, NEW h \in Hosts, NEW why, Fail(h, why), why = "busy" => ran[h] = 0
    PROVE  Inv'
<1>. DEFINE m == ClosedHost(IF why = "busy" THEN why ELSE "failed")
<1>1. host'[h] = m /\ inbox'[h] = <<>> /\ ran'[h] \in {0, ran[h]}
  BY DEF Fail, Inv, TypeOK
<1>2. Only(h) /\ inits' \subseteq Hosts
  BY DEF Only, Fail, Inv, TypeOK
<1>3. m \in HostRecs /\ m.left <= m.size /\ Len(m.acc) <= m.total /\ m.cid = NoCid /\ m.st = "closed"
      /\ m.left = 0 /\ m.result \in {"busy", "failed"} /\ (m.result = "busy" => why = "busy")
  BY CtapHidAssumption DEF ClosedHost, HostRecs
<1>4. ran'[h] \in Nat /\ ran'[h] <= 1 /\ (why = "busy" => ran'[h] = 0)
  BY <1>1, HostGood DEF Good, ResultAt, Fail
<1>. HIDE DEF m
<1>5. HostAt(m) /\ ResultAt(m, ran'[h])
  BY <1>3, <1>4 DEF HostAt, ResultAt
<1>6. <<>> \in Seq(Frames) /\ Len(<<>>) <= MaxInbox
  BY CtapHidAssumption
<1>7. Good(inbox'[h], host'[h], device, ran'[h])
  BY <1>1, <1>3, <1>4, <1>5, <1>6 DEF Good
<1>. QED BY <1>1, <1>2, <1>3, <1>7, HostKept

LEMMA OpenDeviceInv ==
    ASSUME Inv, NEW h \in Hosts, OpenDevice(h)
    PROVE  Inv'
<1>. DEFINE m == [ClosedHost("none") EXCEPT !.st = "init"]
<1>1. host' = [host EXCEPT ![h] = m] /\ inbox' = inbox /\ ran' = [ran EXCEPT ![h] = 0]
      /\ UNCHANGED <<device, taken, wedged>> /\ inits' \subseteq Hosts
  BY DEF OpenDevice, Inv, TypeOK
<1>2. /\ m \in HostRecs /\ m.left <= m.size /\ Len(m.acc) <= m.total /\ m.cid = NoCid
      /\ m.st = "init" /\ m.left = 0 /\ m.result = "none"
  <2>. DEFINE n == ClosedHost("none")
  <2>1. /\ n \in HostRecs /\ n.left = 0 /\ n.size = 0 /\ Len(n.acc) = 0 /\ n.total = 0 /\ n.cid = NoCid
        /\ n.result = "none"
    BY CtapHidAssumption DEF ClosedHost, HostRecs
  <2>. HIDE DEF n
  <2>2. m = [n EXCEPT !.st = "init"]
    BY DEF n
  <2>. QED BY <2>1, <2>2 DEF HostRecs
<1>. HIDE DEF m
<1>3. host'[h] = m /\ ran'[h] = 0 /\ inbox'[h] = inbox[h] /\ Only(h)
  BY <1>1 DEF Only, Inv, TypeOK
<1>4. HostAt(m) /\ ResultAt(m, 0)
  BY <1>2 DEF HostAt, ResultAt
<1>5. Good(inbox'[h], host'[h], device, ran'[h])
  BY <1>2, <1>3, <1>4, HostGood DEF Good
<1>6. TypeOK' /\ HostInv' /\ DeviceInv' /\ Sessions' /\ Results'
  BY <1>1, <1>3, <1>5, HostStep
<1>7. \A g \in Hosts : host'[g].cid \in {host[g].cid, NoCid} /\ (g # h => host'[g] = host[g])
  BY <1>1, <1>2 DEF Inv, TypeOK
<1>8. ChannelsDistinct'
  BY <1>1, <1>7 DEF Inv, ChannelsDistinct
<1>9. \A g \in Hosts : \A i \in 1..Len(inbox[g]) : inbox[g][i].tag # Tag(h, 0, 1, 1)
  BY DEF OpenDevice
<1>10. Chans'
  <2>1. SUFFICES ASSUME NEW g \in Hosts, NEW i \in 1..Len(inbox[g]), IsInit(inbox[g][i])
                 PROVE  LET f == inbox[g][i] IN
        /\ f.num \in Cids
        /\ \A k \in Hosts : host'[k].cid = f.num => f.tag = Tag(k, 0, 1, 1)
        /\ taken = f.num => f.tag = Tag(NoCid, 0, 1, 1)
        /\ \A k \in Hosts : \A j \in 1..Len(inbox[k]) :
            IsInit(inbox[k][j]) /\ inbox[k][j].num = f.num => inbox[k][j].tag = f.tag
        /\ \A k \in Hosts : host'[k].st = "init" /\ f.tag = Tag(k, 0, 1, 1) =>
            /\ device.cid # f.num
            /\ \A l \in Hosts : \A j \in 1..Len(inbox[l]) : inbox[l][j].cid # f.num
    BY <1>1 DEF Chans
  <2>. DEFINE f == inbox[g][i]
  <2>2. f.num \in Cids /\ f.num # NoCid
    BY <2>1, CtapHidAssumption DEF Inv, Chans
  <2>3. \A k \in Hosts : host'[k].cid = f.num => f.tag = Tag(k, 0, 1, 1)
    BY <1>7, <2>1, <2>2 DEF Inv, Chans
  <2>4. \A k \in Hosts : host'[k].st = "init" /\ f.tag = Tag(k, 0, 1, 1) => host[k].st = "init"
    BY <1>7, <1>9
  <2>. QED BY <2>1, <2>2, <2>3, <2>4 DEF Inv, Chans
<1>. QED BY <1>6, <1>8, <1>10 DEF Inv

\* A report is consumed: the host goes on as m on the same channel.
LEMMA ConsumeInv ==
    ASSUME Inv, NEW h \in Hosts, NEW m, Consume(h, m), inbox[h] # <<>>,
           m \in HostRecs, m.left <= m.size, Len(m.acc) <= m.total, HostAt(m),
           ResultAt(m, ran[h]), m.cid = host[h].cid, m.st = "init" => host[h].st = "init",
           m.cid # NoCid => Session(Tail(inbox[h]), m, device, ran[h])
    PROVE  Inv'
<1>1. host'[h] = m /\ inbox'[h] = Tail(inbox[h]) /\ ran'[h] = ran[h] /\ Only(h) /\ inits' \subseteq Hosts
  BY DEF Consume, Only, Inv, TypeOK
<1>2. inbox[h] \in Seq(Frames) /\ Len(inbox[h]) <= MaxInbox /\ ran[h] \in Nat
  BY DEF Inv, TypeOK
<1>3. Tail(inbox[h]) \in Seq(Frames) /\ Len(Tail(inbox[h])) <= MaxInbox
  BY <1>2, TailAt, CtapHidAssumption
<1>4. Good(inbox'[h], host'[h], device, ran'[h])
  BY <1>1, <1>2, <1>3 DEF Good
<1>. QED BY <1>1, <1>4, HostKept

\* Skipping a report changes nothing but the queue.
LEMMA SkipInv ==
    ASSUME Inv, NEW h \in Hosts, Consume(h, host[h]), inbox[h] # <<>>
    PROVE  Inv'
<1>1. Good(inbox[h], host[h], device, ran[h])
  BY HostGood
<1>2. host[h].cid # NoCid => Session(Tail(inbox[h]), host[h], device, ran[h])
  BY <1>1, SessionTail DEF Good
<1>. QED BY <1>1, <1>2, ConsumeInv DEF Good

LEMMA SkipForeignInv ==
    ASSUME Inv, NEW h \in Hosts, SkipForeign(h)
    PROVE  Inv'
BY SkipInv DEF SkipForeign, Reads

\* The host reads the answer to its own INIT: nobody has used the channel.
LEMMA OwnInitInv ==
    ASSUME Inv, NEW h \in Hosts, Reads(h, "init"), Report(h).cmd = "init", OwnNonce(h, Report(h)),
           Consume(h, [host[h] EXCEPT !.st = "open", !.cid = Report(h).num])
    PROVE  Inv'
<1>. DEFINE f == Report(h)
            c == f.num
            m == [host[h] EXCEPT !.st = "open", !.cid = c]
            q == inbox[h]
<1>1. /\ q # <<>> /\ q \in Seq(Frames) /\ host[h].st = "init" /\ host[h] \in HostRecs
      /\ Len(q) <= MaxInbox /\ ran[h] \in Nat
  BY DEF Reads, Inv, TypeOK
<1>2. f = q[1] /\ 1 \in 1..Len(q) /\ IsInit(f) /\ f.tag = Tag(h, 0, 1, 1)
  BY <1>1, TailAt DEF Report, IsInit, OwnNonce
<1>3. /\ c \in Cids /\ c # NoCid /\ device.cid # c
      /\ \A k \in Hosts : \A j \in 1..Len(inbox[k]) : inbox[k][j].cid # c
      /\ \A k \in Hosts : \A j \in 1..Len(inbox[k]) :
            IsInit(inbox[k][j]) /\ inbox[k][j].num = c => inbox[k][j].tag = f.tag
  <2>1. PICK i \in 1..Len(inbox[h]) : inbox[h][i] = f
    BY <1>2
  <2>. HIDE DEF f
  <2>2. c \in Cids /\ c # NoCid
    BY <1>2, <2>1, CtapHidAssumption DEF Inv, Chans
  <2>3. device.cid # c /\ \A k \in Hosts : \A j \in 1..Len(inbox[k]) : inbox[k][j].cid # c
    BY <1>1, <1>2, <2>1 DEF Inv, Chans
  <2>4. \A k \in Hosts : \A j \in 1..Len(inbox[k]) :
            IsInit(inbox[k][j]) /\ inbox[k][j].num = c => inbox[k][j].tag = f.tag
    BY <1>2, <2>1 DEF Inv, Chans
  <2>. QED BY <2>2, <2>3, <2>4
<1>4. taken # c /\ \A k \in Hosts : host[k].cid # c
  <2>1. ~Used(c)
    BY <1>1, <1>2, UnreadUnused
  <2>. QED BY <2>1 DEF Used
<1>5. /\ m \in HostRecs /\ m.cid = c /\ m.st = "open" /\ m.left = host[h].left /\ m.size = host[h].size
      /\ m.acc = host[h].acc /\ m.total = host[h].total /\ m.result = host[h].result
  BY <1>1, <1>3 DEF HostRecs
<1>6. host' = [host EXCEPT ![h] = m] /\ inbox' = [inbox EXCEPT ![h] = Tail(q)] /\ ran' = ran
      /\ UNCHANGED <<device, taken, wedged, inits>>
  BY DEF Consume
<1>. HIDE DEF m
<1>7. host'[h] = m /\ inbox'[h] = Tail(q) /\ ran'[h] = ran[h] /\ Only(h) /\ inits' \subseteq Hosts
  BY <1>6 DEF Only, Inv, TypeOK
<1>8. Good(inbox'[h], host'[h], device, ran'[h])
  <2>1. Good(q, host[h], device, ran[h])
    BY HostGood
  <2>2. HostAt(m)
    BY <1>3, <1>5, <2>1, <1>1 DEF Good, HostAt
  <2>3. host[h].result = "none"
    BY <1>1, <2>1 DEF Good, HostAt
  <2>4. ResultAt(m, ran[h])
    BY <1>5, <2>1, <2>3 DEF Good, ResultAt
  <2>5. Tail(q) \in Seq(Frames) /\ Len(Tail(q)) <= MaxInbox
    BY <1>1, TailAt, CtapHidAssumption
  <2>6. Clear(Tail(q), c, device)
    BY <1>1, <1>3, ClearTail DEF Clear
  <2>7. Session(Tail(q), m, device, ran[h])
    BY <1>5, <2>6, SessionClear
  <2>. QED BY <1>1, <1>5, <1>7, <2>1, <2>2, <2>4, <2>5, <2>7 DEF Good
<1>9. TypeOK' /\ HostInv' /\ DeviceInv' /\ Sessions' /\ Results'
  BY <1>7, <1>8, HostStep
<1>10. \A g \in Hosts : g # h => host'[g] = host[g] /\ inbox'[g] = inbox[g]
  BY <1>6 DEF Inv, TypeOK
<1>11. ChannelsDistinct'
  BY <1>3, <1>4, <1>5, <1>6, <1>7, <1>10 DEF Inv, ChannelsDistinct
<1>12. Chans'
  <2>1. \A g \in Hosts : \A i \in 1..Len(inbox'[g]) : \E j \in 1..Len(inbox[g]) : inbox'[g][i] = inbox[g][j]
    <3>1. \A i \in 1..Len(Tail(q)) : i + 1 \in 1..Len(q) /\ Tail(q)[i] = q[i + 1]
      BY <1>1, TailAt
    <3>2. \A i \in 1..Len(inbox'[h]) : \E j \in 1..Len(inbox[h]) : inbox'[h][i] = inbox[h][j]
      BY <1>7, <3>1
    <3>. QED BY <1>10, <3>2
  <2>2. SUFFICES ASSUME NEW g \in Hosts, NEW i \in 1..Len(inbox'[g]), IsInit(inbox'[g][i])
                 PROVE  LET a == inbox'[g][i] IN
        /\ a.num \in Cids
        /\ \A k \in Hosts : host'[k].cid = a.num => a.tag = Tag(k, 0, 1, 1)
        /\ taken' = a.num => a.tag = Tag(NoCid, 0, 1, 1)
        /\ \A k \in Hosts : \A j \in 1..Len(inbox'[k]) :
            IsInit(inbox'[k][j]) /\ inbox'[k][j].num = a.num => inbox'[k][j].tag = a.tag
        /\ \A k \in Hosts : host'[k].st = "init" /\ a.tag = Tag(k, 0, 1, 1) =>
            /\ device'.cid # a.num
            /\ \A l \in Hosts : \A j \in 1..Len(inbox'[l]) : inbox'[l][j].cid # a.num
    BY DEF Chans
  <2>3. PICK n \in 1..Len(inbox[g]) : inbox'[g][i] = inbox[g][n]
    BY <2>1
  <2>. DEFINE a == inbox[g][n]
  <2>4. IsInit(a) /\ a.num \in Cids /\ (taken = a.num => a.tag = Tag(NoCid, 0, 1, 1))
    BY <2>2, <2>3 DEF Inv, Chans
  <2>5. ASSUME NEW k \in Hosts, host'[k].cid = a.num PROVE a.tag = Tag(k, 0, 1, 1)
    <3>1. CASE k = h
      BY <1>2, <1>3, <1>5, <1>7, <2>4, <2>5, <3>1
    <3>2. CASE k # h
      BY <1>10, <2>4, <2>5, <3>2 DEF Inv, Chans
    <3>. QED BY <3>1, <3>2
  <2>6. ASSUME NEW k \in Hosts, NEW j \in 1..Len(inbox'[k]), IsInit(inbox'[k][j]), inbox'[k][j].num = a.num
        PROVE  inbox'[k][j].tag = a.tag
    <3>1. PICK l \in 1..Len(inbox[k]) : inbox'[k][j] = inbox[k][l]
      BY <2>1
    <3>. QED BY <2>4, <2>6, <3>1 DEF Inv, Chans
  <2>7. ASSUME NEW k \in Hosts, host'[k].st = "init", a.tag = Tag(k, 0, 1, 1)
        PROVE  /\ device.cid # a.num
               /\ \A l \in Hosts : \A j \in 1..Len(inbox'[l]) : inbox'[l][j].cid # a.num
    <3>1. k # h /\ host[k].st = "init"
      BY <1>5, <1>7, <1>10, <2>7
    <3>2. /\ device.cid # a.num
          /\ \A l \in Hosts : \A j \in 1..Len(inbox[l]) : inbox[l][j].cid # a.num
      BY <2>4, <2>7, <3>1 DEF Inv, Chans
    <3>3. ASSUME NEW l \in Hosts, NEW j \in 1..Len(inbox'[l]) PROVE inbox'[l][j].cid # a.num
      <4>1. PICK o \in 1..Len(inbox[l]) : inbox'[l][j] = inbox[l][o]
        BY <2>1
      <4>. QED BY <3>2, <4>1
    <3>. QED BY <3>2, <3>3
  <2>8. inbox'[g][i] = a /\ taken' = taken /\ device' = device
    BY <1>6, <2>3
  <2>. HIDE DEF a
  <2>. QED BY <2>8, <2>4, <2>5, <2>6, <2>7
<1>. QED BY <1>9, <1>11, <1>12 DEF Inv

LEMMA ReadInitInv ==
    ASSUME Inv, NEW h \in Hosts, ReadInit(h)
    PROVE  Inv'
<1>1. CASE Fail(h, "fault")
  BY <1>1, FailInv
<1>2. CASE SkipInit(h)
  BY <1>2, SkipInv DEF SkipInit, ReadInit, Reads
<1>. QED BY <1>1, <1>2, OwnInitInv DEF ReadInit

----------------------------------------------------------------------------
(* transact.                                                               *)

\* The clock and the cancel flag mean nothing to a session.
LEMMA SessionSame ==
    ASSUME NEW q, NEW m, NEW n, NEW d, NEW k, Session(q, m, d, k),
           n.cid = m.cid, n.req = m.req, n.st = m.st, n.left = m.left, n.size = m.size,
           n.acc = m.acc, n.total = m.total
    PROVE  Session(q, n, d, k)
BY DEF Session, FrameInv, WorkInv, Prefix

LEMMA GoodSame ==
    ASSUME Inv, NEW h \in Hosts, NEW n \in HostRecs,
           n.cid = host[h].cid, n.req = host[h].req, n.st = host[h].st, n.left = host[h].left,
           n.size = host[h].size, n.acc = host[h].acc, n.total = host[h].total,
           n.attempt = host[h].attempt, n.result = host[h].result
    PROVE  Good(inbox[h], n, device, ran[h])
<1>1. Good(inbox[h], host[h], device, ran[h])
  BY HostGood
<1>2. HostAt(n) /\ ResultAt(n, ran[h])
  BY <1>1 DEF Good, HostAt, ResultAt, Prefix
<1>3. n.cid # NoCid => Session(inbox[h], n, device, ran[h])
  BY <1>1, SessionSame DEF Good
<1>. QED BY <1>1, <1>2, <1>3 DEF Good

LEMMA CancelInv ==
    ASSUME Inv, NEW h \in Hosts, Cancel(h)
    PROVE  Inv'
<1>. DEFINE n == [host[h] EXCEPT !.cancel = TRUE]
<1>1. host[h] \in HostRecs
  BY DEF Inv, TypeOK
<1>2. n \in HostRecs
  BY <1>1 DEF HostRecs
<1>3. /\ n.cid = host[h].cid /\ n.req = host[h].req /\ n.st = host[h].st /\ n.left = host[h].left
      /\ n.size = host[h].size /\ n.acc = host[h].acc /\ n.total = host[h].total
      /\ n.attempt = host[h].attempt /\ n.result = host[h].result
  BY <1>1 DEF HostRecs
<1>4. host' = [host EXCEPT ![h] = n] /\ UNCHANGED <<inbox, ran, device, inits, taken, wedged>>
  BY DEF Cancel
<1>. HIDE DEF n
<1>5. host'[h] = n /\ inbox'[h] = inbox[h] /\ ran'[h] = ran[h] /\ Only(h) /\ inits' \subseteq Hosts
  BY <1>4 DEF Only, Inv, TypeOK
<1>. QED BY <1>2, <1>3, <1>5, GoodSame, HostKept

LEMMA TickInv ==
    ASSUME Inv, NEW h \in Hosts, Tick(h)
    PROVE  Inv'
<1>. DEFINE a == host[h].age + 1
            n == [host[h] EXCEPT !.age = a]
<1>1. host[h] \in HostRecs /\ a \in 0..Timeout
  BY CtapHidAssumption DEF Inv, TypeOK, HostRecs, Tick
<1>4. host' = [host EXCEPT ![h] = n] /\ UNCHANGED <<inbox, ran, device, inits, taken, wedged>>
  BY DEF Tick
<1>. HIDE DEF a
<1>2. n \in HostRecs
  BY <1>1 DEF HostRecs
<1>3. /\ n.cid = host[h].cid /\ n.req = host[h].req /\ n.st = host[h].st /\ n.left = host[h].left
      /\ n.size = host[h].size /\ n.acc = host[h].acc /\ n.total = host[h].total
      /\ n.attempt = host[h].attempt /\ n.result = host[h].result
  BY <1>1 DEF HostRecs
<1>. HIDE DEF n
<1>5. host'[h] = n /\ inbox'[h] = inbox[h] /\ ran'[h] = ran[h] /\ Only(h) /\ inits' \subseteq Hosts
  BY <1>4 DEF Only, Inv, TypeOK
<1>. QED BY <1>2, <1>3, <1>5, GoodSame, HostKept

LEMMA ReadKeepaliveInv ==
    ASSUME Inv, NEW h \in Hosts, ReadKeepalive(h)
    PROVE  Inv'
<1>. DEFINE n == [host[h] EXCEPT !.age = 0]
<1>1. host[h] \in HostRecs /\ inbox[h] \in Seq(Frames) /\ inbox[h] # <<>>
  BY DEF Inv, TypeOK, ReadKeepalive, Reads
<1>2. n \in HostRecs
  <2>1. 0 \in 0..Timeout
    BY CtapHidAssumption
  <2>. QED BY <1>1, <2>1 DEF HostRecs
<1>3. /\ n.cid = host[h].cid /\ n.req = host[h].req /\ n.st = host[h].st /\ n.left = host[h].left
      /\ n.size = host[h].size /\ n.acc = host[h].acc /\ n.total = host[h].total
      /\ n.attempt = host[h].attempt /\ n.result = host[h].result
  BY <1>1 DEF HostRecs
<1>4. Consume(h, n)
  BY DEF ReadKeepalive
<1>. HIDE DEF n
<1>5. Good(inbox[h], n, device, ran[h])
  BY <1>2, <1>3, GoodSame
<1>6. n.cid # NoCid => Session(Tail(inbox[h]), n, device, ran[h])
  BY <1>1, <1>5, SessionTail DEF Good
<1>. QED BY <1>1, <1>3, <1>4, <1>5, <1>6, ConsumeInv DEF Good

\* A new request: nothing of the channel is under way.
LEMMA TransactInv ==
    ASSUME Inv, NEW h \in Hosts, Transact(h)
    PROVE  Inv'
<1>1. PICK s \in 1..MaxRequest :
        host' = [host EXCEPT ![h] = [host[h] EXCEPT !.st = "send", !.req = 1 - @, !.size = s, !.left = s,
                                                    !.attempt = 1, !.acc = <<>>, !.result = "none"]]
  BY DEF Transact
<1>. DEFINE m == host[h]
            r == 1 - m.req
            n == [m EXCEPT !.st = "send", !.req = r, !.size = s, !.left = s,
                           !.attempt = 1, !.acc = <<>>, !.result = "none"]
<1>2. m \in HostRecs /\ m.st = "open"
  BY DEF Inv, TypeOK, Transact
<1>3. r \in 0..1 /\ s \in 1..MaxFrames /\ 1 \in 0..MaxAttempts
  BY <1>2, CtapHidAssumption DEF HostRecs
<1>4. host' = [host EXCEPT ![h] = n] /\ UNCHANGED <<inbox, device, inits, taken, wedged>>
      /\ ran' = [ran EXCEPT ![h] = 0]
  BY <1>1 DEF Transact
<1>. HIDE DEF r
<1>5. n \in HostRecs /\ n.total \in Nat /\ Len(n.acc) = 0
  <2>1. <<>> \in Seq(Tags) /\ Len(<<>>) = 0
    OBVIOUS
  <2>2. n.acc = <<>> /\ n.total = m.total /\ m.total \in Nat
    BY <1>2, CtapHidAssumption DEF HostRecs
  <2>3. s \in 0..MaxFrames
    BY <1>3, CtapHidAssumption
  <2>4. n \in HostRecs
    BY <1>2, <1>3, <2>1, <2>3 DEF HostRecs
  <2>. QED BY <2>1, <2>2, <2>4
<1>6. /\ n.cid = m.cid /\ n.st = "send" /\ n.left = s /\ n.size = s /\ n.result = "none"
  BY <1>2 DEF HostRecs
<1>7. Good(inbox[h], m, device, ran[h])
  BY HostGood
<1>8. m.cid # NoCid /\ Clear(inbox[h], m.cid, device)
  BY <1>2, <1>7 DEF Good, HostAt, Session
<1>. HIDE DEF n, m
<1>9. host'[h] = n /\ inbox'[h] = inbox[h] /\ ran'[h] = 0 /\ Only(h) /\ inits' \subseteq Hosts
  BY <1>4 DEF Only, Inv, TypeOK
<1>10. HostAt(n) /\ ResultAt(n, 0) /\ n.left <= n.size /\ Len(n.acc) <= n.total
  BY <1>3, <1>5, <1>6, <1>8 DEF HostAt, ResultAt
<1>11. Session(inbox[h], n, device, 0)
  BY <1>6, <1>8, SessionClear
<1>12. Good(inbox'[h], host'[h], device, ran'[h])
  BY <1>5, <1>7, <1>9, <1>10, <1>11 DEF Good
<1>13. host'[h].cid \in {host[h].cid, NoCid} /\ host'[h].st # "init"
  BY <1>6, <1>9 DEF m
<1>. QED BY <1>9, <1>12, <1>13, HostKept

\* The busy retry: the key did not take the request.
LEMMA ReadErrorInv ==
    ASSUME Inv, NEW h \in Hosts, ReadError(h)
    PROVE  Inv'
<1>. DEFINE f == Report(h)
            m == host[h]
            q == inbox[h]
            n == [m EXCEPT !.st = "sleep"]
<1>1. /\ q # <<>> /\ q \in Seq(Frames) /\ m.st = "recv" /\ m \in HostRecs /\ f.cid = m.cid
      /\ f.cmd \in {"busy", "fault"}
  BY DEF ReadError, Reads, OwnChannel, Inv, TypeOK
<1>2. f = q[1] /\ 1 \in 1..Len(q)
  BY <1>1, TailAt DEF Report
<1>3. Good(q, m, device, ran[h]) /\ m.cid # NoCid
  BY <1>1, HostGood DEF Good, HostAt
<1>4. FrameInv(q, 1, m, device, ran[h])
  BY <1>1, <1>2, <1>3 DEF Good, Session
<1>5. f.cmd = "busy" => ran[h] = 0
  BY <1>2, <1>4 DEF FrameInv
<1>6. CASE Fail(h, f.cmd)
  BY <1>5, <1>6, FailInv
<1>7. CASE BusyRetry(f.cmd, m.attempt) /\ Consume(h, n)
  <2>1. f.cmd = "busy" /\ m.attempt < MaxAttempts /\ ran[h] = 0
    BY <1>5, <1>7 DEF BusyRetry
  <2>2. device.cid # m.cid /\ \A j \in 2..Len(q) : q[j].cid # m.cid
    BY <1>2, <1>4, <2>1 DEF FrameInv, IsFinal
  <2>3. Clear(Tail(q), m.cid, device)
    <3>1. \A i \in 1..Len(Tail(q)) : i + 1 \in 2..Len(q) /\ Tail(q)[i] = q[i + 1]
      BY <1>1, TailAt
    <3>. QED BY <2>2, <3>1 DEF Clear
  <2>4. n \in HostRecs /\ n.cid = m.cid /\ n.st = "sleep" /\ n.left = m.left /\ n.size = m.size
        /\ n.acc = m.acc /\ n.total = m.total /\ n.attempt = m.attempt /\ n.result = m.result
    BY <1>1 DEF HostRecs
  <2>. HIDE DEF n, m, q
  <2>5. HostAt(n) /\ ResultAt(n, ran[h]) /\ n.left <= n.size /\ Len(n.acc) <= n.total
    BY <1>1, <1>3, <2>1, <2>4 DEF Good, HostAt, ResultAt
  <2>6. Session(Tail(q), n, device, ran[h])
    BY <2>1, <2>3, <2>4, SessionClear
  <2>. QED BY <1>1, <1>7, <2>4, <2>5, <2>6, ConsumeInv DEF m, q
<1>. QED BY <1>6, <1>7 DEF ReadError

LEMMA WakeInv ==
    ASSUME Inv, NEW h \in Hosts, Wake(h)
    PROVE  Inv'
<1>. DEFINE m == host[h]
            t == m.attempt + 1
            n == [m EXCEPT !.st = "send", !.left = m.size, !.attempt = t]
<1>1. CASE Fail(h, "cancelled")
  BY <1>1, FailInv
<1>2. CASE host' = [host EXCEPT ![h] = n] /\ UNCHANGED <<inbox, ran, device, inits, taken, wedged>>
  <2>1. m \in HostRecs /\ m.st = "sleep" /\ Good(inbox[h], m, device, ran[h])
    BY HostGood DEF Inv, TypeOK, Wake
  <2>2. /\ m.cid # NoCid /\ Clear(inbox[h], m.cid, device) /\ ran[h] = 0 /\ t \in 0..MaxAttempts
        /\ m.size \in 1..MaxFrames
    BY <2>1, CtapHidAssumption DEF Good, HostAt, Session, HostRecs
  <2>. HIDE DEF t
  <2>3. n \in HostRecs /\ n.cid = m.cid /\ n.st = "send" /\ n.left = m.size /\ n.size = m.size
        /\ n.acc = m.acc /\ n.total = m.total /\ n.result = m.result
    BY <2>1, <2>2, CtapHidAssumption DEF HostRecs
  <2>. HIDE DEF n, m
  <2>4. HostAt(n) /\ ResultAt(n, ran[h]) /\ n.left <= n.size /\ Len(n.acc) <= n.total
    BY <2>1, <2>2, <2>3, CtapHidAssumption DEF Good, HostAt, ResultAt
  <2>5. Session(inbox[h], n, device, ran[h])
    BY <2>2, <2>3, SessionClear
  <2>6. host'[h] = n /\ inbox'[h] = inbox[h] /\ ran'[h] = ran[h] /\ Only(h) /\ inits' \subseteq Hosts
    BY <1>2 DEF Only, Inv, TypeOK
  <2>7. Good(inbox'[h], host'[h], device, ran'[h])
    BY <2>1, <2>3, <2>4, <2>5, <2>6 DEF Good
  <2>8. host'[h].cid \in {host[h].cid, NoCid} /\ host'[h].st # "init"
    BY <2>3, <2>6 DEF m
  <2>. QED BY <2>6, <2>7, <2>8, HostKept
<1>. QED BY <1>1, <1>2 DEF Wake

\* The answer so far with one more frame is still the beginning of the answer.
LEMMA PrefixGrows ==
    ASSUME NEW c, NEW r, NEW t, NEW acc \in Seq(Tags), Tag(c, r, Len(acc) + 1, t) \in Tags,
           acc = [i \in 1..Len(acc) |-> Tag(c, r, i, t)]
    PROVE  LET new == Append(acc, Tag(c, r, Len(acc) + 1, t)) IN
           /\ new \in Seq(Tags) /\ Len(new) = Len(acc) + 1
           /\ new = [i \in 1..Len(new) |-> Tag(c, r, i, t)]
<1>. DEFINE g == Tag(c, r, Len(acc) + 1, t)
            new == Append(acc, g)
<1>1. \A i \in 1..Len(acc) : acc[i] = Tag(c, r, i, t)
  OBVIOUS
<1>2. g \in Tags
  OBVIOUS
<1>. HIDE DEF g
<1>3. /\ new \in Seq(Tags) /\ Len(new) = Len(acc) + 1 /\ Len(acc) \in Nat
      /\ \A i \in 1..Len(acc) : new[i] = acc[i]
      /\ new[Len(acc) + 1] = g
  BY <1>2
<1>. HIDE DEF new
<1>4. DOMAIN new = 1..Len(new) /\ new = [i \in 1..Len(new) |-> new[i]]
  BY <1>3
<1>5. \A i \in 1..Len(new) : new[i] = Tag(c, r, i, t)
  <2>1. \A i \in 1..Len(new) : i \in 1..Len(acc) \/ i = Len(acc) + 1
    BY <1>3
  <2>. QED BY <1>1, <1>3, <2>1 DEF g
<1>. QED BY <1>3, <1>4, <1>5 DEF new, g

LEMMA BelowEnd ==
    ASSUME NEW n \in Nat, NEW t \in 1..n, NEW l \in 1..t, l # t
    PROVE  t \in Nat /\ l \in 1..(t - 1)
PROOF OBVIOUS

\* The host takes frame f, part Len(acc) of an answer of t frames, from its queue.
LEMMA CollectedInv ==
    ASSUME Inv, NEW h \in Hosts, NEW acc, NEW t, inbox[h] # <<>>,
           host[h].st \in {"recv", "more"}, Consume(h, Collected(h, acc, t)),
           Report(h).cid = host[h].cid, IsAnswer(Report(h)),
           acc \in Seq(Tags), t \in 1..MaxFrames, Len(acc) \in 1..t,
           acc = [i \in 1..Len(acc) |-> Tag(host[h].cid, host[h].req, i, t)],
           Report(h).tag.part = Len(acc), Report(h).tag.of = t
    PROVE  Inv'
<1>. DEFINE f == Report(h)
            m == host[h]
            q == inbox[h]
            k == ran[h]
            n == Collected(h, acc, t)
<1>1. q \in Seq(Frames) /\ m \in HostRecs /\ Good(q, m, device, k) /\ t \in 0..MaxFrames
  BY HostGood, CtapHidAssumption DEF Inv, TypeOK
<1>2. f = q[1] /\ 1 \in 1..Len(q)
  BY <1>1, TailAt DEF Report
<1>3. m.cid # NoCid /\ FrameInv(q, 1, m, device, k) /\ m.left = 0 /\ k = 1
      /\ \A i \in 1..Len(q) : q[i].cid = m.cid => FrameInv(q, i, m, device, k)
  <2>1. m.cid # NoCid /\ FrameInv(q, 1, m, device, k) /\ m.left = 0
        /\ \A i \in 1..Len(q) : q[i].cid = m.cid => FrameInv(q, i, m, device, k)
    BY <1>1, <1>2 DEF Good, Session, HostAt
  <2>2. k = 1
    BY <1>2, <2>1 DEF FrameInv
  <2>. QED BY <2>1, <2>2
<1>4. \A i \in 1..Len(Tail(q)) : /\ i + 1 \in 1..Len(q) /\ i + 1 \in 2..Len(q)
                                 /\ Tail(q)[i] = q[i + 1]
  BY <1>1, TailAt
<1>5. Consume(h, n)
  OBVIOUS
<1>6. CASE Len(acc) = t
  <2>1. n = [m EXCEPT !.st = "open", !.acc = acc, !.total = t, !.result = "ok",
                      !.size = 0, !.attempt = 0, !.age = 0]
    BY <1>6 DEF Collected
  <2>2. 0 \in 0..MaxFrames /\ 0 \in 0..MaxAttempts /\ 0 \in 0..Timeout
    BY CtapHidAssumption
  <2>3. n \in HostRecs /\ n.cid = m.cid /\ n.req = m.req /\ n.st = "open" /\ n.left = m.left
        /\ n.size = 0 /\ n.acc = acc /\ n.total = t /\ n.result = "ok"
    BY <1>1, <2>1, <2>2 DEF HostRecs
  <2>4. IsFinal(f)
    BY <1>6 DEF IsFinal
  <2>5. device.cid # m.cid /\ \A j \in 2..Len(q) : q[j].cid # m.cid
    BY <1>2, <1>3, <2>4 DEF FrameInv
  <2>6. Clear(Tail(q), m.cid, device)
    BY <1>4, <2>5 DEF Clear
  <2>. HIDE DEF n, m, q, k
  <2>7. Session(Tail(q), n, device, k)
    BY <2>3, <2>6, SessionClear
  <2>8. HostAt(n) /\ n.left <= n.size /\ Len(n.acc) <= n.total
    BY <1>3, <1>6, <2>3 DEF HostAt
  <2>9. ResultAt(n, k)
    BY <1>3, <1>6, <2>3 DEF ResultAt, Prefix, m
  <2>. QED BY <1>5, <2>3, <2>7, <2>8, <2>9, ConsumeInv DEF m, q, k
<1>7. CASE Len(acc) # t
  <2>1. n = [m EXCEPT !.st = "more", !.acc = acc, !.total = t]
    BY <1>7 DEF Collected
  <2>3. n \in HostRecs /\ n.cid = m.cid /\ n.req = m.req /\ n.st = "more" /\ n.left = m.left
        /\ n.size = m.size /\ n.acc = acc /\ n.total = t /\ n.result = m.result
    BY <1>1, <2>1 DEF HostRecs
  <2>4. \A i \in 1..Len(q) : q[i].cid = m.cid => FrameInv(q, i, n, device, k)
    <3>1. \A j \in 1..Len(q) : q[j].cid = m.cid /\ IsAnswer(q[j]) => q[j].tag.of = t
      BY <1>2, <1>3 DEF FrameInv
    <3>. HIDE DEF n, q, k
    <3>. QED BY <1>3, <2>3, <3>1 DEF FrameInv
  <2>5. device.cid = m.cid => WorkInv(n, device, k)
    <3>1. device.cid = m.cid => WorkInv(m, device, k) /\ device.phase = "answer" /\ device.size = t
      BY <1>1, <1>2, <1>3 DEF Good, Session, FrameInv
    <3>. QED BY <2>3, <3>1 DEF WorkInv
  <2>6. Prefix(n) /\ Len(n.acc) \in 1..(n.total - 1)
    <3>1. t \in Nat /\ Len(acc) \in 1..(t - 1)
      BY <1>7, BelowEnd, CtapHidAssumption
    <3>2. acc = [i \in 1..Len(acc) |-> Tag(m.cid, m.req, i, t)]
      OBVIOUS
    <3>. HIDE DEF n, m
    <3>3. Prefix(n)
      BY <2>3, <3>2 DEF Prefix
    <3>. QED BY <2>3, <3>1, <3>3
  <2>. HIDE DEF n, m, q, k
  <2>7. \A i \in 1..Len(Tail(q)) : Tail(q)[i].cid = n.cid => FrameInv(Tail(q), i, n, device, k)
    BY <1>1, <2>3, <2>4, FramesTail DEF q
  <2>8. Session(Tail(q), n, device, k)
    BY <1>3, <2>3, <2>5, <2>6, <2>7 DEF Session
  <2>9. HostAt(n) /\ n.left <= n.size /\ Len(n.acc) <= n.total
    BY <1>1, <1>3, <2>3 DEF HostAt, Good
  <2>10. ResultAt(n, k)
    BY <1>1, <1>3, <2>3 DEF ResultAt, Good, m
  <2>. QED BY <1>5, <2>3, <2>8, <2>9, <2>10, ConsumeInv DEF m, q, k
<1>. QED BY <1>6, <1>7

LEMMA ReadFirstInv ==
    ASSUME Inv, NEW h \in Hosts, ReadFirst(h)
    PROVE  Inv'
<1>. DEFINE f == Report(h)
            m == host[h]
            q == inbox[h]
<1>1. /\ q # <<>> /\ q \in Seq(Frames) /\ m.st = "recv" /\ f.cid = m.cid
  BY DEF ReadFirst, Reads, OwnChannel, Inv, TypeOK
<1>2. f = q[1] /\ 1 \in 1..Len(q) /\ f \in Frames
  BY <1>1, TailAt DEF Report
<1>3. CASE Fail(h, "protocol")
  BY <1>3, FailInv
<1>4. CASE f.cmd = "cbor" /\ ~TooLarge(f.num) /\ Consume(h, Collected(h, <<f.tag>>, f.num))
  <2>1. IsAnswer(f) /\ m.cid # NoCid /\ FrameInv(q, 1, m, device, ran[h])
    BY <1>1, <1>2, <1>4, HostGood DEF Good, Session, IsAnswer, HostAt
  <2>2. f.tag.part \in 1..f.tag.of /\ f = AnswerFrame(m.cid, m.req, f.tag.part, f.tag.of) /\ f.tag \in Tags
    BY <1>2, <2>1 DEF FrameInv, Frames
  <2>3. f.tag.part = 1 /\ f.num = f.tag.of /\ f.tag = Tag(m.cid, m.req, 1, f.tag.of)
    BY <1>4, <2>2 DEF AnswerFrame, Frame, Tag
  <2>4. f.num \in 1..MaxFrames
    BY <1>4, <2>2, <2>3, CtapHidAssumption DEF TooLarge, Tags
  <2>5. <<f.tag>> \in Seq(Tags) /\ Len(<<f.tag>>) = 1
        /\ <<f.tag>> = [i \in 1..1 |-> Tag(m.cid, m.req, i, f.num)]
    BY <2>2, <2>3
  <2>. DEFINE acc == <<f.tag>>
  <2>6. acc \in Seq(Tags) /\ Len(acc) = 1 /\ acc = [i \in 1..1 |-> Tag(m.cid, m.req, i, f.num)]
        /\ Consume(h, Collected(h, acc, f.num))
    BY <1>4, <2>5
  <2>. HIDE DEF acc
  <2>7. acc = [i \in 1..Len(acc) |-> Tag(m.cid, m.req, i, f.num)] /\ Len(acc) \in 1..f.num
    BY <2>4, <2>6, CtapHidAssumption
  <2>8. f.tag.part = Len(acc) /\ f.tag.of = f.num
    BY <2>3, <2>6
  <2>. QED BY <1>1, <2>1, <2>4, <2>6, <2>7, <2>8, CollectedInv
<1>. QED BY <1>3, <1>4 DEF ReadFirst

LEMMA ReadMoreInv ==
    ASSUME Inv, NEW h \in Hosts, ReadMore(h)
    PROVE  Inv'
<1>. DEFINE f == Report(h)
            m == host[h]
            q == inbox[h]
            l == Len(m.acc)
<1>1. /\ q # <<>> /\ q \in Seq(Frames) /\ m.st = "more" /\ f.cid = m.cid /\ m \in HostRecs
  BY DEF ReadMore, Reads, OwnChannel, Inv, TypeOK
<1>2. f = q[1] /\ 1 \in 1..Len(q) /\ f \in Frames
  BY <1>1, TailAt DEF Report
<1>3. CASE Fail(h, "protocol")
  BY <1>3, FailInv
<1>4. CASE f.cmd = "cont" /\ InSequence(h, f) /\ Consume(h, Collected(h, Append(m.acc, f.tag), m.total))
  <2>1. IsAnswer(f) /\ m.cid # NoCid /\ FrameInv(q, 1, m, device, ran[h])
        /\ Prefix(m) /\ l \in 1..(m.total - 1)
    BY <1>1, <1>2, <1>4, HostGood DEF Good, Session, IsAnswer, HostAt
  <2>2. f.tag.part \in 1..f.tag.of /\ f = AnswerFrame(m.cid, m.req, f.tag.part, f.tag.of) /\ f.tag \in Tags
        /\ f.tag.of = m.total
    BY <1>1, <1>2, <2>1 DEF FrameInv, Frames
  <2>3. f.tag.part # 1 /\ f.num = f.tag.part - 2 /\ f.tag = Tag(m.cid, m.req, f.tag.part, m.total)
    BY <1>4, <2>2 DEF AnswerFrame, Frame, Tag
  <2>4. m.acc \in Seq(Tags) /\ l \in Nat /\ m.total \in 1..MaxFrames
    BY <1>1, <2>1, CtapHidAssumption DEF HostRecs
  <2>5. f.tag.part = l + 1
    <3>1. f.num = l - 1
      BY <1>4 DEF InSequence
    <3>2. f.tag.part \in Nat
      BY <2>2, CtapHidAssumption DEF Tags
    <3>. HIDE DEF f, l
    <3>. QED BY <2>3, <2>4, <3>1, <3>2
  <2>6. LET new == Append(m.acc, f.tag) IN
        /\ new \in Seq(Tags) /\ Len(new) = l + 1
        /\ new = [i \in 1..Len(new) |-> Tag(m.cid, m.req, i, m.total)]
    BY <2>1, <2>2, <2>3, <2>4, <2>5, PrefixGrows DEF Prefix
  <2>7. l + 1 \in 1..m.total
    BY <2>1, <2>4
  <2>. QED BY <1>1, <1>4, <2>1, <2>2, <2>4, <2>5, <2>6, <2>7, CollectedInv
<1>. QED BY <1>3, <1>4 DEF ReadMore

----------------------------------------------------------------------------
(* Steps of the key, and of a host that sends.                             *)

\* Every host is in order after the step.
LEMMA AllGood ==
    ASSUME Inv, Chans', ChannelsDistinct', DeviceInv',
           host' \in [Hosts -> HostRecs], inbox' \in [Hosts -> Seq(Frames)], ran' \in [Hosts -> Nat],
           device' \in Devices, inits' \subseteq Hosts, taken' \in Cids \cup {NoCid}, wedged' \in BOOLEAN,
           \A g \in Hosts : Good(inbox'[g], host'[g], device', ran'[g])
    PROVE  Inv'
<1>1. TypeOK'
  BY DEF TypeOK, Good
<1>2. HostInv' /\ Results' /\ Sessions'
  BY DEF HostInv, Results, Sessions, Good
<1>. QED BY <1>1, <1>2 DEF Inv

LEMMA KeyStep ==
    ASSUME Inv, Chans', ChannelsDistinct', DeviceInv', UNCHANGED <<host, ran>>,
           inbox' \in [Hosts -> Seq(Frames)], \A g \in Hosts : Len(inbox'[g]) <= MaxInbox,
           device' \in Devices, inits' \subseteq Hosts, taken' \in Cids \cup {NoCid}, wedged' \in BOOLEAN,
           \A g \in Hosts : host[g].cid # NoCid => Session(inbox'[g], host[g], device', ran[g])
    PROVE  Inv'
<1>1. \A g \in Hosts : Good(inbox'[g], host'[g], device', ran'[g])
  BY HostGood DEF Good
<1>2. host' \in [Hosts -> HostRecs] /\ ran' \in [Hosts -> Nat]
  BY DEF Inv, TypeOK
<1>. QED BY <1>1, <1>2, AllGood

\* The key goes on without sending a report.
LEMMA KeyQuiet ==
    ASSUME Inv, DeviceInv', UNCHANGED <<host, ran, inbox>>,
           device' \in Devices, inits' \subseteq Hosts, taken' \in {taken, NoCid}, wedged' \in BOOLEAN,
           device'.cid \in {NoCid, device.cid, taken},
           \A g \in Hosts : host[g].cid # NoCid /\ host[g].cid = device.cid =>
               Session(inbox[g], host[g], device', ran[g])
    PROVE  Inv'
<1>1. Chans' /\ ChannelsDistinct'
  <2>1. device'.cid = NoCid \/ Used(device'.cid)
    BY DEF Used
  <2>2. \A h \in Hosts : /\ host'[h].cid \in {host[h].cid, NoCid}
                         /\ host'[h].st = "init" => host[h].st = "init"
    OBVIOUS
  <2>3. \A g \in Hosts : \A i \in 1..Len(inbox'[g]) : \E j \in 1..Len(inbox[g]) : inbox'[g][i] = inbox[g][j]
    OBVIOUS
  <2>. QED BY <2>1, <2>2, <2>3, ChannelsKept
<1>2. \A g \in Hosts : host[g].cid # NoCid => Session(inbox'[g], host[g], device', ran[g])
  <2>1. SUFFICES ASSUME NEW g \in Hosts, host[g].cid # NoCid
                 PROVE  Session(inbox[g], host[g], device', ran[g])
    OBVIOUS
  <2>2. CASE host[g].cid # device.cid
    <3>1. device'.cid # host[g].cid
      BY <2>1, <2>2 DEF Inv, ChannelsDistinct
    <3>2. Session(inbox[g], host[g], device, ran[g])
      BY <2>1 DEF Inv, Sessions
    <3>. QED BY <2>2, <3>1, <3>2, SessionElsewhere
  <2>. QED BY <2>1, <2>2
<1>3. inbox' \in [Hosts -> Seq(Frames)] /\ (\A g \in Hosts : Len(inbox'[g]) <= MaxInbox)
      /\ taken' \in Cids \cup {NoCid}
  BY DEF Inv, TypeOK
<1>. QED BY <1>1, <1>2, <1>3, KeyStep

\* The key sends a report of the channel it works for, of another program's or of
\* the broadcast channel.
LEMMA KeySends ==
    ASSUME Inv, DeviceInv', UNCHANGED <<host, ran, taken, wedged>>, inits' \subseteq Hosts,
           NEW f \in Frames, ~IsInit(f), f.cid \in {device.cid, taken, Broadcast}, inbox' = Delivered(f),
           device' \in Devices, device'.cid \in {NoCid, device.cid},
           \A g \in Hosts : host[g].cid # NoCid /\ host[g].cid = device.cid =>
               /\ Session(inbox[g], host[g], device', ran[g])
               /\ Session(Append(inbox[g], f), host[g], device', ran[g])
    PROVE  Inv'
<1>1. Chans' /\ ChannelsDistinct'
  <2>1. (device'.cid = NoCid \/ Used(device'.cid)) /\ Used(f.cid)
    BY DEF Used
  <2>2. \A h \in Hosts : /\ host'[h].cid \in {host[h].cid, NoCid}
                         /\ host'[h].st = "init" => host[h].st = "init"
    OBVIOUS
  <2>3. \A g \in Hosts : \A i \in 1..Len(inbox'[g]) :
            \/ \E j \in 1..Len(inbox[g]) : inbox'[g][i] = inbox[g][j]
            \/ ~IsInit(inbox'[g][i]) /\ Used(inbox'[g][i].cid)
    <3>1. TypeOK
      BY DEF Inv
    <3>2. SUFFICES ASSUME NEW g \in Hosts, NEW i \in 1..Len(Delivered(f)[g])
                   PROVE  \/ \E j \in 1..Len(inbox[g]) : Delivered(f)[g][i] = inbox[g][j]
                          \/ ~IsInit(Delivered(f)[g][i]) /\ Used(Delivered(f)[g][i].cid)
      OBVIOUS
    <3>3. \/ i \in 1..Len(inbox[g]) /\ Delivered(f)[g][i] = inbox[g][i]
          \/ Delivered(f)[g][i] = f
      BY <3>1, DeliveredFrames
    <3>. QED BY <2>1, <3>3
  <2>. QED BY <2>1, <2>2, <2>3, ChannelsKept
<1>2. /\ inbox' \in [Hosts -> Seq(Frames)]
      /\ \A g \in Hosts : inbox'[g] \in {inbox[g], Append(inbox[g], f)} /\ Len(inbox'[g]) <= MaxInbox
  BY DeliveredIs DEF Inv
<1>3. \A g \in Hosts : host[g].cid # NoCid => Session(inbox'[g], host[g], device', ran[g])
  <2>1. SUFFICES ASSUME NEW g \in Hosts, host[g].cid # NoCid
                 PROVE  Session(inbox'[g], host[g], device', ran[g])
    OBVIOUS
  <2>2. CASE host[g].cid # device.cid
    <3>1. device'.cid # host[g].cid /\ f.cid # host[g].cid
      BY <2>1, <2>2, CtapHidAssumption DEF Inv, ChannelsDistinct, TypeOK, HostRecs
    <3>2. Session(inbox[g], host[g], device, ran[g]) /\ inbox[g] \in Seq(Frames)
      BY <2>1 DEF Inv, Sessions, TypeOK
    <3>3. Session(inbox[g], host[g], device', ran[g])
      BY <2>2, <3>1, <3>2, SessionElsewhere
    <3>4. Session(Append(inbox[g], f), host[g], device', ran[g])
      BY <3>1, <3>2, <3>3, SessionAppend
    <3>. QED BY <1>2, <3>3, <3>4
  <2>. QED BY <1>2, <2>1, <2>2
<1>4. taken' \in Cids \cup {NoCid} /\ wedged' \in BOOLEAN
  BY DEF Inv, TypeOK
<1>. QED BY <1>1, <1>2, <1>3, <1>4, KeyStep

\* The key answers an INIT with a fresh channel.
LEMMA KeyGives ==
    ASSUME Inv, NEW who \in Hosts \cup {NoCid}, NEW c \in FreshCids,
           inbox' = Delivered(InitAnswer(who, c)), UNCHANGED <<host, ran, device, wedged>>,
           taken' = IF who = NoCid THEN c ELSE taken, inits' \subseteq Hosts,
           who = NoCid => device.phase # "other"
    PROVE  Inv'
<1>. DEFINE f == InitAnswer(who, c)
<1>1. c \in Cids
  BY DEF FreshCids
<1>2. f \in Frames /\ f.cid = Broadcast
  BY <1>1, CtapHidAssumption DEF InitAnswer, Frame, Tag, Frames, Tags
<1>3. Chans' /\ ChannelsDistinct'
  BY <1>2, ChannelsGiven
<1>. HIDE DEF f
<1>4. /\ inbox' \in [Hosts -> Seq(Frames)]
      /\ \A g \in Hosts : inbox'[g] \in {inbox[g], Append(inbox[g], f)} /\ Len(inbox'[g]) <= MaxInbox
  BY <1>2, DeliveredIs DEF Inv, f
<1>5. \A g \in Hosts : host[g].cid # NoCid => Session(inbox'[g], host[g], device', ran[g])
  <2>1. SUFFICES ASSUME NEW g \in Hosts, host[g].cid # NoCid
                 PROVE  Session(inbox'[g], host[g], device, ran[g])
    OBVIOUS
  <2>2. Session(inbox[g], host[g], device, ran[g]) /\ inbox[g] \in Seq(Frames)
    BY <2>1 DEF Inv, Sessions, TypeOK
  <2>3. f.cid # host[g].cid
    BY <1>2, <2>1, CtapHidAssumption DEF Inv, TypeOK, HostRecs
  <2>4. Session(Append(inbox[g], f), host[g], device, ran[g])
    BY <1>2, <2>2, <2>3, SessionAppend
  <2>. QED BY <1>4, <2>2, <2>4
<1>6. taken' \in Cids \cup {NoCid} /\ wedged' \in BOOLEAN /\ device' \in Devices /\ DeviceInv'
  BY <1>1 DEF Inv, TypeOK, DeviceInv
<1>. QED BY <1>3, <1>4, <1>5, <1>6, KeyStep

LEMMA IdleDeviceOK == IdleDevice \in Devices /\ IdleDevice.cid = NoCid /\ IdleDevice.phase = "idle"
BY CtapHidAssumption DEF IdleDevice, Devices

LEMMA ErrorFrameOK ==
    ASSUME NEW c \in Cids \cup {Broadcast}, NEW code \in {"busy", "fault"}
    PROVE  LET f == ErrorFrame(c, code) IN
           f \in Frames /\ ~IsInit(f) /\ ~IsAnswer(f) /\ f.cid = c /\ f.cmd = code
BY CtapHidAssumption DEF ErrorFrame, Frame, NoTag, Tag, Frames, Tags, IsInit, IsAnswer

\* A report that is neither an answer nor final, on the channel the key works for.
LEMMA SessionHears ==
    ASSUME NEW q \in Seq(Frames), NEW m, NEW d, NEW e, NEW k, NEW f \in Frames,
           Session(q, m, d, k), d.cid = m.cid, d.phase \in {"take", "work"},
           f.cid = m.cid, ~IsAnswer(f), f.cmd # "busy", e = d \/ e.cid # m.cid
    PROVE  Session(q, m, e, k) /\ Session(Append(q, f), m, e, k)
<1>. DEFINE r == Append(q, f)
<1>1. /\ Len(r) = Len(q) + 1 /\ Len(q) \in Nat /\ r[Len(q) + 1] = f
      /\ \A i \in 1..Len(q) : r[i] = q[i]
  BY AppendAt
<1>. HIDE DEF r
<1>2. \A i \in 1..Len(q) : q[i].cid = m.cid => ~IsAnswer(q[i]) /\ ~IsFinal(q[i]) /\ q[i].cmd # "busy"
  BY DEF Session, FrameInv, IsFinal
<1>3. \A i \in 1..Len(r) : r[i].cid = m.cid => ~IsAnswer(r[i]) /\ ~IsFinal(r[i]) /\ r[i].cmd # "busy"
  <2>1. \A i \in 1..Len(r) : i \in 1..Len(q) \/ i = Len(q) + 1
    BY <1>1
  <2>. QED BY <1>1, <1>2, <2>1 DEF IsFinal
<1>4. /\ \A i \in 1..Len(q) : q[i].cid = m.cid => FrameInv(q, i, m, e, k)
      /\ \A i \in 1..Len(r) : r[i].cid = m.cid => FrameInv(r, i, m, e, k)
  BY <1>2, <1>3 DEF FrameInv
<1>5. m.st \notin {"open", "sleep", "more"} /\ ~(m.st = "send" /\ m.left = m.size)
  BY DEF Session, Clear, WorkInv
<1>6. e.cid = m.cid => WorkInv(m, e, k)
  BY DEF Session
<1>. QED BY <1>4, <1>5, <1>6 DEF Session, r

LEMMA AnswerInitInv ==
    ASSUME Inv, AnswerInit, UNCHANGED <<host, ran>>
    PROVE  Inv'
<1>1. PICK h \in inits :
        /\ \/ \E c \in FreshCids : inbox' = Delivered(InitAnswer(h, c))
           \/ inbox' = Delivered(ErrorFrame(Broadcast, "fault"))
        /\ inits' = inits \ {h}
        /\ UNCHANGED <<device, taken, wedged>>
  BY DEF AnswerInit
<1>2. h \in Hosts /\ h # NoCid /\ inits' \subseteq Hosts
  BY <1>1, CtapHidAssumption DEF Inv, TypeOK
<1>3. CASE \E c \in FreshCids : inbox' = Delivered(InitAnswer(h, c))
  BY <1>1, <1>2, <1>3, KeyGives
<1>4. CASE inbox' = Delivered(ErrorFrame(Broadcast, "fault"))
  <2>. DEFINE f == ErrorFrame(Broadcast, "fault")
  <2>1. f \in Frames /\ ~IsInit(f) /\ f.cid = Broadcast
    BY ErrorFrameOK
  <2>2. device' \in Devices /\ DeviceInv'
    BY <1>1 DEF Inv, TypeOK, DeviceInv
  <2>. HIDE DEF f
  <2>3. ASSUME NEW g \in Hosts, host[g].cid # NoCid
        PROVE  Session(inbox[g], host[g], device', ran[g]) /\ Session(Append(inbox[g], f), host[g], device', ran[g])
    <3>1. Session(inbox[g], host[g], device, ran[g]) /\ inbox[g] \in Seq(Frames) /\ f.cid # host[g].cid
      BY <2>1, <2>3, CtapHidAssumption DEF Inv, Sessions, TypeOK, HostRecs
    <3>. QED BY <1>1, <2>1, <3>1, SessionAppend
  <2>4. inbox' = Delivered(f)
    BY <1>4 DEF f
  <2>. QED BY <1>1, <1>2, <2>1, <2>2, <2>3, <2>4, KeySends
<1>. QED BY <1>1, <1>3, <1>4

LEMMA KeepaliveInv ==
    ASSUME Inv, Keepalive, UNCHANGED <<host, ran>>
    PROVE  Inv'
<1>. DEFINE f == Frame(device.cid, "keepalive", 0, NoTag)
<1>1. device.phase = "work" /\ device.cid \in Cids
  BY DEF Keepalive, Inv, DeviceInv, TypeOK, Devices
<1>2. f \in Frames /\ ~IsInit(f) /\ ~IsAnswer(f) /\ f.cid = device.cid /\ f.cmd # "busy"
  BY <1>1, CtapHidAssumption DEF Frame, NoTag, Tag, Frames, Tags, IsInit, IsAnswer
<1>3. inbox' = Delivered(f) /\ UNCHANGED <<device, inits, taken, wedged>>
  BY DEF Keepalive
<1>. HIDE DEF f
<1>4. device' \in Devices /\ DeviceInv' /\ inits' \subseteq Hosts
  BY <1>3 DEF Inv, TypeOK, DeviceInv
<1>5. ASSUME NEW g \in Hosts, host[g].cid # NoCid, host[g].cid = device.cid
      PROVE  Session(inbox[g], host[g], device', ran[g]) /\ Session(Append(inbox[g], f), host[g], device', ran[g])
  <2>1. Session(inbox[g], host[g], device, ran[g]) /\ inbox[g] \in Seq(Frames)
    BY <1>5 DEF Inv, Sessions, TypeOK
  <2>. QED BY <1>1, <1>2, <1>3, <1>5, <2>1, SessionHears
<1>. QED BY <1>2, <1>3, <1>4, <1>5, KeySends

LEMMA DeviceFailsInv ==
    ASSUME Inv, DeviceFails, UNCHANGED <<host, ran>>
    PROVE  Inv'
<1>. DEFINE f == ErrorFrame(device.cid, "fault")
<1>1. device.phase \in {"take", "work"} /\ device.cid \in Cids
  BY DEF DeviceFails, Inv, DeviceInv, TypeOK, Devices
<1>2. f \in Frames /\ ~IsInit(f) /\ ~IsAnswer(f) /\ f.cid = device.cid /\ f.cmd = "fault"
  BY <1>1, ErrorFrameOK
<1>3. inbox' = Delivered(f) /\ UNCHANGED <<inits, taken, wedged>> /\ device' = IdleDevice
  BY DEF DeviceFails
<1>. HIDE DEF f
<1>4. device' \in Devices /\ DeviceInv' /\ inits' \subseteq Hosts /\ device'.cid = NoCid
  BY <1>3, IdleDeviceOK DEF Inv, TypeOK, DeviceInv
<1>5. ASSUME NEW g \in Hosts, host[g].cid # NoCid, host[g].cid = device.cid
      PROVE  Session(inbox[g], host[g], device', ran[g]) /\ Session(Append(inbox[g], f), host[g], device', ran[g])
  <2>1. Session(inbox[g], host[g], device, ran[g]) /\ inbox[g] \in Seq(Frames)
    BY <1>5 DEF Inv, Sessions, TypeOK
  <2>. QED BY <1>1, <1>2, <1>4, <1>5, <2>1, SessionHears
<1>. QED BY <1>2, <1>3, <1>4, <1>5, KeySends

LEMMA StartAnswerInv ==
    ASSUME Inv, StartAnswer, UNCHANGED <<host, ran>>
    PROVE  Inv'
<1>1. PICK n \in 1..(MaxFrames + 1) : device' = Device(device.cid, "answer", device.req, 1, n)
  BY DEF StartAnswer
<1>2. device.phase = "work" /\ device \in Devices /\ UNCHANGED <<inbox, inits, taken, wedged>> /\ inits' \subseteq Hosts
      /\ wedged' \in BOOLEAN /\ device.cid # NoCid /\ ~wedged
  BY DEF StartAnswer, Inv, TypeOK, DeviceInv
<1>3. device'.cid = device.cid /\ device'.phase = "answer" /\ device'.req = device.req
      /\ device'.got = 1 /\ device'.size = n
  BY <1>1 DEF Device
<1>4. device' \in Devices
  <2>1. n \in 0..(MaxFrames + 1) /\ 1 \in 0..(MaxFrames + 1)
    BY CtapHidAssumption
  <2>. QED BY <1>1, <1>2, <2>1 DEF Devices, Device
<1>5. DeviceInv'
  <2>1. 1 \in 1..n
    BY CtapHidAssumption
  <2>. QED BY <1>2, <1>3, <2>1 DEF DeviceInv
<1>6. ASSUME NEW g \in Hosts, host[g].cid # NoCid, host[g].cid = device.cid
      PROVE  Session(inbox[g], host[g], device', ran[g])
  <2>. DEFINE q == inbox[g]  m == host[g]  k == ran[g]
  <2>1. Session(q, m, device, k) /\ WorkInv(m, device, k)
    BY <1>6 DEF Inv, Sessions, Session
  <2>2. \A i \in 1..Len(q) : q[i].cid = m.cid => ~IsAnswer(q[i]) /\ ~IsFinal(q[i]) /\ q[i].cmd # "busy"
    BY <1>2, <1>6, <2>1 DEF Session, FrameInv, IsFinal
  <2>3. \A i \in 1..Len(q) : q[i].cid = m.cid => FrameInv(q, i, m, device', k)
    BY <2>2 DEF FrameInv
  <2>4. m.st \notin {"open", "sleep", "more"} /\ ~(m.st = "send" /\ m.left = m.size)
    BY <1>2, <1>6, <2>1 DEF Session, Clear, WorkInv
  <2>5. WorkInv(m, device', k)
    BY <1>2, <1>3, <2>1, <2>4 DEF WorkInv
  <2>. QED BY <2>3, <2>4, <2>5 DEF Session
<1>. QED BY <1>2, <1>3, <1>4, <1>5, <1>6, KeyQuiet

LEMMA WedgeInv ==
    ASSUME Inv, Wedge, UNCHANGED <<host, ran>>
    PROVE  Inv'
<1>1. UNCHANGED inbox /\ device' = IdleDevice /\ inits' = {} /\ taken' = NoCid /\ wedged' = TRUE
  BY DEF Wedge
<1>2. device' \in Devices /\ device'.cid = NoCid /\ DeviceInv' /\ inits' \subseteq Hosts
  BY <1>1, IdleDeviceOK DEF DeviceInv
<1>3. ASSUME NEW g \in Hosts, host[g].cid # NoCid, host[g].cid = device.cid
      PROVE  Session(inbox[g], host[g], device', ran[g])
  <2>1. Session(inbox[g], host[g], device, ran[g])
    BY <1>3 DEF Inv, Sessions
  <2>. QED BY <1>2, <1>3, <2>1, SessionElsewhere
<1>. QED BY <1>1, <1>2, <1>3, KeyQuiet

LEMMA OthersOpenInv ==
    ASSUME Inv, OthersOpen, UNCHANGED <<host, ran>>
    PROVE  Inv'
<1>1. PICK c \in FreshCids : taken' = c /\ inbox' = Delivered(InitAnswer(NoCid, c))
  BY DEF OthersOpen
<1>2. device.phase # "other" /\ UNCHANGED <<device, inits, wedged>> /\ inits' \subseteq Hosts
  BY DEF OthersOpen, Inv, TypeOK
<1>. QED BY <1>1, <1>2, KeyGives

LEMMA OthersWorkInv ==
    ASSUME Inv, OthersWork, ~wedged, UNCHANGED <<host, ran>>
    PROVE  Inv'
<1>1. taken \in Cids /\ taken # NoCid /\ UNCHANGED <<inits, taken, wedged>> /\ inits' \subseteq Hosts
      /\ wedged' \in BOOLEAN /\ device \in Devices
  BY DEF OthersWork, Inv, TypeOK
<1>2. \A g \in Hosts : host[g].cid # NoCid => host[g].cid # taken
  BY DEF Inv, ChannelsDistinct
<1>3. CASE device.phase = "idle" /\ device' = Device(taken, "other", 0, 0, 0) /\ UNCHANGED inbox
  <2>1. device' \in Devices /\ device'.cid = taken /\ device'.phase = "other"
    BY <1>1, <1>3, CtapHidAssumption DEF Device, Devices
  <2>2. DeviceInv' /\ device.cid = NoCid
    BY <1>1, <1>3, <2>1 DEF DeviceInv, Inv
  <2>. QED BY <1>1, <1>3, <2>1, <2>2, KeyQuiet
<1>4. CASE device.phase = "other" /\ device' = IdleDevice /\ UNCHANGED inbox
  <2>1. device' \in Devices /\ device'.cid = NoCid /\ device'.phase = "idle"
    BY <1>4, IdleDeviceOK
  <2>2. DeviceInv' /\ device.cid = taken
    BY <1>1, <1>4, <2>1 DEF DeviceInv, Inv
  <2>. QED BY <1>1, <1>2, <1>4, <2>1, <2>2, KeyQuiet
<1>5. CASE /\ device.phase = "other" /\ UNCHANGED device
           /\ \E f \in {Frame(taken, "cbor", 1, NoTag), Frame(taken, "cont", 0, NoTag),
                        Frame(taken, "keepalive", 0, NoTag)} : inbox' = Delivered(f)
  <2>1. PICK f \in {Frame(taken, "cbor", 1, NoTag), Frame(taken, "cont", 0, NoTag),
                    Frame(taken, "keepalive", 0, NoTag)} : inbox' = Delivered(f)
    BY <1>5
  <2>2. f \in Frames /\ ~IsInit(f) /\ f.cid = taken
    BY <1>1, CtapHidAssumption DEF Frame, NoTag, Tag, Frames, Tags, IsInit
  <2>3. DeviceInv' /\ device' \in Devices /\ device.cid = taken
    BY <1>1, <1>5 DEF DeviceInv, Inv
  <2>. QED BY <1>1, <1>2, <1>5, <2>1, <2>2, <2>3, KeySends
<1>. QED BY <1>3, <1>4, <1>5 DEF OthersWork

\* The key sends the next frame of its answer.
LEMMA SessionAnswered ==
    ASSUME NEW q \in Seq(Frames), NEW m, NEW d, NEW e, NEW k, NEW f \in Frames,
           Session(q, m, d, k), d.cid = m.cid, d.phase = "answer", d.got \in 1..d.size, d.size \in Nat,
           f = AnswerFrame(d.cid, d.req, d.got, d.size), f.cid = m.cid, IsAnswer(f),
           f.tag.part = d.got, f.tag.of = d.size,
           \/ d.got = d.size /\ e.cid # m.cid
           \/ d.got # d.size /\ e = Device(d.cid, "answer", d.req, d.got + 1, d.size)
    PROVE  Session(q, m, e, k) /\ Session(Append(q, f), m, e, k)
<1>. DEFINE r == Append(q, f)
<1>1. /\ Len(r) = Len(q) + 1 /\ Len(q) \in Nat /\ r[Len(q) + 1] = f
      /\ \A i \in 1..Len(q) : r[i] = q[i]
  BY AppendAt
<1>2. WorkInv(m, d, k) /\ d.req = m.req /\ k = 1
  BY DEF Session, WorkInv
<1>. HIDE DEF r
<1>3. \A i \in 1..Len(q) : q[i].cid = m.cid =>
          /\ q[i].cmd # "busy" /\ ~IsFinal(q[i])
          /\ IsAnswer(q[i]) =>
                /\ q[i].tag.part \in 1..q[i].tag.of
                /\ q[i] = AnswerFrame(m.cid, m.req, q[i].tag.part, q[i].tag.of)
                /\ q[i].tag.of = d.size /\ q[i].tag.part < d.got
  BY DEF Session, FrameInv, IsFinal
<1>4. f.cmd # "busy" /\ f = AnswerFrame(m.cid, m.req, f.tag.part, f.tag.of) /\ f.tag.part \in 1..f.tag.of
  BY <1>2 DEF IsAnswer
<1>5. e.cid = m.cid => /\ d.got # d.size /\ e.phase = "answer" /\ e.size = d.size /\ e.got = d.got + 1
                       /\ e.req = d.req
  BY DEF Device
<1>6. m.st = "more" => m.total = d.size
  BY <1>2 DEF WorkInv
<1>7. m.st \notin {"open", "sleep"} /\ ~(m.st = "send" /\ m.left = m.size)
  BY DEF Session, Clear
<1>8. e.cid = m.cid => WorkInv(m, e, k)
  BY <1>2, <1>5 DEF WorkInv
<1>9. \A i \in 1..Len(q) : q[i].cid = m.cid => FrameInv(q, i, m, e, k)
  BY <1>2, <1>3, <1>5, <1>6 DEF FrameInv
<1>10. ASSUME NEW i \in 1..Len(r), r[i].cid = m.cid PROVE FrameInv(r, i, m, e, k)
  <2>1. \A j \in 1..Len(r) : r[j].cid = m.cid =>
          /\ r[j].cmd # "busy"
          /\ IsAnswer(r[j]) =>
                /\ r[j].tag.part \in 1..r[j].tag.of
                /\ r[j] = AnswerFrame(m.cid, m.req, r[j].tag.part, r[j].tag.of)
                /\ r[j].tag.of = d.size /\ r[j].tag.part <= d.got
    <3>1. \A j \in 1..Len(r) : (j \in 1..Len(q) /\ r[j] = q[j]) \/ r[j] = f
      <4>1. \A j \in 1..Len(r) : j \in 1..Len(q) \/ j = Len(q) + 1
        BY <1>1
      <4>. QED BY <1>1, <4>1
    <3>. QED BY <1>3, <1>4, <3>1
  <2>2. IsFinal(r[i]) => i = Len(q) + 1 /\ r[i] = f
    <3>1. i \in 1..Len(q) \/ i = Len(q) + 1
      BY <1>1
    <3>. QED BY <1>1, <1>3, <1>10, <3>1
  <2>3. IsFinal(r[i]) => e.cid # m.cid /\ \A j \in (i + 1)..Len(r) : r[j].cid # m.cid
    <3>1. IsFinal(f) => d.got = d.size
      BY <1>4 DEF IsFinal
    <3>2. \A j \in (Len(q) + 1 + 1)..Len(r) : FALSE
      BY <1>1
    <3>. QED BY <1>5, <2>2, <3>1, <3>2
  <2>4. IsAnswer(r[i]) /\ e.cid = m.cid => r[i].tag.part < e.got
    BY <1>5, <1>10, <2>1
  <2>. QED BY <1>2, <1>5, <1>6, <1>10, <2>1, <2>3, <2>4 DEF FrameInv
<1>11. m.st = "more" => k = 1 /\ Prefix(m) /\ Len(m.acc) \in 1..(m.total - 1)
  BY DEF Session
<1>. QED BY <1>7, <1>8, <1>9, <1>10, <1>11 DEF Session, r

LEMMA SendAnswerInv ==
    ASSUME Inv, SendAnswer, UNCHANGED <<host, ran>>
    PROVE  Inv'
<1>. DEFINE d == device
            f == AnswerFrame(d.cid, d.req, d.got, d.size)
<1>1. /\ d.phase = "answer" /\ d.cid \in Cids /\ d.got \in 1..d.size /\ d.req \in 0..1
      /\ d.size \in 0..(MaxFrames + 1) /\ ~wedged /\ d \in Devices
  BY DEF SendAnswer, Inv, DeviceInv, TypeOK, Devices
<1>2. f \in Frames /\ ~IsInit(f) /\ IsAnswer(f) /\ f.cid = d.cid /\ f.tag.part = d.got /\ f.tag.of = d.size
  <2>1. d.got \in 0..(MaxFrames + 1) /\ d.size \in Nat /\ (d.got # 1 => d.got - 2 \in Nat) /\ d.got \in Nat
    BY <1>1, CtapHidAssumption
  <2>2. Tag(d.cid, d.req, d.got, d.size) \in Tags
    BY <1>1, <2>1 DEF Tag, Tags
  <2>. QED BY <1>1, <2>1, <2>2 DEF AnswerFrame, Frame, Frames, IsInit, IsAnswer, Tag
<1>3. /\ inbox' = Delivered(f) /\ UNCHANGED <<inits, taken, wedged>> /\ inits' \subseteq Hosts
      /\ device' = IF d.got = d.size THEN IdleDevice ELSE Device(d.cid, "answer", d.req, d.got + 1, d.size)
  BY DEF SendAnswer, Inv, TypeOK
<1>4. device' \in Devices /\ DeviceInv' /\ device'.cid \in {NoCid, d.cid} /\ d.cid # NoCid
      /\ (d.got = d.size => device'.cid = NoCid)
  <2>0. d.cid # NoCid
    BY <1>1, CtapHidAssumption
  <2>1. CASE d.got = d.size
    BY <1>3, <2>0, <2>1, IdleDeviceOK DEF DeviceInv
  <2>2. CASE d.got # d.size
    <3>1. d.got + 1 \in 1..d.size /\ d.got + 1 \in 0..(MaxFrames + 1)
      BY <1>1, <2>2, CtapHidAssumption
    <3>2. device' = Device(d.cid, "answer", d.req, d.got + 1, d.size)
      BY <1>3, <2>2
    <3>3. device' \in Devices /\ device'.cid = d.cid /\ device'.phase = "answer"
          /\ device'.got = d.got + 1 /\ device'.size = d.size
      BY <1>1, <3>1, <3>2 DEF Device, Devices
    <3>4. DeviceInv'
      BY <1>1, <1>3, <2>0, <3>1, <3>3 DEF DeviceInv
    <3>. QED BY <2>0, <2>2, <3>3, <3>4
  <2>. QED BY <2>1, <2>2
<1>. HIDE DEF f
<1>5. ASSUME NEW g \in Hosts, host[g].cid # NoCid, host[g].cid = device.cid
      PROVE  Session(inbox[g], host[g], device', ran[g]) /\ Session(Append(inbox[g], f), host[g], device', ran[g])
  <2>1. Session(inbox[g], host[g], d, ran[g]) /\ inbox[g] \in Seq(Frames)
    BY <1>5 DEF Inv, Sessions, TypeOK
  <2>2. f = AnswerFrame(d.cid, d.req, d.got, d.size) /\ d.size \in Nat
    BY <1>1, CtapHidAssumption DEF f
  <2>3. \/ d.got = d.size /\ device'.cid # host[g].cid
        \/ d.got # d.size /\ device' = Device(d.cid, "answer", d.req, d.got + 1, d.size)
    BY <1>3, <1>4, <1>5
  <2>. QED BY <1>1, <1>2, <1>5, <2>1, <2>2, <2>3, SessionAnswered
<1>. QED BY <1>2, <1>3, <1>4, <1>5, KeySends

\* The host's record after a frame is written.
Wrote(m) == IF m.left = 1 THEN [m EXCEPT !.left = 0, !.st = "recv", !.age = 0]
                          ELSE [m EXCEPT !.left = @ - 1]
LEMMA WroteIs ==
    ASSUME NEW m \in HostRecs, m.st = "send", HostAt(m)
    PROVE  LET n == Wrote(m) IN
           /\ n \in HostRecs /\ n.cid = m.cid /\ n.req = m.req /\ n.size = m.size
           /\ n.left = m.left - 1 /\ n.left < m.size /\ m.left \in 1..m.size /\ m.size \in 1..MaxFrames
           /\ n.st = (IF m.left = 1 THEN "recv" ELSE "send")
           /\ n.acc = m.acc /\ n.total = m.total /\ n.result = m.result /\ HostAt(n)
<1>. DEFINE l == m.left - 1
<1>1. m.left \in 1..m.size /\ m.size \in 0..MaxFrames /\ m.left \in 0..MaxFrames /\ MaxFrames \in Nat
  BY CtapHidAssumption DEF HostAt, HostRecs
<1>2. l \in 0..MaxFrames /\ l < m.size /\ 0 \in 0..MaxFrames /\ 0 \in 0..Timeout /\ m.size \in 1..MaxFrames
      /\ (m.left = 1 <=> l = 0) /\ (m.left # 1 => l \in 1..m.size)
  BY <1>1, CtapHidAssumption
<1>3. CASE m.left = 1
  <2>. DEFINE n == [m EXCEPT !.left = 0, !.st = "recv", !.age = 0]
  <2>1. /\ n \in HostRecs /\ n.cid = m.cid /\ n.req = m.req /\ n.size = m.size /\ n.left = 0
        /\ n.st = "recv" /\ n.acc = m.acc /\ n.total = m.total /\ n.result = m.result
    BY <1>2 DEF HostRecs
  <2>2. Wrote(m) = n
    BY <1>3 DEF Wrote
  <2>. HIDE DEF n
  <2>3. HostAt(n)
    BY <1>2, <2>1 DEF HostAt
  <2>. QED BY <1>1, <1>2, <1>3, <2>1, <2>2, <2>3
<1>4. CASE m.left # 1
  <2>. DEFINE n == [m EXCEPT !.left = l]
  <2>2. Wrote(m) = n
    BY <1>4 DEF Wrote
  <2>3. l = m.left - 1
    OBVIOUS
  <2>. HIDE DEF l
  <2>1. /\ n \in HostRecs /\ n.cid = m.cid /\ n.req = m.req /\ n.size = m.size /\ n.left = l
        /\ n.st = "send" /\ n.acc = m.acc /\ n.total = m.total /\ n.result = m.result
    BY <1>2 DEF HostRecs
  <2>. HIDE DEF n
  <2>4. HostAt(n)
    BY <1>2, <1>4, <2>1 DEF HostAt
  <2>. QED BY <1>1, <1>2, <1>4, <2>1, <2>2, <2>3, <2>4
<1>. QED BY <1>3, <1>4

\* What a written frame makes of the host, the key and the count: the session stays in order.
LEMMA SendFrameInv ==
    ASSUME Inv, NEW h \in Hosts, SendFrame(h)
    PROVE  Inv'
<1>. DEFINE m == host[h]  n == Wrote(m)  q == inbox[h]  k == ran[h]  d == device  c == m.cid
<1>1. m.st = "send" /\ m \in HostRecs /\ q \in Seq(Frames) /\ Good(q, m, d, k) /\ d \in Devices
  BY HostGood DEF SendFrame, Inv, TypeOK
<1>2. /\ n \in HostRecs /\ n.cid = c /\ n.req = m.req /\ n.size = m.size
      /\ n.left = m.left - 1 /\ n.left < m.size /\ m.left \in 1..m.size /\ m.size \in 1..MaxFrames
      /\ n.st = (IF m.left = 1 THEN "recv" ELSE "send")
      /\ n.acc = m.acc /\ n.total = m.total /\ n.result = m.result /\ HostAt(n)
  BY <1>1, WroteIs DEF Good
<1>3. host' = [host EXCEPT ![h] = n] /\ UNCHANGED <<inits, taken, wedged>>
  BY DEF SendFrame, Wrote
<1>4. c \in Cids /\ c # NoCid /\ m.req \in 0..1 /\ Session(q, m, d, k) /\ k \in Nat
      /\ m.result \notin {"busy", "ok"}
  BY <1>1 DEF Good, HostAt, HostRecs, ResultAt
<1>5. \A g \in Hosts : g # h => host[g].cid # c
  BY <1>4 DEF Inv, ChannelsDistinct
<1>. HIDE DEF n
<1>6. host'[h] = n /\ host' \in [Hosts -> HostRecs] /\ \A g \in Hosts : g # h => host'[g] = host[g]
  BY <1>2, <1>3 DEF Inv, TypeOK
<1>7. ASSUME NEW x, x <= 1 PROVE ResultAt(n, x)
  BY <1>2, <1>4, <1>7 DEF ResultAt
<1>8. n.left <= n.size /\ Len(n.acc) <= n.total /\ ~(n.st = "send" /\ n.left = n.size) /\ n.st # "more"
      /\ n.st \notin {"open", "sleep"}
  BY <1>1, <1>2, CtapHidAssumption DEF Good
\* The step is in order if the host is, and the others hear only of other channels.
<1>9. ASSUME inbox' \in [Hosts -> Seq(Frames)], \A g \in Hosts : Len(inbox'[g]) <= MaxInbox,
             ran' \in [Hosts -> Nat], device' \in Devices, DeviceInv', device' = d \/ device'.cid = c,
             \A g \in Hosts : g # h => ran'[g] = ran[g],
             ran'[h] <= 1, Session(inbox'[h], n, device', ran'[h]),
             \/ inbox' = inbox
             \/ inbox' = Delivered(ErrorFrame(c, "busy"))
      PROVE  Inv'
  <2>. DEFINE f == ErrorFrame(c, "busy")
  <2>1. f \in Frames /\ ~IsInit(f) /\ f.cid = c
    BY <1>4, ErrorFrameOK
  <2>2. Used(c) /\ Used(device'.cid)
    BY <1>9 DEF Used
  <2>. HIDE DEF f
  <2>3. \A g \in Hosts : \A i \in 1..Len(inbox'[g]) :
            \/ \E j \in 1..Len(inbox[g]) : inbox'[g][i] = inbox[g][j]
            \/ ~IsInit(inbox'[g][i]) /\ Used(inbox'[g][i].cid)
    <3>1. CASE inbox' = inbox
      BY <3>1
    <3>2. CASE inbox' = Delivered(f)
      <4>1. TypeOK
        BY DEF Inv
      <4>2. SUFFICES ASSUME NEW g \in Hosts, NEW i \in 1..Len(Delivered(f)[g])
                     PROVE  \/ \E j \in 1..Len(inbox[g]) : Delivered(f)[g][i] = inbox[g][j]
                            \/ ~IsInit(Delivered(f)[g][i]) /\ Used(Delivered(f)[g][i].cid)
        BY <3>2
      <4>3. \/ i \in 1..Len(inbox[g]) /\ Delivered(f)[g][i] = inbox[g][i]
            \/ Delivered(f)[g][i] = f
        BY <2>1, <4>1, DeliveredFrames
      <4>. QED BY <2>1, <2>2, <4>3
    <3>. QED BY <1>9, <3>1, <3>2 DEF f
  <2>4. \A g \in Hosts : /\ host'[g].cid \in {host[g].cid, NoCid}
                         /\ host'[g].st = "init" => host[g].st = "init"
    BY <1>2, <1>6
  <2>5. Chans' /\ ChannelsDistinct'
    BY <1>3, <2>2, <2>3, <2>4, ChannelsKept
  <2>6. ASSUME NEW g \in Hosts PROVE Good(inbox'[g], host'[g], device', ran'[g])
    <3>1. CASE g = h
      <4>1. ran'[h] \in Nat /\ inbox'[h] \in Seq(Frames) /\ Len(inbox'[h]) <= MaxInbox
        BY <1>9
      <4>2. ResultAt(n, ran'[h])
        BY <1>7, <1>9
      <4>. QED BY <1>2, <1>6, <1>8, <1>9, <3>1, <4>1, <4>2 DEF Good
    <3>2. CASE g # h
      <4>1. Good(inbox[g], host[g], d, ran[g]) /\ host'[g] = host[g] /\ ran'[g] = ran[g]
        BY <1>6, <1>9, <3>2, HostGood
      <4>2. inbox'[g] \in Seq(Frames) /\ Len(inbox'[g]) <= MaxInbox /\ inbox[g] \in Seq(Frames)
        BY <1>9, <4>1 DEF Good
      <4>3. ASSUME host[g].cid # NoCid PROVE Session(inbox'[g], host[g], device', ran[g])
        <5>1. Session(inbox[g], host[g], d, ran[g])
          BY <4>1, <4>3 DEF Good
        <5>2. Session(inbox[g], host[g], device', ran[g])
          <6>1. CASE device'.cid = host[g].cid
            <7>1. device' = d
              BY <1>5, <1>9, <3>2, <6>1
            <7>. QED BY <5>1, <7>1
          <6>2. CASE device'.cid # host[g].cid
            BY <5>1, <6>2, SessionElsewhere
          <6>. QED BY <6>1, <6>2
        <5>3. f.cid # host[g].cid
          BY <1>5, <2>1, <3>2
        <5>4. Session(Append(inbox[g], f), host[g], device', ran[g])
          BY <2>1, <4>2, <5>2, <5>3, SessionAppend
        <5>5. inbox'[g] \in {inbox[g], Append(inbox[g], f)}
          BY <1>9, <2>1, DeliveredIs DEF Inv, f
        <5>. QED BY <5>2, <5>4, <5>5
      <4>. QED BY <4>1, <4>2, <4>3 DEF Good
    <3>. QED BY <3>1, <3>2
  <2>7. inits' \subseteq Hosts /\ taken' \in Cids \cup {NoCid} /\ wedged' \in BOOLEAN
    BY <1>3 DEF Inv, TypeOK
  <2>. QED BY <1>6, <1>9, <2>5, <2>6, <2>7, AllGood
\* Nothing the key or the queue holds changes.
<1>10. /\ inbox \in [Hosts -> Seq(Frames)] /\ (\A g \in Hosts : Len(inbox[g]) <= MaxInbox)
       /\ ran \in [Hosts -> Nat] /\ k <= 1
       /\ (d.cid = NoCid <=> d.phase = "idle") /\ (wedged => d.phase = "idle")
  BY <1>1 DEF Inv, TypeOK, Good, ResultAt, DeviceInv
<1>11. UNCHANGED device => DeviceInv' /\ device' \in Devices
  BY <1>1, <1>3 DEF Inv, DeviceInv
<1>12. CASE m.left = m.size
  <2>1. Clear(q, c, d) /\ k = 0 /\ TakeFirst(c, m.req, m.size)
    BY <1>1, <1>4, <1>12 DEF Session, SendFrame
  <2>2. Session(q, n, d, 0)
    BY <1>2, <1>8, <2>1, SessionClear
  <2>3. CASE UNCHANGED <<device, ran, inbox>>
    BY <1>9, <1>10, <1>11, <2>1, <2>2, <2>3
  <2>4. CASE inbox' = Delivered(ErrorFrame(c, "busy")) /\ UNCHANGED <<device, ran>>
    <3>. DEFINE f == ErrorFrame(c, "busy")
                r == Append(q, f)
    <3>1. f \in Frames /\ ~IsAnswer(f) /\ f.cid = c /\ f.cmd = "busy"
      BY <1>4, ErrorFrameOK
    <3>2. inbox' = Delivered(f)
      BY <2>4
    <3>. HIDE DEF f
    <3>3. /\ Len(r) = Len(q) + 1 /\ Len(q) \in Nat /\ r[Len(q) + 1] = f
          /\ \A i \in 1..Len(q) : r[i] = q[i]
      BY <1>1, <3>1, AppendAt
    <3>. HIDE DEF r
    <3>4. \A i \in 1..Len(r) : r[i].cid = c => i = Len(q) + 1 /\ r[i] = f
      <4>1. \A i \in 1..Len(r) : i \in 1..Len(q) \/ i = Len(q) + 1
        BY <3>3
      <4>. QED BY <2>1, <3>3, <4>1 DEF Clear
    <3>5. \A i \in 1..Len(r) : r[i].cid = c => FrameInv(r, i, n, d, 0)
      <4>1. \A j \in (Len(q) + 1 + 1)..Len(r) : FALSE
        BY <3>3
      <4>. QED BY <1>2, <2>1, <3>1, <3>4, <4>1 DEF FrameInv, Clear
    <3>6. Session(r, n, d, 0)
      BY <1>2, <1>8, <2>1, <3>5 DEF Session, Clear
    <3>7. /\ inbox' \in [Hosts -> Seq(Frames)]
          /\ \A g \in Hosts : inbox'[g] \in {inbox[g], Append(inbox[g], f)} /\ Len(inbox'[g]) <= MaxInbox
      BY <3>1, <3>2, DeliveredIs DEF Inv
    <3>8. Session(inbox'[h], n, device', ran'[h])
      BY <2>1, <2>2, <2>4, <3>6, <3>7 DEF r
    <3>. QED BY <1>9, <1>10, <1>11, <2>1, <2>4, <3>7, <3>8
  <2>5. CASE /\ ~wedged /\ d.phase = "idle" /\ UNCHANGED inbox
             /\ device' = Device(c, IF m.size = 1 THEN "work" ELSE "take", m.req, 1, m.size)
             /\ IF m.size = 1 THEN Runs(c, m.req) ELSE UNCHANGED ran
    <3>1. /\ device'.cid = c /\ device'.req = m.req /\ device'.got = 1 /\ device'.size = m.size
          /\ device'.phase = (IF m.size = 1 THEN "work" ELSE "take")
      BY <2>5 DEF Device
    <3>2. device' \in Devices
      <4>1. m.size \in 0..(MaxFrames + 1) /\ 1 \in 0..(MaxFrames + 1)
        BY <1>2, CtapHidAssumption
      <4>. QED BY <1>4, <2>5, <4>1 DEF Device, Devices
    <3>3. DeviceInv'
      BY <1>3, <1>4, <2>5, <3>1 DEF DeviceInv
    <3>4. /\ ran' \in [Hosts -> Nat] /\ ran'[h] = (IF m.size = 1 THEN 1 ELSE 0)
          /\ \A g \in Hosts : g # h => ran'[g] = ran[g]
      BY <1>5, <1>10, <2>1, <2>5 DEF Runs
    <3>5. WorkInv(n, device', ran'[h])
      BY <1>2, <1>12, <3>1, <3>4, CtapHidAssumption DEF WorkInv
    <3>6. Session(q, n, device', ran'[h])
      BY <1>2, <1>8, <2>1, <3>5 DEF Session, Clear
    <3>. QED BY <1>9, <1>10, <2>5, <3>1, <3>2, <3>3, <3>4, <3>6
  <2>. QED BY <2>1, <2>3, <2>4, <2>5 DEF TakeFirst
<1>13. CASE m.left # m.size
  <2>1. TakeMore(c, m.req) /\ UNCHANGED inbox
    BY <1>13 DEF SendFrame
  <2>2. CASE (wedged \/ d.phase # "take" \/ d.cid # c) /\ UNCHANGED <<device, ran>>
    <3>1. d.cid = c => d.phase # "take"
      BY <1>4, <1>10, <2>2
    <3>2. d.cid = c => WorkInv(n, d, k)
      BY <1>2, <1>4, <1>8, <3>1 DEF Session, WorkInv
    <3>3. \A i \in 1..Len(q) : q[i].cid = c => FrameInv(q, i, n, d, k)
      BY <1>2, <1>4, <1>8 DEF Session, FrameInv
    <3>4. Session(q, n, d, k)
      BY <1>2, <1>8, <3>2, <3>3 DEF Session
    <3>. QED BY <1>9, <1>10, <1>11, <2>1, <2>2, <3>4
  <2>3. CASE d.phase = "take" /\ d.cid = c
    <3>1. WorkInv(m, d, k) /\ k = 0 /\ d.size = m.size /\ d.got \in 1..m.size /\ d.got + m.left = m.size
          /\ ~wedged
      BY <1>4, <1>10, <2>3 DEF Session, WorkInv
    <3>2. \A i \in 1..Len(q) : q[i].cid = c => ~IsAnswer(q[i]) /\ ~IsFinal(q[i]) /\ q[i].cmd # "busy"
      BY <1>4, <2>3 DEF Session, FrameInv, IsFinal
    <3>3. ASSUME NEW e, NEW x PROVE \A i \in 1..Len(q) : q[i].cid = c => FrameInv(q, i, n, e, x)
      BY <1>2, <3>2 DEF FrameInv
    <3>4. (d.got + 1 = d.size) <=> (m.left = 1)
      BY <1>2, <3>1
    <3>5. CASE d.got + 1 = d.size
      <4>1. device' = Device(c, "work", m.req, 0, 0) /\ Runs(c, m.req)
        BY <2>1, <2>3, <3>1, <3>5 DEF TakeMore
      <4>2. device'.cid = c /\ device'.req = m.req /\ device'.phase = "work"
        BY <4>1 DEF Device
      <4>3. device' \in Devices
        BY <1>4, <4>1, CtapHidAssumption DEF Device, Devices
      <4>4. DeviceInv'
        BY <1>3, <1>4, <3>1, <4>2 DEF DeviceInv
      <4>5. /\ ran' \in [Hosts -> Nat] /\ ran'[h] = 1
            /\ \A g \in Hosts : g # h => ran'[g] = ran[g]
        BY <1>5, <1>10, <3>1, <4>1 DEF Runs
      <4>6. WorkInv(n, device', 1)
        BY <1>2, <1>8, <4>2 DEF WorkInv
      <4>7. Session(q, n, device', 1)
        BY <1>2, <1>8, <3>3, <4>6 DEF Session
      <4>. QED BY <1>9, <1>10, <2>1, <4>2, <4>3, <4>4, <4>5, <4>7
    <3>6. CASE d.got + 1 # d.size
      <4>1. device' = Device(c, "take", m.req, d.got + 1, d.size) /\ UNCHANGED ran
        BY <2>1, <2>3, <3>1, <3>6 DEF TakeMore
      <4>2. device'.cid = c /\ device'.req = m.req /\ device'.phase = "take" /\ device'.got = d.got + 1
            /\ device'.size = d.size
        BY <4>1 DEF Device
      <4>3. device' \in Devices
        <5>1. d.got + 1 \in 0..(MaxFrames + 1) /\ d.size \in 0..(MaxFrames + 1)
          BY <1>2, <3>1, CtapHidAssumption
        <5>. QED BY <1>4, <4>1, <5>1 DEF Device, Devices
      <4>4. DeviceInv'
        BY <1>3, <1>4, <3>1, <4>2 DEF DeviceInv
      <4>5. n.st = "send" /\ d.got + 1 \in 1..n.size /\ d.got + 1 + n.left = n.size
        BY <1>2, <3>1, <3>4, <3>6, CtapHidAssumption
      <4>6. WorkInv(n, device', 0)
        BY <1>2, <3>1, <4>2, <4>5 DEF WorkInv
      <4>7. Session(q, n, device', 0)
        BY <1>2, <1>8, <3>3, <4>6 DEF Session
      <4>. QED BY <1>9, <1>10, <2>1, <3>1, <4>1, <4>2, <4>3, <4>4, <4>7
    <3>. QED BY <3>5, <3>6
  <2>. QED BY <2>1, <2>2, <2>3 DEF TakeMore
<1>. QED BY <1>12, <1>13

----------------------------------------------------------------------------
(* The theorems.                                                           *)

LEMMA InitInv == Init => Inv
<1>. SUFFICES ASSUME Init PROVE Inv
  OBVIOUS
<1>. DEFINE n == ClosedHost("none")
<1>1. /\ n \in HostRecs /\ n.left = 0 /\ n.size = 0 /\ Len(n.acc) = 0 /\ n.total = 0 /\ n.cid = NoCid
      /\ n.result = "none" /\ n.st = "closed"
  BY CtapHidAssumption DEF ClosedHost, HostRecs
<1>. HIDE DEF n
<1>2. host = [h \in Hosts |-> n] /\ inbox = [h \in Hosts |-> <<>>] /\ ran = [h \in Hosts |-> 0]
      /\ device = IdleDevice /\ inits = {} /\ taken = NoCid /\ wedged = FALSE
  BY DEF Init, n
<1>3. <<>> \in Seq(Frames) /\ Len(<<>>) = 0 /\ MaxInbox \in Nat
  BY CtapHidAssumption
<1>4. TypeOK
  <2>1. /\ host \in [Hosts -> HostRecs]
        /\ \A h \in Hosts : host[h].left <= host[h].size /\ Len(host[h].acc) <= host[h].total
    BY <1>1, <1>2
  <2>2. inbox \in [Hosts -> Seq(Frames)] /\ \A h \in Hosts : Len(inbox[h]) <= MaxInbox
    BY <1>2, <1>3
  <2>3. /\ ran \in [Hosts -> Nat] /\ device \in Devices
        /\ inits \subseteq Hosts /\ taken \in Cids \cup {NoCid} /\ wedged \in BOOLEAN
    BY <1>2, IdleDeviceOK
  <2>. QED BY <2>1, <2>2, <2>3 DEF TypeOK
<1>5. HostInv /\ Results /\ Sessions
  <2>1. \A h \in Hosts : host[h] = n /\ ran[h] = 0
    BY <1>2
  <2>2. HostAt(n) /\ ResultAt(n, 0)
    BY <1>1 DEF HostAt, ResultAt
  <2>. QED BY <1>1, <2>1, <2>2 DEF HostInv, Results, Sessions
<1>6. DeviceInv /\ ChannelsDistinct
  BY <1>1, <1>2, IdleDeviceOK DEF DeviceInv, ChannelsDistinct
<1>7. Chans
  BY <1>2, <1>3 DEF Chans
<1>. QED BY <1>4, <1>5, <1>6, <1>7 DEF Inv

LEMMA StutterInv ==
    ASSUME Inv, UNCHANGED vars
    PROVE  Inv'
<1>1. UNCHANGED <<host, inbox, ran, device, inits, taken, wedged>>
  BY DEF vars
<1>2. TypeOK'
  BY <1>1 DEF Inv, TypeOK
<1>3. HostInv' /\ DeviceInv' /\ ChannelsDistinct'
  BY <1>1 DEF Inv, HostInv, DeviceInv, ChannelsDistinct
<1>4. Chans'
  BY <1>1 DEF Inv, Chans
<1>5. Sessions' /\ Results'
  BY <1>1 DEF Inv, Sessions, Results
<1>. QED BY <1>2, <1>3, <1>4, <1>5 DEF Inv

LEMMA CallStepInv ==
    ASSUME Inv, NEW h \in Hosts, CallStep(h)
    PROVE  Inv'
<1>1. CASE TimedOut(h)
  BY <1>1, FailInv DEF TimedOut
<1>2. CASE Cancelled(h)
  BY <1>2, FailInv DEF Cancelled
<1>. QED BY <1>1, <1>2, SkipForeignInv, ReadInitInv, SendFrameInv, ReadErrorInv, WakeInv,
            ReadKeepaliveInv, ReadFirstInv, ReadMoreInv DEF CallStep

LEMMA NextInv ==
    ASSUME Inv, [Next]_vars
    PROVE  Inv'
<1>1. CASE UNCHANGED vars
  BY <1>1, StutterInv
<1>2. ASSUME NEW h \in Hosts, OpenDevice(h) \/ Transact(h) \/ Close(h) \/ CallStep(h)
                               \/ IoError(h) \/ Cancel(h) \/ Tick(h)
      PROVE  Inv'
  <2>1. CASE Close(h) \/ IoError(h)
    BY <2>1, FailInv DEF Close, IoError
  <2>. QED BY <1>2, <2>1, OpenDeviceInv, TransactInv, CallStepInv, CancelInv, TickInv
<1>3. CASE DeviceStep
  BY <1>3, AnswerInitInv, KeepaliveInv, StartAnswerInv, SendAnswerInv, DeviceFailsInv, WedgeInv,
     OthersOpenInv, OthersWorkInv DEF DeviceStep
<1>. QED BY <1>1, <1>2, <1>3 DEF Next

LEMMA Invariance == Spec => []Inv
BY InitInv, NextInv, PTL DEF Spec

\* For any programs, channels and bounds every variable keeps its type: an answer never
\* grows past its bcnt, nor its bcnt past CTAPHID_MAX_PAYLOAD (recv_by).
THEOREM TypeCorrect == Spec => []TypeOK
<1>1. Inv => TypeOK
  BY DEF Inv
<1>. QED BY <1>1, Invariance, PTL

\* However many programs open the key at once, do_init gives no two of them one channel.
THEOREM NoSharedChannel == Spec => []ChannelsDistinct
<1>1. Inv => ChannelsDistinct
  BY DEF Inv
<1>. QED BY <1>1, Invariance, PTL

\* transact returns the whole answer to the request it sent and to no other.
THEOREM OwnAnswer == Spec => []AnswerMatches
<1>1. Inv => AnswerMatches
  <2>1. SUFFICES ASSUME Inv, NEW h \in Hosts, host[h].result = "ok", host[h].st = "open"
                 PROVE  host[h].acc = [i \in 1..host[h].total |->
                                          Tag(host[h].cid, host[h].req, i, host[h].total)]
    BY DEF AnswerMatches
  <2>2. Prefix(host[h]) /\ Len(host[h].acc) = host[h].total
    BY <2>1 DEF Inv, Results, ResultAt
  <2>. QED BY <2>2 DEF Prefix
<1>. QED BY <1>1, Invariance, PTL

\* The busy retry of transact never has the key carry a request out twice.
THEOREM CarriedOutOnce == Spec => []RunsOnce
<1>1. Inv => RunsOnce
  BY DEF Inv, Results, ResultAt, RunsOnce
<1>. QED BY <1>1, Invariance, PTL
=============================================================================
