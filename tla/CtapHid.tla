------------------------------- MODULE CtapHid -------------------------------
(***************************************************************************)
(* The CTAP HID transport (crates/keyroost-ctap/src/hid.rs): programs that *)
(* open one security key at the same time, each on a channel of its own.   *)
(*                                                                         *)
(* A host is one CtapHidDevice at a time: open allocates a channel with    *)
(* CTAPHID_INIT, transact sends a request and reads its answer.  A session *)
(* ends at its first transport error: the callers return it and drop the   *)
(* device.  Every host that has the key open gets every input report, so   *)
(* it must pick out its own.  Other programs (a browser, an agent) use the *)
(* key too, and their frames are in every queue.  The key itself is not    *)
(* part of the code: it works on one request at a time, answers            *)
(* ERR_CHANNEL_BUSY to others meanwhile, may take its time (KEEPALIVE),    *)
(* fail, answer after the host gave up, or fall silent for good.           *)
(*                                                                         *)
(* Reports are frames; a message is an initialization frame and up to      *)
(* MaxFrames - 1 continuation frames (send refuses a longer request before *)
(* it writes anything).  What a frame carries is a ghost tag that says     *)
(* which part of which message it is.                                      *)
(***************************************************************************)
EXTENDS Naturals, Sequences

CONSTANTS
    Hosts,
    Cancellable, \* the hosts that call set_cancel_flag
    Cids,        \* channel ids the key may hand out
    NoCid,
    Broadcast,   \* CTAPHID_BROADCAST_CID
    MaxFrames,   \* CTAPHID_MAX_PAYLOAD, in frames
    MaxRequest,  \* bound: frames of a request
    MaxInbox,    \* reports the operating system keeps for a handle
    MaxAttempts, \* CHANNEL_BUSY_MAX_ATTEMPTS
    Timeout      \* ticks of the clock until a deadline passes

ASSUME CtapHidAssumption ==
    /\ NoCid \notin Cids \cup {Broadcast} \cup Hosts
    /\ Broadcast \notin Cids /\ Cancellable \subseteq Hosts
    /\ MaxFrames \in Nat \ {0} /\ MaxRequest \in 1..MaxFrames /\ MaxInbox \in Nat \ {0}
    /\ MaxAttempts \in Nat \ {0} /\ Timeout \in Nat \ {0}

VARIABLES
    host,    \* host -> its CtapHidDevice and the call under way
    inbox,   \* host -> input reports not read yet
    ran,     \* host -> ghost: times the key carried the host's request out
    device,  \* the key's transaction
    inits,   \* hosts whose INIT the key has not answered
    taken,   \* the channel another program works on, or NoCid
    wedged   \* the key fell silent for good

vars == <<host, inbox, ran, device, inits, taken, wedged>>

----------------------------------------------------------------------------
(* Frames.                                                                 *)

Tag(c, r, part, of) == [chan |-> c, req |-> r, part |-> part, of |-> of]
NoTag == Tag(NoCid, 0, 0, 0)

\* num is bcnt in frames ("cbor"), SEQ ("cont"), the new channel ("init").
Frame(c, cmd, num, tag) == [cid |-> c, cmd |-> cmd, num |-> num, tag |-> tag]
\* The answer to the INIT of `who`, whose nonce it repeats.
InitAnswer(who, c) == Frame(Broadcast, "init", c, Tag(who, 0, 1, 1))
ErrorFrame(c, code) == Frame(c, code, 0, NoTag)
\* Part i of the n frames that answer request r of channel c.
AnswerFrame(c, r, i, n) ==
    IF i = 1 THEN Frame(c, "cbor", n, Tag(c, r, i, n))
             ELSE Frame(c, "cont", i - 2, Tag(c, r, i, n))

\* A host:
\*   st       "closed", "init" (in do_init), "open", and in transact "send",
\*            "recv" (for the first frame), "more" (for the others), "sleep"
\*   cid      channel_id
\*   req      its request, told from the one before by a bit
\*   size     frames of the request; left, those not sent yet
\*   attempt  of transact
\*   acc      the payload read so far, total its length by bcnt
\*   age      ticks since the deadline was set; cancel, the flag
\*   result   how the last call ended: "ok", "busy" or any other way
ClosedHost(result) ==
    [st |-> "closed", cid |-> NoCid, req |-> 0, size |-> 0, left |-> 0,
     attempt |-> 0, acc |-> <<>>, total |-> 0, age |-> 0, cancel |-> FALSE, result |-> result]

Waiting == {"init", "recv", "more"}

\* Every open handle gets the report, unless its queue is full.
Delivered(f) ==
    [h \in Hosts |-> IF host[h].st # "closed" /\ Len(inbox[h]) < MaxInbox
                     THEN Append(inbox[h], f) ELSE inbox[h]]

----------------------------------------------------------------------------
(* The key (external).                                                     *)

IdleDevice == [cid |-> NoCid, phase |-> "idle", req |-> 0, got |-> 0, size |-> 0]
Device(c, phase, r, got, n) == [cid |-> c, phase |-> phase, req |-> r, got |-> got, size |-> n]

\* The key has the whole request and carries it out.
Runs(c, r) ==
    ran' = [h \in Hosts |-> IF host[h].cid = c /\ host[h].req = r THEN ran[h] + 1 ELSE ran[h]]

\* It takes the first frame of a request, or says that it is busy.
TakeFirst(c, r, n) ==
    IF wedged THEN UNCHANGED <<device, ran, inbox>>
    ELSE IF device.phase # "idle"
    THEN inbox' = Delivered(ErrorFrame(c, "busy")) /\ UNCHANGED <<device, ran>>
    ELSE /\ device' = Device(c, IF n = 1 THEN "work" ELSE "take", r, 1, n)
         /\ IF n = 1 THEN Runs(c, r) ELSE UNCHANGED ran
         /\ UNCHANGED inbox

\* It takes a continuation frame, if it waits for one of this channel.
TakeMore(c, r) ==
    IF wedged \/ device.phase # "take" \/ device.cid # c
    THEN UNCHANGED <<device, ran>>
    ELSE IF device.got + 1 = device.size
    THEN device' = Device(c, "work", r, 0, 0) /\ Runs(c, r)
    ELSE device' = Device(c, "take", r, device.got + 1, device.size) /\ UNCHANGED ran

\* Channel ids are never handed out twice: none that anybody could still mean.
FreshCids ==
    {c \in Cids : /\ device.cid # c /\ taken # c
                  /\ \A h \in Hosts : /\ host[h].cid # c
                                      /\ \A i \in 1..Len(inbox[h]) : c \notin {inbox[h][i].cid, inbox[h][i].num}}

AnswerInit ==
    \E h \in inits :
        /\ \/ \E c \in FreshCids : inbox' = Delivered(InitAnswer(h, c))
           \/ inbox' = Delivered(ErrorFrame(Broadcast, "fault"))
        /\ inits' = inits \ {h}
        /\ UNCHANGED <<device, taken, wedged>>

Keepalive ==
    /\ device.phase = "work"
    /\ inbox' = Delivered(Frame(device.cid, "keepalive", 0, NoTag))
    /\ UNCHANGED <<device, inits, taken, wedged>>

StartAnswer ==
    /\ device.phase = "work"
    /\ \E n \in 1..(MaxFrames + 1) : device' = Device(device.cid, "answer", device.req, 1, n)
    /\ UNCHANGED <<inbox, inits, taken, wedged>>

SendAnswer ==
    /\ device.phase = "answer"
    /\ inbox' = Delivered(AnswerFrame(device.cid, device.req, device.got, device.size))
    /\ device' = IF device.got = device.size THEN IdleDevice
                 ELSE Device(device.cid, "answer", device.req, device.got + 1, device.size)
    /\ UNCHANGED <<inits, taken, wedged>>

\* Failed after all, or the rest of the request never came.
DeviceFails ==
    /\ device.phase \in {"take", "work"}
    /\ inbox' = Delivered(ErrorFrame(device.cid, "fault"))
    /\ device' = IdleDevice
    /\ UNCHANGED <<inits, taken, wedged>>

Wedge ==
    /\ wedged' = TRUE /\ device' = IdleDevice /\ inits' = {} /\ taken' = NoCid
    /\ UNCHANGED inbox

\* Another program opens the key, has it work on a request, and gets its answer.
OthersOpen ==
    /\ device.phase # "other"
    /\ \E c \in FreshCids : taken' = c /\ inbox' = Delivered(InitAnswer(NoCid, c))
    /\ UNCHANGED <<device, inits, wedged>>
OthersWork ==
    /\ taken # NoCid /\ device.phase \in {"idle", "other"}
    /\ \/ device.phase = "idle" /\ device' = Device(taken, "other", 0, 0, 0) /\ UNCHANGED inbox
       \/ device.phase = "other" /\ device' = IdleDevice /\ UNCHANGED inbox
       \/ /\ device.phase = "other"
          /\ \E f \in {Frame(taken, "cbor", 1, NoTag), Frame(taken, "cont", 0, NoTag),
                       Frame(taken, "keepalive", 0, NoTag)} : inbox' = Delivered(f)
          /\ UNCHANGED device
    /\ UNCHANGED <<inits, taken, wedged>>

DeviceStep ==
    /\ ~wedged
    /\ \/ AnswerInit \/ Keepalive \/ StartAnswer \/ SendAnswer \/ DeviceFails \/ Wedge
       \/ OthersOpen \/ OthersWork
    /\ UNCHANGED <<host, ran>>

----------------------------------------------------------------------------
(* open: open_io and do_init.                                              *)

\* generate_nonce never repeats a nonce: the host's name stands for it, so the
\* host opens again once its last INIT is answered and forgotten.  (A late answer
\* to it would be skipped like another program's.)
OpenDevice(h) ==
    /\ host[h].st = "closed"
    /\ h \notin inits
    /\ \A g \in Hosts : \A i \in 1..Len(inbox[g]) : inbox[g][i].tag # Tag(h, 0, 1, 1)
    /\ host' = [host EXCEPT ![h] = [ClosedHost("none") EXCEPT !.st = "init"]]
    /\ inits' = IF wedged THEN inits ELSE inits \cup {h}
    /\ ran' = [ran EXCEPT ![h] = 0]
    /\ UNCHANGED <<inbox, device, taken, wedged>>

\* The call returns an error and the caller drops the handle, and with it the
\* cancel flag and the queue of reports.
Fail(h, why) ==
    /\ host' = [host EXCEPT ![h] = ClosedHost(IF why = "busy" THEN why ELSE "failed")]
    /\ ran' = IF why = "busy" THEN ran ELSE [ran EXCEPT ![h] = 0]
    /\ inbox' = [inbox EXCEPT ![h] = <<>>]
    /\ UNCHANGED <<device, inits, taken, wedged>>

Close(h) == host[h].st = "open" /\ Fail(h, "done")

----------------------------------------------------------------------------
(* wait_report: the deadline, then the cancel flag, then one report.       *)

\* Mutant: nobody looks at the flag.
NeverCancelled(h) == FALSE

CancelRequested(h) == host[h].cancel

\* Mutant: nobody looks at the clock.
NeverExpired(h) == FALSE

Expired(h) == host[h].age = Timeout

TimedOut(h) == host[h].st \in Waiting /\ Expired(h) /\ Fail(h, "timeout")

Cancelled(h) ==
    host[h].st \in Waiting /\ ~Expired(h) /\ CancelRequested(h) /\ Fail(h, "cancelled")

\* A report is there for the host in state s.  Flag and report are looked at in
\* one step, so recv_by's second look at the flag comes to the same.
Reads(h, s) ==
    host[h].st = s /\ ~Expired(h) /\ ~CancelRequested(h) /\ inbox[h] # <<>>
Report(h) == Head(inbox[h])

\* The report is consumed and the host goes on as `new`.
Consume(h, new) ==
    /\ inbox' = [inbox EXCEPT ![h] = Tail(@)]
    /\ host' = [host EXCEPT ![h] = new]
    /\ UNCHANGED <<ran, device, inits, taken, wedged>>

\* Mutant: a report is ours whatever its channel.
AnyChannel(h, f) == TRUE

\* The report is on our channel, which is the broadcast channel until open is done.
OwnChannel(h, f) == f.cid = IF host[h].st = "init" THEN Broadcast ELSE host[h].cid

\* A report of another channel is skipped.
SkipForeign(h) ==
    /\ \E s \in Waiting : Reads(h, s)
    /\ ~OwnChannel(h, Report(h))
    /\ Consume(h, host[h])

\* Mutant: the first INIT answer on the broadcast channel will do.
AnyNonce(h, f) == TRUE

OwnNonce(h, f) == f.tag = Tag(h, 0, 1, 1)

\* Mutant: every round of do_init gets a deadline of its own.
SkipInitRenewed(h) == Consume(h, [host[h] EXCEPT !.age = 0])

\* Another program's answer; one deadline serves the whole exchange.
SkipInit(h) == Consume(h, host[h])

ReadInit(h) ==
    /\ Reads(h, "init") /\ OwnChannel(h, Report(h))
    /\ \/ /\ Report(h).cmd = "init" /\ OwnNonce(h, Report(h))
          /\ Consume(h, [host[h] EXCEPT !.st = "open", !.cid = Report(h).num])
       \/ Report(h).cmd = "init" /\ ~OwnNonce(h, Report(h)) /\ SkipInit(h)
       \/ Report(h).cmd = "fault" /\ Fail(h, "fault")

----------------------------------------------------------------------------
(* transact: send, recv_by and the busy retry.                             *)

Transact(h) ==
    /\ host[h].st = "open"
    /\ \E n \in 1..MaxRequest :
           host' = [host EXCEPT ![h] = [host[h] EXCEPT !.st = "send", !.req = 1 - @, !.size = n, !.left = n,
                                                       !.attempt = 1, !.acc = <<>>, !.result = "none"]]
    /\ ran' = [ran EXCEPT ![h] = 0]
    /\ UNCHANGED <<inbox, device, inits, taken, wedged>>

\* One write_report of send; recv sets its deadline when all are written.
SendFrame(h) ==
    LET me == host[h] IN
    /\ me.st = "send"
    /\ IF me.left = me.size
       THEN TakeFirst(me.cid, me.req, me.size)
       ELSE TakeMore(me.cid, me.req) /\ UNCHANGED inbox
    /\ host' = [host EXCEPT ![h] = IF me.left = 1
                                   THEN [me EXCEPT !.left = 0, !.st = "recv", !.age = 0]
                                   ELSE [me EXCEPT !.left = @ - 1]]
    /\ UNCHANGED <<inits, taken, wedged>>

\* Mutant: any error the key reports is worth another attempt.
RetryAny(code, n) == n < MaxAttempts

\* busy_retry_delay.  Its time budget may run out at any attempt: see ReadError.
BusyRetry(code, n) == code = "busy" /\ n < MaxAttempts

ReadError(h) ==
    LET f == Report(h) IN
    /\ Reads(h, "recv") /\ OwnChannel(h, f) /\ f.cmd \in {"busy", "fault"}
    /\ \/ BusyRetry(f.cmd, host[h].attempt) /\ Consume(h, [host[h] EXCEPT !.st = "sleep"])
       \/ Fail(h, f.cmd)

\* sleep_between_attempts looks at the flag before and after its delay.
Wake(h) ==
    /\ host[h].st = "sleep"
    /\ \/ CancelRequested(h) /\ Fail(h, "cancelled")
       \/ /\ ~CancelRequested(h)
          /\ host' = [host EXCEPT ![h] = [host[h] EXCEPT !.st = "send", !.left = host[h].size,
                                                         !.attempt = @ + 1]]
          /\ UNCHANGED <<inbox, ran, device, inits, taken, wedged>>

\* A KEEPALIVE sets the deadline anew.
ReadKeepalive(h) ==
    /\ Reads(h, "recv") /\ OwnChannel(h, Report(h)) /\ Report(h).cmd = "keepalive"
    /\ Consume(h, [host[h] EXCEPT !.age = 0])

\* The host with the frames acc of an answer of n: done, or on to the next one.
Collected(h, acc, n) ==
    IF Len(acc) = n
    THEN [host[h] EXCEPT !.st = "open", !.acc = acc, !.total = n, !.result = "ok",
                         !.size = 0, !.attempt = 0, !.age = 0]
    ELSE [host[h] EXCEPT !.st = "more", !.acc = acc, !.total = n]

\* Mutant: bcnt is taken as the key says it.
NeverTooLarge(n) == FALSE

TooLarge(n) == n > MaxFrames

ReadFirst(h) ==
    LET f == Report(h) IN
    /\ Reads(h, "recv") /\ OwnChannel(h, f) /\ f.cmd \in {"cbor", "cont"}
    /\ \/ f.cmd = "cbor" /\ ~TooLarge(f.num) /\ Consume(h, Collected(h, <<f.tag>>, f.num))
       \/ f.cmd = "cbor" /\ TooLarge(f.num) /\ Fail(h, "protocol")    \* PayloadTooLarge
       \/ f.cmd = "cont" /\ Fail(h, "protocol")            \* UnexpectedCommand

InSequence(h, f) == f.num = Len(host[h].acc) - 1

\* Between continuation frames even a KEEPALIVE is unexpected.
ReadMore(h) ==
    LET f == Report(h) IN
    /\ Reads(h, "more") /\ OwnChannel(h, f)
    /\ \/ /\ f.cmd = "cont" /\ InSequence(h, f)
          /\ Consume(h, Collected(h, Append(host[h].acc, f.tag), host[h].total))
       \/ f.cmd # "cont" /\ Fail(h, "protocol")            \* UnexpectedCommand
       \/ f.cmd = "cont" /\ ~InSequence(h, f) /\ Fail(h, "protocol")   \* OutOfSequence

----------------------------------------------------------------------------
\* A read or a write of the host fails: the key was unplugged, say.
IoError(h) == host[h].st \in Waiting \cup {"send"} /\ Fail(h, "io")

\* Another thread sets the cancel flag, during a call or between two.  Nobody
\* clears it: the next call of the session ends with Cancelled as well.
Cancel(h) ==
    /\ h \in Cancellable /\ host[h].st \notin {"closed", "init"} /\ ~host[h].cancel
    /\ host' = [host EXCEPT ![h].cancel = TRUE]
    /\ UNCHANGED <<inbox, ran, device, inits, taken, wedged>>

\* Time passes while a host waits.
Tick(h) ==
    /\ host[h].st \in Waiting /\ host[h].age < Timeout
    /\ host' = [host EXCEPT ![h].age = @ + 1]
    /\ UNCHANGED <<inbox, ran, device, inits, taken, wedged>>

Init ==
    /\ host = [h \in Hosts |-> ClosedHost("none")]
    /\ inbox = [h \in Hosts |-> <<>>]
    /\ ran = [h \in Hosts |-> 0]
    /\ device = IdleDevice
    /\ inits = {} /\ taken = NoCid
    /\ wedged = FALSE

\* What a call does on its own once it was made.
CallStep(h) ==
    \/ TimedOut(h) \/ Cancelled(h) \/ SkipForeign(h) \/ ReadInit(h)
    \/ SendFrame(h) \/ ReadError(h) \/ Wake(h) \/ ReadKeepalive(h) \/ ReadFirst(h) \/ ReadMore(h)

Next ==
    \/ \E h \in Hosts : OpenDevice(h) \/ Transact(h) \/ Close(h) \/ CallStep(h)
                     \/ IoError(h) \/ Cancel(h) \/ Tick(h)
    \/ DeviceStep

Spec == Init /\ [][Next]_vars

\* A program that made a call goes on with it, and time passes.
FairSpec == Spec /\ \A h \in Hosts : WF_vars(CallStep(h)) /\ WF_vars(Tick(h))

----------------------------------------------------------------------------
(* Properties.                                                             *)

Tags == [chan : Cids \cup Hosts \cup {NoCid}, req : 0..1,
         part : 0..(MaxFrames + 1), of : 0..(MaxFrames + 1)]
Frames == [cid : Cids \cup {Broadcast},
           cmd : {"init", "cbor", "cont", "keepalive", "busy", "fault"},
           num : Nat \cup Cids, tag : Tags]
HostRecs ==
    [st : {"closed", "init", "open", "send", "recv", "more", "sleep"}, cid : Cids \cup {NoCid},
     req : 0..1, size : 0..MaxFrames, left : 0..MaxFrames, attempt : 0..MaxAttempts,
     acc : Seq(Tags), total : 0..MaxFrames, age : 0..Timeout, cancel : BOOLEAN,
     result : {"none", "ok", "busy", "failed"}]
Devices == [cid : Cids \cup {NoCid}, phase : {"idle", "take", "work", "answer", "other"},
            req : 0..1, got : 0..(MaxFrames + 1), size : 0..(MaxFrames + 1)]

\* Every variable has its type; an answer never grows past its bcnt, nor its
\* bcnt past CTAPHID_MAX_PAYLOAD.
TypeOK ==
    /\ host \in [Hosts -> HostRecs]
    /\ \A h \in Hosts : host[h].left <= host[h].size /\ Len(host[h].acc) <= host[h].total
    /\ inbox \in [Hosts -> Seq(Frames)]
    /\ \A h \in Hosts : Len(inbox[h]) <= MaxInbox
    /\ ran \in [Hosts -> Nat] /\ device \in Devices
    /\ inits \subseteq Hosts /\ taken \in Cids \cup {NoCid} /\ wedged \in BOOLEAN

\* transact returns the whole answer to the very request it sent, whatever other
\* programs, late answers and lost reports put into its queue.
AnswerMatches ==
    \A h \in Hosts : host[h].result = "ok" /\ host[h].st = "open" =>
        host[h].acc = [i \in 1..host[h].total |->
                          Tag(host[h].cid, host[h].req, i, host[h].total)]

\* do_init: no two programs ever work on one channel.
ChannelsDistinct ==
    \A h \in Hosts : host[h].cid # NoCid =>
        /\ host[h].cid # taken
        /\ \A g \in Hosts \ {h} : host[g].cid # host[h].cid

\* The busy retry never makes the key carry a request out twice, one that ends
\* as busy was not carried out at all, and one that succeeds was, once.
RunsOnce ==
    \A h \in Hosts :
        /\ ran[h] <= 1
        /\ host[h].result = "busy" => ran[h] = 0
        /\ host[h].result = "ok" => ran[h] = 1

Calling(h) == host[h].st \notin {"closed", "open"}

\* A call ends: with its session once the cancel flag is set, even if the key sends
\* KEEPALIVEs for ever (set_cancel_flag); when the key falls silent (wait_report); and
\* the INIT exchange whatever else arrives, "answers meant for others can't keep it
\* open" (do_init).
CallEnds ==
    \A h \in Hosts :
        /\ (host[h].cancel /\ Calling(h)) ~> host[h].st = "closed"
        /\ (wedged /\ Calling(h)) ~> ~Calling(h)
        /\ host[h].st = "init" ~> host[h].st # "init"
=============================================================================
