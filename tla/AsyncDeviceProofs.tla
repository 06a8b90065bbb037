------------------------- MODULE AsyncDeviceProofs -------------------------
(***************************************************************************)
(* Proofs about AsyncDevice, for any queue and any number of calls, reader *)
(* threads and messages.  Its reader, port and sensor are those of         *)
(* MtiDevice, and what is proved of their steps there holds here too; what *)
(* has to be shown anew is what create() and close() do, in which order    *)
(* the event loop executes what was scheduled on it, and that a message    *)
(* keeps its place on the longer way to the callback.                      *)
(***************************************************************************)
EXTENDS AsyncDevice, TLAPS

\* The threaded device, with what is proved about it.
P == INSTANCE MtiDeviceProofs WITH buffer <- queue, BufferSize <- QueueSize,
                                   batch <- <<>>, JoinMayExpire <- FALSE,
                                   Remeasure <- FALSE, Unreliable <- TRUE

\* The steps of create(), of close(), and of a create() that gives up.
Bare(what) == P!StepOf(what, P!NoArg)
With(what) == P!StepOf(what, "GOTOCONFIG")

CreateSteps == <<Bare("open"), Bare("flush"), Bare("spawn"), Bare("stop"),
                 With("send"), With("receive"), Bare("wrap")>>
CloseSteps  == <<Bare("cancel"), Bare("await"), Bare("stop"), Bare("close")>>
RescueSteps == <<Bare("cancel"), Bare("await"), Bare("stop"), Bare("close"),
                 Bare("reraise")>>

\* What is left of them before the i-th.
Left(steps, i) == SubSeq(steps, i, Len(steps))

----------------------------------------------------------------------------
\* The types of all variables.
Callbacks == [do : {"enqueue"}, msg : D!Messages] \cup {Error, Resumption}

SchedulingTyped ==
  /\ scheduled \in Seq(Callbacks)
  /\ dispatch \in {"none", "waiting", "handling", "cancelling", "cancelled",
                   "ended"}
  /\ handle \in {"creating", "made", "failed"}
  /\ caller \in {"main", "callback"}

Typed == P!ReaderTyped /\ P!StartsBounded /\ P!DeviceTyped /\ SchedulingTyped

Only(seq, e) == \A i \in DOMAIN seq : seq[i] = e

\* Before the handle is made there has been no reader thread, and so no
\* message and no error.
NothingYet ==
  /\ thread = D!R!None /\ pc = "idle"
  /\ \A t \in Threads : rpc[t] = "unborn"
  /\ tracked = "CONFIG"
  /\ queue = <<>>
  /\ caller = "main"
  /\ Only(scheduled, Resumption)

CreatingAt(i) == /\ todo = Left(CreateSteps, i)
                 /\ portOpen <=> i > 1
                 /\ dispatch = IF i > 3 THEN "waiting" ELSE "none"

Raised        == todo = <<>> /\ portOpen /\ dispatch = "waiting"

RescuingAt(i) == /\ todo = Left(RescueSteps, i)
                 /\ portOpen <=> i < 5
                 /\ i = 1 => dispatch = "waiting"
                 /\ i = 2 => dispatch \in {"cancelling", "cancelled"}
                 /\ i > 2 => dispatch = "cancelled"

Creating == \/ \E i \in 1 .. 7 : CreatingAt(i)
            \/ Raised
            \/ \E i \in 1 .. 5 : RescuingAt(i)

Failed == /\ todo = <<>>
          /\ \/ dispatch = "none"
             \/ dispatch = "cancelled" /\ ~portOpen

\* The dispatch task calls no callback any more, unless it is the callback
\* that closed the device.
Quieted == caller = "main" => dispatch \in {"cancelled", "ended"}

Called == /\ P!CallLeft(todo)
          /\ todo # <<>> => todo[Len(todo)].do \in {"assign", "receive"}
          /\ portOpen

ClosingAt(i) == /\ todo = Left(CloseSteps, i)
                /\ portOpen
                /\ i = 2 => Quieted \/ dispatch = "cancelling"
                /\ i > 2 => Quieted

Closed == todo = <<>> /\ ~portOpen /\ Quieted

Made == Called \/ (\E i \in 1 .. 4 : ClosingAt(i)) \/ Closed

\* What create(), close() and the calls between them have come to.
Stage == /\ handle = "creating" => NothingYet /\ Creating
         /\ handle = "failed" => NothingYet /\ Failed
         /\ handle = "made" => Made /\ dispatch # "none"

\* The port is not read when it is closed, nor just before.
PortInv == /\ ~portOpen => P!Live = {}
           /\ (pc = "idle" /\ todo # <<>> /\ Head(todo).do = "close")
                => P!Live = {}

\* An error that waits on the loop comes from a thread that is gone, and is
\* executed before the reader starts again: a resumption is behind it.
Has(seq, e) == \E i \in DOMAIN seq : seq[i] = e

Behind(seq, e, r) == \A i \in DOMAIN seq :
                       seq[i] = e => \E j \in DOMAIN seq : i < j /\ seq[j] = r

ErrorsAreLate ==
  /\ Has(scheduled, Error) => P!Active = {}
  /\ pc \in {"clear", "running", "create", "launch"} => ~Has(scheduled, Error)
  /\ (pc = "idle" /\ todo # <<>> /\ Head(todo).do = "start")
       => Behind(scheduled, Error, Resumption)

\* While the dispatch task lives, what MtiDevice guarantees holds.
WhileDispatched == dispatch # "ended" => P!Safe /\ ErrorsAreLate

Inv == /\ Typed /\ P!StartingOwner /\ P!Exclusion
       /\ Stage /\ PortInv /\ WhileDispatched
----------------------------------------------------------------------------
\* What happens to what is scheduled.
LEMMA Appended ==
  ASSUME NEW S, NEW seq \in Seq(S), NEW x \in S
  PROVE  /\ \A e : Has(Append(seq, x), e) <=> Has(seq, e) \/ x = e
         /\ \A e : e # x => Behind(Append(seq, x), e, x)
         /\ \A e, r : e # x /\ Behind(seq, e, r) => Behind(Append(seq, x), e, r)
         /\ Only(seq, x) => Only(Append(seq, x), x)
  <1> DEFINE q == Append(seq, x)
             n == Len(seq)
  <1>1. /\ n \in Nat /\ DOMAIN seq = 1 .. n /\ DOMAIN q = 1 .. n + 1
        /\ q[n + 1] = x /\ \A i \in 1 .. n : q[i] = seq[i]
    OBVIOUS
  <1> HIDE DEF q, n
  <1>2. ASSUME NEW e PROVE Has(q, e) <=> Has(seq, e) \/ x = e
    BY <1>1 DEF Has
  <1>3. ASSUME NEW e, e # x PROVE Behind(q, e, x)
    BY <1>1, <1>3 DEF Behind
  <1>4. ASSUME NEW e, NEW r, e # x, Behind(seq, e, r) PROVE Behind(q, e, r)
    BY <1>1, <1>4 DEF Behind
  <1>5. Only(seq, x) => Only(q, x)
    BY <1>1 DEF Only
  <1>6. QED
    BY <1>2, <1>3, <1>4, <1>5 DEF q

LEMMA Removed ==
  ASSUME NEW S, NEW seq \in Seq(S), seq # <<>>
  PROVE  /\ \A e : Has(Tail(seq), e) => Has(seq, e)
         /\ \A e, r : Behind(seq, e, r) => Behind(Tail(seq), e, r)
         /\ \A e : Only(seq, e) => Only(Tail(seq), e) /\ Head(seq) = e
         /\ Head(seq) \in S /\ Has(seq, Head(seq))
  <1> DEFINE q == Tail(seq)
             n == Len(seq)
  <1>1. /\ n \in Nat \ {0} /\ DOMAIN seq = 1 .. n /\ DOMAIN q = 1 .. n - 1
        /\ \A i \in 1 .. n - 1 : q[i] = seq[i + 1]
        /\ Head(seq) = seq[1] /\ seq[1] \in S
    OBVIOUS
  <1> HIDE DEF q, n
  <1>2. ASSUME NEW e PROVE Has(q, e) => Has(seq, e)
    BY <1>1 DEF Has
  <1>3. ASSUME NEW e, NEW r, Behind(seq, e, r) PROVE Behind(q, e, r)
    <2>1. ASSUME NEW i \in 1 .. n - 1, q[i] = e
          PROVE  \E j \in 1 .. n - 1 : i < j /\ q[j] = r
      <3>1. i + 1 \in 1 .. n /\ seq[i + 1] = e
        BY <1>1, <2>1
      <3>2. PICK j \in 1 .. n : i + 1 < j /\ seq[j] = r
        BY <1>1, <1>3, <3>1 DEF Behind
      <3>3. j - 1 \in 1 .. n - 1 /\ i < j - 1 /\ q[j - 1] = r
        BY <1>1, <3>2
      <3>4. QED
        BY <3>3
    <2>2. QED
      BY <1>1, <2>1 DEF Behind
  <1>4. ASSUME NEW e, Only(seq, e) PROVE Only(q, e) /\ Head(seq) = e
    BY <1>1, <1>4 DEF Only
  <1>5. Has(seq, Head(seq))
    BY <1>1 DEF Has
  <1>6. QED
    BY <1>1, <1>2, <1>3, <1>4, <1>5 DEF q

LEMMA NoElement == ASSUME NEW S, NEW seq \in Seq(S), Len(seq) = 0 PROVE seq = <<>>
  OBVIOUS

\* What is left of a list of steps.
LEMMA LeftOver ==
  ASSUME NEW S, NEW s \in Seq(S), NEW i \in 1 .. Len(s)
  PROVE  /\ Left(s, i) # <<>> /\ Head(Left(s, i)) = s[i]
         /\ Tail(Left(s, i)) = Left(s, i + 1)
         /\ i = Len(s) => Tail(Left(s, i)) = <<>>
         /\ Left(s, 1) = s
  <1> DEFINE n == Len(s)
             q == Left(s, i)
  <1>1. /\ n \in Nat /\ i \in 1 .. n /\ Len(q) = n - i + 1 /\ q # <<>>
        /\ \A k \in 1 .. n - i + 1 : q[k] = s[i + k - 1]
        /\ q \in Seq(S)
    BY DEF Left
  <1>2. Tail(q) = Left(s, i + 1)
    BY DEF Left
  <1>3. Left(s, 1) = s
    BY DEF Left
  <1> HIDE DEF q, n
  <1>4. Head(q) = s[i]
    BY <1>1
  <1>5. i = n => Tail(q) = <<>>
    <2>1. Tail(q) \in Seq(S) /\ Len(Tail(q)) = n - i
      BY <1>1
    <2>2. i = n => Len(Tail(q)) = 0
      BY <1>1, <2>1
    <2>3. Len(Tail(q)) = 0 => Tail(q) = <<>>
      BY <2>1, NoElement
    <2>4. QED
      BY <2>2, <2>3
  <1>6. QED
    BY <1>1, <1>2, <1>3, <1>4, <1>5 DEF q, n
----------------------------------------------------------------------------
\* What is the same in MtiDevice and in MtiDeviceProofs.
LEMMA Bounds == P!DeviceAssumption
  BY AsyncAssumption DEF P!DeviceAssumption, AsyncAssumption

LEMMA SameSets ==
  /\ D!Messages = P!Messages /\ D!Modes = P!Modes /\ D!Requests = P!Requests
  /\ D!Calls = P!Calls /\ D!Mids = P!Mids
  /\ Threads = P!R!Threads /\ D!R!None = P!R!None
  /\ D!R!Reading = P!R!Reading
  BY DEF D!Messages, P!Messages, D!Modes, P!Modes, D!Requests, P!Requests,
     D!Calls, P!Calls, D!Mids, P!Mids, Threads, D!R!Threads, P!R!Threads,
     D!R!None, P!R!None, D!R!Reading, P!R!Reading

LEMMA SameBodies == \A call \in D!Calls : D!Body(call) = P!Body(call)
  BY DEF D!Calls, D!Body, P!Body, D!EnterConfig, P!EnterConfig,
     D!EnterMeasurement, P!EnterMeasurement, D!LeaveMeasurement,
     P!LeaveMeasurement, D!CloseAll, P!CloseAll, D!Exchange, P!Exchange,
     D!Do, P!Do

LEMMA SameStops == D!R!Stop => P!R!Stop
  BY DEF D!R!Stop, D!R!BeginStop, D!R!SetEvent, D!R!Join, D!R!ForgetThread,
     D!R!ReadState, D!R!SetIdle, D!R!GoTo, D!R!ownerVars, D!R!sharedVars,
     D!R!threadVars, D!R!None,
     P!R!Stop, P!R!BeginStop, P!R!SetEvent, P!R!Join, P!R!ForgetThread,
     P!R!ReadState, P!R!SetIdle, P!R!GoTo, P!R!ownerVars, P!R!sharedVars,
     P!R!threadVars, P!R!None

LEMMA SameStarts == D!R!Start => P!R!Start
  BY DEF D!R!Start, D!R!BeginStart, D!R!ClearEvent, D!R!SetRunning,
     D!R!CreateThread, D!R!LaunchThread, D!R!GoTo, D!R!ownerVars,
     D!R!sharedVars, D!R!threadVars,
     P!R!Start, P!R!BeginStart, P!R!ClearEvent, P!R!SetRunning,
     P!R!CreateThread, P!R!LaunchThread, P!R!GoTo, P!R!ownerVars,
     P!R!sharedVars, P!R!threadVars

LEMMA SameThreads ==
  ASSUME NEW t
  PROVE  /\ D!R!ReaderAlone(t) => P!R!ReaderAlone(t)
         /\ D!R!NextMessage(t) => P!R!NextMessage(t)
         /\ D!R!EndAfterFault(t) => P!R!EndAfterFault(t)
  BY DEF D!R!ReaderAlone, D!R!NextMessage, D!R!EndAfterFault, D!R!TestEvent,
     D!R!Read, D!R!ReadFails, D!R!Drained, D!R!SetFaulted, D!R!FaultSetsEvent,
     D!R!Step, D!R!ownerVars, D!R!sharedVars,
     P!R!ReaderAlone, P!R!NextMessage, P!R!EndAfterFault, P!R!TestEvent,
     P!R!Read, P!R!ReadFails, P!R!Drained, P!R!SetFaulted, P!R!FaultSetsEvent,
     P!R!Step, P!R!ownerVars, P!R!sharedVars
----------------------------------------------------------------------------
\* The steps of create() and close(), one by one.
LEMMA Regrouped ==
  ASSUME NEW S, NEW s \in Seq(S), NEW r \in Seq(S), NEW q \in Seq(S)
  PROVE  s \o (r \o q) = (s \o r) \o q
  OBVIOUS

LEMMA OneMore ==
  ASSUME NEW S, NEW s \in Seq(S), NEW q \in Seq(S), NEW x,
         Len(q) = Len(s) + 1, q[Len(s) + 1] = x,
         \A i \in 1 .. Len(s) : q[i] = s[i]
  PROVE  s \o <<x>> = q
  <1>1. x \in S
    OBVIOUS
  <1>2. QED
    BY <1>1

LEMMA OneByOne ==
  /\ \A a, b : <<a>> \o <<b>> = <<a, b>>
  /\ \A a, b, c : <<a, b>> \o <<c>> = <<a, b, c>>
  /\ \A a, b, c, d : <<a, b, c>> \o <<d>> = <<a, b, c, d>>
  /\ \A a, b, c, d, e : <<a, b, c, d>> \o <<e>> = <<a, b, c, d, e>>
  /\ \A a, b, c, d, e, f : <<a, b, c, d, e>> \o <<f>> = <<a, b, c, d, e, f>>
  /\ \A a, b, c, d, e, f, g : <<a, b, c, d, e, f>> \o <<g>> = <<a, b, c, d, e, f, g>>
  <1>1. ASSUME NEW a, NEW b PROVE <<a>> \o <<b>> = <<a, b>>
    <2> DEFINE s == <<a>>
               q == <<a, b>>
               S == {a, b}
    <2>1. /\ s \in Seq(S) /\ q \in Seq(S) /\ Len(q) = Len(s) + 1
          /\ q[Len(s) + 1] = b /\ \A i \in 1 .. Len(s) : q[i] = s[i]
      OBVIOUS
    <2> HIDE DEF s, q, S
    <2>2. s \o <<b>> = q
      BY <2>1, OneMore
    <2>3. QED
      BY <2>2 DEF s, q
  <1>2. ASSUME NEW a, NEW b, NEW c PROVE <<a, b>> \o <<c>> = <<a, b, c>>
    <2> DEFINE s == <<a, b>>
               q == <<a, b, c>>
               S == {a, b, c}
    <2>1. /\ s \in Seq(S) /\ q \in Seq(S) /\ Len(q) = Len(s) + 1
          /\ q[Len(s) + 1] = c /\ \A i \in 1 .. Len(s) : q[i] = s[i]
      OBVIOUS
    <2> HIDE DEF s, q, S
    <2>2. s \o <<c>> = q
      BY <2>1, OneMore
    <2>3. QED
      BY <2>2 DEF s, q
  <1>3. ASSUME NEW a, NEW b, NEW c, NEW d
        PROVE  <<a, b, c>> \o <<d>> = <<a, b, c, d>>
    <2> DEFINE s == <<a, b, c>>
               q == <<a, b, c, d>>
               S == {a, b, c, d}
    <2>1. /\ s \in Seq(S) /\ q \in Seq(S) /\ Len(q) = Len(s) + 1
          /\ q[Len(s) + 1] = d /\ \A i \in 1 .. Len(s) : q[i] = s[i]
      OBVIOUS
    <2> HIDE DEF s, q, S
    <2>2. s \o <<d>> = q
      BY <2>1, OneMore
    <2>3. QED
      BY <2>2 DEF s, q
  <1>4. ASSUME NEW a, NEW b, NEW c, NEW d, NEW e
        PROVE  <<a, b, c, d>> \o <<e>> = <<a, b, c, d, e>>
    <2> DEFINE s == <<a, b, c, d>>
               q == <<a, b, c, d, e>>
               S == {a, b, c, d, e}
    <2>1. /\ s \in Seq(S) /\ q \in Seq(S) /\ Len(q) = Len(s) + 1
          /\ q[Len(s) + 1] = e /\ \A i \in 1 .. Len(s) : q[i] = s[i]
      OBVIOUS
    <2> HIDE DEF s, q, S
    <2>2. s \o <<e>> = q
      BY <2>1, OneMore
    <2>3. QED
      BY <2>2 DEF s, q
  <1>5. ASSUME NEW a, NEW b, NEW c, NEW d, NEW e, NEW f
        PROVE  <<a, b, c, d, e>> \o <<f>> = <<a, b, c, d, e, f>>
    <2> DEFINE s == <<a, b, c, d, e>>
               q == <<a, b, c, d, e, f>>
               S == {a, b, c, d, e, f}
    <2>1. /\ s \in Seq(S) /\ q \in Seq(S) /\ Len(q) = Len(s) + 1
          /\ q[Len(s) + 1] = f /\ \A i \in 1 .. Len(s) : q[i] = s[i]
      OBVIOUS
    <2> HIDE DEF s, q, S
    <2>2. s \o <<f>> = q
      BY <2>1, OneMore
    <2>3. QED
      BY <2>2 DEF s, q
  <1>6. ASSUME NEW a, NEW b, NEW c, NEW d, NEW e, NEW f, NEW g
        PROVE  <<a, b, c, d, e, f>> \o <<g>> = <<a, b, c, d, e, f, g>>
    <2> DEFINE s == <<a, b, c, d, e, f>>
               q == <<a, b, c, d, e, f, g>>
               S == {a, b, c, d, e, f, g}
    <2>1. /\ s \in Seq(S) /\ q \in Seq(S) /\ Len(q) = Len(s) + 1
          /\ q[Len(s) + 1] = g /\ \A i \in 1 .. Len(s) : q[i] = s[i]
      OBVIOUS
    <2> HIDE DEF s, q, S
    <2>2. s \o <<g>> = q
      BY <2>1, OneMore
    <2>3. QED
      BY <2>2 DEF s, q
  <1>7. QED
    BY <1>1, <1>2, <1>3, <1>4, <1>5, <1>6

LEMMA BodiesAre == /\ Create = CreateSteps
                   /\ CloseAll = CloseSteps
                   /\ CloseAll \o Do("reraise") = RescueSteps
  <1>1. /\ D!Do("send", "GOTOCONFIG") = <<With("send")>>
        /\ D!Do("receive", "GOTOCONFIG") = <<With("receive")>>
        /\ \A what : D!Do(what, "") = <<Bare(what)>> /\ Do(what) = <<Bare(what)>>
    BY DEF D!Do, With, Bare, P!StepOf, P!NoArg, Do
  <1>2. CloseAll = CloseSteps
    <2> DEFINE a == Bare("cancel")
               b == Bare("await")
               c == Bare("stop")
               d == Bare("close")
    <2>1. CloseAll = ((<<a>> \o <<b>>) \o <<c>>) \o <<d>>
      BY <1>1 DEF CloseAll
    <2> HIDE DEF a, b, c, d
    <2>2. /\ <<a>> \o <<b>> = <<a, b>> /\ <<a, b>> \o <<c>> = <<a, b, c>>
          /\ <<a, b, c>> \o <<d>> = <<a, b, c, d>>
      BY OneByOne, Zenon
    <2>3. CloseAll = <<a, b, c, d>>
      BY <2>1, <2>2
    <2>4. QED
      BY <2>3 DEF CloseSteps, a, b, c, d
  <1>3. CloseSteps \o Do("reraise") = RescueSteps
    <2>1. \A a, b, c, d, e : <<a, b, c, d>> \o <<e>> = <<a, b, c, d, e>>
      BY OneByOne, Zenon
    <2>2. Do("reraise") = <<Bare("reraise")>>
      BY <1>1
    <2>3. QED
      BY <2>1, <2>2, Zenon DEF CloseSteps, RescueSteps
  <1>4. Create = CreateSteps
    <2> DEFINE a == Bare("open")
               b == Bare("flush")
               c == Bare("spawn")
               d == Bare("stop")
               e == With("send")
               f == With("receive")
               g == Bare("wrap")
               three == <<a, b, c>>
               S == {a, b, c, d, e, f, g}
    <2>1. Create = (((<<a>> \o <<b>>) \o <<c>>) \o (<<d>> \o (<<e>> \o <<f>>))) \o <<g>>
      BY <1>1 DEF Create, D!EnterConfig, D!Exchange
    <2>2. CreateSteps = <<a, b, c, d, e, f, g>>
      BY DEF CreateSteps
    <2>3. /\ three \in Seq(S) /\ <<d>> \in Seq(S) /\ <<e>> \in Seq(S)
          /\ <<f>> \in Seq(S)
      OBVIOUS
    <2> HIDE DEF a, b, c, d, e, f, g, S
    <2>4. (<<a>> \o <<b>>) \o <<c>> = three
      <3>1. <<a>> \o <<b>> = <<a, b>> /\ <<a, b>> \o <<c>> = <<a, b, c>>
        BY OneByOne, Zenon
      <3>2. QED
        BY <3>1
    <2> HIDE DEF three
    <2>5. three \o (<<d>> \o (<<e>> \o <<f>>)) = ((three \o <<d>>) \o <<e>>) \o <<f>>
      <3>1. three \o <<d>> \in Seq(S) /\ <<e>> \o <<f>> \in Seq(S)
        BY <2>3
      <3>2. three \o (<<d>> \o (<<e>> \o <<f>>)) = (three \o <<d>>) \o (<<e>> \o <<f>>)
        BY <2>3, <3>1, Regrouped
      <3>3. (three \o <<d>>) \o (<<e>> \o <<f>>) = ((three \o <<d>>) \o <<e>>) \o <<f>>
        BY <2>3, <3>1, Regrouped
      <3>4. QED
        BY <3>2, <3>3
    <2>6. (((three \o <<d>>) \o <<e>>) \o <<f>>) \o <<g>> = <<a, b, c, d, e, f, g>>
      <3>1. three \o <<d>> = <<a, b, c, d>>
        BY OneByOne, Zenon DEF three
      <3>2. <<a, b, c, d>> \o <<e>> = <<a, b, c, d, e>>
        BY OneByOne
      <3>3. <<a, b, c, d, e>> \o <<f>> = <<a, b, c, d, e, f>>
        BY OneByOne
      <3>4. <<a, b, c, d, e, f>> \o <<g>> = <<a, b, c, d, e, f, g>>
        BY OneByOne
      <3>5. QED
        BY <3>1, <3>2, <3>3, <3>4
    <2>7. QED
      BY <2>1, <2>2, <2>4, <2>5, <2>6, Zenon
  <1>5. QED
    BY <1>2, <1>3, <1>4

LEMMA CreateFacts ==
  ASSUME NEW i \in 1 .. 7, todo = Left(CreateSteps, i)
  PROVE  /\ todo # <<>> /\ Tail(todo) = Left(CreateSteps, i + 1)
         /\ i = 7 => Tail(todo) = <<>>
         /\ Head(todo).do = <<"open", "flush", "spawn", "stop", "send",
                              "receive", "wrap">>[i]
         /\ i \in {5, 6} => Head(todo).arg = "GOTOCONFIG"
  <1> DEFINE S == {CreateSteps[k] : k \in 1 .. 7}
  <1>1. CreateSteps \in Seq(S) /\ Len(CreateSteps) = 7
    BY DEF CreateSteps
  <1> HIDE DEF S
  <1>2. /\ todo # <<>> /\ Tail(todo) = Left(CreateSteps, i + 1)
        /\ i = 7 => Tail(todo) = <<>>
        /\ Head(todo) = CreateSteps[i]
    <2>1. i \in 1 .. Len(CreateSteps)
      BY <1>1
    <2>2. /\ Left(CreateSteps, i) # <<>> /\ Head(Left(CreateSteps, i)) = CreateSteps[i]
          /\ Tail(Left(CreateSteps, i)) = Left(CreateSteps, i + 1)
          /\ i = Len(CreateSteps) => Tail(Left(CreateSteps, i)) = <<>>
      BY <1>1, <2>1, LeftOver
    <2>3. QED
      BY <1>1, <2>2
  <1>3. \A what : /\ Bare(what).do = what /\ With(what).do = what
                  /\ With(what).arg = "GOTOCONFIG"
    BY DEF Bare, With, P!StepOf
  <1>4. /\ CreateSteps[i].do = <<"open", "flush", "spawn", "stop", "send",
                                 "receive", "wrap">>[i]
        /\ i \in {5, 6} => CreateSteps[i].arg = "GOTOCONFIG"
    BY <1>3 DEF CreateSteps
  <1>5. QED
    BY <1>2, <1>4

LEMMA CloseFacts ==
  ASSUME NEW i \in 1 .. 4, todo = Left(CloseSteps, i)
  PROVE  /\ todo # <<>> /\ Tail(todo) = Left(CloseSteps, i + 1)
         /\ i = 4 => Tail(todo) = <<>>
         /\ Head(todo).do = <<"cancel", "await", "stop", "close">>[i]
  <1> DEFINE S == {CloseSteps[k] : k \in 1 .. 4}
  <1>1. CloseSteps \in Seq(S) /\ Len(CloseSteps) = 4
    BY DEF CloseSteps
  <1> HIDE DEF S
  <1>2. /\ todo # <<>> /\ Tail(todo) = Left(CloseSteps, i + 1)
        /\ i = 4 => Tail(todo) = <<>>
        /\ Head(todo) = CloseSteps[i]
    <2>1. i \in 1 .. Len(CloseSteps)
      BY <1>1
    <2>2. /\ Left(CloseSteps, i) # <<>> /\ Head(Left(CloseSteps, i)) = CloseSteps[i]
          /\ Tail(Left(CloseSteps, i)) = Left(CloseSteps, i + 1)
          /\ i = Len(CloseSteps) => Tail(Left(CloseSteps, i)) = <<>>
      BY <1>1, <2>1, LeftOver
    <2>3. QED
      BY <1>1, <2>2
  <1>3. \A what : Bare(what).do = what
    BY DEF Bare, P!StepOf
  <1>4. CloseSteps[i].do = <<"cancel", "await", "stop", "close">>[i]
    BY <1>3 DEF CloseSteps
  <1>5. QED
    BY <1>2, <1>4

LEMMA RescueFacts ==
  ASSUME NEW i \in 1 .. 5, todo = Left(RescueSteps, i)
  PROVE  /\ todo # <<>> /\ Tail(todo) = Left(RescueSteps, i + 1)
         /\ i = 5 => Tail(todo) = <<>>
         /\ Head(todo).do = <<"cancel", "await", "stop", "close", "reraise">>[i]
  <1> DEFINE S == {RescueSteps[k] : k \in 1 .. 5}
  <1>1. RescueSteps \in Seq(S) /\ Len(RescueSteps) = 5
    BY DEF RescueSteps
  <1> HIDE DEF S
  <1>2. /\ todo # <<>> /\ Tail(todo) = Left(RescueSteps, i + 1)
        /\ i = 5 => Tail(todo) = <<>>
        /\ Head(todo) = RescueSteps[i]
    <2>1. i \in 1 .. Len(RescueSteps)
      BY <1>1
    <2>2. /\ Left(RescueSteps, i) # <<>> /\ Head(Left(RescueSteps, i)) = RescueSteps[i]
          /\ Tail(Left(RescueSteps, i)) = Left(RescueSteps, i + 1)
          /\ i = Len(RescueSteps) => Tail(Left(RescueSteps, i)) = <<>>
      BY <1>1, <2>1, LeftOver
    <2>3. QED
      BY <1>1, <2>2
  <1>3. \A what : Bare(what).do = what
    BY DEF Bare, P!StepOf
  <1>4. RescueSteps[i].do = <<"cancel", "await", "stop", "close", "reraise">>[i]
    BY <1>3 DEF RescueSteps
  <1>5. QED
    BY <1>2, <1>4
----------------------------------------------------------------------------
\* How far create(), close() and the other calls get.
LEMMA CalledFacts ==
  ASSUME Called, todo # <<>>
  PROVE  /\ Head(todo) \in P!Steps
         /\ Head(todo).do \in {"send", "receive", "stop", "start", "assign"}
         /\ P!CallLeft(Tail(todo))
         /\ Tail(todo) # <<>>
              => Tail(todo)[Len(Tail(todo))].do \in {"assign", "receive"}
         /\ Tail(todo) # <<>> => P!Follows(Head(todo), Head(Tail(todo)))
         /\ P!Final(Head(todo)) => Tail(todo) = <<>>
  <1>1. P!Chain(todo) /\ todo[Len(todo)].do \in {"assign", "receive"}
    BY DEF Called, P!CallLeft
  <1>2. /\ P!Chain(Tail(todo)) /\ Head(todo) \in P!Steps
        /\ Tail(todo) # <<>> => /\ P!Follows(Head(todo), Head(Tail(todo)))
                                /\ Tail(todo)[Len(Tail(todo))] = todo[Len(todo)]
        /\ Tail(todo) = <<>> => Head(todo) = todo[Len(todo)]
    BY <1>1, Bounds, P!TailOfChain
  <1>3. P!Final(Head(todo)) => Tail(todo) = <<>>
    BY <1>1, Bounds, P!LastSteps
  <1>4. Head(todo).do \notin {"close", "dispatch"}
    BY <1>1, <1>2, <1>3 DEF P!Final
  <1>5. Head(todo).do \in {"send", "receive", "stop", "start", "assign"}
    BY <1>2, <1>4 DEF P!Steps
  <1>6. P!CallLeft(Tail(todo))
    BY <1>1, <1>2 DEF P!CallLeft, P!Starting
  <1>7. QED
    BY <1>1, <1>2, <1>3, <1>5, <1>6

\* Who makes the next step, and where it is in its call.
LEMMA DoingIs ==
  ASSUME SchedulingTyped, Stage, NEW what, D!Doing(what)
  PROVE  \/ /\ handle = "creating"
            /\ \E i \in 1 .. 7 : CreatingAt(i) /\ what = Head(todo).do
         \/ /\ handle = "creating"
            /\ \E i \in 1 .. 5 : RescuingAt(i) /\ what = Head(todo).do
         \/ /\ handle = "made" /\ Called
            /\ what \in {"send", "receive", "stop", "start", "assign"}
         \/ /\ handle = "made"
            /\ \E i \in 1 .. 4 : ClosingAt(i) /\ what = Head(todo).do
  <1>1. todo # <<>> /\ what = Head(todo).do
    BY DEF D!Doing
  <1>2. CASE handle = "creating"
    BY <1>1, <1>2 DEF Stage, Creating, Raised
  <1>3. CASE handle = "made"
    BY <1>1, <1>3, CalledFacts DEF Stage, Made, Closed
  <1>4. CASE handle = "failed"
    BY <1>1, <1>4 DEF Stage, Failed
  <1>5. QED
    BY <1>2, <1>3, <1>4 DEF SchedulingTyped

\* Nothing happens to the reader and to the messages.
LEMMA NothingNext ==
  ASSUME NothingYet, UNCHANGED <<thread, pc, rpc, tracked, queue, caller>>,
         SchedulingTyped,
         \/ scheduled' = scheduled
         \/ scheduled' = Append(scheduled, Resumption)
         \/ scheduled # <<>> /\ scheduled' = Tail(scheduled)
  PROVE  NothingYet'
  <1>1. scheduled \in Seq(Callbacks) /\ Resumption \in Callbacks
    BY DEF SchedulingTyped, Callbacks
  <1>2. Only(scheduled', Resumption)
    BY <1>1, Appended, Removed DEF NothingYet
  <1>3. QED
    BY <1>2 DEF NothingYet, D!R!None

\* The step of a call is done.
LEMMA Forward ==
  ASSUME SchedulingTyped, Stage, NEW what, D!Doing(what),
         what \in {"flush", "await", "stop", "start", "send", "receive", "assign"},
         what = "await" => dispatch \in {"cancelled", "ended"} \/ caller = "callback",
         todo' = Tail(todo), UNCHANGED <<portOpen, dispatch, handle, caller>>,
         handle = "creating" => NothingYet'
  PROVE  Stage'
  <1>1. ASSUME handle = "creating", NEW i \in 1 .. 7, CreatingAt(i),
               what = Head(todo).do
        PROVE  Stage'
    <2>1. /\ todo' = Left(CreateSteps, i + 1)
          /\ what = <<"open", "flush", "spawn", "stop", "send", "receive", "wrap">>[i]
      BY <1>1, CreateFacts DEF CreatingAt
    <2>2. i \notin {1, 3, 7}
      BY <2>1
    <2>3. i + 1 \in 1 .. 7 /\ CreatingAt(i + 1)'
      BY <1>1, <2>1, <2>2 DEF CreatingAt
    <2>4. QED
      BY <1>1, <2>3 DEF Stage, Creating
  <1>2. ASSUME handle = "creating", NEW i \in 1 .. 5, RescuingAt(i),
               what = Head(todo).do
        PROVE  Stage'
    <2>1. /\ todo' = Left(RescueSteps, i + 1)
          /\ what = <<"cancel", "await", "stop", "close", "reraise">>[i]
      BY <1>2, RescueFacts DEF RescuingAt
    <2>2. i \in {2, 3} /\ (i = 2 => what = "await")
      BY <2>1
    <2>3. caller = "main"
      BY <1>2 DEF Stage, NothingYet
    <2>4. i + 1 \in 1 .. 5 /\ RescuingAt(i + 1)'
      BY <1>2, <2>1, <2>2, <2>3 DEF RescuingAt
    <2>5. QED
      BY <1>2, <2>4 DEF Stage, Creating
  <1>3. CASE handle = "made" /\ Called
    <2>1. todo # <<>>
      BY DEF D!Doing
    <2>2. Called'
      BY <1>3, <2>1, CalledFacts DEF Called
    <2>3. QED
      BY <1>3, <2>2 DEF Stage, Made
  <1>4. ASSUME handle = "made", NEW i \in 1 .. 4, ClosingAt(i),
               what = Head(todo).do
        PROVE  Stage'
    <2>1. /\ todo' = Left(CloseSteps, i + 1)
          /\ what = <<"cancel", "await", "stop", "close">>[i]
      BY <1>4, CloseFacts DEF ClosingAt
    <2>2. i \in {2, 3} /\ (i = 2 => what = "await")
      BY <2>1
    <2>3. i + 1 \in 1 .. 4 /\ ClosingAt(i + 1)'
      BY <1>4, <2>1, <2>2 DEF ClosingAt, Quieted, SchedulingTyped
    <2>4. QED
      BY <1>4, <2>3 DEF Stage, Made
  <1>5. QED
    BY <1>1, <1>2, <1>3, <1>4, DoingIs

\* It raises: so may what sends or waits for an answer.
LEMMA Halted ==
  ASSUME SchedulingTyped, Stage, NEW what, D!Doing(what),
         what \in {"send", "receive"},
         todo' = <<>>, UNCHANGED <<portOpen, dispatch, handle, caller>>,
         handle = "creating" => NothingYet'
  PROVE  Stage'
  <1>1. ASSUME handle = "creating", NEW i \in 1 .. 7, CreatingAt(i),
               what = Head(todo).do
        PROVE  Stage'
    <2>1. what = <<"open", "flush", "spawn", "stop", "send", "receive", "wrap">>[i]
      BY <1>1, CreateFacts DEF CreatingAt
    <2>2. i \in {5, 6}
      BY <2>1
    <2>3. Raised'
      BY <1>1, <2>2 DEF CreatingAt, Raised
    <2>4. QED
      BY <1>1, <2>3 DEF Stage, Creating
  <1>2. ASSUME handle = "creating", NEW i \in 1 .. 5, RescuingAt(i),
               what = Head(todo).do
        PROVE  FALSE
    BY <1>2, RescueFacts DEF RescuingAt
  <1>3. CASE handle = "made" /\ Called
    <2>1. P!CallLeft(<<>>)
      BY DEF P!CallLeft, P!Chain
    <2>2. Called'
      BY <1>3, <2>1 DEF Called
    <2>3. QED
      BY <1>3, <2>2 DEF Stage, Made
  <1>4. ASSUME handle = "made", NEW i \in 1 .. 4, ClosingAt(i),
               what = Head(todo).do
        PROVE  FALSE
    BY <1>4, CloseFacts DEF ClosingAt
  <1>5. QED
    BY <1>1, <1>2, <1>3, <1>4, DoingIs

\* What happens to a device that is there, besides its calls.
LEMMA StageKept ==
  ASSUME SchedulingTyped, Stage, UNCHANGED <<todo, portOpen, handle, caller>>,
         \/ dispatch' = dispatch
         \/ handle = "made" /\ dispatch \in {"waiting", "handling"} /\ dispatch' # "none"
         \/ dispatch = "cancelling" /\ dispatch' = "cancelled",
         handle # "made" => NothingYet'
  PROVE  Stage'
  <1>1. CASE handle = "creating"
    <2>1. dispatch' = dispatch \/ (dispatch = "cancelling" /\ dispatch' = "cancelled")
      BY <1>1
    <2>2. ASSUME NEW i, CreatingAt(i) PROVE CreatingAt(i)'
      BY <2>1, <2>2 DEF CreatingAt
    <2>3. ASSUME NEW i \in 1 .. 5, RescuingAt(i) PROVE RescuingAt(i)'
      BY <2>1, <2>3 DEF RescuingAt
    <2>4. Raised => Raised'
      BY <2>1 DEF Raised
    <2>5. QED
      BY <1>1, <2>2, <2>3, <2>4 DEF Stage, Creating
  <1>2. CASE handle = "failed"
    BY <1>2 DEF Stage, Failed
  <1>3. CASE handle = "made"
    <2>1. Quieted => Quieted'
      BY DEF Quieted
    <2>2. ASSUME NEW i, ClosingAt(i) PROVE ClosingAt(i)'
      BY <2>1, <2>2 DEF ClosingAt, Quieted
    <2>3. Called => Called'
      BY DEF Called
    <2>4. Closed => Closed'
      BY <2>1 DEF Closed
    <2>5. QED
      BY <1>3, <2>2, <2>3, <2>4 DEF Stage, Made
  <1>4. QED
    BY <1>1, <1>2, <1>3 DEF SchedulingTyped

----------------------------------------------------------------------------
\* The steps of a call that MtiDevice has too, and what they leave alone.
LEMMA SameOwner ==
  /\ D!BeginStop => P!BeginStop
  /\ D!BeginStart => P!BeginStart
  /\ D!InReader => P!InReader
  <1> USE DEF D!Doing, P!Doing, D!Done, P!Done, D!deviceVars, P!deviceVars,
              D!sensorVars, P!sensorVars, D!userVars, P!userVars
  <1>1. D!BeginStop => P!BeginStop
    BY DEF D!BeginStop, P!BeginStop, D!R!BeginStop, P!R!BeginStop, D!R!GoTo,
       P!R!GoTo, D!R!sharedVars, P!R!sharedVars, D!R!threadVars, P!R!threadVars,
       D!R!None, P!R!None
  <1>2. D!BeginStart => P!BeginStart
    BY DEF D!BeginStart, P!BeginStart, D!R!BeginStart, P!R!BeginStart, D!R!GoTo,
       P!R!GoTo, D!R!sharedVars, P!R!sharedVars, D!R!threadVars, P!R!threadVars
  <1>3. D!InReader => P!InReader
    BY SameStarts, SameStops DEF D!InReader, P!InReader
  <1>4. QED
    BY <1>1, <1>2, <1>3

Resumes == scheduled' = scheduled \/ scheduled' = Append(scheduled, Resumption)

LEMMA ExchangeFacts ==
  ASSUME Send \/ Receive \/ GiveUp
  PROVE  /\ D!Doing("send") \/ D!Doing("receive")
         /\ todo' = todo \/ todo' = <<>> \/ todo' = Tail(todo)
         /\ D!Doing("send") => portOpen \/ todo' = <<>>
         /\ UNCHANGED <<readerVars, tracked, queue, portOpen, dispatch, handle, caller>>
         /\ Resumes
  <1> USE DEF Keeping, readerVars, D!readerVars, D!deviceVars, D!sensorVars,
              D!Done, D!Raise, Resumes
  <1>1. CASE Send
    BY <1>1 DEF Send, D!Send, D!Doing
  <1>2. CASE Receive
    BY <1>2 DEF Receive, D!Receive, D!Doing
  <1>3. CASE GiveUp
    BY <1>3 DEF GiveUp, D!GiveUp, WorkerDone, D!Doing
  <1>4. QED
    BY <1>1, <1>2, <1>3

LEMMA AssignFacts ==
  ASSUME Assign
  PROVE  /\ D!Doing("assign") /\ ~Resuming
         /\ tracked' = Head(todo).arg /\ todo' = Tail(todo)
         /\ UNCHANGED <<readerVars, queue, portOpen, scheduled, dispatch, handle, caller>>
  BY DEF Assign, D!Assign, D!Done, D!Doing, readerVars, D!readerVars,
     D!sensorVars, loopVars

LEMMA ClosePortFacts ==
  ASSUME ClosePort
  PROVE  /\ D!Doing("close") /\ portOpen' = FALSE /\ todo' = Tail(todo)
         /\ UNCHANGED <<readerVars, tracked, queue, dispatch, handle, caller>>
         /\ Resumes
  BY DEF ClosePort, Keeping, WorkerDone, Resumes, D!ClosePort, D!Done, D!Doing,
     readerVars, D!readerVars, D!deviceVars, D!sensorVars

LEMMA StopFacts ==
  ASSUME BeginStop
  PROVE  /\ D!Doing("stop") /\ todo' = Tail(todo)
         /\ pc' = IF thread = D!R!None THEN "idle" ELSE "set"
         /\ UNCHANGED <<thread, rpc, tracked, queue, portOpen, dispatch, handle, caller>>
         /\ Resumes
  BY DEF BeginStop, Keeping, WorkerDone, Resumes, D!BeginStop, D!Done, D!Doing,
     D!R!BeginStop, D!R!GoTo, D!R!sharedVars, D!R!threadVars, D!deviceVars,
     D!sensorVars

LEMMA StartFacts ==
  ASSUME BeginStart
  PROVE  /\ D!Doing("start") /\ ~Resuming /\ todo' = Tail(todo)
         /\ pc' \in {"idle", "clear"}
         /\ UNCHANGED <<thread, rpc, tracked, queue, portOpen, loopVars>>
  BY DEF BeginStart, D!BeginStart, D!Done, D!Doing, D!R!BeginStart, D!R!GoTo,
     D!R!sharedVars, D!R!threadVars, D!deviceVars, D!sensorVars

LEMMA InReaderFacts ==
  ASSUME InReader
  PROVE  /\ pc # "idle" /\ (P!R!Start \/ P!R!Stop)
         /\ UNCHANGED <<tracked, todo, queue, portOpen, dispatch, handle, caller>>
         /\ Resumes
  BY SameStarts, SameStops
     DEF InReader, Keeping, WorkerDone, Resumes, D!InReader, D!userVars,
         D!deviceVars, D!sensorVars

LEMMA ThreadFacts ==
  ASSUME NEW t \in Threads, Reader(t)
  PROVE  /\ t \in P!R!Threads
         /\ P!R!ReaderAlone(t) \/ P!R!NextMessage(t) \/ P!R!EndAfterFault(t)
         /\ rpc[t] # "unborn"
         /\ UNCHANGED <<thread, pc, tracked, todo, queue, portOpen, dispatch,
                        handle, caller>>
         /\ \/ scheduled' = scheduled
            \/ P!R!NextMessage(t) /\ scheduled' = Append(scheduled, Enqueueing(Head(acc[t])))
            \/ P!R!EndAfterFault(t) /\ scheduled' = Append(scheduled, Error)
  <1>1. t \in P!R!Threads
    BY SameSets
  <1>2. \/ /\ D!R!NextMessage(t)
           /\ scheduled' = Append(scheduled, Enqueueing(Head(acc[t])))
           /\ OutsideReader
        \/ D!R!EndAfterFault(t) /\ scheduled' = Append(scheduled, Error) /\ OutsideReader
        \/ /\ D!R!ReaderAlone(t) /\ UNCHANGED scheduled
           /\ UNCHANGED <<tracked, todo, queue, portOpen, dispatch, handle, caller>>
    BY DEF Reader, OnReaderMessage, OnReaderError, ReaderAlone, D!ReaderAlone,
       D!deviceVars, D!userVars, loopVars
  <1>3. \/ P!R!NextMessage(t) /\ D!R!NextMessage(t)
        \/ P!R!EndAfterFault(t) /\ D!R!EndAfterFault(t)
        \/ P!R!ReaderAlone(t) /\ D!R!ReaderAlone(t)
    BY <1>2, SameThreads
  <1>4. rpc[t] # "unborn" /\ UNCHANGED <<thread, pc>>
    BY <1>3 DEF D!R!ReaderAlone, D!R!NextMessage, D!R!EndAfterFault,
       D!R!TestEvent, D!R!Read, D!R!ReadFails, D!R!Drained, D!R!SetFaulted,
       D!R!FaultSetsEvent, D!R!Step, D!R!ownerVars
  <1>5. QED
    BY <1>1, <1>2, <1>3, <1>4, SameThreads DEF OutsideReader

LEMMA SensorFacts ==
  ASSUME Sensor
  PROVE  /\ UNCHANGED <<readerVars, tracked, todo, queue, portOpen, loopVars>>
         /\ (\E mid : D!Emit(mid)) \/ UNCHANGED line
  <1>1. (\E mid : D!Emit(mid)) \/ D!Overlook
    BY DEF Sensor, D!Sensor, D!Stream, D!Answer
  <1>2. QED
    BY <1>1 DEF Sensor, D!Emit, D!Overlook, readerVars, D!readerVars,
       D!deviceVars, D!userVars

----------------------------------------------------------------------------
\* The stage a device has reached: one step after the other.
LEMMA NothingKept ==
  ASSUME SchedulingTyped, Stage, Resumes,
         UNCHANGED <<thread, pc, rpc, tracked, queue, caller>>
  PROVE  handle # "made" => NothingYet'
  BY NothingNext DEF Stage, Resumes, SchedulingTyped

LEMMA ExchangeStage ==
  ASSUME SchedulingTyped, Stage, Send \/ Receive \/ GiveUp
  PROVE  Stage'
  <1>1. /\ \E what \in {"send", "receive"} : D!Doing(what)
        /\ todo' = todo \/ todo' = <<>> \/ todo' = Tail(todo)
        /\ UNCHANGED <<portOpen, dispatch, handle, caller>>
        /\ handle # "made" => NothingYet'
    BY ExchangeFacts, NothingKept DEF readerVars
  <1>2. CASE todo' = todo
    BY <1>1, <1>2, StageKept
  <1>3. CASE todo' = <<>>
    BY <1>1, <1>3, Halted
  <1>4. CASE todo' = Tail(todo)
    BY <1>1, <1>4, Forward
  <1>5. QED
    BY <1>1, <1>2, <1>3, <1>4

LEMMA OwnerStage ==
  ASSUME SchedulingTyped, Stage, BeginStop \/ BeginStart \/ InReader \/ Assign
  PROVE  Stage'
  <1>1. CASE BeginStop
    <2>1. /\ D!Doing("stop") /\ todo' = Tail(todo)
          /\ pc' = IF thread = D!R!None THEN "idle" ELSE "set"
          /\ UNCHANGED <<thread, rpc, tracked, queue, portOpen, dispatch, handle, caller>>
          /\ Resumes
      BY <1>1, StopFacts
    <2>2. handle # "made" => NothingYet /\ pc' = pc
      BY <2>1 DEF Stage, NothingYet, SchedulingTyped
    <2>3. handle # "made" => NothingYet'
      BY <2>1, <2>2, NothingNext DEF Resumes
    <2>4. QED
      BY <2>1, <2>3, Forward
  <1>2. CASE BeginStart \/ Assign
    <2>1. PICK what \in {"start", "assign"} :
             /\ D!Doing(what) /\ todo' = Tail(todo)
             /\ UNCHANGED <<portOpen, dispatch, handle, caller>>
      BY <1>2, StartFacts, AssignFacts DEF loopVars
    <2>2. handle = "made"
      <3>1. ASSUME NEW i \in 1 .. 7, CreatingAt(i) PROVE what # Head(todo).do
        BY <3>1, CreateFacts DEF CreatingAt
      <3>2. ASSUME NEW i \in 1 .. 5, RescuingAt(i) PROVE what # Head(todo).do
        BY <3>2, RescueFacts DEF RescuingAt
      <3>3. QED
        BY <2>1, <3>1, <3>2, DoingIs
    <2>3. QED
      BY <2>1, <2>2, Forward
  <1>3. CASE InReader
    <2>1. handle = "made"
      BY <1>3, InReaderFacts DEF Stage, NothingYet, SchedulingTyped
    <2>2. QED
      BY <1>3, <2>1, InReaderFacts, StageKept
  <1>4. QED
    BY <1>1, <1>2, <1>3

LEMMA ClosePortStage ==
  ASSUME SchedulingTyped, Stage, ClosePort
  PROVE  Stage'
  <1>1. /\ D!Doing("close") /\ portOpen' = FALSE /\ todo' = Tail(todo)
        /\ UNCHANGED <<dispatch, handle, caller>>
        /\ handle # "made" => NothingYet'
    BY ClosePortFacts, NothingKept DEF readerVars
  <1>2. ASSUME handle = "creating", NEW i \in 1 .. 5, RescuingAt(i),
               Head(todo).do = "close"
        PROVE  Stage'
    <2>1. i = 4 /\ todo' = Left(RescueSteps, 5)
      BY <1>1, <1>2, RescueFacts DEF RescuingAt
    <2>2. RescuingAt(5)'
      BY <1>1, <1>2, <2>1 DEF RescuingAt
    <2>3. QED
      BY <1>1, <1>2, <2>2 DEF Stage, Creating
  <1>3. ASSUME handle = "made", NEW i \in 1 .. 4, ClosingAt(i)
        PROVE  Head(todo).do = "close" => Stage'
    <2>1. Head(todo).do = "close" => i = 4 /\ todo' = <<>>
      BY <1>1, <1>3, CloseFacts DEF ClosingAt
    <2>2. Head(todo).do = "close" => Closed'
      BY <1>1, <1>3, <2>1 DEF ClosingAt, Closed, Quieted
    <2>3. QED
      BY <1>1, <1>3, <2>2 DEF Stage, Made
  <1>4. ASSUME NEW i \in 1 .. 7, CreatingAt(i) PROVE Head(todo).do # "close"
    BY <1>4, CreateFacts DEF CreatingAt
  <1>5. QED
    BY <1>1, <1>2, <1>3, <1>4, DoingIs

\* The steps of create() and close() that MtiDevice does not have.
LEMMA CreateStage ==
  ASSUME SchedulingTyped, Stage, Open \/ Flush \/ Spawn \/ Wrap
  PROVE  Stage'
  <1> USE DEF readerVars, LoopOnly, Doing, D!Done, WorkerDone, Resumes
  <1>1. PICK what \in {"open", "flush", "spawn", "wrap"} :
           /\ D!Doing(what)
           /\ UNCHANGED <<thread, pc, rpc, tracked, queue, caller>> /\ Resumes
           /\ what = "open" => Open
           /\ what = "flush" => Flush
           /\ what = "spawn" => Spawn
           /\ what = "wrap" => Wrap
    BY DEF Open, Flush, Spawn, Wrap
  <1>2. NothingYet => NothingYet'
    BY <1>1, NothingNext
  <1>3. ASSUME NEW i \in 1 .. 5, RescuingAt(i) PROVE what # Head(todo).do
    BY <1>3, RescueFacts DEF RescuingAt
  <1>4. ASSUME NEW i \in 1 .. 4, ClosingAt(i) PROVE what # Head(todo).do
    BY <1>4, CloseFacts DEF ClosingAt
  <1>5. handle = "creating" /\ \E i \in 1 .. 7 : CreatingAt(i) /\ what = Head(todo).do
    BY <1>1, <1>3, <1>4, DoingIs
  <1>6. PICK i \in 1 .. 7 : CreatingAt(i) /\ what = Head(todo).do
    BY <1>5
  <1>7. /\ Tail(todo) = Left(CreateSteps, i + 1) /\ (i = 7 => Tail(todo) = <<>>)
        /\ what = <<"open", "flush", "spawn", "stop", "send", "receive", "wrap">>[i]
    BY <1>6, CreateFacts DEF CreatingAt
  <1>8. NothingYet'
    BY <1>2, <1>5 DEF Stage
  <1>9. CASE what = "open"
    <2>1. i = 1 /\ dispatch = "none" /\ ~portOpen
      BY <1>6, <1>7, <1>9 DEF CreatingAt
    <2>2. /\ dispatch' = "none"
          /\ \/ portOpen' /\ todo' = Tail(todo) /\ handle' = "creating"
             \/ ~portOpen' /\ todo' = <<>> /\ handle' = "failed"
      BY <1>1, <1>5, <1>9, <2>1 DEF Open, Raises, D!Raise
    <2>3. CASE handle' = "failed"
      <3>1. Failed'
        BY <2>2, <2>3 DEF Failed
      <3>2. QED
        BY <1>8, <2>3, <3>1 DEF Stage
    <2>4. CASE handle' = "creating"
      <3>1. todo' = Left(CreateSteps, i + 1) /\ portOpen' /\ dispatch' = "none"
        BY <1>7, <2>2, <2>4
      <3>2. CreatingAt(i + 1)'
        BY <2>1, <3>1 DEF CreatingAt
      <3>3. QED
        BY <1>8, <2>1, <2>4, <3>2 DEF Stage, Creating
    <2>5. QED
      BY <2>2, <2>3, <2>4
  <1>10. CASE what \in {"flush", "spawn"}
    <2>1. /\ i \in {2, 3} /\ (i = 2 <=> what = "flush") /\ portOpen
          /\ dispatch = "none"
      BY <1>6, <1>7, <1>10 DEF CreatingAt
    <2>2. /\ portOpen' = portOpen
          /\ dispatch' = IF i = 2 THEN "none" ELSE "waiting"
          /\ \/ todo' = Tail(todo) /\ handle' = handle
             \/ i = 2 /\ todo' = <<>> /\ handle' = "failed"
      BY <1>1, <1>10, <2>1 DEF Flush, Spawn, Raises, D!Raise
    <2>3. CASE todo' = Tail(todo) /\ handle' = handle
      <3>1. CreatingAt(i + 1)' /\ i + 1 \in 1 .. 7
        BY <1>7, <2>1, <2>2, <2>3 DEF CreatingAt
      <3>2. QED
        BY <1>5, <1>8, <2>3, <3>1 DEF Stage, Creating
    <2>4. CASE i = 2 /\ todo' = <<>> /\ handle' = "failed"
      <3>1. dispatch' = "none"
        BY <2>2, <2>4
      <3>2. Failed'
        BY <2>4, <3>1 DEF Failed
      <3>3. QED
        BY <1>8, <2>4, <3>2 DEF Stage
    <2>5. QED
      BY <2>2, <2>3, <2>4
  <1>11. CASE what = "wrap"
    <2>1. i = 7 /\ portOpen /\ dispatch = "waiting"
      BY <1>6, <1>7, <1>11 DEF CreatingAt
    <2>2. handle' = "made" /\ todo' = <<>> /\ portOpen' = portOpen /\ dispatch' = dispatch
      BY <1>1, <1>7, <1>11, <2>1 DEF Wrap
    <2>3. Called'
      BY <2>1, <2>2 DEF Called, P!CallLeft, P!Chain
    <2>4. QED
      BY <2>1, <2>2, <2>3 DEF Stage, Made
  <1>12. QED
    BY <1>9, <1>10, <1>11

LEMMA CancelFacts ==
  ASSUME Rescue \/ Reraise \/ Cancel \/ Await
  PROVE  /\ UNCHANGED <<thread, pc, rpc, tracked, queue, caller, portOpen, scheduled>>
         /\ Cancel \/ Await \/ Rescue => UNCHANGED handle
         /\ Reraise \/ Await \/ Rescue => UNCHANGED dispatch
         /\ Reraise => D!Doing("reraise") /\ handle' = "failed" /\ todo' = Tail(todo)
         /\ Cancel => D!Doing("cancel") /\ todo' = Tail(todo)
         /\ Await => D!Doing("await") /\ todo' = Tail(todo)
  BY DEF Rescue, Reraise, Cancel, Await, LoopOnly, readerVars, Doing, D!Done

LEMMA CancelStage ==
  ASSUME SchedulingTyped, Stage, Rescue \/ Reraise \/ Cancel \/ Await
  PROVE  Stage'
  <1>1. /\ UNCHANGED <<portOpen, caller>>
        /\ handle # "made" => NothingYet'
    BY CancelFacts, NothingKept DEF Resumes
  <1>2. CASE Await
    <2>1. /\ D!Doing("await") /\ todo' = Tail(todo)
          /\ UNCHANGED <<dispatch, handle>>
          /\ dispatch \in {"cancelled", "ended"} \/ caller = "callback"
      BY <1>2, CancelFacts DEF Await
    <2>2. QED
      BY <1>1, <2>1, Forward
  <1>3. CASE Rescue
    <2>1. handle = "creating" /\ todo = <<>> /\ todo' = RescueSteps
          /\ UNCHANGED <<dispatch, handle>>
      BY <1>3, CancelFacts, BodiesAre DEF Rescue, Idle, D!Idle
    <2>2. ASSUME NEW i \in 1 .. 7, CreatingAt(i) PROVE FALSE
      BY <2>1, <2>2, CreateFacts DEF CreatingAt
    <2>3. ASSUME NEW i \in 1 .. 5, RescuingAt(i) PROVE FALSE
      BY <2>1, <2>3, RescueFacts DEF RescuingAt
    <2>4. Raised
      BY <2>1, <2>2, <2>3 DEF Stage, Creating
    <2>5. RescueSteps = Left(RescueSteps, 1)
      <3>1. RescueSteps \in Seq({RescueSteps[k] : k \in 1 .. 5}) /\ 1 \in 1 .. Len(RescueSteps)
        BY DEF RescueSteps
      <3>2. QED
        BY <3>1, LeftOver
    <2>6. RescuingAt(1)'
      BY <1>1, <2>1, <2>4, <2>5 DEF Raised, RescuingAt
    <2>7. QED
      BY <1>1, <2>1, <2>6 DEF Stage, Creating
  <1>4. CASE Reraise
    <2>1. /\ D!Doing("reraise") /\ todo' = Tail(todo) /\ handle' = "failed"
          /\ dispatch' = dispatch
      BY <1>4, CancelFacts
    <2>2. ASSUME NEW i \in 1 .. 7, CreatingAt(i) PROVE Head(todo).do # "reraise"
      BY <2>2, CreateFacts DEF CreatingAt
    <2>3. ASSUME NEW i \in 1 .. 4, ClosingAt(i) PROVE Head(todo).do # "reraise"
      BY <2>3, CloseFacts DEF ClosingAt
    <2>4. PICK i \in 1 .. 5 : RescuingAt(i) /\ Head(todo).do = "reraise"
      BY <2>1, <2>2, <2>3, DoingIs
    <2>5. i = 5 /\ todo' = <<>>
      BY <2>1, <2>4, RescueFacts DEF RescuingAt
    <2>6. handle # "made"
      BY <2>1, <2>2, <2>3, DoingIs
    <2>7. Failed'
      BY <1>1, <2>1, <2>4, <2>5 DEF RescuingAt, Failed
    <2>8. QED
      BY <1>1, <2>1, <2>6, <2>7 DEF Stage
  <1>5. CASE Cancel
    <2>1. /\ D!Doing("cancel") /\ todo' = Tail(todo) /\ handle' = handle
          /\ dispatch' = IF dispatch = "ended" \/ caller = "callback"
                         THEN dispatch ELSE "cancelling"
      BY <1>5, CancelFacts DEF Cancel
    <2>2. ASSUME NEW i \in 1 .. 7, CreatingAt(i) PROVE Head(todo).do # "cancel"
      BY <2>2, CreateFacts DEF CreatingAt
    <2>3. ASSUME handle = "creating", NEW i \in 1 .. 5, RescuingAt(i),
                 Head(todo).do = "cancel"
          PROVE  Stage'
      <3>1. i = 1 /\ todo' = Left(RescueSteps, i + 1)
        BY <2>1, <2>3, RescueFacts DEF RescuingAt
      <3>2. caller = "main" /\ dispatch = "waiting"
        BY <2>3, <3>1 DEF Stage, NothingYet, RescuingAt
      <3>3. RescuingAt(i + 1)' /\ i + 1 \in 1 .. 5
        BY <1>1, <2>1, <2>3, <3>1, <3>2 DEF RescuingAt
      <3>4. QED
        BY <1>1, <2>1, <2>3, <3>3 DEF Stage, Creating
    <2>4. ASSUME handle = "made", NEW i \in 1 .. 4, ClosingAt(i),
                 Head(todo).do = "cancel"
          PROVE  Stage'
      <3>1. i = 1 /\ todo' = Left(CloseSteps, i + 1)
        BY <2>1, <2>4, CloseFacts DEF ClosingAt
      <3>2. (Quieted \/ dispatch = "cancelling")'
        BY <1>1, <2>1 DEF Quieted, SchedulingTyped
      <3>3. ClosingAt(i + 1)' /\ i + 1 \in 1 .. 4
        BY <1>1, <2>1, <2>4, <3>1, <3>2 DEF ClosingAt
      <3>4. dispatch' # "none"
        BY <2>1, <2>4 DEF Stage
      <3>5. QED
        BY <2>1, <2>4, <3>3, <3>4 DEF Stage, Made
    <2>5. QED
      BY <2>1, <2>2, <2>3, <2>4, DoingIs
  <1>6. QED
    BY <1>2, <1>3, <1>4, <1>5

\* A call begins.
LEMMA CallFacts ==
  ASSUME NEW call \in Calls, NEW who \in {"main", "callback"}, Call(call, who)
  PROVE  /\ pc = "idle" /\ todo = <<>> /\ ~Resuming
         /\ handle = "made" /\ portOpen
         /\ call = "goto_measurement" => tracked = "CONFIG"
         /\ UNCHANGED <<readerVars, tracked, queue, portOpen, scheduled, dispatch, handle>>
         /\ todo' = IF call = "close" THEN CloseSteps ELSE P!Body(call)
         /\ caller' = who
  <1>1. call # "close" => Body(call) = P!Body(call)
    BY SameBodies DEF Body, Calls
  <1>2. call = "close" => Body(call) = CloseSteps
    BY BodiesAre DEF Body
  <1>3. QED
    BY <1>1, <1>2 DEF Call, MayCall, Idle, D!Idle, readerVars

LEMMA CallStage ==
  ASSUME SchedulingTyped, Stage, NEW call \in Calls,
         NEW who \in {"main", "callback"}, Call(call, who)
  PROVE  Stage'
  <1>1. /\ handle = "made" /\ handle' = "made" /\ dispatch' # "none" /\ portOpen'
        /\ todo' = IF call = "close" THEN CloseSteps ELSE P!Body(call)
    BY CallFacts DEF Stage
  <1>2. CASE call = "close"
    <2>1. CloseSteps = Left(CloseSteps, 1)
      <3>1. CloseSteps \in Seq({CloseSteps[k] : k \in 1 .. 4}) /\ 1 \in 1 .. Len(CloseSteps)
        BY DEF CloseSteps
      <3>2. QED
        BY <3>1, LeftOver
    <2>2. ClosingAt(1)'
      BY <1>1, <1>2, <2>1 DEF ClosingAt
    <2>3. QED
      BY <1>1, <2>2 DEF Stage, Made
  <1>3. CASE call # "close"
    <2>1. call \in P!Calls
      BY SameSets DEF Calls
    <2>2. Called'
      BY <1>1, <1>3, <2>1, Bounds, P!BodyFacts DEF Called, P!CallLeft
    <2>3. QED
      BY <1>1, <2>2 DEF Stage, Made
  <1>4. QED
    BY <1>2, <1>3

\* The loop turns: it executes what was scheduled, and the dispatch task.
LEMMA HeadIs ==
  ASSUME SchedulingTyped, scheduled # <<>>
  PROVE  /\ Head(scheduled) \in Callbacks
         /\ Head(scheduled).do = "error" => Head(scheduled) = Error
         /\ Head(scheduled).do = "resume" => Head(scheduled) = Resumption
         /\ Head(scheduled).do = "enqueue" => /\ Head(scheduled).msg \in D!Messages
                                             /\ Head(scheduled) # Error
                                             /\ Head(scheduled) # Resumption
  <1> DEFINE e == Head(scheduled)
  <1>1. e \in Callbacks
    BY DEF SchedulingTyped
  <1> HIDE DEF e
  <1>2. Error.do = "error" /\ Resumption.do = "resume"
    BY DEF Error, Resumption
  <1>3. e \in [do : {"enqueue"}, msg : D!Messages] => e.do = "enqueue" /\ e.msg \in D!Messages
    OBVIOUS
  <1>4. QED
    BY <1>1, <1>2, <1>3 DEF Callbacks, e

LEMMA RunFacts ==
  ASSUME SchedulingTyped, EnqueueMessage \/ OnError \/ Resume
  PROVE  /\ LoopFree /\ scheduled # <<>> /\ scheduled' = Tail(scheduled)
         /\ UNCHANGED <<readerVars, line, todo, portOpen, dispatch, handle, caller>>
         /\ \/ /\ EnqueueMessage /\ tracked' = tracked
               /\ Head(scheduled) # Error /\ Head(scheduled) # Resumption
            \/ /\ Head(scheduled) = Error
               /\ tracked' = "CONFIG" /\ queue' = queue
            \/ Head(scheduled) = Resumption /\ UNCHANGED <<tracked, queue>>
  <1>1. CASE EnqueueMessage
    BY <1>1, HeadIs DEF EnqueueMessage, RunNext, readerVars
  <1>2. CASE OnError
    BY <1>2, HeadIs DEF OnError, RunNext, readerVars
  <1>3. CASE Resume
    BY <1>3, HeadIs DEF Resume, RunNext, readerVars
  <1>4. QED
    BY <1>1, <1>2, <1>3

LEMMA TaskFacts ==
  ASSUME Dispatch \/ Handled \/ HandlingRaises \/ Cancelled
  PROVE  /\ LoopFree
         /\ UNCHANGED <<readerVars, line, tracked, todo, portOpen, handle, caller>>
         /\ \/ /\ queue # <<>> /\ dispatch = "waiting"
               /\ dispatch' = "handling" /\ scheduled' = scheduled
            \/ /\ dispatch = "handling"
               /\ dispatch' = "waiting" /\ scheduled' = scheduled /\ queue' = queue
            \/ /\ dispatch = "handling"
               /\ dispatch' = "ended" /\ queue' = queue
               /\ scheduled' = Append(scheduled, Error)
            \/ /\ dispatch = "cancelling"
               /\ dispatch' = "cancelled" /\ scheduled' = scheduled /\ queue' = queue
  BY DEF Dispatch, Handled, HandlingRaises, Cancelled, DispatchStep, readerVars

LEMMA LoopStage ==
  ASSUME SchedulingTyped, Stage, Loop
  PROVE  Stage'
  <1>1. CASE EnqueueMessage \/ OnError \/ Resume
    <2>1. handle # "made" => NothingYet'
      <3> SUFFICES ASSUME NothingYet PROVE NothingYet'
        BY <1>1, RunFacts DEF Stage, SchedulingTyped
      <3>1. scheduled # <<>> /\ scheduled' = Tail(scheduled)
        BY <1>1, RunFacts
      <3>2. Head(scheduled) = Resumption
        BY <3>1, Removed DEF NothingYet, SchedulingTyped
      <3>3. Error # Resumption
        BY DEF Error, Resumption
      <3>4. UNCHANGED <<thread, pc, rpc, tracked, queue, caller>>
        BY <1>1, <3>2, <3>3, RunFacts DEF readerVars
      <3>5. QED
        BY <3>1, <3>4, NothingNext
    <2>2. QED
      BY <1>1, <2>1, RunFacts, StageKept
  <1>2. CASE Dispatch \/ Handled \/ HandlingRaises \/ Cancelled
    <2>1. UNCHANGED <<todo, portOpen, handle, caller>> /\ UNCHANGED <<thread, pc, rpc, tracked>>
      BY <1>2, TaskFacts DEF readerVars
    <2>2. CASE handle = "made"
      BY <1>2, <2>1, <2>2, TaskFacts, StageKept
    <2>3. CASE handle # "made"
      <3>1. NothingYet /\ queue = <<>>
        BY <2>3 DEF Stage, NothingYet, SchedulingTyped
      <3>2. ASSUME NEW i, CreatingAt(i) PROVE dispatch # "handling"
        BY <3>2 DEF CreatingAt
      <3>3. ASSUME NEW i \in 1 .. 5, RescuingAt(i) PROVE dispatch # "handling"
        BY <3>3 DEF RescuingAt
      <3>4. dispatch # "handling"
        BY <2>3, <3>2, <3>3 DEF Stage, Creating, Raised, Failed, SchedulingTyped
      <3>5. /\ dispatch = "cancelling" /\ dispatch' = "cancelled"
            /\ scheduled' = scheduled /\ queue' = queue
        BY <1>2, <3>1, <3>4, TaskFacts
      <3>6. NothingYet'
        BY <2>1, <3>1, <3>5 DEF NothingYet
      <3>7. QED
        BY <2>1, <3>5, <3>6, StageKept
    <2>4. QED
      BY <2>2, <2>3
  <1>3. QED
    BY <1>1, <1>2 DEF Loop

LEMMA StageNext == SchedulingTyped /\ Stage /\ [Next]_vars => Stage'
  <1> SUFFICES ASSUME SchedulingTyped, Stage, [Next]_vars PROVE Stage'
    OBVIOUS
  <1>1. ASSUME UNCHANGED <<thread, pc, rpc, tracked, queue, todo, portOpen>>,
               UNCHANGED loopVars
        PROVE  Stage'
    BY <1>1, NothingKept, StageKept DEF loopVars, Resumes
  <1>2. ASSUME NEW call \in Calls, NEW who \in {"main", "callback"}, Call(call, who)
        PROVE  Stage'
    BY <1>2, CallStage
  <1>3. CASE SetOnMessage \/ Sensor \/ UNCHANGED vars
    BY <1>1, <1>3, SensorFacts DEF SetOnMessage, vars, readerVars, deviceVars
  <1>4. CASE InCall
    BY <1>4, ExchangeStage, OwnerStage, ClosePortStage, CreateStage, CancelStage
       DEF InCall
  <1>5. ASSUME NEW t \in Threads, Reader(t) PROVE Stage'
    <2>1. handle = "made"
      BY <1>5, ThreadFacts DEF Stage, NothingYet, SchedulingTyped
    <2>2. QED
      BY <1>5, <2>1, ThreadFacts, StageKept
  <1>6. QED
    BY <1>2, <1>3, <1>4, <1>5, LoopStage DEF Next

----------------------------------------------------------------------------
\* Every variable keeps its type, one step after the other.
LEMMA ScheduledTyped ==
  ASSUME SchedulingTyped,
         \/ Resumes
         \/ scheduled' = Append(scheduled, Error)
         \/ \E m \in D!Messages : scheduled' = Append(scheduled, Enqueueing(m))
         \/ scheduled # <<>> /\ scheduled' = Tail(scheduled)
  PROVE  scheduled' \in Seq(Callbacks)
  <1>1. scheduled \in Seq(Callbacks) /\ Error \in Callbacks /\ Resumption \in Callbacks
    BY DEF SchedulingTyped, Callbacks
  <1>2. \A m \in D!Messages : Enqueueing(m) \in Callbacks
    BY DEF Enqueueing, Callbacks
  <1> HIDE DEF Error, Resumption, Enqueueing, Callbacks
  <1>3. \A x \in Callbacks : Append(scheduled, x) \in Seq(Callbacks)
    BY <1>1
  <1>4. scheduled # <<>> => Tail(scheduled) \in Seq(Callbacks)
    BY <1>1
  <1>5. QED
    BY <1>1, <1>2, <1>3, <1>4, Zenon DEF Resumes

\* What the reader is to a step that does not touch it.
LEMMA ReaderKept ==
  ASSUME P!ReaderTyped, P!StartsBounded, UNCHANGED readerVars,
         line' \in Seq(P!Messages)
  PROVE  P!ReaderTyped' /\ P!StartsBounded'
  BY DEF P!ReaderTyped, P!StartsBounded, readerVars

LEMMA DeviceKept ==
  ASSUME P!DeviceTyped, UNCHANGED <<arrived, listening, wire, mode>>,
         tracked' \in P!Modes, queue' \in Seq(P!Messages), Len(queue') <= QueueSize,
         dispatched' \in Seq(Nat), calls' \in 0 .. MaxCalls, portOpen' \in BOOLEAN
  PROVE  P!DeviceTyped'
  BY AsyncAssumption DEF P!DeviceTyped, AsyncAssumption

LEMMA DeviceSame ==
  ASSUME P!DeviceTyped, UNCHANGED <<arrived, listening, wire, mode, tracked, queue,
                                    dispatched, calls, portOpen>>
  PROVE  P!DeviceTyped'
  BY DEF P!DeviceTyped

\* What is asked of the sensor, and what a call may assign.
LEMMA StepArgs ==
  ASSUME SchedulingTyped, Stage
  PROVE  /\ D!Doing("send") => Head(todo).arg \in P!Requests
         /\ D!Doing("assign") => Head(todo).arg \in P!Modes
         /\ D!Doing("assign") \/ D!Doing("start") =>
              handle = "made" /\ Called
  <1>1. ASSUME NEW i \in 1 .. 7, CreatingAt(i)
        PROVE  /\ Head(todo).do \notin {"assign", "start"}
               /\ Head(todo).do = "send" => Head(todo).arg = "GOTOCONFIG"
    BY <1>1, CreateFacts DEF CreatingAt
  <1>2. ASSUME NEW i \in 1 .. 5, RescuingAt(i)
        PROVE  Head(todo).do \notin {"assign", "start", "send"}
    BY <1>2, RescueFacts DEF RescuingAt
  <1>3. ASSUME NEW i \in 1 .. 4, ClosingAt(i)
        PROVE  Head(todo).do \notin {"assign", "start", "send"}
    BY <1>3, CloseFacts DEF ClosingAt
  <1>4. ASSUME Called, todo # <<>>
        PROVE  /\ Head(todo).do = "send" => Head(todo).arg \in P!Requests
               /\ Head(todo).do = "assign" => Head(todo).arg \in P!Modes
    BY <1>4, CalledFacts, Bounds, P!StepArgs
  <1>5. "GOTOCONFIG" \in P!Requests
    BY DEF P!Requests
  <1>6. \A what : D!Doing(what) => todo # <<>> /\ Head(todo).do = what
    BY DEF D!Doing
  <1>7. QED
    BY <1>1, <1>2, <1>3, <1>4, <1>5, <1>6, DoingIs

LEMMA CallTyped ==
  ASSUME Typed, NEW call \in Calls, NEW who \in {"main", "callback"}, Call(call, who)
  PROVE  Typed'
  <1>1. P!ReaderTyped' /\ P!StartsBounded'
    BY ReaderKept DEF Typed, Call, readerVars, P!ReaderTyped
  <1>2. calls' \in 0 .. MaxCalls
    BY AsyncAssumption DEF Typed, P!DeviceTyped, Call, MayCall, AsyncAssumption
  <1>3. P!DeviceTyped'
    BY <1>2, DeviceKept DEF Typed, P!DeviceTyped, Call
  <1>4. SchedulingTyped'
    BY DEF Typed, SchedulingTyped, Call
  <1>5. QED
    BY <1>1, <1>3, <1>4 DEF Typed

LEMMA ExchangeTyped ==
  ASSUME Typed, Stage, Send \/ Receive \/ GiveUp
  PROVE  Typed'
  <1>1. SchedulingTyped'
    BY ExchangeFacts, ScheduledTyped DEF Typed, SchedulingTyped
  <1>2. line' \in Seq(P!Messages)
    <2>1. CASE Send \/ GiveUp
      BY <2>1 DEF Send, GiveUp, D!Send, D!GiveUp, D!readerVars, Typed, P!ReaderTyped
    <2>2. CASE Receive
      <3>1. PICK n \in 1 .. Len(line) : line' = SubSeq(line, n + 1, Len(line))
        BY <2>2 DEF Receive, D!Receive
      <3>2. QED
        BY <3>1 DEF Typed, P!ReaderTyped
    <2>3. QED
      BY <2>1, <2>2
  <1>3. P!ReaderTyped' /\ P!StartsBounded'
    BY <1>2, ExchangeFacts, ReaderKept DEF Typed
  <1>4. P!DeviceTyped'
    <2>1. CASE Receive \/ GiveUp
      BY <2>1, DeviceSame DEF Receive, GiveUp, D!Receive, D!GiveUp, D!deviceVars,
         D!sensorVars, Typed
    <2>2. CASE Send
      <3>1. Head(todo).arg \in P!Requests
        BY <2>2, StepArgs DEF Send, D!Send, Typed
      <3>2. wire' = wire \/ wire' = Append(wire, Head(todo).arg)
        BY <2>2 DEF Send, D!Send
      <3>3. wire \in Seq(P!Requests)
        BY DEF Typed, P!DeviceTyped
      <3>4. wire' \in Seq(P!Requests)
        BY <3>1, <3>2, <3>3
      <3>5. QED
        BY <2>2, <3>4 DEF Send, D!Send, D!deviceVars, Typed, P!DeviceTyped
    <2>3. QED
      BY <2>1, <2>2
  <1>5. QED
    BY <1>1, <1>3, <1>4 DEF Typed

LEMMA OwnerTyped ==
  ASSUME Typed, BeginStop \/ BeginStart \/ InReader
  PROVE  Typed' /\ (P!R!Start \/ P!R!Stop)
  <1>1. P!R!Start \/ P!R!Stop
    BY SameOwner, InReaderFacts
       DEF BeginStop, BeginStart, P!BeginStop, P!BeginStart, P!R!Start, P!R!Stop
  <1>2. P!ReaderTyped' /\ P!StartsBounded'
    BY <1>1, Bounds, P!OwnerTypes DEF Typed
  <1>3. UNCHANGED <<arrived, listening, wire, mode, tracked, queue, dispatched,
                    calls, portOpen>>
    BY DEF BeginStop, BeginStart, InReader, D!BeginStop, D!BeginStart, D!InReader,
       D!deviceVars, D!userVars, D!sensorVars
  <1>4. P!DeviceTyped'
    BY <1>3, DeviceSame DEF Typed
  <1>5. UNCHANGED <<dispatch, handle, caller>> /\ Resumes
    BY StopFacts, StartFacts, InReaderFacts DEF loopVars, Resumes
  <1>6. SchedulingTyped'
    BY <1>5, ScheduledTyped DEF Typed, SchedulingTyped
  <1>7. QED
    BY <1>1, <1>2, <1>4, <1>6 DEF Typed

LEMMA AssignTyped ==
  ASSUME Typed, Stage, Assign
  PROVE  Typed'
  <1>1. UNCHANGED <<arrived, listening, wire, mode, queue, dispatched, calls,
                    portOpen, line, scheduled, dispatch, handle, caller>>
        /\ UNCHANGED readerVars
    BY DEF Assign, D!Assign, D!readerVars, readerVars, D!sensorVars, loopVars
  <1>2. tracked' \in P!Modes
    BY AssignFacts, StepArgs DEF Typed
  <1>3. P!DeviceTyped'
    BY <1>1, <1>2 DEF Typed, P!DeviceTyped
  <1>4. P!ReaderTyped' /\ P!StartsBounded'
    BY <1>1, ReaderKept DEF Typed, P!ReaderTyped
  <1>5. QED
    BY <1>1, <1>3, <1>4 DEF Typed, SchedulingTyped

LEMMA CreateTyped ==
  ASSUME Typed, ClosePort \/ Open \/ Flush \/ Spawn \/ Wrap \/ Rescue \/ Reraise
                  \/ Cancel \/ Await
  PROVE  Typed'
  <1>1. /\ UNCHANGED <<arrived, listening, wire, mode, tracked, queue, dispatched, calls>>
        /\ UNCHANGED readerVars
        /\ portOpen' = portOpen \/ portOpen' = TRUE \/ portOpen' = FALSE
        /\ line' = line \/ line' = <<>>
        /\ caller' = caller /\ Resumes
        /\ handle' \in {handle, "made", "failed"}
        /\ dispatch' \in {dispatch, "waiting", "cancelling"}
    <2> USE DEF readerVars, Resumes, WorkerDone, LoopOnly
    <2>1. CASE ClosePort
      BY <2>1 DEF ClosePort, Keeping, D!ClosePort, D!readerVars, D!deviceVars, D!sensorVars
    <2>2. CASE Open \/ Flush
      BY <2>2 DEF Open, Flush
    <2>3. CASE Spawn \/ Wrap
      BY <2>3 DEF Spawn, Wrap
    <2>4. CASE Rescue \/ Reraise \/ Cancel \/ Await
      BY <2>4 DEF Rescue, Reraise, Cancel, Await
    <2>5. QED
      BY <2>1, <2>2, <2>3, <2>4
  <1>2. line' \in Seq(P!Messages)
    <2>1. <<>> \in Seq(P!Messages)
      OBVIOUS
    <2>2. line \in Seq(P!Messages)
      BY DEF Typed, P!ReaderTyped
    <2>3. QED
      BY <1>1, <2>1, <2>2, Zenon
  <1>3. P!ReaderTyped' /\ P!StartsBounded'
    BY <1>1, <1>2, ReaderKept DEF Typed
  <1>4. P!DeviceTyped'
    BY <1>1, DeviceKept DEF Typed, P!DeviceTyped
  <1>5. SchedulingTyped'
    BY <1>1, ScheduledTyped DEF Typed, SchedulingTyped
  <1>6. QED
    BY <1>3, <1>4, <1>5 DEF Typed

LEMMA LoopTyped ==
  ASSUME Typed, Loop
  PROVE  Typed'
  <1>1. /\ UNCHANGED readerVars /\ line' = line
        /\ UNCHANGED <<arrived, listening, wire, mode, calls, portOpen, handle, caller>>
        /\ tracked' = tracked \/ tracked' = "CONFIG"
        /\ dispatch' \in {dispatch, "handling", "waiting", "ended", "cancelled"}
        /\ \/ Resumes
           \/ scheduled' = Append(scheduled, Error)
           \/ scheduled # <<>> /\ scheduled' = Tail(scheduled)
    BY DEF Loop, EnqueueMessage, OnError, Resume, RunNext, Dispatch, Handled,
       HandlingRaises, Cancelled, DispatchStep, readerVars, Resumes
  <1>2. P!ReaderTyped' /\ P!StartsBounded'
    BY <1>1, ReaderKept DEF Typed, P!ReaderTyped
  <1>3. SchedulingTyped'
    BY <1>1, ScheduledTyped DEF Typed, SchedulingTyped
  <1>4. /\ queue \in Seq(P!Messages) /\ Len(queue) <= QueueSize
        /\ dispatched \in Seq(Nat) /\ QueueSize \in Nat \ {0}
    BY AsyncAssumption DEF Typed, P!DeviceTyped, AsyncAssumption
  <1>5. queue' \in Seq(P!Messages) /\ Len(queue') <= QueueSize
    <2>1. CASE EnqueueMessage
      <3> DEFINE q == IF Len(queue) = QueueSize THEN Tail(queue) ELSE queue
                 m == Head(scheduled).msg
      <3>1. m \in P!Messages
        BY <2>1, HeadIs, SameSets DEF EnqueueMessage, RunNext, Typed
      <3>2. queue' = Append(q, m)
        BY <2>1 DEF EnqueueMessage
      <3>3. q \in Seq(P!Messages) /\ Len(q) < QueueSize
        BY <1>4
      <3> HIDE DEF q, m
      <3>4. QED
        BY <1>4, <3>1, <3>2, <3>3
    <2>2. CASE Dispatch
      <3>1. queue # <<>> /\ queue' = Tail(queue)
        BY <2>2 DEF Dispatch
      <3>2. QED
        BY <1>4, <3>1
    <2>3. CASE OnError \/ Resume \/ Handled \/ HandlingRaises \/ Cancelled
      BY <1>4, <2>3 DEF OnError, Resume, Handled, HandlingRaises, Cancelled
    <2>4. QED
      BY <2>1, <2>2, <2>3 DEF Loop
  <1>6. dispatched' \in Seq(Nat)
    <2>1. CASE Dispatch
      <3>1. queue # <<>> /\ dispatched' \in {dispatched, Append(dispatched, Head(queue).n)}
        BY <2>1 DEF Dispatch
      <3>2. Head(queue) \in P!Messages
        BY <1>4, <3>1
      <3>3. Head(queue).n \in Nat
        BY <3>2 DEF P!Messages
      <3>4. QED
        BY <1>4, <3>1, <3>3
    <2>2. CASE EnqueueMessage \/ OnError \/ Resume \/ Handled \/ HandlingRaises \/ Cancelled
      BY <1>4, <2>2 DEF EnqueueMessage, OnError, Resume, RunNext, Handled,
         HandlingRaises, Cancelled, DispatchStep
    <2>3. QED
      BY <2>1, <2>2 DEF Loop
  <1>7. tracked' \in P!Modes /\ calls' \in 0 .. MaxCalls /\ portOpen' \in BOOLEAN
    BY <1>1 DEF Typed, P!DeviceTyped, P!Modes
  <1>8. P!DeviceTyped'
    BY <1>1, <1>5, <1>6, <1>7, DeviceKept DEF Typed
  <1>9. QED
    BY <1>2, <1>3, <1>8 DEF Typed

LEMMA ThreadTyped ==
  ASSUME Typed, NEW t \in Threads, Reader(t)
  PROVE  Typed'
  <1>1. /\ t \in P!R!Threads
        /\ P!R!ReaderAlone(t) \/ P!R!NextMessage(t) \/ P!R!EndAfterFault(t)
    BY ThreadFacts
  <1>2. P!ReaderTyped' /\ P!StartsBounded'
    BY <1>1, Bounds, P!ThreadTypes DEF Typed
  <1>3. UNCHANGED <<arrived, listening, wire, mode, tracked, queue, dispatched,
                    calls, portOpen>>
    BY DEF Reader, OnReaderMessage, OnReaderError, ReaderAlone, OutsideReader,
       D!ReaderAlone, D!deviceVars, D!userVars, D!sensorVars
  <1>4. P!DeviceTyped'
    BY <1>3, DeviceSame DEF Typed
  <1>5. P!R!NextMessage(t) => Head(acc[t]) \in D!Messages
    <2>1. P!R!NextMessage(t) => acc[t] # <<>>
      BY DEF P!R!NextMessage
    <2>2. acc[t] \in Seq(D!Messages)
      BY <1>1, SameSets DEF Typed, P!ReaderTyped
    <2>3. QED
      BY <2>1, <2>2
  <1>6. scheduled' \in Seq(Callbacks) /\ UNCHANGED <<dispatch, handle, caller>>
    BY <1>5, ThreadFacts, ScheduledTyped DEF Typed, Resumes
  <1>7. QED
    BY <1>2, <1>4, <1>6 DEF Typed, SchedulingTyped

LEMMA SensorTyped ==
  ASSUME Typed, Sensor
  PROVE  Typed'
  <1>1. /\ UNCHANGED <<listening, tracked, queue, dispatched, calls, portOpen>>
        /\ UNCHANGED loopVars /\ UNCHANGED readerVars
    BY DEF Sensor, D!Sensor, D!Stream, D!Answer, D!Emit, D!Overlook, D!readerVars,
       readerVars, D!deviceVars, D!userVars
  <1>2. /\ (\E mid \in D!Mids : D!Emit(mid)) \/ UNCHANGED <<arrived, line>>
        /\ wire' = wire \/ (wire # <<>> /\ wire' = Tail(wire))
        /\ mode' \in {mode, "CONFIG", "MEASUREMENT"}
    <2>1. CASE D!Stream
      BY <2>1 DEF D!Stream, D!sensorVars, D!Mids
    <2>2. CASE D!Overlook
      BY <2>2 DEF D!Overlook, D!readerVars
    <2>3. CASE D!Answer
      <3>1. wire # <<>> /\ wire' = Tail(wire) /\ Head(wire) \in D!Mids
        BY <2>3, SameSets DEF D!Answer, Typed, P!DeviceTyped, D!Mids
      <3>2. /\ \E mid \in {Head(wire), "ERROR"} : D!Emit(mid)
            /\ mode' \in {mode, "CONFIG", "MEASUREMENT"}
        BY <2>3, Zenon DEF D!Answer
      <3>3. QED
        BY <3>1, <3>2 DEF D!Mids
    <2>4. QED
      BY <2>1, <2>2, <2>3 DEF Sensor, D!Sensor
  <1>3. P!ReaderTyped' /\ P!StartsBounded' /\ arrived' \in Nat
    <2>1. CASE UNCHANGED <<arrived, line>>
      BY <1>1, <2>1, ReaderKept DEF Typed, P!ReaderTyped, P!DeviceTyped
    <2>2. ASSUME NEW mid \in D!Mids, D!Emit(mid)
          PROVE  line' \in Seq(P!Messages) /\ arrived' \in Nat
      <3>1. arrived' = arrived + 1 /\ line' = Append(line, [n |-> arrived', mid |-> mid])
        BY <2>2 DEF D!Emit
      <3>2. arrived' \in Nat /\ [n |-> arrived', mid |-> mid] \in P!Messages
        BY <3>1, SameSets DEF Typed, P!DeviceTyped, P!Messages
      <3>3. QED
        BY <3>1, <3>2 DEF Typed, P!ReaderTyped
    <2>3. QED
      BY <1>1, <1>2, <2>1, <2>2, ReaderKept DEF Typed
  <1>4. wire' \in Seq(P!Requests) /\ mode' \in P!Modes
    <2>1. wire \in Seq(P!Requests) /\ mode \in P!Modes
      BY DEF Typed, P!DeviceTyped
    <2>2. wire # <<>> => Tail(wire) \in Seq(P!Requests)
      BY <2>1
    <2>3. QED
      BY <1>2, <2>1, <2>2 DEF P!Modes
  <1>5. P!DeviceTyped'
    BY <1>1, <1>3, <1>4 DEF Typed, P!DeviceTyped
  <1>6. QED
    BY <1>1, <1>3, <1>5 DEF Typed, SchedulingTyped, loopVars
LEMMA SetOnMessageTyped ==
  ASSUME Typed, SetOnMessage \/ UNCHANGED vars
  PROVE  Typed'
  <1>1. /\ UNCHANGED <<line, scheduled, dispatch, handle, caller>>
        /\ UNCHANGED readerVars
        /\ UNCHANGED <<arrived, tracked, queue, dispatched, calls, portOpen, wire, mode>>
        /\ listening' = listening \/ listening' = ~listening
    BY DEF SetOnMessage, vars, deviceVars, loopVars, readerVars
  <1>2. P!ReaderTyped' /\ P!StartsBounded'
    BY <1>1, ReaderKept DEF Typed, P!ReaderTyped
  <1>3. P!DeviceTyped'
    BY <1>1 DEF Typed, P!DeviceTyped
  <1>4. QED
    BY <1>1, <1>2, <1>3 DEF Typed, SchedulingTyped

LEMMA TypedNext == Typed /\ Stage /\ [Next]_vars => Typed'
  <1> SUFFICES ASSUME Typed, Stage, [Next]_vars PROVE Typed'
    OBVIOUS
  <1>1. CASE InCall
    BY <1>1, ExchangeTyped, OwnerTyped, AssignTyped, CreateTyped DEF InCall
  <1>2. ASSUME NEW call \in Calls, NEW who \in {"main", "callback"}, Call(call, who)
        PROVE  Typed'
    BY <1>2, CallTyped
  <1>3. ASSUME NEW t \in Threads, Reader(t) PROVE Typed'
    BY <1>3, ThreadTyped
  <1>4. QED
    BY <1>1, <1>2, <1>3, SetOnMessageTyped, LoopTyped, SensorTyped DEF Next

----------------------------------------------------------------------------
\* What the steps of a device do to its reader.
LEMMA ReaderSteps ==
  ASSUME Typed, [Next]_vars
  PROVE  \/ UNCHANGED readerVars
         \/ BeginStop \/ BeginStart \/ InReader
         \/ \E t \in Threads : Reader(t)
  <1>1. CASE InCall
    <2>1. CASE ClosePort
      BY <2>1, ClosePortFacts
    <2>2. CASE Open \/ Flush \/ Spawn \/ Wrap
      BY <2>2 DEF Open, Flush, Spawn, Wrap, LoopOnly
    <2>3. CASE Rescue \/ Reraise \/ Cancel \/ Await
      BY <2>3 DEF Rescue, Reraise, Cancel, Await, LoopOnly
    <2>4. QED
      BY <1>1, <2>1, <2>2, <2>3, ExchangeFacts, AssignFacts DEF InCall
  <1>2. CASE Loop
    <2>1. CASE EnqueueMessage \/ OnError \/ Resume
      BY <2>1, RunFacts DEF Typed
    <2>2. CASE Dispatch \/ Handled \/ HandlingRaises \/ Cancelled
      BY <2>2, TaskFacts
    <2>3. QED
      BY <1>2, <2>1, <2>2 DEF Loop
  <1>3. ASSUME NEW call \in Calls, NEW who \in {"main", "callback"}, Call(call, who)
        PROVE  UNCHANGED readerVars
    BY <1>3, CallFacts
  <1>4. CASE SetOnMessage \/ Sensor \/ UNCHANGED vars
    BY <1>4, SensorFacts DEF SetOnMessage, vars, deviceVars, readerVars
  <1>5. QED
    BY <1>1, <1>2, <1>3, <1>4 DEF Next

LEMMA ExclusionNext ==
  ASSUME Typed, P!Exclusion, [Next]_vars
  PROVE  P!Exclusion'
  <1>1. P!ReaderTyped /\ P!StartsBounded
    BY DEF Typed
  <1>2. CASE UNCHANGED readerVars
    BY <1>2 DEF readerVars, P!Exclusion, P!LiveIsCurrent, P!NobodyIsLive, P!Live
  <1>3. CASE BeginStop \/ BeginStart \/ InReader
    BY <1>1, <1>3, Bounds, OwnerTyped, P!ExclusionOwner
  <1>4. ASSUME NEW t \in Threads, Reader(t) PROVE P!Exclusion'
    BY <1>1, <1>4, Bounds, ThreadFacts, P!ExclusionThread
  <1>5. QED
    BY <1>2, <1>3, <1>4, ReaderSteps

\* A step of the reader's owner, and what is behind it.
LEMMA StartIsBehind ==
  ASSUME SchedulingTyped, Stage, BeginStart
  PROVE  Tail(todo) # <<>> /\ Head(Tail(todo)) = P!ToMeasurement /\ portOpen
  <1>1. D!Doing("start")
    BY StartFacts
  <1>2. Called /\ todo # <<>> /\ Head(todo).do = "start"
    BY <1>1, StepArgs DEF D!Doing
  <1>3. P!Starting(Head(todo)) /\ P!CallLeft(todo)
    BY <1>2 DEF P!Starting, Called
  <1>4. Tail(todo) # <<>>
    <2>1. Tail(todo) = <<>> => Head(todo) = todo[Len(todo)]
      BY <1>2, <1>3, Bounds, P!TailOfChain DEF P!CallLeft
    <2>2. QED
      BY <1>2, <1>3, <2>1 DEF P!CallLeft
  <1>5. P!Follows(Head(todo), Head(Tail(todo)))
    BY <1>2, <1>4, CalledFacts
  <1>6. QED
    BY <1>2, <1>3, <1>4, <1>5 DEF P!Follows, Called

\* A step that is not one of the reader's owner either leaves its position,
\* or makes a step of a call.
LEMMA TodoSteps ==
  ASSUME Typed, [Next]_vars, UNCHANGED readerVars
  PROVE  pc' = pc /\ (pc = "idle" \/ todo' = todo)
  <1>1. pc' = pc
    BY DEF readerVars
  <1>2. CASE InCall
    BY <1>1, <1>2 DEF InCall, Send, Receive, GiveUp, BeginStop, BeginStart, InReader,
       Assign, ClosePort, Open, Flush, Spawn, Wrap, Rescue, Reraise, Cancel, Await,
       D!Send, D!Receive, D!GiveUp, D!BeginStop, D!BeginStart, D!InReader, D!Assign,
       D!ClosePort, Doing, D!Doing, Idle, D!Idle, D!userVars
  <1>3. CASE Loop
    <2>1. CASE EnqueueMessage \/ OnError \/ Resume
      BY <1>1, <2>1, RunFacts DEF Typed
    <2>2. CASE Dispatch \/ Handled \/ HandlingRaises \/ Cancelled
      BY <1>1, <2>2, TaskFacts
    <2>3. QED
      BY <1>3, <2>1, <2>2 DEF Loop
  <1>4. ASSUME NEW call \in Calls, NEW who \in {"main", "callback"}, Call(call, who)
        PROVE  pc = "idle"
    BY <1>4, CallFacts
  <1>5. CASE SetOnMessage \/ Sensor \/ UNCHANGED vars
    BY <1>1, <1>5, SensorFacts DEF SetOnMessage, vars, deviceVars
  <1>6. ASSUME NEW t \in Threads, Reader(t) PROVE todo' = todo
    BY <1>6, ThreadFacts
  <1>7. QED
    BY <1>1, <1>2, <1>3, <1>4, <1>5, <1>6 DEF Next

LEMMA StartingNext ==
  ASSUME Typed, Stage, P!StartingOwner, [Next]_vars
  PROVE  P!StartingOwner'
  <1>1. CASE UNCHANGED readerVars
    BY <1>1, TodoSteps DEF P!StartingOwner
  <1>2. CASE BeginStop
    BY <1>2, StopFacts DEF P!StartingOwner
  <1>3. CASE BeginStart
    <2>1. todo' = Tail(todo) /\ Tail(todo) # <<>> /\ Head(Tail(todo)) = P!ToMeasurement
      BY <1>3, StartFacts, StartIsBehind DEF Typed
    <2>2. QED
      BY <2>1 DEF P!StartingOwner, P!ToMeasurement
  <1>4. CASE InReader
    <2>1. todo' = todo /\ pc # "idle" /\ (P!R!Start \/ P!R!Stop)
      BY <1>4, InReaderFacts
    <2>2. pc' \in {"clear", "running", "create", "launch"}
            => pc \in {"clear", "running", "create", "launch"}
      BY <2>1 DEF P!R!Start, P!R!BeginStart, P!R!ClearEvent, P!R!SetRunning,
         P!R!CreateThread, P!R!LaunchThread, P!R!Stop, P!R!BeginStop, P!R!SetEvent,
         P!R!Join, P!R!ForgetThread, P!R!ReadState, P!R!SetIdle, P!R!GoTo
    <2>3. QED
      BY <2>1, <2>2 DEF P!StartingOwner
  <1>5. ASSUME NEW t \in Threads, Reader(t) PROVE P!StartingOwner'
    BY <1>5, ThreadFacts DEF P!StartingOwner
  <1>6. QED
    BY <1>1, <1>2, <1>3, <1>4, <1>5, ReaderSteps
----------------------------------------------------------------------------
\* The port: all steps but those of the reader.
LEMMA BeginnersAre ==
  /\ CloseSteps # <<>> /\ Head(CloseSteps).do = "cancel"
  /\ RescueSteps # <<>> /\ Head(RescueSteps).do = "cancel"
  <1>1. Bare("cancel").do = "cancel"
    BY DEF Bare, P!StepOf
  <1> HIDE DEF Bare
  <1>2. QED
    BY <1>1 DEF CloseSteps, RescueSteps

LEMMA OtherSteps ==
  ASSUME Typed, [Next]_vars
  PROVE  \/ BeginStop \/ BeginStart \/ InReader
         \/ \E t \in Threads : Reader(t)
         \/ /\ UNCHANGED readerVars
            /\ \/ todo' = todo
               \/ todo' = <<>>
               \/ \E what : D!Doing(what) /\ what # "stop" /\ todo' = Tail(todo)
               \/ todo' # <<>> /\ Head(todo').do # "close"
            /\ \/ portOpen' = portOpen
               \/ portOpen' = TRUE
               \/ D!Doing("close") /\ todo' = Tail(todo)
  <1> DEFINE Moves == /\ \/ todo' = todo
                         \/ todo' = <<>>
                         \/ \E what : D!Doing(what) /\ what # "stop" /\ todo' = Tail(todo)
                         \/ todo' # <<>> /\ Head(todo').do # "close"
                      /\ \/ portOpen' = portOpen
                         \/ portOpen' = TRUE
                         \/ D!Doing("close") /\ todo' = Tail(todo)
  <1>1. ASSUME NEW what, D!Doing(what), what # "stop", todo' = Tail(todo),
               \/ portOpen' = portOpen \/ portOpen' = TRUE \/ what = "close"
        PROVE  Moves
    BY <1>1
  <1> HIDE DEF Moves
  <1>2. CASE Send \/ Receive \/ GiveUp
    <2>1. PICK what \in {"send", "receive"} : D!Doing(what)
      BY <1>2, ExchangeFacts
    <2>2. todo' = todo \/ todo' = <<>> \/ todo' = Tail(todo)
      BY <1>2, ExchangeFacts
    <2>3. portOpen' = portOpen
      BY <1>2, ExchangeFacts
    <2>4. Moves
      BY <2>1, <2>2, <2>3 DEF Moves
    <2>5. QED
      BY <1>2, <2>4, ExchangeFacts DEF Moves
  <1>3. CASE Assign \/ ClosePort
    <2>1. Moves /\ UNCHANGED readerVars
      BY <1>1, <1>3, AssignFacts, ClosePortFacts
    <2>2. QED
      BY <2>1 DEF Moves
  <1>4. CASE Open \/ Flush \/ Spawn \/ Wrap
    <2>1. UNCHANGED readerVars
      BY <1>4 DEF Open, Flush, Spawn, Wrap, LoopOnly
    <2>2. CASE Open
      <3>1. \/ D!Doing("open") /\ todo' = Tail(todo) /\ portOpen' = TRUE
            \/ todo' = <<>> /\ portOpen' = portOpen
        BY <2>2 DEF Open, Doing, D!Done, Raises, D!Raise
      <3>2. Moves
        BY <1>1, <3>1 DEF Moves
      <3>3. QED
        BY <2>1, <3>2 DEF Moves
    <2>3. CASE Flush \/ Spawn \/ Wrap
      <3>1. /\ portOpen' = portOpen
            /\ \/ todo' = <<>>
               \/ \E what \in {"flush", "spawn", "wrap"} :
                     D!Doing(what) /\ todo' = Tail(todo)
        BY <2>3 DEF Flush, Spawn, Wrap, Doing, D!Done, Raises, D!Raise, LoopOnly
      <3>2. Moves
        BY <1>1, <3>1 DEF Moves
      <3>3. QED
        BY <2>1, <3>2 DEF Moves
    <2>4. QED
      BY <1>4, <2>2, <2>3
  <1>5. CASE Rescue \/ Reraise \/ Cancel \/ Await
    <2>1. UNCHANGED readerVars
      BY <1>5 DEF Rescue, Reraise, Cancel, Await, LoopOnly
    <2>2. CASE Rescue
      <3>1. todo' = RescueSteps /\ portOpen' = portOpen
        BY <2>2, BodiesAre, CancelFacts DEF Rescue
      <3>2. QED
        BY <2>1, <3>1, BeginnersAre
    <2>3. CASE Reraise \/ Cancel \/ Await
      <3>1. \E what \in {"reraise", "cancel", "await"} :
               D!Doing(what) /\ todo' = Tail(todo) /\ portOpen' = portOpen
        BY <2>3, CancelFacts
      <3>2. Moves
        BY <1>1, <3>1
      <3>3. QED
        BY <2>1, <3>2 DEF Moves
    <2>4. QED
      BY <1>5, <2>2, <2>3
  <1>6. CASE Loop
    <2>1. CASE EnqueueMessage \/ OnError \/ Resume
      BY <2>1, RunFacts DEF Typed
    <2>2. CASE Dispatch \/ Handled \/ HandlingRaises \/ Cancelled
      BY <2>2, TaskFacts
    <2>3. QED
      BY <1>6, <2>1, <2>2 DEF Loop
  <1>7. ASSUME NEW call \in Calls, NEW who \in {"main", "callback"}, Call(call, who)
        PROVE  /\ UNCHANGED readerVars /\ portOpen' = portOpen
               /\ todo' # <<>> /\ Head(todo').do # "close"
    <2>1. /\ UNCHANGED readerVars /\ portOpen' = portOpen
          /\ todo' = IF call = "close" THEN CloseSteps ELSE P!Body(call)
      BY <1>7, CallFacts
    <2>2. call \in P!Calls
      BY SameSets DEF Calls
    <2>3. P!Body(call) # <<>> /\ P!Opening(Head(P!Body(call)))
      BY <2>2, Bounds, P!BodyFacts
    <2>4. QED
      BY <2>1, <2>3, BeginnersAre DEF P!Opening
  <1>8. CASE SetOnMessage \/ Sensor \/ UNCHANGED vars
    BY <1>8, SensorFacts DEF SetOnMessage, vars, deviceVars, readerVars
  <1>9. QED
    BY <1>2, <1>3, <1>4, <1>5, <1>6, <1>7, <1>8 DEF Next, InCall

\* A port is closed behind a stop of the reader, and the reader is started
\* behind an answer; a step that needs the port for itself comes behind a stop
\* or behind another one.
LEMMA WhatIsBehind ==
  ASSUME SchedulingTyped, Stage, NEW what, D!Doing(what), Tail(todo) # <<>>
  PROVE  /\ Head(Tail(todo)).do = "close" => what = "stop"
         /\ Head(Tail(todo)).do = "start" => what = "receive"
         /\ handle = "made" /\ P!QuietStep(Head(Tail(todo)))
              => what = "stop" \/ P!QuietStep(Head(todo))
  <1>1. ASSUME handle = "creating", NEW i \in 1 .. 7, CreatingAt(i),
               what = Head(todo).do
        PROVE  Head(Tail(todo)).do \notin {"close", "start"}
    <2>1. i # 7 /\ Tail(todo) = Left(CreateSteps, i + 1)
      BY <1>1, CreateFacts DEF CreatingAt
    <2>2. i + 1 \in 1 .. 7
      BY <2>1
    <2>3. /\ CreateSteps \in Seq({CreateSteps[k] : k \in 1 .. 7})
          /\ Len(CreateSteps) = 7
      BY DEF CreateSteps
    <2>4. Head(Left(CreateSteps, i + 1)) = CreateSteps[i + 1]
      BY <2>2, <2>3, LeftOver
    <2>5. \A k \in 1 .. 7 : CreateSteps[k].do \notin {"close", "start"}
      BY DEF CreateSteps, Bare, With, P!StepOf
    <2>6. QED
      BY <2>1, <2>2, <2>4, <2>5
  <1>2. ASSUME handle = "creating", NEW i \in 1 .. 5, RescuingAt(i),
               what = Head(todo).do
        PROVE  /\ Head(Tail(todo)).do # "start"
               /\ Head(Tail(todo)).do = "close" => what = "stop"
    <2>1. /\ i # 5 /\ Tail(todo) = Left(RescueSteps, i + 1)
          /\ what = <<"cancel", "await", "stop", "close", "reraise">>[i]
      BY <1>2, RescueFacts DEF RescuingAt
    <2>2. i + 1 \in 1 .. 5 /\ (i + 1 = 4 => what = "stop")
      BY <2>1
    <2>3. /\ RescueSteps \in Seq({RescueSteps[k] : k \in 1 .. 5})
          /\ Len(RescueSteps) = 5
      BY DEF RescueSteps
    <2>4. Head(Left(RescueSteps, i + 1)) = RescueSteps[i + 1]
      BY <2>2, <2>3, LeftOver
    <2>5. \A k \in 1 .. 5 : /\ k # 4 => RescueSteps[k].do # "close"
                            /\ RescueSteps[k].do # "start"
      BY DEF RescueSteps, Bare, P!StepOf
    <2>6. QED
      BY <2>1, <2>2, <2>4, <2>5
  <1>3. ASSUME NEW i \in 1 .. 4, ClosingAt(i), what = Head(todo).do
        PROVE  \/ Head(Tail(todo)).do = "close" /\ what = "stop"
               \/ Head(Tail(todo)).do \in {"await", "stop"}
    <2>1. /\ i # 4 /\ Tail(todo) = Left(CloseSteps, i + 1)
          /\ what = <<"cancel", "await", "stop", "close">>[i]
      BY <1>3, CloseFacts DEF ClosingAt
    <2>2. i + 1 \in 2 .. 4 /\ i + 1 \in 1 .. 4 /\ (i + 1 = 4 => what = "stop")
      BY <2>1
    <2>3. /\ CloseSteps \in Seq({CloseSteps[k] : k \in 1 .. 4})
          /\ Len(CloseSteps) = 4
      BY DEF CloseSteps
    <2>4. Head(Left(CloseSteps, i + 1)) = CloseSteps[i + 1]
      BY <2>2, <2>3, LeftOver
    <2>5. \A k \in 2 .. 4 : CloseSteps[k].do = IF k = 4 THEN "close"
                                               ELSE IF k = 3 THEN "stop" ELSE "await"
      BY DEF CloseSteps, Bare, P!StepOf
    <2>6. QED
      BY <2>1, <2>2, <2>4, <2>5
  <1>4. CASE Called
    <2>1. todo # <<>> /\ Head(todo).do = what
      BY DEF D!Doing
    <2>2. P!Follows(Head(todo), Head(Tail(todo)))
      BY <1>4, <2>1, CalledFacts
    <2>3. QED
      BY <2>1, <2>2 DEF P!Follows, P!Starting
  <1>5. \/ /\ handle = "creating"
           /\ Head(Tail(todo)).do # "start"
           /\ Head(Tail(todo)).do = "close" => what = "stop"
        \/ Called
        \/ Head(Tail(todo)).do = "close" /\ what = "stop"
        \/ Head(Tail(todo)).do \in {"await", "stop"}
    BY <1>1, <1>2, <1>3, DoingIs
  <1>6. QED
    BY <1>4, <1>5 DEF P!QuietStep

LEMMA PortNext ==
  ASSUME Typed, Stage, P!StartingOwner, P!Exclusion, PortInv, [Next]_vars
  PROVE  PortInv'
  <1>1. SchedulingTyped /\ P!ReaderTyped /\ P!LiveIsCurrent /\ P!NobodyIsLive
    BY DEF Typed, P!Exclusion
  <1>2. rpc' = rpc => P!Live' = P!Live
    BY DEF P!Live
  <1>3. CASE /\ UNCHANGED readerVars
             /\ \/ todo' = todo
                \/ todo' = <<>>
                \/ \E what : D!Doing(what) /\ what # "stop" /\ todo' = Tail(todo)
                \/ todo' # <<>> /\ Head(todo').do # "close"
             /\ \/ portOpen' = portOpen
                \/ portOpen' = TRUE
                \/ D!Doing("close") /\ todo' = Tail(todo)
    <2>1. P!Live' = P!Live /\ pc' = pc
      BY <1>2, <1>3 DEF readerVars
    <2>2. (todo' # <<>> /\ Head(todo').do = "close") => todo' = todo
      BY <1>1, <1>3, WhatIsBehind
    <2>3. D!Doing("close") => P!Live = {}
      BY DEF PortInv, D!Doing
    <2>4. QED
      BY <1>3, <2>1, <2>2, <2>3 DEF PortInv
  <1>4. CASE BeginStop
    <2>1. /\ pc' = IF thread = D!R!None THEN "idle" ELSE "set"
          /\ UNCHANGED <<rpc, portOpen>>
      BY <1>4, StopFacts
    <2>2. thread = D!R!None => P!Live = {}
      BY <1>1, SameSets DEF P!LiveIsCurrent, P!Live, P!R!Threads, P!R!None
    <2>3. QED
      BY <1>2, <2>1, <2>2 DEF PortInv
  <1>5. CASE BeginStart
    <2>1. /\ todo' = Tail(todo) /\ UNCHANGED <<rpc, portOpen>>
          /\ Tail(todo) # <<>> => Head(Tail(todo)).do # "close"
      BY <1>1, <1>5, StartFacts, WhatIsBehind
    <2>2. QED
      BY <1>2, <2>1 DEF PortInv
  <1>6. CASE InReader
    <2>1. pc # "idle" /\ (P!R!Start \/ P!R!Stop) /\ UNCHANGED <<todo, portOpen>>
      BY <1>6, InReaderFacts
    <2> USE DEF P!R!GoTo, P!R!threadVars
    <2>2. CASE P!R!CreateThread \/ P!R!LaunchThread
      <3>1. todo # <<>> /\ Head(todo) = P!ToMeasurement /\ P!ToMeasurement.do = "assign"
        BY <2>2 DEF P!R!CreateThread, P!R!LaunchThread, P!StartingOwner,
           P!ToMeasurement, P!StepOf
      <3>2. portOpen
        BY <1>1, <2>1, <3>1 DEF Stage, NothingYet, Made, Called, ClosingAt, Closed,
           SchedulingTyped
      <3>3. QED
        BY <2>1, <3>1, <3>2 DEF PortInv
    <2>3. CASE P!R!ClearEvent \/ P!R!SetRunning \/ P!R!SetEvent \/ P!R!Join
                \/ P!R!ForgetThread
      <3>1. pc' # "idle" /\ rpc' = rpc
        BY <2>3 DEF P!R!ClearEvent, P!R!SetRunning, P!R!SetEvent, P!R!Join,
           P!R!ForgetThread
      <3>2. QED
        BY <1>2, <2>1, <3>1 DEF PortInv
    <2>4. CASE P!R!ReadState \/ P!R!SetIdle
      <3>1. pc \in {"settle", "idling"} /\ rpc' = rpc
        BY <2>4 DEF P!R!ReadState, P!R!SetIdle
      <3>2. P!Live' = {}
        BY <1>1, <1>2, <3>1 DEF P!NobodyIsLive
      <3>3. QED
        BY <2>1, <3>2 DEF PortInv
    <2>5. QED
      BY <2>1, <2>2, <2>3, <2>4 DEF P!R!Start, P!R!Stop, P!R!BeginStart, P!R!BeginStop
  <1>7. ASSUME NEW t \in Threads, Reader(t) PROVE PortInv'
    <2>1. /\ t \in P!R!Threads
          /\ P!R!ReaderAlone(t) \/ P!R!NextMessage(t) \/ P!R!EndAfterFault(t)
          /\ UNCHANGED <<pc, todo, portOpen>>
      BY <1>7, ThreadFacts
    <2>2. P!Live' \subseteq P!Live
      BY <1>1, <2>1 DEF P!ReaderTyped, P!Live, P!R!ReaderAlone, P!R!NextMessage,
         P!R!EndAfterFault, P!R!TestEvent, P!R!Read, P!R!ReadFails, P!R!Drained,
         P!R!SetFaulted, P!R!FaultSetsEvent, P!R!Step
    <2>3. QED
      BY <2>1, <2>2 DEF PortInv
  <1>8. QED
    BY <1>3, <1>4, <1>5, <1>6, <1>7, OtherSteps
----------------------------------------------------------------------------
\* While the dispatch task lives, whoever needs the port has it.
LEMMA NoneActive == ASSUME P!Active' = {} PROVE P!Safe'
  BY DEF P!Safe, P!ActiveIsCurrent, P!OwnerKnows, P!QuietSteps, P!TrackedConfig

\* A step of a call is done that touches neither the reader nor the state.
LEMMA PlainStepSafe ==
  ASSUME SchedulingTyped, Stage, P!Safe, handle = "made",
         NEW what, D!Doing(what), what \notin {"assign", "stop"},
         todo' = Tail(todo), UNCHANGED <<thread, pc, rpc, tracked>>
  PROVE  P!Safe'
  <1>1. pc = "idle" /\ todo # <<>> /\ Head(todo).do \notin {"assign", "stop"}
    BY DEF D!Doing
  <1>2. (todo' # <<>> /\ P!QuietStep(Head(todo'))) => P!QuietStep(Head(todo))
    BY WhatIsBehind
  <1>3. P!Active' = P!Active
    BY Bounds, P!SameActive
  <1>4. QED
    BY <1>1, <1>2, <1>3, Bounds, P!StepDone

\* Before the handle is made there is no thread, and none is created.
LEMMA NoneYet ==
  ASSUME Typed, Stage, handle # "made", [Next]_vars
  PROVE  P!Active' = {}
  <1>1. NothingYet
    BY DEF Stage, Typed, SchedulingTyped
  <1>2. P!Active = {} /\ pc = "idle" /\ \A t \in Threads : rpc[t] = "unborn"
    BY <1>1, SameSets DEF NothingYet, P!Active
  <1>3. rpc' = rpc
    BY <1>2, ReaderSteps, StopFacts, StartFacts, InReaderFacts, ThreadFacts
       DEF readerVars
  <1>4. QED
    BY <1>2, <1>3, Bounds, P!SameActive

LEMMA OwnerSafe ==
  ASSUME Typed, Stage, P!StartingOwner, P!Safe, BeginStop \/ BeginStart \/ InReader
  PROVE  P!Safe'
  <1>1. CASE BeginStop
    <2>1. P!BeginStop
      BY <1>1, SameOwner DEF BeginStop
    <2>2. QED
      BY <2>1, Bounds, P!StopSafe
  <1>2. CASE BeginStart
    <2>1. P!BeginStart
      BY <1>2, SameOwner DEF BeginStart
    <2>2. Tail(todo) # <<>> /\ Head(Tail(todo)) = P!ToMeasurement
      BY <1>2, StartIsBehind DEF Typed
    <2>3. QED
      BY <2>1, <2>2, Bounds, P!StartSafe
  <1>3. CASE InReader
    <2>1. P!InReader /\ P!ReaderTyped
      BY <1>3, SameOwner DEF InReader, Typed, Keeping
    <2>2. QED
      BY <2>1, Bounds, P!InReaderSafe
  <1>4. QED
    BY <1>1, <1>2, <1>3

LEMMA CallSafe ==
  ASSUME Typed, Stage, P!Safe, handle = "made", NEW call \in Calls,
         NEW who \in {"main", "callback"}, Call(call, who)
  PROVE  P!Safe'
  <1>1. /\ pc = "idle" /\ todo = <<>>
        /\ call = "goto_measurement" => tracked = "CONFIG"
        /\ UNCHANGED <<thread, pc, rpc, tracked>>
        /\ todo' = IF call = "close" THEN CloseSteps ELSE P!Body(call)
    BY CallFacts DEF readerVars
  <1>2. call \in P!Calls /\ tracked \in P!Modes
    BY SameSets DEF Calls, Typed, P!DeviceTyped
  <1>3. /\ P!Body(call) # <<>>
        /\ P!QuietStep(Head(P!Body(call)))
             => tracked # "MEASUREMENT" \/ call = "goto_measurement"
    BY <1>2, Bounds, P!BodyFacts
  <1>4. CloseSteps # <<>> /\ ~P!QuietStep(Head(CloseSteps))
    BY BeginnersAre DEF P!QuietStep
  <1>5. todo' # <<>> /\ (P!QuietStep(Head(todo')) => tracked = "CONFIG")
    BY <1>1, <1>2, <1>3, <1>4 DEF P!Modes
  <1>6. P!Active' = P!Active
    BY <1>1, Bounds, P!SameActive
  <1>7. QED
    BY <1>1, <1>5, <1>6, Bounds, P!CallBegins

LEMMA InCallSafe ==
  ASSUME Typed, Stage, P!StartingOwner, P!Safe, handle = "made", InCall
  PROVE  P!Safe'
  <1>1. SchedulingTyped
    BY DEF Typed
  <1>2. CASE Send \/ Receive \/ GiveUp
    <2>1. PICK what \in {"send", "receive"} : D!Doing(what)
      BY <1>2, ExchangeFacts
    <2>2. /\ todo' = todo \/ todo' = <<>> \/ todo' = Tail(todo)
          /\ UNCHANGED <<thread, pc, rpc, tracked>>
      BY <1>2, ExchangeFacts DEF readerVars
    <2>3. P!Active' = P!Active
      BY <2>2, Bounds, P!SameActive
    <2>4. CASE todo' = todo
      BY <2>2, <2>3, <2>4, Bounds, P!Undisturbed
    <2>5. CASE todo' = <<>>
      <3>1. pc = "idle" /\ todo # <<>> /\ Head(todo).do # "assign"
        BY <2>1 DEF D!Doing
      <3>2. QED
        BY <2>2, <2>3, <2>5, <3>1, Bounds, P!StepRaises
    <2>6. CASE todo' = Tail(todo)
      BY <1>1, <2>1, <2>2, <2>6, PlainStepSafe
    <2>7. QED
      BY <2>2, <2>4, <2>5, <2>6
  <1>3. CASE Assign
    <2>1. /\ D!Doing("assign") /\ tracked' = Head(todo).arg /\ todo' = Tail(todo)
          /\ UNCHANGED <<thread, pc, rpc>>
      BY <1>3, AssignFacts DEF readerVars
    <2>2. Called /\ pc = "idle" /\ todo # <<>> /\ Head(todo).do = "assign"
      BY <1>1, <2>1, StepArgs DEF D!Doing
    <2>3. todo' = <<>>
      BY <2>1, <2>2, CalledFacts DEF P!Final
    <2>4. tracked' = "CONFIG" => P!Active = {}
      BY <2>1, <2>2 DEF P!Safe, P!QuietSteps, P!QuietStep
    <2>5. P!Active' = P!Active
      BY <2>1, Bounds, P!SameActive
    <2>6. QED
      BY <2>1, <2>2, <2>3, <2>4, <2>5 DEF P!Safe, P!ActiveIsCurrent, P!OwnerKnows,
         P!QuietSteps, P!TrackedConfig
  <1>4. CASE ClosePort
    BY <1>1, <1>4, ClosePortFacts, PlainStepSafe DEF readerVars
  <1>5. CASE Open \/ Flush \/ Spawn \/ Wrap
    <2>1. PICK what \in {"open", "flush", "spawn", "wrap"} : D!Doing(what)
      BY <1>5 DEF Open, Flush, Spawn, Wrap, Doing
    <2>2. QED
      BY <1>1, <2>1, DoingIs, CloseFacts DEF ClosingAt
  <1>6. CASE Rescue
    BY <1>6 DEF Rescue
  <1>7. CASE Reraise \/ Cancel \/ Await
    <2>1. PICK what \in {"reraise", "cancel", "await"} :
             D!Doing(what) /\ todo' = Tail(todo)
      BY <1>7, CancelFacts
    <2>2. UNCHANGED <<thread, pc, rpc, tracked>>
      BY <1>7, CancelFacts
    <2>3. QED
      BY <1>1, <2>1, <2>2, PlainStepSafe
  <1>8. CASE BeginStop \/ BeginStart \/ InReader
    BY <1>8, OwnerSafe
  <1>9. QED
    BY <1>2, <1>3, <1>4, <1>5, <1>6, <1>7, <1>8 DEF InCall

LEMMA LoopSafe ==
  ASSUME Typed, P!Safe, ErrorsAreLate, Loop
  PROVE  P!Safe'
  <1>1. CASE EnqueueMessage \/ OnError \/ Resume
    <2>1. /\ scheduled # <<>> /\ UNCHANGED <<thread, pc, rpc, todo>>
          /\ tracked' = tracked \/ Head(scheduled) = Error
      BY <1>1, RunFacts DEF Typed, readerVars
    <2>2. P!Active' = P!Active
      BY <2>1, Bounds, P!SameActive
    <2>3. CASE tracked' = tracked
      BY <2>1, <2>2, <2>3, Bounds, P!Undisturbed
    <2>4. CASE Head(scheduled) = Error
      <3>1. Has(scheduled, Error)
        BY <2>1, <2>4, Removed DEF Typed, SchedulingTyped
      <3>2. QED
        BY <2>2, <3>1, NoneActive DEF ErrorsAreLate
    <2>5. QED
      BY <2>1, <2>3, <2>4
  <1>2. CASE Dispatch \/ Handled \/ HandlingRaises \/ Cancelled
    <2>1. UNCHANGED <<thread, pc, rpc, todo, tracked>>
      BY <1>2, TaskFacts DEF readerVars
    <2>2. P!Active' = P!Active
      BY <2>1, Bounds, P!SameActive
    <2>3. QED
      BY <2>1, <2>2, Bounds, P!Undisturbed
  <1>3. QED
    BY <1>1, <1>2 DEF Loop

LEMMA SafeNext ==
  ASSUME Typed, Stage, P!StartingOwner, P!Safe, ErrorsAreLate, [Next]_vars
  PROVE  P!Safe'
  <1>1. CASE handle # "made"
    BY <1>1, NoneYet, NoneActive
  <1>2. CASE handle = "made"
    <2>1. ASSUME NEW call \in Calls, NEW who \in {"main", "callback"}, Call(call, who)
          PROVE  P!Safe'
      BY <1>2, <2>1, CallSafe
    <2>2. ASSUME NEW t \in Threads, Reader(t) PROVE P!Safe'
      <3>1. /\ t \in P!R!Threads /\ P!ReaderTyped
            /\ P!R!ReaderAlone(t) \/ P!R!NextMessage(t) \/ P!R!EndAfterFault(t)
            /\ UNCHANGED <<thread, pc, tracked, todo>>
        BY <2>2, ThreadFacts DEF Typed
      <3>2. P!Active' \subseteq P!Active
        BY <3>1, Bounds, P!ThreadActive
      <3>3. QED
        BY <3>1, <3>2, Bounds, P!Undisturbed
    <2>3. CASE SetOnMessage \/ Sensor \/ UNCHANGED vars
      <3>1. UNCHANGED <<thread, pc, rpc, todo, tracked>>
        BY <2>3, SensorFacts DEF SetOnMessage, vars, deviceVars, readerVars
      <3>2. P!Active' = P!Active
        BY <3>1, Bounds, P!SameActive
      <3>3. QED
        BY <3>1, <3>2, Bounds, P!Undisturbed
    <2>4. QED
      BY <1>2, <2>1, <2>2, <2>3, InCallSafe, LoopSafe DEF Next
  <1>3. QED
    BY <1>1, <1>2
\* What happens to what is scheduled, and to the step that is next.
LEMMA ScheduleSteps ==
  ASSUME Typed, [Next]_vars, dispatch' # "ended"
  PROVE  \/ BeginStop \/ BeginStart \/ InReader
         \/ \E t \in Threads : Reader(t)
         \/ /\ UNCHANGED readerVars
            /\ Resumes
            /\ \/ todo' = todo \/ todo' = <<>>
               \/ todo' # <<>> /\ Head(todo').do # "start"
               \/ \E what : D!Doing(what) /\ what # "receive" /\ todo' = Tail(todo)
               \/ scheduled' = Append(scheduled, Resumption)
         \/ /\ UNCHANGED readerVars /\ todo' = todo
            /\ scheduled # <<>> /\ scheduled' = Tail(scheduled)
  <1> DEFINE Moves == \/ todo' = todo \/ todo' = <<>>
                      \/ todo' # <<>> /\ Head(todo').do # "start"
                      \/ \E what : D!Doing(what) /\ what # "receive" /\ todo' = Tail(todo)
                      \/ scheduled' = Append(scheduled, Resumption)
  <1>1. ASSUME NEW what, D!Doing(what), what # "receive", todo' = Tail(todo)
        PROVE  Moves
    BY <1>1
  <1> HIDE DEF Moves
  <1>2. CASE Send \/ Receive \/ GiveUp
    <2>1. UNCHANGED readerVars /\ Resumes
      BY <1>2, ExchangeFacts
    <2>2. CASE Send
      <3>1. D!Doing("send") /\ (todo' = <<>> \/ todo' = Tail(todo))
        BY <2>2 DEF Send, D!Send, D!Done, D!Raise
      <3>2. Moves
        BY <1>1, <3>1 DEF Moves
      <3>3. QED
        BY <2>1, <3>2 DEF Moves
    <2>3. CASE Receive
      <3>1. todo' = todo \/ scheduled' = Append(scheduled, Resumption)
        BY <2>3 DEF Receive, Keeping
      <3>2. QED
        BY <2>1, <3>1
    <2>4. CASE GiveUp
      <3>1. todo' = <<>>
        BY <2>4 DEF GiveUp, D!GiveUp, D!Raise
      <3>2. QED
        BY <2>1, <3>1
    <2>5. QED
      BY <1>2, <2>2, <2>3, <2>4
  <1>3. CASE Assign \/ ClosePort
    <2>1. PICK what \in {"assign", "close"} : D!Doing(what) /\ todo' = Tail(todo)
      BY <1>3, AssignFacts, ClosePortFacts
    <2>2. UNCHANGED readerVars /\ Resumes
      BY <1>3, AssignFacts, ClosePortFacts DEF Resumes
    <2>3. Moves
      BY <1>1, <2>1
    <2>4. QED
      BY <2>2, <2>3 DEF Moves
  <1>4. CASE Open \/ Flush \/ Spawn \/ Wrap
    <2>1. UNCHANGED readerVars /\ Resumes
      BY <1>4 DEF Open, Flush, Spawn, Wrap, LoopOnly, WorkerDone, Resumes
    <2>2. \/ todo' = <<>>
          \/ \E what \in {"open", "flush", "spawn", "wrap"} :
                D!Doing(what) /\ todo' = Tail(todo)
      BY <1>4 DEF Open, Flush, Spawn, Wrap, Doing, D!Done, Raises, D!Raise
    <2>3. Moves
      BY <1>1, <2>2 DEF Moves
    <2>4. QED
      BY <2>1, <2>3 DEF Moves
  <1>5. CASE Rescue \/ Reraise \/ Cancel \/ Await
    <2>1. UNCHANGED readerVars /\ Resumes
      BY <1>5 DEF Rescue, Reraise, Cancel, Await, LoopOnly, Resumes
    <2>2. CASE Rescue
      <3>1. todo' = RescueSteps
        BY <2>2, BodiesAre DEF Rescue
      <3>2. QED
        BY <2>1, <3>1, BeginnersAre
    <2>3. CASE Reraise \/ Cancel \/ Await
      <3>1. \E what \in {"reraise", "cancel", "await"} :
               D!Doing(what) /\ todo' = Tail(todo)
        BY <2>3, CancelFacts
      <3>2. Moves
        BY <1>1, <3>1
      <3>3. QED
        BY <2>1, <3>2 DEF Moves
    <2>4. QED
      BY <1>5, <2>2, <2>3
  <1>6. CASE Loop
    <2>1. CASE EnqueueMessage \/ OnError \/ Resume
      BY <2>1, RunFacts DEF Typed
    <2>2. CASE Dispatch \/ Handled \/ HandlingRaises \/ Cancelled
      BY <2>2, TaskFacts DEF Resumes
    <2>3. QED
      BY <1>6, <2>1, <2>2 DEF Loop
  <1>7. ASSUME NEW call \in Calls, NEW who \in {"main", "callback"}, Call(call, who)
        PROVE  /\ UNCHANGED readerVars /\ Resumes
               /\ todo' # <<>> /\ Head(todo').do # "start"
    <2>1. /\ UNCHANGED readerVars /\ Resumes
          /\ todo' = IF call = "close" THEN CloseSteps ELSE P!Body(call)
      BY <1>7, CallFacts DEF Resumes
    <2>2. call \in P!Calls
      BY SameSets DEF Calls
    <2>3. P!Body(call) # <<>> /\ P!Opening(Head(P!Body(call)))
      BY <2>2, Bounds, P!BodyFacts
    <2>4. QED
      BY <2>1, <2>3, BeginnersAre DEF P!Opening
  <1>8. CASE SetOnMessage \/ Sensor \/ UNCHANGED vars
    BY <1>8, SensorFacts DEF SetOnMessage, vars, deviceVars, readerVars, loopVars, Resumes
  <1>9. QED
    BY <1>2, <1>3, <1>4, <1>5, <1>6, <1>7, <1>8 DEF Next, InCall

\* A resumption, or nothing, is scheduled behind the errors.
LEMMA ErrorsResumed ==
  ASSUME SchedulingTyped, Resumes
  PROVE  /\ Has(scheduled', Error) => Has(scheduled, Error)
         /\ Behind(scheduled, Error, Resumption) => Behind(scheduled', Error, Resumption)
         /\ scheduled' = Append(scheduled, Resumption)
              => Behind(scheduled', Error, Resumption)
  <1>1. /\ scheduled \in Seq(Callbacks) /\ Resumption \in Callbacks
        /\ Error # Resumption
    BY DEF SchedulingTyped, Callbacks, Error, Resumption
  <1> HIDE DEF Error, Resumption, Callbacks
  <1> DEFINE q == Append(scheduled, Resumption)
  <1>2. /\ Has(q, Error) <=> Has(scheduled, Error)
        /\ Behind(q, Error, Resumption)
    <2>1. /\ \A e : Has(q, e) <=> Has(scheduled, e) \/ Resumption = e
          /\ \A e : e # Resumption => Behind(q, e, Resumption)
      BY <1>1, Appended
    <2>2. QED
      BY <1>1, <2>1
  <1> HIDE DEF q
  <1>3. CASE scheduled' = scheduled
    BY <1>2, <1>3 DEF q
  <1>4. CASE scheduled' = q
    BY <1>2, <1>4
  <1>5. QED
    BY <1>3, <1>4 DEF Resumes, q

LEMMA NothingBehind ==
  ASSUME SchedulingTyped, ~Has(scheduled, Error)
  PROVE  Behind(scheduled, Error, Resumption)
  BY DEF Has, Behind

LEMMA LateInReader ==
  ASSUME Typed, P!Safe, P!StartingOwner, ErrorsAreLate, InReader
  PROVE  ErrorsAreLate'
  <1>1. /\ pc # "idle" /\ (P!R!Start \/ P!R!Stop) /\ todo' = todo /\ Resumes
    BY InReaderFacts
  <1>2. SchedulingTyped
    BY DEF Typed
  <1>3. Has(scheduled', Error) => Has(scheduled, Error)
    BY <1>1, <1>2, ErrorsResumed
  <1> USE DEF P!R!GoTo, P!R!threadVars
  <1>4. CASE pc \in {"clear", "running", "create", "launch"}
    <2>1. ~Has(scheduled', Error) /\ ~Has(scheduled, Error)
      BY <1>3, <1>4 DEF ErrorsAreLate
    <2>2. Behind(scheduled', Error, Resumption)
      BY <2>1 DEF Has, Behind
    <2>3. QED
      BY <2>1, <2>2 DEF ErrorsAreLate
  <1>5. CASE pc \notin {"clear", "running", "create", "launch"}
    <2>1. /\ D!R!Stop /\ rpc' = rpc
          /\ pc' \notin {"clear", "running", "create", "launch"}
      <3>1. D!R!Start \/ D!R!Stop
        BY DEF InReader, D!InReader
      <3>2. ~D!R!Start
        BY <1>1, <1>5 DEF D!R!Start, D!R!BeginStart, D!R!ClearEvent, D!R!SetRunning,
           D!R!CreateThread, D!R!LaunchThread, D!R!GoTo
      <3>3. QED
        BY <3>1, <3>2 DEF D!R!Stop, D!R!BeginStop, D!R!SetEvent, D!R!Join,
           D!R!ForgetThread, D!R!ReadState, D!R!SetIdle, D!R!GoTo, D!R!threadVars
    <2>2. pc' = "idle" => scheduled' = Append(scheduled, Resumption)
      BY <2>1 DEF InReader, Keeping, WorkerDone
    <2>3. pc' = "idle" => Behind(scheduled', Error, Resumption)
      BY <1>1, <1>2, <2>2, ErrorsResumed
    <2>4. P!Active' = P!Active
      BY <2>1, Bounds, P!SameActive
    <2>5. QED
      BY <1>3, <2>1, <2>3, <2>4 DEF ErrorsAreLate
  <1>6. QED
    BY <1>4, <1>5

LEMMA LateThread ==
  ASSUME Typed, P!Safe, P!Exclusion, ErrorsAreLate, NEW t \in Threads, Reader(t)
  PROVE  ErrorsAreLate'
  <1>1. /\ t \in P!R!Threads /\ P!ReaderTyped
        /\ P!R!ReaderAlone(t) \/ P!R!NextMessage(t) \/ P!R!EndAfterFault(t)
        /\ UNCHANGED <<thread, pc, todo>>
        /\ \/ scheduled' = scheduled
           \/ P!R!NextMessage(t) /\ scheduled' = Append(scheduled, Enqueueing(Head(acc[t])))
           \/ P!R!EndAfterFault(t) /\ scheduled' = Append(scheduled, Error)
    BY ThreadFacts DEF Typed
  <1>2. /\ P!Active' \subseteq P!Active
        /\ P!R!EndAfterFault(t) => t \in P!Active /\ t \notin P!Active'
    BY <1>1, Bounds, P!ThreadActive
  <1>3. scheduled \in Seq(Callbacks)
    BY DEF Typed, SchedulingTyped
  <1>4. CASE scheduled' = scheduled
    BY <1>1, <1>2, <1>4 DEF ErrorsAreLate
  <1>5. CASE P!R!NextMessage(t) /\ scheduled' = Append(scheduled, Enqueueing(Head(acc[t])))
    <2> DEFINE x == Enqueueing(Head(acc[t]))
    <2>1. x \in Callbacks /\ x # Error
      <3>1. acc[t] # <<>> /\ acc[t] \in Seq(D!Messages)
        BY <1>1, <1>5, SameSets DEF P!R!NextMessage, P!ReaderTyped
      <3>2. Head(acc[t]) \in D!Messages
        BY <3>1
      <3>3. QED
        BY <3>2 DEF Enqueueing, Callbacks, Error
    <2> HIDE DEF x
    <2>2. /\ Has(Append(scheduled, x), Error) <=> Has(scheduled, Error)
          /\ Behind(scheduled, Error, Resumption)
               => Behind(Append(scheduled, x), Error, Resumption)
      BY <1>3, <2>1, Appended
    <2>3. scheduled' = Append(scheduled, x)
      BY <1>5 DEF x
    <2>4. QED
      BY <1>1, <1>2, <2>2, <2>3 DEF ErrorsAreLate
  <1>6. CASE P!R!EndAfterFault(t)
    <2>1. P!Active' = {} /\ t \in P!Active /\ thread = t /\ rpc[t] = "reporting"
      BY <1>2, <1>6 DEF P!Safe, P!ActiveIsCurrent, P!R!EndAfterFault, P!R!Step
    <2>2. pc \notin {"clear", "running", "create", "launch"}
      BY <2>1 DEF P!Safe, P!OwnerKnows, P!Exclusion, P!NobodyIsLive
    <2>3. ~(pc = "idle" /\ todo # <<>> /\ Head(todo).do = "start")
      BY <2>1 DEF P!Safe, P!QuietSteps, P!QuietStep
    <2>4. QED
      BY <1>1, <2>1, <2>2, <2>3 DEF ErrorsAreLate
  <1>7. QED
    BY <1>1, <1>4, <1>5, <1>6

LEMMA LateNext ==
  ASSUME Typed, Stage, P!StartingOwner, P!Exclusion, P!Safe, ErrorsAreLate,
         [Next]_vars, dispatch' # "ended"
  PROVE  ErrorsAreLate'
  <1>1. SchedulingTyped /\ scheduled \in Seq(Callbacks)
    BY DEF Typed, SchedulingTyped
  <1>2. CASE BeginStop
    <2>1. /\ D!Doing("stop") /\ todo' = Tail(todo) /\ rpc' = rpc /\ Resumes
          /\ pc' = IF thread = D!R!None THEN "idle" ELSE "set"
      BY <1>2, StopFacts
    <2>2. todo' # <<>> => Head(todo').do # "start"
      BY <1>1, <2>1, WhatIsBehind
    <2>3. P!Active' = P!Active
      BY <2>1, Bounds, P!SameActive
    <2>4. Has(scheduled', Error) => Has(scheduled, Error)
      BY <1>1, <2>1, ErrorsResumed
    <2>5. QED
      BY <2>1, <2>2, <2>3, <2>4 DEF ErrorsAreLate
  <1>3. CASE BeginStart
    <2>1. /\ D!Doing("start") /\ ~Resuming /\ todo' = Tail(todo) /\ rpc' = rpc
          /\ scheduled' = scheduled /\ pc' \in {"idle", "clear"}
      BY <1>3, StartFacts DEF loopVars
    <2>2. Behind(scheduled, Error, Resumption)
      BY <2>1 DEF ErrorsAreLate, D!Doing
    <2>3. ~Has(scheduled, Error)
      BY <2>1, <2>2 DEF Behind, Has, Resuming
    <2>4. ~Has(scheduled', Error) /\ Behind(scheduled', Error, Resumption)
      BY <2>1, <2>2, <2>3
    <2>5. QED
      BY <2>4 DEF ErrorsAreLate
  <1>4. CASE /\ UNCHANGED readerVars
             /\ Resumes
             /\ \/ todo' = todo \/ todo' = <<>>
                \/ todo' # <<>> /\ Head(todo').do # "start"
                \/ \E what : D!Doing(what) /\ what # "receive" /\ todo' = Tail(todo)
                \/ scheduled' = Append(scheduled, Resumption)
    <2>1. P!Active' = P!Active /\ pc' = pc
      BY <1>4, Bounds, P!SameActive DEF readerVars
    <2>2. /\ Has(scheduled', Error) => Has(scheduled, Error)
          /\ Behind(scheduled, Error, Resumption) => Behind(scheduled', Error, Resumption)
      BY <1>1, <1>4, ErrorsResumed
    <2>3. (todo' # <<>> /\ Head(todo').do = "start")
            => todo' = todo \/ scheduled' = Append(scheduled, Resumption)
      BY <1>1, <1>4, WhatIsBehind
    <2>4. (pc' = "idle" /\ todo' # <<>> /\ Head(todo').do = "start")
            => Behind(scheduled', Error, Resumption)
      BY <1>1, <1>4, <2>1, <2>2, <2>3, ErrorsResumed DEF ErrorsAreLate
    <2>5. QED
      BY <2>1, <2>2, <2>4 DEF ErrorsAreLate
  <1>5. CASE /\ UNCHANGED readerVars /\ todo' = todo
             /\ scheduled # <<>> /\ scheduled' = Tail(scheduled)
    <2>1. P!Active' = P!Active /\ pc' = pc
      BY <1>5, Bounds, P!SameActive DEF readerVars
    <2>2. /\ Has(scheduled', Error) => Has(scheduled, Error)
          /\ Behind(scheduled, Error, Resumption) => Behind(scheduled', Error, Resumption)
      BY <1>1, <1>5, Removed
    <2>3. QED
      BY <1>5, <2>1, <2>2 DEF ErrorsAreLate
  <1>6. QED
    BY <1>2, <1>3, <1>4, <1>5, ScheduleSteps, LateInReader, LateThread

\* A dispatch task that has ended does not come back.
LEMMA EndedStays ==
  ASSUME Typed, Stage, dispatch = "ended", [Next]_vars
  PROVE  dispatch' = "ended"
  <1>1. ASSUME NEW i \in 1 .. 7, CreatingAt(i) PROVE dispatch # "ended"
    BY <1>1 DEF CreatingAt
  <1>2. ASSUME NEW i \in 1 .. 5, RescuingAt(i) PROVE dispatch # "ended"
    BY <1>2 DEF RescuingAt
  <1>3. handle = "made"
    BY <1>1, <1>2 DEF Stage, Creating, Raised, Failed, Typed, SchedulingTyped
  <1>4. CASE InCall
    <2>1. CASE Spawn
      <3>1. D!Doing("spawn")
        BY <2>1 DEF Spawn, Doing
      <3>2. QED
        BY <1>3, <3>1, DoingIs, CloseFacts DEF Typed, ClosingAt
    <2>2. CASE Cancel
      BY <2>2 DEF Cancel
    <2>3. CASE Open \/ Flush \/ Wrap
      BY <2>3 DEF Open, Flush, Wrap
    <2>4. QED
      BY <1>4, <2>1, <2>2, <2>3, ExchangeFacts, AssignFacts, ClosePortFacts,
         StopFacts, StartFacts, InReaderFacts, CancelFacts DEF InCall, loopVars
  <1>5. CASE Loop
    BY <1>5, RunFacts, TaskFacts DEF Loop, Typed
  <1>6. QED
    BY <1>4, <1>5, CallFacts, ThreadFacts, SensorFacts
       DEF Next, SetOnMessage, vars, loopVars

LEMMA WhileNext ==
  ASSUME Typed, Stage, P!StartingOwner, P!Exclusion, WhileDispatched, [Next]_vars
  PROVE  WhileDispatched'
  BY EndedStays, SafeNext, LateNext DEF WhileDispatched

----------------------------------------------------------------------------
LEMMA InvNext == Inv /\ [Next]_vars => Inv'
  <1> SUFFICES ASSUME Inv, [Next]_vars PROVE Inv'
    OBVIOUS
  <1>1. /\ Typed /\ P!StartingOwner /\ P!Exclusion /\ Stage /\ PortInv
        /\ WhileDispatched /\ SchedulingTyped
    BY DEF Inv, Typed
  <1>2. Typed' /\ Stage'
    BY <1>1, TypedNext, StageNext
  <1>3. P!StartingOwner' /\ P!Exclusion' /\ PortInv' /\ WhileDispatched'
    BY <1>1, StartingNext, ExclusionNext, PortNext, WhileNext
  <1>4. QED
    BY <1>2, <1>3 DEF Inv

LEMMA EmptyFits == \A q : q = <<>> => Len(q) <= QueueSize
  <1>1. \A q : q = <<>> => Len(q) = 0
    OBVIOUS
  <1>2. QueueSize \in Nat
    BY AsyncAssumption DEF AsyncAssumption
  <1>3. QED
    BY <1>1, <1>2

LEMMA ZeroFits == \A n : n = 0 => n \in Nat /\ n \in 0 .. MaxCalls
  BY AsyncAssumption DEF AsyncAssumption

LEMMA InvInit == Init => Inv
  <1> SUFFICES ASSUME Init PROVE Inv
    OBVIOUS
  <1> USE DEF Init, D!R!Init
  <1>1. P!ReaderTyped /\ P!StartsBounded
    <2>1. acc \in [P!R!Threads -> Seq(P!Messages)]
      BY SameSets DEF Threads
    <2>2. rpc \in [P!R!Threads -> P!R!ReaderPCs]
      BY SameSets DEF Threads, P!R!ReaderPCs
    <2>3. started \in 0 .. MaxStarts /\ line \in Seq(P!Messages)
      BY AsyncAssumption DEF AsyncAssumption
    <2>4. QED
      BY <2>1, <2>2, <2>3, SameSets DEF P!ReaderTyped, P!StartsBounded,
         P!R!States, P!R!OwnerPCs
  <1>2. P!DeviceTyped
    <2>1. /\ queue \in Seq(P!Messages) /\ dispatched \in Seq(Nat)
          /\ wire \in Seq(P!Requests) /\ <<>> \in Seq(P!Messages)
          /\ Len(<<>>) = 0 /\ queue = <<>>
      OBVIOUS
    <2>2. arrived \in Nat /\ calls \in 0 .. MaxCalls
      <3>1. arrived = 0 /\ calls = 0
        OBVIOUS
      <3>2. \A n : n = 0 => n \in Nat /\ n \in 0 .. MaxCalls
        BY ZeroFits
      <3>3. QED
        BY <3>1, <3>2, Zenon
    <2>3. listening \in BOOLEAN /\ portOpen \in BOOLEAN
      BY Zenon
    <2>4. \A q : q = <<>> => Len(q) <= QueueSize
      BY EmptyFits
    <2>5. tracked \in P!Modes /\ mode \in P!Modes
      BY SameSets DEF P!Modes
    <2>6. QED
      BY <2>1, <2>2, <2>3, <2>4, <2>5 DEF P!DeviceTyped
  <1>3. SchedulingTyped
    BY DEF SchedulingTyped
  <1>4. \A t \in Threads : rpc[t] = "unborn"
    BY DEF Threads
  <1>5. P!Active = {} /\ P!Live = {}
    BY <1>4, SameSets DEF P!Active, P!Live
  <1>6. NothingYet
    BY <1>4 DEF NothingYet, Only
  <1>7. CreatingAt(1)
    <2>1. CreateSteps \in Seq({CreateSteps[k] : k \in 1 .. 7}) /\ 1 \in 1 .. Len(CreateSteps)
      BY DEF CreateSteps
    <2>2. CreateSteps = Left(CreateSteps, 1)
      BY <2>1, LeftOver
    <2>3. QED
      BY <2>2, BodiesAre DEF CreatingAt
  <1>8. Stage
    BY <1>6, <1>7 DEF Stage, Creating
  <1>9. P!StartingOwner /\ P!Exclusion
    BY <1>5 DEF P!StartingOwner, P!Exclusion, P!LiveIsCurrent, P!NobodyIsLive
  <1>10. PortInv
    BY <1>5 DEF PortInv
  <1>11. todo # <<>> /\ Head(todo).do = "open"
    BY <1>7, CreateFacts DEF CreatingAt
  <1>12. P!Safe /\ ErrorsAreLate
    BY <1>5, <1>11 DEF P!Safe, P!ActiveIsCurrent, P!OwnerKnows, P!QuietSteps,
       P!TrackedConfig, ErrorsAreLate, Has
  <1>13. QED
    BY <1>1, <1>2, <1>3, <1>8, <1>9, <1>10, <1>12 DEF Inv, Typed, WhileDispatched

\* The inductive invariant: what the steps of the device keep true of its
\* reader, of its calls, of the port and of what is scheduled on the loop.
THEOREM Invariance == Spec => []Inv
  BY InvInit, InvNext, PTL DEF Spec

\* Type correctness of the asyncio device.
THEOREM TypeCorrect == Spec => []TypeOK
  <1>1. Inv => TypeOK
    BY SameSets DEF Inv, Typed, P!DeviceTyped, SchedulingTyped, TypeOK, Callbacks
  <1>2. QED
    BY <1>1, Invariance, PTL

\* While the dispatch task lives, the answer to a command is never swallowed
\* by a reader thread.
THEOREM AnswerIsMineAlways == Spec => []AnswerIsMine
  <1>1. Inv => AnswerIsMine
    <2> SUFFICES ASSUME Inv, Doing("receive"), dispatch # "ended",
                        \/ tracked = "CONFIG"
                        \/ Head(todo).arg \in {"GOTOCONFIG", "RESET",
                                               "RESTORE_FACTORY_DEFAULTS"}
                 PROVE  D!R!Reading = {}
      BY DEF AnswerIsMine
    <2>1. P!Safe /\ todo # <<>> /\ pc = "idle" /\ Head(todo).do = "receive"
      BY DEF Inv, WhileDispatched, Doing, D!Doing
    <2>2. Head(todo) # P!ToMeasurement
      BY <2>1 DEF P!ToMeasurement, P!StepOf
    <2>3. P!Active = {}
      BY <2>1, <2>2 DEF P!Safe, P!TrackedConfig, P!QuietSteps, P!QuietStep
    <2>4. QED
      BY <2>3, SameSets, Bounds, P!ReadingIsActive
  <1>2. QED
    BY <1>1, Invariance, PTL

\* A create() that raises leaves no task running, and no port open once the
\* dispatch task has been there: close() undid what goto_config() had done.
THEOREM FailedCreateCleansUpAlways == Spec => []FailedCreateCleansUp
  <1>1. Inv => FailedCreateCleansUp
    BY DEF Inv, Stage, Failed, FailedCreateCleansUp
  <1>2. QED
    BY <1>1, Invariance, PTL

\* What a closed port means to a step.
LEMMA ClosedDispatchesNothing ==
  ASSUME Inv, [Next]_vars, ~portOpen
  PROVE  /\ caller = "main" => dispatched' = dispatched
         /\ D!R!Reading = {}
  <1>1. P!Live = {}
    BY DEF Inv, PortInv
  <1>2. D!R!Reading = {}
    BY <1>1, SameSets DEF D!R!Reading, P!Live, Threads
  <1>3. dispatched' = dispatched \/ (dispatch = "waiting" /\ queue # <<>>)
    <2>1. CASE InCall
      BY <2>1 DEF InCall, Send, Receive, GiveUp, BeginStop, BeginStart, InReader,
         Assign, ClosePort, Open, Flush, Spawn, Wrap, Rescue, Reraise, Cancel, Await,
         LoopOnly, D!Send, D!Receive, D!GiveUp, D!BeginStop, D!BeginStart, D!InReader,
         D!Assign, D!ClosePort, D!deviceVars
    <2>2. CASE Loop
      BY <2>2 DEF Loop, EnqueueMessage, OnError, Resume, RunNext, Dispatch, Handled,
         HandlingRaises, Cancelled, DispatchStep
    <2>3. CASE Sensor
      BY <2>3 DEF Sensor, D!Sensor, D!Stream, D!Answer, D!Emit, D!Overlook, D!deviceVars
    <2>4. ASSUME NEW t \in Threads, Reader(t) PROVE dispatched' = dispatched
      BY <2>4 DEF Reader, OnReaderMessage, OnReaderError, ReaderAlone, D!ReaderAlone,
         OutsideReader, D!deviceVars
    <2>5. ASSUME NEW call \in Calls, NEW who \in {"main", "callback"}, Call(call, who)
          PROVE  dispatched' = dispatched
      BY <2>5 DEF Call
    <2>6. CASE SetOnMessage \/ UNCHANGED vars
      BY <2>6 DEF SetOnMessage, vars, deviceVars
    <2>7. QED
      BY <2>1, <2>2, <2>3, <2>4, <2>5, <2>6 DEF Next
  <1>4. CASE handle # "made"
    BY <1>2, <1>3, <1>4 DEF Inv, Typed, Stage, NothingYet, SchedulingTyped
  <1>5. CASE handle = "made"
    <2>1. Quieted
      BY <1>5 DEF Inv, Stage, Made, Called, ClosingAt, Closed
    <2>2. QED
      BY <1>2, <1>3, <2>1 DEF Quieted
  <1>6. QED
    BY <1>4, <1>5

\* After a close() of the main coroutine no callback is called, whatever was
\* queued or scheduled; and a closed port is not read.
THEOREM QuietAfterCloseAlways == Spec => QuietAfterClose
  <1>1. Inv /\ [Next]_vars
          => [~portOpen => /\ caller = "main" => dispatched' = dispatched
                           /\ D!R!Reading = {}]_vars
    BY ClosedDispatchesNothing
  <1>2. QED
    BY <1>1, Invariance, PTL DEF Spec, QuietAfterClose

----------------------------------------------------------------------------
(***************************************************************************)
(* The asyncio device implements OrderedDelivery, for any queue and any    *)
(* number of calls, threads and messages.  A message passes four places:   *)
(* the port, the reader thread that has drained it, the loop, on which the *)
(* thread has scheduled its enqueueing, and the queue.                     *)
(***************************************************************************)

\* A message waits to be enqueued; the numbers of those that do; and that they
\* are in the order of their arrival.
Waits(seq, i) == seq[i].do = "enqueue"

InLoop(seq) == {seq[i].msg.n : i \in {j \in DOMAIN seq : Waits(seq, j)}}

LoopOrdered(seq) ==
  \A i, j \in DOMAIN seq :
     i < j /\ Waits(seq, i) /\ Waits(seq, j) => seq[i].msg.n < seq[j].msg.n

LEMMA InLoopIs ==
  ASSUME NEW seq
  PROVE  /\ \A i \in DOMAIN seq : Waits(seq, i) => seq[i].msg.n \in InLoop(seq)
         /\ \A k \in InLoop(seq) :
               \E i \in DOMAIN seq : Waits(seq, i) /\ k = seq[i].msg.n
  BY DEF InLoop, Waits

LEMMA InLoopTyped ==
  ASSUME NEW seq \in Seq(Callbacks)
  PROVE  InLoop(seq) \in SUBSET Nat
  <1>1. ASSUME NEW e \in Callbacks, e.do = "enqueue" PROVE e.msg.n \in Nat
    BY <1>1 DEF Callbacks, Error, Resumption, D!Messages
  <1>2. \A i \in DOMAIN seq : seq[i] \in Callbacks
    OBVIOUS
  <1>3. \A k \in InLoop(seq) : k \in Nat
    BY <1>1, <1>2, InLoopIs DEF Waits
  <1>4. QED
    BY <1>3

\* A younger message is scheduled behind the others.
LEMMA InLoopAppend ==
  ASSUME NEW seq \in Seq(Callbacks), LoopOrdered(seq), NEW e \in Callbacks
  PROVE  /\ e.do # "enqueue" => /\ LoopOrdered(Append(seq, e))
                               /\ InLoop(Append(seq, e)) = InLoop(seq)
         /\ e.do = "enqueue" /\ P!Less(InLoop(seq), {e.msg.n})
              => /\ LoopOrdered(Append(seq, e))
                 /\ InLoop(Append(seq, e)) = InLoop(seq) \cup {e.msg.n}
  <1> DEFINE n == Len(seq)
             q == Append(seq, e)
  <1>1. /\ n \in Nat /\ DOMAIN seq = 1 .. n /\ DOMAIN q = 1 .. n + 1
        /\ q[n + 1] = e /\ \A i \in 1 .. n : q[i] = seq[i]
    OBVIOUS
  <1> HIDE DEF q, n
  <1>2. /\ \A i \in 1 .. n : Waits(q, i) <=> Waits(seq, i)
        /\ Waits(q, n + 1) <=> e.do = "enqueue"
    BY <1>1 DEF Waits
  <1>3. \A i \in 1 .. n + 1 : i \in 1 .. n \/ i = n + 1
    BY <1>1
  <1>4. \A i \in 1 .. n : i \in 1 .. n + 1 /\ ~(n + 1 < i)
    BY <1>1
  <1>5. n + 1 \in 1 .. n + 1 /\ ~(n + 1 < n + 1)
    BY <1>1
  <1>6. ASSUME NEW k \in InLoop(q)
        PROVE  k \in InLoop(seq) \/ (e.do = "enqueue" /\ k = e.msg.n)
    <2>1. PICK i \in 1 .. n + 1 : Waits(q, i) /\ k = q[i].msg.n
      BY <1>1, <1>6, InLoopIs
    <2>2. CASE i \in 1 .. n
      <3>1. Waits(seq, i) /\ k = seq[i].msg.n
        BY <1>1, <1>2, <2>1, <2>2
      <3>2. QED
        BY <1>1, <2>2, <3>1, InLoopIs
    <2>3. CASE i = n + 1
      BY <1>1, <1>2, <2>1, <2>3
    <2>4. QED
      BY <1>3, <2>2, <2>3
  <1>7. ASSUME NEW k \in InLoop(seq) PROVE k \in InLoop(q)
    <2>1. PICK i \in 1 .. n : Waits(seq, i) /\ k = seq[i].msg.n
      BY <1>1, <1>7, InLoopIs
    <2>2. i \in DOMAIN q /\ Waits(q, i) /\ k = q[i].msg.n
      BY <1>1, <1>2, <1>4, <2>1
    <2>3. QED
      BY <2>2, InLoopIs
  <1>8. ASSUME e.do = "enqueue" PROVE e.msg.n \in InLoop(q)
    <2>1. n + 1 \in DOMAIN q /\ Waits(q, n + 1) /\ q[n + 1].msg.n = e.msg.n
      BY <1>1, <1>2, <1>5, <1>8
    <2>2. QED
      BY <2>1, InLoopIs
  <1>9. ASSUME e.do = "enqueue" => P!Less(InLoop(seq), {e.msg.n})
        PROVE  LoopOrdered(q)
    <2> SUFFICES ASSUME NEW i \in 1 .. n + 1, NEW j \in 1 .. n + 1,
                        i < j, Waits(q, i), Waits(q, j)
                 PROVE  q[i].msg.n < q[j].msg.n
      BY <1>1 DEF LoopOrdered
    <2>1. i \in 1 .. n
      BY <1>3, <1>4, <1>5
    <2>2. Waits(seq, i) /\ q[i] = seq[i]
      BY <1>1, <1>2, <2>1
    <2>3. CASE j \in 1 .. n
      <3>1. Waits(seq, j) /\ q[j] = seq[j]
        BY <1>1, <1>2, <2>3
      <3>2. QED
        BY <1>1, <2>1, <2>2, <2>3, <3>1 DEF LoopOrdered
    <2>4. CASE j = n + 1
      <3>1. e.do = "enqueue" /\ q[j] = e
        BY <1>1, <1>2, <2>4
      <3>2. seq[i].msg.n \in InLoop(seq)
        BY <1>1, <2>1, <2>2, InLoopIs
      <3>3. QED
        BY <1>9, <2>2, <3>1, <3>2 DEF P!Less
    <2>5. QED
      BY <1>3, <2>3, <2>4
  <1>10. QED
    BY <1>6, <1>7, <1>8, <1>9 DEF q

\* The oldest callback is executed.
LEMMA InLoopTail ==
  ASSUME NEW seq \in Seq(Callbacks), LoopOrdered(seq), seq # <<>>
  PROVE  /\ LoopOrdered(Tail(seq))
         /\ Head(seq).do # "enqueue" => InLoop(Tail(seq)) = InLoop(seq)
         /\ Head(seq).do = "enqueue"
              => /\ InLoop(seq) = {Head(seq).msg.n} \cup InLoop(Tail(seq))
                 /\ P!Less({Head(seq).msg.n}, InLoop(Tail(seq)))
  <1> DEFINE n == Len(seq)
             q == Tail(seq)
             e == Head(seq)
  <1>1. /\ n \in Nat \ {0} /\ DOMAIN seq = 1 .. n /\ DOMAIN q = 1 .. n - 1
        /\ \A i \in 1 .. n - 1 : q[i] = seq[i + 1]
        /\ e = seq[1]
    OBVIOUS
  <1> HIDE DEF q, n, e
  <1>2. /\ \A i \in 1 .. n - 1 : Waits(q, i) <=> Waits(seq, i + 1)
        /\ Waits(seq, 1) <=> e.do = "enqueue"
    BY <1>1 DEF Waits
  <1>3. /\ \A i \in 1 .. n : i = 1 \/ (i - 1 \in 1 .. n - 1 /\ (i - 1) + 1 = i)
        /\ \A i \in 1 .. n - 1 : i + 1 \in 1 .. n /\ 1 < i + 1
        /\ \A i, j \in 1 .. n - 1 : i < j => i + 1 < j + 1
        /\ 1 \in 1 .. n
    BY <1>1
  <1>4. ASSUME NEW k \in InLoop(seq)
        PROVE  k \in InLoop(q) \/ (e.do = "enqueue" /\ k = e.msg.n)
    <2>1. PICK i \in 1 .. n : Waits(seq, i) /\ k = seq[i].msg.n
      BY <1>1, <1>4, InLoopIs
    <2>2. CASE i = 1
      BY <1>1, <1>2, <2>1, <2>2
    <2>3. CASE i - 1 \in 1 .. n - 1 /\ (i - 1) + 1 = i
      <3>1. i - 1 \in DOMAIN q /\ Waits(q, i - 1) /\ k = q[i - 1].msg.n
        BY <1>1, <1>2, <2>1, <2>3
      <3>2. QED
        BY <3>1, InLoopIs
    <2>4. QED
      BY <1>3, <2>2, <2>3
  <1>5. ASSUME NEW k \in InLoop(q)
        PROVE  /\ k \in InLoop(seq)
               /\ e.do = "enqueue" => e.msg.n < k
    <2>1. PICK i \in 1 .. n - 1 : Waits(q, i) /\ k = q[i].msg.n
      BY <1>1, <1>5, InLoopIs
    <2>2. /\ i + 1 \in 1 .. n /\ 1 < i + 1 /\ Waits(seq, i + 1)
          /\ k = seq[i + 1].msg.n
      BY <1>1, <1>2, <1>3, <2>1
    <2>3. k \in InLoop(seq)
      BY <1>1, <2>2, InLoopIs
    <2>4. e.do = "enqueue" => e.msg.n < k
      BY <1>1, <1>2, <1>3, <2>2 DEF LoopOrdered
    <2>5. QED
      BY <2>3, <2>4
  <1>6. ASSUME e.do = "enqueue" PROVE e.msg.n \in InLoop(seq)
    BY <1>1, <1>2, <1>3, <1>6, InLoopIs
  <1>7. LoopOrdered(q)
    <2> SUFFICES ASSUME NEW i \in 1 .. n - 1, NEW j \in 1 .. n - 1,
                        i < j, Waits(q, i), Waits(q, j)
                 PROVE  q[i].msg.n < q[j].msg.n
      BY <1>1 DEF LoopOrdered
    <2>1. /\ i + 1 \in 1 .. n /\ j + 1 \in 1 .. n /\ i + 1 < j + 1
          /\ Waits(seq, i + 1) /\ Waits(seq, j + 1)
          /\ q[i] = seq[i + 1] /\ q[j] = seq[j + 1]
      BY <1>1, <1>2, <1>3
    <2>2. QED
      BY <1>1, <2>1 DEF LoopOrdered
  <1>8. QED
    BY <1>4, <1>5, <1>6, <1>7 DEF q, e, P!Less

----------------------------------------------------------------------------
\* The messages keep their order: the queue is older than what is scheduled,
\* that is older than what a thread has drained, and that is older than what
\* waits on the port.
LineInv ==
  /\ \A t \in P!R!Threads : /\ acc[t] # <<>> => rpc[t] = "drain"
                            /\ P!Ordered(acc[t])
  /\ P!Ordered(queue) /\ LoopOrdered(scheduled) /\ P!Ordered(line)
  /\ P!InLine(P!Numbers(queue), InLoop(scheduled), P!Held, P!Numbers(line))
  /\ \A k \in P!All(P!Numbers(queue), InLoop(scheduled), P!Held, P!Numbers(line)) :
        k <= arrived

\* What may still be delivered is all of the line.
Queued == P!All(P!Numbers(queue), InLoop(scheduled), P!Held, P!Numbers(line))

LEMMA LineIsAQueue == Typed /\ LineInv => P!QueueInv
  <1> SUFFICES ASSUME Typed, LineInv PROVE P!QueueInv
    OBVIOUS
  <1> DEFINE A == P!Numbers(queue)
             S == InLoop(scheduled)
             H == P!Held
             L == P!Numbers(line)
  <1>1. /\ P!Ordered(queue) /\ P!Ordered(line)
        /\ \A t \in P!R!Threads : /\ acc[t] # <<>> => rpc[t] = "drain"
                                  /\ P!Ordered(acc[t])
        /\ P!InLine(A, S, H, L)
        /\ \A k \in P!All(A, S, H, L) : k <= arrived
    BY DEF LineInv
  <1>2. P!Numbers(<<>>) = {} /\ P!Ordered(<<>>)
    BY Bounds, P!NoNumbers
  <1> HIDE DEF A, S, H, L
  <1>3. P!InLine({}, A, H, L) /\ \A k \in {} \cup A \cup H \cup L : k <= arrived
    BY <1>1 DEF P!InLine, P!Less, P!All
  <1>4. QED
    BY <1>1, <1>2, <1>3 DEF P!QueueInv, A, H, L

\* What the line is, seen from its sets of numbers.
LEMMA LineFacts ==
  ASSUME Typed, LineInv
  PROVE  /\ queue \in Seq(P!Messages) /\ line \in Seq(P!Messages)
         /\ scheduled \in Seq(Callbacks)
         /\ acc \in [P!R!Threads -> Seq(P!Messages)]
         /\ rpc \in [P!R!Threads -> P!R!ReaderPCs]
         /\ P!Ordered(queue) /\ P!Ordered(line) /\ LoopOrdered(scheduled)
         /\ \A t \in P!R!Threads : P!Ordered(acc[t])
         /\ P!Numbers(queue) \in SUBSET Nat /\ InLoop(scheduled) \in SUBSET Nat
         /\ P!Held \in SUBSET Nat /\ P!Numbers(line) \in SUBSET Nat
         /\ P!InLine(P!Numbers(queue), InLoop(scheduled), P!Held, P!Numbers(line))
         /\ arrived \in Nat
         /\ \A k \in Queued : k <= arrived
  <1>1. P!ReaderTyped /\ P!DeviceTyped /\ SchedulingTyped
    BY DEF Typed
  <1>2. /\ queue \in Seq(P!Messages) /\ line \in Seq(P!Messages)
        /\ scheduled \in Seq(Callbacks)
        /\ acc \in [P!R!Threads -> Seq(P!Messages)]
        /\ rpc \in [P!R!Threads -> P!R!ReaderPCs] /\ arrived \in Nat
    BY <1>1 DEF P!ReaderTyped, P!DeviceTyped, SchedulingTyped
  <1>3. /\ P!Numbers(queue) \in SUBSET Nat /\ P!Numbers(line) \in SUBSET Nat
        /\ P!Held \in SUBSET Nat
    BY <1>1, <1>2, Bounds, P!NumbersFacts, P!HeldTyped
  <1>4. InLoop(scheduled) \in SUBSET Nat
    BY <1>2, InLoopTyped
  <1>5. QED
    BY <1>2, <1>3, <1>4, Zenon DEF LineInv, Queued

\* A step of the promise, seen from all that is in the line.
Loses    == Queued' \subseteq Queued /\ UNCHANGED <<arrived, dispatched>>
Arrives  == /\ arrived' = arrived + 1 /\ Queued' = Queued \cup {arrived + 1}
            /\ dispatched' = dispatched
Delivers == \E m \in Queued : /\ \A k \in Queued : m <= k
                              /\ Queued' = Queued \ {m}
                              /\ dispatched' = Append(dispatched, m)
                              /\ arrived' = arrived

Promised == Loses \/ Arrives \/ Delivers

\* The line after a step.
LEMMA LineNext ==
  ASSUME \A t \in P!R!Threads : acc'[t] # <<>> => rpc'[t] = "drain",
         \A t \in P!R!Threads : P!Ordered(acc'[t]),
         P!Ordered(queue'), LoopOrdered(scheduled'), P!Ordered(line'),
         P!InLine(P!Numbers(queue)', InLoop(scheduled)', P!Held', P!Numbers(line)'),
         \A k \in Queued' : k <= arrived'
  PROVE  LineInv'
  BY DEF LineInv, Queued

----------------------------------------------------------------------------
\* What a step may do to the messages: lose some of the port, read some of it,
\* schedule one, enqueue one, dispatch one, or put a new one on the port.
KeepsLoop == LoopOrdered(scheduled') /\ InLoop(scheduled)' = InLoop(scheduled)

Drops == /\ \E n \in 0 .. Len(line) : line' = SubSeq(line, n + 1, Len(line))
         /\ \A t \in P!R!Threads : acc[t] # <<>> => rpc'[t] = "drain"
         /\ UNCHANGED <<acc, queue, arrived, dispatched>>
         /\ KeepsLoop

Reads(t) ==
  /\ \E n \in 0 .. Len(line) : /\ acc' = [acc EXCEPT ![t] = SubSeq(line, 1, n)]
                               /\ line' = SubSeq(line, n + 1, Len(line))
  /\ rpc[t] = "read" /\ rpc' = [rpc EXCEPT ![t] = "drain"]
  /\ UNCHANGED <<queue, scheduled, arrived, dispatched>>

Schedules(t) ==
  /\ acc[t] # <<>> /\ rpc[t] = "drain" /\ acc' = [acc EXCEPT ![t] = Tail(@)]
  /\ scheduled' = Append(scheduled, Enqueueing(Head(acc[t])))
  /\ UNCHANGED <<rpc, line, queue, arrived, dispatched>>

Enqueues ==
  /\ scheduled # <<>> /\ Head(scheduled).do = "enqueue"
  /\ scheduled' = Tail(scheduled)
  /\ \/ queue' = Append(queue, Head(scheduled).msg)
     \/ queue # <<>> /\ queue' = Append(Tail(queue), Head(scheduled).msg)
  /\ UNCHANGED <<acc, rpc, line, arrived, dispatched>>

Dispatches ==
  /\ queue # <<>> /\ queue' = Tail(queue)
  /\ \/ dispatched' = dispatched
     \/ dispatched' = Append(dispatched, P!Nr(Head(queue)))
  /\ UNCHANGED <<acc, rpc, line, scheduled, arrived>>

Comes == /\ arrived' = arrived + 1
         /\ \E m \in P!Messages : P!Nr(m) = arrived' /\ line' = Append(line, m)
         /\ UNCHANGED <<acc, rpc, queue, scheduled, dispatched>>

LEMMA HeldKept == acc' = acc => P!Held' = P!Held
  BY DEF P!Held

LEMMA DropsKeepsLine ==
  ASSUME Typed, LineInv, Drops
  PROVE  LineInv' /\ Promised
  <1> DEFINE A == P!Numbers(queue)
             S == InLoop(scheduled)
             H == P!Held
             L == P!Numbers(line)
  <1>1. /\ line \in Seq(P!Messages) /\ P!Ordered(line) /\ P!Ordered(queue)
        /\ \A t \in P!R!Threads : P!Ordered(acc[t])
        /\ P!InLine(A, S, H, L) /\ \A k \in Queued : k <= arrived
    BY LineFacts
  <1>2. PICK n \in 0 .. Len(line) : line' = SubSeq(line, n + 1, Len(line))
    BY DEF Drops
  <1>3. P!Ordered(line') /\ L' \subseteq L
    BY <1>1, <1>2, Bounds, P!NumbersSplit
  <1>4. A' = A /\ S' = S /\ H' = H /\ LoopOrdered(scheduled')
    BY HeldKept DEF Drops, KeepsLoop
  <1>5. Queued = A \cup S \cup H \cup L /\ Queued' = A' \cup S' \cup H' \cup L'
    BY DEF Queued, P!All
  <1> HIDE DEF A, S, H, L
  <1>6. P!InLine(A', S', H', L')
    BY <1>1, <1>3, <1>4 DEF P!InLine, P!Less
  <1>7. Queued' \subseteq Queued /\ \A k \in Queued' : k <= arrived'
    BY <1>1, <1>3, <1>4, <1>5 DEF Drops
  <1>8. LineInv'
    BY <1>1, <1>3, <1>4, <1>6, <1>7, LineNext DEF Drops, A, S, H, L
  <1>9. QED
    BY <1>7, <1>8 DEF Promised, Loses, Drops

\* A thread that reads or has messages is the only one that holds any.
LEMMA HolderIs ==
  ASSUME Typed, LineInv, P!Exclusion, NEW t \in P!R!Threads,
         rpc[t] \in {"read", "drain"}
  PROVE  /\ \A u \in P!R!Threads : u # t => acc[u] = <<>>
         /\ P!Held = P!Numbers(acc[t])
  BY LineIsAQueue, Bounds, P!HeldIs

LEMMA HeldNext ==
  ASSUME NEW t \in P!R!Threads, \A u \in P!R!Threads : u # t => acc'[u] = <<>>
  PROVE  P!Held' = P!Numbers(acc'[t])
  <1>1. P!Numbers(<<>>) = {}
    BY Bounds, P!NoNumbers
  <1>2. QED
    BY <1>1 DEF P!Held

LEMMA ReadsKeepsLine ==
  ASSUME Typed, LineInv, P!Exclusion, NEW t \in P!R!Threads, Reads(t)
  PROVE  LineInv' /\ Promised
  <1> DEFINE A == P!Numbers(queue)
             S == InLoop(scheduled)
             H == P!Held
             L == P!Numbers(line)
  <1>1. /\ line \in Seq(P!Messages) /\ acc \in [P!R!Threads -> Seq(P!Messages)]
        /\ rpc \in [P!R!Threads -> P!R!ReaderPCs]
        /\ P!Ordered(line) /\ P!Ordered(queue) /\ LoopOrdered(scheduled)
        /\ P!InLine(A, S, H, L) /\ \A k \in Queued : k <= arrived
    BY LineFacts
  <1>2. PICK n \in 0 .. Len(line) :
           /\ acc' = [acc EXCEPT ![t] = SubSeq(line, 1, n)]
           /\ line' = SubSeq(line, n + 1, Len(line))
    BY DEF Reads
  <1>3. /\ rpc[t] = "read" /\ rpc' = [rpc EXCEPT ![t] = "drain"]
        /\ UNCHANGED <<queue, scheduled, arrived, dispatched>>
    BY DEF Reads
  <1>4. H = {} /\ \A u \in P!R!Threads : acc[u] = <<>>
    <2>1. acc[t] = <<>> /\ \A u \in P!R!Threads : u # t => acc[u] = <<>>
      BY <1>3, HolderIs DEF LineInv
    <2>2. H = P!Numbers(<<>>)
      BY <1>3, <2>1, HolderIs
    <2>3. QED
      BY <2>1, <2>2, Bounds, P!NoNumbers
  <1>5. /\ acc'[t] = SubSeq(line, 1, n)
        /\ \A u \in P!R!Threads : u # t => acc'[u] = <<>>
    BY <1>1, <1>2, <1>4
  <1>6. H' = P!Numbers(acc'[t])
    BY <1>5, HeldNext
  <1>7. /\ P!Ordered(acc'[t]) /\ P!Ordered(line')
        /\ L = H' \cup L' /\ P!Less(H', L')
    BY <1>1, <1>2, <1>5, <1>6, Bounds, P!NumbersSplit
  <1>8. A' = A /\ S' = S
    BY <1>3
  <1>9. Queued = A \cup S \cup H \cup L /\ Queued' = A' \cup S' \cup H' \cup L'
    BY DEF Queued, P!All
  <1>10. P!Ordered(<<>>)
    BY Bounds, P!NoNumbers
  <1>11. /\ \A u \in P!R!Threads : P!Ordered(acc'[u])
         /\ \A u \in P!R!Threads : acc'[u] # <<>> => rpc'[u] = "drain"
    BY <1>1, <1>3, <1>5, <1>7, <1>10
  <1> HIDE DEF A, S, H, L
  <1>12. P!InLine(A', S', H', L')
    BY <1>1, <1>4, <1>7, <1>8 DEF P!InLine, P!Less
  <1>13. Queued' = Queued
    BY <1>4, <1>7, <1>8, <1>9
  <1>14. LineInv'
    BY <1>1, <1>3, <1>7, <1>11, <1>12, <1>13, LineNext DEF A, S, H, L
  <1>15. QED
    BY <1>3, <1>13, <1>14 DEF Promised, Loses

LEMMA SchedulesKeepsLine ==
  ASSUME Typed, LineInv, P!Exclusion, NEW t \in P!R!Threads, Schedules(t)
  PROVE  LineInv' /\ Promised
  <1> DEFINE A == P!Numbers(queue)
             S == InLoop(scheduled)
             H == P!Held
             L == P!Numbers(line)
             m == Head(acc[t])
             e == Enqueueing(m)
  <1>1. /\ scheduled \in Seq(Callbacks)
        /\ acc \in [P!R!Threads -> Seq(P!Messages)]
        /\ P!Ordered(line) /\ P!Ordered(queue) /\ LoopOrdered(scheduled)
        /\ \A u \in P!R!Threads : P!Ordered(acc[u])
        /\ P!InLine(A, S, H, L) /\ \A k \in Queued : k <= arrived
    BY LineFacts
  <1>2. /\ acc[t] # <<>> /\ rpc[t] = "drain"
        /\ acc' = [acc EXCEPT ![t] = Tail(@)]
        /\ scheduled' = Append(scheduled, e)
        /\ UNCHANGED <<rpc, line, queue, arrived, dispatched>>
    BY DEF Schedules
  <1>3. H = P!Numbers(acc[t]) /\ \A u \in P!R!Threads : u # t => acc[u] = <<>>
    BY <1>2, HolderIs
  <1>4. /\ acc'[t] = Tail(acc[t])
        /\ \A u \in P!R!Threads : u # t => acc'[u] = <<>>
    BY <1>1, <1>2, <1>3
  <1>5. H' = P!Numbers(acc'[t])
    BY <1>4, HeldNext
  <1>6. acc[t] \in Seq(P!Messages) /\ P!Ordered(acc[t])
    BY <1>1
  <1>7. /\ m \in P!Messages /\ P!Ordered(acc'[t])
        /\ H = {P!Nr(m)} \cup H' /\ P!Less({P!Nr(m)}, H')
    BY <1>2, <1>3, <1>4, <1>5, <1>6, Bounds, P!NumbersTail
  <1>8. P!Less(S, {P!Nr(m)})
    <2>1. P!Nr(m) \in H
      BY <1>7
    <2> HIDE DEF A, S, H, L, m
    <2>2. QED
      BY <1>1, <2>1 DEF P!InLine, P!Less
  <1>9. e \in Callbacks /\ e.do = "enqueue" /\ e.msg.n = P!Nr(m)
    <2>1. m \in D!Messages
      BY <1>7, SameSets
    <2> HIDE DEF m
    <2>2. QED
      BY <2>1 DEF Callbacks, Enqueueing, P!Nr
  <1>10. LoopOrdered(scheduled') /\ S' = S \cup {P!Nr(m)}
    <2>1. P!Less(InLoop(scheduled), {e.msg.n})
      BY <1>8, <1>9
    <2> HIDE DEF e, m
    <2>2. /\ LoopOrdered(Append(scheduled, e))
          /\ InLoop(Append(scheduled, e)) = InLoop(scheduled) \cup {e.msg.n}
      BY <1>1, <1>9, <2>1, InLoopAppend
    <2>3. QED
      BY <1>2, <1>9, <2>2
  <1>11. A' = A /\ L' = L
    BY <1>2
  <1>12. Queued = A \cup S \cup H \cup L /\ Queued' = A' \cup S' \cup H' \cup L'
    BY DEF Queued, P!All
  <1>13. P!Ordered(<<>>)
    BY Bounds, P!NoNumbers
  <1>14. /\ \A u \in P!R!Threads : P!Ordered(acc'[u])
         /\ \A u \in P!R!Threads : acc'[u] # <<>> => rpc'[u] = "drain"
    BY <1>2, <1>4, <1>7, <1>13
  <1> HIDE DEF A, S, H, L, m, e
  <1>15. P!InLine(A', S', H', L')
    BY <1>1, <1>7, <1>8, <1>10, <1>11 DEF P!InLine, P!Less
  <1>16. Queued' = Queued
    BY <1>7, <1>10, <1>11, <1>12
  <1>17. LineInv'
    BY <1>1, <1>2, <1>10, <1>14, <1>15, <1>16, LineNext DEF A, S, H, L
  <1>18. QED
    BY <1>2, <1>16, <1>17 DEF Promised, Loses

LEMMA EnqueuesKeepsLine ==
  ASSUME Typed, LineInv, Enqueues
  PROVE  LineInv' /\ Promised
  <1> DEFINE A == P!Numbers(queue)
             S == InLoop(scheduled)
             H == P!Held
             L == P!Numbers(line)
             m == Head(scheduled).msg
  <1>1. /\ scheduled \in Seq(Callbacks) /\ queue \in Seq(P!Messages)
        /\ P!Ordered(line) /\ P!Ordered(queue) /\ LoopOrdered(scheduled)
        /\ \A u \in P!R!Threads : P!Ordered(acc[u])
        /\ P!InLine(A, S, H, L) /\ \A k \in Queued : k <= arrived
    BY LineFacts
  <1>2. /\ scheduled # <<>> /\ Head(scheduled).do = "enqueue"
        /\ scheduled' = Tail(scheduled)
        /\ UNCHANGED <<acc, rpc, line, arrived, dispatched>>
    BY DEF Enqueues
  <1>3. /\ LoopOrdered(scheduled') /\ S = {m.n} \cup S' /\ P!Less({m.n}, S')
    BY <1>1, <1>2, InLoopTail
  <1>4. m \in P!Messages /\ P!Nr(m) = m.n
    BY <1>2, HeadIs, SameSets DEF Typed, P!Nr
  <1>5. PICK b \in Seq(P!Messages) :
           /\ P!Ordered(b) /\ P!Numbers(b) \subseteq A
           /\ queue' = Append(b, m)
    <2>1. CASE queue' = Append(queue, m)
      BY <1>1, <2>1
    <2>2. CASE queue # <<>> /\ queue' = Append(Tail(queue), m)
      <3>1. /\ Tail(queue) \in Seq(P!Messages) /\ P!Ordered(Tail(queue))
            /\ P!Numbers(Tail(queue)) \subseteq A
        BY <1>1, <2>2, Bounds, P!NumbersTail
      <3>2. QED
        BY <2>2, <3>1
    <2>3. QED
      BY <2>1, <2>2 DEF Enqueues
  <1>6. P!Less(P!Numbers(b), {P!Nr(m)})
    <2>1. P!Nr(m) \in S
      BY <1>3, <1>4
    <2> HIDE DEF A, S, H, L, m
    <2>2. QED
      BY <1>1, <1>5, <2>1 DEF P!InLine, P!Less
  <1>7. P!Ordered(queue') /\ A' = P!Numbers(b) \cup {m.n}
    <2> HIDE DEF m
    <2>1. QED
      BY <1>4, <1>5, <1>6, Bounds, P!NumbersAppend
  <1>8. H' = H /\ L' = L
    BY <1>2, HeldKept
  <1>9. Queued = A \cup S \cup H \cup L /\ Queued' = A' \cup S' \cup H' \cup L'
    BY DEF Queued, P!All
  <1> HIDE DEF A, S, H, L, m
  <1>10. P!InLine(A', S', H', L')
    BY <1>1, <1>3, <1>5, <1>7, <1>8 DEF P!InLine, P!Less
  <1>11. Queued' \subseteq Queued
    BY <1>3, <1>5, <1>7, <1>8, <1>9
  <1>12. LineInv'
    <2>1. \A t \in P!R!Threads : acc[t] # <<>> => rpc[t] = "drain"
      BY DEF LineInv
    <2>2. QED
      BY <1>1, <1>2, <1>3, <1>7, <1>10, <1>11, <2>1, LineNext DEF A, S, H, L
  <1>13. QED
    BY <1>2, <1>11, <1>12 DEF Promised, Loses

LEMMA DispatchesKeepsLine ==
  ASSUME Typed, LineInv, Dispatches
  PROVE  LineInv' /\ Promised
  <1> DEFINE A == P!Numbers(queue)
             S == InLoop(scheduled)
             H == P!Held
             L == P!Numbers(line)
             m == P!Nr(Head(queue))
  <1>1. /\ queue \in Seq(P!Messages)
        /\ P!Ordered(line) /\ P!Ordered(queue) /\ LoopOrdered(scheduled)
        /\ \A u \in P!R!Threads : P!Ordered(acc[u])
        /\ A \in SUBSET Nat /\ S \in SUBSET Nat /\ H \in SUBSET Nat
        /\ L \in SUBSET Nat
        /\ P!InLine(A, S, H, L) /\ \A k \in Queued : k <= arrived
    BY LineFacts
  <1>2. /\ queue # <<>> /\ queue' = Tail(queue)
        /\ dispatched' = dispatched \/ dispatched' = Append(dispatched, m)
        /\ UNCHANGED <<acc, rpc, line, scheduled, arrived>>
    BY DEF Dispatches
  <1>3. /\ P!Ordered(queue') /\ A = {m} \cup A' /\ P!Less({m}, A')
    BY <1>1, <1>2, Bounds, P!NumbersTail
  <1>4. S' = S /\ H' = H /\ L' = L
    BY <1>2, HeldKept
  <1>5. Queued = A \cup S \cup H \cup L /\ Queued' = A' \cup S' \cup H' \cup L'
    BY DEF Queued, P!All
  <1> HIDE DEF A, S, H, L, m
  <1>6. P!InLine(A', S', H', L')
    BY <1>1, <1>3, <1>4 DEF P!InLine, P!Less
  <1>7. P!Less({m}, Queued')
    BY <1>1, <1>3, <1>4, <1>5 DEF P!InLine, P!Less
  <1>8. m \in Nat /\ m \in Queued /\ Queued = {m} \cup Queued' /\ Queued \in SUBSET Nat
    BY <1>1, <1>3, <1>4, <1>5
  <1>9. LineInv'
    <2>1. \A t \in P!R!Threads : acc[t] # <<>> => rpc[t] = "drain"
      BY DEF LineInv
    <2>2. \A k \in Queued' : k <= arrived'
      BY <1>1, <1>2, <1>8
    <2>3. QED
      BY <1>1, <1>2, <1>3, <1>6, <2>1, <2>2, LineNext DEF A, S, H, L
  <1>10. \A k \in Queued' : m < k /\ k \in Nat
    BY <1>7, <1>8 DEF P!Less
  <1>11. (\A k \in Queued : m <= k) /\ m \notin Queued'
    BY <1>8, <1>10
  <1>12. Queued' = Queued \ {m}
    BY <1>8, <1>11
  <1>13. Promised
    BY <1>2, <1>8, <1>11, <1>12 DEF Promised, Loses, Delivers
  <1>14. QED
    BY <1>9, <1>13

LEMMA ComesKeepsLine ==
  ASSUME Typed, LineInv, Comes
  PROVE  LineInv' /\ Promised
  <1> DEFINE A == P!Numbers(queue)
             S == InLoop(scheduled)
             H == P!Held
             L == P!Numbers(line)
  <1>1. /\ line \in Seq(P!Messages)
        /\ P!Ordered(line) /\ P!Ordered(queue) /\ LoopOrdered(scheduled)
        /\ \A u \in P!R!Threads : P!Ordered(acc[u])
        /\ A \in SUBSET Nat /\ S \in SUBSET Nat /\ H \in SUBSET Nat
        /\ L \in SUBSET Nat /\ arrived \in Nat
        /\ P!InLine(A, S, H, L) /\ \A k \in Queued : k <= arrived
    BY LineFacts
  <1>2. /\ arrived' = arrived + 1
        /\ UNCHANGED <<acc, rpc, queue, scheduled, dispatched>>
    BY DEF Comes
  <1>3. PICK m \in P!Messages : P!Nr(m) = arrived + 1 /\ line' = Append(line, m)
    BY <1>2 DEF Comes
  <1>4. A' = A /\ S' = S /\ H' = H
    BY <1>2, HeldKept
  <1>5. Queued = A \cup S \cup H \cup L /\ Queued' = A' \cup S' \cup H' \cup L'
    BY DEF Queued, P!All
  <1>6. P!Less(Queued, {arrived + 1}) /\ P!Less(L, {arrived + 1})
    <2> HIDE DEF A, S, H, L
    <2>1. \A k \in Queued : k \in Nat /\ k < arrived + 1
      BY <1>1, <1>5
    <2>2. QED
      BY <1>5, <2>1 DEF P!Less
  <1>7. P!Ordered(line') /\ L' = L \cup {arrived + 1}
    BY <1>1, <1>3, <1>6, Bounds, P!NumbersAppend
  <1> HIDE DEF A, S, H, L
  <1>8. P!InLine(A', S', H', L')
    BY <1>1, <1>4, <1>5, <1>6, <1>7 DEF P!InLine, P!Less
  <1>9. Queued' = Queued \cup {arrived + 1}
    BY <1>4, <1>5, <1>7
  <1>10. \A k \in Queued' : k <= arrived'
    BY <1>1, <1>2, <1>5, <1>9
  <1>11. LineInv'
    <2>1. \A t \in P!R!Threads : acc[t] # <<>> => rpc[t] = "drain"
      BY DEF LineInv
    <2>2. QED
      BY <1>1, <1>2, <1>7, <1>8, <1>10, <2>1, LineNext DEF A, S, H, L
  <1>12. QED
    BY <1>2, <1>9, <1>11 DEF Promised, Arrives

----------------------------------------------------------------------------
\* Every step of the device is one of these moves.
Moves == \/ Drops \/ Enqueues \/ Dispatches \/ Comes
         \/ \E t \in P!R!Threads : Reads(t) \/ Schedules(t)

\* What is scheduled or executed is not the enqueueing of a message.
LEMMA LoopKept ==
  ASSUME Typed, LineInv,
         \/ Resumes
         \/ scheduled' = Append(scheduled, Error)
         \/ /\ scheduled # <<>> /\ Head(scheduled).do # "enqueue"
            /\ scheduled' = Tail(scheduled)
  PROVE  KeepsLoop
  <1>1. scheduled \in Seq(Callbacks) /\ LoopOrdered(scheduled)
    BY LineFacts
  <1>2. /\ Error \in Callbacks /\ Error.do # "enqueue"
        /\ Resumption \in Callbacks /\ Resumption.do # "enqueue"
    BY DEF Callbacks, Error, Resumption
  <1>3. CASE scheduled' = scheduled
    BY <1>1, <1>3 DEF KeepsLoop
  <1>4. ASSUME NEW e \in {Error, Resumption}, scheduled' = Append(scheduled, e)
        PROVE  KeepsLoop
    <2>1. /\ LoopOrdered(Append(scheduled, e))
          /\ InLoop(Append(scheduled, e)) = InLoop(scheduled)
      BY <1>1, <1>2, InLoopAppend
    <2>2. QED
      BY <1>4, <2>1 DEF KeepsLoop
  <1>5. CASE /\ scheduled # <<>> /\ Head(scheduled).do # "enqueue"
             /\ scheduled' = Tail(scheduled)
    <2>1. /\ LoopOrdered(Tail(scheduled))
          /\ InLoop(Tail(scheduled)) = InLoop(scheduled)
      BY <1>1, <1>5, InLoopTail
    <2>2. QED
      BY <1>5, <2>1 DEF KeepsLoop
  <1>6. QED
    BY <1>3, <1>4, <1>5 DEF Resumes

LEMMA StaysDrops ==
  ASSUME Typed, KeepsLoop, UNCHANGED <<acc, line, queue, arrived, dispatched>>,
         \A t \in P!R!Threads : acc[t] # <<>> => rpc'[t] = "drain"
  PROVE  Drops
  <1>1. line \in Seq(P!Messages)
    BY DEF Typed, P!ReaderTyped
  <1>2. 0 \in 0 .. Len(line) /\ line = SubSeq(line, 0 + 1, Len(line))
    BY <1>1
  <1>3. QED
    BY <1>2 DEF Drops

LEMMA InCallMoves ==
  ASSUME Typed, P!Exclusion, LineInv, InCall
  PROVE  Drops
  <1>1. /\ line \in Seq(P!Messages) /\ P!ReaderTyped /\ P!QueueInv
        /\ \A t \in P!R!Threads : acc[t] # <<>> => rpc[t] = "drain"
    BY LineIsAQueue DEF Typed, P!ReaderTyped, LineInv
  <1>2. CASE BeginStop \/ BeginStart \/ InReader
    <2>1. P!R!Start \/ P!R!Stop
      BY <1>2, SameOwner, InReaderFacts DEF BeginStop, BeginStart, P!BeginStop,
         P!BeginStart, P!R!Start, P!R!Stop
    <2>2. /\ UNCHANGED <<acc, line>>
          /\ \A t \in P!R!Threads : acc[t] # <<>> => rpc'[t] = "drain"
      BY <1>1, <2>1, Bounds, P!OwnerKeepsQueue
    <2>3. UNCHANGED <<queue, arrived, dispatched>>
      BY <1>2 DEF BeginStop, BeginStart, InReader, D!BeginStop, D!BeginStart,
         D!InReader, D!deviceVars
    <2>4. Resumes
      BY <1>2, StopFacts, StartFacts, InReaderFacts DEF Resumes, loopVars
    <2>5. KeepsLoop
      BY <2>4, LoopKept
    <2>6. QED
      BY <2>2, <2>3, <2>5, StaysDrops
  <1>3. CASE Send \/ GiveUp \/ Assign \/ ClosePort
    <2>1. UNCHANGED <<acc, rpc, line, queue, arrived, dispatched>>
      BY <1>3 DEF Send, GiveUp, Assign, ClosePort, D!Send, D!GiveUp, D!Assign,
         D!ClosePort, D!readerVars, D!deviceVars
    <2>2. Resumes
      BY <1>3, ExchangeFacts, AssignFacts, ClosePortFacts DEF Resumes
    <2>3. KeepsLoop
      BY <2>2, LoopKept
    <2>4. QED
      BY <1>1, <2>1, <2>3, StaysDrops
  <1>4. CASE Receive
    <2>1. PICK n \in 1 .. Len(line) : line' = SubSeq(line, n + 1, Len(line))
      BY <1>4, Zenon DEF Receive, D!Receive
    <2>2. n \in 0 .. Len(line)
      BY <1>1
    <2>3. UNCHANGED <<acc, rpc, queue, arrived, dispatched>>
      BY <1>4 DEF Receive, D!Receive, D!deviceVars
    <2>4. Resumes
      BY <1>4, ExchangeFacts
    <2>5. KeepsLoop
      BY <2>4, LoopKept
    <2>6. QED
      BY <1>1, <2>1, <2>2, <2>3, <2>5 DEF Drops
  <1>5. CASE Flush
    <2>1. Len(line) \in 0 .. Len(line) /\ SubSeq(line, Len(line) + 1, Len(line)) = <<>>
      BY <1>1
    <2>2. /\ line' = <<>> \/ line' = line
          /\ UNCHANGED <<acc, rpc, queue, arrived, dispatched>>
          /\ Resumes
      BY <1>5 DEF Flush, readerVars, WorkerDone, Resumes
    <2>3. KeepsLoop
      BY <2>2, LoopKept
    <2>4. CASE line' = <<>>
      BY <1>1, <2>1, <2>2, <2>3, <2>4 DEF Drops
    <2>5. CASE line' = line
      BY <1>1, <2>2, <2>3, <2>5, StaysDrops
    <2>6. QED
      BY <2>2, <2>4, <2>5
  <1>6. CASE Open \/ Spawn \/ Wrap \/ Rescue \/ Reraise \/ Cancel \/ Await
    <2>1. UNCHANGED <<acc, rpc, line, queue, arrived, dispatched>> /\ Resumes
      BY <1>6 DEF Open, Spawn, Wrap, Rescue, Reraise, Cancel, Await, LoopOnly,
         readerVars, WorkerDone, Resumes
    <2>2. KeepsLoop
      BY <2>1, LoopKept
    <2>3. QED
      BY <1>1, <2>1, <2>2, StaysDrops
  <1>7. QED
    BY <1>2, <1>3, <1>4, <1>5, <1>6 DEF InCall

LEMMA LoopMoves ==
  ASSUME Typed, LineInv, Loop
  PROVE  Drops \/ Enqueues \/ Dispatches
  <1>1. /\ \A t \in P!R!Threads : acc[t] # <<>> => rpc[t] = "drain"
        /\ SchedulingTyped /\ queue \in Seq(P!Messages)
        /\ QueueSize \in Nat /\ QueueSize # 0
    BY AsyncAssumption DEF Typed, P!DeviceTyped, LineInv, AsyncAssumption
  <1>2. CASE EnqueueMessage
    <2>1. /\ scheduled # <<>> /\ Head(scheduled).do = "enqueue"
          /\ scheduled' = Tail(scheduled)
          /\ UNCHANGED <<acc, rpc, line, arrived, dispatched>>
      <3>1. CASE EnqueueMessage
        BY <3>1 DEF EnqueueMessage, RunNext, readerVars
      <3>2. QED
        BY <1>2, <3>1
    <2>2. Len(queue) = QueueSize => queue # <<>>
      BY <1>1
    <2>3. QED
      BY <1>2, <2>1, <2>2 DEF EnqueueMessage, Enqueues
  <1>3. CASE OnError \/ Resume
    <2>1. /\ scheduled # <<>> /\ Head(scheduled).do # "enqueue"
          /\ scheduled' = Tail(scheduled)
          /\ UNCHANGED <<acc, rpc, line, queue, dispatched>>
      BY <1>3 DEF OnError, Resume, RunNext, readerVars
    <2>2. arrived' = arrived
      BY <1>3 DEF OnError, Resume, RunNext
    <2>3. KeepsLoop
      BY <2>1, LoopKept
    <2>4. QED
      BY <1>1, <2>1, <2>2, <2>3, StaysDrops
  <1>4. CASE Handled \/ HandlingRaises \/ Cancelled
    <2>1. /\ UNCHANGED <<acc, rpc, line, queue, arrived, dispatched>>
          /\ scheduled' = scheduled \/ scheduled' = Append(scheduled, Error)
      BY <1>4 DEF Handled, HandlingRaises, Cancelled, DispatchStep, readerVars
    <2>2. KeepsLoop
      BY <2>1, LoopKept DEF Resumes
    <2>3. QED
      BY <1>1, <2>1, <2>2, StaysDrops
  <1>5. CASE Dispatch
    BY <1>5 DEF Dispatch, DispatchStep, readerVars, Dispatches, P!Nr
  <1>6. QED
    BY <1>2, <1>3, <1>4, <1>5 DEF Loop

LEMMA ThreadMoves ==
  ASSUME Typed, LineInv, NEW t \in Threads, Reader(t)
  PROVE  Moves
  <1>1. /\ \A u \in P!R!Threads : acc[u] # <<>> => rpc[u] = "drain"
        /\ rpc \in [P!R!Threads -> P!R!ReaderPCs] /\ t \in P!R!Threads
    BY ThreadFacts DEF Typed, P!ReaderTyped, LineInv
  <1>2. UNCHANGED <<queue, arrived, dispatched>>
    BY DEF Reader, OnReaderMessage, OnReaderError, ReaderAlone, D!ReaderAlone,
       OutsideReader, D!deviceVars
  <1>3. CASE OnReaderMessage(t)
    BY <1>1, <1>2, <1>3 DEF OnReaderMessage, D!R!NextMessage, Schedules, Moves
  <1>4. CASE OnReaderError(t)
    <2>1. /\ UNCHANGED <<acc, line>> /\ scheduled' = Append(scheduled, Error)
          /\ \A u \in P!R!Threads : acc[u] # <<>> => rpc'[u] = "drain"
      BY <1>1, <1>4 DEF OnReaderError, D!R!EndAfterFault, D!R!Step
    <2>2. KeepsLoop
      BY <2>1, LoopKept
    <2>3. QED
      BY <1>2, <2>1, <2>2, StaysDrops DEF Moves
  <1>5. CASE ReaderAlone(t)
    <2>1. scheduled' = scheduled /\ D!R!ReaderAlone(t)
      BY <1>5 DEF ReaderAlone, D!ReaderAlone, loopVars
    <2>2. CASE D!R!Read(t)
      BY <1>1, <1>2, <2>1, <2>2 DEF D!R!Read, D!R!Step, Reads, Moves
    <2>3. CASE ~D!R!Read(t)
      <3>1. /\ UNCHANGED <<acc, line>>
            /\ \A u \in P!R!Threads : acc[u] # <<>> => rpc'[u] = "drain"
        BY <1>1, <2>1, <2>3 DEF D!R!ReaderAlone, D!R!TestEvent, D!R!ReadFails,
           D!R!Drained, D!R!SetFaulted, D!R!FaultSetsEvent, D!R!Step
      <3>2. KeepsLoop
        BY <2>1, LoopKept DEF Resumes
      <3>3. QED
        BY <1>2, <3>1, <3>2, StaysDrops DEF Moves
    <2>4. QED
      BY <2>2, <2>3
  <1>6. QED
    BY <1>3, <1>4, <1>5 DEF Reader

LEMMA SensorMoves ==
  ASSUME Typed, LineInv, Sensor
  PROVE  Drops \/ Comes
  <1>1. /\ \A t \in P!R!Threads : acc[t] # <<>> => rpc[t] = "drain"
        /\ arrived \in Nat /\ wire \in Seq(P!Requests)
    BY DEF Typed, P!ReaderTyped, P!DeviceTyped, LineInv
  <1>2. UNCHANGED <<queue, scheduled>>
    BY SensorFacts DEF loopVars
  <1>3. ASSUME NEW mid \in P!Mids, D!Emit(mid) PROVE Comes
    <2> DEFINE m == [n |-> arrived', mid |-> mid]
    <2>1. /\ arrived' = arrived + 1 /\ line' = Append(line, m)
          /\ UNCHANGED <<acc, rpc, dispatched>>
      BY <1>3 DEF D!Emit, D!deviceVars
    <2>2. m \in P!Messages /\ P!Nr(m) = arrived'
      BY <1>1, <2>1 DEF P!Messages, P!Nr
    <2> HIDE DEF m
    <2>3. QED
      BY <1>2, <2>1, <2>2 DEF Comes
  <1>4. CASE D!Stream
    BY <1>3, <1>4 DEF D!Stream, P!Mids
  <1>5. CASE D!Answer
    <2>1. Head(wire) \in P!Requests
      BY <1>1, <1>5 DEF D!Answer
    <2>2. \E mid \in P!Mids : D!Emit(mid)
      BY <1>5, <2>1 DEF D!Answer, P!Mids
    <2>3. QED
      BY <1>3, <2>2
  <1>6. CASE D!Overlook
    <2>1. UNCHANGED <<acc, rpc, line, arrived, dispatched>>
      BY <1>6 DEF D!Overlook, D!readerVars, D!deviceVars
    <2>2. KeepsLoop
      BY <1>2, LoopKept DEF Resumes
    <2>3. QED
      BY <1>1, <1>2, <2>1, <2>2, StaysDrops
  <1>7. QED
    BY <1>4, <1>5, <1>6 DEF Sensor, D!Sensor

LEMMA StepMoves ==
  ASSUME Typed, P!Exclusion, LineInv, [Next]_vars
  PROVE  Moves
  <1>1. ASSUME UNCHANGED <<acc, rpc, line, queue, scheduled, arrived, dispatched>>
        PROVE  Moves
    <2>1. \A t \in P!R!Threads : acc[t] # <<>> => rpc'[t] = "drain"
      BY <1>1 DEF LineInv
    <2>2. KeepsLoop
      BY <1>1, LoopKept DEF Resumes
    <2>3. QED
      BY <1>1, <2>1, <2>2, StaysDrops DEF Moves
  <1>2. CASE \/ \E call \in Calls, who \in {"main", "callback"} : Call(call, who)
             \/ SetOnMessage \/ UNCHANGED vars
    BY <1>1, <1>2 DEF Call, SetOnMessage, readerVars, vars, deviceVars, loopVars
  <1>3. CASE InCall
    BY <1>3, InCallMoves DEF Moves
  <1>4. CASE Loop
    BY <1>4, LoopMoves DEF Moves
  <1>5. ASSUME NEW t \in Threads, Reader(t) PROVE Moves
    BY <1>5, ThreadMoves
  <1>6. CASE Sensor
    BY <1>6, SensorMoves DEF Moves
  <1>7. QED
    BY <1>2, <1>3, <1>4, <1>5, <1>6 DEF Next

LEMMA LineKept ==
  ASSUME Typed, P!Exclusion, LineInv, [Next]_vars
  PROVE  LineInv' /\ Promised
  BY StepMoves, DropsKeepsLine, ReadsKeepsLine, SchedulesKeepsLine,
     EnqueuesKeepsLine, DispatchesKeepsLine, ComesKeepsLine DEF Moves

LEMMA LineInit == Init => LineInv
  <1> SUFFICES ASSUME Init PROVE LineInv
    OBVIOUS
  <1>1. /\ \A t \in P!R!Threads : acc[t] = <<>>
        /\ queue = <<>> /\ scheduled = <<>> /\ line = <<>>
    BY SameSets DEF Init, D!R!Init, Threads
  <1>2. P!Numbers(<<>>) = {} /\ P!Ordered(<<>>)
    BY Bounds, P!NoNumbers
  <1>3. P!Held = {}
    BY <1>1, <1>2 DEF P!Held
  <1>4. InLoop(<<>>) = {} /\ LoopOrdered(<<>>)
    BY DEF InLoop, LoopOrdered
  <1>5. QED
    BY <1>1, <1>2, <1>3, <1>4 DEF LineInv, P!InLine, P!Less, P!All

LEMMA PendingIs == Typed /\ LineInv => Pending = Queued
  <1> SUFFICES ASSUME Typed, LineInv PROVE Pending = Queued
    OBVIOUS
  <1>1. \A seq : Numbers(seq) = P!Numbers(seq)
    BY DEF Numbers, P!Numbers
  <1>2. ASSUME NEW t \in P!R!Threads, t \notin P!R!Reading
        PROVE  P!Numbers(acc[t]) = {}
    <2>1. acc[t] = <<>>
      BY <1>2 DEF LineInv, P!R!Reading
    <2>2. QED
      BY <2>1, Bounds, P!NoNumbers
  <1>3. P!R!Reading \subseteq P!R!Threads /\ D!R!Reading = P!R!Reading
    BY SameSets DEF P!R!Reading
  <1>4. UNION {P!Numbers(acc[t]) : t \in P!R!Reading} = P!Held
    BY <1>2, <1>3 DEF P!Held
  <1>5. UNION {Numbers(acc[t]) : t \in D!R!Reading} = P!Held
    BY <1>1, <1>3, <1>4
  <1>6. QED
    BY <1>1, <1>5 DEF Pending, Queued, P!All, InLoop, Waits

LEMMA PendingIsNext == Typed' /\ LineInv' => Pending' = Queued'
  <1>1. (Typed /\ LineInv => Pending = Queued)'
    BY PendingIs, PTL
  <1>2. QED
    BY <1>1

\* Every behaviour of the asyncio device is one of OrderedDelivery: whatever
\* is called, and in whatever order the loop and the threads run, the callback
\* receives the messages in the order of their arrival and none of them twice.
THEOREM AsyncDeviceKeepsThePromise == Spec => ImplementsOrderedDelivery
  <1>1. Inv => Typed /\ P!Exclusion
    BY DEF Inv
  <1>2. Init => LineInv /\ Promise!Init
    <2> SUFFICES ASSUME Init PROVE LineInv /\ Promise!Init
      OBVIOUS
    <2>1. Typed /\ LineInv
      BY InvInit, LineInit DEF Inv
    <2>2. /\ \A t \in D!R!Reading : acc[t] = <<>>
          /\ queue = <<>> /\ scheduled = <<>> /\ line = <<>>
          /\ arrived = 0 /\ dispatched = <<>>
      BY DEF Init, D!R!Init, D!R!Reading
    <2>3. Numbers(<<>>) = {}
      BY DEF Numbers
    <2>4. Pending = {}
      BY <2>2, <2>3 DEF Pending
    <2>5. QED
      BY <2>1, <2>2, <2>4 DEF Promise!Init
  <1>3. Inv /\ Inv' /\ LineInv /\ [Next]_vars
          => LineInv' /\ [Promise!Next]_(Promise!vars)
    <2> SUFFICES ASSUME Inv, Inv', LineInv, [Next]_vars
                 PROVE  LineInv' /\ [Promise!Next]_(Promise!vars)
      OBVIOUS
    <2>1. Typed /\ P!Exclusion /\ Typed'
      BY <1>1 DEF Inv
    <2>2. LineInv' /\ Promised
      BY <2>1, LineKept
    <2>3. Pending = Queued /\ Pending' = Queued'
      BY <2>1, <2>2, PendingIs, PendingIsNext
    <2>4. CASE Loses
      BY <2>2, <2>3, <2>4 DEF Loses, Promise!Next, Promise!Lose, Promise!vars
    <2>5. CASE Arrives
      BY <2>2, <2>3, <2>5 DEF Arrives, Promise!Next, Promise!Arrive
    <2>6. CASE Delivers
      BY <2>2, <2>3, <2>6 DEF Delivers, Promise!Next, Promise!Deliver
    <2>7. QED
      BY <2>2, <2>4, <2>5, <2>6 DEF Promised
  <1>4. Spec => []Inv
    BY Invariance
  <1>5. QED
    BY <1>2, <1>3, <1>4, PTL DEF Spec, ImplementsOrderedDelivery, Promise!Spec


\* The callback of the asyncio device receives the messages in the order of their
\* arrival, and none of them twice.
THEOREM InOrderAlways == Spec => []Promise!InOrder
  <1> DEFINE InLineSoFar == P!OrderKept(arrived, Pending, dispatched)
  <1>1. Promise!Init => InLineSoFar
    BY DEF Promise!Init, P!OrderKept
  <1>2. InLineSoFar /\ [Promise!Next]_(Promise!vars) => InLineSoFar'
    <2> SUFFICES ASSUME InLineSoFar, [Promise!Next]_(Promise!vars) PROVE InLineSoFar'
      OBVIOUS
    <2>0. InLineSoFar' <=> P!OrderKept(arrived', Pending', dispatched')
      BY DEF P!OrderKept
    <2>1. CASE Promise!Arrive
      BY <2>0, <2>1, Bounds, P!OrderAtArrival DEF Promise!Arrive
    <2>2. CASE Promise!Deliver
      BY <2>0, <2>2, Bounds, P!OrderAtDelivery DEF Promise!Deliver
    <2>3. CASE Promise!Lose
      BY <2>0, <2>3, Bounds, P!OrderAtLoss DEF Promise!Lose
    <2>4. CASE UNCHANGED Promise!vars
      BY <2>4 DEF Promise!vars
    <2>5. QED
      BY <2>1, <2>2, <2>3, <2>4 DEF Promise!Next
  <1>3. InLineSoFar => Promise!InOrder
    BY DEF P!OrderKept, Promise!InOrder
  <1>4. QED
    BY <1>1, <1>2, <1>3, AsyncDeviceKeepsThePromise, PTL
       DEF ImplementsOrderedDelivery, Promise!Spec

=============================================================================
