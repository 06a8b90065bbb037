--------------------------- MODULE MtiDeviceProofs ---------------------------
(***************************************************************************)
(* Proofs about MtiDevice, for any buffer and any number of calls, threads *)
(* and messages: the type invariant, that the port is never shared at the  *)
(* moments that matter, and that a device that streams is tracked as       *)
(* measuring.  All but the first assume that join() waits for the thread;  *)
(* who owns the answer, and what is tracked, assume as well that           *)
(* goto_measurement() is not called while measuring (the run               *)
(* device_remeasure shows what happens otherwise).                         *)
(***************************************************************************)
EXTENDS MtiDevice, TLAPS

\* The steps of a call, and what may come behind what.  A step is quiet if it
\* needs the port for itself.
StepOf(what, arg) == [do |-> what, arg |-> arg]
ToMeasurement     == StepOf("assign", "MEASUREMENT")
NoArg             == ""
Dispatching       == Do("dispatch", "")

Steps == [do : {"send", "receive"}, arg : Requests]
           \cup [do : {"assign"}, arg : Modes]
           \cup [do : {"stop", "start", "close", "dispatch"}, arg : {""}]

QuietStep(s) == \/ s.do \in {"start", "close"}
                \/ s.do = "assign" /\ s.arg = "CONFIG"
                \/ s.do \in {"send", "receive"} /\ s.arg # "COMMAND"

\* A step that begins the start of the reader, one that ends a call, and
\* one that a call begins with.
Starting(s) == s.do = "start"
Final(s)    == s.do \in {"assign", "close", "dispatch"}

Opening(s)  == s.do \in {"send", "stop"}

Follows(r, s) ==
  /\ ~Final(r)
  /\ Starting(r) <=> s = ToMeasurement
  /\ s.do = "receive" => r.do = "send"
  /\ Starting(s) => r.do = "receive"
  /\ s.do = "close" => r.do = "stop"
  /\ QuietStep(s) => r.do = "stop" \/ (QuietStep(r) /\ ~Starting(r))

Chain(s) == s \in Seq(Steps) /\ \A i \in 1 .. Len(s) - 1 : Follows(s[i], s[i + 1])

\* A chain from one step to another.
Block(s, first, last) ==
  Chain(s) /\ s # <<>> /\ s[1] = first /\ s[Len(s)] = last

LEMMA Single ==
  ASSUME NEW what, NEW arg, StepOf(what, arg) \in Steps
  PROVE  Block(Do(what, arg), StepOf(what, arg), StepOf(what, arg))
  BY DEF Block, Chain, Do, StepOf

LEMMA Joined ==
  ASSUME NEW s, NEW r, NEW a, NEW b, NEW c, NEW d,
         Block(s, a, b), Block(r, c, d), Follows(b, c)
  PROVE  Block(s \o r, a, d)
  <1> DEFINE q == s \o r
  <1>1. /\ s \in Seq(Steps) /\ r \in Seq(Steps)
        /\ Len(s) \in Nat \ {0} /\ Len(r) \in Nat \ {0}
    BY DEF Block, Chain
  <1>2. /\ q \in Seq(Steps) /\ Len(q) = Len(s) + Len(r)
        /\ \A i \in 1 .. Len(s) : q[i] = s[i]
        /\ \A i \in 1 .. Len(r) : q[Len(s) + i] = r[i]
    BY <1>1
  <1> HIDE DEF q
  <1>3. q[1] = a /\ q[Len(q)] = d /\ q # <<>>
    <2>1. 1 \in 1 .. Len(s) /\ Len(r) \in 1 .. Len(r)
      BY <1>1
    <2>2. QED
      BY <1>1, <1>2, <2>1 DEF Block
  <1>4. ASSUME NEW i \in 1 .. Len(q) - 1 PROVE Follows(q[i], q[i + 1])
    <2>1. CASE i < Len(s)
      <3>1. i \in 1 .. Len(s) - 1 /\ i \in 1 .. Len(s) /\ i + 1 \in 1 .. Len(s)
        BY <1>1, <2>1
      <3>2. QED
        BY <1>2, <3>1 DEF Block, Chain
    <2>2. CASE i = Len(s)
      <3>1. i \in 1 .. Len(s) /\ 1 \in 1 .. Len(r)
        BY <1>1, <2>2
      <3>2. q[i] = b /\ q[i + 1] = c
        BY <1>2, <2>2, <3>1 DEF Block
      <3>3. QED
        BY <3>2
    <2>3. CASE i > Len(s)
      <3> DEFINE j == i - Len(s)
      <3>1. /\ j \in 1 .. Len(r) - 1 /\ j \in 1 .. Len(r) /\ j + 1 \in 1 .. Len(r)
            /\ i = Len(s) + j /\ i + 1 = Len(s) + (j + 1)
        BY <1>1, <1>2, <2>3
      <3> HIDE DEF j
      <3>2. q[i] = r[j] /\ q[i + 1] = r[j + 1]
        BY <1>2, <3>1
      <3>3. QED
        BY <3>1, <3>2 DEF Block, Chain
    <2>4. QED
      BY <1>1, <2>1, <2>2, <2>3
  <1>5. QED
    BY <1>2, <1>3, <1>4 DEF Block, Chain, q

\* What is left of a chain when its first step is done.
LEMMA TailOfChain ==
  ASSUME NEW s, Chain(s), s # <<>>
  PROVE  /\ Chain(Tail(s)) /\ Head(s) \in Steps /\ Head(s) = s[1]
         /\ Tail(s) # <<>> => /\ Follows(Head(s), Head(Tail(s)))
                              /\ Tail(s)[Len(Tail(s))] = s[Len(s)]
         /\ Tail(s) = <<>> => Head(s) = s[Len(s)]
         /\ \A i \in 1 .. Len(Tail(s)) :
               i + 1 \in 1 .. Len(s) /\ Tail(s)[i] = s[i + 1]
  <1> DEFINE q == Tail(s)
  <1>1. s \in Seq(Steps) /\ Len(s) \in Nat \ {0} /\ Head(s) = s[1]
    BY DEF Chain
  <1>2. /\ q \in Seq(Steps) /\ Len(q) = Len(s) - 1
        /\ \A i \in 1 .. Len(s) - 1 : q[i] = s[i + 1]
    BY <1>1
  <1>3. Head(s) \in Steps
    BY <1>1
  <1>4. q # <<>> => Head(q) = q[1] /\ Len(q) > 0
    BY <1>2
  <1> HIDE DEF q
  <1>5. ASSUME NEW i \in 1 .. Len(q) - 1 PROVE Follows(q[i], q[i + 1])
    <2>1. i \in 1 .. Len(s) - 1 /\ i + 1 \in 1 .. Len(s) - 1
      BY <1>1, <1>2
    <2>2. QED
      BY <1>2, <2>1 DEF Chain
  <1>6. ASSUME q # <<>>
        PROVE  Follows(Head(s), Head(q)) /\ q[Len(q)] = s[Len(s)]
    <2>1. 1 \in 1 .. Len(s) - 1 /\ Len(s) - 1 \in 1 .. Len(s) - 1
      BY <1>1, <1>2, <1>4, <1>6
    <2>2. QED
      BY <1>1, <1>2, <1>4, <1>6, <2>1 DEF Chain
  <1>7. q = <<>> => Len(s) = 1
    BY <1>1, <1>2
  <1>8. \A i \in 1 .. Len(q) : i + 1 \in 1 .. Len(s) /\ q[i] = s[i + 1]
    BY <1>1, <1>2
  <1>9. QED
    BY <1>1, <1>2, <1>3, <1>5, <1>6, <1>7, <1>8 DEF Chain, q


\* Nothing comes behind these steps.
LEMMA LastSteps ==
  ASSUME NEW s, Chain(s), s # <<>>, Final(Head(s))
  PROVE  Tail(s) = <<>>
  BY TailOfChain DEF Follows

LEMMA StepIs ==
  ASSUME NEW what, NEW arg
  PROVE  /\ StepOf(what, arg).do = what /\ StepOf(what, arg).arg = arg
         /\ StepOf(what, arg) = ToMeasurement
              => what = "assign" /\ arg = "MEASUREMENT"
         /\ Starting(StepOf(what, arg)) <=> what = "start"
         /\ Opening(StepOf(what, arg)) <=> what \in {"send", "stop"}
         /\ QuietStep(StepOf(what, arg))
              => what # "stop" /\ (what = "send" => arg # "COMMAND")
  <1>1. StepOf(what, arg).do = what /\ StepOf(what, arg).arg = arg
    BY DEF StepOf
  <1>2. ToMeasurement.do = "assign" /\ ToMeasurement.arg = "MEASUREMENT"
    BY DEF ToMeasurement, StepOf
  <1>3. QED
    BY <1>1, <1>2 DEF Starting, Opening, QuietStep

\* A body is a chain; only goto_measurement() starts the reader, and only the
\* bodies that leave measurement first, or stream nothing, begin quietly.
LEMMA BodyFacts ==
  ASSUME NEW call \in Calls
  PROVE  /\ Chain(Body(call)) /\ Body(call) # <<>>
         /\ ~Starting(Body(call)[Len(Body(call))])
         /\ Body(call)[Len(Body(call))] = ToMeasurement
              => call = "goto_measurement"
         /\ call # "close" => Body(call)[Len(Body(call))].do \in {"assign", "receive"}
         /\ Opening(Head(Body(call)))
         /\ QuietStep(Head(Body(call)))
              => tracked # "MEASUREMENT" \/ call = "goto_measurement"
  <1>1. ASSUME NEW mid \in Requests
        PROVE  Block(Exchange(mid), StepOf("send", mid), StepOf("receive", mid))
    <2>1. StepOf("send", mid) \in Steps /\ StepOf("receive", mid) \in Steps
      BY DEF StepOf, Steps
    <2>2. Follows(StepOf("send", mid), StepOf("receive", mid))
      BY DEF Follows, StepOf, QuietStep, ToMeasurement, Starting, Final
    <2>3. QED
      BY <2>1, <2>2, Single, Joined DEF Exchange
  <1>2. /\ StepOf("stop", NoArg) \in Steps /\ StepOf("start", NoArg) \in Steps
        /\ StepOf("close", NoArg) \in Steps
        /\ StepOf("assign", "CONFIG") \in Steps /\ ToMeasurement \in Steps
    BY DEF StepOf, Steps, Modes, ToMeasurement, NoArg
  <1>3. /\ Block(Do("stop", ""), StepOf("stop", NoArg), StepOf("stop", NoArg))
        /\ Block(Do("start", ""), StepOf("start", NoArg), StepOf("start", NoArg))
        /\ Block(Do("close", ""), StepOf("close", NoArg), StepOf("close", NoArg))
        /\ Block(Do("assign", "CONFIG"), StepOf("assign", "CONFIG"),
                 StepOf("assign", "CONFIG"))
        /\ Block(Do("assign", "MEASUREMENT"), ToMeasurement, ToMeasurement)
    BY <1>2, Single DEF ToMeasurement, NoArg
  <1>4. /\ Follows(StepOf("stop", NoArg), StepOf("send", "GOTOCONFIG"))
        /\ Follows(StepOf("stop", NoArg), StepOf("close", NoArg))
        /\ Follows(StepOf("start", NoArg), ToMeasurement)
        /\ Follows(StepOf("receive", "GOTOMEASUREMENT"), StepOf("start", NoArg))
        /\ \A mid \in {"GOTOCONFIG", "RESET", "RESTORE_FACTORY_DEFAULTS"} :
              Follows(StepOf("receive", mid), StepOf("assign", "CONFIG"))
        /\ \A mid \in {"RESET", "RESTORE_FACTORY_DEFAULTS"} :
              Follows(StepOf("receive", "GOTOCONFIG"), StepOf("send", mid))
    BY DEF Follows, StepOf, QuietStep, ToMeasurement, Starting, Final
  <1>5. Block(EnterConfig, StepOf("stop", NoArg), StepOf("receive", "GOTOCONFIG"))
    BY <1>1, <1>3, <1>4, Joined DEF EnterConfig, Requests
  <1>6. ASSUME NEW s, NEW what, NEW arg, NEW last, NEW upto,
               Block(s, StepOf(what, arg), StepOf(last, upto))
        PROVE  /\ Chain(s) /\ s # <<>>
               /\ Starting(s[Len(s)]) => last = "start"
               /\ s[Len(s)].do = last
               /\ s[Len(s)] = ToMeasurement => last = "assign" /\ upto = "MEASUREMENT"
               /\ what \in {"send", "stop"} => Opening(Head(s))
               /\ QuietStep(Head(s)) => what # "stop" /\ (what = "send" => arg # "COMMAND")
    <2>1. /\ Chain(s) /\ s # <<>>
          /\ s[Len(s)] = StepOf(last, upto) /\ Head(s) = StepOf(what, arg)
      BY <1>6 DEF Block, Chain
    <2>2. QED
      BY <2>1, StepIs
  <1>14. ASSUME NEW s, NEW a, NEW b, Block(s, a, b) PROVE <<>> \o s = s
    BY <1>14 DEF Block, Chain
  <1>7. CASE call = "goto_config"
    <2>1. Block(Body(call), StepOf("stop", NoArg), StepOf("assign", "CONFIG"))
      BY <1>3, <1>4, <1>5, <1>7, Joined DEF Body
    <2>2. QED
      BY <1>6, <2>1
  <1>8. CASE call = "goto_measurement"
    <2>1. Block(EnterMeasurement, StepOf("send", "GOTOMEASUREMENT"),
                StepOf("start", NoArg))
      BY <1>1, <1>3, <1>4, Joined DEF EnterMeasurement, Requests
    <2>2. Block(Body(call), StepOf("send", "GOTOMEASUREMENT"),
                StepOf("assign", "MEASUREMENT"))
      BY <1>3, <1>4, <1>8, <2>1, Joined DEF Body, ToMeasurement
    <2>3. QED
      BY <1>6, <1>8, <2>2
  <1>9. ASSUME NEW mid \in {"RESET", "RESTORE_FACTORY_DEFAULTS"},
               Body(call) = LeaveMeasurement \o Exchange(mid) \o Do("assign", "CONFIG")
        PROVE  \/ Block(Body(call), StepOf("stop", NoArg), StepOf("assign", "CONFIG"))
               \/ /\ tracked # "MEASUREMENT"
                  /\ Block(Body(call), StepOf("send", mid), StepOf("assign", "CONFIG"))
    <2>1. Block(Exchange(mid), StepOf("send", mid), StepOf("receive", mid))
      BY <1>1 DEF Requests
    <2>2. CASE tracked = "MEASUREMENT"
      <3>1. Block(LeaveMeasurement \o Exchange(mid), StepOf("stop", NoArg),
                  StepOf("receive", mid))
        BY <1>4, <1>5, <2>1, <2>2, Joined DEF LeaveMeasurement
      <3>2. QED
        BY <1>3, <1>4, <1>9, <3>1, Joined
    <2>3. CASE tracked # "MEASUREMENT"
      <3>1. LeaveMeasurement \o Exchange(mid) = Exchange(mid)
        BY <1>14, <2>1, <2>3 DEF LeaveMeasurement
      <3>2. QED
        BY <1>3, <1>4, <1>9, <2>1, <2>3, <3>1, Joined
    <2>4. QED
      BY <2>2, <2>3
  <1>10. CASE call \in {"reset", "restore_factory_defaults"}
    <2>1. PICK mid \in {"RESET", "RESTORE_FACTORY_DEFAULTS"} :
             Body(call) = LeaveMeasurement \o Exchange(mid) \o Do("assign", "CONFIG")
      BY <1>10 DEF Body
    <2>2. CASE Block(Body(call), StepOf("stop", NoArg), StepOf("assign", "CONFIG"))
      BY <1>6, <2>2
    <2>3. CASE /\ tracked # "MEASUREMENT"
               /\ Block(Body(call), StepOf("send", mid), StepOf("assign", "CONFIG"))
      BY <1>6, <2>3
    <2>4. QED
      BY <1>9, <2>1, <2>2, <2>3
  <1>11. CASE call = "command"
    <2>1. Block(Body(call), StepOf("send", "COMMAND"), StepOf("receive", "COMMAND"))
      BY <1>1, <1>11 DEF Body, Requests
    <2>2. QED
      BY <1>6, <2>1
  <1>12. CASE call = "close"
    <2>1. Block(Body(call), StepOf("stop", NoArg), StepOf("close", NoArg))
      BY <1>3, <1>4, <1>12, Joined DEF Body, CloseAll
    <2>2. QED
      BY <1>6, <1>12, <2>1
  <1>13. QED
    BY <1>7, <1>8, <1>10, <1>11, <1>12 DEF Calls
----------------------------------------------------------------------------
\* Every variable keeps its type, whatever the joins do and whenever
\* goto_measurement() is called: what is left of a call is a chain of steps
\* in which something comes behind a start.
CallLeft(s) == Chain(s) /\ (s # <<>> => ~Starting(s[Len(s)]))

StartsBounded == pc \in {"clear", "running", "create"} => started < MaxStarts

TypeInv == TypeOK /\ CallLeft(todo) /\ StartsBounded

LEMMA StepArgs ==
  ASSUME NEW s \in Steps
  PROVE  /\ s.do = "assign" => s.arg \in Modes
         /\ s.do \in {"send", "receive"} => s.arg \in Requests
  BY DEF Steps

\* What a step of the device does with the rest of the call.
LEMMA TodoNext ==
  ASSUME CallLeft(todo),
         \/ todo' = todo \/ todo' = <<>> \/ todo' = Dispatching
         \/ todo # <<>> /\ todo' = Tail(todo)
         \/ \E call \in Calls : todo' = Body(call)
  PROVE  CallLeft(todo')
  <1>1. CallLeft(<<>>)
    BY DEF Chain, CallLeft
  <1>2. CallLeft(Dispatching)
    <2>1. StepOf("dispatch", NoArg) \in Steps
      BY DEF StepOf, Steps, NoArg
    <2>2. Block(Dispatching, StepOf("dispatch", NoArg), StepOf("dispatch", NoArg))
      BY <2>1, Single DEF Dispatching, NoArg
    <2>3. QED
      BY <2>2, StepIs DEF Block, CallLeft
  <1>3. ASSUME todo # <<>> PROVE CallLeft(Tail(todo))
    BY <1>3, TailOfChain DEF CallLeft
  <1>4. ASSUME NEW call \in Calls PROVE CallLeft(Body(call))
    BY <1>4, BodyFacts DEF CallLeft
  <1>5. QED
    BY <1>1, <1>2, <1>3, <1>4

LEMMA TypeInit == Init => TypeInv
  <1> SUFFICES ASSUME Init PROVE TypeInv
    OBVIOUS
  <1> USE DeviceAssumption DEF DeviceAssumption, Init, R!Init
  <1>1. acc \in [R!Threads -> Seq(Messages)]
    OBVIOUS
  <1>2. rpc \in [R!Threads -> R!ReaderPCs]
    BY DEF R!ReaderPCs
  <1>3. started \in 0 .. MaxStarts /\ calls \in 0 .. MaxCalls /\ arrived \in Nat
    OBVIOUS
  <1>4. /\ line \in Seq(Messages) /\ buffer \in Seq(Messages)
        /\ batch \in Seq(Messages) /\ dispatched \in Seq(Nat)
        /\ wire \in Seq(Requests)
        /\ Len(buffer) <= BufferSize /\ Len(batch) <= BufferSize
    OBVIOUS
  <1>5. CallLeft(todo)
    BY DEF Chain, CallLeft
  <1>6. QED
    BY <1>1, <1>2, <1>3, <1>4, <1>5 DEF TypeInv, TypeOK, StartsBounded,
       R!States, R!OwnerPCs, R!None, Modes

\* The type of what the reader's threads and its owner change.
ReaderTyped ==
  /\ state \in R!States
  /\ stopEvent \in BOOLEAN
  /\ thread \in R!Threads \cup {R!None}
  /\ pc \in R!OwnerPCs
  /\ rpc \in [R!Threads -> R!ReaderPCs]
  /\ acc \in [R!Threads -> Seq(Messages)]
  /\ started \in 0 .. MaxStarts
  /\ line \in Seq(Messages)

LEMMA OwnerTypes ==
  ASSUME ReaderTyped, StartsBounded, R!Start \/ R!Stop
  PROVE  ReaderTyped' /\ StartsBounded'
  <1> USE DeviceAssumption
      DEF DeviceAssumption, ReaderTyped, StartsBounded, R!States, R!OwnerPCs,
          R!ReaderPCs, R!Threads, R!None, R!GoTo, R!ownerVars, R!sharedVars,
          R!threadVars
  <1>1. CASE R!CreateThread
    <2>1. /\ started' \in R!Threads /\ started' = started + 1
          /\ thread' = started' /\ pc' = "launch"
      BY <1>1 DEF R!CreateThread
    <2>2. rpc' \in [R!Threads -> R!ReaderPCs]
      BY <1>1, <2>1 DEF R!CreateThread
    <2>3. QED
      BY <1>1, <2>1, <2>2 DEF R!CreateThread
  <1>2. CASE R!LaunchThread
    BY <1>2 DEF R!LaunchThread
  <1>3. CASE R!BeginStart
    BY <1>3 DEF R!BeginStart
  <1>4. CASE R!ClearEvent \/ R!SetRunning
    BY <1>4 DEF R!ClearEvent, R!SetRunning
  <1>5. CASE R!Stop
    BY <1>5 DEF R!Stop, R!BeginStop, R!SetEvent, R!Join, R!ForgetThread,
                R!ReadState, R!SetIdle
  <1>6. QED
    BY <1>1, <1>2, <1>3, <1>4, <1>5 DEF R!Start

LEMMA ThreadTypes ==
  ASSUME ReaderTyped, StartsBounded, NEW t \in R!Threads,
         R!ReaderAlone(t) \/ R!NextMessage(t) \/ R!EndAfterFault(t)
  PROVE  ReaderTyped' /\ StartsBounded'
  <1> USE DEF ReaderTyped, StartsBounded, R!States, R!ReaderPCs, R!Step,
              R!ownerVars, R!sharedVars
  <1>1. CASE R!Read(t)
    <2>1. PICK n \in 0 .. Len(line) :
             /\ acc' = [acc EXCEPT ![t] = SubSeq(line, 1, n)]
             /\ line' = SubSeq(line, n + 1, Len(line))
      BY <1>1 DEF R!Read
    <2>2. SubSeq(line, 1, n) \in Seq(Messages) /\ line' \in Seq(Messages)
      BY <2>1
    <2>3. acc' \in [R!Threads -> Seq(Messages)]
      BY <2>1, <2>2
    <2>4. QED
      BY <1>1, <2>2, <2>3 DEF R!Read
  <1>2. CASE R!NextMessage(t)
    <2>1. acc' \in [R!Threads -> Seq(Messages)]
      BY <1>2 DEF R!NextMessage
    <2>2. QED
      BY <1>2, <2>1 DEF R!NextMessage
  <1>3. CASE R!TestEvent(t) \/ R!ReadFails(t) \/ R!Drained(t)
    BY <1>3 DEF R!TestEvent, R!ReadFails, R!Drained
  <1>4. CASE R!SetFaulted(t) \/ R!FaultSetsEvent(t) \/ R!EndAfterFault(t)
    BY <1>4 DEF R!SetFaulted, R!FaultSetsEvent, R!EndAfterFault
  <1>5. QED
    BY <1>1, <1>2, <1>3, <1>4 DEF R!ReaderAlone

\* The type of the device's, the user's and the sensor's variables.
DeviceTyped ==
  /\ arrived \in Nat
  /\ tracked \in Modes
  /\ listening \in BOOLEAN
  /\ buffer \in Seq(Messages) /\ Len(buffer) <= BufferSize
  /\ batch \in Seq(Messages) /\ Len(batch) <= BufferSize
  /\ dispatched \in Seq(Nat)
  /\ calls \in 0 .. MaxCalls
  /\ portOpen \in BOOLEAN
  /\ wire \in Seq(Requests)
  /\ mode \in Modes

LEMMA TypeParts == TypeInv <=> ReaderTyped /\ DeviceTyped /\ CallLeft(todo) /\ StartsBounded
  BY DEF TypeInv, TypeOK, ReaderTyped, DeviceTyped

LEMMA EmitTypes ==
  ASSUME ReaderTyped, StartsBounded, arrived \in Nat, NEW mid \in Mids, Emit(mid)
  PROVE  ReaderTyped' /\ StartsBounded' /\ arrived' \in Nat
  <1>1. [n |-> arrived', mid |-> mid] \in Messages /\ arrived' \in Nat
    BY DEF Emit, Messages
  <1>2. line' \in Seq(Messages)
    BY <1>1 DEF Emit, ReaderTyped
  <1>3. QED
    BY <1>1, <1>2 DEF Emit, ReaderTyped, StartsBounded

\* The moves of a sequence of elements of S that is at most n long.
LEMMA SeqMoves ==
  ASSUME NEW S, NEW q \in Seq(S), NEW n \in Nat, Len(q) <= n, NEW r
  PROVE  /\ r = q => r \in Seq(S) /\ Len(r) <= n
         /\ r = <<>> => r \in Seq(S) /\ Len(r) <= n
         /\ q # <<>> /\ r = Tail(q) => r \in Seq(S) /\ Len(r) <= n
         /\ \A x \in S : r = Append(q, x) => r \in Seq(S)
  <1>1. r = q => r \in Seq(S) /\ Len(r) <= n
    OBVIOUS
  <1>2. r = <<>> => r \in Seq(S) /\ Len(r) <= n
    OBVIOUS
  <1>3. q # <<>> /\ r = Tail(q) => r \in Seq(S) /\ Len(r) <= n
    OBVIOUS
  <1>4. \A x \in S : r = Append(q, x) => r \in Seq(S)
    OBVIOUS
  <1>5. QED
    BY <1>1, <1>2, <1>3, <1>4

LEMMA TypeNext == TypeInv /\ [Next]_vars => TypeInv'
  <1> SUFFICES ASSUME TypeInv, [Next]_vars PROVE TypeInv'
    OBVIOUS
  <1>1. /\ ReaderTyped /\ DeviceTyped /\ CallLeft(todo) /\ StartsBounded
        /\ TypeInv' <=> ReaderTyped' /\ DeviceTyped' /\ CallLeft(todo') /\ StartsBounded'
    BY TypeParts DEF TypeInv, TypeOK, ReaderTyped, DeviceTyped
  <1>25. /\ buffer \in Seq(Messages) /\ Len(buffer) <= BufferSize
         /\ batch \in Seq(Messages) /\ Len(batch) <= BufferSize
         /\ dispatched \in Seq(Nat) /\ Len(dispatched) \in Nat
         /\ wire \in Seq(Requests) /\ Len(wire) \in Nat
         /\ \A k \in Nat : k <= k
         /\ BufferSize \in Nat
    BY <1>1, DeviceAssumption DEF DeviceTyped, DeviceAssumption
  <1>2. ASSUME UNCHANGED readerVars PROVE ReaderTyped' /\ StartsBounded'
    BY <1>1, <1>2 DEF readerVars, ReaderTyped, StartsBounded
  <1>3. ASSUME UNCHANGED <<arrived, deviceVars, calls, portOpen, sensorVars>>
        PROVE  DeviceTyped'
    BY <1>1, <1>3 DEF deviceVars, sensorVars, DeviceTyped
  <1>4. ASSUME NEW what, Doing(what)
        PROVE  /\ todo # <<>> /\ Head(todo) \in Steps /\ Head(todo).do = what
               /\ what = "assign" => Head(todo).arg \in Modes
               /\ what \in {"send", "receive"} => Head(todo).arg \in Requests
    <2>1. todo # <<>> /\ Head(todo).do = what
      BY <1>4 DEF Doing
    <2>2. Head(todo) \in Steps
      BY <1>1, <2>1, TailOfChain DEF CallLeft
    <2>3. QED
      BY <2>1, <2>2, StepArgs
  <1>5. ASSUME NEW what, Doing(what), Done \/ Raise \/ UNCHANGED todo
        PROVE  CallLeft(todo')
    BY <1>1, <1>4, <1>5, TodoNext DEF Done, Raise
  <1>6. ASSUME UNCHANGED todo PROVE CallLeft(todo')
    BY <1>1, <1>6
  <1>7. ASSUME NEW call \in Calls, Call(call) PROVE TypeInv'
    <2>1. CallLeft(todo')
      BY <1>1, <1>7, TodoNext DEF Call
    <2>2. DeviceTyped'
      BY <1>1, <1>7, DeviceAssumption
         DEF DeviceAssumption, Call, deviceVars, sensorVars, DeviceTyped
    <2>3. QED
      BY <1>1, <1>2, <1>7, <2>1, <2>2 DEF Call
  <1>8. CASE SetOnMessage
    <2>1. DeviceTyped' /\ CallLeft(todo')
      BY <1>1, <1>8 DEF SetOnMessage, userVars, sensorVars, DeviceTyped
    <2>2. QED
      BY <1>1, <1>2, <1>8, <2>1 DEF SetOnMessage
  <1>9. CASE Update
    <2>0. batch' \in {buffer, <<>>} /\ buffer' = <<>>
      BY <1>9, Zenon DEF Update
    <2>1. batch' \in Seq(Messages) /\ Len(batch') <= BufferSize
          /\ buffer' \in Seq(Messages) /\ Len(buffer') <= BufferSize
      BY <1>25, <2>0, SeqMoves, Zenon
    <2>2. DeviceTyped'
      BY <1>1, <1>9, <2>1 DEF Update, sensorVars, DeviceTyped
    <2>3. CallLeft(todo')
      BY <1>1, <1>9, TodoNext DEF Update, Dispatching
    <2>4. QED
      BY <1>1, <1>2, <1>9, <2>2, <2>3 DEF Update
  <1>10. CASE Send
    <2>0. \E mid \in Requests : wire' = wire \/ wire' = Append(wire, mid)
      BY <1>4, <1>10 DEF Send, Requests
    <2>1. wire' \in Seq(Requests)
      BY <1>25, <2>0, SeqMoves, Zenon
    <2>2. DeviceTyped'
      BY <1>1, <1>10, <2>1 DEF Send, deviceVars, DeviceTyped
    <2>3. QED
      BY <1>1, <1>2, <1>5, <1>10, <2>2 DEF Send
  <1>11. CASE Receive
    <2>1. PICK n \in 1 .. Len(line) :
             /\ line' = SubSeq(line, n + 1, Len(line))
             /\ UNCHANGED todo \/ Raise \/ Done
      BY <1>11, Zenon DEF Receive
    <2>2. line' \in Seq(Messages)
      BY <1>1, <2>1 DEF ReaderTyped
    <2>3. ReaderTyped' /\ StartsBounded'
      BY <1>1, <1>11, <2>2 DEF Receive, ReaderTyped, StartsBounded
    <2>4. DeviceTyped'
      BY <1>3, <1>11 DEF Receive
    <2>5. QED
      BY <1>1, <1>5, <1>11, <2>1, <2>3, <2>4 DEF Receive
  <1>12. CASE GiveUp
    BY <1>1, <1>2, <1>3, <1>5, <1>12 DEF GiveUp
  <1>13. CASE BeginStop \/ BeginStart
    <2>1. (R!Stop \/ R!Start) /\ UNCHANGED <<arrived, deviceVars, calls, portOpen, sensorVars>>
      BY <1>13 DEF BeginStop, BeginStart, R!Stop, R!Start
    <2>2. QED
      BY <1>1, <1>3, <1>5, <1>13, <2>1, OwnerTypes DEF BeginStop, BeginStart
  <1>14. CASE InReader
    BY <1>1, <1>3, <1>6, <1>14, OwnerTypes DEF InReader, userVars
  <1>15. CASE Assign
    <2>1. tracked' \in Modes
      BY <1>4, <1>15 DEF Assign
    <2>2. DeviceTyped'
      BY <1>1, <1>15, <2>1 DEF Assign, sensorVars, DeviceTyped
    <2>3. QED
      BY <1>1, <1>2, <1>5, <1>15, <2>2 DEF Assign
  <1>16. CASE ClosePort
    <2>1. DeviceTyped'
      BY <1>1, <1>16 DEF ClosePort, deviceVars, sensorVars, DeviceTyped
    <2>2. QED
      BY <1>1, <1>2, <1>5, <1>16, <2>1 DEF ClosePort
  <1>17. CASE Dispatch
    <2>1. batch # <<>> => Head(batch) \in Messages
      BY <1>1 DEF DeviceTyped
    <2>2. batch # <<>> => Head(batch).n \in Nat
      BY <2>1 DEF Messages
    <2>0. \E n \in Nat : dispatched' = dispatched \/ dispatched' = Append(dispatched, n)
      BY <1>17, <2>2 DEF Dispatch
    <2>3. dispatched' \in Seq(Nat)
      BY <1>25, <2>0, SeqMoves, Zenon
    <2>7. batch' = batch \/ (batch # <<>> /\ batch' = Tail(batch))
      BY <1>17 DEF Dispatch
    <2>4. batch' \in Seq(Messages) /\ Len(batch') <= BufferSize
      BY <1>25, <2>7, SeqMoves, Zenon
    <2>5. DeviceTyped'
      BY <1>1, <1>17, <2>3, <2>4 DEF Dispatch, sensorVars, DeviceTyped
    <2>6. QED
      BY <1>1, <1>2, <1>5, <1>17, <2>5 DEF Dispatch
  <1>18. CASE DispatchFails
    <2>1. DeviceTyped'
      BY <1>1, <1>18, DeviceAssumption
         DEF DispatchFails, sensorVars, DeviceTyped, DeviceAssumption
    <2>2. QED
      BY <1>1, <1>2, <1>5, <1>18, <2>1 DEF DispatchFails
  <1>19. ASSUME NEW t \in R!Threads, Reader(t) PROVE TypeInv'
    <2>1. ReaderTyped' /\ StartsBounded'
      BY <1>1, <1>19, ThreadTypes DEF Reader, OnMessage, OnReaderError, ReaderAlone
    <2>2. CallLeft(todo')
      BY <1>1, <1>19 DEF Reader, OnMessage, OnReaderError, ReaderAlone, userVars
    <2>3. CASE OnMessage(t)
      <3>1. acc[t] \in Seq(Messages) /\ acc[t] # <<>>
        BY <1>1, <2>3 DEF ReaderTyped, OnMessage, R!NextMessage
      <3>2. Head(acc[t]) \in Messages
        BY <3>1
      <3>3. buffer' \in Seq(Messages) /\ Len(buffer') <= BufferSize
        BY <1>1, <2>3, <3>2, DeviceAssumption
           DEF OnMessage, DeviceTyped, DeviceAssumption
      <3>4. DeviceTyped'
        BY <1>1, <2>3, <3>3 DEF OnMessage, userVars, sensorVars, DeviceTyped
      <3>5. QED
        BY <1>1, <2>1, <2>2, <3>4
    <2>4. CASE OnReaderError(t)
      <3>1. DeviceTyped'
        BY <1>1, <2>4 DEF OnReaderError, userVars, sensorVars, DeviceTyped, Modes
      <3>2. QED
        BY <1>1, <2>1, <2>2, <3>1
    <2>5. CASE ReaderAlone(t)
      BY <1>1, <1>3, <2>1, <2>2, <2>5 DEF ReaderAlone, userVars
    <2>6. QED
      BY <1>19, <2>3, <2>4, <2>5 DEF Reader
  <1>20. ASSUME Emit("MTDATA2") /\ UNCHANGED sensorVars
         PROVE  TypeInv'
    <2>1. ReaderTyped' /\ StartsBounded' /\ arrived' \in Nat
      BY <1>1, <1>20, EmitTypes DEF DeviceTyped, Mids
    <2>2. DeviceTyped'
      BY <1>1, <1>20, <2>1 DEF Emit, deviceVars, userVars, sensorVars, DeviceTyped
    <2>3. QED
      BY <1>1, <1>20, <2>1, <2>2 DEF Emit, userVars
  <1>21. CASE Answer
    <2>1. wire # <<>> /\ wire' = Tail(wire)
      BY <1>21 DEF Answer
    <2>2. Head(wire) \in Requests /\ wire' \in Seq(Requests)
      BY <1>1, <2>1 DEF DeviceTyped
    <2>3. PICK mid \in Mids : Emit(mid) /\ mode' \in Modes
      BY <1>1, <1>21, <2>2 DEF Answer, Mids, Modes, DeviceTyped
    <2>4. ReaderTyped' /\ StartsBounded' /\ arrived' \in Nat
      BY <1>1, <2>3, EmitTypes DEF DeviceTyped
    <2>5. DeviceTyped'
      BY <1>1, <2>2, <2>3, <2>4 DEF Emit, deviceVars, userVars, DeviceTyped
    <2>6. QED
      BY <1>1, <2>3, <2>4, <2>5 DEF Emit, userVars
  <1>22. CASE Overlook
    <2>1. wire' \in Seq(Requests)
      BY <1>1, <1>22 DEF Overlook, DeviceTyped
    <2>2. DeviceTyped'
      BY <1>1, <1>22, <2>1 DEF Overlook, deviceVars, userVars, DeviceTyped
    <2>3. QED
      BY <1>1, <1>2, <1>6, <1>22, <2>2 DEF Overlook, userVars
  <1>23. CASE UNCHANGED vars
    BY <1>1, <1>2, <1>3, <1>6, <1>23 DEF vars, userVars
  <1>24. QED
    BY <1>7, <1>8, <1>9, <1>10, <1>11, <1>12, <1>13, <1>14, <1>15, <1>16, <1>17,
       <1>18, <1>19, <1>20, <1>21, <1>22, <1>23
       DEF Next, User, InCall, Sensor, Stream

\* Type correctness of the device.
THEOREM TypeCorrect == Spec => []TypeOK
  <1>1. TypeInv => TypeOK
    BY DEF TypeInv
  <1>2. QED
    BY <1>1, TypeInit, TypeNext, PTL DEF Spec

----------------------------------------------------------------------------
\* The reader is started on behalf of goto_measurement() only.
StartingOwner ==
  pc \in {"clear", "running", "create", "launch"}
    => todo # <<>> /\ Head(todo) = ToMeasurement

OwnerInv == TypeInv /\ StartingOwner

LEMMA ThreadMoves ==
  ASSUME NEW t \in R!Threads,
         R!ReaderAlone(t) \/ R!NextMessage(t) \/ R!EndAfterFault(t)
  PROVE  UNCHANGED <<thread, pc>>
  BY DEF R!ReaderAlone, R!NextMessage, R!EndAfterFault, R!TestEvent, R!Read,
         R!ReadFails, R!Drained, R!SetFaulted, R!FaultSetsEvent, R!ownerVars

LEMMA OwnerInit == Init => OwnerInv
  BY TypeInit DEF Init, R!Init, OwnerInv, StartingOwner

LEMMA OwnerNext == OwnerInv /\ [Next]_vars => OwnerInv'
  <1> SUFFICES ASSUME OwnerInv, [Next]_vars PROVE StartingOwner'
    BY TypeNext DEF OwnerInv
  <1>1. StartingOwner /\ CallLeft(todo) /\ ReaderTyped
    BY TypeParts DEF OwnerInv
  <1>2. ASSUME pc' = pc, pc = "idle" \/ todo' = todo PROVE StartingOwner'
    BY <1>1, <1>2 DEF StartingOwner
  <1>3. CASE User
    BY <1>2, <1>3 DEF User, Call, SetOnMessage, Update, readerVars, userVars, Idle
  <1>4. CASE Send \/ Receive \/ GiveUp \/ Assign \/ ClosePort \/ Dispatch \/ DispatchFails
    BY <1>2, <1>4 DEF Send, Receive, GiveUp, Assign, ClosePort, Dispatch,
       DispatchFails, readerVars, Doing
  <1>5. CASE BeginStop
    BY <1>5 DEF BeginStop, R!BeginStop, R!GoTo, StartingOwner
  <1>6. CASE BeginStart
    <2>1. todo # <<>> /\ todo' = Tail(todo) /\ Starting(Head(todo))
      BY <1>6 DEF BeginStart, Doing, Done, Starting
    <2>2. todo' # <<>> /\ Head(todo') = ToMeasurement
      BY <1>1, <2>1, TailOfChain DEF CallLeft, Follows
    <2>3. QED
      BY <2>2 DEF StartingOwner
  <1>7. CASE InReader
    <2>1. todo' = todo /\ pc # "idle" /\ (R!Start \/ R!Stop)
      BY <1>7 DEF InReader, userVars
    <2>2. pc' \in {"clear", "running", "create", "launch"}
            => pc \in {"clear", "running", "create", "launch"}
      BY <2>1 DEF R!Start, R!BeginStart, R!ClearEvent, R!SetRunning,
         R!CreateThread, R!LaunchThread, R!Stop, R!BeginStop, R!SetEvent, R!Join,
         R!ForgetThread, R!ReadState, R!SetIdle, R!GoTo
    <2>3. QED
      BY <1>1, <2>1, <2>2 DEF StartingOwner
  <1>8. ASSUME NEW t \in R!Threads, Reader(t) PROVE StartingOwner'
    BY <1>1, <1>2, <1>8, ThreadMoves DEF Reader, OnMessage, OnReaderError, ReaderAlone,
       userVars
  <1>9. CASE Sensor
    <2>1. (\E mid : Emit(mid)) \/ Overlook
      BY <1>9 DEF Sensor, Stream, Answer
    <2>2. QED
      BY <1>2, <2>1 DEF Emit, Overlook, readerVars, userVars
  <1>10. CASE UNCHANGED vars
    BY <1>2, <1>10 DEF vars, readerVars, userVars
  <1>11. QED
    BY <1>3, <1>4, <1>5, <1>6, <1>7, <1>8, <1>9, <1>10 DEF Next, InCall

----------------------------------------------------------------------------
\* At most one thread reads, however the reader was started: a thread that can
\* still read the port, or that still has to write FAULTED into the state, is
\* the one self._thread refers to, and the state says RUNNING.
Live == {t \in R!Threads :
           rpc[t] \in {"created", "loop", "read", "drain", "faulted"}}

LiveIsCurrent == \A t \in Live : thread = t /\ state = "RUNNING"

\* What each position of the owner implies for it.
NobodyIsLive ==
  /\ pc \in {"clear", "running", "create", "forget", "settle", "idling"}
       => Live = {}
  /\ pc = "create" => state = "RUNNING"
  /\ pc = "launch" => thread \in R!Threads /\ rpc[thread] = "created"

Exclusion == LiveIsCurrent /\ NobodyIsLive

LEMMA ExclusionInit == Init => Exclusion
  BY DEF Init, R!Init, Exclusion, LiveIsCurrent, NobodyIsLive, Live

LEMMA ExclusionOwner ==
  ASSUME JoinMayExpire = FALSE, ReaderTyped, StartsBounded, Exclusion,
         R!Start \/ R!Stop
  PROVE  Exclusion'
  <1> USE DEF Exclusion, LiveIsCurrent, NobodyIsLive, Live, ReaderTyped,
              R!GoTo, R!ownerVars, R!sharedVars, R!threadVars
  <1>1. CASE R!BeginStart
    BY <1>1 DEF R!BeginStart
  <1>2. CASE R!ClearEvent \/ R!SetRunning
    BY <1>2 DEF R!ClearEvent, R!SetRunning
  <1>3. CASE R!CreateThread
    <2>1. /\ Live = {} /\ state' = "RUNNING" /\ thread' = started'
          /\ pc' = "launch" /\ rpc' = [rpc EXCEPT ![started'] = "created"]
      BY <1>3 DEF R!CreateThread
    <2>2. started' \in R!Threads
      BY <1>3, DeviceAssumption
         DEF R!CreateThread, StartsBounded, R!Threads, DeviceAssumption
    <2>3. Live' \subseteq {started'} /\ rpc'[started'] = "created"
      BY <2>1, <2>2
    <2>4. QED
      BY <2>1, <2>2, <2>3
  <1>4. CASE R!LaunchThread
    BY <1>4 DEF R!LaunchThread
  <1>5. CASE R!BeginStop \/ R!SetEvent
    BY <1>5 DEF R!BeginStop, R!SetEvent
  <1>6. CASE R!Join
    BY <1>6 DEF R!Join
  <1>7. CASE R!ForgetThread \/ R!ReadState \/ R!SetIdle
    BY <1>7 DEF R!ForgetThread, R!ReadState, R!SetIdle
  <1>8. QED
    BY <1>1, <1>2, <1>3, <1>4, <1>5, <1>6, <1>7 DEF R!Start, R!Stop

LEMMA ExclusionThread ==
  ASSUME ReaderTyped, Exclusion, NEW t \in R!Threads,
         R!ReaderAlone(t) \/ R!NextMessage(t) \/ R!EndAfterFault(t)
  PROVE  Exclusion'
  <1> USE DEF Exclusion, LiveIsCurrent, NobodyIsLive, Live, ReaderTyped,
              R!Step, R!ownerVars, R!sharedVars
  <1>1. CASE R!SetFaulted(t)
    <2>1. t \in Live /\ Live \subseteq {t} /\ rpc' = [rpc EXCEPT ![t] = "flagged"]
      BY <1>1 DEF R!SetFaulted
    <2>2. Live' = {} /\ UNCHANGED <<thread, pc>>
      BY <1>1, <2>1 DEF R!SetFaulted
    <2>3. rpc[t] # "created"
      BY <1>1 DEF R!SetFaulted
    <2>4. QED
      BY <2>1, <2>2, <2>3
  <1>2. CASE R!TestEvent(t) \/ R!Read(t) \/ R!ReadFails(t)
    BY <1>2 DEF R!TestEvent, R!Read, R!ReadFails
  <1>3. CASE R!NextMessage(t) \/ R!Drained(t)
    BY <1>3 DEF R!NextMessage, R!Drained
  <1>4. CASE R!FaultSetsEvent(t) \/ R!EndAfterFault(t)
    BY <1>4 DEF R!FaultSetsEvent, R!EndAfterFault
  <1>5. QED
    BY <1>1, <1>2, <1>3, <1>4 DEF R!ReaderAlone

\* What the steps of the device do to the reader.
LEMMA ReaderSteps ==
  ASSUME [Next]_vars
  PROVE  \/ UNCHANGED <<state, thread, pc, rpc, acc>>
         \/ (R!Start \/ R!Stop) /\ UNCHANGED <<arrived, deviceVars, sensorVars>>
         \/ \E t \in R!Threads : Reader(t)
  <1>1. CASE User
    BY <1>1 DEF User, Call, SetOnMessage, Update, readerVars
  <1>2. CASE BeginStop \/ BeginStart \/ InReader
    BY <1>2 DEF BeginStop, BeginStart, InReader, R!Start, R!Stop
  <1>3. CASE Send \/ GiveUp \/ Assign \/ ClosePort \/ Dispatch \/ DispatchFails
    BY <1>3 DEF Send, GiveUp, Assign, ClosePort, Dispatch, DispatchFails, readerVars
  <1>4. CASE Receive
    BY <1>4 DEF Receive
  <1>5. CASE Sensor
    <2>1. (\E mid : Emit(mid)) \/ Overlook
      BY <1>5 DEF Sensor, Stream, Answer
    <2>2. QED
      BY <2>1 DEF Emit, Overlook, readerVars
  <1>6. CASE UNCHANGED vars
    BY <1>6 DEF vars, readerVars
  <1>7. QED
    BY <1>1, <1>2, <1>3, <1>4, <1>5, <1>6 DEF Next, InCall

LEMMA ExclusionNext ==
  ASSUME JoinMayExpire = FALSE
  PROVE  TypeInv /\ Exclusion /\ [Next]_vars => Exclusion'
  <1> SUFFICES ASSUME TypeInv, Exclusion, [Next]_vars PROVE Exclusion'
    OBVIOUS
  <1>1. ReaderTyped /\ StartsBounded
    BY TypeParts
  <1>2. CASE UNCHANGED <<state, thread, pc, rpc, acc>>
    BY <1>2 DEF Exclusion, LiveIsCurrent, NobodyIsLive, Live
  <1>3. CASE R!Start \/ R!Stop
    BY <1>1, <1>3, ExclusionOwner
  <1>4. ASSUME NEW t \in R!Threads, Reader(t) PROVE Exclusion'
    BY <1>1, <1>4, ExclusionThread DEF Reader, OnMessage, OnReaderError, ReaderAlone
  <1>5. QED
    BY <1>2, <1>3, <1>4, ReaderSteps

----------------------------------------------------------------------------
\* update() is one step.
LEMMA DispatchingFacts ==
  /\ Dispatching # <<>> /\ Head(Dispatching).do = "dispatch"
  /\ Head(Dispatching) # ToMeasurement
  <1>1. Block(Dispatching, StepOf("dispatch", NoArg), StepOf("dispatch", NoArg))
    BY Single DEF Dispatching, NoArg, StepOf, Steps
  <1>2. Dispatching # <<>> /\ Head(Dispatching) = StepOf("dispatch", NoArg)
    BY <1>1 DEF Block, Chain
  <1>3. QED
    BY <1>2, StepIs

\* Only an open port is waited on or read.
NeedsPort(s) == s.do = "receive" \/ Starting(s) \/ s = ToMeasurement

PortInv ==
  /\ ~portOpen => Live = {}
  /\ (todo # <<>> /\ NeedsPort(Head(todo))) => portOpen
  /\ (pc = "idle" /\ todo # <<>> /\ Head(todo).do = "close") => Live = {}

ClosedInv == OwnerInv /\ Exclusion /\ PortInv

LEMMA PortInit == Init => PortInv
  BY DEF Init, R!Init, PortInv, Live

LEMMA SameLive == rpc' = rpc => Live' = Live
  BY DEF Live

\* What comes behind a step needs the port only if that step did, or sent.
LEMMA StepKeepsPort ==
  ASSUME CallLeft(todo), PortInv, todo # <<>>, todo' = Tail(todo),
         Head(todo).do = "send" => portOpen
  PROVE  /\ (todo' # <<>> /\ NeedsPort(Head(todo'))) => portOpen
         /\ (todo' # <<>> /\ Head(todo').do = "close") => Head(todo).do = "stop"
  <1>1. todo' # <<>> => Follows(Head(todo), Head(todo'))
    BY TailOfChain DEF CallLeft
  <1>2. QED
    BY <1>1 DEF PortInv, NeedsPort, Follows

LEMMA PortNext ==
  ASSUME JoinMayExpire = FALSE
  PROVE  ClosedInv /\ [Next]_vars => PortInv'
  <1> SUFFICES ASSUME ClosedInv, [Next]_vars PROVE PortInv'
    OBVIOUS
  <1>1. /\ PortInv /\ CallLeft(todo) /\ ReaderTyped /\ StartingOwner
        /\ LiveIsCurrent /\ NobodyIsLive
    BY TypeParts DEF ClosedInv, OwnerInv, Exclusion
  <1>2. ASSUME UNCHANGED <<pc, todo, portOpen>>, Live' \subseteq Live PROVE PortInv'
    BY <1>1, <1>2 DEF PortInv
  <1>3. ASSUME UNCHANGED <<pc, todo, portOpen, rpc>> PROVE PortInv'
    BY <1>2, <1>3, SameLive
  <1>4. ASSUME UNCHANGED <<portOpen, rpc>>, todo' # <<>>, Opening(Head(todo'))
        PROVE  PortInv'
    <2>1. ToMeasurement.do = "assign"
      BY StepIs DEF ToMeasurement
    <2>2. QED
      BY <1>1, <1>4, <2>1, SameLive DEF PortInv, Opening, NeedsPort, Starting
  <1>5. ASSUME NEW call \in Calls, Call(call) PROVE PortInv'
    <2>1. todo' = Body(call) /\ UNCHANGED <<portOpen, rpc>>
      BY <1>5 DEF Call, readerVars
    <2>2. QED
      BY <1>4, <2>1, BodyFacts
  <1>6. CASE SetOnMessage
    BY <1>3, <1>6 DEF SetOnMessage, userVars, readerVars
  <1>7. CASE Update
    <2>1. todo' = Dispatching /\ UNCHANGED <<portOpen, rpc>>
      BY <1>7 DEF Update, readerVars, Dispatching
    <2>2. /\ Dispatching # <<>> /\ ~NeedsPort(Head(Dispatching))
          /\ Head(Dispatching).do # "close"
      BY DispatchingFacts DEF NeedsPort, Starting
    <2>3. QED
      BY <1>1, <2>1, <2>2, SameLive DEF PortInv
  <1>8. CASE Send \/ Receive \/ Dispatch \/ Assign
    <2>1. /\ pc = "idle" /\ todo # <<>>
          /\ Head(todo).do \in {"send", "receive", "dispatch", "assign"}
          /\ UNCHANGED <<pc, rpc, portOpen>>
          /\ todo' \in {todo, <<>>, Tail(todo)}
          /\ todo' = Tail(todo) /\ Head(todo).do = "send" => portOpen \/ todo' = <<>>
      BY <1>8, Zenon DEF Send, Receive, Dispatch, Assign, Doing, Done, Raise,
         readerVars, deviceVars
    <2>2. CASE todo' = todo
      BY <1>3, <2>1, <2>2
    <2>3. CASE todo' = <<>>
      BY <1>1, <2>1, <2>3, SameLive DEF PortInv
    <2>4. CASE todo' = Tail(todo) /\ todo' # <<>>
      BY <1>1, <2>1, <2>4, SameLive, StepKeepsPort DEF PortInv
    <2>5. QED
      BY <2>1, <2>2, <2>3, <2>4
  <1>9. CASE GiveUp \/ DispatchFails
    BY <1>1, <1>9, SameLive DEF GiveUp, DispatchFails, Raise, readerVars, PortInv
  <1>10. CASE ClosePort
    <2>1. /\ pc = "idle" /\ todo # <<>> /\ Head(todo).do = "close"
          /\ todo' = Tail(todo) /\ UNCHANGED rpc
      BY <1>10 DEF ClosePort, Doing, Done, readerVars
    <2>2. todo' = <<>> /\ Live' = {}
      BY <1>1, <2>1, LastSteps, SameLive DEF CallLeft, Final, PortInv
    <2>3. QED
      BY <2>2 DEF PortInv
  <1>11. CASE BeginStop
    <2>1. /\ todo # <<>> /\ Head(todo).do = "stop" /\ todo' = Tail(todo)
          /\ pc' = IF thread = R!None THEN "idle" ELSE "set"
          /\ UNCHANGED <<portOpen, rpc>>
      BY <1>11 DEF BeginStop, Doing, Done, R!BeginStop, R!GoTo, R!threadVars
    <2>2. pc' = "idle" => Live' = {}
      BY <1>1, <2>1, SameLive DEF LiveIsCurrent, Live, R!Threads, R!None
    <2>3. QED
      BY <1>1, <2>1, <2>2, SameLive, StepKeepsPort DEF PortInv
  <1>12. CASE BeginStart
    <2>1. /\ todo # <<>> /\ Head(todo).do = "start" /\ todo' = Tail(todo)
          /\ UNCHANGED <<portOpen, rpc>>
      BY <1>12 DEF BeginStart, Doing, Done, R!BeginStart, R!GoTo, R!threadVars
    <2>2. portOpen
      BY <1>1, <2>1 DEF PortInv, NeedsPort, Starting
    <2>3. QED
      BY <1>1, <2>1, <2>2, StepKeepsPort DEF PortInv
  <1>13. CASE InReader
    <2>1. pc # "idle" /\ (R!Start \/ R!Stop) /\ UNCHANGED <<todo, portOpen>>
      BY <1>13 DEF InReader, userVars
    <2> USE DEF R!GoTo, R!threadVars
    <2>2. CASE R!CreateThread \/ R!LaunchThread
      <3>1. todo # <<>> /\ Head(todo) = ToMeasurement
        BY <1>1, <2>2 DEF R!CreateThread, R!LaunchThread, StartingOwner
      <3>2. portOpen /\ Head(todo).do # "close"
        BY <1>1, <3>1, StepIs DEF PortInv, NeedsPort, ToMeasurement
      <3>3. QED
        BY <2>1, <3>1, <3>2 DEF PortInv
    <2>3. CASE R!ClearEvent \/ R!SetRunning \/ R!SetEvent \/ R!Join \/ R!ForgetThread
      <3>1. pc' # "idle" /\ rpc' = rpc
        BY <2>3 DEF R!ClearEvent, R!SetRunning, R!SetEvent, R!Join, R!ForgetThread
      <3>2. QED
        BY <1>1, <2>1, <3>1, SameLive DEF PortInv
    <2>4. CASE R!ReadState \/ R!SetIdle
      <3>1. pc \in {"settle", "idling"} /\ rpc' = rpc
        BY <2>4 DEF R!ReadState, R!SetIdle
      <3>2. Live' = {}
        BY <1>1, <3>1, SameLive DEF NobodyIsLive
      <3>3. QED
        BY <1>1, <2>1, <3>2 DEF PortInv
    <2>5. QED
      BY <2>1, <2>2, <2>3, <2>4 DEF R!Start, R!Stop, R!BeginStart, R!BeginStop
  <1>14. ASSUME NEW t \in R!Threads, Reader(t) PROVE PortInv'
    <2>1. /\ R!ReaderAlone(t) \/ R!NextMessage(t) \/ R!EndAfterFault(t)
          /\ UNCHANGED <<todo, portOpen>>
      BY <1>14 DEF Reader, OnMessage, OnReaderError, ReaderAlone, userVars
    <2>2. Live' \subseteq Live
      BY <1>1, <2>1 DEF ReaderTyped, Live, R!ReaderAlone, R!NextMessage,
         R!EndAfterFault, R!TestEvent, R!Read, R!ReadFails, R!Drained,
         R!SetFaulted, R!FaultSetsEvent, R!Step
    <2>3. QED
      BY <1>2, <2>1, <2>2, ThreadMoves
  <1>15. CASE Sensor
    <2>1. (\E mid : Emit(mid)) \/ Overlook
      BY <1>15 DEF Sensor, Stream, Answer
    <2>2. QED
      BY <1>3, <2>1 DEF Emit, Overlook, readerVars, userVars
  <1>16. CASE UNCHANGED vars
    BY <1>3, <1>16 DEF vars, readerVars, userVars
  <1>17. QED
    BY <1>5, <1>6, <1>7, <1>8, <1>9, <1>10, <1>11, <1>12, <1>13, <1>14, <1>15,
       <1>16 DEF Next, User, InCall

\* A closed port is not read, whenever goto_measurement() is called.
THEOREM ClosedIsQuietAlways ==
  ASSUME JoinMayExpire = FALSE
  PROVE  Spec => []ClosedIsQuiet
  <1>1. Init => ClosedInv
    BY OwnerInit, ExclusionInit, PortInit DEF ClosedInv
  <1>2. ClosedInv /\ [Next]_vars => ClosedInv'
    BY OwnerNext, ExclusionNext, PortNext DEF ClosedInv, OwnerInv
  <1>3. ClosedInv => ClosedIsQuiet
    BY DEF ClosedInv, PortInv, ClosedIsQuiet, Live, R!Reading
  <1>4. QED
    BY <1>1, <1>2, <1>3, PTL DEF Spec

----------------------------------------------------------------------------
\* A thread that was created and has not ended.
Active == {t \in R!Threads : rpc[t] \notin {"unborn", "ended"}}

\* self._thread refers to it: there is one at most.
ActiveIsCurrent == \A t \in Active : thread = t

\* Between the test of start() and the new thread, and after the join of
\* stop(), there is none.
OwnerKnows ==
  pc \in {"clear", "running", "create", "forget", "settle", "idling"}
    => Active = {}

\* A step that needs the port for itself has it.
QuietSteps ==
  (pc = "idle" /\ todo # <<>> /\ QuietStep(Head(todo))) => Active = {}

\* A device that is tracked to be in config state has no reader thread, except
\* for the moment between its start and the assignment.
TrackedConfig ==
  (tracked = "CONFIG" /\ Active # {}) => todo # <<>> /\ Head(todo) = ToMeasurement

Safe == /\ ActiveIsCurrent
        /\ OwnerKnows
        /\ QuietSteps
        /\ TrackedConfig

SafetyInv == OwnerInv /\ Safe

LEMMA SafetyInit == Init => SafetyInv
  <1> SUFFICES ASSUME Init PROVE Safe
    BY OwnerInit DEF SafetyInv
  <1>1. Active = {}
    BY DEF Init, R!Init, Active
  <1>2. QED
    BY <1>1 DEF Init, R!Init, Safe, ActiveIsCurrent, OwnerKnows,
       QuietSteps, TrackedConfig

\* The steps of the threads and of the sensor, and those of a call that leave
\* it where it is.
LEMMA Undisturbed ==
  ASSUME Safe, UNCHANGED <<thread, pc, todo, tracked>>,
         Active' \subseteq Active
  PROVE  Safe'
  BY DEF Safe, ActiveIsCurrent, OwnerKnows, QuietSteps,
         TrackedConfig

LEMMA SameActive == rpc' = rpc => Active' = Active
  BY DEF Active

LEMMA ThreadActive ==
  ASSUME ReaderTyped, NEW t \in R!Threads,
         R!ReaderAlone(t) \/ R!NextMessage(t) \/ R!EndAfterFault(t)
  PROVE  /\ Active' \subseteq Active
         /\ UNCHANGED <<thread, pc>>
         /\ R!EndAfterFault(t) => t \in Active /\ t \notin Active'
  <1> USE DEF ReaderTyped, Active, R!EndAfterFault, R!Step, R!ownerVars,
         R!sharedVars
  <1>1. CASE R!NextMessage(t)
    BY <1>1 DEF R!NextMessage
  <1>2. CASE R!EndAfterFault(t)
    BY <1>2 DEF R!EndAfterFault
  <1>3. CASE R!TestEvent(t) \/ R!ReadFails(t) \/ R!Drained(t) \/ R!Read(t)
    BY <1>3 DEF R!TestEvent, R!ReadFails, R!Drained, R!Read
  <1>4. CASE R!SetFaulted(t) \/ R!FaultSetsEvent(t)
    BY <1>4 DEF R!SetFaulted, R!FaultSetsEvent
  <1>5. QED
    BY <1>1, <1>2, <1>3, <1>4 DEF R!ReaderAlone, R!EndAfterFault, R!NextMessage

\* A step is done that is no assignment, and the next one needs the port for
\* itself only if it did.
LEMMA StepDone ==
  ASSUME Safe, UNCHANGED <<thread, pc, tracked>>, Active' = Active,
         pc = "idle", todo # <<>>, Head(todo).do # "assign",
         (todo' # <<>> /\ QuietStep(Head(todo'))) => QuietStep(Head(todo))
  PROVE  Safe'
  <1>1. Head(todo) # ToMeasurement
    BY DEF ToMeasurement, StepOf
  <1>2. QuietSteps' /\ TrackedConfig'
    BY <1>1 DEF Safe, QuietSteps, TrackedConfig
  <1>3. QED
    BY <1>2 DEF Safe, ActiveIsCurrent, OwnerKnows

\* A step raises.
LEMMA StepRaises ==
  ASSUME Safe, UNCHANGED <<thread, pc, tracked>>, Active' = Active,
         pc = "idle", todo # <<>>, todo' = <<>>, Head(todo).do # "assign"
  PROVE  Safe'
  <1>1. Head(todo) # ToMeasurement
    BY DEF ToMeasurement, StepOf
  <1>2. QED
    BY <1>1 DEF Safe, ActiveIsCurrent, OwnerKnows, QuietSteps,
       TrackedConfig

\* A call begins, or an update: no reader thread is about to start.
LEMMA CallBegins ==
  ASSUME Safe, UNCHANGED <<thread, pc, tracked>>, Active' = Active,
         pc = "idle", todo = <<>>, todo' # <<>>,
         QuietStep(Head(todo')) => tracked = "CONFIG"
  PROVE  Safe'
  BY DEF Safe, ActiveIsCurrent, OwnerKnows, QuietSteps,
         TrackedConfig

LEMMA StartSafe ==
  ASSUME Safe, BeginStart, Tail(todo) # <<>>, Head(Tail(todo)) = ToMeasurement
  PROVE  Safe'
  <1>1. /\ pc = "idle" /\ todo # <<>> /\ Head(todo).do = "start"
        /\ todo' = Tail(todo) /\ pc' \in {"idle", "clear"}
        /\ UNCHANGED <<thread, tracked, rpc>>
    BY DEF BeginStart, Doing, Done, R!BeginStart, R!GoTo, R!threadVars, deviceVars
  <1>2. Active = {} /\ Active' = {}
    BY <1>1, SameActive DEF Safe, QuietSteps, QuietStep
  <1>3. QED
    BY <1>1, <1>2 DEF Safe, ActiveIsCurrent, OwnerKnows, QuietSteps, TrackedConfig

LEMMA StopSafe ==
  ASSUME Safe, BeginStop
  PROVE  Safe'
  <1>1. /\ pc = "idle" /\ todo # <<>> /\ Head(todo).do = "stop"
        /\ todo' = Tail(todo) /\ pc' = IF thread = R!None THEN "idle" ELSE "set"
        /\ UNCHANGED <<thread, tracked, rpc>>
    BY DEF BeginStop, Doing, Done, R!BeginStop, R!GoTo, R!threadVars, deviceVars
  <1>2. Active' = Active
    BY <1>1, SameActive
  <1>3. pc' = "idle" => Active = {}
    BY <1>1 DEF Safe, ActiveIsCurrent, Active, R!Threads, R!None
  <1>4. Head(todo) # ToMeasurement
    BY <1>1 DEF ToMeasurement, StepOf
  <1>5. QED
    BY <1>1, <1>2, <1>3, <1>4 DEF Safe, ActiveIsCurrent, OwnerKnows,
       QuietSteps, TrackedConfig

LEMMA InReaderSafe ==
  ASSUME JoinMayExpire = FALSE, Safe, ReaderTyped, StartingOwner, InReader
  PROVE  Safe'
  <1> USE DEF R!GoTo, R!sharedVars, R!threadVars
  <1>1. /\ pc # "idle" /\ (R!Start \/ R!Stop)
        /\ UNCHANGED <<todo, tracked>>
    BY DEF InReader, userVars, deviceVars
  <1>2. Safe /\ ReaderTyped /\ StartingOwner
    OBVIOUS
  <1>3. ASSUME Active' = {}, UNCHANGED thread,
               pc' \in {"idle", "running", "create", "forget", "settle", "idling"},
               pc' \in {"running", "create"} => pc \in {"clear", "running"}
        PROVE  Safe'
    BY <1>1, <1>2, <1>3 DEF Safe, ActiveIsCurrent, OwnerKnows,
       QuietSteps, TrackedConfig
  <1>4. CASE R!ClearEvent \/ R!SetRunning
    BY <1>2, <1>3, <1>4, SameActive
       DEF R!ClearEvent, R!SetRunning, Safe, OwnerKnows
  <1>5. CASE R!ForgetThread \/ R!ReadState \/ R!SetIdle
    <2>1. /\ pc \in {"forget", "settle", "idling"} /\ rpc' = rpc
          /\ pc' \in {"settle", "idling", "idle"}
          /\ UNCHANGED thread \/ thread' = R!None
      BY <1>5 DEF R!ForgetThread, R!ReadState, R!SetIdle
    <2>2. Active' = {}
      BY <1>2, <2>1, SameActive DEF Safe, OwnerKnows
    <2>3. QED
      BY <1>1, <1>2, <2>1, <2>2 DEF Safe, ActiveIsCurrent, OwnerKnows,
         QuietSteps, TrackedConfig
  <1>6. CASE R!CreateThread
    <2>1. /\ pc = "create" /\ pc' = "launch" /\ thread' = started'
          /\ rpc' = [rpc EXCEPT ![started'] = "created"]
      BY <1>6 DEF R!CreateThread
    <2>2. Active = {} /\ todo # <<>> /\ Head(todo) = ToMeasurement
      BY <1>2, <2>1 DEF Safe, OwnerKnows, StartingOwner
    <2>3. Active' \subseteq {started'}
      BY <1>2, <2>1, <2>2 DEF Active, ReaderTyped
    <2>4. QED
      BY <1>1, <2>1, <2>2, <2>3 DEF Safe, ActiveIsCurrent, OwnerKnows,
         QuietSteps, TrackedConfig
  <1>7. CASE R!LaunchThread
    <2>1. /\ pc = "launch" /\ pc' = "idle" /\ thread' = thread
          /\ rpc' = [rpc EXCEPT ![thread] = "loop"]
      BY <1>7 DEF R!LaunchThread
    <2>2. todo # <<>> /\ Head(todo) = ToMeasurement
      BY <1>2, <2>1 DEF StartingOwner
    <2>3. Active' \subseteq Active \cup {thread}
      BY <1>2, <2>1 DEF Active, ReaderTyped
    <2>4. ~QuietStep(Head(todo))
      BY <2>2, StepIs DEF ToMeasurement, QuietStep
    <2>5. QED
      BY <1>1, <1>2, <2>1, <2>2, <2>3, <2>4 DEF Safe, ActiveIsCurrent,
         OwnerKnows, QuietSteps, TrackedConfig
  <1>8. CASE R!SetEvent
    <2>1. pc = "set" /\ pc' = "join" /\ UNCHANGED <<thread, rpc>>
      BY <1>8 DEF R!SetEvent
    <2>2. QED
      BY <1>1, <1>2, <2>1, SameActive DEF Safe, ActiveIsCurrent,
         OwnerKnows, QuietSteps, TrackedConfig
  <1>9. CASE R!Join
    <2>1. pc' = "forget" /\ rpc[thread] = "ended" /\ UNCHANGED <<thread, rpc>>
      BY <1>9 DEF R!Join
    <2>2. Active' = {}
      BY <1>2, <2>1, SameActive DEF Safe, ActiveIsCurrent, Active
    <2>3. QED
      BY <1>3, <2>1, <2>2
  <1>10. QED
    BY <1>1, <1>4, <1>5, <1>6, <1>7, <1>8, <1>9
       DEF R!Start, R!Stop, R!BeginStart, R!BeginStop

LEMMA SafetyNext ==
  ASSUME JoinMayExpire = FALSE, Remeasure = FALSE
  PROVE  SafetyInv /\ [Next]_vars => SafetyInv'
  <1> SUFFICES ASSUME SafetyInv, [Next]_vars PROVE Safe'
    BY OwnerNext DEF SafetyInv
  <1>1. /\ Safe /\ CallLeft(todo) /\ ReaderTyped /\ StartingOwner
        /\ tracked \in Modes
    BY TypeParts DEF SafetyInv, OwnerInv, DeviceTyped
  <1>2. ASSUME UNCHANGED readerVars
        PROVE  UNCHANGED <<thread, pc, rpc>> /\ Active' = Active
    BY <1>2, SameActive DEF readerVars
  <1>3. ASSUME UNCHANGED readerVars, UNCHANGED <<todo, tracked>>
        PROVE  Safe'
    BY <1>1, <1>2, <1>3, Undisturbed
  <1>4. ASSUME NEW call \in Calls, Call(call) PROVE Safe'
    <2>1. /\ pc = "idle" /\ todo = <<>> /\ todo' = Body(call)
          /\ call = "goto_measurement" => tracked = "CONFIG"
          /\ UNCHANGED readerVars /\ UNCHANGED tracked
      BY <1>4 DEF Call, Idle, deviceVars
    <2>2. /\ todo' # <<>> /\ Opening(Head(todo'))
          /\ QuietStep(Head(todo')) => tracked = "CONFIG"
      BY <1>1, <2>1, BodyFacts DEF Modes
    <2>3. QED
      BY <1>1, <1>2, <2>1, <2>2, CallBegins
  <1>5. CASE SetOnMessage
    BY <1>3, <1>5 DEF SetOnMessage, userVars
  <1>6. CASE Update
    <2>1. /\ pc = "idle" /\ todo = <<>> /\ todo' = Dispatching
          /\ UNCHANGED readerVars /\ UNCHANGED tracked
      BY <1>6 DEF Update, Idle, Dispatching
    <2>2. Dispatching # <<>> /\ ~QuietStep(Head(Dispatching))
      BY DispatchingFacts DEF QuietStep
    <2>3. QED
      BY <1>1, <1>2, <2>1, <2>2, CallBegins
  <1>7. CASE Send \/ Receive \/ Dispatch
    <2>1. /\ pc = "idle" /\ todo # <<>> /\ Head(todo).do \in {"send", "receive", "dispatch"}
          /\ UNCHANGED <<thread, pc, rpc, tracked>>
          /\ todo' \in {todo, <<>>, Tail(todo)}
      BY <1>7, Zenon DEF Send, Receive, Dispatch, Doing, Done, Raise, readerVars, deviceVars
    <2>2. Active' = Active
      BY <2>1, SameActive
    <2>3. todo' = Tail(todo) /\ todo' # <<>> => Follows(Head(todo), Head(todo'))
      BY <1>1, <2>1, TailOfChain DEF CallLeft
    <2>4. QED
      BY <1>1, <2>1, <2>2, <2>3, Undisturbed, StepRaises, StepDone DEF Follows
  <1>8. CASE GiveUp \/ DispatchFails
    <2>1. /\ pc = "idle" /\ todo # <<>> /\ Head(todo).do \in {"receive", "dispatch"}
          /\ UNCHANGED readerVars /\ UNCHANGED tracked
          /\ todo' = <<>>
      BY <1>8 DEF GiveUp, DispatchFails, Doing, Raise, deviceVars
    <2>2. QED
      BY <1>1, <1>2, <2>1, StepRaises
  <1>9. CASE BeginStop
    BY <1>1, <1>9, StopSafe
  <1>18. CASE BeginStart
    <2>1. CallLeft(todo) /\ todo # <<>> /\ Starting(Head(todo))
      BY <1>1, <1>18 DEF BeginStart, Doing, Starting
    <2>2. Tail(todo) # <<>> /\ Head(Tail(todo)) = ToMeasurement
      BY <2>1, TailOfChain DEF CallLeft, Follows
    <2>3. QED
      BY <1>1, <1>18, <2>2, StartSafe
  <1>10. CASE InReader
    BY <1>1, <1>10, InReaderSafe
  <1>11. CASE Assign
    <2>1. /\ pc = "idle" /\ todo # <<>> /\ Head(todo).do = "assign"
          /\ tracked' = Head(todo).arg /\ todo' = Tail(todo)
          /\ UNCHANGED readerVars
      BY <1>11 DEF Assign, Doing, Done
    <2>2. todo' = <<>>
      BY <1>1, <2>1, LastSteps DEF CallLeft, Final
    <2>3. tracked' = "CONFIG" => Active = {}
      BY <1>1, <2>1 DEF Safe, QuietSteps, QuietStep
    <2>4. QED
      BY <1>1, <1>2, <2>1, <2>2, <2>3 DEF Safe, ActiveIsCurrent, OwnerKnows,
         QuietSteps, TrackedConfig
  <1>12. CASE ClosePort
    <2>1. /\ pc = "idle" /\ todo # <<>> /\ Head(todo).do = "close"
          /\ todo' = Tail(todo)
          /\ UNCHANGED readerVars /\ UNCHANGED tracked
      BY <1>12 DEF ClosePort, Doing, Done, deviceVars
    <2>2. todo' = <<>>
      BY <1>1, <2>1, LastSteps DEF CallLeft, Final
    <2>3. Active = {}
      BY <1>1, <2>1 DEF Safe, QuietSteps, QuietStep
    <2>4. QED
      BY <1>1, <1>2, <2>1, <2>2, <2>3 DEF Safe, ActiveIsCurrent, OwnerKnows,
         QuietSteps, TrackedConfig
  <1>13. ASSUME NEW t \in R!Threads, Reader(t) PROVE Safe'
    <2>1. /\ Active' \subseteq Active /\ UNCHANGED <<thread, pc>>
          /\ R!EndAfterFault(t) => t \in Active /\ t \notin Active'
      BY <1>1, <1>13, ThreadActive DEF Reader, OnMessage, OnReaderError, ReaderAlone
    <2>2. CASE OnMessage(t) \/ ReaderAlone(t)
      BY <1>1, <2>1, <2>2, Undisturbed DEF OnMessage, ReaderAlone, userVars, deviceVars
    <2>3. CASE OnReaderError(t)
      <3>1. Active' = {}
        BY <1>1, <2>1, <2>3 DEF OnReaderError, Safe, ActiveIsCurrent
      <3>2. QED
        BY <1>1, <2>1, <2>3, <3>1 DEF OnReaderError, userVars, Safe,
           ActiveIsCurrent, OwnerKnows, QuietSteps, TrackedConfig
    <2>4. QED
      BY <1>13, <2>2, <2>3 DEF Reader
  <1>14. ASSUME NEW mid, Emit(mid) PROVE Safe'
    <2>1. UNCHANGED <<thread, pc, rpc, todo, tracked>>
      BY <1>14 DEF Emit, deviceVars, userVars
    <2>2. QED
      BY <1>1, <2>1, SameActive, Undisturbed
  <1>15. CASE Answer
    <2>1. \E mid : Emit(mid)
      BY <1>15 DEF Answer
    <2>2. QED
      BY <1>14, <2>1
  <1>16. CASE Overlook \/ UNCHANGED vars
    BY <1>3, <1>16 DEF Overlook, vars, deviceVars, userVars
  <1>17. QED
    BY <1>4, <1>5, <1>6, <1>7, <1>8, <1>9, <1>10, <1>11, <1>12, <1>13, <1>14,
       <1>15, <1>16, <1>18 DEF Next, User, InCall, Sensor, Stream

\* The inductive invariant of a device whose join() waits and whose
\* goto_measurement() is not called while measuring.
THEOREM Safety ==
  ASSUME JoinMayExpire = FALSE, Remeasure = FALSE
  PROVE  Spec => []SafetyInv
  <1>1. SafetyInv /\ [Next]_vars => SafetyInv'
    BY SafetyNext
  <1>2. QED
    BY <1>1, SafetyInit, PTL DEF Spec

LEMMA ReadingIsActive == R!Reading \subseteq Active
  BY DEF R!Reading, Active

\* The answer to a command is never swallowed by a reader thread: none reads
\* while a call waits in config state, or after it left measurement.
THEOREM AnswerIsMineAlways ==
  ASSUME JoinMayExpire = FALSE, Remeasure = FALSE
  PROVE  Spec => []AnswerIsMine
  <1>1. SafetyInv => AnswerIsMine
    <2> SUFFICES ASSUME SafetyInv, Doing("receive"),
                        \/ tracked = "CONFIG"
                        \/ Head(todo).arg \in {"GOTOCONFIG", "RESET",
                                               "RESTORE_FACTORY_DEFAULTS"}
                 PROVE  Active = {}
      BY ReadingIsActive DEF AnswerIsMine
    <2>1. todo # <<>> /\ pc = "idle" /\ Head(todo).do = "receive"
      BY DEF Doing
    <2>2. CASE tracked = "CONFIG"
      BY <2>1, <2>2, StepIs DEF SafetyInv, Safe, TrackedConfig, ToMeasurement
    <2>3. CASE Head(todo).arg # "COMMAND"
      BY <2>1, <2>3 DEF SafetyInv, Safe, QuietSteps, QuietStep
    <2>4. QED
      BY <2>2, <2>3
  <1>2. QED
    BY <1>1, Safety, PTL

\* Between two calls, a device whose stream is read is tracked as measuring.
THEOREM MeasuringIsTrackedAlways ==
  ASSUME JoinMayExpire = FALSE, Remeasure = FALSE
  PROVE  Spec => []MeasuringIsTracked
  <1>1. SafetyInv => MeasuringIsTracked
    BY ReadingIsActive, TypeParts
       DEF SafetyInv, OwnerInv, Safe, TrackedConfig, DeviceTyped, Modes, Idle,
           MeasuringIsTracked
  <1>2. QED
    BY <1>1, Safety, PTL

----------------------------------------------------------------------------
(***************************************************************************)
(* The device implements OrderedDelivery, for any buffer and any number of *)
(* calls, threads and messages, if join() waits until the thread has ended.*)
(* A dispatch delivers the oldest message that waits; what a full buffer   *)
(* drops, what receive_message() reads over and what update() takes        *)
(* without a callback is lost; every other step is invisible.              *)
(***************************************************************************)

\* Sequences of messages and the sets of their numbers.
Nr(m) == m.n

\* Every number in A is smaller than every number in B.
Less(A, B) == \A a \in A : \A b \in B : a < b

\* The messages of s are in the order of their arrival.
Ordered(s) == \A i, j \in 1 .. Len(s) : i < j => Nr(s[i]) < Nr(s[j])

LEMMA MessageNr == \A m \in Messages : Nr(m) \in Nat
  BY DEF Messages, Nr

LEMMA NumbersFacts ==
  ASSUME NEW s \in Seq(Messages)
  PROVE  /\ Numbers(s) = {Nr(s[i]) : i \in 1 .. Len(s)}
         /\ Numbers(s) \subseteq Nat
  <1>1. DOMAIN s = 1 .. Len(s) /\ \A i \in 1 .. Len(s) : s[i] \in Messages
    OBVIOUS
  <1>2. Numbers(s) = {Nr(s[i]) : i \in 1 .. Len(s)}
    BY <1>1 DEF Numbers, Nr
  <1>3. QED
    BY <1>1, <1>2, MessageNr

LEMMA NoNumbers == Numbers(<<>>) = {} /\ Ordered(<<>>)
  BY DEF Numbers, Ordered

\* What a read takes from the line, and what it leaves there.
LEMMA NumbersSplit ==
  ASSUME NEW s \in Seq(Messages), Ordered(s), NEW n \in 0 .. Len(s)
  PROVE  /\ SubSeq(s, 1, n) \in Seq(Messages)
         /\ SubSeq(s, n + 1, Len(s)) \in Seq(Messages)
         /\ Ordered(SubSeq(s, 1, n)) /\ Ordered(SubSeq(s, n + 1, Len(s)))
         /\ Numbers(s) = Numbers(SubSeq(s, 1, n))
                           \cup Numbers(SubSeq(s, n + 1, Len(s)))
         /\ Less(Numbers(SubSeq(s, 1, n)), Numbers(SubSeq(s, n + 1, Len(s))))
  <1> DEFINE p == SubSeq(s, 1, n)
             q == SubSeq(s, n + 1, Len(s))
  <1>1. p \in Seq(Messages) /\ Len(p) = n /\ \A i \in 1 .. n : p[i] = s[i]
    OBVIOUS
  <1>2. /\ q \in Seq(Messages) /\ Len(q) = Len(s) - n
        /\ \A i \in 1 .. (Len(s) - n) : q[i] = s[n + i]
    OBVIOUS
  <1>3. n \in Nat /\ Len(s) \in Nat /\ n <= Len(s)
    OBVIOUS
  <1> HIDE DEF p, q
  <1>4. /\ Numbers(p) = {Nr(p[i]) : i \in 1 .. n}
        /\ Numbers(q) = {Nr(q[i]) : i \in 1 .. (Len(s) - n)}
        /\ Numbers(s) = {Nr(s[i]) : i \in 1 .. Len(s)}
    BY <1>1, <1>2, NumbersFacts
  <1>5. \A i \in 1 .. n : i \in 1 .. Len(s)
    BY <1>3
  <1>6. \A i \in 1 .. (Len(s) - n) : n + i \in 1 .. Len(s)
    BY <1>3
  <1>7. \A i \in 1 .. Len(s) :
           i \in 1 .. n \/ (i - n \in 1 .. (Len(s) - n) /\ n + (i - n) = i)
    BY <1>3
  <1>8. \A i \in 1 .. n : \A j \in 1 .. (Len(s) - n) : i < n + j
    BY <1>3
  <1>9. \A i, j \in 1 .. (Len(s) - n) : i < j => n + i < n + j
    BY <1>3
  <1>10. Ordered(p)
    BY <1>1, <1>5 DEF Ordered
  <1>11. Ordered(q)
    <2> SUFFICES ASSUME NEW i \in 1 .. (Len(s) - n), NEW j \in 1 .. (Len(s) - n),
                        i < j
                 PROVE  Nr(q[i]) < Nr(q[j])
      BY <1>2 DEF Ordered
    <2>1. n + i \in 1 .. Len(s) /\ n + j \in 1 .. Len(s) /\ n + i < n + j
      BY <1>6, <1>9
    <2>2. QED
      BY <1>2, <2>1 DEF Ordered
  <1>12. ASSUME NEW i \in 1 .. Len(s) PROVE Nr(s[i]) \in Numbers(p) \cup Numbers(q)
    <2>1. CASE i \in 1 .. n
      BY <1>1, <1>4, <2>1
    <2>2. CASE i - n \in 1 .. (Len(s) - n) /\ n + (i - n) = i
      BY <1>2, <1>4, <2>2
    <2>3. QED
      BY <1>7, <2>1, <2>2
  <1>13. ASSUME NEW i \in 1 .. n PROVE Nr(p[i]) \in Numbers(s)
    BY <1>1, <1>4, <1>5
  <1>14. ASSUME NEW i \in 1 .. (Len(s) - n) PROVE Nr(q[i]) \in Numbers(s)
    BY <1>2, <1>4, <1>6
  <1>15. ASSUME NEW i \in 1 .. n, NEW j \in 1 .. (Len(s) - n)
         PROVE  Nr(p[i]) < Nr(q[j])
    BY <1>1, <1>2, <1>5, <1>6, <1>8 DEF Ordered
  <1>16. Numbers(s) = Numbers(p) \cup Numbers(q)
    BY <1>4, <1>12, <1>13, <1>14
  <1>17. Less(Numbers(p), Numbers(q))
    BY <1>4, <1>15 DEF Less
  <1>18. QED
    BY <1>1, <1>2, <1>10, <1>11, <1>16, <1>17 DEF p, q

\* The first message, and those behind it.
LEMMA NumbersTail ==
  ASSUME NEW s \in Seq(Messages), s # <<>>, Ordered(s)
  PROVE  /\ Head(s) \in Messages /\ Tail(s) \in Seq(Messages)
         /\ Numbers(s) = {Nr(Head(s))} \cup Numbers(Tail(s))
         /\ Less({Nr(Head(s))}, Numbers(Tail(s)))
         /\ Ordered(Tail(s))
  <1> DEFINE u == Tail(s)
  <1>1. Len(s) \in Nat /\ Len(s) > 0 /\ Head(s) = s[1] /\ Head(s) \in Messages
    OBVIOUS
  <1>2. /\ u \in Seq(Messages) /\ Len(u) = Len(s) - 1
        /\ \A i \in 1 .. (Len(s) - 1) : u[i] = s[i + 1]
    OBVIOUS
  <1> HIDE DEF u
  <1>3. /\ Numbers(s) = {Nr(s[i]) : i \in 1 .. Len(s)}
        /\ Numbers(u) = {Nr(u[i]) : i \in 1 .. (Len(s) - 1)}
    BY <1>2, NumbersFacts
  <1>4. \A i \in 1 .. Len(s) :
           i = 1 \/ (i - 1 \in 1 .. (Len(s) - 1) /\ (i - 1) + 1 = i)
    BY <1>1
  <1>5. \A i \in 1 .. (Len(s) - 1) : i + 1 \in 1 .. Len(s) /\ 1 < i + 1
    BY <1>1
  <1>6. \A i, j \in 1 .. (Len(s) - 1) : i < j => i + 1 < j + 1
    BY <1>1
  <1>7. 1 \in 1 .. Len(s)
    BY <1>1
  <1>8. ASSUME NEW i \in 1 .. Len(s) PROVE Nr(s[i]) \in {Nr(s[1])} \cup Numbers(u)
    <2>1. CASE i = 1
      BY <2>1
    <2>2. CASE i - 1 \in 1 .. (Len(s) - 1) /\ (i - 1) + 1 = i
      BY <1>2, <1>3, <2>2
    <2>3. QED
      BY <1>4, <2>1, <2>2
  <1>9. ASSUME NEW i \in 1 .. (Len(s) - 1)
        PROVE  Nr(u[i]) \in Numbers(s) /\ Nr(s[1]) < Nr(u[i])
    BY <1>2, <1>3, <1>5, <1>7 DEF Ordered
  <1>10. Nr(s[1]) \in Numbers(s)
    BY <1>3, <1>7
  <1>11. Numbers(s) = {Nr(s[1])} \cup Numbers(u)
    BY <1>3, <1>8, <1>9, <1>10
  <1>12. Less({Nr(s[1])}, Numbers(u))
    BY <1>3, <1>9 DEF Less
  <1>13. Ordered(u)
    <2> SUFFICES ASSUME NEW i \in 1 .. (Len(s) - 1), NEW j \in 1 .. (Len(s) - 1),
                        i < j
                 PROVE  Nr(u[i]) < Nr(u[j])
      BY <1>2 DEF Ordered
    <2>1. i + 1 \in 1 .. Len(s) /\ j + 1 \in 1 .. Len(s) /\ i + 1 < j + 1
      BY <1>5, <1>6
    <2>2. QED
      BY <1>2, <2>1 DEF Ordered
  <1>14. QED
    BY <1>1, <1>2, <1>11, <1>12, <1>13 DEF u

\* A younger message comes behind the others.
LEMMA NumbersAppend ==
  ASSUME NEW s \in Seq(Messages), Ordered(s), NEW m \in Messages,
         Less(Numbers(s), {Nr(m)})
  PROVE  /\ Append(s, m) \in Seq(Messages) /\ Ordered(Append(s, m))
         /\ Numbers(Append(s, m)) = Numbers(s) \cup {Nr(m)}
  <1> DEFINE q == Append(s, m)
  <1>1. /\ q \in Seq(Messages) /\ Len(q) = Len(s) + 1 /\ Len(s) \in Nat
        /\ \A i \in 1 .. Len(s) : q[i] = s[i]
        /\ q[Len(s) + 1] = m
    OBVIOUS
  <1> HIDE DEF q
  <1>2. /\ Numbers(q) = {Nr(q[i]) : i \in 1 .. (Len(s) + 1)}
        /\ Numbers(s) = {Nr(s[i]) : i \in 1 .. Len(s)}
    BY <1>1, NumbersFacts
  <1>3. 1 .. (Len(s) + 1) = (1 .. Len(s)) \cup {Len(s) + 1}
    BY <1>1
  <1>4. Numbers(q) = Numbers(s) \cup {Nr(m)}
    BY <1>1, <1>2, <1>3
  <1>5. Ordered(q)
    <2> SUFFICES ASSUME NEW i \in 1 .. (Len(s) + 1), NEW j \in 1 .. (Len(s) + 1),
                        i < j
                 PROVE  Nr(q[i]) < Nr(q[j])
      BY <1>1 DEF Ordered
    <2>1. i \in 1 .. Len(s) /\ (j \in 1 .. Len(s) \/ j = Len(s) + 1)
      BY <1>1
    <2>2. CASE j \in 1 .. Len(s)
      BY <1>1, <2>1, <2>2 DEF Ordered
    <2>3. CASE j = Len(s) + 1
      BY <1>1, <1>2, <2>1, <2>3 DEF Less
    <2>4. QED
      BY <2>1, <2>2, <2>3
  <1>6. QED
    BY <1>1, <1>4, <1>5 DEF q

----------------------------------------------------------------------------
\* The messages keep their order between the port and the callback: what
\* update() took is older than the buffer, the buffer is older than what a
\* thread has drained, and that is older than what waits on the port.
Held == UNION {Numbers(acc[t]) : t \in R!Threads}

InLine(A, B, H, L) == /\ Less(A, B)
                      /\ Less(A \cup B, H)
                      /\ Less(A \cup B \cup H, L)

QueueInv ==
  /\ \A t \in R!Threads : /\ acc[t] # <<>> => rpc[t] = "drain"
                          /\ Ordered(acc[t])
  /\ Ordered(batch) /\ Ordered(buffer) /\ Ordered(line)
  /\ InLine(Numbers(batch), Numbers(buffer), Held, Numbers(line))
  /\ \A k \in Numbers(batch) \cup Numbers(buffer) \cup Held \cup Numbers(line) :
        k <= arrived

LEMMA QueueInit == Init => QueueInv
  <1> SUFFICES ASSUME Init PROVE QueueInv
    OBVIOUS
  <1>1. /\ \A t \in R!Threads : acc[t] = <<>>
        /\ batch = <<>> /\ buffer = <<>> /\ line = <<>>
    BY DEF Init, R!Init
  <1>2. Held = {}
    BY <1>1, NoNumbers DEF Held
  <1>3. QED
    BY <1>1, <1>2, NoNumbers DEF QueueInv, InLine, Less

\* A thread that holds messages is the only one that does.
LEMMA HeldIs ==
  ASSUME QueueInv, Exclusion, NEW t \in R!Threads, rpc[t] \in {"read", "drain"}
  PROVE  /\ \A u \in R!Threads : u # t => acc[u] = <<>>
         /\ Held = Numbers(acc[t])
  <1>1. \A u \in R!Threads : u # t => acc[u] = <<>>
    BY DEF QueueInv, Exclusion, LiveIsCurrent, Live
  <1>2. QED
    BY <1>1, NoNumbers DEF Held

LEMMA HeldTyped == ReaderTyped => Held \subseteq Nat
  BY NumbersFacts DEF ReaderTyped, Held

All(A, B, H, L) == A \cup B \cup H \cup L

\* What the queue is, seen from its sets of numbers.
LEMMA QueueFacts ==
  ASSUME TypeInv, QueueInv
  PROVE  /\ batch \in Seq(Messages) /\ buffer \in Seq(Messages)
         /\ line \in Seq(Messages) /\ acc \in [R!Threads -> Seq(Messages)]
         /\ rpc \in [R!Threads -> R!ReaderPCs]
         /\ Ordered(batch) /\ Ordered(buffer) /\ Ordered(line)
         /\ \A t \in R!Threads : Ordered(acc[t])
         /\ Numbers(batch) \in SUBSET Nat /\ Numbers(buffer) \in SUBSET Nat
         /\ Numbers(line) \in SUBSET Nat /\ Held \in SUBSET Nat
         /\ InLine(Numbers(batch), Numbers(buffer), Held, Numbers(line))
         /\ arrived \in Nat
         /\ \A k \in All(Numbers(batch), Numbers(buffer), Held, Numbers(line)) :
               k <= arrived
  <1>1. ReaderTyped /\ DeviceTyped
    BY TypeParts
  <1>2. /\ batch \in Seq(Messages) /\ buffer \in Seq(Messages)
        /\ line \in Seq(Messages) /\ acc \in [R!Threads -> Seq(Messages)]
        /\ rpc \in [R!Threads -> R!ReaderPCs] /\ arrived \in Nat
    BY <1>1 DEF ReaderTyped, DeviceTyped
  <1>3. /\ Numbers(batch) \in SUBSET Nat /\ Numbers(buffer) \in SUBSET Nat
        /\ Numbers(line) \in SUBSET Nat /\ Held \in SUBSET Nat
    BY <1>1, <1>2, NumbersFacts, HeldTyped
  <1>4. QED
    BY <1>2, <1>3, Zenon DEF QueueInv, All

\* The owner of the reader touches no message.
LEMMA OwnerKeepsQueue ==
  ASSUME ReaderTyped, Exclusion, QueueInv, R!Start \/ R!Stop
  PROVE  /\ UNCHANGED <<acc, line>>
         /\ \A t \in R!Threads : acc[t] # <<>> => rpc'[t] = "drain"
  <1> USE DEF R!GoTo, R!sharedVars, R!threadVars
  <1>1. \A t \in R!Threads : acc[t] # <<>> => rpc[t] = "drain" /\ t \in Live
    BY DEF QueueInv, Live
  <1>2. CASE R!CreateThread
    BY <1>1, <1>2 DEF R!CreateThread, Exclusion, NobodyIsLive
  <1>3. CASE R!LaunchThread
    BY <1>1, <1>3 DEF R!LaunchThread, Exclusion, NobodyIsLive, ReaderTyped
  <1>4. CASE R!BeginStart \/ R!ClearEvent \/ R!SetRunning \/ R!Stop
    BY <1>1, <1>4 DEF R!BeginStart, R!ClearEvent, R!SetRunning, R!Stop, R!BeginStop,
       R!SetEvent, R!Join, R!ForgetThread, R!ReadState, R!SetIdle
  <1>5. QED
    BY <1>2, <1>3, <1>4 DEF R!Start

\* What a step may do to the messages: nothing, lose some, read some of the
\* line, hand one to the buffer, take or dispatch some of the buffer, or put a
\* new one on the line.
Kept == UNCHANGED <<acc, line, buffer, batch, arrived, dispatched>>

Drain(t) ==
  /\ \E n \in 0 .. Len(line) : /\ acc' = [acc EXCEPT ![t] = SubSeq(line, 1, n)]
                               /\ line' = SubSeq(line, n + 1, Len(line))
  /\ acc[t] = <<>> /\ rpc[t] = "read" /\ rpc' = [rpc EXCEPT ![t] = "drain"]
  /\ UNCHANGED <<buffer, batch, arrived, dispatched>>

Keep(t) ==
  /\ acc[t] # <<>> /\ rpc[t] = "drain" /\ acc' = [acc EXCEPT ![t] = Tail(@)]
  /\ \/ buffer' = Append(buffer, Head(acc[t]))
     \/ buffer # <<>> /\ buffer' = Append(Tail(buffer), Head(acc[t]))
  /\ UNCHANGED <<rpc, line, batch, arrived, dispatched>>

Take == /\ batch' \in {buffer, <<>>} /\ buffer' = <<>>
        /\ UNCHANGED <<acc, rpc, line, arrived, dispatched>>

Deliver == /\ batch # <<>> /\ batch' = Tail(batch)
           /\ dispatched' = Append(dispatched, Nr(Head(batch)))
           /\ UNCHANGED <<acc, rpc, line, buffer, arrived>>

Drop == /\ batch' \in {batch, <<>>}
        /\ \E n \in 0 .. Len(line) : line' = SubSeq(line, n + 1, Len(line))
        /\ UNCHANGED <<acc, rpc, buffer, arrived, dispatched>>

Come == /\ arrived' = arrived + 1
        /\ \E m \in Messages : Nr(m) = arrived' /\ line' = Append(line, m)
        /\ UNCHANGED <<acc, rpc, buffer, batch, dispatched>>

Move == \/ Kept /\ \A t \in R!Threads : acc[t] # <<>> => rpc'[t] = "drain"
        \/ \E t \in R!Threads : Drain(t) \/ Keep(t)
        \/ Take \/ Deliver \/ Drop \/ Come

LEMMA EmitComes ==
  ASSUME arrived \in Nat, NEW mid \in Mids, Emit(mid)
  PROVE  Come
  <1> DEFINE m == [n |-> arrived', mid |-> mid]
  <1>1. m \in Messages /\ Nr(m) = arrived'
    BY DEF Emit, Messages, Nr
  <1>2. line' = Append(line, m)
    BY DEF Emit
  <1> HIDE DEF m
  <1>3. QED
    BY <1>1, <1>2 DEF Emit, Come, deviceVars

LEMMA StepMoves ==
  TypeInv /\ Exclusion /\ QueueInv /\ [Next]_vars => Move
  <1> SUFFICES ASSUME TypeInv, Exclusion, QueueInv, [Next]_vars PROVE Move
    OBVIOUS
  <1>1. /\ ReaderTyped /\ arrived \in Nat
        /\ line \in Seq(Messages) /\ buffer \in Seq(Messages)
        /\ BufferSize \in Nat /\ BufferSize # 0
        /\ wire \in Seq(Requests)
    BY TypeParts, DeviceAssumption DEF DeviceTyped, ReaderTyped, DeviceAssumption
  <1>2. \A t \in R!Threads : acc[t] # <<>> => rpc[t] = "drain"
    BY DEF QueueInv
  <1>3. ASSUME UNCHANGED readerVars,
               UNCHANGED <<arrived, buffer, batch, dispatched>>
        PROVE  Move
    BY <1>2, <1>3 DEF readerVars, Move, Kept
  <1>4. CASE User
    <2>1. CASE Update
      <3>1. /\ batch' \in {buffer, <<>>} /\ buffer' = <<>>
            /\ UNCHANGED readerVars /\ UNCHANGED <<arrived, dispatched>>
        BY <2>1, Zenon DEF Update
      <3>2. QED
        BY <3>1 DEF readerVars, Move, Take
    <2>2. CASE (\E call \in Calls : Call(call)) \/ SetOnMessage
      BY <1>3, <2>2 DEF Call, SetOnMessage, deviceVars
    <2>3. QED
      BY <1>4, <2>1, <2>2 DEF User
  <1>5. CASE BeginStop \/ BeginStart \/ InReader
    <2>1. (R!Start \/ R!Stop) /\ UNCHANGED <<arrived, deviceVars>>
      BY <1>5 DEF BeginStop, BeginStart, InReader, R!Start, R!Stop
    <2>2. QED
      BY <1>1, <2>1, OwnerKeepsQueue DEF deviceVars, Move, Kept
  <1>6. CASE Send \/ GiveUp \/ Assign \/ ClosePort
    BY <1>3, <1>6 DEF Send, GiveUp, Assign, ClosePort, deviceVars
  <1>7. CASE Receive
    <2>1. PICK n \in 1 .. Len(line) : line' = SubSeq(line, n + 1, Len(line))
      BY <1>7, Zenon DEF Receive
    <2>2. n \in 0 .. Len(line)
      BY <1>1
    <2>3. UNCHANGED <<acc, rpc, buffer, batch, arrived, dispatched>>
      BY <1>7 DEF Receive, deviceVars
    <2>4. QED
      BY <2>1, <2>2, <2>3 DEF Move, Drop
  <1>8. CASE Dispatch \/ DispatchFails
    <2>1. UNCHANGED readerVars /\ UNCHANGED <<buffer, arrived>>
      BY <1>8 DEF Dispatch, DispatchFails
    <2>2. \/ UNCHANGED <<batch, dispatched>>
          \/ /\ batch # <<>> /\ batch' = Tail(batch)
             /\ dispatched' = Append(dispatched, Nr(Head(batch)))
          \/ batch' = <<>> /\ dispatched' = dispatched
      BY <1>8 DEF Dispatch, DispatchFails, Nr
    <2>3. 0 \in 0 .. Len(line) /\ line = SubSeq(line, 0 + 1, Len(line))
      BY <1>1
    <2>4. QED
      BY <1>3, <2>1, <2>2, <2>3 DEF readerVars, Move, Deliver, Drop
  <1>9. ASSUME NEW t \in R!Threads, Reader(t) PROVE Move
    <2>1. CASE OnMessage(t)
      <3>1. /\ acc[t] # <<>> /\ rpc[t] = "drain"
            /\ acc' = [acc EXCEPT ![t] = Tail(@)]
            /\ UNCHANGED <<rpc, line, batch, arrived, dispatched>>
        BY <2>1 DEF OnMessage, R!NextMessage
      <3>2. Len(buffer) = BufferSize => buffer # <<>>
        BY <1>1
      <3>3. Keep(t)
        BY <2>1, <3>1, <3>2 DEF OnMessage, Keep
      <3>4. QED
        BY <3>3 DEF Move
    <2>2. CASE R!Read(t) /\ ReaderAlone(t)
      BY <1>2, <2>2 DEF R!Read, R!Step, ReaderAlone, deviceVars, Move, Drain
    <2>3. CASE OnReaderError(t)
      BY <1>1, <1>2, <2>3 DEF OnReaderError, R!EndAfterFault, R!Step, ReaderTyped,
                        Move, Kept
    <2>4. CASE ReaderAlone(t) /\ ~R!Read(t)
      <3> USE DEF ReaderTyped, R!Step
      <3>1. /\ UNCHANGED <<acc, line>>
            /\ \A u \in R!Threads : acc[u] # <<>> => rpc'[u] = "drain"
        BY <1>1, <1>2, <2>4 DEF ReaderAlone, R!ReaderAlone, R!TestEvent,
           R!ReadFails, R!Drained, R!SetFaulted, R!FaultSetsEvent
      <3>2. QED
        BY <2>4, <3>1 DEF ReaderAlone, deviceVars, Move, Kept
    <2>5. QED
      BY <1>9, <2>1, <2>2, <2>3, <2>4 DEF Reader
  <1>10. CASE Stream
    <2>1. Come
      BY <1>1, <1>10, EmitComes DEF Stream, Mids
    <2>2. QED
      BY <2>1 DEF Move
  <1>11. CASE Answer
    <2>1. Head(wire) \in Requests
      BY <1>1, <1>11 DEF Answer
    <2>2. \E mid \in Mids : Emit(mid)
      BY <1>11, <2>1 DEF Answer, Mids
    <2>3. QED
      BY <1>1, <2>2, EmitComes DEF Move
  <1>12. CASE Overlook \/ UNCHANGED vars
    BY <1>3, <1>12 DEF Overlook, vars, deviceVars
  <1>13. QED
    BY <1>4, <1>5, <1>6, <1>7, <1>8, <1>9, <1>10, <1>11, <1>12
       DEF Next, InCall, Sensor

LEMMA QueueNext ==
  TypeInv /\ TypeInv' /\ Exclusion /\ QueueInv /\ [Next]_vars => QueueInv'
  <1> SUFFICES ASSUME TypeInv, TypeInv', Exclusion, QueueInv, [Next]_vars
               PROVE  QueueInv'
    OBVIOUS
  <1> DEFINE A == Numbers(batch)
             B == Numbers(buffer)
             L == Numbers(line)
  <1>1. Move
    BY StepMoves
  <1>2. /\ batch \in Seq(Messages) /\ buffer \in Seq(Messages)
        /\ line \in Seq(Messages) /\ acc \in [R!Threads -> Seq(Messages)]
        /\ rpc \in [R!Threads -> R!ReaderPCs]
        /\ Ordered(batch) /\ Ordered(buffer) /\ Ordered(line)
        /\ \A t \in R!Threads : Ordered(acc[t])
        /\ A \in SUBSET Nat /\ B \in SUBSET Nat
        /\ L \in SUBSET Nat /\ Held \in SUBSET Nat
        /\ InLine(A, B, Held, L)
        /\ arrived \in Nat
        /\ \A k \in All(A, B, Held, L) : k <= arrived
    BY QueueFacts
  <1>3. \A t \in R!Threads : acc[t] # <<>> => rpc[t] = "drain"
    BY DEF QueueInv
  <1> HIDE DEF A, B, L
  <1>4. ASSUME /\ \A t \in R!Threads : acc'[t] # <<>> => rpc'[t] = "drain"
               /\ \A t \in R!Threads : Ordered(acc'[t])
               /\ Ordered(batch') /\ Ordered(buffer') /\ Ordered(line')
               /\ InLine(A', B', Held', L')
               /\ \A k \in All(A', B', Held', L') : k <= arrived'
        PROVE  QueueInv'
    BY <1>4 DEF QueueInv, All, A, B, L
  <1>5. acc' = acc => Held' = Held
    BY DEF Held
  <1>6. CASE Kept /\ \A t \in R!Threads : acc[t] # <<>> => rpc'[t] = "drain"
    <2>1. A' = A /\ B' = B /\ L' = L /\ Held' = Held
      BY <1>5, <1>6 DEF Kept, A, B, L
    <2>2. QED
      BY <1>2, <1>4, <1>6, <2>1 DEF Kept
  <1>7. ASSUME NEW t \in R!Threads, Drain(t) PROVE QueueInv'
    <2>1. PICK n \in 0 .. Len(line) :
             /\ acc' = [acc EXCEPT ![t] = SubSeq(line, 1, n)]
             /\ line' = SubSeq(line, n + 1, Len(line))
      BY <1>7 DEF Drain
    <2>2. /\ acc[t] = <<>> /\ rpc[t] = "read"
          /\ rpc' = [rpc EXCEPT ![t] = "drain"]
          /\ UNCHANGED <<buffer, batch, arrived>>
      BY <1>7 DEF Drain
    <2>3. /\ Held = {} /\ \A u \in R!Threads : acc[u] = <<>>
      BY <2>2, HeldIs, NoNumbers
    <2>4. /\ acc'[t] = SubSeq(line, 1, n)
          /\ \A u \in R!Threads : u # t => acc'[u] = <<>>
      BY <1>2, <2>1, <2>3
    <2>5. Held' = Numbers(acc'[t])
      BY <2>4, NoNumbers DEF Held
    <2>6. /\ Ordered(acc'[t]) /\ Ordered(line')
          /\ L = Held' \cup L' /\ Less(Held', L')
      BY <1>2, <2>1, <2>4, <2>5, NumbersSplit DEF L
    <2>7. A' = A /\ B' = B
      BY <2>2 DEF A, B
    <2>8. InLine(A', B', Held', L')
      BY <1>2, <2>3, <2>6, <2>7 DEF InLine, Less
    <2>9. \A k \in All(A', B', Held', L') : k <= arrived'
      BY <1>2, <2>2, <2>6, <2>7 DEF All
    <2>10. /\ \A u \in R!Threads : Ordered(acc'[u])
           /\ \A u \in R!Threads : acc'[u] # <<>> => rpc'[u] = "drain"
      BY <1>2, <2>2, <2>4, <2>6, NoNumbers
    <2>11. Ordered(batch') /\ Ordered(buffer')
      BY <1>2, <2>2
    <2>12. QED
      BY <1>4, <2>6, <2>8, <2>9, <2>10, <2>11
  <1>8. ASSUME NEW t \in R!Threads, Keep(t) PROVE QueueInv'
    <2> DEFINE m == Nr(Head(acc[t]))
    <2>1. /\ acc[t] # <<>> /\ rpc[t] = "drain" /\ rpc' = rpc
          /\ acc'[t] = Tail(acc[t])
          /\ \A u \in R!Threads : u # t => acc'[u] = acc[u]
          /\ UNCHANGED <<line, batch, arrived>>
      BY <1>2, <1>8 DEF Keep
    <2>2. /\ \A u \in R!Threads : u # t => acc[u] = <<>>
          /\ Held = Numbers(acc[t])
      BY <2>1, HeldIs
    <2>3. Held' = Numbers(acc'[t])
      BY <2>1, <2>2, NoNumbers DEF Held
    <2>4. acc[t] \in Seq(Messages) /\ Ordered(acc[t])
      BY <1>2
    <2>5. /\ Head(acc[t]) \in Messages /\ m \in Nat /\ Ordered(acc'[t])
          /\ Held = {m} \cup Held' /\ Less({m}, Held')
      BY <2>1, <2>2, <2>3, <2>4, NumbersTail, MessageNr
    <2>6. PICK b \in Seq(Messages) :
             /\ Ordered(b) /\ Numbers(b) \subseteq B
             /\ buffer' = Append(b, Head(acc[t]))
      <3>1. CASE buffer' = Append(buffer, Head(acc[t]))
        BY <1>2, <3>1 DEF B
      <3>2. CASE buffer # <<>> /\ buffer' = Append(Tail(buffer), Head(acc[t]))
        <4>1. /\ Tail(buffer) \in Seq(Messages) /\ Ordered(Tail(buffer))
              /\ Numbers(Tail(buffer)) \subseteq B
          BY <1>2, <3>2, NumbersTail DEF B
        <4>2. QED
          BY <3>2, <4>1
      <3>3. QED
        BY <1>8, <3>1, <3>2 DEF Keep
    <2>7. Less(Numbers(b), {m})
      BY <1>2, <2>5, <2>6 DEF InLine, Less
    <2>8. Ordered(buffer') /\ B' = Numbers(b) \cup {m}
      BY <2>5, <2>6, <2>7, NumbersAppend DEF B
    <2>9. A' = A /\ L' = L
      BY <2>1 DEF A, L
    <2> HIDE DEF m
    <2>10. InLine(A', B', Held', L')
      BY <1>2, <2>5, <2>6, <2>8, <2>9 DEF InLine, Less
    <2>11. \A k \in All(A', B', Held', L') : k <= arrived'
      BY <1>2, <2>1, <2>5, <2>6, <2>8, <2>9 DEF All
    <2>12. /\ \A u \in R!Threads : Ordered(acc'[u])
           /\ \A u \in R!Threads : acc'[u] # <<>> => rpc'[u] = "drain"
      BY <1>2, <2>1, <2>2, <2>5
    <2>13. Ordered(batch') /\ Ordered(line')
      BY <1>2, <2>1
    <2>14. QED
      BY <1>4, <2>8, <2>10, <2>11, <2>12, <2>13
  <1>9. CASE Take
    <2>1. /\ batch' = buffer \/ batch' = <<>>
          /\ buffer' = <<>> /\ UNCHANGED <<acc, rpc, line, arrived>>
      BY <1>9 DEF Take
    <2>2. /\ A' \subseteq B /\ B' = {} /\ Held' = Held /\ L' = L
          /\ Ordered(batch') /\ Ordered(buffer')
      BY <1>2, <1>5, <2>1, NoNumbers DEF A, B, L
    <2>3. InLine(A', B', Held', L')
      BY <1>2, <2>2 DEF InLine, Less
    <2>4. \A k \in All(A', B', Held', L') : k <= arrived'
      BY <1>2, <2>1, <2>2 DEF All
    <2>5. QED
      BY <1>2, <1>3, <1>4, <2>1, <2>2, <2>3, <2>4
  <1>10. CASE Deliver \/ Drop
    <2>1. /\ Ordered(batch') /\ A' \subseteq A
          /\ Ordered(line') /\ L' \subseteq L
          /\ UNCHANGED <<acc, rpc, buffer, arrived>>
      <3>1. CASE Deliver
        BY <1>2, <3>1, NumbersTail DEF Deliver, A, L
      <3>2. CASE Drop
        <4>1. Ordered(line') /\ L' \subseteq L
          BY <1>2, <3>2, NumbersSplit DEF Drop, L
        <4>2. QED
          BY <1>2, <3>2, <4>1, NoNumbers DEF Drop, A
      <3>3. QED
        BY <1>10, <3>1, <3>2
    <2>2. Held' = Held /\ B' = B
      BY <1>5, <2>1 DEF B
    <2>3. InLine(A', B', Held', L')
      BY <1>2, <2>1, <2>2 DEF InLine, Less
    <2>4. \A k \in All(A', B', Held', L') : k <= arrived'
      BY <1>2, <2>1, <2>2 DEF All
    <2>5. QED
      BY <1>2, <1>3, <1>4, <2>1, <2>3, <2>4
  <1>11. CASE Come
    <2>1. PICK m \in Messages : Nr(m) = arrived' /\ line' = Append(line, m)
      BY <1>11 DEF Come
    <2>2. arrived' = arrived + 1 /\ UNCHANGED <<acc, rpc, buffer, batch>>
      BY <1>11 DEF Come
    <2>3. A' = A /\ B' = B /\ Held' = Held
      BY <1>5, <2>2 DEF A, B
    <2>4. Less(A \cup B \cup Held, {arrived + 1}) /\ Less(L, {arrived + 1})
      BY <1>2 DEF Less, All
    <2>5. Ordered(line') /\ L' = L \cup {arrived + 1}
      BY <1>2, <2>1, <2>2, <2>4, NumbersAppend DEF L
    <2>6. InLine(A', B', Held', L')
      BY <1>2, <2>3, <2>4, <2>5 DEF InLine, Less
    <2>7. \A k \in All(A', B', Held', L') : k <= arrived'
      BY <1>2, <2>2, <2>3, <2>5 DEF All
    <2>8. QED
      BY <1>2, <1>3, <1>4, <2>2, <2>5, <2>6, <2>7
  <1>12. QED
    BY <1>1, <1>6, <1>7, <1>8, <1>9, <1>10, <1>11 DEF Move

\* What may still be delivered is all of the queue.
Queued == All(Numbers(batch), Numbers(buffer), Held, Numbers(line))

LEMMA PendingIs == QueueInv => Pending = Queued
  <1> SUFFICES ASSUME QueueInv PROVE Pending = Queued
    OBVIOUS
  <1>1. ASSUME NEW t \in R!Threads, t \notin R!Reading PROVE Numbers(acc[t]) = {}
    <2>1. acc[t] = <<>>
      BY <1>1 DEF QueueInv, R!Reading
    <2>2. QED
      BY <2>1, NoNumbers
  <1>2. R!Reading \subseteq R!Threads
    BY DEF R!Reading
  <1>3. UNION {Numbers(acc[t]) : t \in R!Reading} = Held
    BY <1>1, <1>2 DEF Held
  <1>4. QED
    BY <1>3 DEF Pending, Queued, All

LEMMA PendingIsNext == QueueInv' => Pending' = Queued'
  <1>1. (QueueInv => Pending = Queued)'
    BY PendingIs, PTL
  <1>2. QED
    BY <1>1

Simulates == \/ UNCHANGED <<arrived, Pending, dispatched>>
             \/ Promise!Arrive \/ Promise!Deliver \/ Promise!Lose

DeliveryInv == TypeInv /\ Exclusion /\ QueueInv

LEMMA RefinementInit == Init => DeliveryInv /\ Promise!Init
  <1> SUFFICES ASSUME Init PROVE DeliveryInv /\ Promise!Init
    OBVIOUS
  <1>1. DeliveryInv
    BY TypeInit, ExclusionInit, QueueInit DEF DeliveryInv
  <1>2. /\ \A t \in R!Threads : acc[t] = <<>>
        /\ batch = <<>> /\ buffer = <<>> /\ line = <<>>
    BY DEF Init, R!Init
  <1>3. Pending = {}
    BY <1>1, <1>2, NoNumbers, PendingIs DEF DeliveryInv, Queued, All, Held
  <1>4. QED
    BY <1>1, <1>3 DEF Promise!Init, Init, R!Init

\* Every move of the messages is a step of the promise.
LEMMA MoveSimulates ==
  ASSUME DeliveryInv, DeliveryInv', Move
  PROVE  Simulates
  <1> DEFINE A == Numbers(batch)
             B == Numbers(buffer)
             L == Numbers(line)
  <1>1. /\ batch \in Seq(Messages) /\ buffer \in Seq(Messages)
        /\ line \in Seq(Messages) /\ acc \in [R!Threads -> Seq(Messages)]
        /\ rpc \in [R!Threads -> R!ReaderPCs]
        /\ Ordered(batch) /\ Ordered(buffer) /\ Ordered(line)
        /\ \A t \in R!Threads : Ordered(acc[t])
        /\ A \in SUBSET Nat /\ B \in SUBSET Nat
        /\ L \in SUBSET Nat /\ Held \in SUBSET Nat
        /\ InLine(A, B, Held, L)
        /\ arrived \in Nat
        /\ \A k \in All(A, B, Held, L) : k <= arrived
    BY QueueFacts DEF DeliveryInv
  <1>2. /\ Pending = A \cup B \cup Held \cup L
        /\ Pending' = A' \cup B' \cup Held' \cup L'
    BY PendingIs, PendingIsNext DEF DeliveryInv, Queued, All
  <1> HIDE DEF A, B, L
  <1>3. acc' = acc => Held' = Held
    BY DEF Held
  <1>4. ASSUME UNCHANGED <<arrived, dispatched>>, Pending' \subseteq Pending
        PROVE  Simulates
    BY <1>4 DEF Simulates, Promise!Lose
  <1>5. CASE Kept
    <2>1. A' = A /\ B' = B /\ L' = L /\ Held' = Held
      BY <1>3, <1>5 DEF Kept, A, B, L
    <2>2. QED
      BY <1>2, <1>4, <1>5, <2>1 DEF Kept
  <1>6. ASSUME NEW t \in R!Threads, Drain(t) PROVE Simulates
    <2>1. PICK n \in 0 .. Len(line) :
             /\ acc' = [acc EXCEPT ![t] = SubSeq(line, 1, n)]
             /\ line' = SubSeq(line, n + 1, Len(line))
      BY <1>6 DEF Drain
    <2>2. /\ acc[t] = <<>> /\ rpc[t] = "read"
          /\ UNCHANGED <<buffer, batch, arrived, dispatched>>
      BY <1>6 DEF Drain
    <2>3. \A u \in R!Threads : acc[u] = <<>>
      BY <2>2, HeldIs DEF DeliveryInv
    <2>4. /\ acc'[t] = SubSeq(line, 1, n)
          /\ \A u \in R!Threads : u # t => acc'[u] = <<>>
      BY <1>1, <2>1, <2>3
    <2>5. Held' = Numbers(acc'[t])
      BY <2>4, NoNumbers DEF Held
    <2>6. L = Held' \cup L'
      BY <1>1, <2>1, <2>4, <2>5, NumbersSplit DEF L
    <2>7. A' = A /\ B' = B
      BY <2>2 DEF A, B
    <2>8. QED
      BY <1>2, <1>4, <2>2, <2>6, <2>7
  <1>7. ASSUME NEW t \in R!Threads, Keep(t) PROVE Simulates
    <2> DEFINE m == Nr(Head(acc[t]))
    <2>1. /\ acc[t] # <<>> /\ rpc[t] = "drain"
          /\ acc'[t] = Tail(acc[t])
          /\ \A u \in R!Threads : u # t => acc'[u] = acc[u]
          /\ UNCHANGED <<line, batch, arrived, dispatched>>
      BY <1>1, <1>7 DEF Keep
    <2>2. /\ \A u \in R!Threads : u # t => acc[u] = <<>>
          /\ Held = Numbers(acc[t])
      BY <2>1, HeldIs DEF DeliveryInv
    <2>3. Held' = Numbers(acc'[t])
      BY <2>1, <2>2, NoNumbers DEF Held
    <2>4. acc[t] \in Seq(Messages) /\ Ordered(acc[t])
      BY <1>1
    <2>5. /\ Head(acc[t]) \in Messages /\ m \in Nat
          /\ Held = {m} \cup Held'
      BY <2>1, <2>2, <2>3, <2>4, NumbersTail, MessageNr
    <2>6. PICK b \in Seq(Messages) :
             /\ Ordered(b) /\ Numbers(b) \subseteq B
             /\ buffer' = Append(b, Head(acc[t]))
      <3>1. CASE buffer' = Append(buffer, Head(acc[t]))
        BY <1>1, <3>1 DEF B
      <3>2. CASE buffer # <<>> /\ buffer' = Append(Tail(buffer), Head(acc[t]))
        <4>1. /\ Tail(buffer) \in Seq(Messages) /\ Ordered(Tail(buffer))
              /\ Numbers(Tail(buffer)) \subseteq B
          BY <1>1, <3>2, NumbersTail DEF B
        <4>2. QED
          BY <3>2, <4>1
      <3>3. QED
        BY <1>7, <3>1, <3>2 DEF Keep
    <2>7. Less(Numbers(b), {m})
      BY <1>1, <2>5, <2>6 DEF InLine, Less
    <2>8. B' = Numbers(b) \cup {m}
      BY <2>5, <2>6, <2>7, NumbersAppend DEF B
    <2>9. A' = A /\ L' = L
      BY <2>1 DEF A, L
    <2> HIDE DEF m
    <2>10. QED
      BY <1>2, <1>4, <2>1, <2>5, <2>6, <2>8, <2>9
  <1>8. CASE Take
    <2>1. A' \subseteq B /\ B' = {} /\ Held' = Held /\ L' = L
      BY <1>3, <1>8, NoNumbers DEF Take, A, B, L
    <2>2. QED
      BY <1>2, <1>4, <1>8, <2>1 DEF Take
  <1>9. CASE Deliver
    <2> DEFINE m == Nr(Head(batch))
    <2>1. /\ batch # <<>> /\ batch' = Tail(batch)
          /\ dispatched' = Append(dispatched, m)
          /\ UNCHANGED <<acc, line, buffer, arrived>>
      BY <1>9 DEF Deliver
    <2>2. /\ m \in Nat /\ A = {m} \cup A' /\ Less({m}, A')
      BY <1>1, <2>1, NumbersTail, MessageNr DEF A
    <2>3. Held' = Held /\ B' = B /\ L' = L
      BY <1>3, <2>1 DEF B, L
    <2> HIDE DEF m
    <2>4. Less({m}, A' \cup B \cup Held \cup L)
      BY <1>1, <2>2 DEF InLine, Less
    <2>5. \A k \in A' \cup B \cup Held \cup L : k \in Nat
      BY <1>1, <2>2
    <2>6. \A k \in A' \cup B \cup Held \cup L : m <= k /\ m # k
      BY <2>2, <2>4, <2>5 DEF Less
    <2>7. Pending = {m} \cup Pending' /\ m \notin Pending'
      BY <1>2, <2>2, <2>3, <2>6
    <2>8. \A k \in Pending : m <= k
      BY <1>2, <2>2, <2>3, <2>6
    <2>9. Promise!Deliver
      BY <2>1, <2>7, <2>8 DEF Promise!Deliver
    <2>10. QED
      BY <2>9 DEF Simulates
  <1>10. CASE Drop
    <2>1. L' \subseteq L
      BY <1>1, <1>10, NumbersSplit DEF Drop, L
    <2>2. A' \subseteq A /\ B' = B /\ Held' = Held
      BY <1>3, <1>10, NoNumbers DEF Drop, A, B
    <2>3. QED
      BY <1>2, <1>4, <1>10, <2>1, <2>2 DEF Drop
  <1>11. CASE Come
    <2>1. PICK m \in Messages : Nr(m) = arrived' /\ line' = Append(line, m)
      BY <1>11 DEF Come
    <2>2. arrived' = arrived + 1 /\ UNCHANGED <<acc, buffer, batch, dispatched>>
      BY <1>11 DEF Come
    <2>3. A' = A /\ B' = B /\ Held' = Held
      BY <1>3, <2>2 DEF A, B
    <2>4. Less(L, {arrived + 1})
      BY <1>1 DEF Less, All
    <2>5. L' = L \cup {arrived + 1}
      BY <1>1, <2>1, <2>2, <2>4, NumbersAppend DEF L
    <2>6. Promise!Arrive
      BY <1>2, <2>2, <2>3, <2>5 DEF Promise!Arrive
    <2>7. QED
      BY <2>6 DEF Simulates
  <1>12. QED
    BY <1>5, <1>6, <1>7, <1>8, <1>9, <1>10, <1>11 DEF Move

\* Every behaviour of the device is one of OrderedDelivery: whatever calls are
\* made, the callback receives the messages in the order of their arrival and
\* none of them twice.
THEOREM DeviceKeepsThePromise ==
  ASSUME JoinMayExpire = FALSE
  PROVE  Spec => ImplementsOrderedDelivery
  <1>1. DeliveryInv /\ [Next]_vars => DeliveryInv'
    BY TypeNext, ExclusionNext, QueueNext DEF DeliveryInv
  <1>2. DeliveryInv /\ DeliveryInv' /\ [Next]_vars
          => [Promise!Next]_(Promise!vars)
    BY StepMoves, MoveSimulates
       DEF DeliveryInv, Simulates, Promise!Next, Promise!vars
  <1>3. QED
    BY <1>1, <1>2, RefinementInit, PTL
       DEF Spec, ImplementsOrderedDelivery, Promise!Spec


----------------------------------------------------------------------------
\* What the promise is worth: whoever keeps it delivers in order.

\* What was delivered is in order, and older than what may still be.
OrderKept(a, p, d) ==
  /\ a \in Nat /\ p \subseteq 1 .. a /\ d \in Seq(1 .. a)
  /\ \A i, j \in 1 .. Len(d) : i < j => d[i] < d[j]
  /\ \A i \in 1 .. Len(d) : \A m \in p : d[i] < m

LEMMA OrderAtArrival ==
  ASSUME NEW a, NEW p, NEW d, OrderKept(a, p, d)
  PROVE  OrderKept(a + 1, p \cup {a + 1}, d)
  <1>1. \A s : s \in Seq(1 .. a) => s \in Seq(1 .. (a + 1))
    BY DEF OrderKept
  <1>2. \A i \in 1 .. Len(d) : d[i] \in 1 .. a
    BY DEF OrderKept
  <1>3. QED
    BY <1>1, <1>2 DEF OrderKept

LEMMA OrderAtDelivery ==
  ASSUME NEW a, NEW p, NEW d, OrderKept(a, p, d),
         NEW m \in p, \A k \in p : m <= k
  PROVE  OrderKept(a, p \ {m}, Append(d, m))
  <1> DEFINE e == Append(d, m)
  <1>1. /\ e \in Seq(1 .. a)
        /\ Len(e) = Len(d) + 1
        /\ \A i \in 1 .. Len(d) : e[i] = d[i]
        /\ e[Len(d) + 1] = m
        /\ Len(d) \in Nat
    BY DEF OrderKept
  <1> HIDE DEF e
  <1>2. \A i, j \in 1 .. Len(e) : i < j => e[i] < e[j]
    <2> SUFFICES ASSUME NEW i \in 1 .. Len(e), NEW j \in 1 .. Len(e), i < j
                 PROVE  e[i] < e[j]
      OBVIOUS
    <2>1. i \in 1 .. Len(d) /\ (j \in 1 .. Len(d) \/ j = Len(d) + 1)
      BY <1>1
    <2>2. QED
      BY <1>1, <2>1 DEF OrderKept
  <1>3. \A i \in 1 .. Len(e) : \A k \in p \ {m} : e[i] < k
    <2> SUFFICES ASSUME NEW i \in 1 .. Len(e), NEW k \in p \ {m} PROVE e[i] < k
      OBVIOUS
    <2>1. k \in Nat /\ m \in Nat /\ m < k
      BY DEF OrderKept
    <2>2. i \in 1 .. Len(d) \/ i = Len(d) + 1
      BY <1>1
    <2>3. QED
      BY <1>1, <2>1, <2>2 DEF OrderKept
  <1>4. OrderKept(a, p \ {m}, e)
    BY <1>1, <1>2, <1>3 DEF OrderKept
  <1>5. QED
    BY <1>4 DEF e

LEMMA OrderAtLoss ==
  ASSUME NEW a, NEW p, NEW d, OrderKept(a, p, d), NEW q \in SUBSET p
  PROVE  OrderKept(a, q, d)
  BY DEF OrderKept

\* The callback of a device receives the messages in the order of their
\* arrival, and none of them twice.
THEOREM InOrderAlways ==
  ASSUME JoinMayExpire = FALSE
  PROVE  Spec => []Promise!InOrder
  <1> DEFINE InLineSoFar == OrderKept(arrived, Pending, dispatched)
  <1>1. Promise!Init => InLineSoFar
    BY DEF Promise!Init, OrderKept
  <1>2. InLineSoFar /\ [Promise!Next]_(Promise!vars) => InLineSoFar'
    <2> SUFFICES ASSUME InLineSoFar, [Promise!Next]_(Promise!vars) PROVE InLineSoFar'
      OBVIOUS
    <2>1. CASE Promise!Arrive
      BY <2>1, OrderAtArrival DEF Promise!Arrive
    <2>2. CASE Promise!Deliver
      BY <2>2, OrderAtDelivery DEF Promise!Deliver
    <2>3. CASE Promise!Lose
      BY <2>3, OrderAtLoss DEF Promise!Lose
    <2>4. CASE UNCHANGED Promise!vars
      BY <2>4 DEF Promise!vars
    <2>5. QED
      BY <2>1, <2>2, <2>3, <2>4 DEF Promise!Next
  <1>3. InLineSoFar => Promise!InOrder
    BY DEF OrderKept, Promise!InOrder
  <1>4. QED
    BY <1>1, <1>2, <1>3, DeviceKeepsThePromise, PTL
       DEF ImplementsOrderedDelivery, Promise!Spec

=============================================================================
