------------------------------ MODULE MtiDevice ------------------------------
(***************************************************************************)
(* MtiDevice over MtiDeviceCommunicator (device/device.py, communicator.py)*)
(* with their reader thread (StreamReader), and the sensor at the other    *)
(* end of the serial line.                                                 *)
(*                                                                         *)
(* One user thread makes the calls.  The body of a call is the sequence of *)
(* steps it has still to take, todo; an exception empties it.  The reader  *)
(* threads run between any two steps.  What differs between the commands   *)
(* that only exchange a request for an answer (set_output_config,          *)
(* request_options, ...) is their payload: they are one call here,         *)
(* "command".                                                              *)
(***************************************************************************)
EXTENDS Naturals, Sequences, Functions, FiniteSetsExt

CONSTANTS
  BufferSize,     \* buffer_size, the maxlen of the deque
  MaxStarts,      \* bound: reader threads ever created
  MaxArrivals,    \* bound: messages on the port after which nothing is streamed
  MaxCalls,       \* bound: calls that exchange messages with the sensor
  JoinMayExpire,  \* can the join of the reader thread give up?
  Remeasure,      \* may goto_measurement be called while measuring?
  Unreliable      \* may a request go unheard, or be answered too late?

ASSUME DeviceAssumption == /\ BufferSize \in Nat \ {0}
                           /\ MaxStarts \in Nat
                           /\ MaxArrivals \in Nat
                           /\ MaxCalls \in Nat
                           /\ JoinMayExpire \in BOOLEAN
                           /\ Remeasure \in BOOLEAN
                           /\ Unreliable \in BOOLEAN

VARIABLES
  state, stopEvent, thread, pc, rpc, acc, started, line,  \* of StreamReader
  arrived,     \* messages that have reached the port
  tracked,     \* self._state_value of the device
  listening,   \* is a message callback registered?
  buffer,      \* self._buffer
  batch,       \* what update() took from the buffer and has not dispatched
  dispatched,  \* the messages the callback received
  todo,        \* the steps left of the user's call
  calls,       \* calls made so far
  portOpen,    \* is the serial port open?
  wire,        \* requests on their way to the sensor
  mode         \* the state the sensor itself is in

readerVars == <<state, stopEvent, thread, pc, rpc, acc, started, line>>
deviceVars == <<tracked, listening, buffer, batch, dispatched>>
userVars   == <<todo, calls, portOpen>>
sensorVars == <<wire, mode>>
vars == <<readerVars, arrived, deviceVars, userVars, sensorVars>>

\* What the reader hands on, and its faults, are this module's to handle.
R == INSTANCE StreamReader WITH MaxMessages <- MaxArrivals,
                                delivered <- <<>>

Requests == {"GOTOCONFIG", "GOTOMEASUREMENT", "RESET",
             "RESTORE_FACTORY_DEFAULTS", "COMMAND"}
Mids     == Requests \cup {"MTDATA2", "ERROR"}  \* a request stands for its ACK
Messages == [n : Nat, mid : Mids]
Modes    == {"CONFIG", "MEASUREMENT"}
Calls    == {"goto_config", "goto_measurement", "reset",
             "restore_factory_defaults", "command", "close"}

Do(what, arg) == <<[do |-> what, arg |-> arg]>>

Init == /\ R!Init
        /\ tracked = "CONFIG"
        /\ listening = FALSE
        /\ buffer = <<>>
        /\ batch = <<>>
        /\ dispatched = <<>>
        /\ todo = <<>>
        /\ calls = 0
        /\ portOpen = TRUE
        /\ wire = <<>>
        /\ mode = "CONFIG"   \* the communicator's __init__ has seen to that

----------------------------------------------------------------------------
\* The bodies of the calls.

Exchange(mid) == Do("send", mid) \o Do("receive", mid)

\* Mutant of EnterConfig: the reader is left running.
EnterConfigOnly  == Exchange("GOTOCONFIG")

\* MtiDeviceCommunicator.goto_config, goto_measurement and close.
EnterConfig      == Do("stop", "") \o Exchange("GOTOCONFIG")

\* Mutant of EnterMeasurement: the reader is started before the request.
StartFirst       == Do("start", "") \o Exchange("GOTOMEASUREMENT")
EnterMeasurement == Exchange("GOTOMEASUREMENT") \o Do("start", "")

\* Mutant of CloseAll: the port is closed under the reader.
CloseOnly        == Do("close", "")
CloseAll         == Do("stop", "") \o Do("close", "")

LeaveMeasurement == IF tracked = "MEASUREMENT" THEN EnterConfig ELSE <<>>

Body(call) ==
  CASE call = "goto_config"      -> EnterConfig \o Do("assign", "CONFIG")
    [] call = "goto_measurement" -> EnterMeasurement \o Do("assign", "MEASUREMENT")
    [] call = "reset"            -> LeaveMeasurement \o Exchange("RESET")
                                      \o Do("assign", "CONFIG")
    [] call = "restore_factory_defaults" ->
                                    LeaveMeasurement
                                      \o Exchange("RESTORE_FACTORY_DEFAULTS")
                                      \o Do("assign", "CONFIG")
    [] call = "command"          -> Exchange("COMMAND")
    [] call = "close"            -> CloseAll

Idle == todo = <<>> /\ pc = "idle"

\* The user makes a call.  Its first look at the tracked state, in reset()
\* and restore_factory_defaults(), is part of this step.
Call(call) ==
  /\ Idle
  /\ calls < MaxCalls
  /\ call = "goto_measurement" => /\ started < MaxStarts
                                  /\ Remeasure \/ tracked = "CONFIG"
  /\ todo' = Body(call)
  /\ calls' = calls + 1
  /\ UNCHANGED <<readerVars, arrived, deviceVars, portOpen, sensorVars>>

\* The next step of the call is to do what.
Doing(what) == pc = "idle" /\ todo # <<>> /\ Head(todo).do = what

Done == todo' = Tail(todo)

\* The step raises: the rest of the call is not executed.
Raise == todo' = <<>>

Send ==
  /\ Doing("send")
  /\ IF portOpen
     THEN wire' = Append(wire, Head(todo).arg) /\ Done
     ELSE wire' = wire /\ Raise
  /\ UNCHANGED <<readerVars, arrived, deviceVars, calls, portOpen, mode>>

\* One pass of receive_message: it reads some of what waits on the port and
\* looks for the answer in it.  What comes behind the answer is lost with
\* the accumulator.
Receive ==
  /\ Doing("receive")
  /\ portOpen
  /\ \E n \in 1 .. Len(line) :
       LET Ends == {i \in 1 .. n : line[i].mid \in {Head(todo).arg, "ERROR"}}
       IN  /\ line' = SubSeq(line, n + 1, Len(line))
           /\ IF Ends = {} THEN UNCHANGED todo
              ELSE IF line[Min(Ends)].mid = "ERROR" THEN Raise
              ELSE Done
  /\ UNCHANGED <<state, stopEvent, thread, pc, rpc, acc, started, arrived,
                 deviceVars, calls, portOpen, sensorVars>>

\* Mutant of GiveUp: the deadline is looked at only when bytes have come.
GiveUpOnBytes ==
  /\ Unreliable
  /\ Doing("receive")
  /\ line # <<>>
  /\ Raise
  /\ UNCHANGED <<readerVars, arrived, deviceVars, calls, portOpen, sensorVars>>

\* The answer does not come in time, or the port fails.
GiveUp ==
  /\ Unreliable
  /\ Doing("receive")
  /\ Raise
  /\ UNCHANGED <<readerVars, arrived, deviceVars, calls, portOpen, sensorVars>>

BeginStop ==
  /\ Doing("stop")
  /\ R!BeginStop
  /\ Done
  /\ UNCHANGED <<arrived, deviceVars, calls, portOpen, sensorVars>>

BeginStart ==
  /\ Doing("start")
  /\ R!BeginStart
  /\ Done
  /\ UNCHANGED <<arrived, deviceVars, calls, portOpen, sensorVars>>

\* The steps inside the reader's start() and stop().
InReader ==
  /\ pc # "idle"
  /\ R!Start \/ R!Stop
  /\ UNCHANGED <<arrived, deviceVars, userVars, sensorVars>>

Assign ==
  /\ Doing("assign")
  /\ tracked' = Head(todo).arg
  /\ Done
  /\ UNCHANGED <<readerVars, arrived, listening, buffer, batch, dispatched,
                 calls, portOpen, sensorVars>>

ClosePort ==
  /\ Doing("close")
  /\ portOpen' = FALSE
  /\ Done
  /\ UNCHANGED <<readerVars, arrived, deviceVars, calls, sensorVars>>

----------------------------------------------------------------------------
\* The callback, and update(), which runs it on the user's thread.

SetOnMessage ==
  /\ Idle
  /\ listening' = ~listening
  /\ UNCHANGED <<readerVars, arrived, tracked, buffer, batch, dispatched,
                 userVars, sensorVars>>

\* Mutant of Update: the buffer is copied and not cleared.
UpdateKeeps ==
  /\ Idle
  /\ batch' = IF listening THEN buffer ELSE <<>>
  /\ todo' = Do("dispatch", "")
  /\ UNCHANGED <<readerVars, arrived, tracked, listening, buffer, dispatched,
                 calls, portOpen, sensorVars>>

\* Takes the whole buffer, and the registrations of that moment: without a
\* callback, what it took is dropped.
Update ==
  /\ Idle
  /\ buffer # <<>>
  /\ batch' = IF listening THEN buffer ELSE <<>>
  /\ buffer' = <<>>
  /\ todo' = Do("dispatch", "")
  /\ UNCHANGED <<readerVars, arrived, tracked, listening, dispatched, calls,
                 portOpen, sensorVars>>

Dispatch ==
  /\ Doing("dispatch")
  /\ IF batch = <<>>
     THEN Done /\ UNCHANGED <<batch, dispatched>>
     ELSE /\ dispatched' = Append(dispatched, Head(batch).n)
          /\ batch' = Tail(batch)
          /\ UNCHANGED todo
  /\ UNCHANGED <<readerVars, arrived, tracked, listening, buffer, calls,
                 portOpen, sensorVars>>

\* A callback, or the decoding of the message, raises out of update().
DispatchFails ==
  /\ Doing("dispatch")
  /\ batch # <<>>
  /\ batch' = <<>>
  /\ Raise
  /\ UNCHANGED <<readerVars, arrived, tracked, listening, buffer, dispatched,
                 calls, portOpen, sensorVars>>

----------------------------------------------------------------------------
\* The reader threads, with the two callbacks the device gave them.

\* Mutant of OnMessage: a buffer without maxlen.
OnMessageUnbounded(t) ==
  /\ R!NextMessage(t)
  /\ buffer' = Append(buffer, Head(acc[t]))
  /\ UNCHANGED <<arrived, tracked, listening, batch, dispatched, userVars,
                 sensorVars>>

\* _on_message: the deque drops its oldest message when it is full.
OnMessage(t) ==
  /\ R!NextMessage(t)
  /\ buffer' = Append(IF Len(buffer) = BufferSize THEN Tail(buffer) ELSE buffer,
                      Head(acc[t]))
  /\ UNCHANGED <<arrived, tracked, listening, batch, dispatched, userVars,
                 sensorVars>>

\* Mutant of OnReaderError: the fault does not reach the device.
IgnoreReaderError(t) ==
  /\ R!EndAfterFault(t)
  /\ UNCHANGED <<arrived, deviceVars, userVars, sensorVars>>

\* _on_reader_error.
OnReaderError(t) ==
  /\ R!EndAfterFault(t)
  /\ tracked' = "CONFIG"
  /\ UNCHANGED <<arrived, listening, buffer, batch, dispatched, userVars,
                 sensorVars>>

ReaderAlone(t) ==
  /\ R!ReaderAlone(t)
  /\ UNCHANGED <<arrived, deviceVars, userVars, sensorVars>>

Reader(t) == OnMessage(t) \/ OnReaderError(t) \/ ReaderAlone(t)

----------------------------------------------------------------------------
\* The sensor.

\* A message reaches the port.
Emit(mid) == /\ arrived' = arrived + 1
             /\ line' = Append(line, [n |-> arrived', mid |-> mid])
             /\ UNCHANGED <<state, stopEvent, thread, pc, rpc, acc, started,
                            deviceVars, userVars>>

\* While measuring it streams, at most until MaxArrivals messages have arrived.
Stream == /\ mode = "MEASUREMENT"
          /\ arrived < MaxArrivals
          /\ Emit("MTDATA2")
          /\ UNCHANGED sensorVars

\* It takes GOTOCONFIG, GOTOMEASUREMENT and RESET in either state, and
\* everything else in config state only.  After a reset it boots into
\* measurement state.
Answer == /\ wire # <<>>
          /\ wire' = Tail(wire)
          /\ LET mid == Head(wire)
             IN  CASE mid = "GOTOCONFIG" ->
                        mode' = "CONFIG" /\ Emit(mid)
                   [] mid \in {"GOTOMEASUREMENT", "RESET"} ->
                        mode' = "MEASUREMENT" /\ Emit(mid)
                   [] OTHER ->
                        /\ UNCHANGED mode
                        /\ Emit(IF mode = "CONFIG" THEN mid ELSE "ERROR")

\* The request is not heard: the sensor boots, or the line is bad.
Overlook == /\ Unreliable
            /\ wire # <<>>
            /\ wire' = Tail(wire)
            /\ UNCHANGED <<readerVars, arrived, deviceVars, userVars, mode>>

----------------------------------------------------------------------------
User == \/ \E call \in Calls : Call(call)
        \/ SetOnMessage
        \/ Update

\* A step of a call that has begun.
InCall == \/ Send \/ Receive \/ GiveUp \/ BeginStop \/ BeginStart \/ InReader
          \/ Assign \/ ClosePort \/ Dispatch \/ DispatchFails

Sensor == Stream \/ Answer \/ Overlook

Next == \/ User
        \/ InCall
        \/ \E t \in R!Threads : Reader(t)
        \/ Sensor

\* A call that has begun goes on: it waits for the sensor only until its
\* timeout.  Every reader thread is scheduled.
Fairness == /\ WF_vars(InCall /\ ~Receive)
            /\ \A t \in R!Threads : WF_vars(Reader(t))

Spec     == Init /\ [][Next]_vars
FairSpec == Spec /\ Fairness

----------------------------------------------------------------------------
TypeOK ==
  /\ state \in R!States
  /\ stopEvent \in BOOLEAN
  /\ thread \in R!Threads \cup {R!None}
  /\ pc \in R!OwnerPCs
  /\ rpc \in [R!Threads -> R!ReaderPCs]
  /\ acc \in [R!Threads -> Seq(Messages)]
  /\ started \in 0 .. MaxStarts
  /\ line \in Seq(Messages)
  /\ arrived \in Nat
  /\ tracked \in Modes
  /\ listening \in BOOLEAN
  /\ buffer \in Seq(Messages) /\ Len(buffer) <= BufferSize
  /\ batch \in Seq(Messages) /\ Len(batch) <= BufferSize
  /\ dispatched \in Seq(Nat)
  /\ calls \in 0 .. MaxCalls
  /\ portOpen \in BOOLEAN
  /\ wire \in Seq(Requests)
  /\ mode \in Modes

\* While a call waits for an answer and the device is tracked to be in config
\* state, or the call is one that leaves measurement first, no reader thread
\* competes for the answer: it cannot be swallowed.
AnswerIsMine ==
  /\ Doing("receive")
  /\ \/ tracked = "CONFIG"
     \/ Head(todo).arg \in {"GOTOCONFIG", "RESET", "RESTORE_FACTORY_DEFAULTS"}
  => R!Reading = {}

\* A closed port is not read.
ClosedIsQuiet == ~portOpen => R!Reading = {}

\* "Return True if the device is in measurement state" (is_measuring): between
\* two calls, a device whose stream is being read is tracked as measuring.
MeasuringIsTracked ==
  (Idle /\ mode = "MEASUREMENT" /\ R!Reading # {}) => tracked = "MEASUREMENT"

\* Every call returns or raises.
CallReturns == (todo # <<>>) ~> Idle

\* A fault that strikes when no call is under way is seen by the user: the
\* tracked state falls back to config, or the user makes another call.
FaultIsSeen ==
  (Idle /\ R!Faulting # {}) ~> (tracked = "CONFIG" \/ todo # <<>>)

\* "RestoreFactoryDefaults requires config mode; it cannot be sent while
\* streaming": the sensor is in config state whenever it is sent.
RestoreInConfigMode ==
  [][(Send /\ portOpen /\ Head(todo).arg = "RESTORE_FACTORY_DEFAULTS")
        => mode = "CONFIG"]_vars

\* From the port to the callback, messages stay in order and are delivered
\* at most once (OrderedDelivery).
Numbers(seq) == {seq[i].n : i \in DOMAIN seq}

Pending == Numbers(batch) \cup Numbers(buffer) \cup Numbers(line)
             \cup UNION {Numbers(acc[t]) : t \in R!Reading}

Promise == INSTANCE OrderedDelivery WITH pending <- Pending,
                                         delivered <- dispatched

ImplementsOrderedDelivery == Promise!Spec

=============================================================================
