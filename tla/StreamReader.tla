---------------------------- MODULE StreamReader ----------------------------
(***************************************************************************)
(* XbusStreamReader (device/xbus_reader.py): the background thread that    *)
(* reads a serial port and hands every Xbus message to a callback, and the *)
(* start() and stop() calls of the one thread that owns the reader.        *)
(*                                                                         *)
(* Every read or write of an attribute shared with the reader threads is a *)
(* step of its own: nothing in the class holds a lock.  A reader thread    *)
(* that start() created is identified by its number, 1, 2, ...; a later    *)
(* start() makes a new one.  Bytes are abstracted to whole messages, which *)
(* are numbered by arrival (the framing of bytes is not a concern of this  *)
(* class, which leaves it to drain_xbus_messages).                         *)
(***************************************************************************)
EXTENDS Naturals, Sequences, Functions

CONSTANTS
  MaxStarts,      \* bound: how many reader threads are ever created
  MaxMessages,    \* bound: how many messages arrive on the port
  JoinMayExpire   \* can join(timeout=2.0) give up before the thread ends?

ASSUME ReaderAssumption == /\ MaxStarts \in Nat
                           /\ MaxMessages \in Nat
                           /\ JoinMayExpire \in BOOLEAN

VARIABLES
  state,      \* self._state
  stopEvent,  \* is self._stop_event set?
  thread,     \* self._thread, the number of a reader thread or None
  pc,         \* where the owner is in start() or stop()
  rpc,        \* where each reader thread is in _loop()
  acc,        \* the messages each thread has drained and not handed on
  started,    \* how many reader threads were created
  line,       \* the messages waiting in the serial port
  arrived,    \* how many messages have arrived at the port
  delivered   \* the messages handed to on_message, oldest first

ownerVars  == <<thread, pc, started>>
sharedVars == <<state, stopEvent>>
threadVars == <<rpc, acc, line, delivered>>
vars == <<ownerVars, sharedVars, threadVars, arrived>>

None    == 0
Threads == 1 .. MaxStarts

States == {"IDLE", "RUNNING", "FAULTED"}

OwnerPCs == {"idle", "clear", "running", "create", "launch",
             "set", "join", "forget", "settle", "idling"}

\* Where a reader thread is: not created, created, evaluating the loop
\* condition, in read(256), handing on what it drained, in the exception
\* handler before each of its three statements, or ended.
ReaderPCs == {"unborn", "created", "loop", "read", "drain",
              "faulted", "flagged", "reporting", "ended"}

Init == /\ state = "IDLE"
        /\ stopEvent = FALSE
        /\ thread = None
        /\ pc = "idle"
        /\ rpc = [t \in Threads |-> "unborn"]
        /\ acc = [t \in Threads |-> <<>>]
        /\ started = 0
        /\ line = <<>>
        /\ arrived = 0
        /\ delivered = <<>>

GoTo(from, to)     == pc = from /\ pc' = to
Step(t, from, to)  == rpc[t] = from /\ rpc' = [rpc EXCEPT ![t] = to]

----------------------------------------------------------------------------
\* start().

\* Mutant of BeginStart: a running reader is started again.
StartAgain ==
  /\ started < MaxStarts
  /\ GoTo("idle", "clear")
  /\ UNCHANGED <<thread, started, sharedVars, threadVars>>

\* Returns at once if the state says that the reader is running.
BeginStart ==
  /\ started < MaxStarts
  /\ GoTo("idle", IF state = "RUNNING" THEN "idle" ELSE "clear")
  /\ UNCHANGED <<thread, started, sharedVars, threadVars>>

ClearEvent ==
  /\ GoTo("clear", "running")
  /\ stopEvent' = FALSE
  /\ UNCHANGED <<state, thread, started, threadVars>>

\* Mutant of SetRunning: the state is not updated.
ForgetRunning ==
  /\ GoTo("running", "create")
  /\ UNCHANGED <<thread, started, sharedVars, threadVars>>

SetRunning ==
  /\ GoTo("running", "create")
  /\ state' = "RUNNING"
  /\ UNCHANGED <<stopEvent, thread, started, threadVars>>

CreateThread ==
  /\ GoTo("create", "launch")
  /\ started' = started + 1
  /\ thread' = started'
  /\ rpc' = [rpc EXCEPT ![started'] = "created"]
  /\ UNCHANGED <<sharedVars, acc, line, delivered>>

LaunchThread ==
  /\ GoTo("launch", "idle")
  /\ rpc' = [rpc EXCEPT ![thread] = "loop"]
  /\ UNCHANGED <<thread, started, sharedVars, acc, line, delivered>>

Start == BeginStart \/ ClearEvent \/ SetRunning \/ CreateThread \/ LaunchThread

----------------------------------------------------------------------------
\* stop().

\* Returns at once if there is no thread.
BeginStop ==
  /\ GoTo("idle", IF thread = None THEN "idle" ELSE "set")
  /\ UNCHANGED <<thread, started, sharedVars, threadVars>>

SetEvent ==
  /\ GoTo("set", "join")
  /\ stopEvent' = TRUE
  /\ UNCHANGED <<state, thread, started, threadVars>>

\* Mutant of Join: stop() does not wait.
JoinNobody ==
  /\ GoTo("join", "forget")
  /\ UNCHANGED <<thread, started, sharedVars, threadVars>>

\* join(timeout=2.0) returns when the thread has ended, or when the time is
\* up; stop() cannot tell which.
Join ==
  /\ GoTo("join", "forget")
  /\ JoinMayExpire \/ rpc[thread] = "ended"
  /\ UNCHANGED <<thread, started, sharedVars, threadVars>>

ForgetThread ==
  /\ GoTo("forget", "settle")
  /\ thread' = None
  /\ UNCHANGED <<started, sharedVars, threadVars>>

ReadState ==
  /\ GoTo("settle", IF state = "RUNNING" THEN "idling" ELSE "idle")
  /\ UNCHANGED <<thread, started, sharedVars, threadVars>>

\* Mutant of SetIdle: a state that the enumeration does not have.
SetStopped ==
  /\ GoTo("idling", "idle")
  /\ state' = "STOPPED"
  /\ UNCHANGED <<stopEvent, thread, started, threadVars>>

SetIdle ==
  /\ GoTo("idling", "idle")
  /\ state' = "IDLE"
  /\ UNCHANGED <<stopEvent, thread, started, threadVars>>

Stop == BeginStop \/ SetEvent \/ Join \/ ForgetThread \/ ReadState \/ SetIdle

----------------------------------------------------------------------------
\* _loop() and _handle_error(), run by reader thread t.

\* while not self._stop_event.is_set()
TestEvent(t) ==
  /\ Step(t, "loop", IF stopEvent THEN "ended" ELSE "read")
  /\ UNCHANGED <<ownerVars, sharedVars, acc, line, delivered>>

\* read(256) returns what is waiting, in pieces of any size, or nothing when
\* its timeout passes; drain_xbus_messages takes the messages out of it.
Read(t) ==
  /\ Step(t, "read", "drain")
  /\ \E n \in 0 .. Len(line) :
        /\ acc' = [acc EXCEPT ![t] = SubSeq(line, 1, n)]
        /\ line' = SubSeq(line, n + 1, Len(line))
  /\ UNCHANGED <<ownerVars, sharedVars, delivered>>

\* read(256) raises a SerialException.
ReadFails(t) ==
  /\ Step(t, "read", "faulted")
  /\ UNCHANGED <<ownerVars, sharedVars, acc, line, delivered>>

\* Mutant of HandOver: the newest message goes first.
HandOverNewest(t) ==
  /\ rpc[t] = "drain"
  /\ acc[t] # <<>>
  /\ delivered' = Append(delivered, acc[t][Len(acc[t])])
  /\ acc' = [acc EXCEPT ![t] = SubSeq(@, 1, Len(@) - 1)]
  /\ UNCHANGED <<ownerVars, sharedVars, rpc, line>>

\* The next message is on its way to on_message.
NextMessage(t) ==
  /\ rpc[t] = "drain"
  /\ acc[t] # <<>>
  /\ acc' = [acc EXCEPT ![t] = Tail(@)]
  /\ UNCHANGED <<ownerVars, sharedVars, rpc, line>>

\* on_message(message) returns.
HandOver(t) ==
  /\ NextMessage(t)
  /\ delivered' = Append(delivered, Head(acc[t]))

\* on_message(message) raises: this message and those behind it are gone.
HandOverFails(t) ==
  /\ acc[t] # <<>>
  /\ Step(t, "drain", "faulted")
  /\ acc' = [acc EXCEPT ![t] = <<>>]
  /\ UNCHANGED <<ownerVars, sharedVars, line, delivered>>

\* The for loop is over: back to the condition.
Drained(t) ==
  /\ acc[t] = <<>>
  /\ Step(t, "drain", "loop")
  /\ UNCHANGED <<ownerVars, sharedVars, acc, line, delivered>>

SetFaulted(t) ==
  /\ Step(t, "faulted", "flagged")
  /\ state' = "FAULTED"
  /\ UNCHANGED <<ownerVars, stopEvent, acc, line, delivered>>

FaultSetsEvent(t) ==
  /\ Step(t, "flagged", "reporting")
  /\ stopEvent' = TRUE
  /\ UNCHANGED <<ownerVars, state, acc, line, delivered>>

\* The last statement of the handler: on_error is called, which does nothing to
\* the reader itself, and the thread ends.
EndAfterFault(t) ==
  /\ Step(t, "reporting", "ended")
  /\ UNCHANGED <<ownerVars, sharedVars, acc, line, delivered>>

\* The steps in which no callback takes part.
ReaderAlone(t) == \/ TestEvent(t)
                  \/ Read(t)
                  \/ ReadFails(t)
                  \/ Drained(t)
                  \/ SetFaulted(t)
                  \/ FaultSetsEvent(t)

Reader(t) == ReaderAlone(t) \/ HandOver(t) \/ HandOverFails(t) \/ EndAfterFault(t)

----------------------------------------------------------------------------
\* The device: one more message reaches the port.
Arrive ==
  /\ arrived < MaxMessages
  /\ arrived' = arrived + 1
  /\ line' = Append(line, arrived')
  /\ UNCHANGED <<ownerVars, sharedVars, rpc, acc, delivered>>

Next == \/ (Start \/ Stop) /\ UNCHANGED arrived
        \/ \E t \in Threads : Reader(t) /\ UNCHANGED arrived
        \/ Arrive

Spec == Init /\ [][Next]_vars

----------------------------------------------------------------------------
TypeOK ==
  /\ state \in States
  /\ stopEvent \in BOOLEAN
  /\ thread \in Threads \cup {None}
  /\ pc \in OwnerPCs
  /\ rpc \in [Threads -> ReaderPCs]
  /\ acc \in [Threads -> Seq(Nat)]
  /\ started \in 0 .. MaxStarts
  /\ line \in Seq(Nat)
  /\ arrived \in 0 .. MaxMessages
  /\ delivered \in Seq(Nat)

\* A thread in the while loop: it reads the port and calls on_message.
Reading == {t \in Threads : rpc[t] \in {"loop", "read", "drain"}}

\* A thread that has begun _handle_error and not finished it.
Faulting == {t \in Threads : rpc[t] \in {"faulted", "flagged", "reporting"}}

\* Two threads never read the port at once, whatever faults and restarts
\* there were: interleaved reads would tear every frame.
OneThreadReads == \A t, u \in Reading : t = u

\* While the owner is outside start() and stop() and the state is not
\* RUNNING, nobody reads the port: its owner can use it for commands.
PortIsFree == (pc = "idle" /\ state # "RUNNING") => Reading = {}

\* Once stop() has returned, no message is taken from the port or handed to
\* on_message until the next start().
QuietAfterStop ==
  [][(pc = "idle" /\ thread = None)
        => delivered' = delivered /\ Len(line') >= Len(line)]_vars

\* on_message sees the messages in the order in which they arrived, each at
\* most once: across restarts too.
InOrder == \A i, j \in 1 .. Len(delivered) :
              i < j => delivered[i] < delivered[j]

\* Whenever is_running() says so, some thread is there to read the port or
\* is on its way to (is_running: "Return True if the reader thread is
\* running").
RunningIsAlive ==
  (pc = "idle" /\ state = "RUNNING") => Reading \cup Faulting # {}

----------------------------------------------------------------------------
\* The reader implements OrderedDelivery: what may still be delivered is
\* what the threads have drained and what waits on the port.
Pending == Range(line) \cup UNION {Range(acc[t]) : t \in Reading}

Promise == INSTANCE OrderedDelivery WITH pending <- Pending

ImplementsOrderedDelivery == Promise!Spec

=============================================================================
