----------------------------- MODULE AsyncDevice -----------------------------
(***************************************************************************)
(* AsyncMtiDevice over AsyncMtiDeviceCommunicator (device/async_device.py, *)
(* async_communicator.py): the same reader thread, port and sensor as in   *)
(* MtiDevice, whose steps are used here, under an asyncio event loop.      *)
(*                                                                         *)
(* Blocking work runs in worker threads (asyncio.to_thread), so the loop   *)
(* goes on during it.  The loop executes what other threads have scheduled *)
(* on it (call_soon_threadsafe) in the order of scheduling: the enqueueing *)
(* of a message, the report of an error, and the resumption of the         *)
(* coroutine whose worker thread is done.  The dispatch task takes         *)
(* messages from the bounded queue and awaits the user's callback, which   *)
(* may make calls of its own.                                              *)
(*                                                                         *)
(* One coroutine at a time makes calls, from create() on: the user's main  *)
(* one or the message callback.                                            *)
(***************************************************************************)
EXTENDS Naturals, Sequences

CONSTANTS
  QueueSize,    \* _QUEUE_MAX_SIZE
  MaxStarts,    \* bound: reader threads ever created
  MaxArrivals,  \* bound: messages on the port after which nothing is streamed
  MaxCalls      \* bound: calls after create()

ASSUME AsyncAssumption == /\ QueueSize \in Nat \ {0}
                          /\ MaxStarts \in Nat
                          /\ MaxArrivals \in Nat
                          /\ MaxCalls \in Nat

VARIABLES
  state, stopEvent, thread, pc, rpc, acc, started, line,  \* of StreamReader
  arrived, tracked, listening, dispatched, todo, calls,   \* of MtiDevice
  portOpen, wire, mode,
  queue,      \* self._queue
  scheduled,  \* what the loop has to execute, oldest first
  dispatch,   \* the state of self._dispatch_task
  handle,     \* what create() has come to
  caller      \* who makes the call that is under way, or made the last one

deviceVars == <<state, stopEvent, thread, pc, rpc, acc, started, line, arrived,
                tracked, listening, dispatched, todo, calls, portOpen, wire, mode>>
loopVars   == <<scheduled, dispatch, handle, caller>>
vars == <<deviceVars, queue, loopVars>>

\* The queue takes the place of the buffer.  update() does not exist.
D == INSTANCE MtiDevice WITH buffer <- queue, BufferSize <- QueueSize,
                             batch <- <<>>, JoinMayExpire <- FALSE,
                             Remeasure <- FALSE, Unreliable <- TRUE

Do(what) == D!Do(what, "")

Enqueueing(msg) == [do |-> "enqueue", msg |-> msg]
Error           == [do |-> "error"]
Resumption      == [do |-> "resume"]

\* The steps of close(): cancel the dispatch task and await it, stop the
\* reader, close the port.
\* Mutant of CloseAll: the dispatch task is left running.
CloseKeepsTask == Do("stop") \o Do("close")
CloseAll == Do("cancel") \o Do("await") \o Do("stop") \o Do("close")

Create == Do("open") \o Do("flush") \o Do("spawn") \o D!EnterConfig \o Do("wrap")

Body(call) == IF call = "close" THEN CloseAll ELSE D!Body(call)

Init == /\ D!R!Init
        /\ arrived = 0
        /\ tracked = "CONFIG"
        /\ listening = FALSE
        /\ dispatched = <<>>
        /\ todo = Create
        /\ calls = 0
        /\ portOpen = FALSE
        /\ wire = <<>>
        /\ mode \in D!Modes
        /\ queue = <<>>
        /\ scheduled = <<>>
        /\ dispatch = "none"
        /\ handle = "creating"
        /\ caller = "main"

----------------------------------------------------------------------------
\* The coroutine that makes a call, and the worker threads it awaits.

\* The worker thread has not been joined by the coroutine yet.
Resuming == \E i \in DOMAIN scheduled : scheduled[i] = Resumption

Idle == D!Idle /\ ~Resuming

\* The next step is to do what; a worker's result has been received.
Doing(what) == D!Doing(what) /\ ~Resuming

\* What a coroutine does between two awaits keeps the loop busy: the steps of
\* reader.start() among them.
LoopBusy == \/ pc \in {"clear", "running", "create", "launch"}
            \/ \E what \in {"spawn", "wrap", "reraise", "start", "assign",
                           "cancel"} : Doing(what)

\* The loop executes something other than the coroutine.
LoopFree == ~LoopBusy

\* The call ends here when the step raises.
Raises == D!Raise

\* A worker thread is done: it schedules the resumption of the coroutine.
WorkerDone == scheduled' = Append(scheduled, Resumption)

Calls == D!Calls

MayCall(call) == /\ Idle
                 /\ LoopFree
                 /\ handle = "made"
                 /\ portOpen
                 /\ calls < MaxCalls
                 /\ call = "goto_measurement" => /\ started < MaxStarts
                                                 /\ tracked = "CONFIG"

\* A call from the main coroutine, or from the callback being handled.
Call(call, who) ==
  /\ MayCall(call)
  /\ who = "callback" => dispatch = "handling"
  /\ todo' = Body(call)
  /\ calls' = calls + 1
  /\ caller' = who
  /\ UNCHANGED <<state, stopEvent, thread, pc, rpc, acc, started, line, arrived,
                 tracked, listening, dispatched, portOpen, wire, mode, queue,
                 scheduled, dispatch, handle>>

Keeping(changed) == changed /\ UNCHANGED <<dispatch, handle, caller>>

Send == ~Resuming /\ D!Send /\ Keeping(scheduled' =
           IF portOpen THEN scheduled ELSE Append(scheduled, Resumption))

Receive == ~Resuming /\ D!Receive /\ Keeping(scheduled' =
              IF todo' = todo THEN scheduled ELSE Append(scheduled, Resumption))

GiveUp == ~Resuming /\ D!GiveUp /\ Keeping(WorkerDone)

\* reader.stop() runs in a worker thread, start() on the loop.
BeginStop == /\ ~Resuming
             /\ D!BeginStop
             /\ Keeping(IF pc' = "idle" THEN WorkerDone ELSE UNCHANGED scheduled)

BeginStart == ~Resuming /\ D!BeginStart /\ UNCHANGED loopVars

InReader == D!InReader /\ Keeping(IF D!R!Stop /\ pc' = "idle" THEN WorkerDone
                                  ELSE UNCHANGED scheduled)

Assign    == ~Resuming /\ D!Assign /\ UNCHANGED loopVars
ClosePort == ~Resuming /\ D!ClosePort /\ Keeping(WorkerDone)

readerVars == <<state, stopEvent, thread, pc, rpc, acc, started>>

\* The steps of create(): open_serial_port may raise, reset_input_buffer
\* drops what waits or raises, the dispatch task starts.  Only what raises
\* later is rescued by close().
Open == /\ Doing("open")
        /\ \/ portOpen' = TRUE /\ D!Done /\ UNCHANGED handle
           \/ Raises /\ handle' = "failed" /\ UNCHANGED portOpen
        /\ WorkerDone
        /\ UNCHANGED <<readerVars, line, arrived, tracked, listening, dispatched,
                       calls, wire, mode, queue, dispatch, caller>>

Flush == /\ Doing("flush")
         /\ \/ line' = <<>> /\ D!Done /\ UNCHANGED handle
            \/ Raises /\ handle' = "failed" /\ UNCHANGED line
         /\ WorkerDone
         /\ UNCHANGED <<readerVars, arrived, tracked, listening, dispatched,
                        calls, portOpen, wire, mode, queue, dispatch, caller>>

\* Steps on the loop that change only the task and the handle.
LoopOnly == UNCHANGED <<readerVars, line, arrived, tracked, listening, dispatched,
                        calls, portOpen, wire, mode, queue, scheduled, caller>>

Spawn == Doing("spawn") /\ dispatch' = "waiting" /\ D!Done
           /\ LoopOnly /\ UNCHANGED handle

Wrap == Doing("wrap") /\ handle' = "made" /\ D!Done
          /\ LoopOnly /\ UNCHANGED dispatch

\* Mutant of Rescue: the exception leaves create() without close().
RescueNot == /\ handle = "creating" /\ D!Idle /\ ~Resuming
             /\ todo' = Do("reraise") /\ LoopOnly /\ UNCHANGED <<dispatch, handle>>

\* goto_config() raised in create(): close(), then raise again.
Rescue == /\ handle = "creating"
          /\ Idle
          /\ todo' = CloseAll \o Do("reraise")
          /\ LoopOnly
          /\ UNCHANGED <<dispatch, handle>>

Reraise == Doing("reraise") /\ handle' = "failed" /\ D!Done
             /\ LoopOnly /\ UNCHANGED dispatch

\* task.cancel() does nothing to a task that has ended.  The cancellation of
\* the callback that calls close() is used up by its await of itself, in the
\* next step: the dispatch task goes on.
Cancel == /\ Doing("cancel")
          /\ dispatch' = IF dispatch = "ended" \/ caller = "callback"
                         THEN dispatch ELSE "cancelling"
          /\ D!Done
          /\ LoopOnly
          /\ UNCHANGED handle

\* Mutant of Await: close() waits for the task it is called from.
AwaitItself == /\ Doing("await")
               /\ dispatch \in {"cancelled", "ended"}
               /\ D!Done
               /\ LoopOnly
               /\ UNCHANGED <<dispatch, handle>>

Await == /\ Doing("await")
         /\ dispatch \in {"cancelled", "ended"} \/ caller = "callback"
         /\ D!Done
         /\ LoopOnly
         /\ UNCHANGED <<dispatch, handle>>

SetOnMessage ==
  /\ Idle
  /\ LoopFree
  /\ handle = "made"
  /\ listening' = ~listening
  /\ UNCHANGED <<readerVars, line, arrived, tracked, dispatched, todo, calls,
                 portOpen, wire, mode, queue, loopVars>>

----------------------------------------------------------------------------
\* The event loop: the oldest scheduled callback, and the dispatch task.

RunNext(what) == /\ LoopFree
                 /\ scheduled # <<>>
                 /\ Head(scheduled).do = what
                 /\ scheduled' = Tail(scheduled)
                 /\ UNCHANGED <<readerVars, line, arrived, listening, dispatched,
                                todo, calls, portOpen, wire, mode, dispatch,
                                handle, caller>>

\* Mutant of EnqueueMessage: the newest message takes the place of the last.
EnqueueInPlace ==
  /\ RunNext("enqueue")
  /\ queue' = <<Head(scheduled).msg>> \o
                 (IF Len(queue) = QueueSize THEN Tail(queue) ELSE queue)
  /\ UNCHANGED tracked

\* Mutant of EnqueueMessage: a full queue is not noticed.
EnqueueUnbounded ==
  /\ RunNext("enqueue")
  /\ queue' = Append(queue, Head(scheduled).msg)
  /\ UNCHANGED tracked

\* Drops the oldest message of a full queue.
EnqueueMessage ==
  /\ RunNext("enqueue")
  /\ queue' = Append(IF Len(queue) = QueueSize THEN Tail(queue) ELSE queue,
                     Head(scheduled).msg)
  /\ UNCHANGED tracked

\* The error callback.  The AsyncMtiDevice registers it before a reader runs.
OnError == RunNext("error") /\ tracked' = "CONFIG" /\ UNCHANGED queue

Resume == RunNext("resume") /\ UNCHANGED <<queue, tracked>>

DispatchStep == UNCHANGED <<readerVars, line, arrived, tracked, listening, todo,
                            calls, portOpen, wire, mode, handle, caller>>

\* queue.get() returns, and the message goes to the callback, if there is one.
Dispatch ==
  /\ LoopFree
  /\ dispatch = "waiting"
  /\ queue # <<>>
  /\ queue' = Tail(queue)
  /\ dispatched' = IF listening THEN Append(dispatched, Head(queue).n)
                   ELSE dispatched
  /\ dispatch' = "handling"
  /\ DispatchStep
  /\ UNCHANGED scheduled

\* The callback, whose own calls are over, returns.
Handled ==
  /\ LoopFree
  /\ dispatch = "handling"
  /\ caller = "callback" => Idle
  /\ dispatch' = "waiting"
  /\ DispatchStep
  /\ UNCHANGED <<queue, dispatched, scheduled>>

\* The callback, or the decoding of the message, raises: the task ends, and
\* its done callback passes the exception to the error callback.
HandlingRaises ==
  /\ LoopFree
  /\ dispatch = "handling"
  /\ caller = "callback" => Idle
  /\ dispatch' = "ended"
  /\ scheduled' = Append(scheduled, Error)
  /\ DispatchStep
  /\ UNCHANGED <<queue, dispatched>>

\* The cancelled task, which waited for a message or for the callback, ends.
Cancelled ==
  /\ LoopFree
  /\ dispatch = "cancelling"
  /\ dispatch' = "cancelled"
  /\ DispatchStep
  /\ UNCHANGED <<queue, dispatched, scheduled>>

Loop == \/ EnqueueMessage \/ OnError \/ Resume
        \/ Dispatch \/ Handled \/ HandlingRaises \/ Cancelled

----------------------------------------------------------------------------
\* The reader threads schedule on the loop what they would call.

OutsideReader == UNCHANGED <<arrived, tracked, listening, dispatched, todo, calls,
                             portOpen, wire, mode, queue, dispatch, handle, caller>>

OnReaderMessage(t) ==
  /\ D!R!NextMessage(t)
  /\ scheduled' = Append(scheduled, Enqueueing(Head(acc[t])))
  /\ OutsideReader

OnReaderError(t) ==
  /\ D!R!EndAfterFault(t)
  /\ scheduled' = Append(scheduled, Error)
  /\ OutsideReader

ReaderAlone(t) == D!ReaderAlone(t) /\ UNCHANGED <<queue, loopVars>>

Reader(t) == OnReaderMessage(t) \/ OnReaderError(t) \/ ReaderAlone(t)

Sensor == D!Sensor /\ UNCHANGED <<queue, loopVars>>

----------------------------------------------------------------------------
Threads == D!R!Threads

InCall == \/ Send \/ Receive \/ GiveUp \/ BeginStop \/ BeginStart \/ InReader
          \/ Assign \/ ClosePort \/ Open \/ Flush \/ Spawn \/ Wrap
          \/ Rescue \/ Reraise \/ Cancel \/ Await

Next == \/ \E call \in Calls, who \in {"main", "callback"} : Call(call, who)
        \/ SetOnMessage
        \/ InCall
        \/ Loop
        \/ \E t \in Threads : Reader(t)
        \/ Sensor

\* A call goes on, the loop turns, cancellation reaches its task, and every
\* reader thread is scheduled.  Nothing is assumed of the user's callback.
Fairness == /\ WF_vars(InCall /\ ~Receive)
            /\ WF_vars(EnqueueMessage \/ OnError \/ Resume)
            /\ WF_vars(Cancelled)
            /\ \A t \in Threads : WF_vars(Reader(t))

Spec     == Init /\ [][Next]_vars
FairSpec == Spec /\ Fairness

----------------------------------------------------------------------------
TypeOK ==
  /\ queue \in Seq(D!Messages) /\ Len(queue) <= QueueSize
  /\ scheduled \in Seq([do : {"enqueue"}, msg : D!Messages]
                         \cup {Error, Resumption})
  /\ dispatch \in {"none", "waiting", "handling", "cancelling", "cancelled",
                   "ended"}
  /\ handle \in {"creating", "made", "failed"}
  /\ caller \in {"main", "callback"}
  /\ tracked \in D!Modes
  /\ dispatched \in Seq(Nat)
  /\ calls \in 0 .. MaxCalls
  /\ portOpen \in BOOLEAN

\* No reader thread competes for the answer to a request that is sent in
\* config state, or to the requests of create(), reset() and
\* restore_factory_defaults() in any state - while the dispatch task lives.
AnswerIsMine ==
  (/\ Doing("receive")
   /\ dispatch # "ended"
   /\ \/ tracked = "CONFIG"
      \/ Head(todo).arg \in {"GOTOCONFIG", "RESET", "RESTORE_FACTORY_DEFAULTS"})
     => D!R!Reading = {}

\* "Cancel the dispatch task, stop the reader, and close the serial port"
\* (close): after a close() of the main coroutine no callback is called,
\* whatever was queued or scheduled; and a closed port is not read.
QuietAfterClose ==
  [][~portOpen => /\ caller = "main" => dispatched' = dispatched
                  /\ D!R!Reading = {}]_vars

\* A create() that raises leaves no task running, and no port open once the
\* task has been there: whatever goto_config() had done, close() undid it.
\* (What raises before there is a task is not rescued.)
FailedCreateCleansUp ==
  handle = "failed" => \/ dispatch = "none"
                       \/ dispatch = "cancelled" /\ ~portOpen

\* Every call returns or raises: also one that the message callback makes
\* from within the dispatch task, and close() while the queue is full.
CallReturns == (todo # <<>>) ~> Idle

\* From the port over the loop and the bounded queue to the callback,
\* messages stay in order and are delivered at most once (OrderedDelivery).
Numbers(seq) == {seq[i].n : i \in DOMAIN seq}

Pending == Numbers(queue) \cup Numbers(line)
             \cup {scheduled[i].msg.n :
                     i \in {j \in DOMAIN scheduled : scheduled[j].do = "enqueue"}}
             \cup UNION {Numbers(acc[t]) : t \in D!R!Reading}

Promise == INSTANCE OrderedDelivery WITH pending <- Pending,
                                         delivered <- dispatched

ImplementsOrderedDelivery == Promise!Spec

=============================================================================
