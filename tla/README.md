# A formal model of xsensmti-py

`xsensmti` is a Python library that talks to Xsens MTi inertial sensors over a
serial line: it discovers devices, switches them between *config* and
*measurement* state, configures them, and hands the messages they stream to
callbacks. It exists twice, once over threads and once over asyncio. This
directory holds TLA+ modules translated from the source, the TLC configurations
that check them on small instances, and proofs that hold for every instance.

Paths below are relative to `src/src/xsensmti/`.

## 1. Inventory

| Component | State it keeps | Operations | Status |
|---|---|---|---|
| `XbusStreamReader` (`device/xbus_reader.py`) | `_state`, `_stop_event`, `_thread`, the thread's accumulator | `start`, `stop`, `_loop`, `_handle_error` | `StreamReader` |
| `MtiDeviceCommunicator` (`device/communicator.py`) | serial port, reader, two callbacks | `goto_config`, `goto_measurement`, `send_and_receive`, `close` | in `MtiDevice` |
| `MtiDevice` (`device/device.py`) | `_state_value`, `_buffer`, callbacks | commands, `reset`, `restore_factory_defaults`, `update`, `close` | `MtiDevice`; what is set, read and decoded in `DeviceSettings` |
| `MtiDeviceManager` (`device/manager.py`) | `_unprobed_ports`, `_devices`, stop event, two threads | `start`, `stop`, scan cycle, probe cycle | `DeviceManager` |
| `AsyncMtiDeviceCommunicator`, `AsyncMtiDevice` (`device/async_*.py`) | queue, dispatch task, callbacks, tracked state | `create` and the calls above, with `await` between the steps | `AsyncDevice` |
| `AsyncMtiDeviceManager` (`device/async_device_manager.py`) | as the manager, with tasks and an `asyncio.Lock` | as above, `stop` by cancellation | `AsyncDeviceManager` |
| Serial exchange (`serial/serial_io.py`), recovery (`serial/operations.py`) | local accumulator and deadline | `send_message`, `receive_message`, `goto_config_mode` with its RESET fallback | `SerialExchange` |
| Scanner (`device/scanner.py`) | none | `scan_ports`, `probe_port(s)`, `discover_baudrate` | `SerialExchange`, `DeviceManager`, `DeviceSettings` |
| `MtiSession` (`device/session.py`), tools (`tools/recorder`, `tools/configurator`) | port; communicator | `open`, `close`; `record_device`, `configure_device`, presets | `SerialExchange`, `DeviceSettings` |
| Xbus framing (`xbus/`) | none | `drain_xbus_messages`, `iter_xbus_messages_from_buffer`, encoders | `XbusFraming` |
| MTData2 (`mtdata2/`) | none | packet splitting, measurement decoding | `Measurements` |
| Datatypes (`device/datatypes.py`) | none | payload conversions, profile resolution | partly, `DeviceSettings` |
| Command line, exceptions, scripts | none | parsing, printing, declarations | not modelled |

How they interact:

    MtiDeviceManager --opens, closes--> MtiDevice --calls--> MtiDeviceCommunicator
      scan thread, probe thread            ^                    |          |
                                           | _on_message        | start,   | send,
                                           | _on_reader_error   | stop     | receive
                                       XbusStreamReader <-------+     serial port
                                         reader thread --------reads-------^

* The reader thread and the commands **share the serial port** without a lock:
  what keeps them apart is that `goto_config` stops the reader first, and that
  the reader runs only in measurement state.
* The reader shares `_state`, `_stop_event` and `_thread` with its owner, again
  without a lock.
* Callbacks run on the reader thread up to `MtiDevice._buffer`; `update()` runs
  the user's callbacks on the user's thread.
* In the asyncio half the reader thread schedules its messages on the loop
  (`call_soon_threadsafe`), a bounded queue holds them, and one dispatch task
  awaits the user's callback for each; blocking calls run in worker threads, and
  the coroutine that awaits one resumes when the loop gets to it.
* Programs that use one port one after the other share what is under way on the
  line: requests and answers carry a message ID and nothing else.
* The manager's two threads share `_unprobed_ports` and `_devices` under a lock
  which they release before they list, probe, open, close or call back.

What is hard here: statements of reader and owner that interleave; a fault that
races a restart; a join with a timeout; a state that is *tracked* and not asked
for; the port as a shared resource; bounded buffers; the scan's picture of the
ports, which is old when it is used; devices that come and go meanwhile;
cancellation that strikes at any `await`, or is swallowed; answers that come after
their deadline; and frames found again in a damaged stream.
`PROJECT.json` lists each such hazard at its line.

What makes each component correct:

* reader: one thread at a time reads; nobody reads after `stop()`; messages in
  order, at most once;
* device: while a command waits, the answer is not taken by the reader; tracked
  and actual state agree where the code acts on it; calls end, the reader's `stop()`
  in them included; a fault of the reader is reported, and a dead stream becomes
  visible; order from port to callback;
* manager: what is registered is open; what was opened is closed; callbacks fire
  once, and never after `stop()`; `stop()` returns; a plugged port is eventually
  served, an empty one dropped;
* exchange: what a program reports as done is done, unless its predecessors left
  requests of every kind it awaits on the line; every program ends and releases the
  port, unless the flush of a session's constructor fails;
* framing: what is decoded does not depend on how the bytes arrive; noise costs no
  frame that does not overlap it; both decoders agree;
* settings and measurements: what is set is what is read back; the samples that
  reach a callback are those of the message, in order.

## 2. Modules

### `OrderedDelivery`: what every stage promises

Messages, numbered by arrival, are handed to a callback in that order, each at
most once; some may be lost. It is the abstract specification that
`StreamReader`, `MtiDevice` and `AsyncDevice` are shown to implement: model-checked
on the instances of their runs, and proved (section 4).

### `StreamReader`: the reader thread

The variables are the attributes (`state`, `stopEvent`, `thread`) and program
counters: `pc` for the one owner in `start()` or `stop()`, `rpc[t]` for each
thread ever created. Every statement that reads or writes a shared attribute is
an action: `BeginStart`, `ClearEvent`, `SetRunning`, `CreateThread`,
`LaunchThread`; `BeginStop`, `SetEvent`, `Join`, `ForgetThread`, `ReadState`,
`SetIdle`; `TestEvent`, `Read`, `ReadFails`, `HandOver`, `HandOverFails`,
`Drained`, `SetFaulted`, `FaultSetsEvent`, `EndAfterFault`. Bytes are abstracted to
messages: a read takes any prefix of what waits. `JoinMayExpire` says whether
`join(timeout=2.0)` may give up. The actions named as mutants in comments are
plausible slips of the code; nothing uses them but the mutation of a run.

### `MtiDevice`: device, communicator, reader and sensor

`StreamReader` is instantiated for the reader's variables; its hand-over and
error steps (`NextMessage`, `EndAfterFault`) are joined with the device's
`_on_message` and `_on_reader_error`. A user's call is the sequence `todo` of
steps it has still to take (`send`, `receive`, `stop`, `start`, `assign`,
`close`), built by `Body(call)` from what `device.py` and `communicator.py`
execute; an exception empties it. The sensor is the environment: it streams
while measuring, answers requests, refuses what needs config state with an
error, and boots into measurement after a reset, as
`notes/debug/mti_gotoconfig_not_responding.md` describes. `Unreliable` lets requests be overlooked and
answers be late; `Remeasure` lets the user call `goto_measurement()` while the
tracked state says that the device measures.

### `DeviceManager`: the threaded manager

Sections under `self._lock` are single actions; listing, probing, opening,
closing and callbacks are others. The world plugs and unplugs devices at any
moment; a *plugging* is numbered, so that a port that is empty for an instant can
be told from one that is not. A handle is one `MtiDevice` object; the log
variables `connected` and `disconnected` record callbacks. A probe fails, succeeds,
or raises: a firmware or hardware answer that is too short is an IndexError which
`probe_port` does not catch. `raised` remembers it until the executor has waited for
the other probes (`EndProbe`); then it ends the probe thread.

### `AsyncDevice`: the asyncio device

`MtiDevice` is instantiated, with the bounded queue in the place of its buffer; its
steps of a call are used as they are, and what each schedules on the loop is
added: `scheduled` is the loop's queue of enqueueings, error reports and
resumptions of the coroutine whose worker thread is done, executed in order
(`EnqueueMessage`, `OnError`, `Resume`). What a coroutine does between two awaits
keeps the loop (`LoopBusy`); a worker thread does not. `dispatch` is the state of the
dispatch task. `create()` is the first call of every behaviour, and may fail at
any step (`Open`, `Flush`, `Rescue`, `Reraise`). `Flush` is `reset_input_buffer()`, after
the open and before the `try`: what it raises is not rescued. A call is made by the main coroutine or by
the message callback, one at a time (`caller`); two coroutines that share one
device are not modelled. A close from the callback cancels and awaits its own task:
`asyncio` turns both into exceptions that `close()` swallows, and the task goes on.

### `AsyncDeviceManager`: the asyncio manager

`DeviceManager` is instantiated: its threads become tasks, that interleave only at
an await. `stop()` cancels each task and awaits it. `cancelled` holds the
cancellations that have not struck; `CutScan`, `CutDisconnect`, `CutProbe` and
`CutOpen` say what one does at each await, among them the two that swallow it
(the await of the dispatch task in `close()`, alone or in a `create()` that
fails). `abandoned` collects the handles whose opening or closing was cut off.

A worker thread (`asyncio.to_thread`) survives the cancellation of the task that
awaits it. `lateProbes`, `lateOpens` and `lateCloses` are the workers left over; they
finish at any moment (`LateProbe`, `LateOpen`, `LateClose`), also after `stop()` has
returned or `start()` was called again. A Serial that a worker opens for nobody is
closed by its finalizer. `ProbeRaises` is the probe that raises: `gather` passes it
on at once, the task ends, and the workers of the other probes are left over.

### `XbusFraming`: frames in a stream of bytes

`Frame` encodes a message; `Drain` and `Iter` are the two decoders, as recursive
functions on the place in the buffer; `Verdict` is what both find at a place. The
size of a byte, the preamble, the extension marker and the largest standard
length are constants, so that TLC can go through *every* noise. The sensor sends
frames, noise gets between them, and the reader reads chunks of any size.
`Places` are the bytes of a frame that was sent, `Taken` those of a message that was
decoded: a false frame may have an extended header although its payload is short,
so its length is read off the line and not recomputed from the message.

### `SerialExchange`: requests, answers and programs on one port

A program (probe, session, configurator, recorder) is the sequence `todo` of its
steps. `wire` and `line` are the two directions; they outlive a program. A request
is a message ID, and for the output configuration its preset; an answer is an ID
only, as on the wire. `Receive` is one pass of `receive_message` over the beginning
of what waits: behind `JUNK`, on which `iter_xbus_messages_from_buffer` raises, the
accumulator is `deaf` until the exchange is over. `TimeOut`, `PortFails`, `Reset`,
`Retry`, `Recovered` and `RecoveryFails` are the ways out. `Flush` may fail; in the
constructor of a session's communicator it is `Unguarded`, and the program ends
without its `close` (`Abandon`, outcome `abandoned`). The history variable `stale`
holds the kinds of requests that were still under way when the port was flushed. The sensor may ignore
GOTOCONFIG until it is reset (`stuck`), boots deaf after a reset, and measures then.

### `Measurements` and `DeviceSettings`: what payloads mean

`Measurements` splits and decodes MTData2 payloads: IDs, formats and expected
lengths of all twenty measurements, unknown IDs skipped, truncation raised.
Numbers stay the bits they are stored in. `DeviceSettings` has the conversions of
`device/datatypes.py` in both directions, the calls of `MtiDevice` that use them,
the presets and the baud rates, against a sensor that keeps what it is sent; a
call is answered, or raises with the request taken or not. Bit masks are sets of
bit numbers, labels sequences of their parts.

## 3. Runs

| Run | Expect | Shows |
|---|---|---|
| `reader` | pass | three threads, three messages: exclusion, order, quiet after `stop()`, refinement of `OrderedDelivery` |
| `reader_running` | violation | `RUNNING` without a thread |
| `device` | pass | three calls, two threads, four messages, a buffer of one, an unreliable line |
| `device_restore` | violation | `restore_factory_defaults()` sent to a streaming device |
| `device_remeasure` | violation | a late `on_error` un-tracks a new stream |
| `manager` | pass | two ports, two devices, start/stop/start, one failing probe, probes that raise |
| `manager_stop` | violation | a handle that `stop()` does not close |
| `async_device` | pass | `create()` and two calls, from the main coroutine or a callback; a queue of two |
| `async_manager` | pass | two ports, one device, start/stop/start by cancellation at any await, workers that survive it |
| `framing` | pass | two frames and four bytes of noise in every order and value, in every chunking |
| `exchange` | pass | two programs on one port, one stray message, one lost request, two retries |
| `settings` | pass | three kinds of sensor, all presets at two rates, cut and short messages |

**Bounds.** Three reader threads give a first start and two restarts, so that a
thread can outlive two generations; three messages can be split over two batches
and the port. Three calls in `MtiDevice` suffice for measure, leave, command or
close; `MaxArrivals` counts answers too, so that the stream overflows a buffer
of one. In `DeviceManager` two pluggings suffice for a replug, or for two devices
at once or one after the other in one port; all the races found need one port
and two pluggings. Three pluggings with one start were checked as well (2.9
million states) and are left out for time. `AsyncDeviceManager` has one device, in
either port or first in one and then in the other, because its surviving workers
multiply the states; two devices were checked with one port (640 thousand
states), with one start (178 thousand) and with no failing probe (2.7 million).
`AsyncDevice` has two calls after
`create()`, which makes a first one, five messages and a queue of two: measure and
close, or a fault of callback or reader in between. `XbusFraming` has bytes of four
values: a preamble, a known ID, an extension marker that is also a bus ID, and
one more; payloads are empty, one that looks like a preamble, and one that needs
an extended header and begins like a frame. The decoders look at a byte only by
comparing it to these values, by the lengths and by the sum, and four bytes of
noise make a false header of either form. A false frame that is *decoded*, with an
extended header and a short payload, takes six: one frame and six bytes of noise
were checked as well, and are left out for time.

In `SerialExchange` two programs let each meet what the other left on the line; that
is enough to be stale for one kind of answer or two, and never for all three.
With three programs a configurator can be misled in every acknowledgement (below);
`ConfiguredMeansApplied` excludes that (`stale`), and with the exclusion it is proved
for every number of programs. The two runs of `goto_config_mode`'s loop are
told apart by the first acknowledgement; a third adds nothing new to the line.
`DeviceSettings` has a sensor of the 1-series (profiles by number), one of the
600-series (by label) that comes with an output the library does not know in the
middle of its configuration, and one of the 700-series; set rates above and below
the GNSS limit, one that is refused.

Deadlock is checked where the system can always go on: in all runs but
`async_device`, `framing` and `exchange`, where a closed device, a line at its
bound and a last program that has ended are the end.

**Fairness.** Threads are preemptive and the interpreter schedules all of them,
hence weak fairness for every reader thread, for the scan thread and for the
probe thread. A call that has begun goes on (weak fairness of its steps), but
no call need be made. `Receive` is *not* fair: that an answer comes is never
assumed, only that the deadline passes (`GiveUp`, `TimeOut`). Nothing is assumed
of the sensor or of plugging. In the asyncio modules the loop executes what is
scheduled, cancellations strike, and tasks that can go on do: that is what the
event loop guarantees as long as callbacks return. Nothing is assumed of the
user's message callback, which may await for ever: `close()` must return all the
same. The serial port need not fail, and a recorder need not be interrupted.

**What the passing properties say.** `QuietAfterStop` of the reader is an action
property: between `stop()` and `start()` no step takes a message from the port or
hands one on. `AnswerIsMine` and `ClosedIsQuiet` say that the port is not shared at
the moments that matter; they hold because the tracked state is CONFIG only when no thread reads. That is `MeasuringIsTracked`, which in
turn needs the user not to call `goto_measurement()` while measuring: the run
`device_remeasure` shows what happens otherwise. `FaultIsSeen`: a fault between
two calls is reported and seen as CONFIG (by who asks: a user who only calls
`update()` is told nothing). A fault *inside* `goto_measurement()`, after
`reader.start()` and before the assignment, is overwritten by MEASUREMENT and
never seen; no document promises otherwise, and the property does not cover it.
`PortIsServed` tolerates one failing probe at any moment, and is claimed while the
probe thread lives: a probe that raises ends it (below). `StopReturns` of the
manager covers that thread too.

`AnswerIsMine` of `AsyncDevice` is claimed while the dispatch task lives. A callback
that raises ends the task; its done callback reports the error as a reader's, so
that the tracked state becomes CONFIG while the reader still reads: from then on
no message is dispatched, and a `reset()` competes with the reader for its answer.
`QuietAfterClose` is claimed of a `close()` by the main coroutine: one from the
message callback does not end the dispatch task, and what is queued is still
delivered. `CallReturns` includes that `close()`, which awaits the task it runs in.
`FailedCreateCleansUp` needs the `close()` in `create()` to await a task that has
hardly begun; it says that only a failure before there is a task (a flush that
raises) leaves the port open. `StopReleasesTheRest` names exactly what `stop()` leaves
open: handles in `abandoned`, and handles replaced in the table by a later one of the
same ID (the finding of `manager_stop`, which the asyncio manager shares).
`QuietAfterStop` of the asyncio manager allows a worker left over to open or close the
port it was at, and nothing else: no callback, no registration, no new worker.

`ConfiguredMeansApplied` is what the command line prints after `configure_device`. It
holds because an exchange whose answer must be the program's own shifts everything
older out of the line; the condition on `stale` says that one of the three
exchanges before GOTOMEASUREMENT must be of that kind, since requests on their way
to the sensor survive the flush of the port. `RecordingIsMeasured` needs that the
last request `goto_config_mode` left under way is served before the
GOTOMEASUREMENT behind it. `NoFrameIsSkipped` allows a frame to be lost only to a
message found at the same bytes, whose checksum happens to be right.
`ReadsBack` holds on a modern device whose product code could not be read because
the device refuses the classic form. `SamplesMatchOutputs` is about a whole
message; of a damaged one nothing may reach a callback that is not in it.

**Disagreements with the documentation** are the four violation runs; the
findings in `PROJECT.json` quote the text each contradicts. More are visible in the
model and have no run of their own:

* `XbusStreamReader.stop()` ("Stop the reader thread and wait for it to exit",
  `device/xbus_reader.py:54`) gives up after 2 s. With `JoinMayExpire = TRUE` the
  thread of a slow callback outlives it, and `OneThreadReads`, `PortIsFree` and
  `QuietAfterStop` fail.
* Scans compare paths: a device replugged between two scans stays registered with
  a dead handle, and no callback fires (`device/manager.py:177`).
* `MtiDeviceManager` opens the handle after a probe with the identity that was
  probed, even if another device is plugged in by then; and `on_disconnect` may be
  called before `on_connect` for a device that vanishes just after it was registered.
* `MtiDeviceManager.update()` ends at the first device whose callback raises.
* `AsyncMtiDeviceCommunicator.close()` ("Cancel the dispatch task, stop the reader,
  and close the serial port", `device/async_communicator.py:221`), called from the
  message callback, leaves the dispatch task running; and a dispatch task that a
  callback has ended is never started again.
* `AsyncMtiDeviceManager.stop()` ("Stop both tasks and close all open devices",
  `device/async_device_manager.py:75`) leaves the ports open whose opening or
  closing its cancellation has cut off: `create()` catches `Exception`, which a
  CancelledError is not. TLC finds it with one port, one device, one plugging and the
  invariant `D!StopClosesAll`. Worker threads go on after `stop()`.
* "Ports that fail probing are retried on each probe cycle"
  (`device/manager.py:53-54`), and `probe_port` "Raises no exceptions on failure"
  (`device/scanner.py:154`): a firmware or hardware answer that is too short raises
  IndexError (`device/scanner.py:268` and `281`), which ends the probe thread, and no
  port is probed any more until the next `start()`. TLC finds it with one port, one
  device, one plugging and the property
  `(Running /\ p \in unprobed) ~> (p \in asked \/ p \notin unprobed \/ ~Running)`.
* "Caller is responsible for closing the port" (`serial/serial_io.py:37`):
  `AsyncMtiDeviceCommunicator.create()` (`device/async_communicator.py:92`) and the
  constructor of `MtiDeviceCommunicator` (`device/communicator.py:61`) flush the port
  outside the `try` that would close it. When the flush raises, the port stays
  open without a handle until the finalizer of the Serial runs; `MtiSession.close()`
  has no communicator to close. TLC finds both, with `MaxCalls = 0` and the
  invariant `handle = "failed" => ~portOpen` of `AsyncDevice`, and with one program and
  `(client.do = "session" /\ outcome # "ok" /\ todo = <<>>) => ~portOpen` of
  `SerialExchange`.
* `reset()` stops the reader before it sends RESET; when no acknowledgement comes, it
  raises with the tracked state still MEASUREMENT and no thread that reads
  (`device/device.py:206`).
* `receive_message` parses its accumulator from the start on every pass: a head that
  cannot be decoded hides the answer behind it until the deadline
  (`serial/serial_io.py:110`, `deaf` in `SerialExchange`).
* "Done. {port} is now streaming with preset ..." (`tools/cli/actions.py:90`) need not be
  true. A recorder that gives up can leave GOTOCONFIG and DEVICE_ID on their way to the
  sensor, a configurator behind it GOTOCONFIG, DEVICE_ID and OUTPUT. The next
  configurator takes their three acknowledgements for its own
  (`serial/serial_io.py:117` compares message IDs), and if its own OUTPUT request is
  lost, the sensor streams with the preset of the other. TLC finds the trace with
  `MaxClients = 3`, `MaxRetries = 1`, `MaxStrays = 0`, `MaxLost = 1` and the invariant
  `Configured /\ wire = <<>> => Applied`.

## 4. Proofs

`StreamReaderProofs` proves, for every number of threads and messages:

* `TypeCorrect`: `Spec => []TypeOK`, for either value of `JoinMayExpire`;
* `OneThreadReadsAlways`, `PortIsFreeAlways`, `QuietAfterStopAlways`,
  `InOrderAlways`: assuming `JoinMayExpire = FALSE`. Without it they are false
  (section 3).

The argument has three layers.

1. `TypeInv` adds to the types what keeps them: `StartsBounded` (the guard of
   `start()` still holds until the thread exists), `LaunchHasThread`, and
   `Numbering` (threads are born in order).
2. `ExclusionInv`: a thread is *live* while it may read or still has to write
   FAULTED. `LiveIsCurrent`: a live thread is the one in `_thread`, and the state
   says RUNNING. This is inductive only with `OwnerKnows` (no thread is live
   between the test in `start()` and the new thread, nor after the join in
   `stop()`) and `CreatedIsLaunching`. It makes precise why the unlocked
   protocol works: writing FAULTED *first* is what tells the owner that the
   thread will never read again, and the price of that order is the finding of
   `reader_running`.
3. `OrderInv` adds `QueueInv` (what a thread holds is sorted and older than what
   waits on the port) and `DeliveredInv` (what was delivered is older than both).
   `HandOver` preserves it because by layer 2 only one thread holds messages.

The lemmas `PrefixFacts` ... `HandFacts` state what `SubSeq`, `Tail` and `Append`
do to sortedness.

It also proves, again for a join that waits,
`ReaderKeepsThePromise`: `Spec => ImplementsOrderedDelivery`. What is pending for
the abstract specification is what waits on the port or in the hands of a thread
that may still read. `HandOver` maps to `Deliver`, `HandOverFails` to `Lose`
(what the thread held is dropped with it), an arrival to `Arrive`, every other
step to a stutter. `OrderInv` is needed in both states: a thread holds
messages only while it drains them, so it leaves empty-handed, and a hand-over
takes the *oldest* pending message only because one thread holds messages and
they are sorted.
That the promise implies order is proved for the two devices with
`OrderKept` (what was delivered is in order and older than what may still be): the
theorems `InOrderAlways` of `MtiDeviceProofs` and `AsyncDeviceProofs` follow from their
refinements.

`DeviceManagerProofs` proves, for any ports, devices and numbers of pluggings,
failures and starts: `TypeCorrect`, `RegisteredIsOpenAlways`,
`DisconnectedOnceAlways` and `QuietAfterStopAlways`. `TypeInv` adds to the types
that a thread has the handle it works on (`AtWork`) and that the log is kept for
every handle (`LogFits`). `SafetyInv` is inductive with:

* `StopWaits`: `stop()` empties the table when both threads have ended, and none
  run after it; `CloseIsLast`: the table is empty while devices are closed, so a
  close cannot hit a registered one;
* `KeyedById`: a handle is in the table at most once, so removing one entry
  removes the handle;
* `VictimIsOut`, `FreshIsNew`, `Unannounced`: between two sections of the lock the
  scan thread owns the device it disconnects and the probe thread the one it
  opened; nobody else can close, register or announce it.

The lemmas `TableUntouched`, `CloseKeepsTable` and `OpenFacts` state once what the
unlocked steps leave alone. `SafetyInv` was model-checked on the instance of the
run `manager` before it was proved. A probe that raises disturbs none of it: the
thread ends with nothing in its hands.

`MtiDeviceProofs` proves, for any buffer size, requests, presets, number of
starts, messages and calls, and whether or not the sensor is reliable:

* `TypeCorrect`: `Spec => []TypeOK`, without any assumption;
* `ClosedIsQuietAlways`, for a join that waits (`JoinMayExpire = FALSE`);
* `AnswerIsMineAlways` and `MeasuringIsTrackedAlways`, for a join that waits and a
  user who does not call `goto_measurement()` while the tracked state says that
  the device measures (`Remeasure = FALSE`). The run `device_remeasure` shows the
  state that this excludes.

What makes them inductive:

* `CallLeft`: what is left of a call is a chain of steps in which each may follow
  the one before it (`Follows`); a `receive` comes after its `send`, a reader
  starts only if a step stopped it, and the call does not end by starting it.
  With `StartsBounded` this is `TypeInv`.
* `Exclusion`, the argument of `StreamReaderProofs` about live threads, restated
  for an owner whose starts and stops are steps of a call (`StartingOwner`).
* `PortInv`: with the port closed nothing is left of a call that would use it
  (`NeedsPort`), and no thread lives. It gives `ClosedIsQuiet`.
* `Safe`, for the other two: inside an exclusive use of the port no thread is
  *active*, not even one that only has its error to report (`OwnerKnows`,
  `QuietSteps`); an active thread is the one in `_thread` (`ActiveIsCurrent`); and
  when the state is tracked as CONFIG the reader is stopped, up to the step that
  tracks its start (`TrackedConfig`).
  "Active" is wider than "live" because a late error report sets the tracked state.

The module proves last `DeviceKeepsThePromise`:
`Spec => ImplementsOrderedDelivery`, for a join that waits. Pending for the
abstract specification is everything that may still be dispatched: the batch
`update()` works on, the buffer, what a thread holds, and what waits on the port.
`QueueInv` says that these four are sorted and each is older than the next
(`InLine`); `Move` lists what a step may do with them, and the lemmas show that
each keeps the line in order. A dispatch delivers the oldest pending message;
what a full buffer drops, what `receive_message` reads over, what a failing
hand-over had in its hands and what `update()` takes without a callback is lost;
other steps stutter (`Simulates`). `InOrderAlways` follows.

`AsyncDeviceManagerProofs` proves, without assumptions, `TablesStayRight`
(the two invariants of `DeviceManager` hold for tasks too),
`StopReleasesTheRestAlways` and `QuietAfterStopAlways`. It instantiates
`DeviceManagerProofs`: a step without a cancellation is a step of
`DeviceManager` (`Uninterrupted`), so that `SafetyInv` is kept by a proof that
exists; only the four cuts, a probe that raises and the steps of the workers left
over are proved anew. On top of it come the books:
`OpenIsAccounted` (an open handle is in the table, in the hands of a task, in the
list `stop()` closes, abandoned by a cancellation, or superseded by a later handle
of the same device), `FreshIsNewest` and `TableIsCleared`. `LateApart` keeps the workers
left over from what the tasks do: what one still closes is neither in the table nor
about to be registered, so that `RegisteredIsOpen` survives a close that comes late,
even after the next `start()`.

`AsyncDeviceProofs` proves `TypeCorrect`, `AnswerIsMineAlways`,
`FailedCreateCleansUpAlways`, `QuietAfterCloseAlways`,
`AsyncDeviceKeepsThePromise` and `InOrderAlways`, for any sizes and without further assumptions: `AsyncDevice` itself fixes a join that waits and a
user who does not measure twice. It instantiates `MtiDeviceProofs` and
takes its lemmas for the steps both devices share. Its invariant `Inv` is

* `Typed`, `StartingOwner` and `Exclusion`, as above, and the loop's queue;
* `Stage`: how far the one coroutine has come. Before the handle is made
  (`NothingYet`) the steps left are a tail of `create()` or of its rescue, and
  after a failure nothing is left to do, and a task that was created is cancelled and
  the port closed (`Failed`); then a call, then the tail of `close()` (`ClosingAt`), then
  `Closed`. `FailedCreateCleansUp` is read off it;
* `PortInv`: no live thread without a port;
* `WhileDispatched`: while the dispatch task lives, `Safe` of the threaded device
  holds, and `ErrorsAreLate`: an error report that waits on the loop comes from a
  thread that is gone, and is executed before the reader starts again, because the
  resumption of the coroutine that will start it stands behind it. This is why an
  error that arrives late cannot overwrite the state of a reader that was
  restarted, and it depends on the order in which `call_soon_threadsafe` appends.

For the promise, `LineInv` says that messages stand in four places, each older than
the next: the bounded queue, the enqueueings scheduled on the loop, the hands of a
thread, the port. The enqueueings are in order among themselves (`LoopOrdered`),
whatever resumptions and error reports stand between them, because the loop is a queue
and only a live thread appends to it. With the loop's part added to the queue it is
the line of `MtiDeviceProofs`, whose lemmas are cited. `Moves` lists what a step may do
with the four places, `StepMoves` shows that no step does anything else; taking a
message from the queue is a `Deliver` if a listener is set and a `Lose` if not, and so is
what a full queue drops, what a command reads over and what a flush discards.

`Inv` was model-checked on two instances (299 thousand and 2.7 million states) before
it was proved, and so was each of the others on the instance of its run.

`SerialExchangeProofs` proves, without assumptions, `TypeCorrect`,
`ConfiguredMeansAppliedAlways` and `RecordingIsMeasuredAlways`, for any number of
programs, retries, stray messages and lost requests. The line is a queue in both
directions: what a request finds under way is answered before it. Hence the
argument:

* `TypeInv`: what is left of a program is a `Chain` of steps, each of which may
  follow the one before it (`Follows`); the port is open where the steps need it.
* `RaisedInv`: a program that raised has only its `close` left, or nothing; nor has one
  that was abandoned.
* `ProgressInv` follows the answer that cannot be stale. `Exclusive`: while the
  program sends or awaits a request, then, unless all answers so far may have been
  to requests of others (`Settled`), nothing under way can be taken for the answer
  to a later request, and nothing stands behind its own (`Trails`; the recovery of
  the recorder may put further GOTOCONFIGs and a RESET there). `OutputTaken` and
  `OutputKept` carry the preset from the request to the end, `Measured` and
  `Finished` the mode of the sensor.

`XbusFramingProofs` proves all five properties of `XbusFraming`, for any size of a
byte (256 is one), any known IDs and payloads, any noise and any chunks:
`TypeCorrect`, `ChunkingIsInvisibleAlways`, `NoFrameIsSkippedAlways`,
`CleanStreamIsExactAlways` and `DecodersAgreeAlways`. The decoders are recursive
functions on the place in the buffer, and what they compute is an induction over it.
The library's induction theorems cannot be used (they take an operator as a
parameter), so `Downward` and `Upward` state induction over a *set*: the places
where a claim holds, which is all of them if none is the last that fails, by the
well-foundedness of <. On top of them:

* `FromExists`, `FromUnfolds`: the recursive function exists and satisfies its
  equation, because each value needs only values further on (`StepLooksAhead`);
  `FromStops`, `FromTakes`, `FromSkips` are the equation by cases.
* `SameVerdict`: what stands at a place does not depend on what comes behind it,
  unless the decoder has to wait there; `DrainGoesOn` and `SameEnd` lift that to all
  of the decoder, and `ReadsOn` is the step of the reader.
* `FrameIsFound`: the frame the encoder builds is found, with its message: the
  layout, both forms of the length field, and the checksum (`ChecksumFits`,
  `SumAppend`). `BeginningWaits`: the beginning of one makes the decoder wait.
* `FrameIsMet`: the decoder goes byte by byte or takes a whole message, so that it
  cannot pass a valid frame without taking it or a message that overlaps it.
* `IterAgrees`, the same induction for both decoders at once.

`Inv` adds to `ChunkingIsInvisible` where the frames are (`FramesOnLine`) and that they
stand one behind the other on a clean line (`InARow`).

`DeviceSettingsProofs` proves `TypeCorrect`, `ReadsBackAlways` and
`SamplesMatchOutputsAlways`, for any kinds of sensor, option sets, presets, rates and
received payloads. `KindsAssumption` says what a sensor must be for it: it has at least
one filter profile, among its profiles neither two types nor two labels are equal
(otherwise the part of a profile that the sensor reports would not tell which one is
set), and its baud rate is the one its baud code stands for. `CallsAssumption` gives the
arguments their types. The steps of this module are whole calls, and the work is
in what the conversions compute:

* `Upward` is again induction over a set of numbers, and `TableExists` makes it the
  existence of a recursive function that is filled from zero on: `NumbersUnfold`,
  `SumsUnfold`. `PacketsUnfold` does it from the end of a payload.
* `PartIs`, `FlattenAppend` and `KeepAppend` say where the parts of a flattened list lie
  and what one element more adds to it and to a filtered list.
* Settings: `FromTwoBytes` and `EntriesBack` (what was built into a payload is parsed
  back), `ProfileBack` (the profile that `resolve_filter_profile` finds for the answer
  of the sensor is the one that was written, by number or by label).
* Samples: `LaidAt` and `PartOf` say where a packet lies in a payload; `BeginningDecoded`
  that the packets found in a beginning of it are a beginning of those laid into it,
  and all of them if it is whole; `UnpackIs` and `FormatsFit` that the fields of every
  type fit its length and come back as they were; `SamplesUpTo` lifts it to the list.

`SettingsKept` is the rest of the invariant `Inv`: the sensor's masks, profile and
output configuration are those that were set, so that an answer can be compared with
the sensor and not with the call that came before it.

Two of these proofs failed at first for a good reason, and corrected what small
bounds had let pass: `ConfiguredMeansApplied` was stated without the condition on
`stale`, which two programs cannot violate and three can;
and `NoFrameIsSkipped` recomputed the length of a decoded frame from its message,
which is wrong of a false frame that six bytes of noise can make.

Thus every invariant that a run checks is stated by a theorem. Only model-checked is
all liveness (fairness and ENABLED are out of the prover's reach).

No module with proofs reaches a RECURSIVE operator.

## 5. Not modelled, and the plan

Every component with control of its own is modelled. Left out, by component:

* `MtiDeviceManager`: a second `start()` without a `stop()`, `update()`, and two
  threads that use one device (a scan that closes it under a user's call).
* `AsyncMtiDevice`: two coroutines that call one device at once.
* `MtiSession`: `open()` twice, which forgets the first communicator.
* `MtiDeviceConfig.from_payload` and `MtiDeviceError.from_payload`: fixed layouts
  without control. Conversions of floats and units.
* What the recorder writes to its file; command line, logging and printing;
  exception classes, measurement classes and example scripts, which declare or
  call and decide nothing.

Next would come a second user of one device, a thread or a coroutine, in the place of
the one owner.

## 6. Running

    tlc -workers 2 -config StreamReader.cfg MCStreamReader.tla   # and the other .cfg files
    tlapm StreamReaderProofs.tla      # and the other modules with proofs:
        # DeviceManagerProofs, MtiDeviceProofs, AsyncDeviceManagerProofs,
        # AsyncDeviceProofs, SerialExchangeProofs, XbusFramingProofs,
        # DeviceSettingsProofs
