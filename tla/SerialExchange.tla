---------------------------- MODULE SerialExchange ----------------------------
(***************************************************************************)
(* The exchange of requests and answers over a serial port                 *)
(* (serial/serial_io.py, operations.py), and the programs made of it, one  *)
(* after the other on the same port: the probe of a port                   *)
(* (device/scanner.py), a session (device/session.py), the configurator    *)
(* and the recorder (tools/).                                              *)
(*                                                                         *)
(* Nothing on the line says which request an answer belongs to but the     *)
(* message ID, and the requests of a program that gave up are still under  *)
(* way when the next one opens the port.  A program is the sequence of     *)
(* steps it has still to take, todo.  Bytes are abstracted to messages;    *)
(* JUNK is what iter_xbus_messages_from_buffer raises on (XbusFraming).    *)
(***************************************************************************)
EXTENDS Naturals, Sequences, FiniteSetsExt

CONSTANTS
  Presets,     \* the output configurations
  MaxClients,  \* bound: programs run on the port
  MaxRetries,  \* bound: GOTOCONFIG requests of one recovery
  MaxStrays,   \* bound: messages on the line that answer no request
  MaxLost      \* bound: requests lost without a reason in the sensor

ASSUME ExchangeAssumption == /\ Presets # {}
                             /\ {MaxClients, MaxRetries, MaxStrays, MaxLost}
                                  \subseteq Nat

VARIABLES
  client,    \* the program that runs, or ran last
  todo,      \* the steps left of it
  outcome,   \* how it ended
  clients,   \* programs started so far
  portOpen,  \* is the port open?
  deaf,      \* has the accumulator a head that cannot be decoded?
  retries,   \* GOTOCONFIG requests of this recovery
  stale,     \* history: the kinds of requests of earlier programs that were
             \* under way when the program that runs flushed the port
  wire,      \* requests on their way to the sensor
  line,      \* messages waiting in the port's input buffer
  strays,    \* messages so far that answer no request
  lost,      \* requests lost so far
  mode,      \* the state of the sensor
  config,    \* its output configuration
  stuck      \* does it ignore GOTOCONFIG until it is reset?

clientVars == <<client, outcome, clients, portOpen, retries, stale>>
sensorVars == <<mode, config, stuck, lost>>
vars == <<clientVars, todo, deaf, wire, line, strays, sensorVars>>

Requests == {"GOTOCONFIG", "GOTOMEASUREMENT", "RESET", "DEVICE_ID",
             "PRODUCT_CODE", "FIRMWARE", "HARDWARE", "OUTPUT"}
Strays   == {"MTDATA2", "WARNING", "JUNK"}
Mids     == Requests \cup Strays \cup {"ERROR"}

Step(do, mid) == <<[do |-> do, mid |-> mid]>>

\* send_and_receive(), with nothing caught; with CommandTimeout and
\* UnexpectedResponse caught, as for the parts of the identity that may be
\* missing; and as the fast path of goto_config_mode.
Exchange(mid) == Step("send", mid) \o Step("receive", mid)
Optional(mid) == Step("send", mid) \o Step("try", mid)
ConfigMode    == Step("send", "GOTOCONFIG") \o Step("fast", "GOTOCONFIG")

Open  == Step("open", "") \o Step("flush", "")
Close == Step("close", "")

ProbePort == Open \o Exchange("GOTOCONFIG") \o Exchange("DEVICE_ID")
               \o Optional("PRODUCT_CODE") \o Optional("FIRMWARE")
               \o Optional("HARDWARE") \o Close

\* Mutant of ConfigureDevice: the output configuration is sent, and not awaited.
ConfigureBlindly == Open \o Exchange("GOTOCONFIG") \o Exchange("DEVICE_ID")
                      \o Step("send", "OUTPUT") \o Exchange("GOTOMEASUREMENT")
                      \o Close

ConfigureDevice == Open \o Exchange("GOTOCONFIG") \o Exchange("DEVICE_ID")
                     \o Exchange("OUTPUT") \o Exchange("GOTOMEASUREMENT") \o Close

\* Mutant of RecordDevice: it starts to read without GOTOMEASUREMENT.
RecordAtOnce == Open \o ConfigMode \o Exchange("DEVICE_ID")
                  \o Step("read", "") \o Close

RecordDevice == Open \o ConfigMode \o Exchange("DEVICE_ID")
                  \o Exchange("GOTOMEASUREMENT") \o Step("read", "") \o Close

\* MtiSession.open: the probe, and the constructor of the communicator.
Constructor == Open \o Exchange("GOTOCONFIG")
OpenSession == ProbePort \o Constructor

Programs == [do : {"probe", "session", "record"}] \cup
            [do : {"configure"}, preset : Presets]

Body(program) == CASE program.do = "probe"     -> ProbePort
                   [] program.do = "session"   -> OpenSession
                   [] program.do = "record"    -> RecordDevice
                   [] program.do = "configure" -> ConfigureDevice

Init == /\ client = [do |-> "none"]
        /\ todo = <<>>
        /\ outcome = "ok"
        /\ clients = 0
        /\ portOpen = FALSE
        /\ deaf = FALSE
        /\ retries = 0
        /\ stale = {}
        /\ wire = <<>>
        /\ line = <<>>
        /\ strays = 0
        /\ lost = 0
        /\ mode \in {"CONFIG", "MEASUREMENT"}
        /\ config \in Presets
        /\ stuck \in BOOLEAN

----------------------------------------------------------------------------
\* The program.

Doing(what) == todo # <<>> /\ Head(todo).do = what

Awaiting == \E what \in {"receive", "try", "fast"} : Doing(what)

Done == todo' = Tail(todo)

\* Mutant of Raise: the finally clause closes a port that was never opened.
RaiseClosing == /\ outcome' = "raised"
                /\ todo' = Close
                /\ UNCHANGED <<client, clients, portOpen, retries, stale>>

\* An exception leaves the program; the finally clause closes the port.
Raise == /\ outcome' = "raised"
         /\ todo' = IF portOpen THEN Close ELSE <<>>
         /\ UNCHANGED <<client, clients, portOpen, retries, stale>>

\* The flush of the communicator's constructor comes before its try: what it
\* raises leaves the port open, and the session without a communicator to close.
Unguarded == client.do = "session" /\ todo = Tail(Constructor)

Abandon == /\ outcome' = "abandoned"
           /\ todo' = <<>>
           /\ UNCHANGED <<client, clients, portOpen, retries, stale>>

Run(program) ==
  /\ todo = <<>>
  /\ ~portOpen
  /\ clients < MaxClients
  /\ clients' = clients + 1
  /\ client' = program
  /\ todo' = Body(program)
  /\ outcome' = "ok"
  /\ UNCHANGED <<portOpen, retries, stale, deaf, wire, line, strays, sensorVars>>

\* MtiSession.close.
CloseSession == /\ client.do = "session"
                /\ outcome = "ok"
                /\ todo = <<>>
                /\ portOpen
                /\ todo' = Close
                /\ UNCHANGED <<clientVars, deaf, wire, line, strays, sensorVars>>

OpenPort == /\ Doing("open")
            /\ \/ Done /\ portOpen' = TRUE
                       /\ UNCHANGED <<client, outcome, clients, retries, stale>>
               \/ Raise
            /\ UNCHANGED <<deaf, wire, line, strays, sensorVars>>

Flush == /\ Doing("flush")
         /\ \/ /\ Done
               /\ line' = <<>>
               /\ stale' = {wire[i].mid : i \in DOMAIN wire}
               /\ UNCHANGED <<client, outcome, clients, portOpen, retries>>
            \/ (IF Unguarded THEN Abandon ELSE Raise) /\ UNCHANGED line
         /\ UNCHANGED <<deaf, wire, strays, sensorVars>>

\* An output configuration says which.
Request(mid) == [mid |-> mid,
                 preset |-> IF mid = "OUTPUT" THEN {client.preset} ELSE {}]

\* send_message; the accumulator of the answer is new.
Send == /\ Doing("send")
        /\ wire' = Append(wire, Request(Head(todo).mid))
        /\ deaf' = FALSE
        /\ Done
        /\ UNCHANGED <<clientVars, line, strays, sensorVars>>

\* One pass of receive_message over the first n messages of the line.
\* Behind JUNK nothing is decoded any more, in this exchange.
Receive(n) ==
  LET mid  == Head(todo).mid
      seen == {i \in 1 .. n : line[i] \in {mid, "ERROR", "WARNING"}}
      junk == {i \in 1 .. n : line[i] = "JUNK"}
      hit  == IF seen = {} THEN "none" ELSE line[Min(seen)]
      hidden == deaf \/ (seen # {} /\ \E j \in junk : j < Min(seen))
  IN  /\ Awaiting
      /\ n \in 1 .. Len(line)
      /\ line' = SubSeq(line, n + 1, Len(line))
      /\ IF seen = {} \/ hidden
         THEN deaf' = (deaf \/ junk # {}) /\ UNCHANGED <<todo, clientVars>>
         ELSE /\ deaf' = FALSE
              /\ IF hit = mid
                 THEN \/ Done /\ UNCHANGED clientVars
                      \/ mid \in {"FIRMWARE", "HARDWARE"} /\ Raise  \* too short
                 ELSE \* UnexpectedResponse, or the error the device reports
                      \/ Doing("try") /\ Done /\ UNCHANGED clientVars
                      \/ (hit = "ERROR" \/ ~Doing("try")) /\ Raise
      /\ UNCHANGED <<wire, strays, sensorVars>>

\* Mutant of TimeOut: the deadline is looked at only when bytes have come.
TimeOutOnBytes == /\ Awaiting
                  /\ line # <<>>
                  /\ CASE Doing("receive") -> Raise
                       [] Doing("try") -> Done /\ UNCHANGED clientVars
                       [] Doing("fast") -> /\ todo' = Step("reset", "") \o Tail(todo)
                                           /\ UNCHANGED clientVars
                  /\ deaf' = FALSE
                  /\ UNCHANGED <<wire, line, strays, sensorVars>>

\* The deadline passes.
TimeOut == /\ Awaiting
           /\ CASE Doing("receive") -> Raise
                [] Doing("try")     -> Done /\ UNCHANGED clientVars
                [] Doing("fast")    -> /\ todo' = Step("reset", "") \o Tail(todo)
                                       /\ UNCHANGED clientVars
           /\ deaf' = FALSE
           /\ UNCHANGED <<wire, line, strays, sensorVars>>

\* The port fails: SerialException.
PortFails == /\ Awaiting \/ Doing("send")
             /\ Raise
             /\ deaf' = FALSE
             /\ UNCHANGED <<wire, line, strays, sensorVars>>

\* The fallback of goto_config_mode: RESET, unless the port fails,
Reset == /\ Doing("reset")
         /\ \/ line' = <<>> /\ wire' \in {wire, Append(wire, Request("RESET"))}
            \/ UNCHANGED <<line, wire>>
         /\ todo' = Step("retry", "GOTOCONFIG") \o Tail(todo)
         /\ retries' = 0
         /\ deaf' = FALSE
         /\ UNCHANGED <<client, outcome, clients, portOpen, stale, strays, sensorVars>>

\* then GOTOCONFIG again and again,
Retry == /\ Doing("retry")
         /\ retries < MaxRetries
         /\ retries' = retries + 1
         /\ wire' = Append(wire, Request("GOTOCONFIG"))
         /\ UNCHANGED <<client, outcome, clients, portOpen, stale, todo, deaf, line,
                        strays, sensorVars>>

\* until one acknowledgement is found in all that came since,
Recovered(n) ==
  LET junk == {i \in 1 .. n : line[i] = "JUNK"}
      acks == {i \in 1 .. n : line[i] = "GOTOCONFIG"}
  IN  /\ Doing("retry")
      /\ retries > 0
      /\ n \in 1 .. Len(line)
      /\ line' = SubSeq(line, n + 1, Len(line))
      /\ IF deaf \/ acks = {} \/ \E j \in junk : j < Min(acks)
         THEN deaf' = (deaf \/ junk # {}) /\ UNCHANGED todo
         ELSE deaf' = FALSE /\ Done
      /\ UNCHANGED <<clientVars, wire, strays, sensorVars>>

\* or the recovery timeout is over.
RecoveryFails == /\ Doing("retry")
                 /\ Raise
                 /\ deaf' = FALSE
                 /\ UNCHANGED <<wire, line, strays, sensorVars>>

\* The recorder reads, until it is interrupted or the port fails.
Record == /\ Doing("read")
          /\ line' = <<>>
          /\ UNCHANGED <<clientVars, todo, deaf, wire, strays, sensorVars>>

EndRecording == /\ Doing("read")
                /\ (Done /\ UNCHANGED clientVars) \/ Raise
                /\ UNCHANGED <<deaf, wire, line, strays, sensorVars>>

ClosePort == /\ Doing("close")
             /\ portOpen' = FALSE
             /\ Done
             /\ UNCHANGED <<client, outcome, clients, retries, stale, deaf, wire, line,
                            strays, sensorVars>>

----------------------------------------------------------------------------
\* The sensor takes the requests in the order in which they were sent.

Emits(mid) == line' = Append(line, mid)

\* Configuration requests are refused while it measures; after a reset it
\* boots, hears nothing, and measures.
Answer ==
  /\ wire # <<>>
  /\ mode # "BOOT"
  /\ wire' = Tail(wire)
  /\ LET mid == Head(wire).mid
     IN  CASE mid = "GOTOCONFIG" ->
                /\ IF stuck /\ mode = "MEASUREMENT" THEN UNCHANGED <<mode, line>>
                   ELSE mode' = "CONFIG" /\ Emits(mid)
                /\ UNCHANGED <<config, stuck>>
           [] mid = "GOTOMEASUREMENT" ->
                mode' = "MEASUREMENT" /\ Emits(mid) /\ UNCHANGED <<config, stuck>>
           [] mid = "RESET" ->
                /\ mode' = "BOOT" /\ stuck' = FALSE
                /\ Emits(mid) /\ UNCHANGED config
           [] mid = "OUTPUT" /\ mode = "CONFIG" ->
                /\ config' \in Head(wire).preset
                /\ Emits(mid) /\ UNCHANGED <<mode, stuck>>
           [] OTHER ->
                /\ Emits(IF mode = "CONFIG" THEN mid ELSE "ERROR")
                /\ UNCHANGED <<mode, config, stuck>>
  /\ UNCHANGED <<clientVars, todo, deaf, strays, lost>>

Boot == /\ mode = "BOOT"
        /\ mode' = "MEASUREMENT"
        /\ UNCHANGED <<clientVars, todo, deaf, wire, line, strays, config, stuck,
                       lost>>

\* A request that reaches a booting sensor is lost, or one on a bad line.
Lose == /\ wire # <<>>
        /\ wire' = Tail(wire)
        /\ IF mode = "BOOT" THEN UNCHANGED lost
           ELSE lost < MaxLost /\ lost' = lost + 1
        /\ UNCHANGED <<clientVars, todo, deaf, line, strays, mode, config, stuck>>

\* What is on the line besides answers: data while it measures, warnings, and
\* noise, like the rest of a frame the flush has cut.
Stray(mid) == /\ strays < MaxStrays
              /\ strays' = strays + 1
              /\ mid = "MTDATA2" => mode = "MEASUREMENT"
              /\ Emits(mid)
              /\ UNCHANGED <<clientVars, todo, deaf, wire, sensorVars>>

----------------------------------------------------------------------------
\* A pass over what has come.
Decode == \E n \in 1 .. Len(line) : Receive(n) \/ Recovered(n)

\* What a program does, whatever the sensor does.
Program == \/ OpenPort \/ Flush \/ Send \/ TimeOut
           \/ Reset \/ Retry \/ RecoveryFails \/ EndRecording \/ ClosePort

Next == \/ \E program \in Programs : Run(program)
        \/ CloseSession
        \/ Program \/ PortFails \/ Decode \/ Record
        \/ Answer \/ Boot \/ Lose
        \/ \E mid \in Strays : Stray(mid)

\* A program goes on: it waits for the sensor only until its deadlines.  The
\* port need not fail, and the recorder need not be interrupted.
Fairness == WF_vars(Program /\ ~EndRecording)

Spec     == Init /\ [][Next]_vars
FairSpec == Spec /\ Fairness

----------------------------------------------------------------------------
Steps == [do : {"open", "flush", "send", "receive", "try", "fast", "reset",
                "retry", "read", "close"},
          mid : Requests \cup {""}]

\* Every step but the first of a program finds the port open.
TypeOK ==
  /\ client \in Programs \cup {[do |-> "none"]}
  /\ todo \in Seq(Steps)
  /\ todo # <<>> => (portOpen <=> ~Doing("open"))
  /\ outcome \in {"ok", "raised", "abandoned"}
  /\ clients \in 0 .. MaxClients
  /\ portOpen \in BOOLEAN
  /\ deaf \in BOOLEAN
  /\ retries \in 0 .. MaxRetries
  /\ stale \subseteq Requests
  /\ wire \in Seq([mid : Requests, preset : SUBSET Presets])
  /\ line \in Seq(Mids)
  /\ strays \in 0 .. MaxStrays
  /\ lost \in 0 .. MaxLost
  /\ mode \in {"CONFIG", "MEASUREMENT", "BOOT"}
  /\ config \in Presets
  /\ stuck \in BOOLEAN

Configured == client.do = "configure" /\ todo = <<>> /\ outcome = "ok"

Applied == mode = "MEASUREMENT" /\ config = client.preset

\* "Done. <port> is now streaming with preset ..." (dispatch_configure_device):
\* when the configurator has returned normally, the sensor measures with its
\* preset, whatever was lost and whatever earlier programs left under way -
\* unless requests of all three kinds that the configurator awaits before it
\* starts the measurement were among it: one answer that must be its own is
\* enough, because it comes behind everything older.
ConfiguredMeansApplied ==
  Configured /\ ~({"GOTOCONFIG", "DEVICE_ID", "OUTPUT"} \subseteq stale) => Applied

\* The recorder records measurements: no retry of its recovery, and no request
\* an earlier program left, takes the sensor out of measurement behind the
\* acknowledgement of GOTOMEASUREMENT - unless all three answers it awaits may
\* have been to requests of earlier programs.
RecordingIsMeasured ==
  (/\ Doing("read")
   /\ ~({"GOTOCONFIG", "DEVICE_ID", "GOTOMEASUREMENT"} \subseteq stale))
    => mode = "MEASUREMENT"

SessionIsOpen == client.do = "session" /\ outcome = "ok"

Abandoned == client.do = "session" /\ outcome = "abandoned"

\* Every program ends, although the sensor may be silent, and releases the
\* port, but for the recorder while it reads, a session that is open, and one
\* whose opening the flush of the communicator's constructor ended.
ProgramEnds ==
  (todo # <<>>) ~> \/ Doing("read")
                   \/ todo = <<>> /\ (portOpen => SessionIsOpen \/ Abandoned)

=============================================================================
