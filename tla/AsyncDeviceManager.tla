-------------------------- MODULE AsyncDeviceManager --------------------------
(***************************************************************************)
(* AsyncMtiDeviceManager (device/async_device_manager.py).  Its scan and   *)
(* probe loops are those of DeviceManager, whose steps are used here, as   *)
(* two tasks of one event loop: they interleave only where they await.     *)
(* The lock is never held over an await, so acquiring it never waits.      *)
(*                                                                         *)
(* stop() does not only set the event, as its threaded counterpart does:   *)
(* it cancels each task and awaits it.  The CancelledError strikes at the  *)
(* await the task is in.  Two of these awaits swallow it (that of the      *)
(* dispatch task in close()), and then the task goes on until it finds the *)
(* event; others are inside create() and close(), which catch or finish    *)
(* nothing then.                                                           *)
(*                                                                         *)
(* A worker thread that a task was awaiting (asyncio.to_thread) survives   *)
(* the cancellation.  It goes on with its probe, its open or its close,    *)
(* beside stop() and after it, and nobody waits for it.                    *)
(*                                                                         *)
(* stop() is called by a coroutine of its own, not by a callback.          *)
(***************************************************************************)
EXTENDS Naturals, Sequences

CONSTANTS Ports, Devices,
          MaxPlugs, MaxStarts, MaxFailures  \* bounds, as in DeviceManager

ASSUME AsyncManagerAssumption == /\ MaxPlugs \in Nat
                                 /\ MaxStarts \in Nat
                                 /\ MaxFailures \in Nat

VARIABLES
  plugs, occupant, failures, stopEvent, unprobed, devices, handles,
  connected, disconnected, owner, starts, closing,
  scan, present, gone, appeared, victim,
  probe, asked, results, raised, fresh,
  cancelled,  \* the tasks with a cancellation that has not struck yet
  abandoned,  \* the handles whose opening or closing was cut off
  lateProbes, \* the ports workers still probe for no task, and since which start()
  lateOpens,  \* the ports workers still open for no task
  lateCloses  \* the handles workers still close for no task

managerVars == <<plugs, occupant, failures, stopEvent, unprobed, devices, handles,
                 connected, disconnected, owner, starts, closing, scan, present,
                 gone, appeared, victim, probe, asked, results, raised, fresh>>
lateVars == <<lateProbes, lateOpens, lateCloses>>
vars == <<managerVars, cancelled, abandoned, lateVars>>

D == INSTANCE DeviceManager

Init == /\ D!Init
        /\ cancelled = {} /\ abandoned = {}
        /\ lateProbes = {} /\ lateOpens = {} /\ lateCloses = {}

\* A coroutine between two awaits keeps the loop.
ScanBusy  == scan = "drop"
ProbeBusy == probe \in {"take", "register"} \/ (probe = "handle" /\ results = {})
OwnerBusy == owner = "clear"

Quietly == UNCHANGED <<cancelled, abandoned, lateVars>>

----------------------------------------------------------------------------
\* start() and stop().

Start == ~ScanBusy /\ ~ProbeBusy /\ D!Start /\ Quietly

\* Mutant of BeginStop: the tasks are cancelled, the event is not set.
CancelOnly ==
  /\ ~ScanBusy /\ ~ProbeBusy
  /\ owner = "idle"
  /\ owner' = "joinScan"
  /\ cancelled' = cancelled \cup (IF scan = "ended" THEN {} ELSE {"scan"})
  /\ UNCHANGED <<plugs, occupant, failures, stopEvent, unprobed, devices,
                 handles, connected, disconnected, starts, closing, scan,
                 present, gone, appeared, victim, probe, asked, results, raised,
                 fresh, abandoned, lateVars>>

BeginStop ==
  /\ ~ScanBusy /\ ~ProbeBusy
  /\ D!BeginStop
  /\ cancelled' = cancelled \cup (IF scan = "ended" THEN {} ELSE {"scan"})
  /\ UNCHANGED <<abandoned, lateVars>>

AwaitScan ==
  /\ ~ProbeBusy
  /\ D!JoinScan
  /\ cancelled' = cancelled \cup (IF probe = "ended" THEN {} ELSE {"probe"})
  /\ UNCHANGED <<abandoned, lateVars>>

\* Mutant of AwaitProbe: the probe task is cancelled and not awaited.
SkipProbe  == ~ProbeBusy /\ D!SkipProbe /\ Quietly
AwaitProbe == D!JoinProbe /\ Quietly

\* Mutant of Clear: devices whose on_connect was not completed are forgotten.
ClearConnectedOnly ==
  /\ owner = "clear"
  /\ owner' = "close"
  /\ closing' = D!Registered \cap connected
  /\ devices' = [d \in Devices |-> D!None]
  /\ unprobed' = {}
  /\ UNCHANGED <<plugs, occupant, failures, stopEvent, handles, connected,
                 disconnected, starts, scan, present, gone, appeared, victim,
                 probe, asked, results, raised, fresh, cancelled, abandoned,
                 lateVars>>

Clear == D!Clear /\ Quietly

CloseDevices == (D!CloseNext \/ D!EndStop) /\ ~ScanBusy /\ ~ProbeBusy /\ Quietly

Stop == AwaitScan \/ AwaitProbe \/ Clear \/ CloseDevices

----------------------------------------------------------------------------
\* The tasks, as long as no cancellation is on its way to them.

ScanTurn  == ~ProbeBusy /\ ~OwnerBusy /\ "scan" \notin cancelled
ProbeTurn == ~ScanBusy /\ ~OwnerBusy /\ "probe" \notin cancelled

Scan  == ScanTurn /\ D!Scan /\ Quietly

\* A device that is already registered with this ID is replaced, and open.
Probe == ProbeTurn /\ D!Probe /\ ~raised' /\ Quietly

ProbeKept == UNCHANGED <<plugs, occupant, stopEvent, unprobed, devices, connected,
                         owner, starts, closing, scan, present, gone, appeared,
                         victim, raised>>

StillProbed(ports) == {[port |-> p, since |-> starts] : p \in ports}

\* The first probe that raises (for a short version answer, as in ProbePort)
\* ends the task at once: gather does not wait for the others.
ProbeRaises(p) ==
  /\ ProbeTurn
  /\ probe = "probe"
  /\ p \in asked /\ occupant[p] # 0
  /\ probe' = "ended" /\ asked' = {} /\ results' = {}
  /\ lateProbes' = lateProbes \cup StillProbed(asked \ {p})
  /\ ProbeKept
  /\ UNCHANGED <<failures, handles, disconnected, fresh, cancelled, abandoned,
                 lateOpens, lateCloses>>

----------------------------------------------------------------------------
\* A cancellation strikes.

StrikesScan  == "scan" \in cancelled /\ ~ProbeBusy
StrikesProbe == "probe" \in cancelled /\ ~ScanBusy

ScanEnds  == scan' = "ended" /\ cancelled' = cancelled \ {"scan"}
ProbeEnds == probe' = "ended" /\ cancelled' = cancelled \ {"probe"}
                             /\ asked' = {} /\ results' = {}

ScanKept == UNCHANGED <<plugs, occupant, failures, stopEvent, unprobed, devices,
                        handles, connected, disconnected, owner, starts, closing,
                        present, gone, appeared, victim, probe, asked, results,
                        raised, fresh, lateProbes, lateOpens>>

\* While the ports are listed, in on_disconnect, or between two cycles.
CutScan == /\ StrikesScan
           /\ scan \in {"list", "compare", "announce", "wait"}
           /\ ScanEnds
           /\ ScanKept
           /\ UNCHANGED <<abandoned, lateCloses>>

\* In the close() of a device that has gone: swallowed while the dispatch
\* task is awaited; before a worker closes the port; or while one does.
CutDisconnect ==
  /\ StrikesScan
  /\ scan = "disconnect"
  /\ \/ /\ cancelled' = cancelled \ {"scan"}
        /\ UNCHANGED <<scan, abandoned, lateCloses>>
     \/ /\ ScanEnds
        /\ abandoned' = abandoned \cup {victim}
        /\ lateCloses' \in {lateCloses, lateCloses \cup {victim}}
  /\ ScanKept

\* While the ports are probed, in on_connect, or between two cycles.  A probe
\* that a worker has begun goes on, one that is queued is dropped.
CutProbe == /\ StrikesProbe
            /\ probe \in {"probe", "connect", "wait"}
            /\ \E begun \in SUBSET asked :
                 lateProbes' = lateProbes \cup StillProbed(begun)
            /\ ProbeEnds
            /\ ProbeKept
            /\ UNCHANGED <<failures, handles, disconnected, fresh, abandoned,
                           lateOpens, lateCloses>>

\* The port of r is opened, and no task gets the handle.
OpenUnowned(r) ==
  /\ occupant[r.port] # 0
  /\ handles' = Append(handles, [port |-> r.port, id |-> r.id,
                                 plug |-> occupant[r.port], open |-> TRUE])
  /\ disconnected' = Append(disconnected, 0)
  /\ abandoned' = abandoned \cup {Len(handles')}

\* In create(): before a worker opens the port; while one does; while one
\* flushes the port, which the finalizer of the Serial closes after that; in
\* the exchange, with the port open and a dispatch task that holds it; or
\* swallowed in the close() that follows a failed exchange, and then the next
\* result is handled.
CutOpen(r) ==
  /\ StrikesProbe
  /\ probe = "handle"
  /\ r \in results
  /\ \/ /\ ProbeEnds
        /\ lateOpens' \in {lateOpens, lateOpens \cup
                             {[port |-> r.port, id |-> r.id, since |-> starts]}}
        /\ UNCHANGED <<failures, handles, disconnected, abandoned, lateCloses>>
     \/ /\ OpenUnowned(r)
        /\ lateCloses' \in {lateCloses, lateCloses \cup {Len(handles')}}
        /\ ProbeEnds
        /\ UNCHANGED <<failures, lateOpens>>
     \/ /\ cancelled' = cancelled \ {"probe"}
        /\ results' = results \ {r}
        /\ D!Fail(r.port)
        /\ UNCHANGED <<handles, disconnected, abandoned, probe, asked, lateOpens,
                       lateCloses>>
  /\ ProbeKept
  /\ UNCHANGED <<fresh, lateProbes>>

Cut == \/ CutScan \/ CutDisconnect \/ CutProbe
       \/ \E r \in results : CutOpen(r)

----------------------------------------------------------------------------
\* Workers that no task awaits any more; threads, they need no turn.

LateKept == UNCHANGED <<plugs, occupant, failures, stopEvent, unprobed, devices,
                        connected, owner, starts, closing, scan, present, gone,
                        appeared, victim, probe, asked, results, raised, fresh,
                        cancelled>>

\* A probe closes the port it has opened, whatever comes of it.
LateProbe(w) ==
  /\ lateProbes' = lateProbes \ {w}
  /\ LateKept
  /\ UNCHANGED <<handles, disconnected, abandoned, lateOpens, lateCloses>>

\* Nobody receives the Serial that is opened: its finalizer closes it.
LateOpen(w) ==
  /\ lateOpens' = lateOpens \ {w}
  /\ \/ UNCHANGED <<handles, disconnected, abandoned, lateCloses>>
     \/ OpenUnowned(w) /\ lateCloses' = lateCloses \cup {Len(handles')}
  /\ LateKept
  /\ UNCHANGED lateProbes

LateClose(h) ==
  /\ lateCloses' = lateCloses \ {h}
  /\ D!Close(h)
  /\ LateKept
  /\ UNCHANGED <<disconnected, abandoned, lateProbes, lateOpens>>

Late == \/ \E w \in lateProbes : LateProbe(w)
        \/ \E w \in lateOpens : LateOpen(w)
        \/ \E h \in lateCloses : LateClose(h)

World == D!World /\ Quietly

Next == \/ World \/ Start \/ BeginStop \/ Stop \/ Scan \/ Probe \/ Cut \/ Late
        \/ \E p \in Ports : ProbeRaises(p)

\* The tasks and the coroutine in stop() are scheduled, what they await
\* ends, and cancellations strike.
Fairness == WF_vars(Scan) /\ WF_vars(Probe) /\ WF_vars(Stop) /\ WF_vars(Cut)

Spec     == Init /\ [][Next]_vars
FairSpec == Spec /\ Fairness

----------------------------------------------------------------------------
Stopped == owner = "idle" /\ stopEvent

\* Once stop() has returned, until the next start(), no callback fires, no
\* device is registered and no worker begins, although cancellations can be
\* swallowed; and a port is opened or closed only by a worker left over.
QuietAfterStop ==
  [][Stopped =>
       /\ UNCHANGED <<connected, unprobed, devices>>
       /\ lateProbes' \subseteq lateProbes /\ lateOpens' \subseteq lateOpens
       /\ \A h \in D!Handles : /\ disconnected'[h] = disconnected[h]
                               /\ handles'[h] = handles[h] \/ h \in lateCloses
       /\ Len(handles') = Len(handles) \/ lateOpens' # lateOpens]_vars

\* stop() releases every port but those whose opening or closing the
\* cancellation itself cut off, and of devices registered anew since.
StopReleasesTheRest ==
  Stopped => \A h \in D!Handles :
               handles[h].open => \/ h \in abandoned
                                  \/ \E k \in D!Handles :
                                       k > h /\ handles[k].id = handles[h].id

\* stop() returns: a task that has swallowed its cancellation finds the event.
StopReturns == (owner = "joinScan") ~> (owner = "idle")

=============================================================================
