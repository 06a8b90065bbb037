---------------------------- MODULE DeviceManager ----------------------------
(***************************************************************************)
(* MtiDeviceManager (device/manager.py): a scan thread that watches serial *)
(* ports come and go, a probe thread that opens the ports on which an MTi  *)
(* device answers, and the owner's start() and stop().                     *)
(*                                                                         *)
(* A section under self._lock is one step; everything between two of them  *)
(* (listing the ports, probing, opening, closing, the callbacks) is a step *)
(* of its own, so that the threads interleave there, and devices can be    *)
(* plugged and unplugged at any moment.  The manager opens all ports at    *)
(* one baud rate, so a MtiPortInfo is its port.  Every MtiDevice object is *)
(* a handle, numbered in the order in which they were opened.              *)
(***************************************************************************)
EXTENDS Naturals, Sequences, Functions

CONSTANTS
  Ports,        \* the serial ports devices are plugged into
  Devices,      \* the devices, which are their MtiDeviceIDs
  MaxPlugs,     \* bound: how often a device is plugged in
  MaxStarts,    \* bound: how often start() is called
  MaxFailures   \* bound: probes and opens that fail although a device is there

ASSUME ManagerAssumption == /\ MaxPlugs \in Nat
                            /\ MaxStarts \in Nat
                            /\ MaxFailures \in Nat

VARIABLES
  plugs,       \* the devices plugged in so far, in order
  occupant,    \* the plugging, by number, that now occupies each port, or 0
  failures,    \* failed probes and opens so far
  stopEvent,   \* is self._stop_event set?
  unprobed,    \* self._unprobed_ports
  devices,     \* self._devices: the handle registered for an ID, or 0
  handles,     \* all handles opened: port, ID, plugging, and whether open
  connected,   \* the handles on_connect was called with
  disconnected,\* how often on_disconnect was called for each handle
  owner,       \* where the owner is in start() or stop()
  starts,      \* how often start() was called
  closing,     \* the handles stop() has still to close
  scan,        \* where the scan thread is
  present,     \* the ports the scan listed
  gone,        \* disappeared_ports, still to be handled
  appeared,    \* appeared_port_infos
  victim,      \* the handle being disconnected, or 0
  probe,       \* where the probe thread is
  asked,       \* the ports being probed
  results,     \* the probe results still to be handled
  raised,      \* has the probe of a port raised?
  fresh        \* the handle just opened, or 0

worldVars  == <<plugs, occupant>>
tableVars  == <<unprobed, devices>>
logVars    == <<connected, disconnected>>
ownerVars  == <<owner, starts, closing>>
scanVars   == <<scan, present, gone, appeared, victim>>
probeVars  == <<probe, asked, results, raised, fresh>>
vars == <<worldVars, failures, stopEvent, tableVars, handles, logVars,
          ownerVars, scanVars, probeVars>>

None == 0

Init == /\ plugs = <<>>
        /\ occupant = [p \in Ports |-> 0]
        /\ failures = 0
        /\ stopEvent = FALSE
        /\ unprobed = {}
        /\ devices = [d \in Devices |-> None]
        /\ handles = <<>>
        /\ connected = {}
        /\ disconnected = <<>>
        /\ owner = "idle" /\ starts = 0 /\ closing = {}
        /\ scan = "ended" /\ present = {} /\ gone = {} /\ appeared = {}
        /\ victim = None
        /\ probe = "ended" /\ asked = {} /\ results = {}
        /\ raised = FALSE /\ fresh = None

Registered  == Range(devices) \ {None}
ActivePorts == {handles[h].port : h \in Registered}

Close(h) == handles' = [handles EXCEPT ![h].open = FALSE]

----------------------------------------------------------------------------
\* The world outside: a device is in one port at a time.

Plug(p, d) ==
  /\ Len(plugs) < MaxPlugs
  /\ occupant[p] = 0
  /\ \A q \in Ports : occupant[q] # 0 => plugs[occupant[q]] # d
  /\ plugs' = Append(plugs, d)
  /\ occupant' = [occupant EXCEPT ![p] = Len(plugs')]
  /\ UNCHANGED <<failures, stopEvent, tableVars, handles, logVars, ownerVars,
                 scanVars, probeVars>>

Unplug(p) ==
  /\ occupant[p] # 0
  /\ occupant' = [occupant EXCEPT ![p] = 0]
  /\ UNCHANGED <<plugs, failures, stopEvent, tableVars, handles, logVars,
                 ownerVars, scanVars, probeVars>>

\* A probe or an open of port p fails: nothing is plugged in, or it does not
\* answer in time.
Fail(p) == IF occupant[p] = 0 THEN UNCHANGED failures
           ELSE failures < MaxFailures /\ failures' = failures + 1

----------------------------------------------------------------------------
\* start() and stop(), called in turn by one owner.

Running == owner = "idle" /\ scan # "ended" /\ ~stopEvent

Start ==
  /\ owner = "idle"
  /\ scan = "ended" /\ probe = "ended"
  /\ starts < MaxStarts
  /\ starts' = starts + 1
  /\ stopEvent' = FALSE
  /\ scan' = "list"
  /\ probe' = "take"
  /\ UNCHANGED <<worldVars, failures, tableVars, handles, logVars, owner,
                 closing, present, gone, appeared, victim, asked, results,
                 raised, fresh>>

\* Mutant of BeginStop: the threads are joined, the event is not set.
JoinOnly ==
  /\ owner = "idle"
  /\ owner' = "joinScan"
  /\ UNCHANGED <<worldVars, failures, stopEvent, tableVars, handles, logVars,
                 starts, closing, scanVars, probeVars>>

\* A second stop() finds no threads and nothing to close.
BeginStop ==
  /\ owner = "idle"
  /\ owner' = "joinScan"
  /\ stopEvent' = TRUE
  /\ UNCHANGED <<worldVars, failures, tableVars, handles, logVars, starts,
                 closing, scanVars, probeVars>>

JoinScan ==
  /\ owner = "joinScan"
  /\ scan = "ended"
  /\ owner' = "joinProbe"
  /\ UNCHANGED <<worldVars, failures, stopEvent, tableVars, handles, logVars,
                 starts, closing, scanVars, probeVars>>

\* Mutant of JoinProbe: stop() does not wait for the probe thread.
SkipProbe ==
  /\ owner = "joinProbe"
  /\ owner' = "clear"
  /\ UNCHANGED <<worldVars, failures, stopEvent, tableVars, handles, logVars,
                 starts, closing, scanVars, probeVars>>

JoinProbe ==
  /\ owner = "joinProbe"
  /\ probe = "ended"
  /\ owner' = "clear"
  /\ UNCHANGED <<worldVars, failures, stopEvent, tableVars, handles, logVars,
                 starts, closing, scanVars, probeVars>>

Clear ==
  /\ owner = "clear"
  /\ owner' = "close"
  /\ closing' = Registered
  /\ devices' = [d \in Devices |-> None]
  /\ unprobed' = {}
  /\ UNCHANGED <<worldVars, failures, stopEvent, handles, logVars, starts,
                 scanVars, probeVars>>

CloseNext ==
  /\ owner = "close"
  /\ \E h \in closing : Close(h) /\ closing' = closing \ {h}
  /\ UNCHANGED <<worldVars, failures, stopEvent, tableVars, logVars, owner,
                 starts, scanVars, probeVars>>

EndStop ==
  /\ owner = "close"
  /\ closing = {}
  /\ owner' = "idle"
  /\ UNCHANGED <<worldVars, failures, stopEvent, tableVars, handles, logVars,
                 starts, closing, scanVars, probeVars>>

Stop == JoinScan \/ JoinProbe \/ Clear \/ CloseNext \/ EndStop

----------------------------------------------------------------------------
\* _scan_loop and _run_scan_cycle.

ListPorts ==
  /\ scan = "list"
  /\ scan' = "compare"
  /\ present' = {p \in Ports : occupant[p] # 0}
  /\ UNCHANGED <<worldVars, failures, stopEvent, tableVars, handles, logVars,
                 ownerVars, gone, appeared, victim, probeVars>>

\* Mutant of ComparePorts: only the unprobed ports count as known.
CompareUnprobed ==
  /\ scan = "compare"
  /\ scan' = "drop"
  /\ gone' = unprobed \ present
  /\ appeared' = present \ (unprobed \cup ActivePorts)
  /\ present' = {}
  /\ UNCHANGED <<worldVars, failures, stopEvent, tableVars, handles, logVars,
                 ownerVars, victim, probeVars>>

\* What is known is read under the lock; what follows from it is not.
ComparePorts ==
  /\ scan = "compare"
  /\ scan' = "drop"
  /\ LET known == unprobed \cup ActivePorts
     IN  /\ gone' = known \ present
         /\ appeared' = present \ known
  /\ present' = {}
  /\ UNCHANGED <<worldVars, failures, stopEvent, tableVars, handles, logVars,
                 ownerVars, victim, probeVars>>

OnPort(d, p) == devices[d] # None /\ handles[devices[d]].port = p

\* Mutant of DropPort: the handle is closed and stays in the table.
DropKeeps(p) ==
  /\ scan = "drop"
  /\ p \in gone
  /\ gone' = gone \ {p}
  /\ unprobed' = unprobed \ {p}
  /\ IF \E d \in Devices : OnPort(d, p)
     THEN \E d \in Devices : /\ OnPort(d, p)
                             /\ victim' = devices[d]
                             /\ scan' = "disconnect"
     ELSE UNCHANGED <<victim, scan>>
  /\ UNCHANGED <<worldVars, failures, stopEvent, devices, handles, logVars,
                 ownerVars, present, appeared, probeVars>>

\* _handle_disappeared_port, up to the release of the lock.
DropPort(p) ==
  /\ scan = "drop"
  /\ p \in gone
  /\ gone' = gone \ {p}
  /\ unprobed' = unprobed \ {p}
  /\ IF \E d \in Devices : OnPort(d, p)
     THEN \E d \in Devices : /\ OnPort(d, p)
                             /\ victim' = devices[d]
                             /\ devices' = [devices EXCEPT ![d] = None]
                             /\ scan' = "disconnect"
     ELSE UNCHANGED <<victim, devices, scan>>
  /\ UNCHANGED <<worldVars, failures, stopEvent, handles, logVars, ownerVars,
                 present, appeared, probeVars>>

\* Mutant of Disconnect: on_disconnect is called first.
Announce ==
  /\ scan = "disconnect"
  /\ scan' = "announce"
  /\ UNCHANGED <<worldVars, failures, stopEvent, tableVars, handles, logVars,
                 ownerVars, present, gone, appeared, victim, probeVars>>

\* _handle_disconnected_device: the device is closed, whatever that raises,
Disconnect ==
  /\ scan = "disconnect"
  /\ scan' = "announce"
  /\ Close(victim)
  /\ UNCHANGED <<worldVars, failures, stopEvent, tableVars, logVars, ownerVars,
                 present, gone, appeared, victim, probeVars>>

\* and on_disconnect is called, whatever that raises.
OnDisconnect ==
  /\ scan = "announce"
  /\ scan' = "drop"
  /\ disconnected' = [disconnected EXCEPT ![victim] = @ + 1]
  /\ victim' = None
  /\ UNCHANGED <<worldVars, failures, stopEvent, tableVars, handles, connected,
                 ownerVars, present, gone, appeared, probeVars>>

\* Mutant of AddPorts: what appeared is not remembered.
ForgetPorts ==
  /\ scan = "drop"
  /\ gone = {}
  /\ scan' = "wait"
  /\ appeared' = {}
  /\ UNCHANGED <<worldVars, failures, stopEvent, tableVars, handles, logVars,
                 ownerVars, present, gone, victim, probeVars>>

AddPorts ==
  /\ scan = "drop"
  /\ gone = {}
  /\ scan' = "wait"
  /\ unprobed' = unprobed \cup appeared
  /\ appeared' = {}
  /\ UNCHANGED <<worldVars, failures, stopEvent, devices, handles, logVars,
                 ownerVars, present, gone, victim, probeVars>>

ScanAgain ==
  /\ scan = "wait"
  /\ scan' = IF stopEvent THEN "ended" ELSE "list"
  /\ UNCHANGED <<worldVars, failures, stopEvent, tableVars, handles, logVars,
                 ownerVars, present, gone, appeared, victim, probeVars>>

Scan == \/ ListPorts \/ ComparePorts \/ Disconnect \/ OnDisconnect
        \/ AddPorts \/ ScanAgain
        \/ \E p \in Ports : DropPort(p)

----------------------------------------------------------------------------
\* _probe_loop and _run_probe_cycle.

TakePorts ==
  /\ probe = "take"
  /\ asked' = unprobed
  /\ probe' = IF unprobed = {} THEN "wait" ELSE "probe"
  /\ UNCHANGED <<worldVars, failures, stopEvent, tableVars, handles, logVars,
                 ownerVars, scanVars, results, raised, fresh>>

\* probe_ports asks all ports in parallel, each of them at its own moment.  A
\* device that answers with a short firmware or hardware version makes
\* probe_port raise an IndexError, which it does not catch.
ProbePort(p) ==
  /\ probe = "probe"
  /\ p \in asked
  /\ asked' = asked \ {p}
  /\ \/ Fail(p) /\ UNCHANGED <<results, raised>>
     \/ /\ occupant[p] # 0
        /\ results' = results \cup {[port |-> p, id |-> plugs[occupant[p]]]}
        /\ UNCHANGED <<failures, raised>>
     \/ /\ occupant[p] # 0
        /\ raised' = TRUE
        /\ UNCHANGED <<failures, results>>
  /\ UNCHANGED <<worldVars, stopEvent, tableVars, handles, logVars, ownerVars,
                 scanVars, probe, fresh>>

\* The executor waits for all probes; then result() raises what one of them
\* raised, the other results are lost, and the probe thread ends.
EndProbe ==
  /\ probe = "probe"
  /\ asked = {}
  /\ \/ ~raised /\ probe' = "handle" /\ UNCHANGED results
     \/ raised /\ probe' = "ended" /\ results' = {}
  /\ raised' = FALSE
  /\ UNCHANGED <<worldVars, failures, stopEvent, tableVars, handles, logVars,
                 ownerVars, scanVars, asked, fresh>>

\* _handle_probe_result: the port is opened again.  Whatever device is there
\* now is taken for the one that was probed.  (A flush that raises in the
\* constructor of the device leaves the port to the finalizer of its Serial,
\* which runs at once, as the exception is caught here.)
OpenPort(r) ==
  /\ probe = "handle"
  /\ r \in results
  /\ results' = results \ {r}
  /\ \/ /\ Fail(r.port)
        /\ UNCHANGED <<handles, disconnected, fresh, probe>>
     \/ /\ occupant[r.port] # 0
        /\ handles' = Append(handles, [port |-> r.port, id |-> r.id,
                                       plug |-> occupant[r.port], open |-> TRUE])
        /\ disconnected' = Append(disconnected, 0)
        /\ fresh' = Len(handles')
        /\ probe' = "register"
        /\ UNCHANGED failures
  /\ UNCHANGED <<worldVars, stopEvent, tableVars, connected, ownerVars,
                 scanVars, asked, raised>>

\* Mutant of Register: the table is keyed by the port.
RegisterPort ==
  /\ probe = "register"
  /\ probe' = "connect"
  /\ unprobed' = unprobed \ {handles[fresh].port}
  /\ devices' = [x \in Devices \cup {handles[fresh].port} |->
                   IF x = handles[fresh].port THEN fresh ELSE devices[x]]
  /\ UNCHANGED <<worldVars, failures, stopEvent, handles, logVars, ownerVars,
                 scanVars, asked, results, raised, fresh>>

\* A handle that was registered for the same ID is replaced.
Register ==
  /\ probe = "register"
  /\ probe' = "connect"
  /\ unprobed' = unprobed \ {handles[fresh].port}
  /\ devices' = [devices EXCEPT ![handles[fresh].id] = fresh]
  /\ UNCHANGED <<worldVars, failures, stopEvent, handles, logVars, ownerVars,
                 scanVars, asked, results, raised, fresh>>

\* on_connect is called, whatever it raises.
OnConnect ==
  /\ probe = "connect"
  /\ probe' = "handle"
  /\ connected' = connected \cup {fresh}
  /\ fresh' = None
  /\ UNCHANGED <<worldVars, failures, stopEvent, tableVars, handles,
                 disconnected, ownerVars, scanVars, asked, results, raised>>

EndCycle ==
  /\ probe = "handle"
  /\ results = {}
  /\ probe' = "wait"
  /\ UNCHANGED <<worldVars, failures, stopEvent, tableVars, handles, logVars,
                 ownerVars, scanVars, asked, results, raised, fresh>>

ProbeAgain ==
  /\ probe = "wait"
  /\ probe' = IF stopEvent THEN "ended" ELSE "take"
  /\ UNCHANGED <<worldVars, failures, stopEvent, tableVars, handles, logVars,
                 ownerVars, scanVars, asked, results, raised, fresh>>

Probe == \/ TakePorts \/ EndProbe \/ Register \/ OnConnect \/ EndCycle
         \/ ProbeAgain
         \/ \E p \in Ports : ProbePort(p)
         \/ \E r \in results : OpenPort(r)

----------------------------------------------------------------------------
World == \E p \in Ports : Unplug(p) \/ \E d \in Devices : Plug(p, d)

Next == World \/ Start \/ BeginStop \/ Stop \/ Scan \/ Probe

\* Both threads are scheduled and their waits end; stop() goes on.
Fairness == WF_vars(Scan) /\ WF_vars(Probe) /\ WF_vars(Stop)

Spec     == Init /\ [][Next]_vars
FairSpec == Spec /\ Fairness

----------------------------------------------------------------------------
Handles == DOMAIN handles

TypeOK ==
  /\ plugs \in Seq(Devices) /\ Len(plugs) <= MaxPlugs
  /\ occupant \in [Ports -> 0 .. Len(plugs)]
  /\ failures \in 0 .. MaxFailures
  /\ stopEvent \in BOOLEAN
  /\ unprobed \subseteq Ports
  /\ devices \in [Devices -> Handles \cup {None}]
  /\ handles \in Seq([port : Ports, id : Devices, plug : 1 .. MaxPlugs,
                      open : BOOLEAN])
  /\ connected \subseteq Handles
  /\ disconnected \in [Handles -> Nat]
  /\ owner \in {"idle", "joinScan", "joinProbe", "clear", "close"}
  /\ starts \in 0 .. MaxStarts
  /\ closing \subseteq Handles
  /\ scan \in {"list", "compare", "drop", "disconnect", "announce", "wait",
               "ended"}
  /\ present \subseteq Ports /\ gone \subseteq Ports /\ appeared \subseteq Ports
  /\ victim \in Handles \cup {None}
  /\ probe \in {"take", "probe", "handle", "register", "connect", "wait",
                "ended"}
  /\ asked \subseteq Ports
  /\ results \subseteq [port : Ports, id : Devices]
  /\ raised \in BOOLEAN
  /\ fresh \in Handles \cup {None}

\* Whoever finds a device in the table finds it open: the scan takes it out
\* before it closes it, and stop() too.
RegisteredIsOpen == \A h \in Registered : handles[h].open

\* on_disconnect is called at most once for a device, and when its port has
\* been released.
DisconnectedOnce ==
  \A h \in Handles : /\ disconnected[h] <= 1
                     /\ disconnected[h] = 1 => ~handles[h].open

\* Once stop() has returned, until the next start(), no callback fires, no
\* port is opened and no device is registered.
QuietAfterStop ==
  [][(owner = "idle" /\ stopEvent)
        => UNCHANGED <<handles, logVars, tableVars>>]_vars

\* "Stop both loops and close all open devices" (stop): every port that was
\* ever opened is released.
StopClosesAll ==
  (owner = "idle" /\ stopEvent) => \A h \in Handles : ~handles[h].open

\* A port a device stays plugged into becomes active, although probes fail
\* now and then: it is never forgotten while there is a probe thread.  (A probe
\* that raises ends that thread, and then no port is probed any more.)
PortIsServed ==
  \A p \in Ports :
     (Running /\ probe # "ended" /\ occupant[p] # 0)
        ~> \/ p \in ActivePorts \/ occupant[p] = 0
           \/ ~Running \/ probe = "ended"

\* The device of a port that stays empty is dropped.
EmptyPortIsDropped ==
  \A p \in Ports :
     (Running /\ p \in ActivePorts /\ occupant[p] = 0)
        ~> (p \notin ActivePorts \/ occupant[p] # 0 \/ ~Running)

\* stop() returns, whatever the two threads it joins are doing.
StopReturns == (owner = "joinScan") ~> (owner = "idle")

=============================================================================
