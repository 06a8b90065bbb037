---------------------- MODULE AsyncDeviceManagerProofs ----------------------
(***************************************************************************)
(* Proofs about AsyncDeviceManager, for any number of ports, devices,      *)
(* pluggings and starts.  A step that no cancellation interrupts is a step *)
(* of DeviceManager, and what is proved of that step there holds here too; *)
(* what has to be shown anew is what a cancellation does, and what the     *)
(* worker threads do that it leaves behind.                                *)
(***************************************************************************)
EXTENDS AsyncDeviceManager, TLAPS

\* The threaded manager, with what is proved about it.
P == INSTANCE DeviceManagerProofs

\* The handle about to be registered is newer than any that is registered.
FreshIsNewest == probe = "register" => \A h \in P!Registered : fresh > h

\* Between stop() and start() nothing is registered.
TableIsCleared == Stopped => P!Registered = {}

\* A handle opened later bears the same ID.
Superseded(h) == \E k \in P!Handles : k > h /\ handles[k].id = handles[h].id

\* Every open handle is somebody's: the table's, or about to be registered or
\* closed, unless a cancellation cut it off or it was replaced.
Accounted(h) == \/ h \in P!Registered
                \/ owner = "close" /\ h \in closing
                \/ scan = "disconnect" /\ h = victim
                \/ probe = "register" /\ h = fresh
                \/ h \in abandoned
                \/ Superseded(h)

OpenIsAccounted == \A h \in P!Handles : handles[h].open => Accounted(h)

\* A worker left over opens a port for a device the manager knows of, and
\* closes a handle that is not in the table and not about to be.
LateApart ==
  /\ lateOpens \subseteq [port : Ports, id : Devices, since : 0 .. MaxStarts]
  /\ lateCloses \subseteq P!Handles
  /\ \A h \in lateCloses : /\ h \notin P!Registered
                           /\ probe = "register" => h # fresh

SafetyInv == /\ P!SafetyInv /\ LateApart
             /\ FreshIsNewest /\ TableIsCleared /\ OpenIsAccounted
----------------------------------------------------------------------------
\* What a step is to the threaded manager.

LEMMA SameTables == /\ D!Registered = P!Registered
                    /\ D!ActivePorts = P!ActivePorts
                    /\ D!Handles = P!Handles
  BY DEF D!Registered, D!Range, D!None, D!ActivePorts, D!Handles,
         P!Registered, P!Range, P!None, P!ActivePorts, P!Handles

LEMMA SameWorld == D!World => P!World
  BY DEF D!World, D!Unplug, D!Plug, D!tableVars, D!logVars, D!ownerVars,
         D!scanVars, D!probeVars, P!World, P!Unplug, P!Plug, P!tableVars,
         P!logVars, P!ownerVars, P!scanVars, P!probeVars

LEMMA SameOwner ==
  /\ D!Start => P!Start
  /\ D!BeginStop => P!BeginStop
  /\ D!JoinScan => P!JoinScan
  /\ D!JoinProbe => P!JoinProbe
  /\ D!Clear => P!Clear
  /\ D!CloseNext => P!CloseNext
  /\ D!EndStop => P!EndStop
  BY SameTables
     DEF D!Start, D!BeginStop, D!JoinScan, D!JoinProbe, D!Clear, D!CloseNext,
         D!EndStop, D!Close, D!None, D!worldVars, D!tableVars,
         D!logVars, D!ownerVars, D!scanVars, D!probeVars,
         P!Start, P!BeginStop, P!JoinScan, P!JoinProbe, P!Clear, P!CloseNext,
         P!EndStop, P!Close, P!None, P!worldVars, P!tableVars,
         P!logVars, P!ownerVars, P!scanVars, P!probeVars

LEMMA SameScan == D!Scan => P!Scan
  <1> USE DEF D!worldVars, D!tableVars, D!logVars, D!ownerVars, D!probeVars,
              D!scanVars, D!None, P!worldVars, P!tableVars, P!logVars,
              P!ownerVars, P!probeVars, P!scanVars, P!None
  <1>1. D!ListPorts => P!ListPorts
    BY DEF D!ListPorts, P!ListPorts
  <1>2. D!ComparePorts => P!ComparePorts
    BY SameTables DEF D!ComparePorts, P!ComparePorts
  <1>3. ASSUME NEW p \in Ports, D!DropPort(p) PROVE P!DropPort(p)
    <2>1. \A d \in Devices : D!OnPort(d, p) <=> P!OnPort(d, p)
      BY DEF D!OnPort, P!OnPort
    <2>2. QED
      BY <1>3, <2>1, Zenon DEF D!DropPort, P!DropPort
  <1>4. D!Disconnect \/ D!OnDisconnect => P!Disconnect \/ P!OnDisconnect
    BY DEF D!Disconnect, D!OnDisconnect, D!Close,
           P!Disconnect, P!OnDisconnect, P!Close
  <1>5. D!AddPorts \/ D!ScanAgain => P!AddPorts \/ P!ScanAgain
    BY DEF D!AddPorts, D!ScanAgain, P!AddPorts, P!ScanAgain
  <1>6. QED
    BY <1>1, <1>2, <1>3, <1>4, <1>5 DEF D!Scan, P!Scan

LEMMA SameProbe == D!Probe => P!Probe
  BY DEF D!Probe, D!TakePorts, D!ProbePort, D!EndProbe, D!OpenPort, D!Register,
         D!OnConnect, D!EndCycle, D!ProbeAgain, D!Fail, D!None, D!worldVars,
         D!tableVars, D!logVars, D!ownerVars, D!scanVars, D!probeVars,
         P!Probe, P!TakePorts, P!ProbePort, P!EndProbe, P!OpenPort, P!Register,
         P!OnConnect, P!EndCycle, P!ProbeAgain, P!Fail, P!None, P!worldVars,
         P!tableVars, P!logVars, P!ownerVars, P!scanVars, P!probeVars

\* A step that no cancellation interrupts.
Uninterrupted == /\ UNCHANGED <<abandoned, lateVars>>
                 /\ \/ P!World \/ P!Start \/ P!BeginStop \/ P!Stop
                    \/ P!Scan \/ P!Probe

\* The first probe that raises ends the probe task.
Raised == \E p \in Ports : ProbeRaises(p)

LEMMA StepIs == [Next]_vars => \/ Uninterrupted \/ Cut \/ Late \/ Raised
                               \/ UNCHANGED vars
  <1>1. World => Uninterrupted
    BY SameWorld DEF World, Quietly, Uninterrupted
  <1>2. Start \/ BeginStop => Uninterrupted
    BY SameOwner DEF Start, BeginStop, Quietly, Uninterrupted
  <1>3. Stop => Uninterrupted
    BY SameOwner DEF Stop, AwaitScan, AwaitProbe, Clear, CloseDevices, Quietly,
       Uninterrupted, P!Stop
  <1>4. Scan \/ Probe => Uninterrupted
    BY SameScan, SameProbe DEF Scan, Probe, Quietly, Uninterrupted
  <1>5. QED
    BY <1>1, <1>2, <1>3, <1>4 DEF Next, Raised
----------------------------------------------------------------------------
\* What a cancellation, and a worker left over, leave of the manager's tables.

LEMMA Bounds == P!ManagerAssumption
  BY AsyncManagerAssumption DEF AsyncManagerAssumption, P!ManagerAssumption

LEMMA SameClose == /\ \A h : D!Close(h) <=> P!Close(h)
                   /\ \A p : D!Fail(p) <=> P!Fail(p)
  BY DEF D!Close, P!Close, D!Fail, P!Fail

\* Types are kept when the cut touches no handle.
LEMMA CutTypes ==
  ASSUME P!TypeInv,
         UNCHANGED <<plugs, occupant, stopEvent, unprobed, devices, handles,
                     connected, disconnected, owner, starts, closing, present,
                     gone, appeared, victim, raised, fresh>>,
         scan' \in {scan, "ended"}, probe' \in {probe, "ended"},
         asked' \subseteq asked, results' \subseteq results,
         failures' \in 0 .. MaxFailures
  PROVE  P!TypeInv'
  BY DEF P!TypeInv, P!TypeOK, P!AtWork, P!LogFits, P!Handles

LEMMA CutIdleSafe ==
  ASSUME P!SafetyInv,
         UNCHANGED <<plugs, occupant, stopEvent, unprobed, devices, handles,
                     connected, disconnected, owner, starts, closing, present,
                     gone, appeared, victim, raised, fresh>>,
         scan' \in {scan, "ended"}, probe' \in {probe, "ended"},
         asked' \subseteq asked, results' \subseteq results,
         failures' \in 0 .. MaxFailures
  PROVE  P!SafetyInv'
  <1>1. P!TypeInv'
    BY CutTypes DEF P!SafetyInv
  <1>2. P!StopWaits'
    BY DEF P!SafetyInv, P!StopWaits
  <1>3. QED
    BY <1>1, <1>2, Bounds, P!TableUntouched

\* A worker closes a handle that nobody else has.
LEMMA LateCloseSafe ==
  ASSUME P!SafetyInv, NEW h \in P!Handles, h \notin P!Registered,
         probe = "register" => h # fresh,
         P!Close(h), LateKept, UNCHANGED disconnected
  PROVE  /\ P!SafetyInv'
         /\ P!Handles' = P!Handles /\ ~handles'[h].open
         /\ \A g \in P!Handles : /\ handles'[g].id = handles[g].id
                               /\ handles'[g].open => handles[g].open
  <1>1. P!TypeInv /\ P!TypeOK
    BY DEF P!SafetyInv, P!TypeInv
  <1>2. /\ handles' \in Seq(P!Handle) /\ Len(handles') = Len(handles)
        /\ P!Handles' = P!Handles
        /\ \A g \in P!Handles : /\ handles'[g].id = handles[g].id
                              /\ handles'[g].open => handles[g].open
    BY <1>1, Bounds, P!CloseFacts
  <1>3. P!TypeInv'
    <2>1. P!TypeOK'
      BY <1>1, <1>2 DEF LateKept, P!TypeOK, P!Handle
    <2>2. QED
      BY <1>1, <1>2, <2>1 DEF LateKept, P!TypeInv, P!AtWork, P!LogFits
  <1>4. /\ P!Registered' = P!Registered
        /\ P!KeyedById' /\ P!RegisteredIsOpen' /\ P!DisconnectedOnce'
        /\ ~handles'[h].open
        /\ \A g \in P!Handles : g # h => handles'[g] = handles[g]
    BY <1>1, <1>3, Bounds, P!CloseKeepsTable DEF LateKept
  <1>5. P!StopWaits' /\ P!CloseIsLast' /\ P!VictimIsOut'
    BY <1>4 DEF LateKept, P!SafetyInv, P!StopWaits, P!CloseIsLast, P!VictimIsOut
  <1>6. P!Unannounced'
    <2>1. scan \in {"disconnect", "announce"} => victim \in P!Handles
      BY <1>1 DEF P!TypeInv, P!TypeOK, P!AtWork
    <2>2. QED
      BY <1>2, <1>4, <2>1 DEF LateKept, P!SafetyInv, P!Unannounced
  <1>7. P!FreshIsNew'
    <2> SUFFICES ASSUME probe = "register" PROVE P!FreshIsNew'
      BY DEF LateKept, P!FreshIsNew
    <2>1. /\ fresh \in P!Handles /\ fresh # h /\ fresh \notin P!Registered
          /\ handles[fresh].open
      BY <1>1 DEF P!TypeOK, P!TypeInv, P!AtWork, P!SafetyInv, P!FreshIsNew
    <2>2. QED
      BY <1>4, <2>1 DEF LateKept, P!SafetyInv, P!FreshIsNew
  <1>8. QED
    BY <1>2, <1>3, <1>4, <1>5, <1>6, <1>7 DEF P!SafetyInv

\* A port is opened and nobody gets the handle.
LEMMA UnownedSafe ==
  ASSUME P!SafetyInv, NEW r, r.port \in Ports, r.id \in Devices, OpenUnowned(r),
         UNCHANGED <<plugs, occupant, failures, stopEvent, unprobed, devices,
                     connected, owner, starts, closing, scan, present, gone,
                     appeared, victim, raised, fresh>>,
         probe' \in {probe, "ended"}, asked' \subseteq asked,
         results' \subseteq results
  PROVE  /\ P!SafetyInv'
         /\ P!Handles' = P!Handles \cup {Len(handles')}
         /\ Len(handles') \notin P!Handles
         /\ \A h \in P!Handles : /\ handles'[h] = handles[h]
                               /\ disconnected'[h] = disconnected[h]
  <1>1. P!TypeInv /\ P!TypeOK
    BY DEF P!SafetyInv, P!TypeInv
  <1>2. /\ handles' \in Seq(P!Handle) /\ disconnected' \in Seq(Nat)
        /\ Len(disconnected') = Len(handles')
        /\ disconnected' \in [P!Handles' -> Nat]
        /\ P!Handles' = P!Handles \cup {Len(handles')}
        /\ Len(handles') \notin P!Handles
        /\ \A h \in P!Handles : /\ handles'[h] = handles[h]
                                /\ disconnected'[h] = disconnected[h]
        /\ disconnected'[Len(handles')] = 0
    BY <1>1, Bounds, P!OpenFacts DEF OpenUnowned
  <1>3. P!TypeInv'
    <2>1. P!TypeOK'
      BY <1>1, <1>2 DEF P!TypeOK, P!Handle
    <2>2. QED
      BY <1>1, <1>2, <2>1 DEF P!TypeInv, P!AtWork, P!LogFits
  <1>4. P!Registered' = P!Registered /\ P!Registered \subseteq P!Handles
    BY <1>1, Bounds, P!RegisteredIs DEF P!Registered
  <1>5. P!StopWaits' /\ P!CloseIsLast' /\ P!VictimIsOut'
    BY <1>4 DEF P!SafetyInv, P!StopWaits, P!CloseIsLast, P!VictimIsOut
  <1>6. P!FreshIsNew'
    <2>1. probe = "register" => fresh \in P!Handles
      BY <1>1 DEF P!TypeInv, P!TypeOK, P!AtWork
    <2>2. QED
      BY <1>2, <1>4, <2>1 DEF P!SafetyInv, P!FreshIsNew
  <1>7. P!KeyedById'
    BY <1>1, <1>2 DEF P!SafetyInv, P!KeyedById, P!TypeOK
  <1>8. P!Unannounced'
    <2>1. scan \in {"disconnect", "announce"} => victim \in P!Handles
      BY <1>1 DEF P!TypeInv, P!TypeOK, P!AtWork
    <2>2. QED
      BY <1>2, <2>1 DEF P!SafetyInv, P!Unannounced
  <1>9. P!RegisteredIsOpen' /\ P!DisconnectedOnce'
    BY <1>2, <1>4 DEF P!SafetyInv, P!RegisteredIsOpen, P!DisconnectedOnce
  <1>10. QED
    BY <1>2, <1>3, <1>5, <1>6, <1>7, <1>8, <1>9 DEF P!SafetyInv

\* The three ways in which the opening of a port is cut off.
LEMMA CutOpenIs ==
  ASSUME P!SafetyInv, NEW r \in results, CutOpen(r)
  PROVE  /\ r.port \in Ports /\ r.id \in Devices
         /\ probe = "handle" /\ probe' \in {probe, "ended"}
         /\ asked' \subseteq asked /\ results' \subseteq results
         /\ failures' \in 0 .. MaxFailures
         /\ ProbeKept /\ UNCHANGED <<fresh, lateProbes>>
         /\ \/ /\ UNCHANGED <<handles, disconnected, abandoned, lateCloses>>
               /\ lateOpens' \in {lateOpens, lateOpens \cup
                     {[port |-> r.port, id |-> r.id, since |-> starts]}}
            \/ /\ OpenUnowned(r) /\ UNCHANGED <<failures, lateOpens>>
               /\ probe' = "ended"
               /\ lateCloses' \in {lateCloses, lateCloses \cup {Len(handles')}}
  <1>1. /\ results \subseteq [port : Ports, id : Devices]
        /\ failures \in 0 .. MaxFailures
    BY DEF P!SafetyInv, P!TypeInv, P!TypeOK
  <1>2. D!Fail(r.port) => failures' \in 0 .. MaxFailures
    BY <1>1, AsyncManagerAssumption DEF AsyncManagerAssumption, D!Fail
  <1>3. QED
    BY <1>1, <1>2 DEF CutOpen, ProbeEnds

LEMMA CutSafe == P!SafetyInv /\ Cut => P!SafetyInv'
  <1> SUFFICES ASSUME P!SafetyInv, Cut PROVE P!SafetyInv'
    OBVIOUS
  <1>0. failures \in 0 .. MaxFailures
    BY DEF P!SafetyInv, P!TypeInv, P!TypeOK
  <1>1. CASE CutScan \/ CutDisconnect
    BY <1>0, <1>1, CutIdleSafe DEF CutScan, CutDisconnect, ScanEnds, ScanKept
  <1>2. CASE CutProbe
    BY <1>0, <1>2, CutIdleSafe DEF CutProbe, ProbeEnds, ProbeKept
  <1>3. ASSUME NEW r \in results, CutOpen(r) PROVE P!SafetyInv'
    <2>1. CASE UNCHANGED <<handles, disconnected>>
      BY <1>3, <2>1, CutOpenIs, CutIdleSafe DEF ProbeKept
    <2>2. CASE OpenUnowned(r) /\ UNCHANGED failures
      BY <1>3, <2>2, CutOpenIs, UnownedSafe DEF ProbeKept
    <2>3. QED
      BY <1>3, <2>1, <2>2, CutOpenIs
  <1>4. QED
    BY <1>1, <1>2, <1>3 DEF Cut

LEMMA RaisedSafe == P!SafetyInv /\ Raised => P!SafetyInv'
  <1> SUFFICES ASSUME P!SafetyInv, NEW p \in Ports, ProbeRaises(p)
               PROVE  P!SafetyInv'
    BY DEF Raised
  <1>1. failures \in 0 .. MaxFailures
    BY DEF P!SafetyInv, P!TypeInv, P!TypeOK
  <1>2. QED
    BY <1>1, CutIdleSafe DEF ProbeRaises, ProbeKept

LEMMA LateSafe == P!SafetyInv /\ LateApart /\ Late => P!SafetyInv'
  <1> SUFFICES ASSUME P!SafetyInv, LateApart, Late PROVE P!SafetyInv'
    OBVIOUS
  <1>0. failures \in 0 .. MaxFailures
    BY DEF P!SafetyInv, P!TypeInv, P!TypeOK
  <1>1. ASSUME NEW w \in lateProbes, LateProbe(w) PROVE P!SafetyInv'
    BY <1>0, <1>1, CutIdleSafe DEF LateProbe, LateKept
  <1>2. ASSUME NEW w \in lateOpens, LateOpen(w) PROVE P!SafetyInv'
    <2>1. w.port \in Ports /\ w.id \in Devices
      BY DEF LateApart
    <2>2. CASE UNCHANGED <<handles, disconnected>>
      BY <1>0, <1>2, <2>2, CutIdleSafe DEF LateOpen, LateKept
    <2>3. CASE OpenUnowned(w)
      BY <1>2, <2>1, <2>3, UnownedSafe DEF LateOpen, LateKept
    <2>4. QED
      BY <1>2, <2>2, <2>3 DEF LateOpen
  <1>3. ASSUME NEW h \in lateCloses, LateClose(h) PROVE P!SafetyInv'
    <2>1. /\ h \in P!Handles /\ h \notin P!Registered
          /\ probe = "register" => h # fresh
      BY DEF LateApart
    <2>2. QED
      BY <1>3, <2>1, SameClose, LateCloseSafe DEF LateClose
  <1>4. QED
    BY <1>1, <1>2, <1>3 DEF Late

LEMMA ManagerNext == P!SafetyInv /\ LateApart /\ [Next]_vars => P!SafetyInv'
  <1> SUFFICES ASSUME P!SafetyInv, LateApart, [Next]_vars PROVE P!SafetyInv'
    OBVIOUS
  <1>1. CASE Uninterrupted
    BY <1>1, Bounds, P!SafetyNext DEF Uninterrupted, P!Next
  <1>2. CASE UNCHANGED vars
    BY <1>2, Bounds, P!SafetyNext DEF vars, managerVars, P!vars, P!worldVars,
       P!tableVars, P!logVars, P!ownerVars, P!scanVars, P!probeVars
  <1>3. QED
    BY <1>1, <1>2, CutSafe, RaisedSafe, LateSafe, StepIs
----------------------------------------------------------------------------
\* Every open handle is accounted for.

Books == FreshIsNewest /\ TableIsCleared /\ OpenIsAccounted

\* IDs stay, so what is superseded stays so.
LEMMA StaysSuperseded ==
  ASSUME P!Handles \subseteq P!Handles',
         \A g \in P!Handles : handles'[g].id = handles[g].id,
         NEW h \in P!Handles, Superseded(h)
  PROVE  Superseded(h)'
  BY DEF Superseded

\* What workers were left with stays out of the table, and out of the hands of
\* the tasks.
LEMMA ApartKept ==
  ASSUME LateApart, lateOpens' \subseteq lateOpens, lateCloses' \subseteq lateCloses,
         P!Handles \subseteq P!Handles', P!Registered' \subseteq P!Registered,
         probe' = "register" => UNCHANGED <<probe, fresh>>
  PROVE  LateApart'
  BY DEF LateApart

LEMMA BooksInit == Init => SafetyInv
  <1> SUFFICES ASSUME Init PROVE SafetyInv
    OBVIOUS
  <1>1. P!Init
    BY DEF Init, D!Init, P!Init, D!None, P!None
  <1>2. P!SafetyInv
    BY <1>1, Bounds, P!SafetyInit
  <1>3. P!Handles = {} /\ probe = "ended" /\ ~Stopped
    BY <1>1 DEF P!Init, P!Handles, Stopped
  <1>4. LateApart
    BY DEF Init, LateApart
  <1>5. QED
    BY <1>2, <1>3, <1>4
       DEF SafetyInv, FreshIsNewest, TableIsCleared, OpenIsAccounted

\* A step that moves no handle.
LEMMA BooksKept ==
  ASSUME Books, UNCHANGED <<handles, devices>>, abandoned \subseteq abandoned',
         owner = "close" => UNCHANGED <<owner, closing>> \/ closing = {},
         \/ scan = "disconnect" => UNCHANGED <<scan, victim>>
         \/ victim \in abandoned',
         probe = "register" => UNCHANGED <<probe, fresh>>,
         probe' = "register" => probe = "register",
         Stopped' => Stopped \/ P!Registered = {}
  PROVE  Books'
  <1>1. P!Registered' = P!Registered /\ P!Handles' = P!Handles
    BY DEF P!Registered, P!Handles
  <1>2. \A h \in P!Handles : Superseded(h) => Superseded(h)'
    BY <1>1, StaysSuperseded
  <1>3. OpenIsAccounted'
    BY <1>1, <1>2 DEF Books, OpenIsAccounted, Accounted
  <1>4. QED
    BY <1>1, <1>3 DEF Books, FreshIsNewest, TableIsCleared

\* A step that closes one handle, which is not in the table.
LEMMA BooksClosed ==
  ASSUME P!SafetyInv, Books, NEW h \in P!Handles, P!Close(h),
         UNCHANGED <<devices, probe, fresh, owner, stopEvent>>, abandoned' = abandoned,
         closing' \in {closing, closing \ {h}},
         scan = "disconnect" => UNCHANGED <<scan, victim>> \/ victim = h
  PROVE  Books'
  <1>1. /\ Len(handles') = Len(handles) /\ P!Handles' = P!Handles
        /\ ~handles'[h].open
        /\ \A g \in P!Handles : /\ handles'[g].id = handles[g].id
                                /\ handles'[g].open => handles[g].open
    BY Bounds, P!CloseFacts DEF P!SafetyInv, P!TypeInv
  <1>2. P!Registered' = P!Registered
    BY DEF P!Registered
  <1>3. ASSUME NEW g \in P!Handles, handles'[g].open PROVE Accounted(g)'
    <2>1. g # h /\ handles[g].open
      BY <1>1, <1>3
    <2>2. Accounted(g)
      BY <2>1 DEF Books, OpenIsAccounted
    <2>3. Superseded(g) => Superseded(g)'
      BY <1>1, StaysSuperseded
    <2>4. QED
      BY <1>2, <2>1, <2>2, <2>3 DEF Accounted
  <1>4. QED
    BY <1>1, <1>2, <1>3
       DEF Books, FreshIsNewest, TableIsCleared, OpenIsAccounted, Stopped

\* A step that opens a port.
LEMMA BooksOpened ==
  ASSUME Books,
         NEW n, n = Len(handles'), P!Handles' = P!Handles \cup {n},
         \A h \in P!Handles : handles'[h] = handles[h],
         UNCHANGED <<devices, owner, closing, scan, victim, stopEvent>>,
         \/ /\ probe # "register" /\ probe' = "register" /\ fresh' = n
            /\ abandoned' = abandoned
            /\ \A h \in P!Registered : n > h
         \/ /\ abandoned' = abandoned \cup {n}
            /\ \/ UNCHANGED <<probe, fresh>>
               \/ probe # "register" /\ probe' # "register"
  PROVE  Books'
  <1>1. P!Registered' = P!Registered
    BY DEF P!Registered
  <1>2. ASSUME NEW h \in P!Handles, handles[h].open PROVE Accounted(h)'
    <2>1. Accounted(h)
      BY <1>2 DEF Books, OpenIsAccounted
    <2>2. Superseded(h) => Superseded(h)'
      BY StaysSuperseded
    <2>3. QED
      BY <1>1, <2>1, <2>2 DEF Accounted
  <1>3. Accounted(n)'
    BY DEF Accounted
  <1>4. QED
    BY <1>1, <1>2, <1>3 DEF Books, FreshIsNewest, TableIsCleared, OpenIsAccounted,
       Stopped
\* The device of a port that has gone leaves the table, to be closed.
LEMMA BooksDropped ==
  ASSUME P!SafetyInv, P!SafetyInv', Books, NEW p \in Ports, P!DropPort(p),
         UNCHANGED abandoned
  PROVE  Books'
  <1> USE DEF P!scanVars, P!ownerVars, P!probeVars
  <1>1. P!TypeOK /\ P!TypeOK' /\ ~Stopped /\ ~Stopped'
    BY DEF P!SafetyInv, P!TypeInv, P!StopWaits, P!DropPort, Stopped
  <1>2. CASE ~ \E d \in Devices : P!OnPort(d, p)
    BY <1>1, <1>2, BooksKept DEF P!DropPort
  <1>3. CASE \E d \in Devices : P!OnPort(d, p)
    <2>1. PICK d \in Devices : /\ victim' = devices[d]
                               /\ devices' = [devices EXCEPT ![d] = P!None]
                               /\ scan' = "disconnect"
      BY <1>3 DEF P!DropPort
    <2>2. UNCHANGED <<handles, owner, closing, probe, fresh>> /\ scan = "drop"
      BY DEF P!DropPort
    <2>3. P!Handles' = P!Handles
      BY <2>2 DEF P!Handles
    <2>4. /\ P!Registered \subseteq P!Registered' \cup {victim'}
          /\ P!Registered' \subseteq P!Registered
      <3>1. /\ P!Registered = {devices[e] : e \in Devices} \ {P!None}
            /\ P!Registered' = {devices'[e] : e \in Devices} \ {P!None}
        BY <1>1, Bounds, P!RegisteredIs, P!RegisteredIsNext
      <3>2. \A e \in Devices : devices'[e] = IF e = d THEN P!None ELSE devices[e]
        BY <1>1, <2>1 DEF P!TypeOK
      <3>3. QED
        BY <2>1, <3>1, <3>2
    <2>5. \A h \in P!Handles : Superseded(h) => Superseded(h)'
      BY <2>2, <2>3, StaysSuperseded
    <2>6. OpenIsAccounted'
      BY <2>1, <2>2, <2>3, <2>4, <2>5 DEF Books, OpenIsAccounted, Accounted
    <2>7. QED
      BY <1>1, <2>2, <2>4, <2>6 DEF Books, FreshIsNewest, TableIsCleared
  <1>4. QED
    BY <1>2, <1>3

\* The handle just opened is registered: the one it replaces was opened before.
LEMMA BooksRegistered ==
  ASSUME P!SafetyInv, P!SafetyInv', Books, P!Register, UNCHANGED abandoned
  PROVE  Books'
  <1> USE DEF P!scanVars, P!ownerVars
  <1>1. /\ P!TypeOK /\ P!TypeOK' /\ ~Stopped /\ ~Stopped'
        /\ fresh \in P!Handles
    BY DEF P!SafetyInv, P!TypeInv, P!TypeOK, P!AtWork, P!StopWaits, P!Register,
           Stopped
  <1>2. /\ UNCHANGED <<handles, owner, closing, scan, victim>>
        /\ probe = "register" /\ probe' = "connect"
        /\ devices' = [devices EXCEPT ![handles[fresh].id] = fresh]
    BY DEF P!Register
  <1>3. P!Handles' = P!Handles /\ P!Handles = 1 .. Len(handles)
    BY <1>1, <1>2 DEF P!Handles, P!TypeOK
  <1>4. /\ P!Registered = {devices[e] : e \in Devices} \ {P!None}
        /\ P!Registered' = {devices'[e] : e \in Devices} \ {P!None}
    BY <1>1, Bounds, P!RegisteredIs, P!RegisteredIsNext
  <1>5. handles[fresh].id \in Devices
    <2>1. handles \in Seq(P!Handle)
      BY <1>1 DEF P!TypeOK, P!Handle
    <2>2. handles[fresh] \in P!Handle
      BY <1>1, <1>3, <2>1
    <2>3. QED
      BY <2>2 DEF P!Handle
  <1>6. \A d \in Devices :
           devices'[d] = IF d = handles[fresh].id THEN fresh ELSE devices[d]
    BY <1>1, <1>2 DEF P!TypeOK
  <1>7. ASSUME NEW h \in P!Registered
        PROVE  h \in P!Registered' \/ Superseded(h)'
    <2>1. PICK d \in Devices : devices[d] = h /\ h # P!None
      BY <1>4
    <2>2. CASE d # handles[fresh].id
      BY <1>4, <1>6, <2>1, <2>2
    <2>3. CASE d = handles[fresh].id /\ h # fresh
      <3>1. handles[h].id = d /\ h \in P!Handles
        BY <1>1, <2>1 DEF P!SafetyInv, P!KeyedById, P!TypeOK
      <3>2. fresh > h
        BY <1>2 DEF Books, FreshIsNewest
      <3>3. QED
        BY <1>1, <1>2, <1>3, <2>3, <3>1, <3>2 DEF Superseded
    <2>4. CASE h = fresh
      BY <1>1, <1>4, <1>5, <1>6, <2>1, <2>4
    <2>5. QED
      BY <2>2, <2>3, <2>4
  <1>8. fresh \in P!Registered'
    <2>1. fresh # P!None
      BY <1>1, <1>3 DEF P!None
    <2>2. QED
      BY <1>4, <1>5, <1>6, <2>1
  <1>9. \A h \in P!Handles : Superseded(h) => Superseded(h)'
    BY <1>2, <1>3, StaysSuperseded
  <1>10. OpenIsAccounted'
    BY <1>2, <1>3, <1>7, <1>8, <1>9 DEF Books, OpenIsAccounted, Accounted
  <1>11. QED
    BY <1>1, <1>2, <1>10 DEF Books, FreshIsNewest, TableIsCleared
LEMMA BooksOwner ==
  ASSUME P!SafetyInv, P!SafetyInv', Books, P!Start \/ P!BeginStop \/ P!Stop,
         UNCHANGED abandoned
  PROVE  Books'
  <1> USE DEF P!worldVars, P!tableVars, P!logVars, P!scanVars, P!probeVars
  <1>1. CASE P!Start
    BY <1>1, BooksKept DEF P!Start, Stopped
  <1>2. CASE P!BeginStop \/ P!JoinScan \/ P!JoinProbe
    BY <1>2, BooksKept DEF P!BeginStop, P!JoinScan, P!JoinProbe, Stopped
  <1>3. CASE P!Clear
    <2>1. /\ scan = "ended" /\ probe = "ended" /\ owner = "clear"
          /\ owner' = "close" /\ closing' = P!Registered
          /\ UNCHANGED <<handles, scan, probe>>
      BY <1>3 DEF P!Clear, P!SafetyInv, P!StopWaits
    <2>2. P!Handles' = P!Handles
      BY <2>1 DEF P!Handles
    <2>3. \A h \in P!Handles : Superseded(h) => Superseded(h)'
      BY <2>1, <2>2, StaysSuperseded
    <2>4. OpenIsAccounted'
      BY <2>1, <2>2, <2>3 DEF Books, OpenIsAccounted, Accounted
    <2>5. QED
      BY <2>1, <2>4 DEF Books, FreshIsNewest, TableIsCleared, Stopped
  <1>4. CASE P!CloseNext
    <2>1. PICK h \in closing : P!Close(h) /\ closing' = closing \ {h}
      BY <1>4 DEF P!CloseNext
    <2>2. h \in P!Handles /\ scan = "ended"
      BY <1>4 DEF P!CloseNext, P!SafetyInv, P!TypeInv, P!TypeOK, P!StopWaits
    <2>3. QED
      BY <1>4, <2>1, <2>2, BooksClosed DEF P!CloseNext, Stopped
  <1>5. CASE P!EndStop
    <2>1. P!Registered = {}
      BY <1>5 DEF P!EndStop, P!SafetyInv, P!CloseIsLast
    <2>2. QED
      BY <1>5, <2>1, BooksKept DEF P!EndStop
  <1>6. QED
    BY <1>1, <1>2, <1>3, <1>4, <1>5 DEF P!Stop

LEMMA BooksTasks ==
  ASSUME P!SafetyInv, P!SafetyInv', Books, P!Scan \/ P!Probe,
         UNCHANGED abandoned
  PROVE  Books'
  <1> USE DEF P!worldVars, P!tableVars, P!logVars, P!ownerVars, P!scanVars,
              P!probeVars
  <1>1. CASE P!ListPorts \/ P!ComparePorts \/ P!OnDisconnect \/ P!AddPorts
             \/ P!ScanAgain
    BY <1>1, BooksKept DEF P!ListPorts, P!ComparePorts, P!OnDisconnect,
       P!AddPorts, P!ScanAgain, Stopped
  <1>2. CASE P!Disconnect
    <2>1. victim \in P!Handles
      BY <1>2 DEF P!Disconnect, P!SafetyInv, P!TypeInv, P!TypeOK, P!AtWork
    <2>2. QED
      BY <1>2, <2>1, BooksClosed DEF P!Disconnect
  <1>3. CASE P!TakePorts \/ P!EndProbe \/ P!OnConnect \/ P!EndCycle \/ P!ProbeAgain
    BY <1>3, BooksKept DEF P!TakePorts, P!EndProbe, P!OnConnect, P!EndCycle,
       P!ProbeAgain, Stopped
  <1>4. ASSUME NEW p \in Ports, P!ProbePort(p) PROVE Books'
    BY <1>4, BooksKept DEF P!ProbePort, Stopped
  <1>5. ASSUME NEW r \in results, P!OpenPort(r) PROVE Books'
    <2>1. CASE UNCHANGED <<handles, fresh, probe>>
      BY <1>5, <2>1, BooksKept DEF P!OpenPort, Stopped
    <2>2. CASE /\ occupant[r.port] # 0
               /\ handles' = Append(handles, [port |-> r.port, id |-> r.id,
                               plug |-> occupant[r.port], open |-> TRUE])
               /\ disconnected' = Append(disconnected, 0)
               /\ fresh' = Len(handles') /\ probe' = "register"
      <3>1. /\ P!Handles' = P!Handles \cup {Len(handles')}
            /\ \A h \in P!Handles : /\ handles'[h] = handles[h]
                                  /\ Len(handles') > h
        <4>1. P!TypeInv /\ r.port \in Ports /\ r.id \in Devices
          BY DEF P!SafetyInv, P!TypeInv, P!TypeOK
        <4>2. /\ P!Handles' = P!Handles \cup {Len(handles')}
              /\ Len(handles') = Len(handles) + 1 /\ Len(handles) \in Nat
              /\ P!Handles = 1 .. Len(handles)
              /\ \A h \in P!Handles : handles'[h] = handles[h]
          BY <2>2, <4>1, Bounds, P!OpenFacts
        <4>3. QED
          BY <4>2
      <3>2. P!Registered \subseteq P!Handles
        BY Bounds, P!RegisteredIs DEF P!SafetyInv, P!TypeInv
      <3>3. QED
        BY <1>5, <2>2, <3>1, <3>2, BooksOpened DEF P!OpenPort
    <2>3. QED
      BY <1>5, <2>1, <2>2 DEF P!OpenPort
  <1>6. QED
    BY <1>1, <1>2, <1>3, <1>4, <1>5, BooksDropped, BooksRegistered
       DEF P!Scan, P!Probe

LEMMA BooksCut ==
  ASSUME P!SafetyInv, P!SafetyInv', Books, Cut
  PROVE  Books'
  <1>1. CASE CutScan
    BY <1>1, BooksKept DEF CutScan, ScanEnds, ScanKept, Stopped
  <1>2. CASE CutDisconnect
    BY <1>2, BooksKept DEF CutDisconnect, ScanEnds, ScanKept, Stopped
  <1>3. CASE CutProbe
    BY <1>3, BooksKept DEF CutProbe, ProbeEnds, ProbeKept, Stopped
  <1>4. ASSUME NEW r \in results, CutOpen(r) PROVE Books'
    <2>1. CASE UNCHANGED <<handles, abandoned>>
      BY <1>4, <2>1, CutOpenIs, BooksKept DEF ProbeKept, Stopped
    <2>2. CASE OpenUnowned(r) /\ UNCHANGED failures /\ probe' = "ended"
      <3>1. /\ P!Handles' = P!Handles \cup {Len(handles')}
            /\ \A h \in P!Handles : handles'[h] = handles[h]
        BY <1>4, <2>2, CutOpenIs, UnownedSafe DEF ProbeKept
      <3>2. QED
        BY <1>4, <2>2, <3>1, CutOpenIs, BooksOpened DEF OpenUnowned, ProbeKept
    <2>3. QED
      BY <1>4, <2>1, <2>2, CutOpenIs
  <1>5. QED
    BY <1>1, <1>2, <1>3, <1>4 DEF Cut

LEMMA BooksLate ==
  ASSUME P!SafetyInv, P!SafetyInv', LateApart, Books, Late
  PROVE  Books'
  <1>1. ASSUME NEW w \in lateProbes, LateProbe(w) PROVE Books'
    BY <1>1, BooksKept DEF LateProbe, LateKept, Stopped
  <1>2. ASSUME NEW w \in lateOpens, LateOpen(w) PROVE Books'
    <2>1. w.port \in Ports /\ w.id \in Devices
      BY DEF LateApart
    <2>2. CASE UNCHANGED <<handles, abandoned>>
      BY <1>2, <2>2, BooksKept DEF LateOpen, LateKept, Stopped
    <2>3. CASE OpenUnowned(w)
      <3>1. /\ P!Handles' = P!Handles \cup {Len(handles')}
            /\ \A h \in P!Handles : handles'[h] = handles[h]
        BY <1>2, <2>1, <2>3, UnownedSafe DEF LateOpen, LateKept
      <3>2. QED
        BY <1>2, <2>3, <3>1, BooksOpened DEF LateOpen, LateKept, OpenUnowned
    <2>4. QED
      BY <1>2, <2>2, <2>3 DEF LateOpen
  <1>3. ASSUME NEW h \in lateCloses, LateClose(h) PROVE Books'
    <2>1. h \in P!Handles /\ P!Close(h)
      BY <1>3, SameClose DEF LateApart, LateClose
    <2>2. QED
      BY <1>3, <2>1, BooksClosed DEF LateClose, LateKept
  <1>4. QED
    BY <1>1, <1>2, <1>3 DEF Late

LEMMA BooksNext == SafetyInv /\ [Next]_vars => Books'
  <1> SUFFICES ASSUME SafetyInv, [Next]_vars PROVE Books'
    OBVIOUS
  <1>1. P!SafetyInv /\ P!SafetyInv' /\ Books /\ LateApart
    BY ManagerNext DEF SafetyInv, Books
  <1> USE DEF P!worldVars, P!tableVars, P!logVars, P!ownerVars, P!scanVars,
              P!probeVars
  <1>2. CASE P!World /\ UNCHANGED abandoned
    BY <1>1, <1>2, BooksKept DEF P!World, P!Plug, P!Unplug, Stopped
  <1>3. CASE UNCHANGED vars
    BY <1>1, <1>3, BooksKept DEF vars, managerVars, Stopped
  <1>4. CASE Uninterrupted
    BY <1>1, <1>2, <1>4, BooksOwner, BooksTasks DEF Uninterrupted
  <1>5. CASE Raised
    BY <1>1, <1>5, BooksKept DEF Raised, ProbeRaises, ProbeKept, Stopped
  <1>6. QED
    BY <1>1, <1>3, <1>4, <1>5, StepIs, BooksCut, BooksLate

----------------------------------------------------------------------------
\* Workers left over stay apart from the table and from the tasks.

\* The manager's own steps take handles out of the table, but for Register,
\* and give a task only the handle it has just opened.
LEMMA ApartManager ==
  ASSUME P!SafetyInv, P!SafetyInv', LateApart, Uninterrupted
  PROVE  LateApart'
  <1> USE DEF P!worldVars, P!tableVars, P!logVars, P!ownerVars, P!scanVars,
              P!probeVars, lateVars
  <1>1. P!TypeInv /\ P!TypeOK /\ P!TypeOK' /\ UNCHANGED lateVars
    BY DEF P!SafetyInv, P!TypeInv, Uninterrupted
  <1>2. /\ P!Registered = {devices[e] : e \in Devices} \ {P!None}
        /\ P!Registered' = {devices'[e] : e \in Devices} \ {P!None}
        /\ P!Registered \subseteq P!Handles
    BY <1>1, Bounds, P!RegisteredIs, P!RegisteredIsNext
  <1>3. ASSUME NEW h \in P!Handles, P!Close(h) PROVE P!Handles' = P!Handles
    BY <1>1, <1>3, Bounds, P!CloseFacts
  <1>4. CASE /\ UNCHANGED <<handles, devices>>
             /\ probe' = "register" => UNCHANGED <<probe, fresh>>
    BY <1>1, <1>2, <1>4, ApartKept DEF P!Handles
  <1>5. CASE P!CloseNext \/ P!Disconnect
    <2>1. PICK h \in P!Handles : P!Close(h)
      BY <1>1, <1>5 DEF P!CloseNext, P!Disconnect, P!TypeOK, P!TypeInv, P!AtWork
    <2>2. UNCHANGED <<devices, probe, fresh>>
      BY <1>5 DEF P!CloseNext, P!Disconnect
    <2>3. QED
      BY <1>1, <1>2, <1>3, <2>1, <2>2, ApartKept
  <1>6. CASE P!Clear
    BY <1>1, <1>2, <1>6, ApartKept DEF P!Clear, P!Handles
  <1>7. ASSUME NEW p \in Ports, P!DropPort(p) PROVE LateApart'
    <2>1. UNCHANGED <<handles, probe, fresh>>
      BY <1>7 DEF P!DropPort
    <2>2. \A d \in Devices : devices'[d] \in {devices[d], P!None}
      BY <1>1, <1>7 DEF P!DropPort, P!TypeOK
    <2>3. QED
      BY <1>1, <1>2, <2>1, <2>2, ApartKept DEF P!Handles
  <1>8. CASE P!Register
    <2>1. /\ UNCHANGED handles /\ probe = "register" /\ probe' = "connect"
          /\ devices' = [devices EXCEPT ![handles[fresh].id] = fresh]
      BY <1>8 DEF P!Register
    <2>2. \A d \in Devices : devices'[d] \in {devices[d], fresh}
      BY <1>1, <2>1 DEF P!TypeOK
    <2>3. P!Registered' \subseteq P!Registered \cup {fresh} /\ P!Handles' = P!Handles
      BY <1>2, <2>1, <2>2 DEF P!Handles
    <2>4. QED
      BY <1>1, <2>1, <2>3 DEF LateApart
  <1>9. ASSUME NEW r \in results, P!OpenPort(r) PROVE LateApart'
    <2>1. CASE UNCHANGED <<handles, fresh, probe>>
      BY <1>4, <1>9, <2>1 DEF P!OpenPort
    <2>2. CASE /\ occupant[r.port] # 0
               /\ handles' = Append(handles, [port |-> r.port, id |-> r.id,
                               plug |-> occupant[r.port], open |-> TRUE])
               /\ disconnected' = Append(disconnected, 0)
               /\ fresh' = Len(handles')
      <3>1. P!Handles' = P!Handles \cup {fresh'} /\ fresh' \notin P!Handles
        BY <1>1, <2>2, Bounds, P!OpenFacts DEF P!TypeOK
      <3>2. P!Registered' = P!Registered
        BY <1>9 DEF P!OpenPort, P!Registered
      <3>3. QED
        BY <1>1, <3>1, <3>2 DEF LateApart
    <2>3. QED
      BY <1>9, <2>1, <2>2 DEF P!OpenPort
  <1>10. CASE P!World \/ P!Start \/ P!BeginStop \/ P!JoinScan \/ P!JoinProbe
              \/ P!EndStop
    BY <1>4, <1>10 DEF P!World, P!Plug, P!Unplug, P!Start, P!BeginStop, P!JoinScan,
       P!JoinProbe, P!EndStop
  <1>11. CASE P!ListPorts \/ P!ComparePorts \/ P!OnDisconnect \/ P!AddPorts
              \/ P!ScanAgain
    BY <1>4, <1>11 DEF P!ListPorts, P!ComparePorts, P!OnDisconnect, P!AddPorts,
       P!ScanAgain
  <1>12. ASSUME \/ P!TakePorts \/ P!EndProbe \/ P!OnConnect \/ P!EndCycle
                \/ P!ProbeAgain \/ \E p \in Ports : P!ProbePort(p)
         PROVE  LateApart'
    BY <1>4, <1>12 DEF P!TakePorts, P!EndProbe, P!OnConnect, P!EndCycle,
       P!ProbeAgain, P!ProbePort
  <1>13. QED
    BY <1>5, <1>6, <1>7, <1>8, <1>9, <1>10, <1>11, <1>12
       DEF Uninterrupted, P!Stop, P!Scan, P!Probe

\* What a cancellation leaves to a worker: a handle that was being closed, or
\* one that nobody got.
LEMMA ApartCut ==
  ASSUME P!SafetyInv, P!SafetyInv', LateApart, Cut
  PROVE  LateApart'
  <1>1. P!TypeOK /\ P!Registered \subseteq P!Handles
    BY Bounds, P!RegisteredIs DEF P!SafetyInv, P!TypeInv
  <1>2. CASE CutScan \/ CutProbe
    BY <1>2, ApartKept DEF CutScan, CutProbe, ScanEnds, ScanKept, ProbeEnds,
       ProbeKept, P!Handles, P!Registered
  <1>3. CASE CutDisconnect
    <2>1. /\ UNCHANGED <<handles, devices, probe, fresh, lateOpens>>
          /\ lateCloses' \subseteq lateCloses \cup {victim}
          /\ scan = "disconnect"
      BY <1>3 DEF CutDisconnect, ScanKept
    <2>2. /\ victim \in P!Handles /\ victim \notin P!Registered
          /\ probe = "register" => victim # fresh
      BY <2>1 DEF P!SafetyInv, P!TypeInv, P!TypeOK, P!AtWork, P!VictimIsOut,
         P!FreshIsNew
    <2>3. P!Handles' = P!Handles /\ P!Registered' = P!Registered
      BY <2>1 DEF P!Handles, P!Registered
    <2>4. QED
      BY <2>1, <2>2, <2>3 DEF LateApart
  <1>4. ASSUME NEW r \in results, CutOpen(r) PROVE LateApart'
    <2>1. P!Registered' = P!Registered /\ probe' # "register" /\ starts \in 0 .. MaxStarts
      BY <1>1, <1>4, CutOpenIs DEF ProbeKept, P!Registered, P!TypeOK
    <2>2. CASE /\ UNCHANGED <<handles, lateCloses>>
               /\ lateOpens' \in {lateOpens, lateOpens \cup
                     {[port |-> r.port, id |-> r.id, since |-> starts]}}
      BY <1>4, <2>1, <2>2, CutOpenIs DEF LateApart, P!Handles
    <2>3. CASE /\ OpenUnowned(r) /\ UNCHANGED <<failures, lateOpens>>
               /\ lateCloses' \in {lateCloses, lateCloses \cup {Len(handles')}}
      <3>1. /\ P!Handles' = P!Handles \cup {Len(handles')}
            /\ Len(handles') \notin P!Handles
        BY <1>4, <2>3, CutOpenIs, UnownedSafe DEF ProbeKept
      <3>2. QED
        BY <1>1, <2>1, <2>3, <3>1 DEF LateApart
    <2>4. QED
      BY <1>4, <2>2, <2>3, CutOpenIs
  <1>5. QED
    BY <1>2, <1>3, <1>4 DEF Cut

\* What a worker opens is closed by a worker.
LEMMA ApartLate ==
  ASSUME P!SafetyInv, P!SafetyInv', LateApart, Late
  PROVE  LateApart'
  <1>1. P!TypeInv /\ P!TypeOK /\ P!Registered \subseteq P!Handles
    BY Bounds, P!RegisteredIs DEF P!SafetyInv, P!TypeInv
  <1>2. UNCHANGED <<probe, fresh>> /\ P!Registered' = P!Registered
    BY DEF Late, LateProbe, LateOpen, LateClose, LateKept, P!Registered
  <1>3. ASSUME NEW w \in lateProbes, LateProbe(w) PROVE LateApart'
    BY <1>2, <1>3, ApartKept DEF LateProbe, P!Handles
  <1>4. ASSUME NEW w \in lateOpens, LateOpen(w) PROVE LateApart'
    <2>1. w.port \in Ports /\ w.id \in Devices
      BY DEF LateApart
    <2>2. CASE UNCHANGED <<handles, lateCloses>>
      BY <1>2, <1>4, <2>2, ApartKept DEF LateOpen, P!Handles
    <2>3. CASE OpenUnowned(w) /\ lateCloses' = lateCloses \cup {Len(handles')}
      <3>1. /\ P!Handles' = P!Handles \cup {Len(handles')}
            /\ Len(handles') \notin P!Handles
        BY <1>4, <2>1, <2>3, UnownedSafe DEF LateOpen, LateKept
      <3>2. probe = "register" => fresh \in P!Handles
        BY <1>1 DEF P!TypeInv, P!TypeOK, P!AtWork
      <3>3. lateOpens' \subseteq lateOpens
        BY <1>4 DEF LateOpen
      <3>4. QED
        BY <1>1, <1>2, <2>3, <3>1, <3>2, <3>3 DEF LateApart
    <2>4. QED
      BY <1>4, <2>2, <2>3 DEF LateOpen
  <1>5. ASSUME NEW h \in lateCloses, LateClose(h) PROVE LateApart'
    <2>1. h \in P!Handles /\ P!Close(h)
      BY <1>5, SameClose DEF LateApart, LateClose
    <2>2. P!Handles' = P!Handles
      BY <1>1, <2>1, Bounds, P!CloseFacts
    <2>3. QED
      BY <1>2, <1>5, <2>2, ApartKept DEF LateClose
  <1>6. QED
    BY <1>3, <1>4, <1>5 DEF Late

LEMMA ApartNext == SafetyInv /\ [Next]_vars => LateApart'
  <1> SUFFICES ASSUME SafetyInv, [Next]_vars PROVE LateApart'
    OBVIOUS
  <1>1. P!SafetyInv /\ P!SafetyInv' /\ LateApart
    BY ManagerNext DEF SafetyInv
  <1>2. CASE Raised
    BY <1>1, <1>2, ApartKept DEF Raised, ProbeRaises, ProbeKept, P!Handles,
       P!Registered
  <1>3. CASE UNCHANGED vars
    BY <1>1, <1>3, ApartKept DEF vars, managerVars, lateVars, P!Handles,
       P!Registered
  <1>4. QED
    BY <1>1, <1>2, <1>3, StepIs, ApartManager, ApartCut, ApartLate

LEMMA SafetyNext == SafetyInv /\ [Next]_vars => SafetyInv'
  BY ManagerNext, BooksNext, ApartNext DEF SafetyInv, Books

----------------------------------------------------------------------------
\* The inductive invariant: cancellation leaves the tables of the manager as
\* consistent as they are in the threaded one, and every open handle is
\* accounted for.
THEOREM Safety == Spec => []SafetyInv
  BY BooksInit, SafetyNext, PTL DEF Spec

\* When stop() has returned, an open port is one whose opening or closing a
\* cancellation cut off, or that of a device registered anew since.
THEOREM StopReleasesTheRestAlways == Spec => []StopReleasesTheRest
  <1>1. SafetyInv => StopReleasesTheRest
    <2> SUFFICES ASSUME SafetyInv, Stopped, NEW h \in P!Handles, handles[h].open
                 PROVE  h \in abandoned \/ Superseded(h)
      BY SameTables DEF StopReleasesTheRest, Superseded
    <2>1. /\ scan = "ended" /\ probe = "ended" /\ owner = "idle"
          /\ P!Registered = {}
      BY DEF SafetyInv, P!SafetyInv, P!StopWaits, TableIsCleared, Stopped
    <2>2. QED
      BY <2>1 DEF SafetyInv, OpenIsAccounted, Accounted
  <1>2. QED
    BY <1>1, Safety, PTL

\* Between the end of stop() and the next start() no callback fires, the
\* tables do not change and no worker begins, although cancellations can be
\* swallowed; ports are opened and closed only by workers left over.
THEOREM QuietAfterStopAlways == Spec => QuietAfterStop
  <1> DEFINE Quiet ==
        Stopped =>
          /\ UNCHANGED <<connected, unprobed, devices>>
          /\ lateProbes' \subseteq lateProbes /\ lateOpens' \subseteq lateOpens
          /\ \A h \in D!Handles : /\ disconnected'[h] = disconnected[h]
                                  /\ handles'[h] = handles[h] \/ h \in lateCloses
          /\ Len(handles') = Len(handles) \/ lateOpens' # lateOpens
  <1>1. SafetyInv /\ [Next]_vars => [Quiet]_vars
    <2> SUFFICES ASSUME SafetyInv, [Next]_vars, Stopped PROVE Quiet
      OBVIOUS
    <2>0. P!TypeInv /\ P!TypeOK /\ P!SafetyInv /\ LateApart
      BY DEF SafetyInv, P!SafetyInv, P!TypeInv
    <2>1. scan = "ended" /\ probe = "ended" /\ owner = "idle"
      BY DEF SafetyInv, P!SafetyInv, P!StopWaits, Stopped
    <2>2. ~P!Stop
      BY <2>1 DEF P!Stop, P!JoinScan, P!JoinProbe, P!Clear, P!CloseNext, P!EndStop
    <2>3. ~P!Scan
      BY <2>1 DEF P!Scan, P!ListPorts, P!ComparePorts, P!Disconnect,
         P!OnDisconnect, P!AddPorts, P!ScanAgain, P!DropPort
    <2>4. ~P!Probe
      BY <2>1 DEF P!Probe, P!TakePorts, P!EndProbe, P!Register, P!OnConnect,
         P!EndCycle, P!ProbeAgain, P!ProbePort, P!OpenPort
    <2>5. ~Cut /\ ~Raised
      BY <2>1 DEF Cut, CutScan, CutDisconnect, CutProbe, CutOpen, Raised, ProbeRaises
    <2>6. CASE Uninterrupted \/ UNCHANGED vars
      BY <2>2, <2>3, <2>4, <2>6 DEF Uninterrupted, P!World, P!Plug, P!Unplug,
         P!Start, P!BeginStop, P!logVars, P!tableVars, vars, managerVars, lateVars
    <2>7. ASSUME NEW w \in lateProbes, LateProbe(w) PROVE Quiet
      BY <2>7 DEF LateProbe, LateKept
    <2>8. ASSUME NEW w \in lateOpens, LateOpen(w) PROVE Quiet
      <3>1. /\ UNCHANGED <<connected, unprobed, devices, lateProbes>>
            /\ lateOpens' = lateOpens \ {w} /\ lateOpens' # lateOpens
        BY <2>8 DEF LateOpen, LateKept
      <3>2. \A h \in P!Handles : /\ handles'[h] = handles[h]
                                /\ disconnected'[h] = disconnected[h]
        <4>1. w.port \in Ports /\ w.id \in Devices
          BY <2>0 DEF LateApart
        <4>2. OpenUnowned(w) => \A h \in P!Handles :
                 handles'[h] = handles[h] /\ disconnected'[h] = disconnected[h]
          BY <2>0, <2>8, <4>1, UnownedSafe DEF LateOpen, LateKept
        <4>3. QED
          BY <2>8, <4>2 DEF LateOpen
      <3>3. QED
        BY <3>1, <3>2, SameTables
    <2>9. ASSUME NEW h \in lateCloses, LateClose(h) PROVE Quiet
      <3>1. /\ UNCHANGED <<connected, unprobed, devices, disconnected, lateProbes,
                           lateOpens>>
            /\ h \in P!Handles /\ P!Close(h)
        BY <2>0, <2>9, SameClose DEF LateApart, LateClose, LateKept
      <3>2. /\ Len(handles') = Len(handles)
            /\ \A g \in P!Handles : g # h => handles'[g] = handles[g]
        BY <2>0, <3>1, Bounds, P!CloseFacts
      <3>3. QED
        BY <3>1, <3>2, SameTables
    <2>10. QED
      BY <2>5, <2>6, <2>7, <2>8, <2>9, StepIs DEF Late
  <1>2. QED
    BY <1>1, Safety, PTL DEF Spec, QuietAfterStop, Quiet

\* Whoever finds a device in the table finds it open, and on_disconnect is
\* called at most once for a device: also when cancellations strike.
THEOREM TablesStayRight == Spec => [](D!RegisteredIsOpen /\ D!DisconnectedOnce)
  <1>1. SafetyInv => D!RegisteredIsOpen /\ D!DisconnectedOnce
    BY SameTables DEF SafetyInv, P!SafetyInv, P!RegisteredIsOpen,
       P!DisconnectedOnce, D!RegisteredIsOpen, D!DisconnectedOnce
  <1>2. QED
    BY <1>1, Safety, PTL

=============================================================================
