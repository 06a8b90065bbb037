------------------------- MODULE DeviceManagerProofs -------------------------
(***************************************************************************)
(* Proofs about DeviceManager, for any number of ports, devices, pluggings *)
(* and starts: the type invariant, that whatever is registered is open,    *)
(* that on_disconnect is called once and after the close, and that nothing *)
(* happens between stop() and start().                                     *)
(***************************************************************************)
EXTENDS DeviceManager, SequenceTheorems, TLAPS

Handle == [port : Ports, id : Devices, plug : 1 .. MaxPlugs, open : BOOLEAN]

\* A thread has the handle it works on.
AtWork == /\ scan \in {"disconnect", "announce"} => victim # None
          /\ probe \in {"register", "connect"} => fresh # None

\* The log is kept for every handle.
LogFits == disconnected \in Seq(Nat) /\ Len(disconnected) = Len(handles)

TypeInv == TypeOK /\ AtWork /\ LogFits

\* stop() closes devices when both threads have ended, and none run while it
\* has nothing left to do.
StopWaits == /\ owner \in {"joinProbe", "clear", "close"} => scan = "ended"
             /\ owner \in {"clear", "close"} => probe = "ended"
             /\ (owner = "idle" /\ stopEvent) => scan = "ended" /\ probe = "ended"

\* The table is empty while stop() closes what was in it.
CloseIsLast == owner = "close" => Registered = {}

\* A handle is registered under its own ID: so at most once.
KeyedById == \A d \in Devices :
                devices[d] # None => handles[devices[d]].id = d

\* The handle a thread holds is nobody else's: the one being disconnected is
\* out of the table, the one just opened is not yet in it.
VictimIsOut == scan \in {"disconnect", "announce"} => victim \notin Registered
FreshIsNew  == probe = "register" => /\ fresh \notin Registered
                                     /\ handles[fresh].open
                                     /\ scan \in {"disconnect", "announce"}
                                          => fresh # victim

\* on_disconnect has not been called for the handle being disconnected.
Unannounced == /\ scan = "disconnect" => disconnected[victim] = 0
               /\ scan = "announce" => /\ disconnected[victim] = 0
                                       /\ ~handles[victim].open

SafetyInv == /\ TypeInv /\ StopWaits /\ CloseIsLast /\ KeyedById
             /\ VictimIsOut /\ FreshIsNew /\ Unannounced
             /\ RegisteredIsOpen /\ DisconnectedOnce

----------------------------------------------------------------------------
\* Type correctness.

LEMMA RegisteredIs ==
  ASSUME TypeOK
  PROVE  /\ Registered = {devices[d] : d \in Devices} \ {None}
         /\ Registered \subseteq Handles
  BY DEF TypeOK, Registered, Range

\* Closing a handle changes nothing but its open flag.
LEMMA CloseFacts ==
  ASSUME TypeOK, NEW h \in Handles, Close(h)
  PROVE  /\ handles' \in Seq(Handle) /\ Len(handles') = Len(handles)
         /\ Handles' = Handles
         /\ ~handles'[h].open
         /\ \A g \in Handles : /\ g # h => handles'[g] = handles[g]
                               /\ handles'[g].id = handles[g].id
                               /\ handles'[g].open => handles[g].open
  <1> DEFINE e == [handles[h] EXCEPT !.open = FALSE]
  <1>1. handles \in Seq(Handle)
    BY DEF TypeOK, Handle
  <1>2. Handles = 1 .. Len(handles)
    BY <1>1 DEF Handles
  <1>3. handles[h] \in Handle
    BY <1>1, <1>2, ElementOfSeq
  <1>4. e \in Handle /\ e.id = handles[h].id /\ e.open = FALSE
    BY <1>3 DEF Handle
  <1>5. handles' = [handles EXCEPT ![h] = e]
    BY DEF Close
  <1> HIDE DEF e
  <1>6. /\ handles' \in Seq(Handle) /\ Len(handles') = Len(handles)
        /\ \A j \in 1 .. Len(handles) :
              handles'[j] = IF j = h THEN e ELSE handles[j]
    BY <1>1, <1>2, <1>4, <1>5, ExceptSeq
  <1>7. Handles' = 1 .. Len(handles')
    BY <1>6 DEF Handles
  <1>8. QED
    BY <1>2, <1>4, <1>6, <1>7

\* Opening a port adds one open handle.
LEMMA OpenFacts ==
  ASSUME TypeInv, NEW r, r.port \in Ports, r.id \in Devices,
         occupant[r.port] # 0,
         handles' = Append(handles, [port |-> r.port, id |-> r.id,
                                     plug |-> occupant[r.port], open |-> TRUE]),
         disconnected' = Append(disconnected, 0)
  PROVE  /\ handles' \in Seq(Handle) /\ disconnected' \in Seq(Nat)
         /\ Len(disconnected') = Len(handles')
         /\ disconnected' \in [Handles' -> Nat]
         /\ Len(handles') = Len(handles) + 1 /\ Len(handles) \in Nat
         /\ Handles = 1 .. Len(handles)
         /\ Handles' = Handles \cup {Len(handles')}
         /\ Len(handles') \notin Handles /\ Len(handles') # None
         /\ \A h \in Handles : /\ handles'[h] = handles[h]
                               /\ disconnected'[h] = disconnected[h]
         /\ handles'[Len(handles')].open
         /\ handles'[Len(handles')].id = r.id
         /\ disconnected'[Len(handles')] = 0
  <1> DEFINE e == [port |-> r.port, id |-> r.id,
                   plug |-> occupant[r.port], open |-> TRUE]
  <1>1. handles \in Seq(Handle) /\ disconnected \in Seq(Nat)
    BY DEF TypeInv, TypeOK, Handle, LogFits
  <1>3. occupant[r.port] \in 1 .. MaxPlugs
    <2>1. occupant[r.port] \in 0 .. Len(plugs) /\ Len(plugs) <= MaxPlugs
      BY DEF TypeInv, TypeOK
    <2>2. Len(plugs) \in Nat
      BY DEF TypeInv, TypeOK
    <2>3. QED
      BY <2>1, <2>2, ManagerAssumption DEF ManagerAssumption
  <1>4. e \in Handle /\ e.open /\ e.id = r.id
    BY <1>3 DEF Handle
  <1> HIDE DEF e
  <1>5. handles' = Append(handles, e)
    BY DEF e
  <1>6. /\ handles' \in Seq(Handle) /\ Len(handles') = Len(handles) + 1
        /\ \A i \in 1 .. Len(handles) : handles'[i] = handles[i]
        /\ handles'[Len(handles) + 1] = e
    BY <1>1, <1>4, <1>5, AppendProperties
  <1>7. /\ disconnected' \in Seq(Nat) /\ Len(disconnected') = Len(disconnected) + 1
        /\ \A i \in 1 .. Len(disconnected) : disconnected'[i] = disconnected[i]
        /\ disconnected'[Len(disconnected) + 1] = 0
    BY <1>1, AppendProperties
  <1>8. Len(disconnected) = Len(handles) /\ Len(handles) \in Nat
    BY <1>1 DEF TypeInv, LogFits
  <1>9. Handles = 1 .. Len(handles) /\ Handles' = 1 .. Len(handles')
    BY <1>1, <1>6 DEF Handles
  <1>10. disconnected' \in [1 .. Len(disconnected') -> Nat]
    BY <1>7, LenProperties
  <1>11. Handles' = Handles \cup {Len(handles')} /\ Len(handles') \notin Handles
    BY <1>6, <1>8, <1>9
  <1>12. QED
    BY <1>4, <1>6, <1>7, <1>8, <1>9, <1>10, <1>11 DEF None

LEMMA TypeInit == Init => TypeInv
  <1> SUFFICES ASSUME Init PROVE TypeInv
    OBVIOUS
  <1> USE ManagerAssumption DEF ManagerAssumption, Init, None
  <1>1. Len(<<>>) = 0 /\ Handles = {}
    BY DEF Handles
  <1>2. disconnected \in [Handles -> Nat] /\ disconnected \in Seq(Nat)
    BY <1>1
  <1>3. /\ plugs \in Seq(Devices) /\ Len(plugs) <= MaxPlugs
        /\ occupant \in [Ports -> 0 .. Len(plugs)]
    BY <1>1
  <1>4. devices \in [Devices -> Handles \cup {None}]
    OBVIOUS
  <1>5. handles \in Seq([port : Ports, id : Devices, plug : 1 .. MaxPlugs,
                         open : BOOLEAN])
    OBVIOUS
  <1>6. failures \in 0 .. MaxFailures /\ starts \in 0 .. MaxStarts
    OBVIOUS
  <1>7. TypeOK
    BY <1>1, <1>2, <1>3, <1>4, <1>5, <1>6 DEF TypeOK
  <1>8. QED
    BY <1>1, <1>2, <1>7 DEF TypeInv, AtWork, LogFits

LEMMA TypeNext == TypeInv /\ [Next]_vars => TypeInv'
  <1> SUFFICES ASSUME TypeInv, [Next]_vars PROVE TypeInv'
    OBVIOUS
  <1>0. TypeOK /\ AtWork /\ LogFits
    BY DEF TypeInv
  <1> USE DEF worldVars, tableVars, logVars, ownerVars, scanVars, probeVars
  <1>1. ASSUME NEW p \in Ports, NEW d \in Devices, Plug(p, d) PROVE TypeInv'
    <2>1. /\ plugs' \in Seq(Devices) /\ Len(plugs') = Len(plugs) + 1
          /\ Len(plugs) \in Nat
      BY <1>0, <1>1, AppendProperties DEF TypeOK, Plug
    <2>2. Len(plugs') <= MaxPlugs
      BY <1>1, <2>1, ManagerAssumption DEF Plug, ManagerAssumption
    <2>3. occupant' \in [Ports -> 0 .. Len(plugs')]
      BY <1>0, <1>1, <2>1 DEF TypeOK, Plug
    <2>4. QED
      BY <1>0, <1>1, <2>1, <2>2, <2>3
         DEF Plug, TypeInv, TypeOK, AtWork, LogFits, Handles
  <1>2. ASSUME NEW p \in Ports, Unplug(p) PROVE TypeInv'
    <2>1. occupant' \in [Ports -> 0 .. Len(plugs)]
      BY <1>0, <1>2 DEF TypeOK, Unplug
    <2>2. QED
      BY <1>0, <1>2, <2>1 DEF Unplug, TypeInv, TypeOK, AtWork, LogFits, Handles
  <1>3. CASE Start
    <2>1. starts' \in 0 .. MaxStarts
      BY <1>0, <1>3, ManagerAssumption DEF ManagerAssumption, Start, TypeOK
    <2>2. QED
      BY <1>0, <1>3, <2>1 DEF Start, TypeInv, TypeOK, AtWork, LogFits, Handles
  <1>4. CASE BeginStop \/ JoinScan \/ JoinProbe \/ EndStop
    BY <1>0, <1>4 DEF BeginStop, JoinScan, JoinProbe, EndStop, TypeInv, TypeOK,
       AtWork, LogFits, Handles
  <1>5. CASE Clear
    <2>1. closing' \subseteq Handles /\ devices' \in [Devices -> Handles \cup {None}]
      BY <1>0, <1>5, RegisteredIs DEF Clear
    <2>2. QED
      BY <1>0, <1>5, <2>1 DEF Clear, TypeInv, TypeOK, AtWork, LogFits, Handles
  <1>6. CASE CloseNext
    <2>1. PICK h \in closing : Close(h) /\ closing' = closing \ {h}
      BY <1>6 DEF CloseNext
    <2>2. h \in Handles
      BY <1>0 DEF TypeOK
    <2>3. handles' \in Seq(Handle) /\ Len(handles') = Len(handles) /\ Handles' = Handles
      BY <1>0, <2>1, <2>2, CloseFacts
    <2>4. QED
      BY <1>0, <1>6, <2>1, <2>3
         DEF CloseNext, TypeInv, TypeOK, AtWork, LogFits, Handle
  <1>7. CASE ListPorts \/ ComparePorts
    <2>1. present' \subseteq Ports
      BY <1>0, <1>7 DEF ListPorts, ComparePorts, TypeOK
    <2>2. ActivePorts \subseteq Ports
      <3>1. \A h \in Handles : handles[h] \in Handle
        BY <1>0, ElementOfSeq, LenProperties DEF TypeOK, Handle, Handles
      <3>2. QED
        BY <1>0, <3>1, RegisteredIs DEF ActivePorts, Handle
    <2>3. gone' \subseteq Ports /\ appeared' \subseteq Ports
      BY <1>0, <1>7, <2>2 DEF ListPorts, ComparePorts, TypeOK
    <2>4. QED
      BY <1>0, <1>7, <2>1, <2>3 DEF ListPorts, ComparePorts, TypeInv, TypeOK,
         AtWork, LogFits, Handles
  <1>8. ASSUME NEW p \in Ports, DropPort(p) PROVE TypeInv'
    <2>1. CASE \E d \in Devices : OnPort(d, p)
      <3>1. PICK d \in Devices : /\ OnPort(d, p)
                                 /\ victim' = devices[d]
                                 /\ devices' = [devices EXCEPT ![d] = None]
                                 /\ scan' = "disconnect"
        BY <1>8, <2>1 DEF DropPort
      <3>2. /\ devices' \in [Devices -> Handles \cup {None}]
            /\ victim' \in Handles /\ victim' # None
        BY <1>0, <3>1 DEF TypeOK, OnPort
      <3>3. QED
        BY <1>0, <1>8, <3>1, <3>2
           DEF DropPort, TypeInv, TypeOK, AtWork, LogFits, Handles
    <2>2. CASE ~ \E d \in Devices : OnPort(d, p)
      BY <1>0, <1>8, <2>2
         DEF DropPort, TypeInv, TypeOK, AtWork, LogFits, Handles
    <2>3. QED
      BY <2>1, <2>2
  <1>9. CASE Disconnect
    <2>1. victim \in Handles
      BY <1>0, <1>9 DEF TypeOK, AtWork, Disconnect
    <2>2. handles' \in Seq(Handle) /\ Len(handles') = Len(handles) /\ Handles' = Handles
      BY <1>0, <1>9, <2>1, CloseFacts DEF Disconnect
    <2>3. QED
      BY <1>0, <1>9, <2>2
         DEF Disconnect, TypeInv, TypeOK, AtWork, LogFits, Handle
  <1>10. CASE OnDisconnect
    <2>1. victim \in Handles /\ Handles = 1 .. Len(handles)
      BY <1>0, <1>10, LenProperties
         DEF TypeOK, AtWork, OnDisconnect, Handles, None
    <2>2. victim \in 1 .. Len(disconnected) /\ disconnected[victim] + 1 \in Nat
      BY <1>0, <2>1 DEF TypeOK, LogFits
    <2>3. disconnected' = [disconnected EXCEPT ![victim] = disconnected[victim] + 1]
      BY <1>10 DEF OnDisconnect
    <2>4. disconnected' \in Seq(Nat) /\ Len(disconnected') = Len(disconnected)
      BY <1>0, <2>2, <2>3, ExceptSeq DEF LogFits
    <2>5. disconnected' \in [Handles -> Nat]
      BY <1>0, <2>2, <2>3 DEF TypeOK
    <2>6. QED
      BY <1>0, <1>10, <2>4, <2>5
         DEF OnDisconnect, TypeInv, TypeOK, AtWork, LogFits, Handles
  <1>11. CASE AddPorts \/ ScanAgain
    BY <1>0, <1>11 DEF AddPorts, ScanAgain, TypeInv, TypeOK, AtWork, LogFits, Handles
  <1>12. CASE TakePorts \/ EndProbe \/ EndCycle \/ ProbeAgain \/ OnConnect
    BY <1>0, <1>12 DEF TakePorts, EndProbe, EndCycle, ProbeAgain, OnConnect, TypeInv,
       TypeOK, AtWork, LogFits, Handles
  <1>13. ASSUME NEW p \in Ports, ProbePort(p) PROVE TypeInv'
    <2>1. failures' \in 0 .. MaxFailures
      BY <1>0, <1>13, ManagerAssumption
         DEF ManagerAssumption, ProbePort, Fail, TypeOK
    <2>2. results' \subseteq [port : Ports, id : Devices]
      <3>1. CASE UNCHANGED results
        BY <1>0, <3>1 DEF TypeOK
      <3>2. CASE /\ occupant[p] # 0
                 /\ results' = results \cup {[port |-> p, id |-> plugs[occupant[p]]]}
        <4>1. occupant[p] \in 1 .. Len(plugs) /\ plugs \in Seq(Devices)
          BY <1>0, <3>2 DEF TypeOK
        <4>2. plugs[occupant[p]] \in Devices
          BY <4>1, ElementOfSeq
        <4>3. QED
          BY <1>0, <3>2, <4>2 DEF TypeOK
      <3>3. QED
        BY <1>13, <3>1, <3>2 DEF ProbePort
    <2>3. QED
      BY <1>0, <1>13, <2>1, <2>2
         DEF ProbePort, TypeInv, TypeOK, AtWork, LogFits, Handles
  <1>14. ASSUME NEW r \in results, OpenPort(r) PROVE TypeInv'
    <2>1. CASE Fail(r.port) /\ UNCHANGED <<handles, disconnected, fresh, probe>>
      <3>1. failures' \in 0 .. MaxFailures
        BY <1>0, <2>1, ManagerAssumption DEF ManagerAssumption, Fail, TypeOK
      <3>2. QED
        BY <1>0, <1>14, <2>1, <3>1
           DEF OpenPort, TypeInv, TypeOK, AtWork, LogFits, Handles
    <2>2. CASE probe' = "register" /\ fresh' = Len(handles') /\ UNCHANGED failures
      <3>1. CASE /\ occupant[r.port] # 0
                 /\ handles' = Append(handles, [port |-> r.port, id |-> r.id,
                                 plug |-> occupant[r.port], open |-> TRUE])
                 /\ disconnected' = Append(disconnected, 0)
        <4>1. /\ handles' \in Seq(Handle) /\ disconnected' \in Seq(Nat)
              /\ Len(disconnected') = Len(handles')
              /\ disconnected' \in [Handles' -> Nat]
              /\ Handles' = Handles \cup {Len(handles')} /\ Len(handles') # None
          BY <1>0, <3>1, OpenFacts DEF TypeOK
        <4>2. /\ devices' \in [Devices -> Handles' \cup {None}]
              /\ victim' \in Handles' \cup {None} /\ fresh' \in Handles'
              /\ connected' \subseteq Handles' /\ closing' \subseteq Handles'
          BY <1>0, <1>14, <2>2, <4>1 DEF OpenPort, TypeOK
        <4>3. TypeOK'
          BY <1>0, <1>14, <2>2, <4>1, <4>2 DEF OpenPort, TypeOK, Handle
        <4>4. QED
          BY <1>0, <1>14, <2>2, <4>1, <4>3 DEF OpenPort, TypeInv, AtWork, LogFits
      <3>2. CASE UNCHANGED handles /\ Fail(r.port) /\ UNCHANGED probe
        BY <1>14, <2>2, <3>2 DEF OpenPort
      <3>3. QED
        BY <1>14, <2>2, <3>1, <3>2 DEF OpenPort
    <2>3. QED
      BY <1>14, <2>1, <2>2 DEF OpenPort
  <1>15. CASE Register
    <2>1. fresh \in Handles /\ handles[fresh].id \in Devices
      <3>1. fresh \in 1 .. Len(handles) /\ handles \in Seq(Handle)
        BY <1>0, <1>15 DEF Register, TypeOK, AtWork, Handle, Handles
      <3>2. handles[fresh] \in Handle
        BY <3>1, ElementOfSeq
      <3>3. QED
        BY <3>1, <3>2 DEF Handle, Handles
    <2>2. devices' \in [Devices -> Handles \cup {None}]
      BY <1>0, <1>15, <2>1 DEF Register, TypeOK
    <2>3. QED
      BY <1>0, <1>15, <2>2
         DEF Register, TypeInv, TypeOK, AtWork, LogFits, Handles
  <1>16. CASE UNCHANGED vars
    BY <1>0, <1>16 DEF vars, TypeInv, TypeOK, AtWork, LogFits, Handles
  <1>17. QED
    BY <1>1, <1>2, <1>3, <1>4, <1>5, <1>6, <1>7, <1>8, <1>9, <1>10, <1>11,
       <1>12, <1>13, <1>14, <1>15, <1>16 DEF Next, World, Stop, Scan, Probe

\* Every variable of the manager keeps its type.
THEOREM TypeCorrect == Spec => []TypeOK
  <1>1. TypeInv => TypeOK
    BY DEF TypeInv
  <1>2. QED
    BY <1>1, TypeInit, TypeNext, PTL DEF Spec

----------------------------------------------------------------------------
\* The table of devices.

LEMMA RegisteredIsNext ==
  ASSUME TypeOK'
  PROVE  /\ Registered' = {devices'[d] : d \in Devices} \ {None}
         /\ Registered' \subseteq Handles'
  BY DEF TypeOK, Registered, Range

LEMMA SafetyInit == Init => SafetyInv
  <1> SUFFICES ASSUME Init PROVE SafetyInv
    OBVIOUS
  <1>1. TypeInv
    BY TypeInit
  <1>2. Registered = {}
    BY <1>1, RegisteredIs DEF TypeInv, Init, None
  <1>3. Handles = {}
    BY DEF Init, Handles
  <1>4. QED
    BY <1>1, <1>2, <1>3 DEF Init, SafetyInv, StopWaits, CloseIsLast, KeyedById,
       VictimIsOut, FreshIsNew, Unannounced, RegisteredIsOpen, DisconnectedOnce,
       None

\* A step that touches neither table nor handles nor log, and gives no thread a
\* handle to work on.
LEMMA TableUntouched ==
  ASSUME SafetyInv, TypeInv', StopWaits',
         UNCHANGED <<handles, devices, disconnected>>,
         scan' \in {"disconnect", "announce"} => UNCHANGED <<scan, victim>>,
         probe' = "register" => UNCHANGED <<probe, fresh>>,
         owner' = "close" => owner = "close"
  PROVE  SafetyInv'
  <1>1. Registered' = Registered /\ Handles' = Handles
    BY DEF Registered, Handles
  <1>2. CloseIsLast' /\ KeyedById' /\ RegisteredIsOpen' /\ DisconnectedOnce'
    BY <1>1 DEF SafetyInv, CloseIsLast, KeyedById, RegisteredIsOpen,
       DisconnectedOnce
  <1>3. VictimIsOut' /\ FreshIsNew' /\ Unannounced'
    BY <1>1 DEF SafetyInv, VictimIsOut, FreshIsNew, Unannounced
  <1>4. QED
    BY <1>2, <1>3 DEF SafetyInv

\* Closing a handle that is not in the table and that no thread is about to
\* register.
LEMMA CloseKeepsTable ==
  ASSUME SafetyInv, TypeInv', UNCHANGED devices, UNCHANGED disconnected,
         NEW h \in Handles, Close(h), h \notin Registered
  PROVE  /\ Registered' = Registered /\ Handles' = Handles
         /\ KeyedById' /\ RegisteredIsOpen' /\ DisconnectedOnce'
         /\ ~handles'[h].open
         /\ \A g \in Handles : g # h => handles'[g] = handles[g]
  <1>1. TypeOK
    BY DEF SafetyInv, TypeInv
  <1>2. /\ Handles' = Handles /\ ~handles'[h].open
        /\ \A g \in Handles : /\ g # h => handles'[g] = handles[g]
                              /\ handles'[g].id = handles[g].id
                              /\ handles'[g].open => handles[g].open
    BY <1>1, CloseFacts
  <1>3. Registered' = Registered /\ Registered \subseteq Handles
    BY <1>1, RegisteredIs DEF Registered
  <1>4. KeyedById'
    BY <1>1, <1>2 DEF SafetyInv, KeyedById, TypeOK
  <1>5. RegisteredIsOpen'
    BY <1>2, <1>3 DEF SafetyInv, RegisteredIsOpen
  <1>6. DisconnectedOnce'
    BY <1>2 DEF SafetyInv, DisconnectedOnce
  <1>7. QED
    BY <1>2, <1>3, <1>4, <1>5, <1>6

LEMMA StopSafe == SafetyInv /\ TypeInv' /\ Stop => SafetyInv'
  <1> SUFFICES ASSUME SafetyInv, TypeInv', Stop PROVE SafetyInv'
    OBVIOUS
  <1>0. TypeOK /\ TypeOK' /\ AtWork
    BY DEF SafetyInv, TypeInv
  <1> USE DEF worldVars, tableVars, logVars, ownerVars, scanVars, probeVars
  <1>1. CASE JoinScan \/ JoinProbe \/ EndStop
    <2>1. StopWaits'
      BY <1>1 DEF JoinScan, JoinProbe, EndStop, SafetyInv, StopWaits
    <2>2. QED
      BY <1>1, <2>1, TableUntouched DEF JoinScan, JoinProbe, EndStop
  <1>2. CASE Clear
    <2>1. Registered' = {}
      BY <1>0, <1>2, RegisteredIsNext DEF Clear
    <2>2. scan' = "ended" /\ probe' = "ended" /\ StopWaits'
      BY <1>2 DEF Clear, SafetyInv, StopWaits
    <2>3. KeyedById'
      BY <1>2 DEF Clear, KeyedById
    <2>4. DisconnectedOnce'
      BY <1>2 DEF Clear, SafetyInv, DisconnectedOnce, Handles
    <2>5. QED
      BY <2>1, <2>2, <2>3, <2>4 DEF SafetyInv, CloseIsLast, VictimIsOut,
         FreshIsNew, Unannounced, RegisteredIsOpen
  <1>3. CASE CloseNext
    <2>1. /\ scan' = "ended" /\ probe' = "ended" /\ StopWaits'
          /\ Registered = {}
      BY <1>3 DEF CloseNext, SafetyInv, StopWaits, CloseIsLast
    <2>2. PICK h \in closing : Close(h)
      BY <1>3 DEF CloseNext
    <2>3. h \in Handles
      BY <1>0 DEF TypeOK
    <2>4. /\ Registered' = {} /\ KeyedById' /\ RegisteredIsOpen'
          /\ DisconnectedOnce'
      BY <1>3, <2>1, <2>2, <2>3, CloseKeepsTable DEF CloseNext
    <2>5. QED
      BY <2>1, <2>4 DEF SafetyInv, CloseIsLast, VictimIsOut, FreshIsNew,
         Unannounced
  <1>4. QED
    BY <1>1, <1>2, <1>3 DEF Stop

LEMMA ScanSafe == SafetyInv /\ TypeInv' /\ Scan => SafetyInv'
  <1> SUFFICES ASSUME SafetyInv, TypeInv', Scan PROVE SafetyInv'
    OBVIOUS
  <1>0. TypeOK /\ TypeOK' /\ AtWork /\ LogFits
    BY DEF SafetyInv, TypeInv
  <1> USE DEF worldVars, tableVars, logVars, ownerVars, scanVars, probeVars
  <1>1. CASE ListPorts \/ ComparePorts \/ AddPorts \/ ScanAgain
    <2>1. StopWaits'
      BY <1>1 DEF ListPorts, ComparePorts, AddPorts, ScanAgain, SafetyInv,
         StopWaits
    <2>2. QED
      BY <1>1, <2>1, TableUntouched
         DEF ListPorts, ComparePorts, AddPorts, ScanAgain
  <1>2. ASSUME NEW p \in Ports, DropPort(p) PROVE SafetyInv'
    <2>1. StopWaits'
      BY <1>2 DEF DropPort, SafetyInv, StopWaits
    <2>2. CASE ~ \E d \in Devices : OnPort(d, p)
      BY <1>2, <2>1, <2>2, TableUntouched DEF DropPort
    <2>3. CASE \E d \in Devices : OnPort(d, p)
      <3>1. PICK d \in Devices : /\ OnPort(d, p)
                                 /\ victim' = devices[d]
                                 /\ devices' = [devices EXCEPT ![d] = None]
                                 /\ scan' = "disconnect"
        BY <1>2, <2>3 DEF DropPort
      <3>2. /\ victim' \in Registered /\ victim' # None
            /\ devices \in [Devices -> Handles \cup {None}]
        BY <1>0, <3>1, RegisteredIs DEF OnPort, TypeOK
      <3>3. \A e \in Devices : devices[e] = victim' => e = d
        BY <3>1, <3>2 DEF SafetyInv, KeyedById
      <3>4. Registered' = Registered \ {victim'}
        <4>1. Registered' = {devices'[e] : e \in Devices} \ {None}
          BY <1>0, RegisteredIsNext
        <4>2. Registered = {devices[e] : e \in Devices} \ {None}
          BY <1>0, RegisteredIs
        <4>3. \A e \in Devices : devices'[e] = IF e = d THEN None ELSE devices[e]
          BY <3>1, <3>2
        <4>4. QED
          BY <3>1, <3>3, <4>1, <4>2, <4>3
      <3>5. UNCHANGED <<handles, disconnected, owner, fresh, probe>> /\ Handles' = Handles
        BY <1>2 DEF DropPort, Handles
      <3>6. handles[victim'].open /\ disconnected[victim'] = 0
        <4>1. victim' \in Handles
          BY <1>0, <3>2, RegisteredIs
        <4>2. handles[victim'].open
          BY <3>2 DEF SafetyInv, RegisteredIsOpen
        <4>3. disconnected[victim'] \in Nat
          BY <1>0, <4>1 DEF TypeOK
        <4>4. QED
          BY <4>1, <4>2, <4>3 DEF SafetyInv, DisconnectedOnce
      <3>7. KeyedById'
        BY <3>1, <3>2, <3>5 DEF SafetyInv, KeyedById
      <3>8. CloseIsLast' /\ VictimIsOut' /\ Unannounced'
        BY <3>1, <3>4, <3>5, <3>6
           DEF SafetyInv, CloseIsLast, VictimIsOut, Unannounced
      <3>9. FreshIsNew'
        BY <3>2, <3>4, <3>5 DEF SafetyInv, FreshIsNew
      <3>10. RegisteredIsOpen' /\ DisconnectedOnce'
        BY <3>4, <3>5 DEF SafetyInv, RegisteredIsOpen, DisconnectedOnce
      <3>11. QED
        BY <2>1, <3>7, <3>8, <3>9, <3>10 DEF SafetyInv
    <2>4. QED
      BY <2>2, <2>3
  <1>3. CASE Disconnect
    <2>1. StopWaits'
      BY <1>3 DEF Disconnect, SafetyInv, StopWaits
    <2>2. /\ victim \in Handles /\ victim \notin Registered
          /\ disconnected[victim] = 0
      BY <1>0, <1>3 DEF Disconnect, TypeOK, AtWork, SafetyInv, VictimIsOut,
         Unannounced
    <2>3. /\ scan' = "announce" /\ victim' = victim
          /\ UNCHANGED <<devices, disconnected, fresh, probe, owner>>
      BY <1>3 DEF Disconnect
    <2>4. /\ Registered' = Registered /\ KeyedById' /\ RegisteredIsOpen'
          /\ DisconnectedOnce' /\ ~handles'[victim].open
          /\ \A g \in Handles : g # victim => handles'[g] = handles[g]
      BY <1>3, <2>2, <2>3, CloseKeepsTable DEF Disconnect
    <2>5. CloseIsLast' /\ VictimIsOut' /\ Unannounced'
      BY <2>2, <2>3, <2>4
         DEF SafetyInv, CloseIsLast, VictimIsOut, Unannounced
    <2>6. FreshIsNew'
      <3> SUFFICES ASSUME probe = "register" PROVE FreshIsNew'
        BY <2>3 DEF FreshIsNew
      <3>1. /\ fresh \in Handles /\ fresh # victim /\ fresh \notin Registered
            /\ handles[fresh].open
        BY <1>0, <1>3 DEF Disconnect, TypeOK, AtWork, SafetyInv, FreshIsNew
      <3>2. QED
        BY <2>3, <2>4, <3>1 DEF FreshIsNew
    <2>7. QED
      BY <2>1, <2>4, <2>5, <2>6 DEF SafetyInv
  <1>4. CASE OnDisconnect
    <2>1. StopWaits'
      BY <1>4 DEF OnDisconnect, SafetyInv, StopWaits
    <2>2. /\ scan' = "drop"
          /\ UNCHANGED <<devices, handles, fresh, probe, owner>>
          /\ disconnected' = [disconnected EXCEPT ![victim] = @ + 1]
      BY <1>4 DEF OnDisconnect
    <2>3. Registered' = Registered /\ Handles' = Handles
      BY <2>2 DEF Registered, Handles
    <2>4. disconnected[victim] = 0 /\ ~handles[victim].open
      BY <1>4 DEF OnDisconnect, SafetyInv, Unannounced
    <2>5. \A h \in Handles :
             disconnected'[h] = IF h = victim THEN 1 ELSE disconnected[h]
      BY <1>0, <2>2, <2>4 DEF TypeOK
    <2>6. DisconnectedOnce'
      BY <2>2, <2>3, <2>4, <2>5 DEF SafetyInv, DisconnectedOnce
    <2>7. QED
      BY <2>1, <2>2, <2>3, <2>6 DEF SafetyInv, CloseIsLast, KeyedById,
         VictimIsOut, FreshIsNew, Unannounced, RegisteredIsOpen
  <1>5. QED
    BY <1>1, <1>2, <1>3, <1>4 DEF Scan

LEMMA ProbeSafe == SafetyInv /\ TypeInv' /\ Probe => SafetyInv'
  <1> SUFFICES ASSUME SafetyInv, TypeInv', Probe PROVE SafetyInv'
    OBVIOUS
  <1>0. TypeOK /\ TypeOK' /\ AtWork /\ TypeInv
    BY DEF SafetyInv, TypeInv
  <1> USE DEF worldVars, tableVars, logVars, ownerVars, scanVars, probeVars
  <1>1. CASE TakePorts \/ EndProbe \/ OnConnect \/ EndCycle \/ ProbeAgain
    <2>1. StopWaits'
      BY <1>1 DEF TakePorts, EndProbe, OnConnect, EndCycle, ProbeAgain,
         SafetyInv, StopWaits
    <2>2. QED
      BY <1>1, <2>1, TableUntouched
         DEF TakePorts, EndProbe, OnConnect, EndCycle, ProbeAgain
  <1>2. ASSUME NEW p \in Ports, ProbePort(p) PROVE SafetyInv'
    <2>1. StopWaits'
      BY <1>2 DEF ProbePort, SafetyInv, StopWaits
    <2>2. QED
      BY <1>2, <2>1, TableUntouched DEF ProbePort
  <1>3. ASSUME NEW r \in results, OpenPort(r) PROVE SafetyInv'
    <2>1. StopWaits'
      BY <1>3 DEF OpenPort, SafetyInv, StopWaits
    <2>2. CASE UNCHANGED <<handles, disconnected, fresh, probe>>
      BY <1>3, <2>1, <2>2, TableUntouched DEF OpenPort
    <2>3. CASE /\ occupant[r.port] # 0
               /\ handles' = Append(handles, [port |-> r.port, id |-> r.id,
                               plug |-> occupant[r.port], open |-> TRUE])
               /\ disconnected' = Append(disconnected, 0)
               /\ fresh' = Len(handles')
      <3>1. /\ Handles' = Handles \cup {fresh'} /\ fresh' \notin Handles
            /\ \A h \in Handles : /\ handles'[h] = handles[h]
                                  /\ disconnected'[h] = disconnected[h]
            /\ handles'[fresh'].open /\ disconnected'[fresh'] = 0
        BY <1>0, <2>3, OpenFacts DEF TypeOK
      <3>2. Registered' = Registered /\ Registered \subseteq Handles
        BY <1>0, <1>3, RegisteredIs DEF OpenPort, Registered
      <3>3. UNCHANGED <<devices, owner, scan, victim>>
        BY <1>3 DEF OpenPort
      <3>4. CloseIsLast' /\ VictimIsOut'
        BY <3>2, <3>3 DEF SafetyInv, CloseIsLast, VictimIsOut
      <3>5. KeyedById'
        BY <1>0, <3>1, <3>3 DEF SafetyInv, KeyedById, TypeOK
      <3>6. scan \in {"disconnect", "announce"} => victim \in Handles
        BY <1>0 DEF TypeOK, AtWork
      <3>7. FreshIsNew' /\ Unannounced'
        BY <3>1, <3>2, <3>3, <3>6 DEF SafetyInv, FreshIsNew, Unannounced
      <3>8. RegisteredIsOpen' /\ DisconnectedOnce'
        BY <3>1, <3>2 DEF SafetyInv, RegisteredIsOpen, DisconnectedOnce
      <3>9. QED
        BY <2>1, <3>4, <3>5, <3>7, <3>8 DEF SafetyInv
    <2>4. QED
      BY <1>3, <2>2, <2>3 DEF OpenPort
  <1>4. CASE Register
    <2>1. StopWaits' /\ owner # "close"
      BY <1>4 DEF Register, SafetyInv, StopWaits
    <2>2. /\ probe' = "connect"
          /\ devices' = [devices EXCEPT ![handles[fresh].id] = fresh]
          /\ UNCHANGED <<handles, disconnected, owner, scan, victim>>
      BY <1>4 DEF Register
    <2>3. /\ fresh \in Handles /\ handles[fresh].open
          /\ fresh \notin Registered
          /\ scan \in {"disconnect", "announce"} => fresh # victim
      BY <1>0, <1>4 DEF Register, TypeOK, AtWork, SafetyInv, FreshIsNew
    <2>4. Handles' = Handles
      BY <2>2 DEF Handles
    <2>5. \A d \in Devices : devices'[d] = IF d = handles[fresh].id THEN fresh
                                           ELSE devices[d]
      BY <1>0, <2>2 DEF TypeOK
    <2>6. Registered' \subseteq Registered \cup {fresh}
      BY <1>0, <2>5, RegisteredIs, RegisteredIsNext
    <2>7. KeyedById'
      BY <2>2, <2>5 DEF SafetyInv, KeyedById
    <2>8. CloseIsLast' /\ FreshIsNew' /\ Unannounced'
      BY <2>1, <2>2 DEF SafetyInv, CloseIsLast, FreshIsNew, Unannounced
    <2>9. VictimIsOut'
      BY <2>2, <2>3, <2>6 DEF SafetyInv, VictimIsOut
    <2>10. RegisteredIsOpen' /\ DisconnectedOnce'
      BY <2>2, <2>3, <2>4, <2>6 DEF SafetyInv, RegisteredIsOpen, DisconnectedOnce
    <2>11. QED
      BY <2>1, <2>7, <2>8, <2>9, <2>10 DEF SafetyInv
  <1>5. QED
    BY <1>1, <1>2, <1>3, <1>4 DEF Probe

LEMMA SafetyNext == SafetyInv /\ [Next]_vars => SafetyInv'
  <1> SUFFICES ASSUME SafetyInv, [Next]_vars PROVE SafetyInv'
    OBVIOUS
  <1>1. TypeInv'
    BY TypeNext DEF SafetyInv
  <1> USE DEF worldVars, tableVars, logVars, ownerVars, scanVars, probeVars
  <1>2. CASE World \/ Start \/ BeginStop
    <2>1. StopWaits'
      BY <1>2 DEF World, Plug, Unplug, Start, BeginStop, SafetyInv, StopWaits
    <2>2. QED
      BY <1>1, <1>2, <2>1, TableUntouched DEF World, Plug, Unplug, Start, BeginStop
  <1>3. CASE UNCHANGED vars
    <2>1. StopWaits'
      BY <1>3 DEF vars, SafetyInv, StopWaits
    <2>2. QED
      BY <1>1, <1>3, <2>1, TableUntouched DEF vars
  <1>4. QED
    BY <1>1, <1>2, <1>3, StopSafe, ScanSafe, ProbeSafe DEF Next

\* The inductive invariant holds: the table, the handles that the two threads
\* hold and the log agree at every moment, stop() included.
THEOREM Safety == Spec => []SafetyInv
  BY SafetyInit, SafetyNext, PTL DEF Spec

\* Whoever finds a device in the table finds it open.
THEOREM RegisteredIsOpenAlways == Spec => []RegisteredIsOpen
  <1>1. SafetyInv => RegisteredIsOpen
    BY DEF SafetyInv
  <1>2. QED
    BY <1>1, Safety, PTL

\* on_disconnect is called at most once for a device, after its port was
\* released.
THEOREM DisconnectedOnceAlways == Spec => []DisconnectedOnce
  <1>1. SafetyInv => DisconnectedOnce
    BY DEF SafetyInv
  <1>2. QED
    BY <1>1, Safety, PTL

\* Between the end of stop() and the next start() no port is opened or closed,
\* no callback fires and the tables do not change.
THEOREM QuietAfterStopAlways == Spec => QuietAfterStop
  <1> DEFINE Quiet == (owner = "idle" /\ stopEvent)
                        => UNCHANGED <<handles, logVars, tableVars>>
  <1>1. SafetyInv /\ [Next]_vars => [Quiet]_vars
    <2> SUFFICES ASSUME SafetyInv, Next, owner = "idle", stopEvent
                 PROVE  UNCHANGED <<handles, logVars, tableVars>>
      BY DEF Quiet
    <2>1. scan = "ended" /\ probe = "ended"
      BY DEF SafetyInv, StopWaits
    <2>2. ~Stop
      BY DEF Stop, JoinScan, JoinProbe, Clear, CloseNext, EndStop
    <2>3. ~Scan
      BY <2>1 DEF Scan, ListPorts, ComparePorts, Disconnect, OnDisconnect,
         AddPorts, ScanAgain, DropPort
    <2>4. ~Probe
      BY <2>1 DEF Probe, TakePorts, EndProbe, Register, OnConnect, EndCycle,
         ProbeAgain, ProbePort, OpenPort
    <2>5. QED
      BY <2>2, <2>3, <2>4 DEF Next, World, Plug, Unplug, Start, BeginStop,
         logVars, tableVars
  <1>2. QED
    BY <1>1, Safety, PTL DEF Spec, QuietAfterStop, Quiet

=============================================================================
