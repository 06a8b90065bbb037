------------------------- MODULE StreamReaderProofs -------------------------
(***************************************************************************)
(* Proofs about StreamReader, for any number of threads and messages.  The *)
(* exclusion results assume that join() waits until the thread has ended   *)
(* (JoinMayExpire = FALSE): without it a callback that hangs for two       *)
(* seconds leaves a second reader on the port, and they are false.         *)
(***************************************************************************)
EXTENDS StreamReader, TLAPS

\* Every variable keeps its type, whether or not a join may expire.  The
\* bound on started needs the guard of BeginStart until the thread exists.
StartsBounded == pc \in {"clear", "running", "create"} => started < MaxStarts
LaunchHasThread == pc \in {"launch", "set", "join"} => thread # None

\* Threads are numbered as they are created, and launched once.
Numbering == /\ thread <= started
             /\ pc = "launch" => rpc[thread] = "created"
             /\ \A t \in Threads : t > started => rpc[t] = "unborn"

TypeInv == TypeOK /\ StartsBounded /\ LaunchHasThread /\ Numbering

LEMMA TypeInit == Init => TypeInv
  <1> SUFFICES ASSUME Init PROVE TypeInv
    OBVIOUS
  <1> USE ReaderAssumption DEF ReaderAssumption, Init
  <1>1. acc \in [Threads -> Seq(Nat)]
    OBVIOUS
  <1>2. rpc \in [Threads -> ReaderPCs]
    BY DEF ReaderPCs
  <1>3. started \in 0 .. MaxStarts /\ arrived \in 0 .. MaxMessages
    OBVIOUS
  <1>4. line \in Seq(Nat) /\ delivered \in Seq(Nat)
    OBVIOUS
  <1>5. Numbering
    BY DEF Numbering, None
  <1>6. QED
    BY <1>1, <1>2, <1>3, <1>4, <1>5 DEF TypeInv, TypeOK, StartsBounded,
       LaunchHasThread, States, OwnerPCs, None

LEMMA TypeNext == TypeInv /\ [Next]_vars => TypeInv'
  <1> SUFFICES ASSUME TypeInv, [Next]_vars PROVE TypeInv'
    OBVIOUS
  <1> USE ReaderAssumption
      DEF ReaderAssumption, TypeInv, TypeOK, StartsBounded, LaunchHasThread, Numbering,
          States, OwnerPCs,
          ReaderPCs, Threads, None, GoTo, Step, ownerVars, sharedVars, threadVars
  <1>1. CASE Start /\ UNCHANGED arrived
    <2>1. CASE CreateThread
      <3>1. /\ started' \in Threads /\ started' = started + 1
            /\ thread' = started' /\ pc' = "launch"
        BY <2>1 DEF CreateThread
      <3>2. rpc' \in [Threads -> ReaderPCs] /\ rpc'[started'] = "created"
        BY <2>1, <3>1 DEF CreateThread
      <3>3. \A t \in Threads : t > started' => rpc'[t] = "unborn"
        BY <2>1, <3>1 DEF CreateThread
      <3>4. TypeOK'
        BY <1>1, <2>1, <3>1, <3>2 DEF CreateThread
      <3>5. QED
        BY <3>1, <3>2, <3>3, <3>4
    <2>2. CASE LaunchThread
      BY <1>1, <2>2 DEF LaunchThread
    <2>3. CASE BeginStart
      BY <1>1, <2>3 DEF BeginStart
    <2>4. CASE ClearEvent \/ SetRunning
      BY <1>1, <2>4 DEF ClearEvent, SetRunning
    <2>5. QED
      BY <1>1, <2>1, <2>2, <2>3, <2>4 DEF Start
  <1>2. CASE Stop /\ UNCHANGED arrived
    <2>1. CASE ForgetThread
      BY <1>2, <2>1 DEF ForgetThread
    <2>2. CASE BeginStop \/ SetEvent \/ Join \/ ReadState \/ SetIdle
      BY <1>2, <2>2 DEF BeginStop, SetEvent, Join, ReadState, SetIdle
    <2>3. QED
      BY <1>2, <2>1, <2>2 DEF Stop
  <1>3. ASSUME NEW t \in Threads, Reader(t), UNCHANGED arrived PROVE TypeInv'
    <2>1. CASE Read(t)
      <3>1. PICK n \in 0 .. Len(line) :
               /\ acc' = [acc EXCEPT ![t] = SubSeq(line, 1, n)]
               /\ line' = SubSeq(line, n + 1, Len(line))
        BY <2>1 DEF Read
      <3>2. SubSeq(line, 1, n) \in Seq(Nat) /\ line' \in Seq(Nat)
        <4>1. line \in Seq(Nat)
          BY DEF TypeInv, TypeOK
        <4>2. SubSeq(line, 1, n) \in Seq(Nat)
          BY ONLY <4>1, n \in 0 .. Len(line), SMTT(30)
        <4>3. SubSeq(line, n + 1, Len(line)) \in Seq(Nat)
          BY ONLY <4>1, n \in 0 .. Len(line), SMTT(30)
        <4>4. QED
          BY ONLY <3>1, <4>2, <4>3
      <3>3. acc' \in [Threads -> Seq(Nat)]
        BY <3>1, <3>2
      <3>4. TypeOK'
        BY <1>3, <2>1, <3>2, <3>3 DEF Read
      <3>5. StartsBounded' /\ LaunchHasThread' /\ Numbering'
        BY <1>3, <2>1 DEF Read
      <3>6. QED
        BY <3>4, <3>5
    <2>2. CASE HandOver(t)
      BY <1>3, <2>2 DEF HandOver, NextMessage
    <2>3. CASE HandOverFails(t)
      BY <1>3, <2>3 DEF HandOverFails
    <2>4. CASE TestEvent(t) \/ ReadFails(t) \/ Drained(t)
      BY <1>3, <2>4 DEF TestEvent, ReadFails, Drained
    <2>5. CASE SetFaulted(t) \/ FaultSetsEvent(t) \/ EndAfterFault(t)
      BY <1>3, <2>5 DEF SetFaulted, FaultSetsEvent, EndAfterFault
    <2>6. QED
      BY <1>3, <2>1, <2>2, <2>3, <2>4, <2>5 DEF Reader, ReaderAlone
  <1>4. CASE Arrive
    BY <1>4 DEF Arrive
  <1>5. CASE UNCHANGED vars
    BY <1>5 DEF vars
  <1>6. QED
    BY <1>1, <1>2, <1>3, <1>4, <1>5 DEF Next

\* Type correctness of the reader.
THEOREM TypeCorrect == Spec => []TypeOK
  <1>1. TypeInv => TypeOK
    BY DEF TypeInv
  <1>2. QED
    BY <1>1, TypeInit, TypeNext, PTL DEF Spec

----------------------------------------------------------------------------
\* A thread that can still read the port, or that still has to write FAULTED
\* into the state.
Live == {t \in Threads :
           rpc[t] \in {"created", "loop", "read", "drain", "faulted"}}

\* The live thread is the one self._thread refers to, and the state says
\* RUNNING as long as there is one.
LiveIsCurrent == \A t \in Live : thread = t /\ state = "RUNNING"

\* What each position of the owner implies.  Between the test of start() and
\* the new thread, and after the join of stop(), no thread is live.
OwnerKnows ==
  /\ pc \in {"clear", "running", "create", "forget", "settle", "idling"}
       => Live = {}
  /\ pc = "create" => state = "RUNNING"

\* A thread that was not launched is not in the loop.
CreatedIsLaunching == \A t \in Threads : rpc[t] = "created" => pc = "launch"

ExclusionInv == TypeInv /\ LiveIsCurrent /\ OwnerKnows /\ CreatedIsLaunching

LEMMA ExclusionInit == Init => ExclusionInv
  BY TypeInit DEF Init, ExclusionInv, LiveIsCurrent, OwnerKnows,
     CreatedIsLaunching, Live

LEMMA ExclusionNext ==
  ASSUME JoinMayExpire = FALSE
  PROVE  ExclusionInv /\ [Next]_vars => ExclusionInv'
  <1> SUFFICES ASSUME ExclusionInv, [Next]_vars PROVE ExclusionInv'
    OBVIOUS
  <1>1. TypeInv'
    BY TypeNext DEF ExclusionInv
  <1> USE <1>1, ReaderAssumption
      DEF ReaderAssumption, ExclusionInv, LiveIsCurrent, OwnerKnows,
          CreatedIsLaunching, Live, TypeInv, TypeOK, LaunchHasThread, Numbering,
          Threads, None, GoTo, Step, ownerVars, sharedVars, threadVars
  <1>2. CASE Start /\ UNCHANGED arrived
    <2>1. CASE BeginStart
      BY <1>2, <2>1 DEF BeginStart
    <2>2. CASE ClearEvent \/ SetRunning
      BY <1>2, <2>2 DEF ClearEvent, SetRunning
    <2>3. CASE CreateThread
      <3>1. started' \in Threads
        BY <2>3 DEF CreateThread, StartsBounded
      <3>2. Live' = {started'} /\ rpc'[started'] = "created"
        BY <2>3, <3>1 DEF CreateThread
      <3>3. QED
        BY <1>2, <2>3, <3>1, <3>2 DEF CreateThread
    <2>4. CASE LaunchThread
      BY <1>2, <2>4 DEF LaunchThread
    <2>5. QED
      BY <1>2, <2>1, <2>2, <2>3, <2>4 DEF Start
  <1>3. CASE Stop /\ UNCHANGED arrived
    <2>1. CASE BeginStop \/ SetEvent
      BY <1>3, <2>1 DEF BeginStop, SetEvent
    <2>2. CASE Join
      BY <1>3, <2>2 DEF Join
    <2>3. CASE ForgetThread \/ ReadState \/ SetIdle
      BY <1>3, <2>3 DEF ForgetThread, ReadState, SetIdle
    <2>4. QED
      BY <1>3, <2>1, <2>2, <2>3 DEF Stop
  <1>4. ASSUME NEW t \in Threads, Reader(t), UNCHANGED arrived PROVE ExclusionInv'
    <2>1. CASE TestEvent(t) \/ Read(t) \/ ReadFails(t)
      BY <1>4, <2>1 DEF TestEvent, Read, ReadFails
    <2>2. CASE HandOver(t) \/ HandOverFails(t) \/ Drained(t)
      BY <1>4, <2>2 DEF HandOver, NextMessage, HandOverFails, Drained
    <2>3. CASE SetFaulted(t)
      <3>1. t \in Live /\ Live \subseteq {t}
        BY <2>3 DEF SetFaulted
      <3>2. Live' = {} /\ rpc' = [rpc EXCEPT ![t] = "flagged"]
        BY <2>3, <3>1 DEF SetFaulted
      <3>3. QED
        BY <1>4, <2>3, <3>1, <3>2 DEF SetFaulted
    <2>4. CASE FaultSetsEvent(t) \/ EndAfterFault(t)
      BY <1>4, <2>4 DEF FaultSetsEvent, EndAfterFault
    <2>5. QED
      BY <1>4, <2>1, <2>2, <2>3, <2>4 DEF Reader, ReaderAlone
  <1>5. CASE Arrive
    BY <1>5 DEF Arrive
  <1>6. CASE UNCHANGED vars
    BY <1>6 DEF vars
  <1>7. QED
    BY <1>2, <1>3, <1>4, <1>5, <1>6 DEF Next

THEOREM Exclusion ==
  ASSUME JoinMayExpire = FALSE
  PROVE  Spec => []ExclusionInv
  <1>1. ExclusionInv /\ [Next]_vars => ExclusionInv'
    BY ExclusionNext
  <1>2. QED
    BY <1>1, ExclusionInit, PTL DEF Spec

\* At most one thread reads the port.
THEOREM OneThreadReadsAlways ==
  ASSUME JoinMayExpire = FALSE
  PROVE  Spec => []OneThreadReads
  <1>1. ExclusionInv => OneThreadReads
    BY DEF ExclusionInv, LiveIsCurrent, Live, OneThreadReads, Reading
  <1>2. QED
    BY <1>1, Exclusion, PTL

\* Outside start() and stop(), a state other than RUNNING means that nobody
\* reads the port.
THEOREM PortIsFreeAlways ==
  ASSUME JoinMayExpire = FALSE
  PROVE  Spec => []PortIsFree
  <1>1. ExclusionInv => PortIsFree
    BY DEF ExclusionInv, LiveIsCurrent, Live, PortIsFree, Reading
  <1>2. QED
    BY <1>1, Exclusion, PTL

\* After stop(), the port is left alone and on_message is not called.
THEOREM QuietAfterStopAlways ==
  ASSUME JoinMayExpire = FALSE
  PROVE  Spec => QuietAfterStop
  <1> DEFINE Quiet == (pc = "idle" /\ thread = None)
                        => delivered' = delivered /\ Len(line') >= Len(line)
  <1>1. ExclusionInv /\ [Next]_vars => [Quiet]_vars
    <2> SUFFICES ASSUME ExclusionInv, Next, pc = "idle", thread = None
                 PROVE  delivered' = delivered /\ Len(line') >= Len(line)
      BY DEF Quiet
    <2> USE DEF ownerVars, sharedVars, threadVars
    <2>1. ASSUME NEW t \in Threads PROVE t \notin Live
      BY <2>1 DEF ExclusionInv, LiveIsCurrent, Threads, None
    <2>2. line \in Seq(Nat) /\ Len(line) \in Nat
      BY DEF ExclusionInv, TypeInv, TypeOK
    <2>3. CASE Start \/ Stop
      BY <2>2, <2>3 DEF Start, BeginStart, ClearEvent, SetRunning, CreateThread,
         LaunchThread, Stop, BeginStop, SetEvent, Join, ForgetThread,
         ReadState, SetIdle, GoTo
    <2>4. ASSUME NEW t \in Threads, Reader(t)
          PROVE  delivered' = delivered /\ line' = line
      BY <2>1, <2>4 DEF Live, Reader, ReaderAlone, NextMessage, EndAfterFault, TestEvent, Read, ReadFails, HandOver,
         HandOverFails, Drained, SetFaulted, FaultSetsEvent, EndAfterFault, Step
    <2>5. CASE Arrive
      <3>1. arrived' \in Nat
        BY <2>5, ReaderAssumption
           DEF ReaderAssumption, Arrive, ExclusionInv, TypeInv, TypeOK
      <3>2. Len(line') = Len(line) + 1
        BY <2>2, <2>5, <3>1 DEF Arrive
      <3>3. QED
        BY <2>2, <2>5, <3>2 DEF Arrive
    <2>6. QED
      BY <2>2, <2>3, <2>4, <2>5 DEF Next
  <1>2. QED
    BY <1>1, Exclusion, PTL DEF Spec, QuietAfterStop, Quiet
----------------------------------------------------------------------------
\* Messages keep their order between the port and the callback.

LEMMA PrefixFacts ==
  ASSUME NEW s \in Seq(Nat), NEW n \in 0 .. Len(s)
  PROVE  /\ SubSeq(s, 1, n) \in Seq(Nat)
         /\ Len(SubSeq(s, 1, n)) = n
         /\ \A i \in 1 .. n : SubSeq(s, 1, n)[i] = s[i]
  OBVIOUS

LEMMA SuffixFacts ==
  ASSUME NEW s \in Seq(Nat), NEW n \in 0 .. Len(s)
  PROVE  /\ SubSeq(s, n + 1, Len(s)) \in Seq(Nat)
         /\ Len(SubSeq(s, n + 1, Len(s))) = Len(s) - n
         /\ \A i \in 1 .. (Len(s) - n) :
                SubSeq(s, n + 1, Len(s))[i] = s[n + i]
  OBVIOUS

Sorted(s) == \A i, j \in 1 .. Len(s) : i < j => s[i] < s[j]

\* Every number in s is smaller than every number in r.
Before(s, r) == \A i \in 1 .. Len(s) : \A j \in 1 .. Len(r) : s[i] < r[j]

UpTo(s, n) == \A i \in 1 .. Len(s) : s[i] <= n

LEMMA SplitFacts ==
  ASSUME NEW s \in Seq(Nat), NEW b \in Nat, Sorted(s), UpTo(s, b),
         NEW n \in 0 .. Len(s)
  PROVE  /\ Sorted(SubSeq(s, 1, n)) /\ UpTo(SubSeq(s, 1, n), b)
         /\ Sorted(SubSeq(s, n + 1, Len(s))) /\ UpTo(SubSeq(s, n + 1, Len(s)), b)
         /\ Before(SubSeq(s, 1, n), SubSeq(s, n + 1, Len(s)))
  <1> DEFINE p == SubSeq(s, 1, n)
             q == SubSeq(s, n + 1, Len(s))
  <1>1. Len(p) = n /\ \A i \in 1 .. n : p[i] = s[i]
    BY PrefixFacts
  <1>2. Len(q) = Len(s) - n /\ \A i \in 1 .. (Len(s) - n) : q[i] = s[n + i]
    BY SuffixFacts
  <1>3. \A i \in 1 .. (Len(s) - n) : n + i \in 1 .. Len(s)
    OBVIOUS
  <1>4. n \in Nat /\ Len(s) \in Nat /\ n <= Len(s)
    OBVIOUS
  <1> HIDE DEF p, q
  <1>5. Sorted(p) /\ UpTo(p, b)
    <2>1. \A i \in 1 .. n : i \in 1 .. Len(s)
      BY <1>4
    <2>2. QED
      BY <1>1, <2>1 DEF Sorted, UpTo
  <1>6. Sorted(q)
    <2> SUFFICES ASSUME NEW i \in 1 .. Len(q), NEW j \in 1 .. Len(q), i < j
                 PROVE  q[i] < q[j]
      BY DEF Sorted
    <2>1. n + i \in 1 .. Len(s) /\ n + j \in 1 .. Len(s) /\ n + i < n + j
      BY <1>2, <1>3, <1>4
    <2>2. QED
      BY <1>2, <1>4, <2>1 DEF Sorted
  <1>7. UpTo(q, b)
    BY <1>2, <1>3 DEF UpTo
  <1>8. Before(p, q)
    <2> SUFFICES ASSUME NEW i \in 1 .. Len(p), NEW j \in 1 .. Len(q)
                 PROVE  p[i] < q[j]
      BY DEF Before
    <2>1. i \in 1 .. Len(s) /\ n + j \in 1 .. Len(s) /\ i < n + j
      BY <1>1, <1>2, <1>3, <1>4
    <2>2. QED
      BY <1>1, <1>2, <2>1 DEF Sorted
  <1>9. QED
    BY <1>5, <1>6, <1>7, <1>8 DEF p, q

LEMMA BeforeSuffix ==
  ASSUME NEW r \in Seq(Nat), NEW s \in Seq(Nat), Before(r, s),
         NEW n \in 0 .. Len(s)
  PROVE  Before(r, SubSeq(s, n + 1, Len(s)))
  <1> DEFINE q == SubSeq(s, n + 1, Len(s))
  <1>1. Len(q) = Len(s) - n /\ \A i \in 1 .. (Len(s) - n) : q[i] = s[n + i]
    BY SuffixFacts
  <1>2. \A i \in 1 .. (Len(s) - n) : n + i \in 1 .. Len(s)
    OBVIOUS
  <1> HIDE DEF q
  <1>3. Before(r, q)
    BY <1>1, <1>2 DEF Before
  <1>4. QED
    BY <1>3 DEF q

LEMMA TailFacts ==
  ASSUME NEW s \in Seq(Nat), s # <<>>, NEW r, NEW b \in Nat,
         Sorted(s), Before(s, r), UpTo(s, b)
  PROVE  Sorted(Tail(s)) /\ Before(Tail(s), r) /\ UpTo(Tail(s), b)
  <1> DEFINE q == Tail(s)
  <1>1. /\ Len(q) = Len(s) - 1 /\ Len(s) \in Nat
        /\ \A i \in 1 .. (Len(s) - 1) : q[i] = s[i + 1]
    OBVIOUS
  <1>2. \A i \in 1 .. (Len(s) - 1) : i + 1 \in 1 .. Len(s)
    BY <1>1
  <1> HIDE DEF q
  <1>3. Sorted(q)
    <2> SUFFICES ASSUME NEW i \in 1 .. Len(q), NEW j \in 1 .. Len(q), i < j
                 PROVE  q[i] < q[j]
      BY DEF Sorted
    <2>1. i + 1 \in 1 .. Len(s) /\ j + 1 \in 1 .. Len(s) /\ i + 1 < j + 1
      BY <1>1, <1>2
    <2>2. QED
      BY <1>1, <2>1 DEF Sorted
  <1>4. Before(q, r) /\ UpTo(q, b)
    BY <1>1, <1>2 DEF Before, UpTo
  <1>5. QED
    BY <1>3, <1>4 DEF q

LEMMA AppendFacts ==
  ASSUME NEW s \in Seq(Nat), NEW b \in Nat, Sorted(s), UpTo(s, b)
  PROVE  /\ Sorted(Append(s, b + 1)) /\ UpTo(Append(s, b + 1), b + 1)
         /\ \A r \in Seq(Nat) : Before(r, s) /\ UpTo(r, b)
               => Before(r, Append(s, b + 1)) /\ UpTo(r, b + 1)
  <1> DEFINE q == Append(s, b + 1)
  <1>1. /\ Len(q) = Len(s) + 1 /\ Len(s) \in Nat
        /\ \A i \in 1 .. Len(s) : q[i] = s[i] /\ s[i] \in Nat
        /\ q[Len(s) + 1] = b + 1
    OBVIOUS
  <1> HIDE DEF q
  <1>2. \A i \in 1 .. Len(q) : i \in 1 .. Len(s) \/ i = Len(s) + 1
    BY <1>1
  <1>3. Sorted(q)
    BY <1>1, <1>2 DEF Sorted, UpTo
  <1>4. UpTo(q, b + 1)
    BY <1>1, <1>2 DEF UpTo
  <1>5. ASSUME NEW r \in Seq(Nat), Before(r, s), UpTo(r, b)
        PROVE  Before(r, q) /\ UpTo(r, b + 1)
    <2>1. \A i \in 1 .. Len(r) : r[i] \in Nat /\ r[i] <= b
      BY <1>5 DEF UpTo
    <2>2. QED
      BY <1>1, <1>2, <1>5, <2>1 DEF Before, UpTo
  <1>6. QED
    BY <1>3, <1>4, <1>5 DEF q

\* Only a thread that hands messages on holds any, and they are older than
\* those on the port.
QueueInv ==
  /\ \A t \in Threads : /\ acc[t] # <<>> => rpc[t] = "drain"
                         /\ Sorted(acc[t])
                         /\ Before(acc[t], line)
                         /\ UpTo(acc[t], arrived)
  /\ Sorted(line)
  /\ UpTo(line, arrived)

LEMMA QueueInit == Init => QueueInv
  BY DEF Init, QueueInv, Sorted, Before, UpTo

LEMMA QueueNext == TypeInv /\ QueueInv /\ [Next]_vars => QueueInv'
  <1> SUFFICES ASSUME TypeInv, QueueInv, [Next]_vars PROVE QueueInv'
    OBVIOUS
  <1>1. TypeOK /\ TypeOK'
    BY TypeNext DEF TypeInv
  <1>0. /\ \A u \in Threads : Before(acc[u], line) /\ UpTo(acc[u], arrived)
        /\ Sorted(line) /\ UpTo(line, arrived)
    BY SMT DEF QueueInv, Sorted, Before, UpTo
  <1> USE <1>1, ReaderAssumption
      DEF ReaderAssumption, TypeOK, Step, GoTo, ownerVars, sharedVars, threadVars
  <1>2. CASE Start /\ UNCHANGED arrived
    <2>1. CASE CreateThread
      <3>1. rpc[started'] = "unborn"
        BY <2>1 DEF CreateThread, TypeInv, StartsBounded, Numbering, Threads
      <3>2. QED
        BY <1>2, <2>1, <3>1 DEF CreateThread, QueueInv
    <2>2. CASE LaunchThread
      <3>1. rpc[thread] = "created" /\ thread \in Threads
        BY <2>2 DEF LaunchThread, TypeInv, Numbering, LaunchHasThread, None
      <3>2. QED
        BY <1>2, <2>2, <3>1 DEF LaunchThread, QueueInv
    <2>3. CASE BeginStart \/ ClearEvent \/ SetRunning
      BY <1>2, <2>3 DEF BeginStart, ClearEvent, SetRunning, QueueInv
    <2>4. QED
      BY <1>2, <2>1, <2>2, <2>3 DEF Start
  <1>3. CASE Stop /\ UNCHANGED arrived
    BY <1>3 DEF Stop, BeginStop, SetEvent, Join, ForgetThread, ReadState,
                SetIdle, QueueInv
  <1>4. ASSUME NEW t \in Threads, Reader(t), UNCHANGED arrived PROVE QueueInv'
    <2>1. CASE Read(t)
      <3>1. PICK n \in 0 .. Len(line) :
               /\ acc' = [acc EXCEPT ![t] = SubSeq(line, 1, n)]
               /\ line' = SubSeq(line, n + 1, Len(line))
        BY <2>1 DEF Read
      <3>2. /\ acc'[t] = SubSeq(line, 1, n)
            /\ rpc'[t] = "drain"
            /\ \A u \in Threads : u # t => acc'[u] = acc[u] /\ rpc'[u] = rpc[u]
        BY <2>1, <3>1 DEF Read
      <3>3. /\ Sorted(acc'[t]) /\ UpTo(acc'[t], arrived')
            /\ Sorted(line') /\ UpTo(line', arrived')
            /\ Before(acc'[t], line')
        BY <1>4, <3>1, <3>2, SplitFacts DEF QueueInv
      <3>4. \A u \in Threads : Before(acc[u], line')
        <4> TAKE u \in Threads
        <4>1. acc[u] \in Seq(Nat) /\ line \in Seq(Nat)
          OBVIOUS
        <4>2. Before(acc[u], line)
          BY <1>0
        <4>3. QED
          BY <3>1, <4>1, <4>2, BeforeSuffix
      <3>5. QED
        BY <1>4, <3>2, <3>3, <3>4 DEF QueueInv
    <2>2. CASE HandOver(t)
      <3>1. /\ acc[t] \in Seq(Nat) /\ acc[t] # <<>>
            /\ acc'[t] = Tail(acc[t])
            /\ line' = line /\ rpc' = rpc
            /\ \A u \in Threads : u # t => acc'[u] = acc[u]
        BY <2>2 DEF HandOver, NextMessage
      <3>3. Sorted(acc'[t]) /\ UpTo(acc'[t], arrived') /\ Before(acc'[t], line')
        BY <1>4, <3>1, TailFacts DEF QueueInv
      <3>4. rpc'[t] = "drain"
        BY <2>2 DEF HandOver, NextMessage
      <3>5. QED
        BY <1>4, <3>1, <3>3, <3>4 DEF QueueInv
    <2>3. CASE HandOverFails(t)
      BY <1>4, <2>3 DEF HandOverFails, QueueInv, Sorted, Before, UpTo
    <2>4. CASE TestEvent(t) \/ ReadFails(t) \/ Drained(t)
      BY <1>4, <2>4 DEF TestEvent, ReadFails, Drained, QueueInv
    <2>5. CASE SetFaulted(t) \/ FaultSetsEvent(t) \/ EndAfterFault(t)
      BY <1>4, <2>5 DEF SetFaulted, FaultSetsEvent, EndAfterFault,
                        QueueInv
    <2>6. QED
      BY <1>4, <2>1, <2>2, <2>3, <2>4, <2>5 DEF Reader, ReaderAlone
  <1>5. CASE Arrive
    <2>1. /\ line' = Append(line, arrived + 1) /\ arrived' = arrived + 1
          /\ acc' = acc /\ rpc' = rpc
      BY <1>5 DEF Arrive
    <2>2. Sorted(line') /\ UpTo(line', arrived')
      BY <2>1, AppendFacts DEF QueueInv
    <2>3. \A t \in Threads : Before(acc[t], line') /\ UpTo(acc[t], arrived')
      <3> TAKE t \in Threads
      <3>1. acc[t] \in Seq(Nat) /\ line \in Seq(Nat) /\ arrived \in Nat
        OBVIOUS
      <3>2. /\ Before(acc[t], line) /\ UpTo(acc[t], arrived)
            /\ Sorted(line) /\ UpTo(line, arrived)
        BY <1>0
      <3>3. QED
        BY <2>1, <3>1, <3>2, AppendFacts
    <2>4. QED
      BY <2>1, <2>2, <2>3 DEF QueueInv
  <1>6. CASE UNCHANGED vars
    BY <1>6 DEF vars, QueueInv
  <1>7. QED
    BY <1>2, <1>3, <1>4, <1>5, <1>6 DEF Next

\* What was handed to on_message is older than everything that waits.
DeliveredInv ==
  /\ Sorted(delivered)
  /\ UpTo(delivered, arrived)
  /\ Before(delivered, line)
  /\ \A t \in Threads : Before(delivered, acc[t])

OrderInv == ExclusionInv /\ QueueInv /\ DeliveredInv

LEMMA HandFacts ==
  ASSUME NEW s \in Seq(Nat), s # <<>>, NEW d \in Seq(Nat), NEW r \in Seq(Nat),
         NEW b \in Nat, Sorted(s), UpTo(s, b), Before(s, r),
         Sorted(d), UpTo(d, b), Before(d, s), Before(d, r)
  PROVE  /\ Sorted(Append(d, Head(s))) /\ UpTo(Append(d, Head(s)), b)
         /\ Before(Append(d, Head(s)), Tail(s))
         /\ Before(Append(d, Head(s)), r)
  <1> DEFINE q == Append(d, Head(s))
             u == Tail(s)
  <1>1. /\ Len(s) \in Nat /\ 1 \in 1 .. Len(s)
        /\ Head(s) = s[1] /\ s[1] \in Nat
    OBVIOUS
  <1>2. /\ Len(q) = Len(d) + 1 /\ Len(d) \in Nat
        /\ \A i \in 1 .. Len(d) : q[i] = d[i]
        /\ q[Len(d) + 1] = s[1]
    BY <1>1
  <1>3. /\ Len(u) = Len(s) - 1
        /\ \A i \in 1 .. Len(u) : u[i] = s[i + 1] /\ i + 1 \in 1 .. Len(s)
    BY <1>1
  <1> HIDE DEF q, u
  <1>4. \A i \in 1 .. Len(q) : i \in 1 .. Len(d) \/ i = Len(d) + 1
    BY <1>2
  <1>5. Sorted(q) /\ UpTo(q, b)
    <2>1. \A i \in 1 .. Len(d) : d[i] < s[1]
      BY <1>1 DEF Before
    <2>2. Sorted(q)
      <3> SUFFICES ASSUME NEW i \in 1 .. Len(q), NEW j \in 1 .. Len(q), i < j
                   PROVE  q[i] < q[j]
        BY DEF Sorted
      <3>1. i \in 1 .. Len(d)
        BY <1>2
      <3>2. CASE j \in 1 .. Len(d)
        BY <1>2, <3>1, <3>2 DEF Sorted
      <3>3. CASE j = Len(d) + 1
        BY <1>2, <2>1, <3>1, <3>3
      <3>4. QED
        BY <1>4, <3>2, <3>3
    <2>3. s[1] <= b
      BY <1>1 DEF UpTo
    <2>4. UpTo(q, b)
      BY <1>2, <1>4, <2>3 DEF UpTo
    <2>5. QED
      BY <2>2, <2>4
  <1>6. Before(q, r)
    BY <1>1, <1>2, <1>4 DEF Before
  <1>7. Before(q, u)
    <2> SUFFICES ASSUME NEW i \in 1 .. Len(q), NEW j \in 1 .. Len(u)
                 PROVE  q[i] < u[j]
      BY DEF Before
    <2>1. u[j] = s[j + 1] /\ j + 1 \in 1 .. Len(s) /\ 1 < j + 1
      BY <1>3
    <2>2. s[1] < u[j]
      BY <1>1, <2>1 DEF Sorted
    <2>3. \A k \in 1 .. Len(d) : d[k] < u[j]
      BY <2>1 DEF Before
    <2>4. QED
      BY <1>2, <1>4, <2>2, <2>3
  <1>8. QED
    BY <1>5, <1>6, <1>7 DEF q, u

LEMMA BeforePrefix ==
  ASSUME NEW r \in Seq(Nat), NEW s \in Seq(Nat), Before(r, s),
         NEW n \in 0 .. Len(s)
  PROVE  Before(r, SubSeq(s, 1, n))
  <1> DEFINE p == SubSeq(s, 1, n)
  <1>1. Len(p) = n /\ \A i \in 1 .. n : p[i] = s[i]
    BY PrefixFacts
  <1>2. \A i \in 1 .. n : i \in 1 .. Len(s)
    OBVIOUS
  <1> HIDE DEF p
  <1>3. Before(r, p)
    BY <1>1, <1>2 DEF Before
  <1>4. QED
    BY <1>3 DEF p

LEMMA DeliveredInit == Init => DeliveredInv
  BY DEF Init, DeliveredInv, Sorted, Before, UpTo

LEMMA DeliveredNext ==
  ASSUME JoinMayExpire = FALSE
  PROVE  OrderInv /\ [Next]_vars => DeliveredInv'
  <1> SUFFICES ASSUME OrderInv, [Next]_vars PROVE DeliveredInv'
    OBVIOUS
  <1>1. /\ acc \in [Threads -> Seq(Nat)] /\ line \in Seq(Nat)
        /\ delivered \in Seq(Nat) /\ arrived \in Nat
        /\ rpc \in [Threads -> ReaderPCs]
    BY ReaderAssumption
       DEF ReaderAssumption, OrderInv, ExclusionInv, TypeInv, TypeOK
  <1>2. /\ Sorted(line) /\ UpTo(line, arrived)
        /\ Sorted(delivered) /\ UpTo(delivered, arrived)
        /\ Before(delivered, line)
    BY DEF OrderInv, QueueInv, DeliveredInv
  <1>3. ASSUME NEW u \in Threads
        PROVE  /\ acc[u] \in Seq(Nat) /\ Sorted(acc[u])
               /\ Before(acc[u], line) /\ UpTo(acc[u], arrived)
               /\ Before(delivered, acc[u])
    <2>1. acc[u] \in Seq(Nat)
      BY <1>1
    <2>2. Sorted(acc[u]) /\ Before(acc[u], line) /\ UpTo(acc[u], arrived)
      BY SMT DEF OrderInv, QueueInv, Sorted, Before, UpTo
    <2>3. Before(delivered, acc[u])
      BY SMT DEF OrderInv, DeliveredInv, Before
    <2>4. QED
      BY <2>1, <2>2, <2>3
  <1>4. \A u, w \in Threads : acc[u] # <<>> /\ acc[w] # <<>> => u = w
    BY DEF OrderInv, QueueInv, ExclusionInv, LiveIsCurrent, Live
  <1>5. ASSUME UNCHANGED <<acc, line, delivered, arrived>> PROVE DeliveredInv'
    BY <1>5 DEF OrderInv, DeliveredInv
  <1> USE DEF ownerVars, sharedVars, threadVars
  <1>6. CASE (Start \/ Stop) /\ UNCHANGED arrived
    BY <1>5, <1>6 DEF Start, BeginStart, ClearEvent, SetRunning, CreateThread,
       LaunchThread, Stop, BeginStop, SetEvent, Join, ForgetThread, ReadState,
       SetIdle
  <1>7. ASSUME NEW t \in Threads, Reader(t), UNCHANGED arrived PROVE DeliveredInv'
    <2>1. CASE Read(t)
      <3>1. PICK n \in 0 .. Len(line) :
               /\ acc' = [acc EXCEPT ![t] = SubSeq(line, 1, n)]
               /\ line' = SubSeq(line, n + 1, Len(line))
        BY <2>1 DEF Read
      <3>2. delivered' = delivered
        BY <2>1 DEF Read
      <3>3. Before(delivered, line')
        BY <1>1, <1>2, <3>1, BeforeSuffix
      <3>4. \A u \in Threads : Before(delivered, acc'[u])
        <4> TAKE u \in Threads
        <4>1. CASE u = t
          BY <1>1, <1>2, <3>1, <4>1, BeforePrefix
        <4>2. CASE u # t
          BY <1>1, <1>3, <3>1, <4>2
        <4>3. QED
          BY <4>1, <4>2
      <3>5. QED
        BY <1>2, <1>7, <3>2, <3>3, <3>4 DEF DeliveredInv
    <2>2. CASE HandOver(t)
      <3>1. /\ acc[t] # <<>> /\ delivered' = Append(delivered, Head(acc[t]))
            /\ acc'[t] = Tail(acc[t]) /\ line' = line
            /\ \A u \in Threads : u # t => acc'[u] = acc[u]
        BY <1>1, <2>2 DEF HandOver, NextMessage
      <3>2. /\ Sorted(delivered') /\ UpTo(delivered', arrived)
            /\ Before(delivered', Tail(acc[t])) /\ Before(delivered', line)
        BY <1>1, <1>2, <1>3, <3>1, HandFacts
      <3>3. \A u \in Threads : Before(delivered', acc'[u])
        <4> TAKE u \in Threads
        <4>1. CASE u = t
          BY <3>1, <3>2, <4>1
        <4>2. CASE u # t
          BY <1>4, <3>1, <4>2 DEF Before
        <4>3. QED
          BY <4>1, <4>2
      <3>4. QED
        BY <1>7, <3>1, <3>2, <3>3 DEF DeliveredInv
    <2>3. CASE HandOverFails(t)
      <3>1. /\ line' = line /\ delivered' = delivered
            /\ \A u \in Threads : acc'[u] = acc[u] \/ acc'[u] = <<>>
        BY <1>1, <2>3 DEF HandOverFails
      <3>2. \A u \in Threads : Before(delivered, acc'[u])
        BY <1>3, <3>1 DEF Before
      <3>3. QED
        BY <1>2, <1>7, <3>1, <3>2 DEF DeliveredInv
    <2>4. CASE TestEvent(t) \/ ReadFails(t) \/ Drained(t) \/ SetFaulted(t)
               \/ FaultSetsEvent(t) \/ EndAfterFault(t)
      BY <1>5, <1>7, <2>4 DEF TestEvent, ReadFails, Drained, SetFaulted,
         FaultSetsEvent, EndAfterFault
    <2>5. QED
      BY <1>7, <2>1, <2>2, <2>3, <2>4 DEF Reader, ReaderAlone
  <1>8. CASE Arrive
    <2>1. /\ line' = Append(line, arrived + 1) /\ arrived' = arrived + 1
          /\ acc' = acc /\ delivered' = delivered
      BY <1>8 DEF Arrive
    <2>2. Before(delivered', line') /\ UpTo(delivered', arrived')
      BY <1>1, <1>2, <2>1, AppendFacts
    <2>3. QED
      BY <1>2, <1>3, <2>1, <2>2 DEF DeliveredInv
  <1>9. CASE UNCHANGED vars
    BY <1>5, <1>9 DEF vars
  <1>10. QED
    BY <1>6, <1>7, <1>8, <1>9 DEF Next

THEOREM Order ==
  ASSUME JoinMayExpire = FALSE
  PROVE  Spec => []OrderInv
  <1>1. Init => OrderInv
    BY ExclusionInit, QueueInit, DeliveredInit DEF OrderInv
  <1>2. OrderInv /\ [Next]_vars => OrderInv'
    BY ExclusionNext, QueueNext, DeliveredNext DEF OrderInv, ExclusionInv
  <1>3. QED
    BY <1>1, <1>2, PTL DEF Spec

\* on_message sees the messages in the order of their arrival, each at most
\* once, across stops, faults and restarts.
THEOREM InOrderAlways ==
  ASSUME JoinMayExpire = FALSE
  PROVE  Spec => []InOrder
  <1>1. OrderInv => InOrder
    BY DEF OrderInv, DeliveredInv, Sorted, InOrder
  <1>2. QED
    BY <1>1, Order, PTL

----------------------------------------------------------------------------
(***************************************************************************)
(* The reader implements OrderedDelivery, for any number of threads and    *)
(* messages, if join() waits until the thread has ended.  A hand-over      *)
(* delivers the oldest message that waits; a callback that raises loses    *)
(* those of its batch; every other step of the reader is invisible.        *)
(***************************************************************************)

\* What waits on the port and what the threads hold.
Held == UNION {Range(acc[t]) : t \in Threads}

LEMMA RangeFacts ==
  ASSUME NEW s \in Seq(Nat)
  PROVE  /\ Range(s) = {s[i] : i \in 1 .. Len(s)}
         /\ \A x \in Nat : Range(Append(s, x)) = Range(s) \cup {x}
         /\ Range(s) \subseteq Nat
  <1>1. Range(s) = {s[i] : i \in 1 .. Len(s)}
    BY DEF Range
  <1>2. ASSUME NEW x \in Nat PROVE Range(Append(s, x)) = Range(s) \cup {x}
    <2> DEFINE q == Append(s, x)
    <2>1. /\ q \in Seq(Nat) /\ Len(q) = Len(s) + 1 /\ Len(s) \in Nat
          /\ \A i \in 1 .. Len(s) : q[i] = s[i]
          /\ q[Len(s) + 1] = x
      OBVIOUS
    <2> HIDE DEF q
    <2>2. Range(q) = {q[i] : i \in 1 .. Len(q)}
      BY <2>1 DEF Range
    <2>3. 1 .. Len(q) = (1 .. Len(s)) \cup {Len(s) + 1}
      BY <2>1
    <2>4. Range(q) = Range(s) \cup {x}
      BY <1>1, <2>1, <2>2, <2>3
    <2>5. QED
      BY <2>4 DEF q
  <1>3. QED
    BY <1>1, <1>2

LEMMA RangeSplit ==
  ASSUME NEW s \in Seq(Nat), NEW n \in 0 .. Len(s)
  PROVE  Range(s) = Range(SubSeq(s, 1, n)) \cup Range(SubSeq(s, n + 1, Len(s)))
  <1> DEFINE p == SubSeq(s, 1, n)
             q == SubSeq(s, n + 1, Len(s))
  <1>1. p \in Seq(Nat) /\ Len(p) = n /\ \A i \in 1 .. n : p[i] = s[i]
    BY PrefixFacts
  <1>2. /\ q \in Seq(Nat) /\ Len(q) = Len(s) - n
        /\ \A i \in 1 .. (Len(s) - n) : q[i] = s[n + i]
    BY SuffixFacts
  <1>3. n \in Nat /\ Len(s) \in Nat /\ n <= Len(s)
    OBVIOUS
  <1> HIDE DEF p, q
  <1>4. /\ Range(p) = {p[i] : i \in 1 .. n}
        /\ Range(q) = {q[i] : i \in 1 .. (Len(s) - n)}
        /\ Range(s) = {s[i] : i \in 1 .. Len(s)}
    BY <1>1, <1>2, RangeFacts
  <1>5. ASSUME NEW i \in 1 .. Len(s) PROVE s[i] \in Range(p) \cup Range(q)
    <2>1. CASE i <= n
      <3>1. i \in 1 .. n
        BY <1>3, <2>1
      <3>2. QED
        BY <1>1, <1>4, <3>1
    <2>2. CASE i > n
      <3>1. i - n \in 1 .. (Len(s) - n) /\ n + (i - n) = i
        BY <1>3, <2>2
      <3>2. QED
        BY <1>2, <1>4, <3>1
    <2>3. QED
      BY <1>3, <2>1, <2>2
  <1>6. ASSUME NEW i \in 1 .. n PROVE p[i] \in Range(s)
    BY <1>1, <1>3, <1>4
  <1>7. ASSUME NEW i \in 1 .. (Len(s) - n) PROVE q[i] \in Range(s)
    <2>1. n + i \in 1 .. Len(s)
      BY <1>3
    <2>2. QED
      BY <1>2, <1>4, <2>1
  <1>8. Range(s) = Range(p) \cup Range(q)
    BY <1>4, <1>5, <1>6, <1>7
  <1>9. QED
    BY <1>8 DEF p, q

LEMMA RangeTail ==
  ASSUME NEW s \in Seq(Nat), s # <<>>, Sorted(s)
  PROVE  /\ Head(s) \in Nat /\ Range(s) = {Head(s)} \cup Range(Tail(s))
         /\ Head(s) \notin Range(Tail(s))
         /\ \A k \in Range(s) : Head(s) <= k
  <1> DEFINE u == Tail(s)
  <1>1. /\ Len(s) \in Nat /\ 1 \in 1 .. Len(s)
        /\ Head(s) = s[1] /\ \A i \in 1 .. Len(s) : s[i] \in Nat
    OBVIOUS
  <1>2. /\ u \in Seq(Nat) /\ Len(u) = Len(s) - 1
        /\ \A i \in 1 .. (Len(s) - 1) : u[i] = s[i + 1]
    OBVIOUS
  <1> HIDE DEF u
  <1>3. /\ Range(s) = {s[i] : i \in 1 .. Len(s)}
        /\ Range(u) = {u[i] : i \in 1 .. (Len(s) - 1)}
    BY <1>2, RangeFacts
  <1>4. \A i \in 1 .. Len(s) : i = 1 \/ (i - 1 \in 1 .. (Len(s) - 1) /\ (i - 1) + 1 = i)
    BY <1>1
  <1>5. \A i \in 1 .. (Len(s) - 1) : i + 1 \in 1 .. Len(s) /\ 1 < i + 1
    BY <1>1
  <1>6. Range(s) = {s[1]} \cup Range(u)
    <2>1. ASSUME NEW i \in 1 .. Len(s) PROVE s[i] \in {s[1]} \cup Range(u)
      <3>1. CASE i = 1
        BY <3>1
      <3>2. CASE i # 1
        <4>1. i - 1 \in 1 .. (Len(s) - 1) /\ u[i - 1] = s[(i - 1) + 1]
          BY <1>2, <1>4, <3>2
        <4>2. (i - 1) + 1 = i
          BY <1>4, <3>2
        <4>3. QED
          BY <1>3, <4>1, <4>2
      <3>3. QED
        BY <3>1, <3>2
    <2>2. {s[1]} \cup Range(u) \subseteq Range(s)
      BY <1>1, <1>2, <1>3, <1>5
    <2>3. QED
      BY <1>3, <2>1, <2>2
  <1>7. \A i \in 1 .. (Len(s) - 1) : s[1] < u[i]
    BY <1>1, <1>2, <1>5 DEF Sorted
  <1>8. s[1] \notin Range(u)
    BY <1>1, <1>3, <1>7
  <1>9. \A i \in 1 .. Len(s) : s[1] <= s[i]
    BY <1>1 DEF Sorted
  <1>10. QED
    BY <1>1, <1>3, <1>6, <1>8, <1>9 DEF u

LEMMA PendingIs == TypeOK /\ QueueInv => Pending = Range(line) \cup Held
  <1> SUFFICES ASSUME TypeOK, QueueInv PROVE Pending = Range(line) \cup Held
    OBVIOUS
  <1>1. ASSUME NEW t \in Threads, t \notin Reading PROVE Range(acc[t]) = {}
    <2>1. acc[t] = <<>>
      BY <1>1 DEF QueueInv, Reading
    <2>2. QED
      BY <2>1 DEF Range
  <1>2. QED
    BY <1>1 DEF Pending, Held, Reading

LEMMA PendingIsNext ==
  TypeOK' /\ QueueInv' => Pending' = Range(line') \cup Held'
  <1>1. (TypeOK /\ QueueInv => Pending = Range(line) \cup Held)'
    BY PendingIs, PTL
  <1>2. QED
    BY <1>1

Simulates == \/ UNCHANGED <<arrived, Pending, delivered>>
             \/ Promise!Arrive \/ Promise!Deliver \/ Promise!Lose

LEMMA RefinementInit == Init => Promise!Init
  <1> SUFFICES ASSUME Init PROVE Promise!Init
    OBVIOUS
  <1>1. Range(<<>>) = {}
    BY DEF Range
  <1>2. line = <<>> /\ Reading = {}
    BY DEF Init, Reading
  <1>3. Pending = {}
    BY <1>1, <1>2 DEF Pending
  <1>4. QED
    BY <1>3 DEF Init, Promise!Init

LEMMA RefinementNext ==
  ASSUME JoinMayExpire = FALSE
  PROVE  OrderInv /\ OrderInv' /\ [Next]_vars => Simulates
  <1> SUFFICES ASSUME OrderInv, OrderInv', [Next]_vars PROVE Simulates
    OBVIOUS
  <1>1. /\ TypeOK /\ QueueInv /\ TypeOK' /\ QueueInv'
        /\ acc \in [Threads -> Seq(Nat)] /\ line \in Seq(Nat)
        /\ rpc \in [Threads -> ReaderPCs]
    BY DEF OrderInv, ExclusionInv, TypeInv, TypeOK
  <1>2. arrived \in Nat
    BY <1>1, ReaderAssumption DEF TypeOK, ReaderAssumption
  <1>3. \A u, w \in Threads : acc[u] # <<>> /\ acc[w] # <<>> => u = w
    BY DEF OrderInv, QueueInv, ExclusionInv, LiveIsCurrent, Live
  <1>4. Pending = Range(line) \cup Held /\ Pending' = Range(line') \cup Held'
    BY <1>1, PendingIs, PendingIsNext
  <1>5. Range(<<>>) = {}
    BY DEF Range
  <1>6. ASSUME UNCHANGED <<acc, line, delivered, arrived>> PROVE Simulates
    <2>1. Held' = Held
      BY <1>6 DEF Held
    <2>2. QED
      BY <1>4, <1>6, <2>1 DEF Simulates
  <1> USE DEF ownerVars, sharedVars, threadVars
  <1>7. CASE (Start \/ Stop) /\ UNCHANGED arrived
    BY <1>6, <1>7 DEF Start, BeginStart, ClearEvent, SetRunning, CreateThread,
       LaunchThread, Stop, BeginStop, SetEvent, Join, ForgetThread, ReadState,
       SetIdle
  <1>8. ASSUME NEW t \in Threads, Reader(t), UNCHANGED arrived PROVE Simulates
    <2>1. CASE Read(t)
      <3>1. PICK n \in 0 .. Len(line) :
               /\ acc' = [acc EXCEPT ![t] = SubSeq(line, 1, n)]
               /\ line' = SubSeq(line, n + 1, Len(line))
        BY <2>1 DEF Read
      <3>2. acc[t] = <<>>
        BY <1>1, <2>1 DEF Read, Step, QueueInv
      <3>3. Range(line) = Range(acc'[t]) \cup Range(line')
        BY <1>1, <3>1, RangeSplit
      <3>4. \A u \in Threads : u # t => acc'[u] = acc[u]
        BY <1>1, <3>1
      <3>5. Held' = Held \cup Range(acc'[t])
        BY <1>5, <3>2, <3>4 DEF Held
      <3>6. Pending' = Pending
        BY <1>4, <3>3, <3>5
      <3>7. QED
        BY <1>8, <2>1, <3>6 DEF Read, Simulates
    <2>2. CASE HandOver(t)
      <3> DEFINE m == Head(acc[t])
      <3>1. /\ acc[t] # <<>> /\ delivered' = Append(delivered, m)
            /\ acc'[t] = Tail(acc[t]) /\ line' = line
            /\ \A u \in Threads : u # t => acc[u] = <<>> /\ acc'[u] = <<>>
        BY <1>1, <1>3, <2>2 DEF HandOver, NextMessage
      <3>2. acc[t] \in Seq(Nat)
        BY <1>1
      <3>3. Sorted(acc[t]) /\ Before(acc[t], line)
        BY <1>1, SMT DEF QueueInv, Sorted, Before, UpTo
      <3>4. Held = Range(acc[t]) /\ Held' = Range(acc'[t])
        BY <1>5, <3>1 DEF Held
      <3>5. /\ m \in Nat /\ Range(acc[t]) = {m} \cup Range(acc'[t])
            /\ m \notin Range(acc'[t])
            /\ \A k \in Range(acc[t]) : m <= k
        BY <3>1, <3>2, <3>3, RangeTail
      <3>6. \A k \in Range(line) : m < k
        <4>1. m = acc[t][1] /\ 1 \in 1 .. Len(acc[t])
          BY <3>1, <3>2
        <4>2. Range(line) = {line[j] : j \in 1 .. Len(line)}
          BY <1>1, RangeFacts
        <4>3. QED
          BY <3>3, <4>1, <4>2 DEF Before
      <3>7. Range(line) \subseteq Nat
        BY <1>1, RangeFacts
      <3> HIDE DEF m
      <3>8. \A k \in Range(line) : m <= k /\ k # m
        BY <3>5, <3>6, <3>7
      <3>9. m \in Pending /\ Pending' = Pending \ {m}
        BY <1>4, <3>1, <3>4, <3>5, <3>8
      <3>10. \A k \in Pending : m <= k
        BY <1>4, <3>4, <3>5, <3>8
      <3>11. Promise!Deliver
        BY <1>8, <3>1, <3>9, <3>10 DEF Promise!Deliver
      <3>12. QED
        BY <3>11 DEF Simulates
    <2>3. CASE HandOverFails(t)
      <3>1. /\ line' = line /\ delivered' = delivered
            /\ \A u \in Threads : acc'[u] = acc[u] \/ acc'[u] = <<>>
        BY <1>1, <2>3 DEF HandOverFails
      <3>2. Held' \subseteq Held
        BY <1>5, <3>1 DEF Held
      <3>3. Pending' \subseteq Pending
        BY <1>4, <3>1, <3>2
      <3>4. QED
        BY <1>8, <3>1, <3>3 DEF Simulates, Promise!Lose
    <2>4. CASE TestEvent(t) \/ ReadFails(t) \/ Drained(t) \/ SetFaulted(t)
               \/ FaultSetsEvent(t) \/ EndAfterFault(t)
      BY <1>6, <1>8, <2>4 DEF TestEvent, ReadFails, Drained, SetFaulted,
         FaultSetsEvent, EndAfterFault
    <2>5. QED
      BY <1>8, <2>1, <2>2, <2>3, <2>4 DEF Reader, ReaderAlone
  <1>9. CASE Arrive
    <2>1. /\ line' = Append(line, arrived + 1) /\ arrived' = arrived + 1
          /\ acc' = acc /\ delivered' = delivered
      BY <1>9 DEF Arrive
    <2>2. Range(line') = Range(line) \cup {arrived + 1}
      BY <1>1, <1>2, <2>1, RangeFacts
    <2>3. Held' = Held
      BY <2>1 DEF Held
    <2>4. Promise!Arrive
      BY <1>4, <2>1, <2>2, <2>3 DEF Promise!Arrive
    <2>5. QED
      BY <2>4 DEF Simulates
  <1>10. CASE UNCHANGED vars
    BY <1>6, <1>10 DEF vars
  <1>11. QED
    BY <1>7, <1>8, <1>9, <1>10 DEF Next

\* Every behaviour of the reader is one of OrderedDelivery.
THEOREM ReaderKeepsThePromise ==
  ASSUME JoinMayExpire = FALSE
  PROVE  Spec => ImplementsOrderedDelivery
  <1>1. OrderInv /\ OrderInv' /\ [Next]_vars => [Promise!Next]_(Promise!vars)
    BY RefinementNext DEF Simulates, Promise!Next, Promise!vars
  <1>2. QED
    BY <1>1, RefinementInit, Order, PTL
       DEF Spec, ImplementsOrderedDelivery, Promise!Spec

=============================================================================
