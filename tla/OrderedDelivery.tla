-------------------------- MODULE OrderedDelivery --------------------------
(***************************************************************************)
(* What every stage of the library that carries messages from a device to  *)
(* a callback promises, and no more: messages are handed on in the order   *)
(* in which they arrived, each at most once; some of them may be lost on   *)
(* the way.  The reader thread (StreamReader), the device handle with its  *)
(* bounded buffer (MtiDevice) and the asynchronous one (AsyncDevice) are   *)
(* shown to implement it.                                                  *)
(*                                                                         *)
(* Messages are numbered by arrival: message n is the n-th to arrive.      *)
(***************************************************************************)
EXTENDS Naturals, Sequences

VARIABLES arrived,    \* how many messages have arrived
          pending,    \* the messages that may still be delivered
          delivered   \* the messages the callback received, oldest first

vars == <<arrived, pending, delivered>>

Init == arrived = 0 /\ pending = {} /\ delivered = <<>>

Arrive == /\ arrived' = arrived + 1
          /\ pending' = pending \cup {arrived + 1}
          /\ UNCHANGED delivered

\* Only the oldest pending message can be delivered.
Deliver == \E m \in pending : /\ \A k \in pending : m <= k
                              /\ pending' = pending \ {m}
                              /\ delivered' = Append(delivered, m)
                              /\ UNCHANGED arrived

\* Any of the pending messages can be lost.
Lose == /\ pending' \in (SUBSET pending) \ {pending}
        /\ UNCHANGED <<arrived, delivered>>

Next == Arrive \/ Deliver \/ Lose

Spec == Init /\ [][Next]_vars

----------------------------------------------------------------------------
TypeOK == /\ arrived \in Nat
          /\ pending \subseteq 1 .. arrived
          /\ delivered \in Seq(1 .. arrived)

\* The callback sees the messages in the order in which they arrived, and
\* none of them twice.
InOrder == \A i, j \in 1 .. Len(delivered) :
              i < j => delivered[i] < delivered[j]

============================================================================
