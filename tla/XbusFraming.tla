----------------------------- MODULE XbusFraming -----------------------------
(***************************************************************************)
(* Xbus frames on a byte stream (xbus/encode.py, decode.py, datatypes.py): *)
(* how a message becomes a frame, and how the two decoders find messages   *)
(* in a buffer: drain_xbus_messages, which the reader thread calls again   *)
(* and again with what it left plus what came, and                         *)
(* iter_xbus_messages_from_buffer, which the serial exchange applies to    *)
(* the whole of its buffer.                                                *)
(*                                                                         *)
(* A frame is  PREAMBLE BID MID LEN [EXT_HI EXT_LO] payload checksum.      *)
(* The size of a byte is a constant, and the framing constants with it, so *)
(* that TLC can go through all the noise between two frames.               *)
(***************************************************************************)
EXTENDS Integers, Sequences

CONSTANTS
  Base,       \* the number of byte values, 256
  PREAMBLE, EXTLEN,    \* XbusFraming
  MAX_STD, MAX_EXT,    \* PayloadLength
  BID,        \* the bus ID of the sender
  MIDs,       \* the known message IDs (XbusMessageID)
  Payloads,   \* the payloads that are sent
  MaxFrames,  \* bound: frames sent
  MaxNoise    \* bound: bytes on the line that belong to no frame

Bytes == 0 .. Base - 1

ASSUME FramingAssumption == /\ Base \in Nat \ {0, 1}
                            /\ {PREAMBLE, EXTLEN, BID} \cup MIDs \subseteq Bytes
                            /\ MAX_STD \in Nat /\ MAX_STD < EXTLEN
                            /\ MAX_EXT \in Nat /\ MAX_EXT < Base * Base
                            /\ Payloads \subseteq Seq(Bytes)
                            /\ \A p \in Payloads : Len(p) <= MAX_EXT
                            /\ MaxFrames \in Nat
                            /\ MaxNoise \in Nat

VARIABLES
  stream,  \* all bytes that were put on the line
  frames,  \* the frames among them: where they begin, and their messages
  noise,   \* how many bytes belong to no frame
  read,    \* how many bytes the reader has read
  buffer,  \* the reader's accumulator
  out      \* the messages it was given, with the place where each begins

vars == <<stream, frames, noise, read, buffer, out>>

Init == /\ stream = <<>>
        /\ frames = <<>>
        /\ noise = 0
        /\ read = 0
        /\ buffer = <<>>
        /\ out = <<>>

----------------------------------------------------------------------------
\* Encoding.

Sum(seq) == LET upTo[i \in 0 .. Len(seq)] ==
                  IF i = 0 THEN 0 ELSE upTo[i - 1] + seq[i]
            IN  upTo[Len(seq)]

\* Mutant of Header: a payload of the largest standard length and one more is
\* sent with standard framing.
HeaderLate(payload) ==
  IF Len(payload) > MAX_STD + 1
  THEN <<EXTLEN, Len(payload) \div Base, Len(payload) % Base>>
  ELSE <<Len(payload)>>

\* The length field: one byte, or the marker and two bytes.
Header(payload) ==
  IF Len(payload) > MAX_STD
  THEN <<EXTLEN, Len(payload) \div Base, Len(payload) % Base>>
  ELSE <<Len(payload)>>

\* Mutant of Frame: the checksum is not reduced to a byte.
FrameUnreduced(mid, payload) ==
  LET body == <<BID, mid>> \o Header(payload) \o payload
  IN  <<PREAMBLE>> \o body \o <<-Sum(body)>>

\* build_xbus_message(BID, mid, payload).to_bytes()
Frame(mid, payload) ==
  LET body == <<BID, mid>> \o Header(payload) \o payload
  IN  <<PREAMBLE>> \o body \o <<(-Sum(body)) % Base>>

----------------------------------------------------------------------------
\* Decoding at one place of a buffer.

IsExtended(b, o) == b[o + 3] = EXTLEN

HeaderLength(b, o) == IF IsExtended(b, o) THEN 6 ELSE 4

PayloadLength(b, o) ==
  IF IsExtended(b, o) THEN b[o + 4] * Base + b[o + 5] ELSE b[o + 3]

FrameLength(b, o) == HeaderLength(b, o) + PayloadLength(b, o) + 1

\* The low byte of the sum of everything behind the preamble is zero.
ChecksumValid(b, o) ==
  Sum(SubSeq(b, o + 1, o + FrameLength(b, o) - 1)) % Base = 0

MessageAt(b, o) ==
  [mid |-> b[o + 2],
   payload |-> SubSeq(b, o + HeaderLength(b, o), o + FrameLength(b, o) - 2)]

\* What the bytes from o on are: not enough of them, a valid frame, or not
\* the beginning of a frame.
Verdict(b, o) ==
  LET available == Len(b) - o + 1
  IN  CASE b[o] # PREAMBLE                        -> "noise"
        [] b[o] = PREAMBLE /\ available < 4       -> "short"
        [] OTHER ->
             IF b[o + 2] \notin MIDs              THEN "unknown"
             ELSE IF available < HeaderLength(b, o) THEN "incomplete"
             ELSE IF available < FrameLength(b, o)  THEN "incomplete"
             ELSE IF ChecksumValid(b, o)            THEN "valid"
             ELSE "corrupt"

\* Mutant of Drain: a corrupt frame is skipped as a whole.
DrainSkipsFrame(b) ==
  LET from[o \in 1 .. Len(b) + 1] ==
        IF o > Len(b) THEN [messages |-> <<>>, kept |-> o]
        ELSE LET verdict == Verdict(b, o)
             IN  IF verdict \in {"short", "incomplete"}
                 THEN [messages |-> <<>>, kept |-> o]
                 ELSE IF verdict = "valid"
                 THEN LET rest == from[o + FrameLength(b, o)]
                      IN  [rest EXCEPT !.messages =
                             <<[at |-> o, msg |-> MessageAt(b, o)]>> \o @]
                 ELSE IF verdict = "corrupt" THEN from[o + FrameLength(b, o)]
                 ELSE from[o + 1]
  IN  from[1]

\* drain_xbus_messages: the messages, and where the bytes begin that stay.
Drain(b) ==
  LET from[o \in 1 .. Len(b) + 1] ==
        IF o > Len(b) THEN [messages |-> <<>>, kept |-> o]
        ELSE LET verdict == Verdict(b, o)
             IN  IF verdict \in {"short", "incomplete"}
                 THEN [messages |-> <<>>, kept |-> o]
                 ELSE IF verdict = "valid"
                 THEN LET rest == from[o + FrameLength(b, o)]
                      IN  [rest EXCEPT !.messages =
                             <<[at |-> o, msg |-> MessageAt(b, o)]>> \o @]
                 ELSE from[o + 1]
  IN  from[1]

\* Mutant of Iter: an unknown ID is skipped, and its message yielded.
IterYieldsUnknown(b) ==
  LET from[o \in 1 .. Len(b) + 1] ==
        IF o > Len(b) THEN [messages |-> <<>>, raised |-> FALSE]
        ELSE LET verdict == Verdict(b, o)
             IN  IF verdict \in {"short", "incomplete"}
                 THEN [messages |-> <<>>, raised |-> verdict = "incomplete"]
                 ELSE IF verdict = "valid"
                 THEN LET rest == from[o + FrameLength(b, o)]
                      IN  [rest EXCEPT !.messages = <<MessageAt(b, o)>> \o @]
                 ELSE IF verdict = "unknown"
                 THEN [messages |-> <<[mid |-> b[o + 2], payload |-> <<>>]>>,
                       raised |-> FALSE]
                 ELSE from[o + 1]
  IN  from[1]

\* iter_xbus_messages_from_buffer: the messages it yields, and whether it
\* raises behind them: on an ID it does not know, and on a frame that is not
\* complete beyond its first four bytes.
Iter(b) ==
  LET from[o \in 1 .. Len(b) + 1] ==
        IF o > Len(b) THEN [messages |-> <<>>, raised |-> FALSE]
        ELSE LET verdict == Verdict(b, o)
             IN  IF verdict \in {"short", "incomplete", "unknown"}
                 THEN [messages |-> <<>>, raised |-> verdict # "short"]
                 ELSE IF verdict = "valid"
                 THEN LET rest == from[o + FrameLength(b, o)]
                      IN  [rest EXCEPT !.messages = <<MessageAt(b, o)>> \o @]
                 ELSE from[o + 1]
  IN  from[1]

----------------------------------------------------------------------------
\* The device sends a frame, or bytes reach the line that belong to none:
\* the rest of a frame whose beginning was not seen, or line noise.
SendFrame(mid, payload) ==
  /\ Len(frames) < MaxFrames
  /\ frames' = Append(frames, [at |-> Len(stream) + 1,
                               msg |-> [mid |-> mid, payload |-> payload]])
  /\ stream' = stream \o Frame(mid, payload)
  /\ UNCHANGED <<noise, read, buffer, out>>

SendNoise(byte) ==
  /\ noise < MaxNoise
  /\ noise' = noise + 1
  /\ stream' = Append(stream, byte)
  /\ UNCHANGED <<frames, read, buffer, out>>

\* Mutant of Read: the accumulator is cleared with every chunk.
ReadAfresh(n) ==
  LET had == SubSeq(stream, read + 1, read + n)
      drained == Drain(had)
      begin == read
  IN  /\ read + n <= Len(stream)
      /\ read' = read + n
      /\ buffer' = SubSeq(had, drained.kept, Len(had))
      /\ out' = out \o [i \in DOMAIN drained.messages |->
                          [drained.messages[i] EXCEPT !.at = @ + begin]]
      /\ UNCHANGED <<stream, frames, noise>>

\* The reader reads a chunk of any size, and drains its accumulator.
Read(n) ==
  LET had == buffer \o SubSeq(stream, read + 1, read + n)
      drained == Drain(had)
      begin == read - Len(buffer)
  IN  /\ read + n <= Len(stream)
      /\ read' = read + n
      /\ buffer' = SubSeq(had, drained.kept, Len(had))
      /\ out' = out \o [i \in DOMAIN drained.messages |->
                          [drained.messages[i] EXCEPT !.at = @ + begin]]
      /\ UNCHANGED <<stream, frames, noise>>

Next == \/ \E mid \in MIDs, payload \in Payloads : SendFrame(mid, payload)
        \/ \E byte \in Bytes : SendNoise(byte)
        \/ \E n \in 1 .. Len(stream) : Read(n)

Spec == Init /\ [][Next]_vars

----------------------------------------------------------------------------
Messages == [mid : MIDs, payload : Seq(Bytes)]
Entries  == [at : Nat, msg : Messages]

\* The largest frame a header can announce: not MAX_EXT, but what two bytes
\* can say.
TypeOK == /\ stream \in Seq(Bytes)
          /\ frames \in Seq(Entries)
          /\ noise \in 0 .. MaxNoise
          /\ read \in 0 .. Len(stream)
          /\ buffer \in Seq(Bytes) /\ Len(buffer) < 7 + Base * Base
          /\ out \in Seq(Entries)

\* "Any incomplete frame at the tail is preserved so the caller can append
\* more data and call again" (drain_xbus_messages): what is decoded, and what
\* is kept, does not depend on how the bytes were cut into chunks.
ChunkingIsInvisible ==
  LET seen == SubSeq(stream, 1, read)
      once == Drain(seen)
  IN  /\ out = once.messages
      /\ buffer = SubSeq(seen, once.kept, read)

\* The places of a frame that was sent, and of a message that was decoded:
\* not every frame has the header that the encoder would choose.
Places(frame) ==
  frame.at .. frame.at + Len(Frame(frame.msg.mid, frame.msg.payload)) - 1

Taken(entry) == entry.at .. entry.at + FrameLength(stream, entry.at) - 1

\* A frame that was sent and has left the accumulator was decoded, unless a
\* message was found at the same bytes: noise is dropped byte by byte, and
\* never takes a frame behind it along.
NoFrameIsSkipped ==
  \A i \in DOMAIN frames :
     Places(frames[i]) \subseteq 1 .. read - Len(buffer)
       => \E j \in DOMAIN out : Taken(out[j]) \cap Places(frames[i]) # {}

\* Without noise the messages that were sent are decoded, one by one, each as
\* soon as its last byte is read, with preambles in the payload or not.
CleanStreamIsExact ==
  noise = 0 =>
    \A i \in 1 .. Len(frames) + Len(out) :
       /\ i <= Len(out) <=> /\ i <= Len(frames)
                           /\ Places(frames[i]) \subseteq 1 .. read
       /\ i <= Len(out) => out[i] = frames[i]

\* The two decoders agree: iter_xbus_messages_from_buffer yields the first of
\* the messages that drain_xbus_messages takes, all of them if it does not
\* raise.
DecodersAgree ==
  LET seen == SubSeq(stream, 1, read)
      yielded == Iter(seen)
      taken == Drain(seen).messages
  IN  /\ Len(yielded.messages) <= Len(taken)
      /\ \A i \in DOMAIN yielded.messages : yielded.messages[i] = taken[i].msg
      /\ ~yielded.raised => Len(yielded.messages) = Len(taken)

=============================================================================
