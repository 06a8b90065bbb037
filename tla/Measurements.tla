---------------------------- MODULE Measurements ----------------------------
(***************************************************************************)
(* MTData2 payloads and the measurements in them (mtdata2/decode.py,       *)
(* measurement_decode.py).  A payload is a sequence of bytes: packets, one *)
(* behind the other, of a two-byte ID, a length and that many bytes.       *)
(*                                                                         *)
(* A number is the bits it is stored in, read as a big-endian integer:     *)
(* whether they are a float, and the factor to SI units, are left out.     *)
(***************************************************************************)
EXTENDS Integers, SequencesExt

\* A loop that keeps the elements of a list at some places.
Keep(list, places) ==
  FlattenSeq([i \in DOMAIN list |-> IF i \in places THEN <<list[i]>> ELSE <<>>])

\* MtData2PacketID: a number of two bytes.
ID(high, low) == 256 * high + low

PacketID ==
  [TEMPERATURE |-> ID(8, 16), UTC_TIME |-> ID(16, 16),
   PACKET_COUNTER |-> ID(16, 32), SAMPLE_TIME_FINE |-> ID(16, 96),
   ORIENTATION_QUATERNION |-> ID(32, 16), ORIENTATION_EULER |-> ID(32, 48),
   BARO_PRESSURE |-> ID(48, 16), DELTA_V |-> ID(64, 16),
   ACCELERATION |-> ID(64, 32), FREE_ACCELERATION |-> ID(64, 48),
   RATE_OF_TURN |-> ID(128, 32), DELTA_Q |-> ID(128, 48),
   MAGNETIC_FIELD |-> ID(192, 32), ALTITUDE_ELLIPSOID |-> ID(80, 32),
   POSITION_ECEF |-> ID(80, 48), POSITION_LL_ELLIPSOID |-> ID(80, 64),
   GNSS_PVT |-> ID(112, 16), VELOCITY_NED |-> ID(208, 16),
   STATUS_BYTE |-> ID(224, 16), STATUS_WORD |-> ID(224, 32)]

Types     == DOMAIN PacketID
PacketIDs == {PacketID[type] : type \in Types}

TypeOf == [id \in PacketIDs |-> CHOOSE type \in Types : PacketID[type] = id]

\* What struct.unpack splits the data into: the widths of the fields.
Words(n) == [i \in 1 .. n |-> 4]

GnssPvtFormat ==
  <<4, 2, 1, 1, 1, 1, 1, 1, 4, 4, 1, 1, 1, 1>> \o Words(14)
    \o [i \in 1 .. 7 |-> 2]

Format ==
  [TEMPERATURE |-> Words(1), UTC_TIME |-> <<4, 2, 1, 1, 1, 1, 1, 1>>,
   PACKET_COUNTER |-> <<2>>, SAMPLE_TIME_FINE |-> Words(1),
   ORIENTATION_QUATERNION |-> Words(4), ORIENTATION_EULER |-> Words(3),
   BARO_PRESSURE |-> Words(1), DELTA_V |-> Words(3), ACCELERATION |-> Words(3),
   FREE_ACCELERATION |-> Words(3), RATE_OF_TURN |-> Words(3),
   DELTA_Q |-> Words(4), MAGNETIC_FIELD |-> Words(3),
   ALTITUDE_ELLIPSOID |-> Words(1), POSITION_ECEF |-> Words(3),
   POSITION_LL_ELLIPSOID |-> Words(2), GNSS_PVT |-> GnssPvtFormat,
   VELOCITY_NED |-> Words(3), STATUS_BYTE |-> <<1>>, STATUS_WORD |-> Words(1)]

SumOf(widths) ==
  LET sum[i \in 0 .. Len(widths)] == IF i = 0 THEN 0 ELSE sum[i - 1] + widths[i]
  IN  sum[Len(widths)]

\* What _check_length asks for.
ExpectedLength ==
  [TEMPERATURE |-> 4, UTC_TIME |-> 12, PACKET_COUNTER |-> 2,
   SAMPLE_TIME_FINE |-> 4, ORIENTATION_QUATERNION |-> 16,
   ORIENTATION_EULER |-> 12, BARO_PRESSURE |-> 4, DELTA_V |-> 12,
   ACCELERATION |-> 12, FREE_ACCELERATION |-> 12, RATE_OF_TURN |-> 12,
   DELTA_Q |-> 16, MAGNETIC_FIELD |-> 12, ALTITUDE_ELLIPSOID |-> 4,
   POSITION_ECEF |-> 12, POSITION_LL_ELLIPSOID |-> 8,
   GNSS_PVT |-> SumOf(GnssPvtFormat), VELOCITY_NED |-> 12, STATUS_BYTE |-> 1,
   STATUS_WORD |-> 4]

\* int.from_bytes, and its inverse for the two bytes of an ID or a rate.
FromBytes(bytes) ==
  LET number[i \in 0 .. Len(bytes)] ==
        IF i = 0 THEN 0 ELSE 256 * number[i - 1] + bytes[i]
  IN  number[Len(bytes)]

TwoBytes(n) == <<n \div 256, n % 256>>

----------------------------------------------------------------------------
\* iter_mtdata2_packets_from_payload from an offset: the packets with a known
\* ID, and whether TruncatedPacket is raised behind them.

\* Mutant of Packets: behind an unknown ID, its data is taken for a packet.
PacketsInUnknown(payload) ==
  LET From[offset \in 0 .. Len(payload)] ==
        IF offset + 3 > Len(payload) THEN [packets |-> <<>>, truncated |-> FALSE]
        ELSE LET id   == FromBytes(SubSeq(payload, offset + 1, offset + 2))
                 next == offset + 3 + payload[offset + 3]
             IN  IF next > Len(payload)
                 THEN [packets |-> <<>>, truncated |-> TRUE]
                 ELSE IF id \notin PacketIDs THEN From[offset + 3]
                 ELSE LET packet == [id   |-> id,
                                     data |-> SubSeq(payload, offset + 4, next)]
                      IN  [From[next] EXCEPT !.packets = <<packet>> \o @]
  IN From[0]

Packets(payload) ==
  LET From[offset \in 0 .. Len(payload)] ==
        IF offset + 3 > Len(payload) THEN [packets |-> <<>>, truncated |-> FALSE]
        ELSE LET id   == FromBytes(SubSeq(payload, offset + 1, offset + 2))
                 next == offset + 3 + payload[offset + 3]
             IN  IF next > Len(payload)
                 THEN [packets |-> <<>>, truncated |-> TRUE]
                 ELSE IF id \notin PacketIDs THEN From[next]
                 ELSE LET packet == [id   |-> id,
                                     data |-> SubSeq(payload, offset + 4, next)]
                      IN  [From[next] EXCEPT !.packets = <<packet>> \o @]
  IN From[0]

\* struct.unpack: the value of each field.
Unpack(format, data) ==
  [i \in DOMAIN format |->
     LET first == SumOf(SubSeq(format, 1, i - 1))
     IN  FromBytes(SubSeq(data, first + 1, first + format[i]))]

\* The measurement of a packet; GnssPvt has no field for its reserved byte.
Decode(packet) ==
  LET type   == TypeOf[packet.id]
      values == Unpack(Format[type], packet.data)
  IN  [type   |-> type,
       values |-> IF type = "GNSS_PVT" THEN RemoveAt(values, 14) ELSE values]

HasLength(packet) == Len(packet.data) = ExpectedLength[TypeOf[packet.id]]

\* decode_all_measurements, which returns all of them, or raises.
DecodeAll(payload) ==
  LET split == Packets(payload)
  IN  IF split.truncated \/ \E i \in DOMAIN split.packets : ~HasLength(split.packets[i])
      THEN [raised |-> TRUE, measurements |-> <<>>]
      ELSE [raised |-> FALSE,
            measurements |-> [i \in DOMAIN split.packets |-> Decode(split.packets[i])]]

=============================================================================
