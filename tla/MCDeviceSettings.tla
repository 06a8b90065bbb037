-------------------------- MODULE MCDeviceSettings --------------------------
\* DeviceSettings for TLC: a sensor of the 1-series, one of the 600-series and
\* one that comes with an output the library does not know.
EXTENDS DeviceSettings

Slot(type, version, label) == [type |-> type, version |-> version, label |-> label]

EmptySlot == Slot(0, 0, "")

\* \H4022 is the acceleration in double precision.
Foreign == <<64, 34, 0, 100>>

MCKinds ==
  {[model |-> 7, slots |-> <<Slot(50, 1, "General"), Slot(51, 1, "High_mag_dep"),
                             EmptySlot, EmptySlot, EmptySlot>>,
    supported |-> {0, 1, 3, 4, 7}, code |-> 2, rate |-> 115200,
    outputs |-> <<>>],
   [model |-> 680, slots |-> <<Slot(2, 16, "Robust"), EmptySlot, Slot(1, 16, "VRU"),
                               EmptySlot, EmptySlot>>,
    supported |-> 0 .. 12, code |-> 128, rate |-> 921600,
    outputs |-> <<16, 32, 0, 100>> \o Foreign \o <<224, 32, 255, 255>>],
   [model |-> 710, slots |-> <<Slot(1, 2, "General"), Slot(3, 1, "Dynamic"),
                               EmptySlot, EmptySlot, EmptySlot>>,
    supported |-> 0 .. 12, code |-> 14, rate |-> 3500000,
    outputs |-> Foreign \o <<16, 32, 0, 4>>]}

MCOptionChoices == {{}, Options, {"disable_auto_measurement", "enable_ahs"}}

\* A packet in the data of a packet: PACKET_COUNTER, two bytes.
MCForeignData == <<16, 32, 2, 9, 9>>
=============================================================================
