--------------------------- MODULE DeviceSettings ---------------------------
(***************************************************************************)
(* The settings of a sensor as a program writes and reads them: the        *)
(* conversions of device/datatypes.py, the calls of device/device.py that  *)
(* use them, the presets of tools/configurator, and the measurements the   *)
(* sensor then sends.  The sensor keeps what it was sent and reports it;   *)
(* what happens to requests and answers on the way is SerialExchange's     *)
(* matter: here a call is answered, or raises, and then the sensor has     *)
(* taken the request or not.                                               *)
(*                                                                         *)
(* A bit mask is a set of bit numbers, a label the sequence of its parts   *)
(* between the slashes.  Labels are longer than two characters, so the     *)
(* length of a FILTER_PROFILE payload tells its form.                      *)
(***************************************************************************)
EXTENDS Measurements, FiniteSets

CONSTANTS
  Kinds,          \* the sensors: model number, profile slots, supported bits,
                  \* baud code and rate, and the output configuration (payload)
                  \* they come with
  OptionChoices,  \* what the program passes to set_options
  PresetNames, Rates,  \* and to get_preset
  ForeignData     \* the data of a packet the library does not know

VARIABLES
  kind,       \* the sensor
  product,    \* the model number in the product code; 0 if it could not be read
  flags,      \* the sensor's option flags,
  profile,    \* its filter profile, as it reports it,
  outputs,    \* and its output configuration
  measuring,  \* does it measure?
  told,       \* of each setting, what the program last set, if anything
  answer      \* what the last call returned

sensorVars == <<flags, profile, outputs>>
vars == <<kind, product, sensorVars, measuring, told, answer>>

----------------------------------------------------------------------------
\* MtiDeviceOptions: the fields, and the bit of each.
OptionFlag ==
  [disable_auto_store |-> 0, disable_auto_measurement |-> 1,
   enable_beidou |-> 2, enable_ahs |-> 4, enable_orientation_smoother |-> 5,
   enable_configurable_bus_id |-> 6, enable_in_run_compass_calibration |-> 7,
   enable_config_message_at_startup |-> 9, enable_cold_filter_resets |-> 10,
   enable_position_velocity_smoother |-> 11, enable_continuous_zru |-> 12]

Options == DOMAIN OptionFlag

\* The fields that are True.
OptionsFromPayload(bits) == {field \in Options : OptionFlag[field] \in bits}

\* Mutant of OptionsToPayload: only what is set is written.
OptionsSetOnly(options) ==
  [set |-> {OptionFlag[field] : field \in options}, clear |-> {}]

OptionsToPayload(options) ==
  [set   |-> {OptionFlag[field] : field \in options},
   clear |-> {OptionFlag[field] : field \in Options \ options}]

----------------------------------------------------------------------------
\* MtiDeviceFilterProfile.

ProfileFromPayload(payload) ==
  IF payload.form = "type"
  THEN [label |-> <<>>, version |-> 0, index |-> payload.type]
  ELSE [label |-> payload.label, version |-> 0, index |-> 0]

\* list_from_payload: an empty slot has type 0.
ListFromPayload(slots) ==
  LET used == Keep(slots, {i \in DOMAIN slots : slots[i].type # 0})
  IN  [i \in DOMAIN used |-> [label |-> <<used[i].label>>,
                              version |-> used[i].version, index |-> used[i].type]]

ResolveFilterProfile(reported, available) ==
  LET same  == SelectInSeq(available, LAMBDA c : c.index = reported.index)
      named == SelectInSeq(available, LAMBDA c : c.label = reported.label)
      base  == SelectInSeq(available, LAMBDA c : c.label = <<reported.label[1]>>)
  IN  CASE reported.label = <<>> /\ same # 0 -> available[same]
        [] reported.label # <<>> /\ named # 0 -> available[named]
        [] Len(reported.label) > 1 /\ named = 0 /\ base # 0 ->
             [available[base] EXCEPT !.label = reported.label]
        [] OTHER -> reported

UsesModernFilterProfile(model) == model \in {620, 630, 670, 680}

EncodeFilterProfile(selected) ==
  IF UsesModernFilterProfile(product)
  THEN [form |-> "label", label |-> selected.label]
  ELSE [form |-> "type", type |-> selected.index]

----------------------------------------------------------------------------
\* MtiDeviceOutputConfig, with what from_payload raises on an unknown ID.

OutputsToPayload(entries) ==
  FlattenSeq([i \in DOMAIN entries |-> TwoBytes(entries[i].id)
                                         \o TwoBytes(entries[i].rate)])

Entries(payload) ==
  [k \in 1 .. Len(payload) \div 4 |->
     [id   |-> FromBytes(SubSeq(payload, 4 * k - 3, 4 * k - 2)),
      rate |-> FromBytes(SubSeq(payload, 4 * k - 1, 4 * k))]]

\* Of two entries with one ID, the last counts.
RatesOf(entries) ==
  [id \in {entries[k].id : k \in DOMAIN entries} |->
     entries[SelectLastInSeq(entries, LAMBDA entry : entry.id = id)].rate]

\* Mutant of KnownEntries: an unknown ID is let through.
AnyEntries(payload) == TRUE

KnownEntries(payload) ==
  \A k \in DOMAIN Entries(payload) : Entries(payload)[k].id \in PacketIDs

\* The presets.
ValidRates == {1, 2, 4, 5, 10, 20, 25, 50, 100, 200, 400}

ImuBase == <<"PACKET_COUNTER", "SAMPLE_TIME_FINE", "ACCELERATION",
             "RATE_OF_TURN", "MAGNETIC_FIELD", "STATUS_WORD">>

VruBase == <<"PACKET_COUNTER", "SAMPLE_TIME_FINE", "ORIENTATION_QUATERNION",
             "ACCELERATION", "RATE_OF_TURN", "MAGNETIC_FIELD", "STATUS_WORD">>

GnssBase == <<"PACKET_COUNTER", "SAMPLE_TIME_FINE", "ORIENTATION_QUATERNION",
              "ACCELERATION", "RATE_OF_TURN", "VELOCITY_NED",
              "POSITION_LL_ELLIPSOID", "ALTITUDE_ELLIPSOID", "GNSS_PVT",
              "STATUS_WORD">>

PresetBase == [imu |-> ImuBase, vru |-> VruBase, gnss |-> GnssBase]

\* GNSS_PVT comes at 4 Hz at most.
GetPreset(name, rate) ==
  [i \in DOMAIN PresetBase[name] |->
     LET type == PresetBase[name][i]
     IN  [id |-> PacketID[type],
          rate |-> IF type = "GNSS_PVT" /\ rate > 4 THEN 4 ELSE rate]]

\* XbusBaudCode.to_rate, and the rates discover_baudrate tries, in this order.
BaudCodeRates ==
  (0 :> 460800) @@ (1 :> 230400) @@ (2 :> 115200) @@ (3 :> 76800)
    @@ (4 :> 57600) @@ (5 :> 38400) @@ (6 :> 28800) @@ (7 :> 19200)
    @@ (8 :> 14400) @@ (9 :> 9600) @@ (10 :> 921600) @@ (11 :> 4800)
    @@ (12 :> 2000000) @@ (13 :> 4000000) @@ (14 :> 3500000) @@ (128 :> 921600)

BaudRates == <<115200, 921600, 460800, 230400, 57600, 38400, 19200, 9600, 4800,
               76800, 28800, 14400, 2000000, 3500000, 4000000>>

----------------------------------------------------------------------------
Byte == 0 .. 255

\* A sensor has at least one filter profile, and no two of the same type or
\* label; its baud rate is the one its baud code stands for.
ASSUME KindsAssumption ==
  \A k \in Kinds :
    /\ k.slots \in Seq([type : Byte, version : Byte, label : STRING])
    /\ k.slots # <<>> /\ k.slots[1].type # 0
    /\ \A i, j \in DOMAIN k.slots :
         /\ k.slots[i].type # 0 /\ k.slots[j].type # 0
         /\ k.slots[i].type = k.slots[j].type \/ k.slots[i].label = k.slots[j].label
         => i = j
    /\ k.supported \subseteq 0 .. 31
    /\ k.code \in DOMAIN BaudCodeRates /\ k.rate = BaudCodeRates[k.code]
    /\ k.outputs \in Seq(Byte) /\ Len(k.outputs) % 4 = 0

ASSUME CallsAssumption ==
  /\ OptionChoices \subseteq SUBSET Options
  /\ PresetNames \subseteq DOMAIN PresetBase
  /\ Rates \subseteq Nat
  /\ ForeignData \in Seq(Byte)

Nothing == [of |-> "nothing", raised |-> FALSE]
Raised  == [of |-> "nothing", raised |-> TRUE]

Settings == {"options", "profile", "outputs"}

Init == /\ kind \in Kinds
        /\ product \in {0, kind.model}
        /\ flags \in {{3}, {1, 3}}
        /\ profile = IF UsesModernFilterProfile(kind.model)
                     THEN [form |-> "label", label |-> <<kind.slots[1].label>>]
                     ELSE [form |-> "type", type |-> kind.slots[1].type]
        /\ outputs = kind.outputs
        /\ measuring = FALSE
        /\ told = [what \in Settings |-> {}]
        /\ answer = Nothing

\* A call that writes a setting returns, or raises and leaves it unknown.
Written(what, value) == /\ told' = [told EXCEPT ![what] = {value}]
                        /\ answer' = Nothing
                        /\ UNCHANGED <<kind, product, measuring>>

NotWritten(what) == /\ told' = [told EXCEPT ![what] = {}]
                    /\ answer' = Raised
                    /\ UNCHANGED <<kind, product, measuring>>

\* The sensor leaves alone the flags it does not support, and those in neither
\* mask.
TakeOptions(payload) ==
  flags' = (flags \cup (payload.set \cap kind.supported))
             \ (payload.clear \cap kind.supported)

SetOptions(options) ==
  /\ ~measuring
  /\ \/ TakeOptions(OptionsToPayload(options)) /\ Written("options", options)
     \/ TakeOptions(OptionsToPayload(options)) /\ NotWritten("options")
     \/ UNCHANGED flags /\ NotWritten("options")
  /\ UNCHANGED <<profile, outputs>>

\* The sensor refuses the other form, a type it has not, and a label whose
\* base it has not.
Accepts(payload) ==
  LET used == {i \in DOMAIN kind.slots : kind.slots[i].type # 0}
  IN  IF UsesModernFilterProfile(kind.model)
      THEN payload.form = "label" /\ \E i \in used :
             payload.label # <<>> /\ payload.label[1] = kind.slots[i].label
      ELSE payload.form = "type" /\ \E i \in used :
             payload.type = kind.slots[i].type

\* The profiles of the sensor, and those that combine two of them.
Combined(available, i, j) == [available[i] EXCEPT !.label = @ \o available[j].label]

Selectable ==
  LET available == ListFromPayload(kind.slots)
      places    == DOMAIN available
  IN  ToSet(available) \cup
      {Combined(available, p[1], p[2]) :
         p \in {q \in places \X places : /\ UsesModernFilterProfile(kind.model)
                                         /\ q[1] # q[2]}}

SetFilterProfile(selected) ==
  LET payload == EncodeFilterProfile(selected)
  IN  /\ ~measuring
      /\ \/ /\ Accepts(payload)
            /\ profile' = payload
            /\ Written("profile", selected) \/ NotWritten("profile")
         \/ UNCHANGED profile /\ NotWritten("profile")
      /\ UNCHANGED <<flags, outputs>>

SetOutputConfig(entries) ==
  /\ ~measuring
  /\ \/ /\ outputs' = OutputsToPayload(entries)
        /\ Written("outputs", RatesOf(entries)) \/ NotWritten("outputs")
     \/ UNCHANGED outputs /\ NotWritten("outputs")
  /\ UNCHANGED <<flags, profile>>

\* get_preset raises before anything is sent.
RefusePreset(rate) == /\ rate \notin ValidRates
                      /\ answer' = Raised
                      /\ UNCHANGED <<kind, product, sensorVars, measuring, told>>

SetPreset(name, rate) == /\ rate \in ValidRates
                         /\ SetOutputConfig(GetPreset(name, rate))

\* A call that reads a setting returns it, or raises.
Request(what, value) ==
  /\ ~measuring
  /\ answer' \in {[of |-> what, raised |-> FALSE, value |-> value], Raised}
  /\ UNCHANGED <<kind, product, sensorVars, measuring, told>>

RequestOptions == Request("options", OptionsFromPayload(flags))

RequestFilterProfile ==
  Request("profile", ResolveFilterProfile(ProfileFromPayload(profile),
                                          ListFromPayload(kind.slots)))

RequestOutputConfig == /\ KnownEntries(outputs)
                       /\ Request("outputs", RatesOf(Entries(outputs)))

\* ValueError: the payload names an ID the library does not know.
RequestForeignConfig == /\ ~KnownEntries(outputs)
                        /\ ~measuring
                        /\ answer' = Raised
                        /\ UNCHANGED <<kind, product, sensorVars, measuring, told>>

RequestBaudrate == Request("baudrate", BaudCodeRates[kind.code])

\* The first rate at which the sensor, on its serial interface, answers.
DiscoverBaudrate ==
  LET i == SelectInSeq(BaudRates, LAMBDA rate : rate = kind.rate)
  IN  i # 0 /\ Request("baudrate", BaudRates[i])

----------------------------------------------------------------------------
\* The measurements.

GotoMeasurement == /\ ~measuring
                   /\ measuring' = TRUE
                   /\ answer' = Nothing
                   /\ UNCHANGED <<kind, product, sensorVars, told>>

GotoConfig == /\ measuring
              /\ measuring' = FALSE
              /\ answer' = Nothing
              /\ UNCHANGED <<kind, product, sensorVars, told>>

\* The IDs in a message: the outputs of at least a rate.
Due(payload, slowest) ==
  LET entries == Entries(payload)
      due == Keep(entries, {i \in DOMAIN entries : entries[i].rate >= slowest})
  IN  [i \in DOMAIN due |-> due[i].id]

\* The messages the sensors can send.  One may lack its last bytes, or its
\* first packet one byte.
Configurations == {k.outputs : k \in Kinds} \cup
                  {OutputsToPayload(GetPreset(name, rate)) :
                     name \in PresetNames, rate \in Rates \cap ValidRates}

Messages == {message \in [ids : {Due(payload, slowest) : payload \in Configurations,
                                                        slowest \in {1, 5}},
                          cut : {0, 1, 5}, short : BOOLEAN] : message.ids # <<>>}

\* The sensor measures i in the i-th field.
Data(id) ==
  IF id \notin PacketIDs THEN ForeignData
  ELSE LET format == Format[TypeOf[id]]
       IN  FlattenSeq([i \in DOMAIN format |->
             [byte \in 1 .. format[i] |-> IF byte = format[i] THEN i ELSE 0]])

Packet(id, data) == TwoBytes(id) \o <<Len(data)>> \o data

Payload(message) ==
  LET ids     == message.ids
      data(i) == IF i = 1 /\ message.short THEN Front(Data(ids[i])) ELSE Data(ids[i])
      packets == FlattenSeq([i \in DOMAIN ids |-> Packet(ids[i], data(i))])
  IN  SubSeq(packets, 1, Len(packets) - message.cut)

\* ... with what decode_all_measurements makes of each.
Received == {[message |-> message, decoded |-> DecodeAll(Payload(message))] :
               message \in Messages}

\* The sample callbacks that _handle_measurements calls, in this order: those
\* registered for one of the types in wanted.
HandleMeasurements(measurements, wanted) ==
  Keep(measurements, {i \in DOMAIN measurements : measurements[i].type \in wanted})

Stream(received, wanted) ==
  /\ measuring
  /\ answer' = [of      |-> "samples",
                raised  |-> received.decoded.raised,
                message |-> received.message,
                wanted  |-> wanted,
                samples |-> HandleMeasurements(received.decoded.measurements, wanted)]
  /\ UNCHANGED <<kind, product, sensorVars, measuring, told>>

----------------------------------------------------------------------------
Next == \/ \E options \in OptionChoices : SetOptions(options)
        \/ \E selected \in Selectable : SetFilterProfile(selected)
        \/ \E name \in PresetNames, rate \in Rates : SetPreset(name, rate)
        \/ \E rate \in Rates : RefusePreset(rate)
        \/ RequestOptions \/ RequestFilterProfile
        \/ RequestOutputConfig \/ RequestForeignConfig
        \/ RequestBaudrate \/ DiscoverBaudrate
        \/ GotoMeasurement \/ GotoConfig
        \/ LET due == {Due(outputs, 1), Due(outputs, 5)}
           IN  \E received \in Received, wanted \in {Types, {"STATUS_WORD", "GNSS_PVT"}} :
                 received.message.ids \in due /\ Stream(received, wanted)

Spec == Init /\ [][Next]_vars

----------------------------------------------------------------------------
TypeOK ==
  /\ kind \in Kinds
  /\ product \in {0, kind.model}
  /\ \A bit \in flags : bit \in 0 .. 31
  /\ profile.form = "type" => profile.type \in 1 .. 255
  /\ Len(outputs) % 4 = 0
  /\ measuring \in BOOLEAN
  /\ DOMAIN told = Settings
  /\ \A options \in told["options"] : options \subseteq Options
  /\ answer.of \in Settings \cup {"nothing", "baudrate", "samples"}
  /\ (answer.of = "outputs" => DOMAIN answer.value \subseteq PacketIDs)
  /\ (answer.of = "samples" => \A i \in DOMAIN answer.samples :
                                 answer.samples[i].type \in Types)

\* "This makes the write an absolute state, matching what from_payload()
\* returns" (MtiDeviceOptions.to_payload), and the like for the filter profile,
\* whose answer carries a part of it, and the output configuration: a request
\* returns what was last set, on every family of sensors, whether or not the
\* product code could be read, wherever the sensor supports it.  The baud rate
\* is the same whether it is asked for or discovered.
ReadsBack ==
  /\ answer.of = "options" => \A options \in told["options"] :
       \A field \in Options : OptionFlag[field] \in kind.supported =>
         (field \in answer.value <=> field \in options)
  /\ answer.of \in {"profile", "outputs"} => \A value \in told[answer.of] :
       answer.value = value
  /\ answer.of = "baudrate" => answer.value = kind.rate

\* What the sensor measured in the fields of a measurement.
Reading ==
  [type \in Types |->
     [type |-> type,
      values |-> IF type = "GNSS_PVT" THEN RemoveAt([i \in 1 .. 35 |-> i], 14)
                 ELSE [i \in DOMAIN Format[type] |-> i]]]

\* The callbacks get a sample of every output they are registered for that is
\* in a message, in its order and with the values of the sensor, although there
\* are outputs the library does not know between them; of a message that is
\* not whole, a part at most, and none that is not in it.
SamplesMatchOutputs ==
  answer.of = "samples" =>
    LET ids      == answer.message.ids
        known    == Keep(ids, {i \in DOMAIN ids : /\ ids[i] \in PacketIDs
                                                  /\ TypeOf[ids[i]] \in answer.wanted})
        expected == [i \in DOMAIN known |-> Reading[TypeOf[known[i]]]]
        whole    == answer.message.cut = 0 /\ ~answer.message.short
    IN  /\ IsPrefix(answer.samples, expected)
        /\ whole => ~answer.raised /\ answer.samples = expected

=============================================================================
