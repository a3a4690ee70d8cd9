---------------------------- MODULE ControlPacket ----------------------------
(***************************************************************************)
(* The control packets of control/packet.rs: their type numbers per server *)
(* version, and how serialize() lays them out and deserialize() reads them.*)
(* A field's value is opaque, and byte i of the value v is the pair        *)
(* <<v, i>>, least significant first: what can go wrong is which bytes are *)
(* written where, in which order, and which are read back.  The layouts    *)
(* are tables with one row per packet.  A variant that changes the layout  *)
(* or the magic number of a packet is a kind of its own.                   *)
(***************************************************************************)
EXTENDS Naturals, Sequences, SequencesExt, Functions, FiniteSets

None == [none |-> TRUE]     \* Option::None, and NotSupported of serialize()
Panic == [panic |-> TRUE]   \* a slice out of range

UTF8_TEXT_MAX_COUNT == 32
DS_EFFECT_PAYLOAD_SIZE == 10

-----------------------------------------------------------------------------
(* The variants of ControlPacket: the width of every field in bytes.       *)
(* Elements of an array of numbers are fields of their own.                *)

HostFields == [
  ControllerRumbleData |-> [unused |-> 4, controller_number |-> 2, low_frequency |-> 2, high_frequency |-> 2],
  ControllerRumbleTriggers |-> [controller_number |-> 2, left_trigger_motor |-> 2, right_trigger_motor |-> 2],
  ControllerSetMotion |-> [controller_number |-> 2, rate |-> 2, motion_type |-> 1],
  ControllerSetLed |-> [controller_number |-> 2, r |-> 1, g |-> 1, b |-> 1],
  ControllerSetAdaptiveTriggers |->
    [controller_number |-> 2, event_flags |-> 1, type_left |-> 1, type_right |-> 1,
     left |-> DS_EFFECT_PAYLOAD_SIZE, right |-> DS_EFFECT_PAYLOAD_SIZE],
  HdrMode |-> [enabled |-> 1],
  HdrModeSunshine |->
    [primary_0_x |-> 2, primary_0_y |-> 2, primary_1_x |-> 2, primary_1_y |-> 2,
     primary_2_x |-> 2, primary_2_y |-> 2, white_point_x |-> 2, white_point_y |-> 2,
     max_display_luminance |-> 2, min_display_luminance |-> 2, max_content_light_level |-> 2,
     max_frame_average_light_level |-> 2, max_full_frame_luminance |-> 2, enabled |-> 1]]

StreamFields == [
  RequestIdr |-> << >>, StartB |-> << >>, PeriodicPing |-> << >>, FrameStats |-> << >>,
  LossStats |->
    [unknown1 |-> 4, loss_report_interval_ms |-> 4, unknown2 |-> 4, last_good_frame |-> 8,
     unknown3 |-> 4, unknown4 |-> 4, unknown5 |-> 4],
  FrameFec |->
    [frame_index |-> 4, highest_received_sequence_number |-> 2, next_contiguous_sequence_number |-> 2,
     missing_packets_before_highest_received |-> 2, total_data_packets |-> 2, total_parity_packets |-> 2,
     received_data_packets |-> 2, received_parity_packets |-> 2, fec_percentage |-> 1,
     multi_fec_block_index |-> 1, multi_fec_block_count |-> 1]]

KeyFields == [flags |-> 1, key_code |-> 2, modifiers |-> 1, zero |-> 2]

DeviceFields == [
  MouseMoveRelative |-> [delta_x |-> 2, delta_y |-> 2],
  MouseMoveAbsolute |-> [x |-> 2, y |-> 2, unused |-> 2, reference_width |-> 2, reference_height |-> 2],
  MouseButtonPress |-> [button |-> 1], MouseButtonRelease |-> [button |-> 1],
  KeyDown |-> KeyFields, KeyUp |-> KeyFields,
  Text |-> [text |-> UTF8_TEXT_MAX_COUNT],
  MouseScroll |-> [scroll_amount_1 |-> 2, scroll_amount_2 |-> 2, zero |-> 2],
  MouseHorizontalScroll |-> [scroll_amount |-> 2],
  Touch |->
    [event_type |-> 1, reserved |-> 1, rotation |-> 2, pointer_id |-> 4, x |-> 4, y |-> 4,
     pressure_or_distance |-> 4, contact_area_minor |-> 4, contact_area_major |-> 4],
  Pen |->
    [event_type |-> 1, tool_type |-> 1, buttons |-> 1, zero |-> 1, x |-> 4, y |-> 4,
     pressure_or_distance |-> 4, rotation |-> 2, tilt |-> 1, zero2 |-> 1,
     contact_area_minor |-> 4, contact_area_major |-> 4]]

ControllerFields == [
  ControllerState |->
    [header_b |-> 2, controller_number |-> 2, active_gamepad_mask |-> 2, mid_b |-> 2,
     button_flags |-> 2, left_trigger |-> 1, right_trigger |-> 1, left_stick_x |-> 2,
     left_stick_y |-> 2, right_stick_x |-> 2, right_stick_y |-> 2, tail_a |-> 2,
     button_flags_2 |-> 2, tail_b |-> 2],
  ControllerArrival |->
    [controller_number |-> 1, ty |-> 1, capabilities |-> 2, supported_buttons |-> 4],
  ControllerMotion |->
    [controller_number |-> 1, motion_type |-> 1, reserved_0 |-> 1, reserved_1 |-> 1,
     x |-> 4, y |-> 4, z |-> 4],
  ControllerBattery |->
    [controller_number |-> 1, battery_state |-> 1, battery_percentage |-> 1, reserved |-> 1],
  ControllerTouch |->
    [controller_number |-> 1, event_type |-> 1, zero |-> 1, touchpad_index |-> 1,
     pointer_id |-> 4, x |-> 4, y |-> 4, pressure |-> 4]]

ReferenceFields == [
  InvalidateReferenceFrames |->
    [first_frame_index |-> 4, reserved1 |-> 4, last_frame_index |-> 4,
     reserved2_0 |-> 4, reserved2_1 |-> 4, reserved2_2 |-> 4],
  LongTermReferenceFrameAcknowledgement |-> [frame_index |-> 4, reserved |-> 4],
  TerminationShort |-> [code |-> 2],
  TerminationLong |-> [code |-> 4],
  WebState |-> [sequence_number |-> 2, keys |-> 32]]

Fields == HostFields @@ StreamFields @@ DeviceFields @@ ControllerFields @@ ReferenceFields
Kinds == DOMAIN Fields

-----------------------------------------------------------------------------
(* Types and directions.                                                   *)

\* ControlPacket::ty
Type(kind) ==
  CASE kind \in {"HdrMode", "HdrModeSunshine"}          -> "HdrMode"
    [] kind \in {"TerminationShort", "TerminationLong"} -> "Termination"
    [] kind \in DOMAIN DeviceFields \cup DOMAIN ControllerFields -> "InputData"
    [] OTHER -> kind

ClientBoundTypes ==
  {"ControllerRumbleData", "Termination", "HdrMode", "ControllerRumbleTriggers",
   "ControllerSetMotion", "ControllerSetLed", "ControllerSetAdaptiveTriggers"}

Direction(type) == IF type \in ClientBoundTypes THEN "ClientBound" ELSE "ServerBound"

\* ControlPacketConfig::new for a server [major, ping, sunshine]: ping stands
\* for a version from PERIODIC_PING_VERSION on.  0 is None.
CommonTypes(server) ==
  [StartB |-> 775 (* 0x0307 *), InvalidateReferenceFrames |-> 769 (* 0x0301 *),
   LossStats |-> 513 (* 0x0201 *), FrameStats |-> 516 (* 0x0204 *),
   FrameFec |-> IF server.sunshine THEN 21762 (* 0x5502 *) ELSE 0,
   WebState |-> 0]

NewerTypes(server) ==
  [PeriodicPing |-> IF server.ping THEN 512 (* 0x0200 *) ELSE 0,
   LongTermReferenceFrameAcknowledgement |-> 848 (* 0x0350 *),
   InputData |-> 518 (* 0x0206 *), ControllerRumbleData |-> 267 (* 0x010b *),
   HdrMode |-> 270 (* 0x010e *)] @@ CommonTypes(server)

NoFeedback == [ControllerRumbleTriggers |-> 0, ControllerSetMotion |-> 0,
               ControllerSetLed |-> 0, ControllerSetAdaptiveTriggers |-> 0]

PacketConfig(server, encrypted) ==
  CASE server.major = 5 ->
         [RequestIdr |-> 773 (* 0x0305 *), InputData |-> 519 (* 0x0207 *), PeriodicPing |-> 0,
          LongTermReferenceFrameAcknowledgement |-> 0, ControllerRumbleData |-> 0,
          Termination |-> 0, HdrMode |-> 0] @@ NoFeedback @@ CommonTypes(server)
    [] server.major = 7 /\ encrypted ->
         [RequestIdr |-> 770 (* 0x0302 *), Termination |-> 265 (* 0x0109 *),
          ControllerRumbleTriggers |-> 21760 (* 0x5500 *), ControllerSetMotion |-> 21761,
          ControllerSetLed |-> 21762, ControllerSetAdaptiveTriggers |-> 21763] @@ NewerTypes(server)
    [] server.major \in {6, 7} /\ ~(server.major = 7 /\ encrypted) ->
         [RequestIdr |-> 773, Termination |-> 256 (* 0x0100 *)] @@ NoFeedback @@ NewerTypes(server)

\* ControlPacketType::serialize
RawType(config, kind) == config[Type(kind)]

\* ControlPacketType::deserialize: the types are tried in this order.
TypesTried(direction) ==
  IF direction = "ClientBound"
  THEN <<"HdrMode", "Termination", "ControllerSetMotion", "ControllerSetLed", "ControllerRumbleData",
         "ControllerRumbleTriggers", "ControllerSetAdaptiveTriggers">>
  ELSE <<"PeriodicPing", "RequestIdr", "StartB", "FrameFec", "InvalidateReferenceFrames",
         "LongTermReferenceFrameAcknowledgement", "LossStats", "FrameStats", "InputData", "WebState">>

TypeOfRaw(direction, config, raw) ==
  LET hits == SelectSeq(TypesTried(direction), LAMBDA type : config[type] = raw)
  IN  IF hits = << >> THEN "unknown" ELSE hits[1]

\* The magic number in front of the data of an InputData packet.
Magic == [
  KeyDown |-> 3, KeyUp |-> 4, MouseMoveAbsolute |-> 5, MouseMoveRelative |-> 7,
  MouseButtonPress |-> 8, MouseButtonRelease |-> 9, MouseScroll |-> 10, ControllerState |-> 12,
  Text |-> 23, MouseHorizontalScroll |-> 1426063361 (* 0x55000001 *), Touch |-> 1426063362,
  Pen |-> 1426063363, ControllerArrival |-> 1426063364, ControllerTouch |-> 1426063365,
  ControllerMotion |-> 1426063366, ControllerBattery |-> 1426063367]

-----------------------------------------------------------------------------
(* serialize(): the length written into the header and the fields in the   *)
(* order and byte order they are written.                                  *)

Big(names) == [i \in DOMAIN names |-> <<names[i], "be">>]
Little(names) == [i \in DOMAIN names |-> <<names[i], "le">>]
Plain(len, body) == [len |-> len, body |-> body]
\* content_len is 4 + input_len: the input length itself is counted.
Input(input_len, body) == [len |-> 4 + input_len, body |-> body]

Luminances ==
  Little(<<"max_display_luminance", "min_display_luminance", "max_content_light_level",
           "max_frame_average_light_level", "max_full_frame_luminance">>)

WriteBasic == [
  PeriodicPing |-> Plain(4, << >>),
  HdrMode |-> Plain(1, Little(<<"enabled">>)),
  HdrModeSunshine |->
    Plain(27, Little(<<"enabled", "primary_0_x", "primary_0_y", "primary_1_x", "primary_1_y",
                       "primary_2_x", "primary_2_y", "white_point_x", "white_point_y">>) \o Luminances),
  RequestIdr |-> Plain(2, << >>),
  StartB |-> Plain(1, << >>)]

WriteStats == [
  LossStats |->
    Plain(32, Little(<<"unknown1", "loss_report_interval_ms", "unknown2", "last_good_frame",
                       "unknown3", "unknown4", "unknown5">>)),
  FrameStats |-> Plain(0, << >>),
  FrameFec |->
    Plain(21, Big(<<"frame_index", "highest_received_sequence_number", "next_contiguous_sequence_number",
                    "missing_packets_before_highest_received", "total_data_packets",
                    "total_parity_packets", "received_data_packets", "received_parity_packets",
                    "fec_percentage", "multi_fec_block_index", "multi_fec_block_count">>)),
  InvalidateReferenceFrames |->
    Plain(24, Little(<<"first_frame_index", "reserved1", "last_frame_index",
                       "reserved2_0", "reserved2_1", "reserved2_2">>)),
  LongTermReferenceFrameAcknowledgement |-> Plain(8, Little(<<"frame_index", "reserved">>))]

WriteMouse == [
  MouseMoveRelative |-> Input(8, Big(<<"delta_x", "delta_y">>)),
  MouseMoveAbsolute |-> Input(14, Big(<<"x", "y", "unused", "reference_width", "reference_height">>)),
  MouseButtonPress |-> Input(5, Little(<<"button">>)),
  MouseButtonRelease |-> Input(5, Little(<<"button">>)),
  MouseScroll |-> Input(4 + 6, Big(<<"scroll_amount_1", "scroll_amount_2", "zero">>)),
  MouseHorizontalScroll |-> Input(4 + 2, Big(<<"scroll_amount">>))]

WriteKeys == [
  KeyDown |-> Input(10, Little(<<"flags", "key_code", "modifiers", "zero">>)),
  KeyUp |-> Input(10, Little(<<"flags", "key_code", "modifiers", "zero">>)),
  ControllerArrival |->
    Input(12, Little(<<"controller_number", "ty", "capabilities", "supported_buttons">>))]

\* Variant: the magic number in front of the text is not counted.
WriteTextUncounted(text_len) == Input(text_len, Little(<<"text">>))

WriteText(text_len) == Input(4 + text_len, Little(<<"text">>))

WriteController == [
  ControllerState |->
    Input(30, Little(<<"header_b", "controller_number", "active_gamepad_mask", "mid_b", "button_flags",
                       "left_trigger", "right_trigger", "left_stick_x", "left_stick_y", "right_stick_x",
                       "right_stick_y", "tail_a", "button_flags_2", "tail_b">>)),
  ControllerTouch |->
    Input(24, Little(<<"controller_number", "event_type", "zero", "touchpad_index", "pointer_id",
                       "x", "y", "pressure">>)),
  ControllerBattery |->
    Input(8, Little(<<"controller_number", "battery_state", "battery_percentage", "reserved">>)),
  ControllerMotion |->
    Input(20, Little(<<"controller_number", "motion_type", "reserved_0", "reserved_1", "x", "y", "z">>))]

WriteFeedback == [
  ControllerRumbleData |->
    Plain(10, Little(<<"unused", "controller_number", "low_frequency", "high_frequency">>)),
  ControllerRumbleTriggers |->
    Plain(6, Little(<<"controller_number", "left_trigger_motor", "right_trigger_motor">>)),
  ControllerSetLed |-> Plain(5, Little(<<"controller_number", "r", "g", "b">>)),
  ControllerSetMotion |-> Plain(5, Little(<<"controller_number", "rate", "motion_type">>)),
  ControllerSetAdaptiveTriggers |->
    Plain(25, Little(<<"controller_number", "event_flags", "type_left", "type_right", "left", "right">>))]

WriteTouch == [
  Touch |->
    Input(32, Little(<<"event_type", "reserved", "rotation", "pointer_id", "x", "y",
                       "pressure_or_distance", "contact_area_minor", "contact_area_major">>)),
  Pen |->
    Input(32, Little(<<"event_type", "tool_type", "buttons", "zero", "x", "y", "pressure_or_distance",
                       "rotation", "tilt", "zero2", "contact_area_minor", "contact_area_major">>)),
  TerminationShort |-> Plain(2, Big(<<"code">>)),
  TerminationLong |-> Plain(4, Big(<<"code">>)),
  WebState |-> Plain(34, Big(<<"sequence_number">>) \o Little(<<"keys">>))]

Writers == WriteBasic @@ WriteStats @@ WriteMouse @@ WriteKeys @@ WriteController @@ WriteFeedback
             @@ WriteTouch

Written(p) == IF p.kind = "Text" THEN WriteText(p.n) ELSE Writers[p.kind]

\* A value is a token and, for a field of flags, the flags set.
Value(token) == <<token, {}>>
Garbled == Value("garbled")

Width(kind, n, f) == IF f = "text" THEN n ELSE Fields[kind][f]

BytesOf(value, width, order) ==
  [i \in 1 .. width |-> <<value, IF order = "le" THEN i ELSE width + 1 - i>>]

Layout(p, body) ==
  FlattenSeq([i \in DOMAIN body |->
                BytesOf(p.fields[body[i][1]], Width(p.kind, p.n, body[i][1]), body[i][2])])

\* The buffer is zeroed, and the length of the header says how much is sent.
MAX_SIZE == 44
IsInput(kind) == kind \in DOMAIN Magic

Serialize(config, p) ==
  LET raw    == RawType(config, p.kind)
      row    == Written(p)
      bytes  == Layout(p, row.body)
      room   == row.len - IF IsInput(p.kind) THEN 8 ELSE 0
      header == IF IsInput(p.kind) THEN [len |-> row.len - 4, magic |-> Magic[p.kind]] ELSE None
  IN  IF raw = 0 \/ p.n > UTF8_TEXT_MAX_COUNT THEN None
      ELSE IF 4 + row.len > MAX_SIZE THEN Panic
      ELSE [ty |-> raw, len |-> row.len, input |-> header,
            data |-> [i \in 1 .. room |-> IF i \in DOMAIN bytes THEN bytes[i] ELSE <<Value("0"), 1>>]]

-----------------------------------------------------------------------------
(* deserialize(): the least length (of an InputData packet, the least input *)
(* length) and the fields in the order and byte order they are read.       *)

Row(min, body) == [min |-> min, body |-> body]

ReadFeedback == [
  ControllerRumbleData |->
    Row(14, Little(<<"unused", "controller_number", "low_frequency", "high_frequency">>)),
  ControllerRumbleTriggers |->
    Row(10, Little(<<"controller_number", "left_trigger_motor", "right_trigger_motor">>)),
  ControllerSetMotion |-> Row(9, Little(<<"controller_number", "rate", "motion_type">>)),
  ControllerSetLed |-> Row(9, Little(<<"controller_number", "r", "g", "b">>))]

ReadHost == [
  TerminationShort |-> Row(6, Big(<<"code">>)),
  TerminationLong |-> Row(6, Big(<<"code">>)),
  HdrMode |-> Row(5, Little(<<"enabled">>)),
  HdrModeSunshine |->
    Row(5, Little(<<"enabled", "primary_0_x", "primary_0_y", "primary_1_x", "primary_1_y",
                    "primary_2_x", "primary_2_y", "white_point_x", "white_point_y">>) \o Luminances)]

ReadStats == [
  PeriodicPing |-> Row(4, << >>), RequestIdr |-> Row(4, << >>), StartB |-> Row(4, << >>),
  LossStats |->
    Row(36, Little(<<"unknown1", "loss_report_interval_ms", "unknown2", "last_good_frame",
                     "unknown3", "unknown4", "unknown5">>)),
  FrameStats |-> Row(4, << >>),
  FrameFec |->
    Row(25, Big(<<"frame_index", "highest_received_sequence_number", "next_contiguous_sequence_number",
                  "missing_packets_before_highest_received", "total_data_packets",
                  "total_parity_packets", "received_data_packets", "received_parity_packets",
                  "fec_percentage", "multi_fec_block_index", "multi_fec_block_count">>))]

ReadReferences == [
  LongTermReferenceFrameAcknowledgement |-> Row(12, Little(<<"frame_index", "reserved">>)),
  InvalidateReferenceFrames |->
    Row(28, Little(<<"first_frame_index", "reserved1", "last_frame_index",
                     "reserved2_0", "reserved2_1", "reserved2_2">>))]

ReadMouse == [
  MouseMoveRelative |-> Row(8, Big(<<"delta_x", "delta_y">>)),
  MouseMoveAbsolute |-> Row(14, Big(<<"x", "y", "unused", "reference_width", "reference_height">>)),
  MouseButtonPress |-> Row(5, Big(<<"button">>)),
  MouseButtonRelease |-> Row(5, Big(<<"button">>)),
  MouseScroll |-> Row(4 + 6, Big(<<"scroll_amount_1", "scroll_amount_2">>) \o Little(<<"zero">>)),
  MouseHorizontalScroll |-> Row(4 + 2, Big(<<"scroll_amount">>))]

ReadKeys == [
  KeyDown |-> Row(10, Little(<<"flags", "key_code", "modifiers", "zero">>)),
  KeyUp |-> Row(10, Little(<<"flags", "key_code", "modifiers", "zero">>)),
  Text |-> Row(0, Little(<<"text">>)),
  Touch |->
    Row(4 + 28, Little(<<"event_type", "reserved", "rotation", "pointer_id", "x", "y",
                         "pressure_or_distance", "contact_area_minor", "contact_area_major">>))]

ReadController == [
  ControllerArrival |->
    Row(4 + 8, Little(<<"controller_number", "ty", "capabilities", "supported_buttons">>)),
  ControllerState |->
    Row(30, Little(<<"header_b", "controller_number", "active_gamepad_mask", "mid_b", "button_flags",
                     "left_trigger", "right_trigger", "left_stick_x", "left_stick_y", "right_stick_x",
                     "right_stick_y", "tail_a", "button_flags_2", "tail_b">>)),
  ControllerTouch |->
    Row(24, Little(<<"controller_number", "event_type", "zero", "touchpad_index", "pointer_id",
                     "x", "y", "pressure">>))]

ReadMotion == [
  ControllerBattery |->
    Row(4, Little(<<"controller_number", "battery_state", "battery_percentage", "reserved">>)),
  ControllerMotion |->
    Row(20, Little(<<"controller_number", "motion_type", "reserved_0", "reserved_1", "x", "y", "z">>))]

ReadPen == [
  Pen |->
    Row(32, Little(<<"event_type", "tool_type", "buttons", "zero", "x", "y", "pressure_or_distance",
                     "rotation", "tilt", "zero2", "contact_area_minor", "contact_area_major">>)),
  ControllerSetAdaptiveTriggers |->
    Row(25, Little(<<"controller_number", "event_flags", "type_left", "type_right", "left", "right">>)),
  WebState |-> Row(38, Big(<<"sequence_number">>) \o Little(<<"keys">>))]

Readers == ReadFeedback @@ ReadHost @@ ReadStats @@ ReadReferences @@ ReadMouse @@ ReadKeys
             @@ ReadController @@ ReadMotion @@ ReadPen

\* The value the bytes make up, put in order of significance.
ValueOf(bytes, order) ==
  LET ordered == IF order = "le" THEN bytes ELSE Reverse(bytes) IN
  IF bytes = << >> THEN Value("")
  ELSE IF ordered = BytesOf(ordered[1][1], Len(bytes), "le") THEN ordered[1][1] ELSE Garbled

\* The fields are read one after the other from the start of the data.
ReadAll(kind, n, body, data) ==
  LET names     == [i \in DOMAIN body |-> body[i][1]]
      Offset(i) == FoldSeq(LAMBDA f, sum : sum + Width(kind, n, f), 0, SubSeq(names, 1, i - 1))
      Slice(i)  == SubSeq(data, Offset(i) + 1, Offset(i + 1))
      Place(f)  == CHOOSE i \in DOMAIN body : names[i] = f
  IN  IF Offset(Len(body) + 1) > Len(data) THEN Panic
      ELSE [kind |-> kind, n |-> n,
            fields |-> [f \in ToSet(names) |-> ValueOf(Slice(Place(f)), body[Place(f)][2])]]

\* What a packet of the type is, by its length, the server and the magic.
KindsOf(sunshine, type, w) ==
  CASE type = "Termination" -> {IF w.len >= 4 THEN "TerminationLong" ELSE "TerminationShort"}
    [] type = "HdrMode"     -> {IF sunshine /\ w.len >= 27 THEN "HdrModeSunshine" ELSE "HdrMode"}
    [] type = "InputData"   -> {kind \in DOMAIN Magic : Magic[kind] = w.input.magic}
    [] OTHER                -> {type}

Size(w) == 4 + Len(w.data) + IF w.input = None THEN 0 ELSE 8

Deserialize(direction, sunshine, config, w) ==
  LET type  == TypeOfRaw(direction, config, w.ty)
      kinds == KindsOf(sunshine, type, w)
      kind  == CHOOSE k \in kinds : TRUE
      n     == IF kind = "Text" THEN w.input.len - 4 ELSE 0
  IN  IF \/ type = "unknown"
         \/ Size(w) < 4 + w.len - 1
         \/ type = "InputData" /\ (w.input = None \/ Size(w) < 4 + 4 + w.input.len)
         \/ kinds = {}
         \/ (IF type = "InputData" THEN w.input.len ELSE 4 + w.len) < Readers[kind].min
      THEN None
      ELSE IF Size(w) < 4 + w.len \/ n > UTF8_TEXT_MAX_COUNT THEN Panic
      ELSE ReadAll(kind, n, Readers[kind].body, w.data)

-----------------------------------------------------------------------------
(* channel(): the ENet channel and the kind of delivery.                   *)

\* A packet's controller counts for the channel, and whether it is a motion
\* of a gyroscope at rest for the delivery.
ControllerChannel(id) == <<"gamepad", IF id < 16 THEN id ELSE 0>>

UrgentKinds == {"RequestIdr", "StartB", "InvalidateReferenceFrames",
                "LongTermReferenceFrameAcknowledgement"}
MouseKinds == {"MouseMoveRelative", "MouseMoveAbsolute", "MouseButtonPress", "MouseButtonRelease",
               "MouseScroll", "MouseHorizontalScroll"}
PerControllerKinds ==
  {"ControllerArrival", "ControllerBattery", "ControllerMotion", "ControllerState",
   "ControllerRumbleData", "ControllerRumbleTriggers", "ControllerSetLed",
   "ControllerSetAdaptiveTriggers", "ControllerSetMotion"}

Channel(sunshine, p) ==
  CASE ~sunshine                         -> <<"generic", 0>>
    [] sunshine /\ p.kind \in UrgentKinds -> <<"urgent", 0>>
    [] sunshine /\ p.kind \in MouseKinds -> <<"mouse", 0>>
    [] sunshine /\ p.kind \in {"KeyDown", "KeyUp", "WebState"} -> <<"keyboard", 0>>
    [] sunshine /\ p.kind = "Text"       -> <<"utf8", 0>>
    [] sunshine /\ p.kind = "Pen"        -> <<"pen", 0>>
    [] sunshine /\ p.kind \in {"Touch", "ControllerTouch"} -> <<"touch", 0>>
    [] sunshine /\ p.kind \in PerControllerKinds -> ControllerChannel(p.controller)
    [] OTHER                             -> <<"generic", 0>>

\* Variant: a controller's state may arrive in any order.
DeliveryUnordered(sunshine, p) ==
  IF sunshine /\ p.kind = "ControllerState" THEN "Unreliable" ELSE "Reliable"

\* Variant: all motion of a controller may get lost.
DeliveryOfMotion(sunshine, p) ==
  IF sunshine /\ p.kind = "ControllerMotion" THEN "Sequenced" ELSE "Reliable"

Delivery(sunshine, p) ==
  CASE ~sunshine -> "Reliable"
    [] sunshine /\ p.kind \in {"LossStats", "FrameFec", "WebState"} -> "Unreliable"
    [] sunshine /\ p.kind = "ControllerState" -> "Sequenced"
    [] sunshine /\ p.kind = "ControllerMotion" -> IF p.still THEN "Reliable" ELSE "Sequenced"
    [] OTHER -> "Reliable"
=============================================================================
