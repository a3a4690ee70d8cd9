------------------------ MODULE ControlPacketBindings ------------------------
(***************************************************************************)
(* The packets as programs in other languages see them                     *)
(* (bindings/src/control_packet.rs, control_serialization.rs) and their    *)
(* conversion to and from the packets of the crate.  Arrays of numbers     *)
(* become numbered fields, arrays of bytes vectors of any length, and      *)
(* bit flags records of Booleans: here the set of the Booleans that hold.  *)
(***************************************************************************)
EXTENDS ControlPacket

-----------------------------------------------------------------------------
(* The flags of stream/control.rs: the bit of every name.                  *)

KeyModifierBit == [shift |-> 0, ctrl |-> 1, alt |-> 2, meta |-> 3, extended |-> 4]
KeyFlagBit == [sunshine_non_normalized |-> 0]
PenButtonBit == [primary |-> 0, secondary |-> 1, tertiary |-> 2]
ControllerButtonBit ==
  [up |-> 0, down |-> 1, left |-> 2, right |-> 3, play |-> 4, back |-> 5, ls_clk |-> 6, rs_clk |-> 7,
   lb |-> 8, rb |-> 9, special |-> 10, a |-> 12, b |-> 13, x |-> 14, y |-> 15, paddle1 |-> 16,
   paddle2 |-> 17, paddle3 |-> 18, paddle4 |-> 19, touchpad |-> 20, misc |-> 21]
ActiveGamepadBit ==
  [gamepad_1 |-> 0, gamepad_2 |-> 1, gamepad_3 |-> 2, gamepad_4 |-> 3, gamepad_5 |-> 4, gamepad_6 |-> 5,
   gamepad_7 |-> 6, gamepad_8 |-> 7, gamepad_9 |-> 8, gamepad_10 |-> 9, gamepad_11 |-> 10,
   gamepad_12 |-> 11, gamepad_13 |-> 12, gamepad_14 |-> 13, gamepad_15 |-> 14, gamepad_16 |-> 15]
ControllerCapabilityBit ==
  [analog_triggers |-> 0, rumble |-> 1, trigger_rumble |-> 2, touchpad |-> 3, accel |-> 4, gyro |-> 5,
   battery_state |-> 6, rgb_led |-> 7, dual_touchpad |-> 8]

\* The fields that hold flags.
Bits == [flags |-> KeyFlagBit, modifiers |-> KeyModifierBit, buttons |-> PenButtonBit,
         supported_buttons |-> ControllerButtonBit, active_gamepad_mask |-> ActiveGamepadBit,
         capabilities |-> ControllerCapabilityBit]

(* The Booleans of the records, each set from and into the bit of its name. *)

KeyFlagBools == {"sunshine_non_normalized"}
KeyModifierBools == {"shift", "ctrl", "alt", "meta"}   \* extended is not among them
PenButtonBools == {"primary", "secondary", "tertiary"}
ActiveGamepadBools ==
  {"gamepad_1", "gamepad_2", "gamepad_3", "gamepad_4", "gamepad_5", "gamepad_6", "gamepad_7",
   "gamepad_8", "gamepad_9", "gamepad_10", "gamepad_11", "gamepad_12", "gamepad_13", "gamepad_14",
   "gamepad_15", "gamepad_16"}
ControllerCapabilityBools ==
  {"analog_triggers", "rumble", "trigger_rumble", "touchpad", "accel", "gyro", "battery_state",
   "rgb_led", "dual_touchpad"}
ControllerButtonBools ==
  {"a", "b", "x", "y", "up", "down", "left", "right", "lb", "rb", "play", "back", "ls_clk", "rs_clk",
   "special", "paddle1", "paddle2", "paddle3", "paddle4", "touchpad", "misc"}

Bools == [flags |-> KeyFlagBools, modifiers |-> KeyModifierBools, buttons |-> PenButtonBools,
          supported_buttons |-> ControllerButtonBools, active_gamepad_mask |-> ActiveGamepadBools,
          capabilities |-> ControllerCapabilityBools]

IsFlags(f) == f \in DOMAIN Bits
ToBits(f, value) == <<value[1], {Bits[f][name] : name \in value[2]}>>
ToBools(f, value) == <<value[1], {name \in Bools[f] : Bits[f][name] \in value[2]}>>

-----------------------------------------------------------------------------
(* The fields of the two enums.                                            *)

\* SunshineHdrMetadata: the three primaries of the array by number.
HdrNames == [primary_0_x |-> "display_primary_1_x", primary_0_y |-> "display_primary_1_y",
             primary_1_x |-> "display_primary_2_x", primary_1_y |-> "display_primary_2_y",
             primary_2_x |-> "display_primary_3_x", primary_2_y |-> "display_primary_3_y"]

\* What the enum of the bindings calls the elements of the crate's arrays.
BoundNames == [
  HdrModeSunshine |-> HdrNames,
  ControllerMotion |-> [reserved_0 |-> "reserved1", reserved_1 |-> "reserved2"],
  InvalidateReferenceFrames |->
    [reserved2_0 |-> "reserved2", reserved2_1 |-> "reserved3", reserved2_2 |-> "reserved4"]]

BoundName(kind, f) ==
  IF kind \in DOMAIN BoundNames THEN IF f \in DOMAIN BoundNames[kind] THEN BoundNames[kind][f] ELSE f
  ELSE f

BoundFields(kind) == {BoundName(kind, f) : f \in DOMAIN Fields[kind]}

(* Bindings to crate.  Most arms hand over every field under its name;     *)
(* flags go through into().                                                *)

CopiedInFeedback == {"ControllerRumbleData", "ControllerRumbleTriggers", "ControllerSetMotion",
                     "ControllerSetLed", "RequestIdr", "StartB", "PeriodicPing", "HdrMode",
                     "HdrModeSunshine", "LossStats", "FrameStats", "FrameFec", "MouseMoveRelative"}
CopiedInDevices == {"MouseMoveAbsolute", "MouseButtonPress", "MouseButtonRelease", "KeyDown", "KeyUp",
                    "MouseScroll", "MouseHorizontalScroll", "Touch", "Pen", "ControllerState"}
CopiedInControllers == {"ControllerTouch", "ControllerArrival", "ControllerMotion", "ControllerBattery",
                        "InvalidateReferenceFrames", "LongTermReferenceFrameAcknowledgement",
                        "TerminationShort", "TerminationLong", "WebState"}
CopiedIn == CopiedInFeedback \cup CopiedInDevices \cup CopiedInControllers

\* The vectors of the trigger effects are brought to ten bytes, and a text is
\* cut after its first 32 bytes.
FittedIn(p, f) ==
  CASE p.kind = "ControllerSetAdaptiveTriggers" /\ f = "left" /\ p.n # DS_EFFECT_PAYLOAD_SIZE
         -> Value("left resized")
    [] p.kind = "Text" /\ p.n > UTF8_TEXT_MAX_COUNT -> Value("text cut")
    [] OTHER -> p.fields[f]

ToNative(p) ==
  [p EXCEPT
     !.n = IF p.kind # "Text" THEN 0 ELSE IF p.n < UTF8_TEXT_MAX_COUNT THEN p.n ELSE UTF8_TEXT_MAX_COUNT,
     !.fields = [f \in DOMAIN Fields[p.kind] |->
                   LET value == IF p.kind \in CopiedIn THEN p.fields[BoundName(p.kind, f)]
                                ELSE FittedIn(p, f)
                   IN  IF IsFlags(f) THEN ToBits(f, value) ELSE value]]

(* Crate to bindings.                                                      *)

CopiedOutFeedback == {"ControllerRumbleData", "ControllerRumbleTriggers", "ControllerSetMotion",
                      "ControllerSetLed", "ControllerSetAdaptiveTriggers", "RequestIdr", "StartB",
                      "PeriodicPing", "HdrMode", "HdrModeSunshine", "LossStats", "FrameStats",
                      "FrameFec", "MouseMoveRelative", "MouseMoveAbsolute", "MouseButtonPress",
                      "MouseButtonRelease"}
CopiedOutDevices == {"KeyDown", "KeyUp", "Text", "MouseScroll", "MouseHorizontalScroll", "Touch", "Pen",
                     "ControllerState", "ControllerTouch", "ControllerArrival"}
CopiedOutControllers == {"ControllerMotion", "ControllerBattery", "InvalidateReferenceFrames",
                         "LongTermReferenceFrameAcknowledgement", "TerminationShort",
                         "TerminationLong", "WebState"}
CopiedOut == CopiedOutFeedback \cup CopiedOutDevices \cup CopiedOutControllers

\* A vector takes the length of its array, a text that of text_len.
FromNative(p) ==
  [kind |-> p.kind,
   n |-> CASE p.kind = "ControllerSetAdaptiveTriggers" -> DS_EFFECT_PAYLOAD_SIZE
           [] p.kind = "Text" -> p.n
           [] OTHER -> 0,
   fields |-> [g \in BoundFields(p.kind) |->
                 LET f == CHOOSE h \in DOMAIN Fields[p.kind] : BoundName(p.kind, h) = g
                 IN  IF p.kind \notin CopiedOut THEN Garbled
                     ELSE IF IsFlags(f) THEN ToBools(f, p.fields[f]) ELSE p.fields[f]]]
=============================================================================
