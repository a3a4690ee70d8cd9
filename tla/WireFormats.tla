----------------------------- MODULE WireFormats -----------------------------
(***************************************************************************)
(* What one side writes and the other side reads: the packets of a frame   *)
(* of video (VideoPayloader) and the control packets (ControlWire).  The   *)
(* two share nothing in the code, so a behaviour is about one of them.     *)
(***************************************************************************)
EXTENDS VideoPayloader, ControlWire

VARIABLE subject

FormatVars == <<vars, WireVars, subject>>

IdlePayloader ==
  /\ sequence_number = 0 /\ frame_index = 1 /\ packet_queue = << >>
  /\ pushed = 0 /\ packets = 0
  /\ fec_config = CHOOSE config \in FecConfigs : TRUE

IdleWire ==
  /\ link = None /\ send_sequence_number = 0 /\ sent = << >> /\ flight = {} /\ got = << >>

FormatInit ==
  \/ subject = "video" /\ Init /\ IdleWire
  \/ subject = "control" /\ WireInit /\ IdlePayloader

FormatNext ==
  \/ subject = "video" /\ Next /\ UNCHANGED <<WireVars, subject>>
  \/ subject = "control" /\ WireNext /\ UNCHANGED <<vars, subject>>

FormatSpec == FormatInit /\ [][FormatNext]_FormatVars /\ WireFairness
=============================================================================
