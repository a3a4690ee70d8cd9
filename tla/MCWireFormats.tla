---------------------------- MODULE MCWireFormats ----------------------------
(* The wire formats for TLC.                                               *)
EXTENDS WireFormats

\* No FEC, a percentage, and a percentage raised to a least number of packets.
MCFecConfigs ==
  {[percent |-> 0, min |-> 0], [percent |-> 50, min |-> 0], [percent |-> 20, min |-> 2]}

\* The versions before and after the one with the longer header.
MCVersions == {Version(7, 1, 319), Version(7, 1, 330), Version(7, 1, 431)}

Profile(major, ping, sunshine, method, web) ==
  [server |-> [major |-> major, ping |-> ping, sunshine |-> sunshine], method |-> method, web |-> web]

\* Every version of the protocol, and Sunshine with both methods.
MCProfiles ==
  {Profile(5, FALSE, FALSE, "None", FALSE), Profile(6, FALSE, FALSE, "None", FALSE),
   Profile(7, FALSE, FALSE, "None", FALSE), Profile(7, TRUE, FALSE, "None", FALSE),
   Profile(7, TRUE, FALSE, "Nvidia", FALSE), Profile(7, TRUE, TRUE, "Nvidia", FALSE),
   Profile(7, TRUE, TRUE, "Sunshine", TRUE)}
=============================================================================
