-------------------------- MODULE MCPortLifecycle --------------------------
(* Three ports: p1 and p2 share device d1 (two listen specs on one serial  *)
(* line), p3 has device d2.  p1 kicks its old user, p2 has a close string. *)
(* The rotator, when present, hands clients to p2 and p3, so it competes   *)
(* with p1's direct accepts for device d1.                                 *)
EXTENDS PortLifecycle

MCPorts == {"p1", "p2", "p3"}
MCDevices == {"d1", "d2"}
MCDevOf == [p \in Ports |-> IF p = "p3" THEN "d2" ELSE "d1"]
MCRotPorts == <<"p2", "p3">>
MCNoRotator == << >>
\* The two ports on device d1 alone, for the liveness runs.
MCPortsD1 == {"p1", "p2"}
MCRotD1 == <<"p2">>
MCKickOld == {"p1"}
MCCloseStr == {"p2"}
\* Modes whose changes change_port_state applies: off and one enabled mode.
MCModesOffRaw == {"off", "raw"}
\* Two enabled modes, so a change between them is exercised.
MCModesAll == {"off", "raw", "telnet"}
=============================================================================
