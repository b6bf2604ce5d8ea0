--------------------------- MODULE PortLifecycle ---------------------------
(***************************************************************************)
(* The per-port life cycle of ser2net's data-transfer engine (dataxfer.c): *)
(* accepting a TCP client on a port's listening sockets or through a       *)
(* rotator, the kick-old-user path, the multi-step shutdown sequence       *)
(* (shutdown_port -> port_tcp_fd_cleared -> shutdown_port2 -> close-string *)
(* write -> finish_shutdown_port), live reconfiguration (portconfig,       *)
(* new_config, switchout_port), deletion (clear_old_port_config) and the   *)
(* control-plane operations that act on a port's life cycle                *)
(* (setportenable, disconnect).                                            *)
(*                                                                         *)
(* The program runs one event loop.  Every handler runs atomically up to   *)
(* its return to the loop; wait_for_waiter runs the loop nested, so a      *)
(* handler that waits is split at the wait.  The waits in                  *)
(* finish_shutdown_port (device shutdown, send-timer stop) and             *)
(* shutdown_port2 (timer stop) precede every state change of the handler,  *)
(* so they are the gaps between the phases below.                          *)
(*                                                                         *)
(* Bytes are not modelled here (see DevToTcp); a connected port is in      *)
(* "waiting input" on both halves until its shutdown starts.               *)
(***************************************************************************)
EXTENDS Naturals, Sequences, FiniteSets, FiniteSetsExt

CONSTANTS
    Ports,      \* port names (the TCP listen specs of ser2net.conf)
    Devices,    \* serial device names
    DevOf,      \* DevOf[p]: the device of port p; ports may share one
    RotPorts,   \* the rotator's port list (portv), <<>> if no rotator
    KickOld,    \* ports configured with kickolduser
    CloseStr,   \* ports configured with a closestr
    Modes       \* the enable states used: a subset of AllModes

AllModes == {"off", "raw", "rawlp", "telnet"}   \* enabled_str[]
NoCfg == "none"                                 \* new_config == NULL

ASSUME /\ DevOf \in [Ports -> Devices]
       /\ RotPorts \in Seq(Ports)
       /\ KickOld \subseteq Ports /\ CloseStr \subseteq Ports
       /\ "off" \in Modes /\ Modes \subseteq AllModes

\* state_str[]: PORT_UNCONNECTED, PORT_WAITING_INPUT, PORT_CLOSING.
Unconnected == "unconnected"
WaitingInput == "waiting input"
Closing == "closing"

(* Where the port's shutdown sequence stands: nothing pending; the       *)
(* socket's handlers are being cleared (port_tcp_fd_cleared pending);    *)
(* runshutdown has shutdown_port2 queued; the close string is draining   *)
(* to the device (handle_dev_fd_close_write); finish_shutdown_port is    *)
(* queued or waiting for the device and send timer to stop.              *)
Phases == {"none", "clear_fd", "shutdown2", "close_write", "finish"}

VARIABLES
    present,    \* the port is in the ports list
    enabled,    \* port->enabled
    listening,  \* port->acceptfds != NULL
    t2d,        \* port->tcp_to_dev_state
    d2t,        \* port->dev_to_tcp_state
    sockOpen,   \* port->tcpfd != -1
    phase,      \* the pending step of the shutdown sequence
    deleted,    \* port->config_num == -1
    newcfg,     \* the enable state of port->new_config, or NoCfg
    backlog,    \* a client is waiting in the port's listen backlog
    rotBacklog, \* a client is waiting in the rotator's listen backlog
    rotCur,     \* rot->curr_port (1-based)
    wanted,     \* ghost: the enable state last asked for by the
                \* configuration or by setportenable
    exiting     \* shutdown_ports has run: the program is exiting

vars == <<present, enabled, listening, t2d, d2t, sockOpen, phase, deleted,
          newcfg, backlog, rotBacklog, rotCur, wanted, exiting>>

NRot == Len(RotPorts)

\* The state without the ghost variable: wanted never affects a guard, so
\* runs that do not check ConfiguredModeLive may identify states by it.
ControlView == <<present, enabled, listening, t2d, d2t, sockOpen, phase,
                 deleted, newcfg, backlog, rotBacklog, rotCur, exiting>>

TypeOK ==
    /\ present \in [Ports -> BOOLEAN]
    /\ enabled \in [Ports -> Modes]
    /\ listening \in [Ports -> BOOLEAN]
    /\ t2d \in [Ports -> {Unconnected, WaitingInput}]
    /\ d2t \in [Ports -> {Unconnected, WaitingInput, Closing}]
    /\ sockOpen \in [Ports -> BOOLEAN]
    /\ phase \in [Ports -> Phases]
    /\ deleted \in [Ports -> BOOLEAN]
    /\ newcfg \in [Ports -> Modes \cup {NoCfg}]
    /\ backlog \in [Ports -> BOOLEAN]
    /\ rotBacklog \in BOOLEAN
    /\ rotCur \in 1..Max({NRot, 1})
    /\ wanted \in [Ports -> Modes]
    /\ exiting \in BOOLEAN

-----------------------------------------------------------------------------
(* Helpers translated from dataxfer.c.                                     *)

\* is_device_already_inuse: another listed port on the same device is
\* connected.
DeviceInUse(p) ==
    \E q \in Ports \ {p} : present[q] /\ DevOf[q] = DevOf[p]
                           /\ t2d[q] # Unconnected

\* Mutant: is_port_free without the is_device_already_inuse test.
IsPortFreeNoDeviceCheck(p) == present[p] /\ t2d[p] = Unconnected

\* is_port_free: the named port is listed, unconnected and its device is
\* not in use.  It does not look at port->enabled or port->config_num.
IsPortFree(p) == present[p] /\ t2d[p] = Unconnected /\ ~DeviceInUse(p)

\* Mutant: setup_tcp_port stores PORT_WAITING_OUTPUT_CLEAR in the
\* tcp-to-device half.
SetupTcpPortWrongState(p) ==
    \/ UNCHANGED <<t2d, d2t, sockOpen>>
    \/ /\ t2d' = [t2d EXCEPT ![p] = "waiting output"]
       /\ d2t' = [d2t EXCEPT ![p] = WaitingInput]
       /\ sockOpen' = [sockOpen EXCEPT ![p] = TRUE]

(* setup_tcp_port after a successful accept (handle_port_accept): either *)
(* one of the socket options, the host-access check or the device open   *)
(* fails and the socket is closed, or both halves enter "waiting input". *)
SetupTcpPort(p) ==
    \/ UNCHANGED <<t2d, d2t, sockOpen>>
    \/ /\ t2d' = [t2d EXCEPT ![p] = WaitingInput]
       /\ d2t' = [d2t EXCEPT ![p] = WaitingInput]
       /\ sockOpen' = [sockOpen EXCEPT ![p] = TRUE]

(* shutdown_port: a port already closing is left alone; otherwise the    *)
(* device-to-TCP half becomes closing and the socket's handlers are       *)
(* cleared, or, without a socket, shutdown_port2 is queued at once.       *)
ShutdownPort(p) ==
    IF d2t[p] = Closing
    THEN UNCHANGED <<d2t, phase>>
    ELSE /\ d2t' = [d2t EXCEPT ![p] = Closing]
         /\ phase' = [phase EXCEPT ![p] =
                         IF sockOpen[p] THEN "clear_fd" ELSE "shutdown2"]

(* change_port_state(port, state) on the enable state and the listening  *)
(* sockets.  Disabling closes the listening sockets (and drops their     *)
(* backlog); enabling a disabled port runs startup_port, whose failure   *)
(* to open a socket is ignored; a change between two enabled states      *)
(* falls through both branches.                                          *)
ChangePortState(p, state) ==
    \/ /\ enabled[p] = state
       /\ UNCHANGED <<enabled, listening, backlog>>
    \/ /\ enabled[p] # state /\ state = "off"
       /\ enabled' = [enabled EXCEPT ![p] = "off"]
       /\ listening' = [listening EXCEPT ![p] = FALSE]
       /\ backlog' = [backlog EXCEPT ![p] = FALSE]
    \/ /\ enabled[p] # state /\ enabled[p] = "off"
       /\ enabled' = [enabled EXCEPT ![p] = state]
       /\ \E ok \in BOOLEAN : listening' = [listening EXCEPT ![p] = ok]
       /\ UNCHANGED backlog
    \/ /\ enabled[p] # state /\ state # "off" /\ enabled[p] # "off"
       /\ UNCHANGED <<enabled, listening, backlog>>

-----------------------------------------------------------------------------
(* Environment: clients connect to a listening port or to the rotator.     *)

ClientConnect(p) ==
    /\ present[p] /\ listening[p] /\ ~backlog[p]
    /\ backlog' = [backlog EXCEPT ![p] = TRUE]
    /\ UNCHANGED <<present, enabled, listening, t2d, d2t, sockOpen, phase,
                   deleted, newcfg, rotBacklog, rotCur, wanted, exiting>>

RotClientConnect ==
    /\ NRot > 0 /\ ~rotBacklog
    /\ rotBacklog' = TRUE
    /\ UNCHANGED <<present, enabled, listening, t2d, d2t, sockOpen, phase,
                   deleted, newcfg, backlog, rotCur, wanted, exiting>>

-----------------------------------------------------------------------------
(* handle_accept_port_read: a client waits on a listening port.  A        *)
(* connected port either kicks its user (no accept: the reactor calls     *)
(* again) or rejects the client; a port whose device is in use rejects;   *)
(* otherwise the client is accepted and set up.                           *)
AcceptKick(p) ==
    /\ present[p] /\ listening[p] /\ backlog[p] /\ enabled[p] # "off"
    /\ t2d[p] # Unconnected /\ p \in KickOld
    /\ ShutdownPort(p)
    /\ UNCHANGED <<present, enabled, listening, t2d, sockOpen, deleted,
                   newcfg, backlog, rotBacklog, rotCur, wanted, exiting>>

AcceptReject(p) ==
    /\ present[p] /\ listening[p] /\ backlog[p] /\ enabled[p] # "off"
    /\ \/ t2d[p] # Unconnected /\ p \notin KickOld
       \/ t2d[p] = Unconnected /\ DeviceInUse(p)
    /\ backlog' = [backlog EXCEPT ![p] = FALSE]
    /\ UNCHANGED <<present, enabled, listening, t2d, d2t, sockOpen, phase,
                   deleted, newcfg, rotBacklog, rotCur, wanted, exiting>>

Accept(p) ==
    /\ present[p] /\ listening[p] /\ backlog[p] /\ enabled[p] # "off"
    /\ t2d[p] = Unconnected /\ ~DeviceInUse(p)
    /\ backlog' = [backlog EXCEPT ![p] = FALSE]
    /\ SetupTcpPort(p)
    /\ UNCHANGED <<present, enabled, listening, phase, deleted, newcfg,
                   rotBacklog, rotCur, wanted, exiting>>

\* Mutant: the handler returns without accepting when the port or its
\* device is busy, leaving the client in the backlog.
HandleAcceptPortReadNoReject(p) == AcceptKick(p) \/ Accept(p)

HandleAcceptPortRead(p) == AcceptKick(p) \/ AcceptReject(p) \/ Accept(p)

(* handle_rot_port_read: walk portv from curr_port for the first free     *)
(* port; advance curr_port past it and accept the client into it, or      *)
(* reject the client when none is free.                                   *)
RotIndex(k) == ((rotCur - 1 + k) % NRot) + 1
RotFree == {k \in 0..(NRot - 1) : IsPortFree(RotPorts[RotIndex(k)])}

RotAccept ==
    /\ rotBacklog
    /\ rotBacklog' = FALSE
    /\ IF RotFree = {}
       THEN UNCHANGED <<t2d, d2t, sockOpen, rotCur>>
       ELSE LET k == Min(RotFree)
                p == RotPorts[RotIndex(k)]
            IN /\ rotCur' = RotIndex(k + 1)
               /\ SetupTcpPort(p)
    /\ UNCHANGED <<present, enabled, listening, phase, deleted, newcfg,
                   backlog, wanted, exiting>>

-----------------------------------------------------------------------------
(* The session's own handlers end it: the peer closes, a read or write     *)
(* fails, the telnet stream is malformed, the activity timer expires, the *)
(* closeon string is seen or the device raises an exception.  All of them *)
(* call shutdown_port.                                                    *)
SessionEnd(p) ==
    /\ present[p] /\ t2d[p] # Unconnected /\ d2t[p] # Closing
    /\ ShutdownPort(p)
    /\ UNCHANGED <<present, enabled, listening, t2d, sockOpen, deleted,
                   newcfg, backlog, rotBacklog, rotCur, wanted, exiting>>

(* port_tcp_fd_cleared: the reactor has dropped the socket's handlers;    *)
(* the socket is closed and shutdown_port2 is queued on runshutdown.      *)
TcpFdCleared(p) ==
    /\ phase[p] = "clear_fd"
    /\ sockOpen' = [sockOpen EXCEPT ![p] = FALSE]
    /\ phase' = [phase EXCEPT ![p] = "shutdown2"]
    /\ UNCHANGED <<present, enabled, listening, t2d, d2t, deleted, newcfg,
                   backlog, rotBacklog, rotCur, wanted, exiting>>

(* shutdown_port2: after the activity timer has stopped, a configured     *)
(* close string on a connected device is written by                       *)
(* handle_dev_fd_close_write; otherwise finish_shutdown_port runs.        *)
\* Mutant: shutdown_port2 without the finish_shutdown_port call of its
\* else branch.
ShutdownPort2NoFinish(p) ==
    /\ phase[p] = "shutdown2"
    /\ phase' = [phase EXCEPT ![p] =
                    IF p \in CloseStr /\ t2d[p] # Unconnected
                    THEN "close_write" ELSE "none"]
    /\ UNCHANGED <<present, enabled, listening, t2d, d2t, sockOpen, deleted,
                   newcfg, backlog, rotBacklog, rotCur, wanted, exiting>>

ShutdownPort2(p) ==
    /\ phase[p] = "shutdown2"
    /\ phase' = [phase EXCEPT ![p] =
                    IF p \in CloseStr /\ t2d[p] # Unconnected
                    THEN "close_write" ELSE "finish"]
    /\ UNCHANGED <<present, enabled, listening, t2d, d2t, sockOpen, deleted,
                   newcfg, backlog, rotBacklog, rotCur, wanted, exiting>>

(* handle_dev_fd_close_write: the close string has drained or the write   *)
(* failed; finish_shutdown_port is queued.                                *)
CloseWriteDone(p) ==
    /\ phase[p] = "close_write"
    /\ phase' = [phase EXCEPT ![p] = "finish"]
    /\ UNCHANGED <<present, enabled, listening, t2d, d2t, sockOpen, deleted,
                   newcfg, backlog, rotBacklog, rotCur, wanted, exiting>>

(* finish_shutdown_port, after the device and the send timer stopped:     *)
(* the tcp-to-device half becomes unconnected; a deleted port is unlinked *)
(* and freed; a pending new_config replaces the port through             *)
(* switchout_port, which keeps the listening sockets and then calls      *)
(* change_port_state with the new enable state; finally the              *)
(* device-to-TCP half becomes unconnected.                               *)
FinishShutdown(p) ==
    /\ phase[p] = "finish"
    /\ phase' = [phase EXCEPT ![p] = "none"]
    /\ t2d' = [t2d EXCEPT ![p] = Unconnected]
    /\ d2t' = [d2t EXCEPT ![p] = Unconnected]
    /\ \/ /\ deleted[p]
          /\ present' = [present EXCEPT ![p] = FALSE]
          /\ listening' = [listening EXCEPT ![p] = FALSE]
          /\ backlog' = [backlog EXCEPT ![p] = FALSE]
          /\ newcfg' = [newcfg EXCEPT ![p] = NoCfg]
          /\ UNCHANGED <<enabled, deleted>>
       \/ /\ ~deleted[p] /\ newcfg[p] # NoCfg
          /\ newcfg' = [newcfg EXCEPT ![p] = NoCfg]
          /\ ChangePortState(p, newcfg[p])
          /\ UNCHANGED <<present, deleted>>
       \/ /\ ~deleted[p] /\ newcfg[p] = NoCfg
          /\ UNCHANGED <<present, enabled, listening, deleted, newcfg,
                         backlog>>
    /\ UNCHANGED <<sockOpen, rotBacklog, rotCur, wanted, exiting>>

-----------------------------------------------------------------------------
(* Configuration and control-plane operations.                            *)

(* portconfig for a port named in a (re)read configuration: an existing  *)
(* port whose device-to-TCP half is unconnected is switched out at once;  *)
(* a busy one gets the new configuration as new_config (replacing an      *)
(* older one) and takes its config_num; a new port is started (if         *)
(* enabled) and appended, or dropped when its socket cannot be opened.    *)
PortConfig(p, m) ==
    /\ wanted' = [wanted EXCEPT ![p] = m]
    /\ \/ /\ present[p] /\ d2t[p] = Unconnected
          /\ deleted' = [deleted EXCEPT ![p] = FALSE]
          /\ ChangePortState(p, m)
          /\ UNCHANGED <<present, newcfg>>
       \/ /\ present[p] /\ d2t[p] # Unconnected
          /\ newcfg' = [newcfg EXCEPT ![p] = m]
          /\ deleted' = [deleted EXCEPT ![p] = FALSE]
          /\ UNCHANGED <<present, enabled, listening, backlog>>
       \/ /\ ~present[p]
          /\ \E ok \in BOOLEAN :
               /\ present' = [present EXCEPT ![p] = (m = "off" \/ ok)]
               /\ listening' = [listening EXCEPT ![p] = (m # "off" /\ ok)]
          /\ enabled' = [enabled EXCEPT ![p] = m]
          /\ deleted' = [deleted EXCEPT ![p] = FALSE]
          /\ UNCHANGED <<newcfg, backlog>>
    /\ UNCHANGED <<t2d, d2t, sockOpen, phase, rotBacklog, rotCur, exiting>>

(* clear_old_port_config for a port missing from the new configuration:  *)
(* an idle port is disabled and freed at once; a busy one is marked       *)
(* config_num = -1 and disabled, and is freed when its session ends.      *)
\* Mutant: clear_old_port_config frees a removed port without testing
\* dev_to_tcp_state.
ClearOldPortNoBusyCheck(p) ==
    /\ present[p]
    /\ wanted' = [wanted EXCEPT ![p] = "off"]
    /\ listening' = [listening EXCEPT ![p] = FALSE]
    /\ backlog' = [backlog EXCEPT ![p] = FALSE]
    /\ present' = [present EXCEPT ![p] = FALSE]
    /\ newcfg' = [newcfg EXCEPT ![p] = NoCfg]
    /\ UNCHANGED <<enabled, deleted, t2d, d2t, sockOpen, phase, rotBacklog,
                   rotCur, exiting>>

ClearOldPort(p) ==
    /\ present[p]
    /\ wanted' = [wanted EXCEPT ![p] = "off"]
    /\ listening' = [listening EXCEPT ![p] = FALSE]
    /\ backlog' = [backlog EXCEPT ![p] = FALSE]
    /\ \/ /\ d2t[p] = Unconnected
          /\ present' = [present EXCEPT ![p] = FALSE]
          /\ newcfg' = [newcfg EXCEPT ![p] = NoCfg]
          /\ UNCHANGED <<enabled, deleted>>
       \/ /\ d2t[p] # Unconnected
          /\ deleted' = [deleted EXCEPT ![p] = TRUE]
          /\ enabled' = [enabled EXCEPT ![p] = "off"]
          /\ UNCHANGED <<present, newcfg>>
    /\ UNCHANGED <<t2d, d2t, sockOpen, phase, rotBacklog, rotCur, exiting>>

(* setportenable: find_port_by_num refuses deleted ports; the port's     *)
(* enable state is changed by change_port_state.                         *)
SetPortEnable(p, m) ==
    /\ present[p] /\ ~deleted[p]
    /\ wanted' = [wanted EXCEPT ![p] = m]
    /\ ChangePortState(p, m)
    /\ UNCHANGED <<present, t2d, d2t, sockOpen, phase, deleted, newcfg,
                   rotBacklog, rotCur, exiting>>

(* disconnect_port: a connected port (deleted or not) is shut down.      *)
Disconnect(p) ==
    /\ present[p] /\ t2d[p] # Unconnected
    /\ ShutdownPort(p)
    /\ UNCHANGED <<present, enabled, listening, t2d, sockOpen, deleted,
                   newcfg, backlog, rotBacklog, rotCur, wanted, exiting>>

\* Mutant: shutdown_ports shuts down only the ports with a session, as if
\* an idle port needed no shutdown_port call to be freed.
ShutdownPortsConnectedOnly ==
    /\ ~exiting
    /\ exiting' = TRUE
    /\ deleted' = [p \in Ports |-> deleted[p] \/ present[p]]
    /\ enabled' = [p \in Ports |-> IF present[p] THEN "off" ELSE enabled[p]]
    /\ wanted' = [p \in Ports |-> IF present[p] THEN "off" ELSE wanted[p]]
    /\ listening' = [p \in Ports |-> listening[p] /\ ~present[p]]
    /\ backlog' = [p \in Ports |-> backlog[p] /\ ~present[p]]
    /\ d2t' = [p \in Ports |-> IF present[p] /\ sockOpen[p] THEN Closing
                               ELSE d2t[p]]
    /\ phase' = [p \in Ports |->
                   IF present[p] /\ sockOpen[p] /\ d2t[p] # Closing
                   THEN "clear_fd" ELSE phase[p]]
    /\ UNCHANGED <<present, t2d, sockOpen, newcfg, rotBacklog, rotCur>>

(* shutdown_ports, once, on program exit: every listed port is marked    *)
(* config_num = -1, disabled by change_port_state and shut down by        *)
(* shutdown_port, idle ones included (they go straight to shutdown_port2). *)
(* Each port is then freed by its own finish_shutdown_port; the program   *)
(* waits for check_ports_shutdown (the list is empty).                    *)
ShutdownPorts ==
    /\ ~exiting
    /\ exiting' = TRUE
    /\ deleted' = [p \in Ports |-> deleted[p] \/ present[p]]
    /\ enabled' = [p \in Ports |-> IF present[p] THEN "off" ELSE enabled[p]]
    /\ wanted' = [p \in Ports |-> IF present[p] THEN "off" ELSE wanted[p]]
    /\ listening' = [p \in Ports |-> listening[p] /\ ~present[p]]
    /\ backlog' = [p \in Ports |-> backlog[p] /\ ~present[p]]
    /\ d2t' = [p \in Ports |-> IF present[p] THEN Closing ELSE d2t[p]]
    /\ phase' = [p \in Ports |->
                   IF present[p] /\ d2t[p] # Closing
                   THEN IF sockOpen[p] THEN "clear_fd" ELSE "shutdown2"
                   ELSE phase[p]]
    /\ UNCHANGED <<present, t2d, sockOpen, newcfg, rotBacklog, rotCur>>

check_ports_shutdown == \A p \in Ports : ~present[p]

-----------------------------------------------------------------------------
(* Initially the configured ports are listed and listening when enabled   *)
(* (a port whose socket cannot be opened is not added), nothing is        *)
(* connected and the rotator starts at the first port of its list.        *)
Init ==
    /\ present \in [Ports -> BOOLEAN]
    /\ enabled \in [Ports -> Modes]
    /\ listening = [p \in Ports |-> present[p] /\ enabled[p] # "off"]
    /\ t2d = [p \in Ports |-> Unconnected]
    /\ d2t = [p \in Ports |-> Unconnected]
    /\ sockOpen = [p \in Ports |-> FALSE]
    /\ phase = [p \in Ports |-> "none"]
    /\ deleted = [p \in Ports |-> FALSE]
    /\ newcfg = [p \in Ports |-> NoCfg]
    /\ backlog = [p \in Ports |-> FALSE]
    /\ rotBacklog = FALSE
    /\ rotCur = 1
    /\ wanted = enabled
    /\ exiting = FALSE

(* The loop's own handlers: accepts, session ends and the shutdown steps. *)
PortStep(p) ==
    \/ HandleAcceptPortRead(p)
    \/ TcpFdCleared(p) \/ ShutdownPort2(p) \/ CloseWriteDone(p)
    \/ FinishShutdown(p)

(* Operator and configuration actions. *)
(* A configuration is read only before shutdown_ports ("nothing can     *)
(* reconfigure the port list at this point").                             *)
AdminStep(p) ==
    \/ \E m \in Modes : ~exiting /\ PortConfig(p, m)
    \/ \E m \in Modes : SetPortEnable(p, m)
    \/ ~exiting /\ ClearOldPort(p)
    \/ Disconnect(p)

Next ==
    \/ ShutdownPorts
    \/ RotClientConnect \/ RotAccept
    \/ \E p \in Ports : ClientConnect(p) \/ SessionEnd(p) \/ PortStep(p)
                        \/ AdminStep(p)

(* The reactor eventually runs every handler that stays ready: accept     *)
(* handlers while a client waits, fd-cleared callbacks, queued runners    *)
(* and the device write handler.  Clients, sessions and the operator owe  *)
(* nothing.                                                               *)
Fairness ==
    /\ WF_vars(RotAccept)
    /\ \A p \in Ports :
          /\ WF_vars(HandleAcceptPortRead(p)) /\ WF_vars(TcpFdCleared(p))
          /\ WF_vars(ShutdownPort2(p)) /\ WF_vars(CloseWriteDone(p))
          /\ WF_vars(FinishShutdown(p))

Spec == Init /\ [][Next]_vars /\ Fairness

-----------------------------------------------------------------------------
(* Properties.                                                             *)

(* A serial device is used by at most one session: two listed ports on    *)
(* the same device are never connected at once, whichever of the direct  *)
(* accept, the rotator, kick-old-user and reconfiguration got them there  *)
(* (is_device_already_inuse, is_port_free, finish_shutdown_port).         *)
DeviceExclusive ==
    \A p, q \in Ports :
        (p # q /\ present[p] /\ present[q] /\ DevOf[p] = DevOf[q])
            => (t2d[p] = Unconnected \/ t2d[q] = Unconnected)

(* A session ends only through finish_shutdown_port: no reconfiguration, *)
(* deletion or accept ever replaces, frees or resets a port while its    *)
(* TCP-to-device half is connected (portconfig and clear_old_port_config *)
(* test dev_to_tcp_state, which finish_shutdown_port clears last).        *)
SessionEndsOnlyByShutdown ==
    [][\A p \in Ports :
          (present[p] /\ t2d[p] # Unconnected)
              => (present'[p] /\ t2d'[p] # Unconnected)
                 \/ phase[p] = "finish"]_vars

(* Every shutdown that starts completes: a closing port eventually is    *)
(* unconnected again or has been removed from the list.                  *)
ShutdownCompletes ==
    \A p \in Ports : (d2t[p] = Closing) ~> (d2t[p] = Unconnected \/ ~present[p])

(* A client waiting on a port's listening socket is eventually accepted  *)
(* or turned away; with kick-old-user the current session is shut down   *)
(* for it and it gets the port (handle_accept_port_read).                 *)
WaitingClientServed ==
    \A p \in Ports : backlog[p] ~> ~backlog[p]

(* The enable state the configuration or the operator last asked for is  *)
(* the port's live state once no new configuration is pending            *)
(* (switchout_port, change_port_state, setportenable).                    *)
ConfiguredModeLive ==
    \A p \in Ports : (present[p] /\ newcfg[p] = NoCfg) => enabled[p] = wanted[p]

(* Program exit terminates: once shutdown_ports has run, every port is    *)
(* eventually freed by its own shutdown sequence, so check_ports_shutdown *)
(* becomes true and the program can leave its loop.                      *)
ExitCompletes == exiting ~> check_ports_shutdown

(* A port is unlinked and freed only with its client socket closed: no   *)
(* session is still attached to a port that finish_shutdown_port or       *)
(* clear_old_port_config frees.                                           *)
FreedPortHasNoSession ==
    [][\A p \in Ports : (present[p] /\ ~present'[p]) => ~sockOpen'[p]]_vars

=============================================================================
