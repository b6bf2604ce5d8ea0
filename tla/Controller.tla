----------------------------- MODULE Controller -----------------------------
(***************************************************************************)
(* The control port (controller.c) and the monitor hooks it calls in       *)
(* dataxfer.c.  Every control connection is a model value of Conns, used   *)
(* once: it is accepted or refused (controller_new_connection), reads      *)
(* chunks of input (controller_read: overflow check, line editor,          *)
(* process_input_line), writes its output buffer (controller_write_ready)  *)
(* and is closed (shutdown_controller, then controller_close_done).        *)
(*                                                                         *)
(* Input bytes are abstracted: "B" is backspace or 0x7f, "Z" is \0 or \n,  *)
(* "R" is \r, and every other byte is a whole command word: "e" is exit,   *)
(* "s" is "monitor stop", a member of DOMAIN MonTarget is "monitor tcp"    *)
(* of a port, anything else ("h") is a command that only prints.  The     *)
(* output buffer is abstracted to whether it is allocated (outbuf !=       *)
(* NULL), the telnet command queue to whether it is non-empty.            *)
(***************************************************************************)
EXTENDS Naturals, Sequences, FiniteSets

CONSTANTS
    Conns,              \* control connections, each accepted at most once
    MaxControllerPorts, \* max_controller_ports
    InbufSize,          \* INBUF_SIZE
    MonTarget,          \* command byte -> port name it monitors
    PortIds,            \* port structures (a replaced port gets a new one)
    NameOf,             \* port structure -> portname
    InitPorts,          \* the ports list at start
    Chunks,             \* what one read callback may deliver
    MaxReads            \* bound on read callbacks per connection

RangeOf(f) == {f[x] : x \in DOMAIN f}

ASSUME MaxControllerPorts \in Nat /\ InbufSize \in Nat \ {0}
ASSUME NameOf \in [PortIds -> RangeOf(MonTarget) \cup {"other"}]

CR == "R"
BS == "B"
NUL == "Z"
ExitCmd == "e"
StopCmd == "s"
NoPort == "none"
NoConn == "none"

VARIABLES
    conn,      \* "idle" | "open" | "closing" (in_shutdown) | "closed" | "refused"
    num,       \* num_controller_ports
    inbuf,     \* inbuf[0..inbuf_count)
    readEn,    \* the read callback is enabled
    writeEn,   \* the write callback is enabled
    outPending,\* outbuf != NULL
    tnPending, \* tn_data.out_telnet_cmd is not empty
    monId,     \* monitor_port_id
    tcpMon,    \* port->tcp_monitor of every port structure
    ports,     \* the ports list, in order
    hung,      \* data_monitor_stop is spinning: the event loop is stuck
    reads,     \* read callbacks so far (bounded by MaxReads)
    refLine,   \* ghost: the line as typed, edited as the line editor should
    refLines,  \* ghost: the lines the user submitted in the last read
    execLines  \* ghost: the lines process_input_line got in the last read

vars == <<conn, num, inbuf, readEn, writeEn, outPending, tnPending, monId,
          tcpMon, ports, hung, reads, refLine, refLines, execLines>>

Listed == RangeOf(ports)
Live == {c \in Conns : conn[c] \in {"open", "closing"}}

TypeOK ==
    /\ conn \in [Conns -> {"idle", "open", "closing", "closed", "refused"}]
    /\ num \in 0..MaxControllerPorts
    /\ \A c \in Conns : Len(inbuf[c]) <= InbufSize
    /\ readEn \in [Conns -> BOOLEAN] /\ writeEn \in [Conns -> BOOLEAN]
    /\ outPending \in [Conns -> BOOLEAN] /\ tnPending \in [Conns -> BOOLEAN]
    /\ monId \in [Conns -> PortIds \cup {NoPort}]
    /\ tcpMon \in [PortIds -> Conns \cup {NoConn}]
    /\ hung \in BOOLEAN /\ reads \in [Conns -> 0..MaxReads]

-----------------------------------------------------------------------------
(* The handlers below work on one connection's view of the state, a       *)
(* record s: buf (inbuf), i (the editor's index), outp/rd/wr (outPending,  *)
(* readEn, writeEn), mon (monitor_port_id), tcpMon, hung, closing and      *)
(* done (the handler returns at once: the connection was shut down).      *)

\* controller_output: the first output allocates outbuf and turns the
\* reader off and the writer on; later output is appended.
Output(s) ==
    IF s.outp THEN s ELSE [s EXCEPT !.outp = TRUE, !.rd = FALSE, !.wr = TRUE]

\* data_monitor_stop: the list walk never advances curr, so it returns at
\* once on an empty list, clears the monitors if the port is the head of
\* the list, and spins forever otherwise.
DataMonitorStop(s, id) ==
    IF ports = << >> THEN s
    ELSE IF Head(ports) = id THEN [s EXCEPT !.tcpMon[id] = NoConn]
    ELSE [s EXCEPT !.hung = TRUE, !.done = TRUE]

\* data_monitor_start for "tcp": find_port_by_num (deleted ports allowed);
\* an unknown port prints and returns NULL, a port that is already
\* monitored prints and returns the port, else the slot is taken.
DataMonitorStart(s, c, name) ==
    LET found == {id \in Listed : NameOf[id] = name}
    IN IF found = {} THEN [Output(s) EXCEPT !.mon = NoPort]
       ELSE LET id == CHOOSE id \in found : TRUE
            IN IF s.tcpMon[id] # NoConn THEN [Output(s) EXCEPT !.mon = id]
               ELSE [s EXCEPT !.tcpMon[id] = c, !.mon = id]

\* Mutant: the session is closed without stopping its monitor.
ShutdownControllerNoStop(s) ==
    [s EXCEPT !.mon = NoPort, !.closing = TRUE, !.done = TRUE]

\* shutdown_controller: stop the monitor, set in_shutdown, genio_close.
ShutdownController(s) ==
    LET s1 == IF s.mon # NoPort THEN DataMonitorStop(s, s.mon) ELSE s
    IN IF s1.hung THEN s1
       ELSE [s1 EXCEPT !.mon = NoPort, !.closing = TRUE, !.done = TRUE]

\* process_input_line: dispatch on the command, then print the prompt
\* (exit and quit return without one).
ProcessInputLine(s, c, line) ==
    LET Prompt(t) == IF t.done THEN t ELSE Output(t)
    IN CASE line = << >> -> Prompt(s)
         [] line = <<ExitCmd>> -> ShutdownController(s)
         [] line = <<StopCmd>> ->
              Prompt(IF s.mon # NoPort
                     THEN [DataMonitorStop(s, s.mon) EXCEPT !.mon = NoPort]
                     ELSE s)
         [] Len(line) = 1 /\ line[1] \in DOMAIN MonTarget ->
              Prompt(IF s.mon # NoPort THEN Output(s)
                     ELSE DataMonitorStart(s, c, MonTarget[line[1]]))
         [] OTHER -> Prompt(Output(s))

\* Mutant: remove_chars returns pos instead of pos - count.
RemoveCharsNoRewind(s, pos, count) ==
    [s EXCEPT !.buf = SubSeq(s.buf, 1, pos - count + 1)
                      \o SubSeq(s.buf, pos + 2, Len(s.buf)),
              !.i = pos + 1]

\* remove_chars(pos, count) followed by the loop's i++: drops the count
\* bytes ending at index pos.
RemoveChars(s, pos, count) ==
    [s EXCEPT !.buf = SubSeq(s.buf, 1, pos - count + 1)
                      \o SubSeq(s.buf, pos + 2, Len(s.buf)),
              !.i = pos - count + 1]

\* The editing loop of controller_read, from read_start to inbuf_count.
RECURSIVE EditLoop(_, _, _)
EditLoop(s, c, lines) ==
    IF s.done \/ s.i >= Len(s.buf) THEN [st |-> s, lines |-> lines]
    ELSE LET ch == s.buf[s.i + 1]
             line == SubSeq(s.buf, 1, s.i)
             after == ProcessInputLine(Output(s), c, line)
         IN CASE ch = NUL -> EditLoop(RemoveChars(s, s.i, 1), c, lines)
              [] ch = BS /\ s.i = 0 -> EditLoop(RemoveChars(s, 0, 1), c, lines)
              [] ch = BS -> EditLoop(Output(RemoveChars(s, s.i, 2)), c, lines)
              [] ch = CR ->
                   EditLoop([after EXCEPT !.buf = SubSeq(s.buf, s.i + 2,
                                                         Len(s.buf)),
                                          !.i = 0],
                            c, Append(lines, line))
              [] OTHER -> EditLoop(Output([s EXCEPT !.i = s.i + 1]), c, lines)

\* The line editor as the spec describes it: \0 and \n are dropped, a
\* backspace erases the last byte of the line if any, \r submits the line.
RECURSIVE RefEdit(_, _, _)
RefEdit(bytes, line, lines) ==
    IF bytes = << >> THEN [line |-> line, lines |-> lines]
    ELSE LET ch == Head(bytes) IN
         CASE ch = NUL -> RefEdit(Tail(bytes), line, lines)
           [] ch = BS -> RefEdit(Tail(bytes),
                                 SubSeq(line, 1, Len(line) - 1), lines)
           [] ch = CR -> RefEdit(Tail(bytes), << >>, Append(lines, line))
           [] OTHER -> RefEdit(Tail(bytes), Append(line, ch), lines)

-----------------------------------------------------------------------------
\* The record a handler of connection c starts from.
View(c) == [buf |-> inbuf[c], i |-> Len(inbuf[c]), outp |-> outPending[c],
            rd |-> readEn[c], wr |-> writeEn[c], mon |-> monId[c],
            tcpMon |-> tcpMon, hung |-> FALSE, closing |-> FALSE,
            done |-> FALSE]

\* Write a handler's final record back to the state.
Commit(c, s) ==
    /\ inbuf' = [inbuf EXCEPT ![c] = s.buf]
    /\ outPending' = [outPending EXCEPT ![c] = s.outp]
    /\ readEn' = [readEn EXCEPT ![c] = s.rd]
    /\ writeEn' = [writeEn EXCEPT ![c] = s.wr]
    /\ monId' = [monId EXCEPT ![c] = s.mon]
    /\ tcpMon' = s.tcpMon
    /\ hung' = s.hung
    /\ conn' = [conn EXCEPT ![c] = IF s.closing THEN "closing" ELSE @]

\* Mutant: the limit test is num > max instead of num >= max.
NewConnectionOffByOne(c) ==
    /\ conn[c] = "idle" /\ ~hung
    /\ conn' = [conn EXCEPT ![c] = "open"]
    /\ num' = num + 1
    /\ tnPending' = [tnPending EXCEPT ![c] = TRUE]
    /\ outPending' = [outPending EXCEPT ![c] = TRUE]
    /\ readEn' = [readEn EXCEPT ![c] = FALSE]
    /\ writeEn' = [writeEn EXCEPT ![c] = TRUE]
    /\ UNCHANGED <<inbuf, monId, tcpMon, ports, hung, reads, refLine,
                   refLines, execLines>>

(* controller_new_connection: refuse when num_controller_ports has reached *)
(* the maximum or allocation fails; else telnet_init queues the option    *)
(* negotiation (its output-ready call turns the reader off and the writer  *)
(* on), the prompt is put in the output buffer and the session is listed. *)
NewConnection(c) ==
    /\ conn[c] = "idle" /\ ~hung
    /\ \/ /\ num >= MaxControllerPorts
          /\ conn' = [conn EXCEPT ![c] = "refused"]
          /\ UNCHANGED <<num, readEn, writeEn, outPending, tnPending>>
       \/ /\ num < MaxControllerPorts
          /\ \/ conn' = [conn EXCEPT ![c] = "refused"]
                /\ UNCHANGED <<num, readEn, writeEn, outPending, tnPending>>
             \/ /\ conn' = [conn EXCEPT ![c] = "open"]
                /\ num' = num + 1
                /\ tnPending' = [tnPending EXCEPT ![c] = TRUE]
                /\ outPending' = [outPending EXCEPT ![c] = TRUE]
                /\ readEn' = [readEn EXCEPT ![c] = FALSE]
                /\ writeEn' = [writeEn EXCEPT ![c] = TRUE]
    /\ UNCHANGED <<inbuf, monId, tcpMon, ports, hung, reads, refLine,
                   refLines, execLines>>

(* controller_read: nothing once in_shutdown; a full inbuf, or a chunk    *)
(* that does not fit, prints "Input line too long" and empties the line;  *)
(* a read or telnet error shuts the session down; else the bytes are      *)
(* appended and edited from read_start, and each \r runs                  *)
(* process_input_line, which may shut the session down.                   *)
ControllerRead(c) ==
    /\ conn[c] = "open" /\ readEn[c] /\ ~hung /\ reads[c] < MaxReads
    /\ reads' = [reads EXCEPT ![c] = @ + 1]
    /\ \E chunk \in Chunks :
         LET full == Len(inbuf[c]) = InbufSize
             fits == Len(inbuf[c]) + Len(chunk) <= InbufSize
             ed == EditLoop([View(c) EXCEPT !.buf = inbuf[c] \o chunk], c,
                            << >>)
             ref == RefEdit(chunk, refLine[c], << >>)
         IN \/ /\ full \/ ~fits
               /\ Commit(c, [Output(View(c)) EXCEPT !.buf = << >>])
               /\ refLine' = [refLine EXCEPT ![c] = << >>]
               /\ refLines' = [refLines EXCEPT ![c] = << >>]
               /\ execLines' = [execLines EXCEPT ![c] = << >>]
            \/ /\ ~full
               /\ Commit(c, ShutdownController(View(c)))
               /\ UNCHANGED <<refLine, refLines, execLines>>
            \/ /\ fits
               /\ Commit(c, ed.st)
               /\ execLines' = [execLines EXCEPT ![c] = ed.lines]
               /\ refLine' = [refLine EXCEPT ![c] = ref.line]
               /\ refLines' = [refLines EXCEPT ![c] = ref.lines]
    /\ UNCHANGED <<num, tnPending, ports>>

(* controller_write_ready: queued telnet commands go first and a partial  *)
(* write of them returns; then the output buffer is written (EAGAIN or a  *)
(* partial write keeps it); when it is empty the buffer is freed, the    *)
(* reader turned on and the writer off.  A write error shuts the session  *)
(* down.  How much the socket takes is the environment's choice; a write  *)
(* that changes nothing here (EAGAIN) is a stuttering step.               *)
WriteReadyGuard(c) == conn[c] = "open" /\ writeEn[c] /\ ~hung

WriteReadyErr(c) ==
    /\ WriteReadyGuard(c)
    /\ Commit(c, ShutdownController(View(c)))
    /\ UNCHANGED <<num, tnPending, ports, reads, refLine, refLines, execLines>>

\* The telnet commands are all written, the output buffer only in part.
WriteReadyPart(c) ==
    /\ WriteReadyGuard(c) /\ tnPending[c] /\ outPending[c]
    /\ tnPending' = [tnPending EXCEPT ![c] = FALSE]
    /\ UNCHANGED <<conn, num, inbuf, readEn, writeEn, outPending, monId,
                   tcpMon, ports, hung, reads, refLine, refLines, execLines>>

WriteReadyAll(c) ==
    /\ WriteReadyGuard(c)
    /\ tnPending' = [tnPending EXCEPT ![c] = FALSE]
    /\ outPending' = [outPending EXCEPT ![c] = FALSE]
    /\ readEn' = [readEn EXCEPT ![c] = TRUE]
    /\ writeEn' = [writeEn EXCEPT ![c] = FALSE]
    /\ UNCHANGED <<conn, num, inbuf, monId, tcpMon, ports, hung, reads,
                   refLine, refLines, execLines>>

WriteReady(c) == WriteReadyErr(c) \/ WriteReadyPart(c) \/ WriteReadyAll(c)

\* Mutant: the session is unlinked without num_controller_ports--.
CloseDoneNoDecrement(c) ==
    /\ conn[c] = "closing" /\ ~hung
    /\ conn' = [conn EXCEPT ![c] = "closed"]
    /\ UNCHANGED <<num, inbuf, readEn, writeEn, outPending, tnPending, monId,
                   tcpMon, ports, hung, reads, refLine, refLines, execLines>>

(* controller_close_done, when genio_close completes: the session leaves  *)
(* the controllers list and num_controller_ports drops.                   *)
CloseDone(c) ==
    /\ conn[c] = "closing" /\ ~hung
    /\ conn' = [conn EXCEPT ![c] = "closed"]
    /\ num' = num - 1
    /\ UNCHANGED <<inbuf, readEn, writeEn, outPending, tnPending, monId,
                   tcpMon, ports, hung, reads, refLine, refLines, execLines>>

\* A port structure not yet in use, to replace one of the same name.
Fresh(id) == {n \in PortIds \ Listed : NameOf[n] = NameOf[id]
                                      /\ \A c \in Conns : monId[c] # n}

(* The port life cycle frees port structures (PortLifecycle):             *)
(* switchout_port puts a new structure with the same name in the list and  *)
(* frees the old one, whose monitor slots go with it; finish_shutdown_port *)
(* unlinks and frees a deleted port.  monitor_port_id is left pointing at  *)
(* the freed structure.                                                    *)
PortReplaced(id) ==
    /\ id \in Listed /\ ~hung
    /\ \E n \in Fresh(id) :
         /\ ports' = [k \in DOMAIN ports |-> IF ports[k] = id THEN n
                                             ELSE ports[k]]
         /\ tcpMon' = [tcpMon EXCEPT ![n] = NoConn]
    /\ UNCHANGED <<conn, num, inbuf, readEn, writeEn, outPending, tnPending,
                   monId, hung, reads, refLine, refLines, execLines>>

PortFreed(id) ==
    /\ id \in Listed /\ ~hung
    /\ ports' = SelectSeq(ports, LAMBDA x : x # id)
    /\ UNCHANGED <<conn, num, inbuf, readEn, writeEn, outPending, tnPending,
                   monId, tcpMon, hung, reads, refLine, refLines, execLines>>

-----------------------------------------------------------------------------
Init ==
    /\ conn = [c \in Conns |-> "idle"] /\ num = 0
    /\ inbuf = [c \in Conns |-> << >>]
    /\ readEn = [c \in Conns |-> FALSE] /\ writeEn = [c \in Conns |-> FALSE]
    /\ outPending = [c \in Conns |-> FALSE]
    /\ tnPending = [c \in Conns |-> FALSE]
    /\ monId = [c \in Conns |-> NoPort]
    /\ tcpMon = [id \in PortIds |-> NoConn]
    /\ ports = InitPorts /\ hung = FALSE
    /\ reads = [c \in Conns |-> 0]
    /\ refLine = [c \in Conns |-> << >>]
    /\ refLines = [c \in Conns |-> << >>]
    /\ execLines = [c \in Conns |-> << >>]

Next ==
    \/ \E c \in Conns : NewConnection(c) \/ ControllerRead(c)
                        \/ WriteReady(c) \/ CloseDone(c)
    \/ \E id \in PortIds : PortReplaced(id) \/ PortFreed(id)

(* The selector calls a ready handler: the peer eventually reads all of  *)
(* a session's output, and genio_close completes.                         *)
Fairness == \A c \in Conns : WF_vars(WriteReadyAll(c)) /\ WF_vars(CloseDone(c))

Spec == Init /\ [][Next]_vars /\ Fairness
-----------------------------------------------------------------------------
(* The session count: num_controller_ports is the number of sessions in  *)
(* the controllers list (accepted and not yet through                      *)
(* controller_close_done), so the limit of max_controller_ports holds for  *)
(* the sessions that really exist.                                         *)
ControllerCountMatches == num = Cardinality(Live)

(* The line editor of controller_read (remove_chars, the backspace and    *)
(* \r cases, the copy of what follows a \r to the front of inbuf) hands   *)
(* process_input_line exactly the lines the user typed, each edited as     *)
(* the spec's line editor says, and keeps the unfinished line in inbuf    *)
(* across reads; only a session that was shut down, or a stuck event      *)
(* loop, may leave the rest of its input unprocessed.                     *)
LinesAsTyped ==
    \A c \in Conns :
        \/ execLines[c] = refLines[c] /\ inbuf[c] = refLine[c]
        \/ /\ conn[c] # "open" \/ hung
           /\ execLines[c] = SubSeq(refLines[c], 1, Len(execLines[c]))

(* Monitor back-references are weak: a port's tcp_monitor names a session *)
(* that is still open (shutdown_controller stops the session's monitor    *)
(* before the session goes away), so the data tee never writes to a      *)
(* closed control connection.                                              *)
MonitorSlotLive ==
    \A id \in Listed : tcpMon[id] # NoConn => conn[tcpMon[id]] = "open"

(* data_monitor_stop returns: a "monitor stop" command, or the exit of a  *)
(* monitoring session, never leaves the event loop spinning.  The spec    *)
(* says that stopping a monitor whose port no longer exists is a no-op.   *)
MonitorStopReturns == ~hung
====
