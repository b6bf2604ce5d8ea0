----------------------------- MODULE PortSession -----------------------------
(***************************************************************************)
(* One connected port in both directions (dataxfer.c).  DevToTcp is the    *)
(* device-to-TCP half; this module adds the TCP-to-device half and the     *)
(* tail of the session: handle_tcp_fd_read with its telnet decoding and    *)
(* its write to the device, the device write handler in its three forms    *)
(* (normal, open string, close string), and the shutdown steps            *)
(* port_tcp_fd_cleared, shutdown_port2 and finish_shutdown_port.  The two *)
(* halves share the telnet command queue (a peer's option request is      *)
(* answered through telnet_output_ready), the activity timer (a relay in   *)
(* either direction resets it) and the port state (either half may shut   *)
(* the port down).                                                         *)
(*                                                                         *)
(* tcp_to_dev is kept as the sequence of bytes still to be written to the  *)
(* device, buf[pos .. pos+cursize): handle_tcp_fd_read sets pos = 0 and    *)
(* reads over buf, so what it held before is gone.  Peer bytes are "c" and *)
(* "d" (raw), or "c", IAC and "N" (telnet, where IAC "N" asks for a        *)
(* reply).  The banner, open-string and close-string templates are       *)
(* expanded by process_str_to_buf (ProcessStr).                            *)
(***************************************************************************)
EXTENDS DevToTcp, ProcessStr

CONSTANTS
    PeerInputs,     \* the byte sequences the peer may send
    TMaxSize,       \* port->tcp_to_dev.maxsize
    OpenStr,        \* port->openstr, << >> when not configured
    CloseStr,       \* port->closestr, << >> when not configured
    DevShortWrites, \* the device may accept only part of a write
    BannerStr,      \* port->bannerstr, << >> when not configured
    StrCtx,         \* the context of an expansion (see ProcessStr)
    IpOutcomes      \* what one \I expansion may emit (getnameinfo's outcomes)

ASSUME TMaxSize \in Nat \ {0} /\ DevShortWrites \in BOOLEAN

\* The states of the session's end: the TCP handlers are being cleared
\* (open), port_tcp_fd_cleared has queued shutdown_port2 (cleared), the
\* close string is being written (closestr), finish_shutdown_port ran.
Fins == {"open", "cleared", "closestr", "finished"}

VARIABLES
    netq,        \* bytes the peer has sent and the port not yet read
    peerEof,     \* the peer has closed (or reset) the connection
    got,         \* ghost: every byte read from the peer, in order
    tbuf,        \* tcp_to_dev: the bytes still to be written to the device
    tcpReadEn,   \* the TCP read handler is enabled
    devWriteEn,  \* the device write handler is enabled
    devHandler,  \* port->dev_write_handler
    devstr,      \* port->devstr: what is left of the open or close string
    cmdPos,      \* the telnet parser's command position (0, or 1 after IAC)
    devWire,     \* bytes written to the device, in order
    tstate,      \* tcp_to_dev_state
    fin,         \* how far the shutdown has got
    banner,      \* port->banner: what is left of the banner
    tcpHandler,  \* port->tcp_write_handler: "banner" or "normal"
    bannerOut    \* ghost: the banner bytes written to the peer, in order

svars == <<netq, peerEof, got, tbuf, tcpReadEn, devWriteEn, devHandler,
           devstr, cmdPos, devWire, tstate, fin, banner, tcpHandler,
           bannerOut>>
allvars == <<vars, svars>>
bvars == <<banner, tcpHandler, bannerOut>>

PeerBytes == {"c", "d", IAC, "N"}

(* process_str_to_buf(port, str): NULL without a template, else one of    *)
(* the buffers its two passes can produce.                                 *)
Expanded(str) == {ProcessStrToBuf(str, StrCtx, i1, i2) : i1, i2 \in IpOutcomes}

\* The bytes the expansions of a template are made of.
BytesOf(str) == UNION {Range(e) : e \in Expanded(str)}
OpenBytes == BytesOf(OpenStr)
CloseBytes == BytesOf(CloseStr)
BannerBytes == BytesOf(BannerStr)

SessionTypeOK ==
    /\ TypeOKWith(BannerBytes)
    /\ netq \in Seq(PeerBytes) /\ got \in Seq(PeerBytes)
    /\ peerEof \in BOOLEAN /\ tcpReadEn \in BOOLEAN /\ devWriteEn \in BOOLEAN
    /\ tbuf \in Seq(PeerBytes) /\ Len(tbuf) <= TMaxSize
    /\ devHandler \in {"normal", "devstr", "close"}
    /\ devstr \in Seq(OpenBytes \cup CloseBytes) /\ cmdPos \in {0, 1}
    /\ devWire \in Seq(PeerBytes \cup OpenBytes \cup CloseBytes)
    /\ tstate \in {WaitingInput, WaitingOutput} /\ fin \in Fins
    /\ banner \in Seq(BannerBytes) /\ tcpHandler \in {"banner", "normal"}
    /\ bannerOut \in Seq(BannerBytes)

-----------------------------------------------------------------------------
\* Mutant: IAC IAC is passed on as two data bytes.
RECURSIVE ProcessTelnetNoUnescape(_, _)
ProcessTelnetNoUnescape(in, cpos) ==
    IF in = << >> THEN [data |-> << >>, cpos |-> cpos, cmds |-> 0]
    ELSE LET b == Head(in)
             r == ProcessTelnetNoUnescape(Tail(in),
                                          IF cpos = 0 /\ b = IAC THEN 1 ELSE 0)
         IN CASE cpos = 0 /\ b # IAC -> [r EXCEPT !.data = <<b>> \o @]
              [] cpos = 1 /\ b = IAC -> [r EXCEPT !.data = <<IAC, IAC>> \o @]
              [] cpos = 1 /\ b = "N" -> [r EXCEPT !.cmds = @ + 1]
              [] OTHER              -> r

(* The telnet codec's process() on the bytes just read, from command      *)
(* position cpos: IAC IAC is a data byte 0xFF, IAC "N" a request the       *)
(* option table answers (one reply queued), IAC and any other byte a      *)
(* command with no reply.  A trailing IAC leaves the position at 1 for    *)
(* the next read.                                                         *)
RECURSIVE ProcessTelnet(_, _)
ProcessTelnet(in, cpos) ==
    IF in = << >> THEN [data |-> << >>, cpos |-> cpos, cmds |-> 0]
    ELSE LET b == Head(in)
             r == ProcessTelnet(Tail(in),
                                IF cpos = 0 /\ b = IAC THEN 1 ELSE 0)
         IN CASE cpos = 0 /\ b # IAC -> [r EXCEPT !.data = <<b>> \o @]
              [] cpos = 1 /\ b = IAC -> [r EXCEPT !.data = <<IAC>> \o @]
              [] cpos = 1 /\ b = "N" -> [r EXCEPT !.cmds = @ + 1]
              [] OTHER              -> r

\* The replies queued for n requests.
Replies(n) == FlattenSeq([i \in 1..n |-> TnCmd])

\* What buffer_io_write or the device's write may accept of n bytes.
DevAccepts(n) == IF DevShortWrites THEN 0..n ELSE {n}

(* finish_shutdown_port: the device is shut down, so none of its handlers *)
(* run again; the buffer resets that follow are not read by this session. *)
Finish == fin' = "finished" /\ devWriteEn' = FALSE

-----------------------------------------------------------------------------
\* Mutant: a short write does not record pos = count.
TcpToDevWriteNoPos(d) ==
    \/ /\ Shutdown /\ tbuf' = d
       /\ UNCHANGED <<devWire, tcpReadEn, devWriteEn, tstate, timeoutLeft>>
    \/ \E k \in DevAccepts(Len(d)) :
          /\ devWire' = devWire \o SubSeq(d, 1, k)
          /\ tbuf' = IF k < Len(d) THEN SubSeq(d, 1, Len(d) - k) ELSE << >>
          /\ IF k < Len(d)
             THEN tcpReadEn' = FALSE /\ devWriteEn' = TRUE
                  /\ tstate' = WaitingOutput
             ELSE UNCHANGED <<tcpReadEn, devWriteEn, tstate>>
          /\ ResetTimer /\ UNCHANGED state

\* Mutant: a short write leaves the device write handler off.
TcpToDevWriteNoWriter(d) ==
    \/ /\ Shutdown /\ tbuf' = d
       /\ UNCHANGED <<devWire, tcpReadEn, devWriteEn, tstate, timeoutLeft>>
    \/ \E k \in DevAccepts(Len(d)) :
          /\ devWire' = devWire \o SubSeq(d, 1, k)
          /\ tbuf' = SubSeq(d, k + 1, Len(d))
          /\ IF k < Len(d)
             THEN tcpReadEn' = FALSE /\ UNCHANGED devWriteEn
                  /\ tstate' = WaitingOutput
             ELSE UNCHANGED <<tcpReadEn, devWriteEn, tstate>>
          /\ ResetTimer /\ UNCHANGED state

(* The write at the end of handle_tcp_fd_read of the decoded bytes d: an  *)
(* error shuts the port down; otherwise the bytes the device takes are     *)
(* written and, if some are left (a short write, or EAGAIN when none is    *)
(* taken), the TCP reader is turned off, the device writer on and the     *)
(* half waits for output; then reset_timer.                                *)
TcpToDevWrite(d) ==
    \/ /\ Shutdown /\ tbuf' = d
       /\ UNCHANGED <<devWire, tcpReadEn, devWriteEn, tstate, timeoutLeft>>
    \/ \E k \in DevAccepts(Len(d)) :
          /\ devWire' = devWire \o SubSeq(d, 1, k)
          /\ tbuf' = SubSeq(d, k + 1, Len(d))
          /\ IF k < Len(d)
             THEN tcpReadEn' = FALSE /\ devWriteEn' = TRUE
                  /\ tstate' = WaitingOutput
             ELSE UNCHANGED <<tcpReadEn, devWriteEn, tstate>>
          /\ ResetTimer /\ UNCHANGED state

(* handle_tcp_fd_read: read up to tcp_to_dev.maxsize bytes from the peer; *)
(* a read of 0 or an error shuts the port down.  In telnet mode the bytes *)
(* go through process_telnet_data, whose replies are queued for the peer  *)
(* (telnet_output_ready); when no data is left, cursize is 0 and it       *)
(* returns, skipping reset_timer.  Otherwise the data is written to the   *)
(* device.  The TCP handlers no longer run once shutdown_port has cleared *)
(* them.                                                                   *)
HandleTcpFdRead ==
    /\ tcpReadEn /\ state # Closing /\ (netq # << >> \/ peerEof)
    /\ IF netq = << >>
       THEN /\ Shutdown
            /\ UNCHANGED <<netq, got, tbuf, cmdPos, devWire, tcpReadEn,
                           devWriteEn, tstate, tnOut, sendingTn, readEn,
                           writeEn, timeoutLeft>>
       ELSE \E n \in 1..(IF Len(netq) < TMaxSize THEN Len(netq) ELSE TMaxSize) :
            LET in == SubSeq(netq, 1, n)
                pt == IF Telnet THEN ProcessTelnet(in, cmdPos)
                      ELSE [data |-> in, cpos |-> cmdPos, cmds |-> 0]
            IN /\ netq' = SubSeq(netq, n + 1, Len(netq))
               /\ got' = got \o in
               /\ cmdPos' = pt.cpos
               /\ IF pt.cmds > 0 THEN OutputReady(Replies(pt.cmds), banner # << >>)
                  ELSE UNCHANGED <<tnOut, sendingTn, readEn, writeEn>>
               /\ IF pt.data = << >>
                  THEN /\ tbuf' = << >>
                       /\ UNCHANGED <<devWire, tcpReadEn, devWriteEn, tstate,
                                      state, timeoutLeft>>
                  ELSE TcpToDevWrite(pt.data)
    /\ UNCHANGED <<peerEof, devHandler, devstr, fin>> /\ UNCHANGED bvars
    /\ UNCHANGED <<devq, consumed, mem, cursize, pos, timerRunning, closePos,
                   closeDone, tnLeft, wire, overrun, hup>>
    /\ UNCHANGED TimeVars
\* The bytes the current device write handler has left to write.
Pending == IF devHandler = "normal" THEN tbuf ELSE devstr

\* buffer_io_write's outcomes for the pending bytes: -1 is an error,
\* otherwise the number of bytes the device took.
WriteOutcomes == {-1} \cup DevAccepts(Len(Pending))

\* Mutant: a drained write does not turn the TCP reader back on.
DevFdWriteNoReader(k) ==
    IF k = -1
    THEN /\ Shutdown
         /\ UNCHANGED <<tbuf, devstr, devWire, tcpReadEn, devWriteEn, tstate,
                        devHandler, timeoutLeft, fin>>
    ELSE LET rest == SubSeq(Pending, k + 1, Len(Pending))
         IN /\ devWire' = devWire \o SubSeq(Pending, 1, k)
            /\ IF devHandler = "normal"
               THEN tbuf' = rest /\ UNCHANGED <<devstr, devHandler>>
               ELSE /\ devstr' = rest /\ UNCHANGED tbuf
                    /\ devHandler' = IF rest = << >> THEN "normal"
                                     ELSE devHandler
            /\ IF rest = << >>
               THEN devWriteEn' = FALSE /\ tstate' = WaitingInput
                    /\ UNCHANGED tcpReadEn
               ELSE UNCHANGED <<tcpReadEn, devWriteEn, tstate>>
            /\ ResetTimer /\ UNCHANGED <<state, fin>>

(* dev_fd_write(port, buf) with outcome k, for the normal handler (buf is *)
(* tcp_to_dev) and for handle_dev_fd_devstr_write (buf is devstr): an     *)
(* error shuts the port down.  Otherwise the k bytes are written; once    *)
(* buf is empty the TCP reader is turned back on, the device writer off   *)
(* and the half waits for input, whatever tcp_to_dev still holds; then    *)
(* reset_timer.  The devstr handler, once devstr is empty, frees it and   *)
(* becomes the normal handler.                                             *)
DevFdWrite(k) ==
    IF k = -1
    THEN /\ Shutdown
         /\ UNCHANGED <<tbuf, devstr, devWire, tcpReadEn, devWriteEn, tstate,
                        devHandler, timeoutLeft, fin>>
    ELSE LET rest == SubSeq(Pending, k + 1, Len(Pending))
         IN /\ devWire' = devWire \o SubSeq(Pending, 1, k)
            /\ IF devHandler = "normal"
               THEN tbuf' = rest /\ UNCHANGED <<devstr, devHandler>>
               ELSE /\ devstr' = rest /\ UNCHANGED tbuf
                    /\ devHandler' = IF rest = << >> THEN "normal"
                                     ELSE devHandler
            /\ IF rest = << >>
               THEN tcpReadEn' = TRUE /\ devWriteEn' = FALSE
                    /\ tstate' = WaitingInput
               ELSE UNCHANGED <<tcpReadEn, devWriteEn, tstate>>
            /\ ResetTimer /\ UNCHANGED <<state, fin>>

\* Mutant: a close string written in full does not finish the shutdown.
CloseWriteNoFinish(k) ==
    /\ IF k = -1 THEN Finish /\ UNCHANGED <<devstr, devWire>>
       ELSE /\ devWire' = devWire \o SubSeq(devstr, 1, k)
            /\ devstr' = SubSeq(devstr, k + 1, Len(devstr))
            /\ UNCHANGED <<fin, devWriteEn>>
    /\ UNCHANGED <<tbuf, tcpReadEn, tstate, devHandler, state, timeoutLeft>>

(* handle_dev_fd_close_write with outcome k: on an error (goto closeit),  *)
(* or once the close string is all written, finish_shutdown_port runs.    *)
CloseWrite(k) ==
    /\ IF k = -1 THEN Finish /\ UNCHANGED <<devstr, devWire>>
       ELSE /\ devWire' = devWire \o SubSeq(devstr, 1, k)
            /\ devstr' = SubSeq(devstr, k + 1, Len(devstr))
            /\ IF k = Len(devstr) THEN Finish
               ELSE UNCHANGED <<fin, devWriteEn>>
    /\ UNCHANGED <<tbuf, tcpReadEn, tstate, devHandler, state, timeoutLeft>>

(* handle_dev_fd_write when the device can take data, with outcome k: the *)
(* installed dev_write_handler runs.  It runs whether or not the port is  *)
(* closing, until finish_shutdown_port shuts the device down.             *)
DevWriteStep(k) ==
    /\ devWriteEn /\ fin # "finished"
    /\ IF devHandler = "close" THEN CloseWrite(k) ELSE DevFdWrite(k)
    /\ UNCHANGED <<netq, peerEof, got, cmdPos>> /\ UNCHANGED bvars
    /\ UNCHANGED <<devq, consumed, mem, cursize, pos, readEn, writeEn,
                   timerRunning, closePos, closeDone, tnOut, sendingTn, tnLeft,
                   wire, overrun, hup>>
    /\ UNCHANGED TimeVars

HandleDevFdWrite == \E k \in WriteOutcomes : DevWriteStep(k)

(* port_tcp_fd_cleared: once shutdown_port's sel_clear_fd_handlers has    *)
(* taken effect, the socket is closed and shutdown_port2 queued.          *)
PortTcpFdCleared ==
    /\ state = Closing /\ fin = "open"
    /\ fin' = "cleared"
    /\ UNCHANGED <<netq, peerEof, got, tbuf, tcpReadEn, devWriteEn,
                   devHandler, devstr, cmdPos, devWire, tstate>>
    /\ UNCHANGED vars /\ UNCHANGED bvars

(* shutdown_port2, after its wait for the activity timer to stop: devstr  *)
(* (an unfinished open string included) is freed and replaced by the      *)
(* expanded close string.  With a close string, the device reader and except       *)
(* handlers are turned off and the close-string writer installed and      *)
(* enabled; without one, finish_shutdown_port runs at once.               *)
ShutdownPort2 ==
    /\ fin = "cleared"
    /\ devstr' \in Expanded(CloseStr)
    /\ IF CloseStr # << >>
       THEN /\ readEn' = FALSE /\ devHandler' = "close" /\ devWriteEn' = TRUE
            /\ fin' = "closestr"
       ELSE Finish /\ UNCHANGED <<readEn, devHandler>>
    /\ UNCHANGED <<netq, peerEof, got, tbuf, tcpReadEn, cmdPos, devWire,
                   tstate>> /\ UNCHANGED bvars
    /\ UNCHANGED <<devq, consumed, mem, cursize, pos, state, writeEn,
                   timerRunning, closePos, closeDone, tnOut, sendingTn, tnLeft,
                   wire, overrun, hup, timeoutLeft>>
    /\ UNCHANGED TimeVars

(* handle_tcp_fd_write_mux with handle_tcp_fd_banner_write installed:    *)
(* tcp_fd_write(port, port->banner), which is tcp_fd_write on dev_to_tcp  *)
(* with the banner as its buffer: the telnet command queue first when     *)
(* sending_tn_data, then the banner; once the banner is written, queued   *)
(* telnet data follows, else the device reader is turned back on, the TCP *)
(* writer off and dev_to_tcp_state set to waiting input, whatever         *)
(* dev_to_tcp still holds, and a pending closeon shuts the port down.     *)
(* When it returns with the banner empty the handler becomes              *)
(* handle_tcp_fd_write.                                                    *)
BannerWrite ==
    /\ writeEn /\ state # Closing /\ tcpHandler = "banner"
    /\ \/ /\ Shutdown
          /\ UNCHANGED <<wire, tnOut, banner, readEn, writeEn, closeDone,
                         sendingTn, timeoutLeft, tcpHandler, bannerOut>>
       \/ \E k1 \in Accepts(Len(tnOut)), k2 \in Accepts(Len(banner)),
             k3 \in Accepts(Len(tnOut)) :
          LET t1 == IF sendingTn THEN k1 ELSE 0
              rest1 == SubSeq(tnOut, t1 + 1, Len(tnOut))
              out1 == SubSeq(tnOut, 1, t1) \o SubSeq(banner, 1, k2)
              left == SubSeq(banner, k2 + 1, Len(banner))
              rest2 == SubSeq(rest1, k3 + 1, Len(rest1))
          IN IF sendingTn /\ rest1 # << >>
             THEN /\ wire' = wire \o SubSeq(tnOut, 1, t1)
                  /\ tnOut' = rest1
                  /\ UNCHANGED <<banner, state, readEn, writeEn, closeDone,
                                 sendingTn, timeoutLeft, tcpHandler, bannerOut>>
             ELSE /\ banner' = left
                  /\ bannerOut' = bannerOut \o SubSeq(banner, 1, k2)
                  /\ tcpHandler' = IF left = << >> THEN "normal" ELSE "banner"
                  /\ IF left # << >>
                     THEN /\ wire' = wire \o out1 /\ tnOut' = rest1
                          /\ ResetTimer
                          /\ UNCHANGED <<state, readEn, writeEn, closeDone,
                                         sendingTn>>
                     ELSE IF rest1 # << >>
                     THEN /\ sendingTn' = TRUE
                          /\ wire' = wire \o out1 \o SubSeq(rest1, 1, k3)
                          /\ tnOut' = rest2
                          /\ IF rest2 = << >>
                             THEN /\ readEn' = TRUE /\ writeEn' = FALSE
                                  /\ closeDone' = FALSE
                                  /\ state' = IF closeDone THEN Closing
                                              ELSE WaitingInput
                                  /\ ResetUnlessClosed
                             ELSE UNCHANGED <<state, readEn, writeEn,
                                              closeDone, timeoutLeft>>
                     ELSE /\ wire' = wire \o out1 /\ tnOut' = rest1
                          /\ readEn' = TRUE /\ writeEn' = FALSE
                          /\ closeDone' = FALSE
                          /\ state' = IF closeDone THEN Closing
                                      ELSE WaitingInput
                          /\ ResetUnlessClosed
                          /\ UNCHANGED sendingTn
    /\ UNCHANGED <<devq, consumed, mem, cursize, pos, timerRunning, closePos,
                   tnLeft, overrun, hup>>
    /\ UNCHANGED TimeVars
    /\ UNCHANGED <<netq, peerEof, got, tbuf, tcpReadEn, devWriteEn,
                   devHandler, devstr, cmdPos, devWire, tstate, fin>>

(* The peer closes the connection once it has sent its bytes; a peer may   *)
(* also stay connected and silent.                                         *)
PeerClose ==
    /\ netq = << >> /\ ~peerEof /\ state # Closing
    /\ peerEof' = TRUE
    /\ UNCHANGED <<netq, got, tbuf, tcpReadEn, devWriteEn, devHandler, devstr,
                   cmdPos, devWire, tstate, fin>>
    /\ UNCHANGED vars /\ UNCHANGED bvars

-----------------------------------------------------------------------------
(* setup_tcp_port: the device-to-TCP half starts as in DevToTcp; the open *)
(* string, if any, is installed as devstr with its writer enabled, and the *)
(* TCP reader is enabled at once; so is the device reader, while the      *)
(* banner, if any, is still to be written.                                 *)
SessionInit ==
    /\ banner \in Expanded(BannerStr)
    /\ InitWith(BannerStr # << >>, banner # << >>)
    /\ tcpHandler = IF BannerStr # << >> THEN "banner" ELSE "normal"
    /\ bannerOut = << >>
    /\ netq \in PeerInputs /\ peerEof = FALSE /\ got = << >> /\ tbuf = << >>
    /\ tcpReadEn = TRUE /\ devWriteEn = (OpenStr # << >>)
    /\ devHandler = IF OpenStr # << >> THEN "devstr" ELSE "normal"
    /\ devstr \in Expanded(OpenStr) /\ cmdPos = 0 /\ devWire = << >>
    /\ tstate = WaitingInput /\ fin = "open"

\* A handler of this half, with the ghosts' update: a byte written to the
\* peer or to the device is a relay that the activity timeout measures.
SHandled(A) ==
    /\ A /\ waitAge' = AgeAfterStep
    /\ idleAge' = IF Len(wire') > Len(wire) \/ Len(devWire') > Len(devWire)
                  THEN 0 ELSE idleAge

\* A handler of the device-to-TCP half, which leaves this half alone.
DStep(A) == Handled(A) /\ UNCHANGED svars

\* handle_tcp_fd_write_mux with handle_tcp_fd_write installed.
NormalTcpWrite == tcpHandler = "normal" /\ HandleTcpFdWrite

\* The device-to-TCP handlers, with the TCP writer as installed.
SessionStep == \/ HandleDevFdRead \/ SendTimeout \/ NormalTcpWrite
               \/ TelnetOutputReady(banner # << >>) \/ DevHangup \/ GotTimeout

SessionNext ==
    \/ Tick /\ UNCHANGED svars
    \/ DStep(SessionStep)
    \/ SHandled(BannerWrite)
    \/ SHandled(HandleTcpFdRead) \/ SHandled(HandleDevFdWrite)
    \/ SHandled(PortTcpFdCleared) \/ SHandled(ShutdownPort2)
    \/ SHandled(PeerClose)

(* Besides the fairness of DevToTcp: the TCP reader runs while the peer   *)
(* has bytes or has closed; the device, like the peer, eventually takes   *)
(* some of a pending write, and a handler with nothing left to write runs *)
(* (a wake-up that writes nothing, or an error, is not owed); the reactor *)
(* runs the cleared callback and shutdown_port2.  The peer's close owes   *)
(* nothing.                                                                *)
SessionFairness ==
    /\ WF_allvars(DStep(HandleDevFdRead))
    /\ WF_allvars(DStep(SendTimeout))
    /\ WF_allvars(DStep(NormalTcpWrite) /\ wire' # wire)
    /\ WF_allvars(SHandled(BannerWrite) /\ wire' # wire)
    /\ WF_allvars(DStep(GotTimeout))
    /\ WF_allvars(Tick /\ UNCHANGED svars)
    /\ WF_allvars(SHandled(HandleTcpFdRead))
    /\ WF_allvars(\E k \in DevAccepts(Len(Pending)) :
                     (k > 0 \/ Pending = << >>) /\ SHandled(DevWriteStep(k)))
    /\ WF_allvars(SHandled(PortTcpFdCleared))
    /\ WF_allvars(SHandled(ShutdownPort2))

SessionSpec == SessionInit /\ [][SessionNext]_allvars /\ SessionFairness

-----------------------------------------------------------------------------
(* Properties.                                                             *)

\* What the device should receive of the peer's bytes.
PeerExpected == IF Telnet THEN TelnetData(got) ELSE got

IsPeerByte(b) == b \in PeerBytes

(* Byte fidelity towards the device: the peer's bytes reach the device   *)
(* each once and in order (handle_tcp_fd_read, dev_fd_write), whatever    *)
(* short writes, telnet decoding or the open string do, and nothing but   *)
(* close string follows the first byte of the close string               *)
(* (shutdown_port2, handle_dev_fd_close_write).                            *)
DeviceReceivesPeerBytes ==
    /\ IsPrefix(SelectSeq(devWire, IsPeerByte), PeerExpected)
    /\ \A i, j \in 1..Len(devWire) :
          i < j /\ devWire[i] \in CloseBytes => devWire[j] \in CloseBytes

(* Peer data read from the socket is written to the device: a non-empty   *)
(* tcp_to_dev is eventually emptied, or the port shuts down               *)
(* (handle_tcp_fd_read, dev_fd_write).                                     *)
PeerBytesWritten == (tbuf # << >>) ~> (tbuf = << >> \/ state = Closing)

(* The banner comes first, as configured: the data the peer reads          *)
(* (telnet commands such as the initial negotiation are not data) is a    *)
(* prefix of the banner template's expansion, as the specification's      *)
(* escape table gives it, or begins with all of it (process_str,          *)
(* process_str_to_buf, setup_tcp_port, handle_tcp_fd_banner_write,        *)
(* against handle_dev_fd_read's direct send).  setup_tcp_port enables the *)
(* device reader while the banner is pending, in raw and in telnet mode,  *)
(* so the code does not keep this; it is checked by reproduction cfgs.    *)
BannerFirst ==
    LET d == IF Telnet THEN TelnetData(wire) ELSE wire
        b == SpecStr(BannerStr, StrCtx, FALSE)
    IN IsPrefix(d, b) \/ IsPrefix(b, d)

(* The banner is written as the specification's escape table expands its *)
(* template: the banner bytes the peer has been sent are a prefix of that *)
(* expansion, and all of it once handle_tcp_fd_banner_write hands over to  *)
(* handle_tcp_fd_write (process_str's two passes in process_str_to_buf at  *)
(* setup_tcp_port, then tcp_fd_write's partial writes of the banner).      *)
BannerAsSpecified ==
    LET b == SpecStr(BannerStr, StrCtx, FALSE)
    IN /\ IsPrefix(bannerOut, b)
       /\ tcpHandler = "normal" => bannerOut = b

(* Refinement: the session is a BytePipe.  The peer's stream is what it  *)
(* has sent, read or not, as telnet data; the device's is what it has     *)
(* produced, cut after the closeon string; what the device received of   *)
(* the peer's data and what the peer reads as device data are the two    *)
(* delivered prefixes; the pipe closes with shutdown_port.                 *)
PeerStream == IF Telnet THEN TelnetData(got \o netq) ELSE got \o netq

\* The device's stream, and the peer's data the device has received.
DevStream == Expected(consumed \o devq)
DevReceived == SelectSeq(devWire, IsPeerByte)

Pipe == INSTANCE BytePipe
            WITH fromPeer <- PeerStream,
                 fromDev <- DevStream,
                 toDev <- DevReceived,
                 toPeer <- PeerData,
                 open <- state # Closing

(* The two data paths together behave as BytePipe: both directions keep   *)
(* their bytes in order, and while the port is open every byte one end    *)
(* has sent eventually reaches the other (handle_tcp_fd_read,             *)
(* dev_fd_write, handle_dev_fd_read, handle_tcp_send, tcp_fd_write and    *)
(* the handler enables by which each direction hands over to the other).  *)
PipeSpec == Pipe!Spec

(* A shutdown completes: once the port is closing, finish_shutdown_port  *)
(* eventually runs, after the close string is written                     *)
(* (port_tcp_fd_cleared, shutdown_port2, handle_dev_fd_close_write).      *)
SessionFinishes == (state = Closing) ~> (fin = "finished")

=============================================================================
