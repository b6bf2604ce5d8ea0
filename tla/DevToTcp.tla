------------------------------ MODULE DevToTcp ------------------------------
(***************************************************************************)
(* The device-to-TCP half of one connected port (dataxfer.c): the device   *)
(* read handler handle_dev_fd_read with its closeon scan, in-place IAC     *)
(* doubling and chardelay batching; handle_tcp_send and the send timer     *)
(* (send_timeout); the TCP write handler tcp_fd_write that drains a short  *)
(* write and the telnet command queue; and telnet_output_ready, called     *)
(* when the telnet code queues a command for the peer.                     *)
(*                                                                         *)
(* The buffer dev_to_tcp is modelled as the code indexes it: a function    *)
(* from 0..MaxSize-1 to bytes with cursize and pos.  Bytes are "a", "b"    *)
(* (ordinary) and "I" (0xFF, telnet IAC); a telnet command queued for the  *)
(* peer is the two bytes IAC, "W".  Time is counted in units of 1/USec    *)
(* second (USec stands for the code's 1000000) and only while chardelay  *)
(* is on, the only path here that reads the clock.  Timevals are kept     *)
(* relative to the current second, so the state stays finite.  The send   *)
(* timer fires when the clock reaches its deadline.  The session ends      *)
(* (Closing) at the first shutdown_port; PortLifecycle models what        *)
(* follows.                                                                *)
(***************************************************************************)
EXTENDS Naturals, Sequences, SequencesExt

CONSTANTS
    Telnet,      \* port->enabled == PORT_TELNET (else raw)
    Chardelay,   \* port->chardelay, in time units (0: off)
    ChardelayMax, \* port->chardelay_max, in time units
    USec,        \* time units per second (1000000 in the code)
    Timeouts,    \* the values of port->timeout used, in seconds (0: none)
    MaxSize,     \* port->dev_to_tcp.maxsize
    Inputs,      \* the byte sequences the device may produce
    CloseOn,     \* port->closeon, <<>> when not configured
    TnCmdMax,    \* bound on telnet commands the peer's traffic provokes
    ShortWrites  \* the TCP socket may accept only part of a write

ASSUME MaxSize \in Nat \ {0} /\ TnCmdMax \in Nat
ASSUME Telnet \in BOOLEAN /\ ShortWrites \in BOOLEAN
ASSUME Chardelay \in Nat /\ ChardelayMax \in Nat /\ USec \in Nat \ {0}
ASSUME Timeouts \subseteq Nat /\ Timeouts # {}

IAC == "I"
TnCmd == <<IAC, "W">>
Garbage == "?"                      \* a buffer slot never written
Bytes == {"a", "b", IAC}

\* dev_to_tcp_state while the session lasts.
WaitingInput == "waiting input"
WaitingOutput == "waiting output"
Closing == "closing"

VARIABLES
    devq,         \* bytes the device has yet to deliver
    consumed,     \* ghost: every byte read from the device, in order
    mem,          \* dev_to_tcp.buf
    cursize,      \* dev_to_tcp.cursize
    pos,          \* dev_to_tcp.pos
    state,        \* dev_to_tcp_state
    readEn,       \* the device read handler is enabled
    writeEn,      \* the TCP write handler is enabled
    timerRunning, \* send_timer_running (the send timer is armed)
    closePos,     \* closeon_pos
    closeDone,    \* close_on_output_done
    tnOut,        \* tn_data.out_telnet_cmd
    sendingTn,    \* sending_tn_data
    tnLeft,       \* telnet commands the peer may still provoke
    wire,         \* bytes written to the TCP socket, in order
    overrun,      \* a write to dev_to_tcp.buf beyond maxsize happened
    hup,          \* the device has hung up: its reads return 0
    nowUs,        \* the clock's tv_usec; its tv_sec is taken as 0
    sendTime,     \* send_time, a timeval relative to the current second
    timerLeft,    \* time units until the armed send timer's deadline
    waitAge,      \* ghost: how long the buffered bytes have waited for a
                  \* send while the port waits for input, -1 if none wait
    timeout,      \* port->timeout, fixed for the session
    timeoutLeft,  \* port->timeout_left
    actLeft,      \* time units until the 1-Hz activity timer fires
    idleAge       \* ghost: time since a byte was last written to the peer

vars == <<devq, consumed, mem, cursize, pos, state, readEn, writeEn,
          timerRunning, closePos, closeDone, tnOut, sendingTn, tnLeft, wire,
          overrun, hup, nowUs, sendTime, timerLeft, waitAge, timeout,
          timeoutLeft, actLeft, idleAge>>

\* What a timeval denotes: the deadline the selector compares with the clock.
TvValue(tv) == tv.sec * USec + tv.usec

\* Age beyond which the waiting time is no longer counted.
AgeCap == ChardelayMax + 1
IdleCap == timeout * USec

\* With extra the bytes that other writers put on the wire.
TypeOKWith(extra) ==
    /\ devq \in Seq(Bytes) /\ consumed \in Seq(Bytes)
    /\ mem \in [0..MaxSize-1 -> Bytes \cup {Garbage}]
    /\ cursize \in 0..MaxSize /\ pos \in 0..MaxSize
    /\ state \in {WaitingInput, WaitingOutput, Closing}
    /\ readEn \in BOOLEAN /\ writeEn \in BOOLEAN /\ timerRunning \in BOOLEAN
    /\ closePos \in 0..Len(CloseOn) /\ closeDone \in BOOLEAN
    /\ tnOut \in Seq({IAC, "W"}) /\ sendingTn \in BOOLEAN
    /\ tnLeft \in 0..TnCmdMax
    /\ wire \in Seq(Bytes \cup {"W", Garbage} \cup extra)
    /\ overrun \in BOOLEAN /\ hup \in BOOLEAN
    /\ nowUs \in 0..USec-1 /\ sendTime \in [sec : Int, usec : Nat]
    /\ timerLeft \in Nat /\ waitAge \in -1..AgeCap
    /\ timeout \in Timeouts /\ timeoutLeft \in -1..timeout
    /\ actLeft \in 0..USec /\ idleAge \in 0..IdleCap

TypeOK == TypeOKWith({})

-----------------------------------------------------------------------------
(* Buffer access.  A slot past maxsize is outside the allocation: reading  *)
(* it yields garbage and writing it is an overrun (recorded by the caller). *)
Get(m, i) == IF i < MaxSize THEN m[i] ELSE Garbage
Put(m, i, v) == IF i < MaxSize THEN [m EXCEPT ![i] = v] ELSE m

\* The bytes buf[from .. from+n-1].
Slice(m, from, n) == [k \in 1..n |-> Get(m, from + k - 1)]

\* buf[start+k] = bytes[k+1] for the bytes just read.
RECURSIVE Store(_, _, _)
Store(m, start, bytes) ==
    IF bytes = << >> THEN m
    ELSE Store(Put(m, start, Head(bytes)), start + 1, Tail(bytes))

\* Mutant: telnet reads do not leave half the room for doubled IACs.
ReadRoomNoHalf(curend) == MaxSize - curend

\* How many bytes handle_dev_fd_read asks the device for: in telnet mode
\* half the free space, leaving room for the doubled IACs.
ReadRoom(curend) ==
    IF Telnet THEN (MaxSize - curend) \div 2 ELSE MaxSize - curend

\* Mutant: the full-match test is off by one, so a match never completes.
RECURSIVE CloseonScanOffByOne(_, _, _, _)
CloseonScanOffByOne(m, i, count, cpos) ==
    IF i >= count THEN [count |-> count, cpos |-> cpos, done |-> FALSE]
    ELSE IF cpos < Len(CloseOn) /\ Get(m, i) = CloseOn[cpos + 1]
         THEN IF cpos + 1 > Len(CloseOn)
              THEN [count |-> i + 1, cpos |-> cpos + 1, done |-> TRUE]
              ELSE CloseonScanOffByOne(m, i + 1, count, cpos + 1)
         ELSE CloseonScanOffByOne(m, i + 1, count, 0)

\* Mutant: a mismatch does not restart the match (closeon_pos = 0 dropped).
RECURSIVE CloseonScanNoReset(_, _, _, _)
CloseonScanNoReset(m, i, count, cpos) ==
    IF i >= count THEN [count |-> count, cpos |-> cpos, done |-> FALSE]
    ELSE IF cpos < Len(CloseOn) /\ Get(m, i) = CloseOn[cpos + 1]
         THEN IF cpos + 1 >= Len(CloseOn)
              THEN [count |-> i + 1, cpos |-> cpos + 1, done |-> TRUE]
              ELSE CloseonScanNoReset(m, i + 1, count, cpos + 1)
         ELSE CloseonScanNoReset(m, i + 1, count, cpos)

(* The closeon scan of handle_dev_fd_read: for (i = 0; i < count; i++)    *)
(* compare buf[i] with closeon[closeon_pos]; on a full match truncate     *)
(* count to i + 1 and set close_on_output_done; on a mismatch restart     *)
(* the match at 0.                                                        *)
RECURSIVE CloseonScan(_, _, _, _)
CloseonScan(m, i, count, cpos) ==
    IF i >= count THEN [count |-> count, cpos |-> cpos, done |-> FALSE]
    ELSE IF cpos < Len(CloseOn) /\ Get(m, i) = CloseOn[cpos + 1]
         THEN IF cpos + 1 >= Len(CloseOn)
              THEN [count |-> i + 1, cpos |-> cpos + 1, done |-> TRUE]
              ELSE CloseonScan(m, i + 1, count, cpos + 1)
         ELSE CloseonScan(m, i + 1, count, 0)

\* for (j = count; j > i; j--) buf[j+1] = buf[j];
RECURSIVE ShiftUp(_, _, _)
ShiftUp(m, j, i) ==
    IF j <= i THEN m ELSE ShiftUp(Put(m, j + 1, Get(m, j)), j - 1, i)

\* Mutant: the loop does not step over the IAC it inserted.
RECURSIVE DoubleIACsNoSkip(_, _, _, _)
DoubleIACsNoSkip(m, i, count, over) ==
    IF i >= count THEN [m |-> m, count |-> count, over |-> over]
    ELSE IF Get(m, i) = IAC
         THEN DoubleIACsNoSkip(Put(ShiftUp(m, count, i), i + 1, IAC), i + 1,
                               count + 1, over \/ count + 1 >= MaxSize)
         ELSE DoubleIACsNoSkip(m, i + 1, count, over)

\* Mutant: the shifted slot is not overwritten with the second IAC.
RECURSIVE DoubleIACsNoInsert(_, _, _, _)
DoubleIACsNoInsert(m, i, count, over) ==
    IF i >= count THEN [m |-> m, count |-> count, over |-> over]
    ELSE IF Get(m, i) = IAC
         THEN DoubleIACsNoInsert(ShiftUp(m, count, i), i + 2,
                                 count + 1, over \/ count + 1 >= MaxSize)
         ELSE DoubleIACsNoInsert(m, i + 1, count, over)

(* The IAC doubling loop: for each buf[i] == 255 (i < count) shift the    *)
(* rest up by one, count++, i++, buf[i] = 255.  The shift moves buf[j]   *)
(* for j up to count, one slot past the data, into buf[count+1].          *)
RECURSIVE DoubleIACs(_, _, _, _)
DoubleIACs(m, i, count, over) ==
    IF i >= count THEN [m |-> m, count |-> count, over |-> over]
    ELSE IF Get(m, i) = IAC
         THEN DoubleIACs(Put(ShiftUp(m, count, i), i + 1, IAC), i + 2,
                         count + 1, over \/ count + 1 >= MaxSize)
         ELSE DoubleIACs(m, i + 1, count, over)

-----------------------------------------------------------------------------
(* Time arithmetic.                                                        *)

\* while (usec >= 1000000) { usec -= 1000000; tv->tv_sec += 1; }
RECURSIVE CarrySeconds(_, _)
CarrySeconds(sec, usec) ==
    IF usec >= USec THEN CarrySeconds(sec + 1, usec - USec) ELSE sec

(* add_usec_to_timeval: tv_usec grows by the whole of usec, and tv_sec by  *)
(* one for every full second in usec; tv_usec is not reduced.             *)
AddUsecToTimeval(tv, usec) ==
    [sec |-> CarrySeconds(tv.sec, usec), usec |-> tv.usec + usec]

\* while (dest.tv_usec < 0) { dest.tv_usec += 1000000; dest.tv_sec--; }
RECURSIVE Borrow(_, _)
Borrow(sec, usec) == IF usec < 0 THEN Borrow(sec - 1, usec + USec)
                     ELSE [sec |-> sec, usec |-> usec]

(* sub_timeval_us: the difference left - right in microseconds.           *)
SubTimevalUs(left, right) ==
    TvValue(Borrow(left.sec - right.sec, left.usec - right.usec))

\* The clock, the timers and the timeout setting.
TimeVars == <<nowUs, sendTime, timerLeft, actLeft, timeout>>

\* Mutant: reset_timer leaves timeout_left alone.
ResetTimerNoop == UNCHANGED timeoutLeft

\* reset_timer: timeout_left = timeout.
ResetTimer == timeoutLeft' = timeout

(* The reset_timer after handle_dev_fd_read's send_it and at the end of   *)
(* tcp_fd_write.  It is skipped when the write failed and shut the port   *)
(* down; a reset on a port that is closing is never read again, as        *)
(* got_timeout returns at once for it.                                    *)
ResetUnlessClosed == IF state' = Closing THEN UNCHANGED timeoutLeft
                     ELSE ResetTimer

-----------------------------------------------------------------------------
(* shutdown_port, as far as this half is concerned.                       *)
Shutdown == state' = Closing

\* Mutant: a short write does not record pos = count.
HandleTcpSendNoPos(m, cs, p0, cdone) ==
    \/ /\ ShortWrites
       /\ state' = WaitingOutput /\ readEn' = FALSE /\ writeEn' = TRUE
       /\ cursize' = cs /\ pos' = p0 /\ closeDone' = cdone
       /\ UNCHANGED wire
    \/ /\ Shutdown
       /\ cursize' = cs /\ pos' = p0 /\ closeDone' = cdone
       /\ UNCHANGED <<wire, readEn, writeEn>>
    \/ \E k \in IF ShortWrites /\ cs > 0 THEN 1..cs ELSE {cs} :
          /\ wire' = wire \o Slice(m, 0, k)
          /\ cursize' = cs - k
          /\ IF cs - k # 0
             THEN /\ pos' = p0 /\ state' = WaitingOutput
                  /\ readEn' = FALSE /\ writeEn' = TRUE
                  /\ closeDone' = cdone
             ELSE /\ IF cdone THEN Shutdown ELSE UNCHANGED state
                  /\ closeDone' = FALSE /\ pos' = p0
                  /\ UNCHANGED <<readEn, writeEn>>

\* Mutant: EAGAIN leaves the TCP write handler disabled.
HandleTcpSendNoWriter(m, cs, p0, cdone) ==
    \/ /\ ShortWrites
       /\ state' = WaitingOutput /\ readEn' = FALSE /\ writeEn' = writeEn
       /\ cursize' = cs /\ pos' = p0 /\ closeDone' = cdone
       /\ UNCHANGED wire
    \/ /\ Shutdown
       /\ cursize' = cs /\ pos' = p0 /\ closeDone' = cdone
       /\ UNCHANGED <<wire, readEn, writeEn>>
    \/ \E k \in IF ShortWrites /\ cs > 0 THEN 1..cs ELSE {cs} :
          /\ wire' = wire \o Slice(m, 0, k)
          /\ cursize' = cs - k
          /\ IF cs - k # 0
             THEN /\ pos' = k /\ state' = WaitingOutput
                  /\ readEn' = FALSE /\ writeEn' = TRUE
                  /\ closeDone' = cdone
             ELSE /\ IF cdone THEN Shutdown ELSE UNCHANGED state
                  /\ closeDone' = FALSE /\ pos' = p0
                  /\ UNCHANGED <<readEn, writeEn>>

(* handle_tcp_send(port) with buffer contents m, size cs and position    *)
(* p0: write cursize bytes from the start of buf.  EAGAIN or a short      *)
(* write turns the device reader off and the TCP writer on and waits for  *)
(* output (a short write sets pos = count); an error shuts the port down; *)
(* a full write of a buffer that ended in the closeon string shuts the    *)
(* port down.                                                              *)
HandleTcpSend(m, cs, p0, cdone) ==
    \/ /\ ShortWrites
       /\ state' = WaitingOutput /\ readEn' = FALSE /\ writeEn' = TRUE
       /\ cursize' = cs /\ pos' = p0 /\ closeDone' = cdone
       /\ UNCHANGED wire
    \/ /\ Shutdown
       /\ cursize' = cs /\ pos' = p0 /\ closeDone' = cdone
       /\ UNCHANGED <<wire, readEn, writeEn>>
    \/ \E k \in IF ShortWrites /\ cs > 0 THEN 1..cs ELSE {cs} :
          /\ wire' = wire \o Slice(m, 0, k)
          /\ cursize' = cs - k
          /\ IF cs - k # 0
             THEN /\ pos' = k /\ state' = WaitingOutput
                  /\ readEn' = FALSE /\ writeEn' = TRUE
                  /\ closeDone' = cdone
             ELSE /\ IF cdone THEN Shutdown ELSE UNCHANGED state
                  /\ closeDone' = FALSE /\ pos' = p0
                  /\ UNCHANGED <<readEn, writeEn>>

\* Mutant: a running send timer is stopped but not started again.
DispatchNoRestart(m, cs, cdone, sendNow) ==
    IF sendNow \/ cs = MaxSize \/ Chardelay = 0
    THEN HandleTcpSend(m, cs, 0, cdone) /\ ResetUnlessClosed
         /\ UNCHANGED <<timerRunning, sendTime, timerLeft>>
    ELSE /\ timerRunning' = FALSE
         /\ cursize' = cs /\ pos' = 0 /\ closeDone' = cdone
         /\ UNCHANGED <<wire, state, readEn, writeEn, sendTime, timerLeft,
                        timeoutLeft>>

\* Mutant: every read starts a new send_time, as if the timer were never
\* running.
DispatchResetSendTime(m, cs, cdone, sendNow) ==
    IF sendNow \/ cs = MaxSize \/ Chardelay = 0
    THEN HandleTcpSend(m, cs, 0, cdone) /\ ResetUnlessClosed
         /\ UNCHANGED <<timerRunning, sendTime, timerLeft>>
    ELSE LET then == [sec |-> 0, usec |-> nowUs]
             st == AddUsecToTimeval(then, ChardelayMax)
             delay == SubTimevalUs(st, then)
         IN /\ sendTime' = st
            /\ timerRunning' = TRUE
            /\ timerLeft' = TvValue(AddUsecToTimeval(then,
                               IF delay > Chardelay THEN Chardelay ELSE delay))
                             - nowUs
            /\ cursize' = cs /\ pos' = 0 /\ closeDone' = cdone
            /\ UNCHANGED <<wire, state, readEn, writeEn, timeoutLeft>>

(* The dispatch at the end of handle_dev_fd_read, once cursize is cs:     *)
(* send at once when forced, when the buffer is full or without           *)
(* chardelay, leaving a running send timer armed.  Otherwise a running    *)
(* timer is stopped and send_time kept, or send_time becomes now plus     *)
(* chardelay_max; the timer is armed for now plus the smaller of          *)
(* chardelay and the time left to send_time, and the data is sent at once *)
(* if send_time has passed.                                               *)
Dispatch(m, cs, cdone, sendNow) ==
    IF sendNow \/ cs = MaxSize \/ Chardelay = 0
    THEN HandleTcpSend(m, cs, 0, cdone) /\ ResetUnlessClosed
         /\ UNCHANGED <<timerRunning, sendTime, timerLeft>>
    ELSE LET then == [sec |-> 0, usec |-> nowUs]
             st == IF timerRunning THEN sendTime
                   ELSE AddUsecToTimeval(then, ChardelayMax)
             delay == SubTimevalUs(st, then)
         IN /\ sendTime' = st
            /\ IF delay < 0
               THEN /\ timerRunning' = FALSE /\ UNCHANGED timerLeft
                    /\ HandleTcpSend(m, cs, 0, cdone) /\ ResetUnlessClosed
               ELSE /\ timerRunning' = TRUE
                    /\ timerLeft' = TvValue(AddUsecToTimeval(then,
                                       IF delay > Chardelay THEN Chardelay
                                       ELSE delay)) - nowUs
                    /\ cursize' = cs /\ pos' = 0 /\ closeDone' = cdone
                    /\ UNCHANGED <<wire, state, readEn, writeEn, timeoutLeft>>

(* handle_dev_fd_read: read at most (maxsize - cursize)/2 bytes (telnet)  *)
(* or maxsize - cursize bytes (raw) into buf + cursize.  A read of 0      *)
(* (end of file, or no room) sends what is buffered, or shuts the port    *)
(* down when nothing is.  Then the closeon scan, IAC doubling over        *)
(* buf[0 .. count) and the dispatch.                                      *)
HandleDevFdRead ==
    /\ readEn /\ state # Closing /\ (devq # << >> \/ hup)
    /\ LET curend == cursize
           room == ReadRoom(curend)
           counts == IF devq = << >> \/ room = 0 THEN {0}
                     ELSE 1..(IF room < Len(devq) THEN room ELSE Len(devq))
       IN \E count \in counts :
          LET bytes == SubSeq(devq, 1, count)
              m1 == Store(mem, curend, bytes)
              scan == IF CloseOn # << >>
                      THEN CloseonScan(m1, 0, count, closePos)
                      ELSE [count |-> count, cpos |-> closePos, done |-> FALSE]
              dbl == IF Telnet THEN DoubleIACs(m1, 0, scan.count, FALSE)
                     ELSE [m |-> m1, count |-> scan.count, over |-> FALSE]
          IN /\ devq' = SubSeq(devq, count + 1, Len(devq))
             /\ consumed' = consumed \o bytes
             /\ IF count = 0 /\ curend = 0
                THEN /\ Shutdown
                     /\ pos' = 0
                     /\ UNCHANGED <<mem, cursize, readEn, writeEn,
                                    timerRunning, closePos, closeDone, wire,
                                    overrun, sendTime, timerLeft,
                                    timeoutLeft>>
                ELSE /\ mem' = dbl.m
                     /\ closePos' = scan.cpos
                     /\ overrun' = (overrun \/ dbl.over)
                     /\ Dispatch(dbl.m, curend + dbl.count,
                                 closeDone \/ scan.done, count = 0)
    /\ UNCHANGED <<tnOut, sendingTn, tnLeft, hup, nowUs, actLeft, timeout>>

(* send_timeout, run by the selector when the send timer's deadline is    *)
(* reached: unless the port is closing, the timer is no longer running    *)
(* and a non-empty buffer is sent with handle_tcp_send.                   *)
SendTimeout ==
    /\ timerRunning /\ timerLeft = 0 /\ state # Closing
    /\ timerRunning' = FALSE
    /\ IF cursize > 0
       THEN HandleTcpSend(mem, cursize, pos, closeDone)
       ELSE UNCHANGED <<cursize, pos, state, readEn, writeEn, closeDone, wire>>
    /\ UNCHANGED <<devq, consumed, mem, closePos, tnOut, sendingTn, tnLeft,
                   overrun, hup, timeoutLeft>>
    /\ UNCHANGED TimeVars

\* What buffer_write may accept of n bytes (0: the socket would block).
Accepts(n) == IF ShortWrites THEN 0..n ELSE {n}

(* handle_tcp_fd_write_mux -> tcp_fd_write(port, &dev_to_tcp): when       *)
(* sending_tn_data, first the telnet command queue, returning while any   *)
(* of it is left; then the data from pos.  When the data is gone, queued  *)
(* telnet data is sent next (sending_tn_data = true, goto send_tn_data),  *)
(* else the reader is turned back on, the writer off, the state is        *)
(* waiting input, and a pending closeon shuts the port down.  A write     *)
(* error shuts the port down.                                             *)
HandleTcpFdWrite ==
    /\ writeEn /\ state # Closing
    /\ \/ /\ Shutdown
          /\ UNCHANGED <<wire, tnOut, cursize, pos, readEn, writeEn,
                         closeDone, sendingTn, timeoutLeft>>
       \/ \E k1 \in Accepts(Len(tnOut)), k2 \in Accepts(cursize),
             k3 \in Accepts(Len(tnOut)) :
          LET t1 == IF sendingTn THEN k1 ELSE 0
              rest1 == SubSeq(tnOut, t1 + 1, Len(tnOut))
              out1 == SubSeq(tnOut, 1, t1) \o Slice(mem, pos, k2)
              left == cursize - k2
              rest2 == SubSeq(rest1, k3 + 1, Len(rest1))
          IN IF sendingTn /\ rest1 # << >>
             THEN /\ wire' = wire \o SubSeq(tnOut, 1, t1)
                  /\ tnOut' = rest1
                  /\ UNCHANGED <<cursize, pos, state, readEn, writeEn,
                                 closeDone, sendingTn, timeoutLeft>>
             ELSE /\ cursize' = left /\ pos' = pos + k2
                  /\ IF left # 0
                     THEN /\ wire' = wire \o out1 /\ tnOut' = rest1
                          /\ ResetTimer
                          /\ UNCHANGED <<state, readEn, writeEn, closeDone,
                                         sendingTn>>
                     ELSE IF rest1 # << >>
                     THEN /\ sendingTn' = TRUE
                          /\ wire' = wire \o out1 \o SubSeq(rest1, 1, k3)
                          /\ tnOut' = rest2
                          /\ IF rest2 = << >>
                             THEN /\ readEn' = TRUE /\ writeEn' = FALSE
                                  /\ closeDone' = FALSE
                                  /\ state' = IF closeDone THEN Closing
                                              ELSE WaitingInput
                                  /\ ResetUnlessClosed
                             ELSE UNCHANGED <<state, readEn, writeEn,
                                              closeDone, timeoutLeft>>
                     ELSE /\ wire' = wire \o out1 /\ tnOut' = rest1
                          /\ readEn' = TRUE /\ writeEn' = FALSE
                          /\ closeDone' = FALSE
                          /\ state' = IF closeDone THEN Closing
                                      ELSE WaitingInput
                          /\ ResetUnlessClosed
                          /\ UNCHANGED sendingTn
    /\ UNCHANGED <<devq, consumed, mem, timerRunning, closePos, tnLeft,
                   overrun, hup>>
    /\ UNCHANGED TimeVars

\* Mutant: telnet_output_ready does not enable the TCP write handler.
OutputReadyNoWriter(cmds, bannerLeft) ==
    /\ tnOut' = tnOut \o cmds
    /\ IF cursize # 0 \/ bannerLeft
       THEN UNCHANGED <<sendingTn, readEn, writeEn>>
       ELSE sendingTn' = TRUE /\ readEn' = FALSE /\ UNCHANGED writeEn

(* The telnet code appends cmds to out_telnet_cmd and calls               *)
(* telnet_output_ready, which returns while dev_to_tcp holds data or the  *)
(* banner is not yet written (bannerLeft), else sets sending_tn_data,     *)
(* turns the device reader off and the TCP writer on.                     *)
OutputReady(cmds, bannerLeft) ==
    /\ tnOut' = tnOut \o cmds
    /\ IF cursize # 0 \/ bannerLeft
       THEN UNCHANGED <<sendingTn, readEn, writeEn>>
       ELSE sendingTn' = TRUE /\ readEn' = FALSE /\ writeEn' = TRUE

(* A telnet command for the peer from a source other than the peer's data *)
(* handled here: an option reply, or got_timeout's RFC 2217 modem-state   *)
(* notice.  bannerLeft: a banner is still to be written.                  *)
TelnetOutputReady(bannerLeft) ==
    /\ Telnet /\ tnLeft > 0 /\ state # Closing
    /\ tnLeft' = tnLeft - 1
    /\ OutputReady(TnCmd, bannerLeft)
    /\ UNCHANGED <<devq, consumed, mem, cursize, pos, state, timerRunning,
                   closePos, closeDone, wire, overrun, hup, timeoutLeft>>
    /\ UNCHANGED TimeVars

(* The device closes (a serial line hangup or a read error) once it has  *)
(* delivered its bytes; an idle device may also never do so.              *)
DevHangup ==
    /\ devq = << >> /\ ~hup /\ state # Closing
    /\ hup' = TRUE
    /\ UNCHANGED <<devq, consumed, mem, cursize, pos, state, readEn, writeEn,
                   timerRunning, closePos, closeDone, tnOut, sendingTn, tnLeft,
                   wire, overrun, timeoutLeft>>
    /\ UNCHANGED TimeVars

(* got_timeout, the 1-Hz activity timer: with a timeout configured,       *)
(* timeout_left counts down and the port is shut down when it drops below *)
(* zero; otherwise the timer is started again one second later.  (Its    *)
(* RFC 2217 modem-state notice is a telnet command for the peer, which    *)
(* TelnetOutputReady covers.)  For a closing port it returns at once.     *)
GotTimeout ==
    /\ actLeft = 0 /\ state # Closing
    /\ IF timeout > 0
       THEN /\ timeoutLeft' = timeoutLeft - 1
            /\ IF timeoutLeft - 1 < 0
               THEN Shutdown /\ UNCHANGED actLeft
               ELSE actLeft' = USec /\ UNCHANGED state
       ELSE actLeft' = USec /\ UNCHANGED <<timeoutLeft, state>>
    /\ UNCHANGED <<devq, consumed, mem, cursize, pos, readEn, writeEn,
                   timerRunning, closePos, closeDone, tnOut, sendingTn, tnLeft,
                   wire, overrun, hup, nowUs, sendTime, timerLeft, timeout>>

(* The clock advances one unit.  It does not pass an armed timer's        *)
(* deadline: the selector runs send_timeout or got_timeout when it is     *)
(* reached.  Without chardelay or an activity timeout nothing here reads  *)
(* the clock, and once the port is closing nothing does, so it is not     *)
(* advanced then.                                                         *)
Tick ==
    /\ Chardelay > 0 \/ timeout > 0
    /\ state # Closing
    /\ timerRunning => timerLeft > 0
    /\ actLeft > 0
    /\ actLeft' = actLeft - 1
    /\ idleAge' = IF idleAge < IdleCap THEN idleAge + 1 ELSE idleAge
    /\ nowUs' = (nowUs + 1) % USec
    /\ sendTime' = IF timerRunning /\ nowUs + 1 = USec
                   THEN [sendTime EXCEPT !.sec = @ - 1] ELSE sendTime
    /\ timerLeft' = IF timerRunning THEN timerLeft - 1 ELSE timerLeft
    /\ waitAge' = IF waitAge < 0 \/ waitAge = AgeCap THEN waitAge
                  ELSE waitAge + 1
    /\ UNCHANGED <<devq, consumed, mem, cursize, pos, state, readEn, writeEn,
                   timerRunning, closePos, closeDone, tnOut, sendingTn, tnLeft,
                   wire, overrun, hup, timeoutLeft, timeout>>

-----------------------------------------------------------------------------
(* setup_tcp_port leaves the half waiting for input with an empty buffer  *)
(* and the device reader on.  In telnet mode telnet_init queues the       *)
(* initial option negotiation and calls telnet_output_ready, which hands  *)
(* the socket to the TCP writer first (reader off, sending_tn_data) unless *)
(* a banner is still to be written (bannerLeft); the TCP writer is then   *)
(* enabled anyway.  In raw mode it is enabled when a banner is configured *)
(* (banner).                                                               *)
InitWith(banner, bannerLeft) ==
    /\ devq \in Inputs /\ consumed = << >>
    /\ mem = [i \in 0..MaxSize-1 |-> Garbage]
    /\ cursize = 0 /\ pos = 0 /\ state = WaitingInput
    /\ timerRunning = FALSE /\ closePos = 0 /\ closeDone = FALSE
    /\ tnLeft = TnCmdMax /\ wire = << >> /\ overrun = FALSE /\ hup = FALSE
    /\ tnOut = IF Telnet THEN TnCmd ELSE << >>
    /\ sendingTn = (Telnet /\ ~bannerLeft)
    /\ writeEn = (Telnet \/ banner) /\ readEn = (~Telnet \/ bannerLeft)
    /\ nowUs \in IF Chardelay > 0 THEN 0..USec-1 ELSE {0}
    /\ sendTime = [sec |-> 0, usec |-> 0] /\ timerLeft = 0 /\ waitAge = -1
    /\ timeout \in Timeouts /\ timeoutLeft = timeout
    /\ actLeft = USec /\ idleAge = 0

Init == InitWith(FALSE, FALSE)

\* The handlers, which take no time.
Step == \/ HandleDevFdRead \/ SendTimeout \/ HandleTcpFdWrite
        \/ TelnetOutputReady(FALSE) \/ DevHangup \/ GotTimeout

\* After a handler, bytes still buffered while the port waits for input
\* keep the age of the oldest; otherwise none wait.
AgeAfterStep ==
    IF cursize' > 0 /\ state' = WaitingInput
    THEN IF waitAge < 0 THEN 0 ELSE waitAge
    ELSE -1

\* A handler's step, with the ghosts' update.
Handled(A) ==
    /\ A /\ waitAge' = AgeAfterStep
    /\ idleAge' = IF Len(wire') > Len(wire) THEN 0 ELSE idleAge

Next == Tick \/ Handled(Step)

(* The device handler runs while the device has data, time passes, the    *)
(* timers fire at their deadlines, and the peer reads, so the TCP writer  *)
(* eventually writes something (a wake-up that writes nothing, EAGAIN,    *)
(* still runs the handler).  The peer's telnet traffic and the device's   *)
(* hangup owe nothing.                                                    *)
Fairness == /\ WF_vars(Handled(HandleDevFdRead))
            /\ WF_vars(Handled(SendTimeout))
            /\ WF_vars(Handled(HandleTcpFdWrite) /\ wire' # wire)
            /\ WF_vars(Handled(GotTimeout))
            /\ WF_vars(Tick)

Spec == Init /\ [][Next]_vars /\ Fairness

-----------------------------------------------------------------------------
(* Properties.                                                             *)

\* What a telnet peer reads as data: IAC IAC is one 0xFF byte, IAC and
\* another byte is a command, a lone trailing IAC is not yet complete.
RECURSIVE TelnetData(_)
TelnetData(w) ==
    IF w = << >> THEN << >>
    ELSE IF Head(w) # IAC THEN <<Head(w)>> \o TelnetData(Tail(w))
    ELSE IF Len(w) = 1 THEN << >>
    ELSE (IF w[2] = IAC THEN <<IAC>> ELSE << >>) \o TelnetData(Tail(Tail(w)))

\* A byte the device produced (or a slot of dev_to_tcp that was relayed).
IsDeviceData(b) == b \in Bytes \cup {Garbage}

\* The device data the peer reads; banner bytes are not device data.
PeerData == SelectSeq(IF Telnet THEN TelnetData(wire) ELSE wire, IsDeviceData)

\* The device stream up to and including the first closeon string.
Expected(c) ==
    IF CloseOn # << >> /\ CloseOn \in SubSeqs(c)
    THEN SubSeq(c, 1, IndexFirstSubSeq(CloseOn, c) + Len(CloseOn) - 1)
    ELSE c

(* Byte fidelity: the data the peer reads is always a prefix of what the  *)
(* device produced (cut after the closeon string): nothing is lost from   *)
(* the middle, duplicated, reordered, or corrupted by IAC doubling, by a  *)
(* telnet command, by a short write or by chardelay batching              *)
(* (handle_dev_fd_read, handle_tcp_send, send_timeout, tcp_fd_write).     *)
PeerReceivesDeviceBytes == IsPrefix(PeerData, Expected(consumed))

(* The in-place IAC doubling never writes past the end of dev_to_tcp.buf  *)
(* (handle_dev_fd_read's shift loop).                                     *)
NoBufferOverrun == ~overrun

(* Buffered device data is sent: a non-empty dev_to_tcp buffer is         *)
(* eventually emptied or the port shuts down (chardelay timer, short      *)
(* writes, TCP write handler).                                            *)
BufferedDataSent == (cursize > 0) ~> (cursize = 0 \/ state = Closing)

(* A telnet command queued for the peer is eventually written            *)
(* (telnet_output_ready, tcp_fd_write).                                   *)
TelnetReplySent == (tnOut # << >>) ~> (tnOut = << >> \/ state = Closing)

(* Once the device has sent the closeon string, the port shuts down      *)
(* (the closeon scan of handle_dev_fd_read).                              *)
CloseonCloses ==
    (CloseOn # << >> /\ CloseOn \in SubSeqs(consumed)) ~> (state = Closing)

(* The port decides that the device has sent the closeon string only when *)
(* it has: close_on_output_done is set by the closeon scan of              *)
(* handle_dev_fd_read only once the string has appeared, contiguously, in  *)
(* the device's output.  closeon_pos carries a partial match from one read *)
(* to the next, and a non-matching byte must restart it.                   *)
CloseonMatched == closeDone => CloseOn \in SubSeqs(consumed)

(* Character-delay bound (the spec's dev->tcp guarantee): bytes buffered   *)
(* while the port waits for input are sent no later than chardelay_max    *)
(* after the first of them was read.  handle_dev_fd_read keeps send_time  *)
(* across reads, arms the timer no later than it (add_usec_to_timeval,    *)
(* sub_timeval_us), and send_timeout sends.                               *)
CharDelayBound == waitAge <= ChardelayMax

(* Inactivity (the spec's activity timeout): the activity timer shuts the *)
(* port down only after timeout seconds in which no byte was written to  *)
(* the peer.  Every write to the peer must reset timeout_left            *)
(* (reset_timer after handle_dev_fd_read's send and in tcp_fd_write);    *)
(* got_timeout counts it down once a second.                              *)
TimeoutOnlyWhenIdle ==
    [][(timeoutLeft >= 0 /\ timeoutLeft' < 0) => idleAge >= IdleCap]_vars

=============================================================================
