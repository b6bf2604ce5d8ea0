------------------------------ MODULE Termios ------------------------------
(* The termios serial device of genio/sergenio_termios.c.                  *)
(*                                                                          *)
(* A user sets or reads a serial parameter with termios_set_get.  A set is  *)
(* applied to the device at once, under the lock; when the user passes a    *)
(* done callback the request is also appended to termio_q, and the          *)
(* deferred-op runner (sterm_deferred_op / termios_process) later reads     *)
(* the parameter back and calls done with the lock released.  Closing      *)
(* polls sterm_check_close_drain until the queue and the device's output    *)
(* queue are empty or the timeouts run out; sterm_sub_open opens it again.  *)
(*                                                                          *)
(* Every critical section of sdata->lock is one atomic action.  The lock    *)
(* is released only around the done callback, which is therefore an        *)
(* action of its own: callers, the close timer and the runner interleave    *)
(* there.  A done callback that calls termios_set_get again is one of those *)
(* interleavings.                                                           *)
EXTENDS Naturals, Sequences, SequencesExt

CONSTANTS
    Calls,          \* the requests a user makes: [param, val, cb]; val 0 reads
    MaxCalls,       \* bound on the number of termios_set_get calls
    MaxOpens,       \* bound on the number of successful sterm_sub_open
    CloseTimeouts   \* close_timeouts_left at GENIO_LL_CLOSE_STATE_START (200)

(* The values of sergenio.h; 0 asks for a read.                            *)
PARITY_NONE == 1  PARITY_ODD == 2  PARITY_EVEN == 3
PARITY_MARK == 4  PARITY_SPACE == 5
FLOW_NONE == 1  FLOW_XONXOFF == 2  FLOW_RTSCTS == 3
ON == 1  OFF == 2   \* SERGENIO_BREAK_, _DTR_ and _RTS_ ON and OFF

(* The sergenio_functions of sterm_funcs and the op each one queues.       *)
TermioParams == {"baud", "datasize", "parity", "stopbits", "flowcontrol"}
MctlParams == {"dtr", "rts"}
Params == TermioParams \cup MctlParams \cup {"sbreak"}
OpOf(p) == IF p \in TermioParams THEN "TERMIO"
           ELSE IF p \in MctlParams THEN "MCTL" ELSE "BRK"

(* A MCTL set without a done callback dereferences qe->getset with qe ==  *)
(* NULL (termios_set_get); such calls crash the program and are left out. *)
ASSUME /\ MaxCalls \in Nat /\ MaxOpens \in Nat /\ CloseTimeouts \in Nat \ {0}
       /\ \A c \in Calls : c.param \in Params /\ c.cb \in BOOLEAN
                           /\ (OpOf(c.param) = "MCTL" /\ c.val # 0 => c.cb)

(***************************************************************************)
(* The device's settings.  c_cflag is the set of its bits that the         *)
(* functions touch, named after Linux's <termbits.h>, and the CBAUD field  *)
(* cbaud (CBAUDEX, 010000, is one of the bits).  IXON (02000) and IXOFF    *)
(* (010000) are c_iflag bits; as c_cflag bits they are HUPCL and CBAUDEX.  *)
(***************************************************************************)
CSIZE == {"CSIZE_020", "CSIZE_040"}
CS(n) == CASE n = 5 -> {}
           [] n = 6 -> {"CSIZE_020"}
           [] n = 7 -> {"CSIZE_040"}
           [] n = 8 -> CSIZE
IXON_IN_CFLAG == "HUPCL"
IXOFF_IN_CFLAG == "CBAUDEX"
CflagBits == CSIZE \cup {"CSTOPB", "CREAD", "PARENB", "PARODD", "HUPCL",
                         "CBAUDEX", "CMSPAR", "CRTSCTS"}

(* get_baud_rate and get_rate_from_baud_rate (utils.h): B9600 is 015,   *)
(* B19200 016 and B115200 010002; an unsupported speed reads back as 0.  *)
BaudRates == {9600, 19200, 115200}
SpeedOf(rate) == CASE rate = 9600 -> 13 [] rate = 19200 -> 14
                   [] rate = 115200 -> 4096 + 2
RateOf(speed) == IF \E r \in BaudRates : SpeedOf(r) = speed
                 THEN CHOOSE r \in BaudRates : SpeedOf(r) = speed ELSE 0
cfgetispeed(t) == t.cbaud + (IF "CBAUDEX" \in t.cflag THEN 4096 ELSE 0)
cfsetspeed(t, speed) ==
    [t EXCEPT !.cflag = (@ \ {"CBAUDEX"})
                        \cup (IF speed >= 4096 THEN {"CBAUDEX"} ELSE {}),
              !.cbaud = speed % 4096]

(* sdata->default_termios as sergenio_termios_alloc builds it: cfmakeraw,  *)
(* B9600, CREAD | CS8, and no device parameters after the comma.          *)
DefaultTermios == [cflag |-> {"CREAD"} \cup CS(8), cbaud |-> 13]

(***************************************************************************)
(* The getset functions.  Each takes the termios (or modem-control bits)  *)
(* and *ival; a nonzero value sets, zero reads.  The result holds the new *)
(* settings, *ival and the error.                                         *)
(***************************************************************************)
Result(t, v) == [set |-> t, val |-> v, err |-> 0]
EINVAL(t) == [set |-> t, val |-> 0, err |-> "EINVAL"]

termios_get_set_baud(t, v) ==
    IF v # 0
    THEN IF v \in BaudRates THEN Result(cfsetspeed(t, SpeedOf(v)), v)
         ELSE EINVAL(t)
    ELSE Result(t, RateOf(cfgetispeed(t)))

(* Mutant: the new size is or'ed in without clearing CSIZE first.         *)
termios_get_set_datasizeNoMask(t, v) ==
    IF v # 0
    THEN IF v \in 5..8 THEN Result([t EXCEPT !.cflag = @ \cup CS(v)], v)
         ELSE EINVAL(t)
    ELSE Result(t, CHOOSE n \in 5..8 : CS(n) = t.cflag \cap CSIZE)
termios_get_set_datasize(t, v) ==
    IF v # 0
    THEN IF v \in 5..8 THEN Result([t EXCEPT !.cflag = (@ \ CSIZE) \cup CS(v)], v)
         ELSE EINVAL(t)
    ELSE Result(t, CHOOSE n \in 5..8 : CS(n) = t.cflag \cap CSIZE)

ParityBits(v) == CASE v = PARITY_NONE -> {}
                   [] v = PARITY_ODD -> {"PARENB", "PARODD"}
                   [] v = PARITY_EVEN -> {"PARENB"}
                   [] v = PARITY_MARK -> {"PARENB", "PARODD", "CMSPAR"}
                   [] v = PARITY_SPACE -> {"PARENB", "CMSPAR"}
ParityRead(f) == IF "PARENB" \notin f THEN PARITY_NONE
                 ELSE IF "PARODD" \in f
                      THEN IF "CMSPAR" \in f THEN PARITY_MARK ELSE PARITY_ODD
                      ELSE IF "CMSPAR" \in f THEN PARITY_SPACE ELSE PARITY_EVEN
(* Mutant: CMSPAR is not cleared before the new parity bits are set.      *)
termios_get_set_parityNoCmspar(t, v) ==
    IF v # 0
    THEN Result([t EXCEPT !.cflag = (@ \ {"PARENB", "PARODD"}) \cup ParityBits(v)], v)
    ELSE Result(t, ParityRead(t.cflag))
termios_get_set_parity(t, v) ==
    IF v # 0
    THEN Result([t EXCEPT !.cflag = (@ \ {"PARENB", "PARODD", "CMSPAR"})
                                    \cup ParityBits(v)], v)
    ELSE Result(t, ParityRead(t.cflag))

termios_get_set_stopbits(t, v) ==
    IF v # 0
    THEN CASE v = 1 -> Result([t EXCEPT !.cflag = @ \ {"CSTOPB"}], v)
           [] v = 2 -> Result([t EXCEPT !.cflag = @ \cup {"CSTOPB"}], v)
           [] OTHER -> EINVAL(t)
    ELSE Result(t, IF "CSTOPB" \in t.cflag THEN 2 ELSE 1)

FlowBits(v) == CASE v = FLOW_NONE -> {}
                 [] v = FLOW_XONXOFF -> {IXON_IN_CFLAG, IXOFF_IN_CFLAG}
                 [] v = FLOW_RTSCTS -> {"CRTSCTS"}
termios_get_set_flowcontrol(t, v) ==
    IF v # 0
    THEN Result([t EXCEPT !.cflag = (@ \ {IXON_IN_CFLAG, IXOFF_IN_CFLAG, "CRTSCTS"})
                                    \cup FlowBits(v)], v)
    ELSE Result(t, IF "CRTSCTS" \in t.cflag THEN FLOW_RTSCTS
                   ELSE IF {IXON_IN_CFLAG, IXOFF_IN_CFLAG} \cap t.cflag # {}
                        THEN FLOW_XONXOFF ELSE FLOW_NONE)

(* termios_get_set_dtr and termios_get_set_rts: "off" is *mctl &= bit.    *)
termios_get_set_mctl(bit, m, v) ==
    IF v # 0
    THEN CASE v = ON -> Result(m \cup {bit}, v)
           [] v = OFF -> Result(m \cap {bit}, v)
    ELSE Result(m, IF bit \in m THEN ON ELSE OFF)

(* The getset function sterm_<param> passes to termios_set_get.           *)
GetSet(p, t, m, v) ==
    CASE p = "baud" -> termios_get_set_baud(t, v)
      [] p = "datasize" -> termios_get_set_datasize(t, v)
      [] p = "parity" -> termios_get_set_parity(t, v)
      [] p = "stopbits" -> termios_get_set_stopbits(t, v)
      [] p = "flowcontrol" -> termios_get_set_flowcontrol(t, v)
      [] p = "dtr" -> termios_get_set_mctl("TIOCM_DTR", m, v)
      [] p = "rts" -> termios_get_set_mctl("TIOCM_RTS", m, v)

(***************************************************************************)
(* State.                                                                  *)
(***************************************************************************)
VARIABLES
    phase,      \* the genio's fd: "closed", "open", or "closing" (check_close polled)
    open,       \* sdata->open
    closeLeft,  \* sdata->close_timeouts_left
    dev,        \* the device: termios, modem-control bits, and the break line
    break_set,  \* sdata->break_set
    q,          \* sdata->termio_q: the queued requests, [id, param]
    pending,    \* sdata->deferred_op_pending
    runner,     \* the deferred-op runner: "idle", "scheduled", "callback"
                \* (done running, lock released) or "relock"
    cur,        \* the request whose done callback runs: [id, param, val]
    issued,     \* ghost: the ids of queued requests, in the order queued
    completed,  \* ghost: the ids passed to done, in the order called
    lastSet,    \* ghost: each parameter's value as last set or opened
    calls,      \* termios_set_get calls made (bounded by MaxCalls)
    opens,      \* successful sterm_sub_open calls (bounded by MaxOpens)
    outq        \* the device's output queue holds bytes (TIOCOUTQ count > 0)
vars == <<phase, open, closeLeft, dev, break_set, q, pending, runner, cur,
          issued, completed, lastSet, calls, opens, outq>>

MctlBits == {"TIOCM_DTR", "TIOCM_RTS"}
SR_NoAnswer == [param |-> "none", val |-> 0]
NoCur == [id |-> 0, param |-> "baud", val |-> 0]
(* The parameters whose read-back is checked against the last set.        *)
ReadBackParams == {"baud", "datasize", "parity", "stopbits"}
Read(p, d, brk) ==
    IF OpOf(p) = "BRK" THEN IF brk THEN ON ELSE OFF
    ELSE GetSet(p, d.termio, d.mctl, 0).val
DefaultRead == [p \in ReadBackParams |-> GetSet(p, DefaultTermios, {}, 0).val]

TypeOK ==
    /\ phase \in {"closed", "open", "closing"}
    /\ open \in BOOLEAN /\ break_set \in BOOLEAN /\ pending \in BOOLEAN
    /\ closeLeft \in 0..CloseTimeouts
    /\ dev \in [termio : [cflag : SUBSET CflagBits, cbaud : 0..15],
                mctl : SUBSET MctlBits, brk : BOOLEAN]
    /\ q \in Seq([id : 1..MaxCalls, param : Params])
    /\ runner \in {"idle", "scheduled", "callback", "relock"}
    /\ issued \in Seq(1..MaxCalls) /\ completed \in Seq(1..MaxCalls)
    /\ calls \in 0..MaxCalls /\ opens \in 0..MaxOpens /\ outq \in BOOLEAN

Init ==
    /\ phase = "closed" /\ open = FALSE /\ closeLeft = 0
    /\ dev \in [termio : {DefaultTermios}, mctl : SUBSET MctlBits, brk : {FALSE}]
    /\ break_set = FALSE /\ q = <<>> /\ pending = FALSE /\ runner = "idle"
    /\ cur = NoCur /\ issued = <<>> /\ completed = <<>>
    /\ lastSet = DefaultRead /\ calls = 0 /\ opens = 0 /\ outq = FALSE

(***************************************************************************)
(* termios_set_get: the set part, then the queueing of the request.        *)
(***************************************************************************)
(* Mutant: a request is pushed on the head of a non-empty queue.          *)
EnqueueLifo(c, id) ==
    IF ~c.cb THEN UNCHANGED <<q, issued, pending, runner>>
    ELSE /\ q' = <<[id |-> id, param |-> c.param]>> \o q
         /\ issued' = Append(issued, id)
         /\ IF q = <<>> /\ ~pending
            THEN pending' = TRUE /\ runner' = "scheduled"
            ELSE UNCHANGED <<pending, runner>>
(* Mutant: the first request is queued without starting the runner.       *)
EnqueueNoKick(c, id) ==
    IF ~c.cb THEN UNCHANGED <<q, issued, pending, runner>>
    ELSE /\ q' = Append(q, [id |-> id, param |-> c.param])
         /\ issued' = Append(issued, id)
         /\ UNCHANGED <<pending, runner>>

(* With a done callback, qe goes to the tail of termio_q; if the queue was *)
(* empty, sterm_start_deferred_op runs the runner unless it is pending.   *)
Enqueue(c, id) ==
    IF ~c.cb THEN UNCHANGED <<q, issued, pending, runner>>
    ELSE /\ q' = Append(q, [id |-> id, param |-> c.param])
         /\ issued' = Append(issued, id)
         /\ IF q = <<>> /\ ~pending
            THEN pending' = TRUE /\ runner' = "scheduled"
            ELSE UNCHANGED <<pending, runner>>

(* The set, under the lock: the getset function on the device's settings  *)
(* for TERMIO and MCTL (tcsetattr / TIOCMSET), TIOCSBRK or TIOCCBRK for    *)
(* BRK.  A failing set frees qe and returns the error.                    *)
SetGet(c) ==
    LET id == calls + 1
        op == OpOf(c.param)
        gs == GetSet(c.param, dev.termio, dev.mctl, c.val)
        err == IF c.val # 0 /\ op # "BRK" THEN gs.err ELSE 0
    IN /\ calls < MaxCalls
       /\ calls' = id
       /\ IF ~open \/ err # 0
          THEN UNCHANGED <<dev, break_set, lastSet, q, issued, pending, runner>>
          ELSE /\ dev' = CASE c.val = 0 -> dev
                           [] op = "TERMIO" -> [dev EXCEPT !.termio = gs.set]
                           [] op = "MCTL" -> [dev EXCEPT !.mctl = gs.set]
                           [] op = "BRK" -> [dev EXCEPT !.brk = (c.val = ON)]
               /\ break_set' = IF op = "BRK" /\ c.val # 0 THEN c.val = ON
                               ELSE break_set
               /\ lastSet' = IF c.param \in ReadBackParams /\ c.val # 0
                             THEN [lastSet EXCEPT ![c.param] = c.val]
                             ELSE lastSet
               /\ Enqueue(c, id)
       /\ UNCHANGED <<phase, open, closeLeft, cur, completed, opens, outq>>

(***************************************************************************)
(* The deferred-op runner: sterm_deferred_op and termios_process.         *)
(***************************************************************************)
(* With the lock held: pop the head and read its parameter back, then     *)
(* release the lock for the callback; with the queue empty, clear         *)
(* deferred_op_pending and return (the restart test then sees no entry).  *)
DeferredStep ==
    /\ runner \in {"scheduled", "relock"}
    /\ IF q = <<>>
       THEN /\ pending' = FALSE /\ runner' = "idle"
            /\ UNCHANGED <<q, cur>>
       ELSE /\ q' = Tail(q)
            /\ cur' = [id |-> Head(q).id, param |-> Head(q).param,
                       val |-> Read(Head(q).param, dev, break_set)]
            /\ runner' = "callback"
            /\ UNCHANGED pending
    /\ UNCHANGED <<phase, open, closeLeft, dev, break_set, issued, completed,
                   lastSet, calls, opens, outq>>

(* qe->done runs without the lock, then qe is freed and the lock taken.   *)
DoneCallback ==
    /\ runner = "callback"
    /\ completed' = Append(completed, cur.id)
    /\ runner' = "relock"
    /\ UNCHANGED <<phase, open, closeLeft, dev, break_set, q, pending, cur,
                   issued, lastSet, calls, opens, outq>>

(***************************************************************************)
(* Close and open: sterm_check_close_drain and sterm_sub_open.            *)
(***************************************************************************)
(* GENIO_LL_CLOSE_STATE_START: no new requests, and the timeouts armed.   *)
CheckCloseStart ==
    /\ phase = "open"
    /\ phase' = "closing" /\ open' = FALSE /\ closeLeft' = CloseTimeouts
    /\ UNCHANGED <<dev, break_set, q, pending, runner, cur, issued, completed,
                   lastSet, calls, opens, outq>>

(* Mutant: the timeouts are not counted down.                             *)
CheckCloseDoneNoCountdown==
    /\ phase = "closing"
    /\ IF q # <<>> \/ outq THEN UNCHANGED <<phase, closeLeft>>
       ELSE phase' = "closed" /\ UNCHANGED closeLeft
    /\ UNCHANGED <<open, dev, break_set, q, pending, runner, cur, issued,
                   completed, lastSet, calls, opens, outq>>
(* Mutant: the device closes with requests still queued.                  *)
CheckCloseDoneNoQueueWait==
    /\ phase = "closing"
    /\ IF ~outq THEN phase' = "closed" /\ UNCHANGED closeLeft
       ELSE /\ closeLeft' = closeLeft - 1
            /\ phase' = IF closeLeft' = 0 THEN "closed" ELSE "closing"
    /\ UNCHANGED <<open, dev, break_set, q, pending, runner, cur, issued,
                   completed, lastSet, calls, opens, outq>>
(* Mutant: the decrement runs before the test for the last timeout is     *)
(* reached, so the count passes zero.                                     *)
CheckCloseDoneNoZeroTest==
    /\ phase = "closing"
    /\ IF q # <<>> THEN UNCHANGED <<phase, closeLeft>>
       ELSE IF ~outq THEN phase' = "closed" /\ UNCHANGED closeLeft
       ELSE closeLeft' = closeLeft - 1 /\ UNCHANGED phase
    /\ UNCHANGED <<open, dev, break_set, q, pending, runner, cur, issued,
                   completed, lastSet, calls, opens, outq>>

(* GENIO_LL_CLOSE_STATE_DONE, polled every 10 ms while it returns EAGAIN:  *)
(* wait while termio_q holds requests; then close when TIOCOUTQ fails or   *)
(* reads 0, or when the last timeout is used up (uucp_rm_lock).           *)
CheckCloseDone==
    /\ phase = "closing"
    /\ IF q # <<>> THEN UNCHANGED <<phase, closeLeft>>
       ELSE IF ~outq THEN phase' = "closed" /\ UNCHANGED closeLeft
       ELSE /\ closeLeft' = closeLeft - 1
            /\ phase' = IF closeLeft' = 0 THEN "closed" ELSE "closing"
    /\ UNCHANGED <<open, dev, break_set, q, pending, runner, cur, issued,
                   completed, lastSet, calls, opens, outq>>

(* A successful open: uucp lock, open(), tcsetattr of default_termios,    *)
(* TIOCCBRK, open = true.  break_set is left as it was.  A failing step   *)
(* releases what it took and leaves the device closed, as before.         *)
SubOpen ==
    /\ phase = "closed" /\ opens < MaxOpens
    /\ opens' = opens + 1
    /\ phase' = "open" /\ open' = TRUE
    /\ dev' = [dev EXCEPT !.termio = DefaultTermios, !.brk = FALSE]
    /\ lastSet' = DefaultRead
    /\ UNCHANGED <<closeLeft, break_set, q, pending, runner, cur, issued,
                   completed, calls, outq>>

(* The device's environment: the genio user's writes fill the output      *)
(* queue while the fd is open, and the line transmits it.                *)
DeviceOutput ==
    /\ phase = "open" /\ ~outq /\ outq' = TRUE
    /\ UNCHANGED <<phase, open, closeLeft, dev, break_set, q, pending, runner,
                   cur, issued, completed, lastSet, calls, opens>>
DeviceDrain ==
    /\ outq /\ outq' = FALSE
    /\ UNCHANGED <<phase, open, closeLeft, dev, break_set, q, pending, runner,
                   cur, issued, completed, lastSet, calls, opens>>

Next ==
    \/ \E c \in Calls : SetGet(c)
    \/ DeferredStep
    \/ DoneCallback
    \/ CheckCloseStart
    \/ CheckCloseDone
    \/ SubOpen
    \/ DeviceOutput
    \/ DeviceDrain

(* The OS runs a scheduled runner and a done callback returns; genio's    *)
(* close timer polls check_close every 10 ms.  The device need never      *)
(* drain its output (a line held by flow control), so DeviceDrain is not  *)
(* fair: the close must complete through close_timeouts_left.            *)
Fairness ==
    /\ WF_vars(DeferredStep)
    /\ WF_vars(DoneCallback)
    /\ WF_vars(CheckCloseDone)

Spec == Init /\ [][Next]_vars /\ Fairness

(***************************************************************************)
(* Properties.                                                             *)
(***************************************************************************)
(* The done callbacks of termios_set_get run in the order the requests    *)
(* were made, each once, even when a request is queued while the runner  *)
(* has dropped the lock to run a callback.                                *)
DoneInOrder == IsPrefix(completed, issued)

(* sterm_check_close_drain lets the device close only once termio_q is    *)
(* empty, so no queued request is read back from a closed fd.             *)
QueueEmptyWhenClosed == phase = "closed" => q = <<>>

(* The value termios_process reads back for a request, and passes to its  *)
(* done callback, is the one the latest termios_set_get set (or           *)
(* default_termios after an open): setting one parameter does not change  *)
(* another.                                                                *)
GetReportsLastSet ==
    [][runner # "callback" /\ runner' = "callback" /\ cur'.param \in ReadBackParams
       => cur'.val = lastSet[cur'.param]]_vars

(* Every queued request's done callback is eventually called: the runner  *)
(* is never left unscheduled with requests in termio_q.                   *)
RequestsComplete ==
    \A n \in 1..MaxCalls : Len(issued) >= n ~> Len(completed) >= n

(***************************************************************************)
(* Refinement: the termios device implements SerialRequests.  The         *)
(* abstract settings are read from the device itself, a request is        *)
(* answered when termios_process pops it and reads its parameter back,    *)
(* and the callbacks still to run belong to answered requests.            *)
(***************************************************************************)
Answered == completed \o (IF runner = "callback" THEN <<cur.id>> ELSE <<>>)
SR == INSTANCE SerialRequests
        WITH Requests <- Calls, Ids <- 1..MaxCalls, Checked <- ReadBackParams,
             Values <- {0, 1, 2, 3, 4, 5, 6, 7, 8, 9600, 19200, 115200},
             Default <- DefaultRead, state <- phase,
             settings <- [p \in ReadBackParams |-> Read(p, dev, break_set)],
             waiting <- q, answered <- Answered,
             lastAnswer <- IF cur = NoCur THEN SR_NoAnswer
                           ELSE [param |-> cur.param, val |-> cur.val]

(* The termios sergenio behaves as SerialRequests: every step of           *)
(* termios_set_get, the deferred-op runner, check_close and sub_open is    *)
(* one of its steps or leaves its state alone, and its liveness holds.     *)
SerialRequestsSpec == SR!Spec

(* A close started by genio finishes: sterm_check_close_drain stops       *)
(* returning EAGAIN, whatever the device's output queue does.             *)
CloseCompletes == phase = "closing" ~> phase = "closed"

=============================================================================
