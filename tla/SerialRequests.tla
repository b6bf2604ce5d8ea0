--------------------------- MODULE SerialRequests ---------------------------
(* What a serial device (a sergenio) promises its user, without locks,     *)
(* runners or termios bits.  A set takes effect at once; a request made   *)
(* with a done callback waits in line and is answered, in the order made, *)
(* with the parameter's value at the moment it is answered.  A close      *)
(* finishes only when no request is waiting, and an open starts from the  *)
(* device's default settings.                                              *)
EXTENDS Sequences

CONSTANTS
    Requests,   \* the requests a user makes: [param, val, cb]; val 0 reads
    Ids,        \* request identities
    Checked,    \* the parameters whose value the device keeps track of
    Values,     \* the values an answer may carry
    Default     \* their values after an open: [Checked -> values]

VARIABLES
    state,      \* "closed", "open" or "closing"
    settings,   \* [Checked -> values]: the device's current settings
    waiting,    \* requests made with a callback and not yet answered: [id, param]
    answered,   \* ids of the answered requests, in the order answered
    lastAnswer  \* the latest answer: [param, val]
vars == <<state, settings, waiting, answered, lastAnswer>>

NoAnswer == [param |-> "none", val |-> 0]

Init ==
    /\ state = "closed" /\ settings = Default
    /\ waiting = <<>> /\ answered = <<>> /\ lastAnswer = NoAnswer

Open ==
    /\ state = "closed"
    /\ state' = "open" /\ settings' = Default
    /\ UNCHANGED <<waiting, answered, lastAnswer>>

(* A request on an open device: a set changes its own parameter and no    *)
(* other; with a callback the request joins the line.                     *)
Request(r, id) ==
    /\ state = "open"
    /\ settings' = IF r.val # 0 /\ r.param \in Checked
                   THEN [settings EXCEPT ![r.param] = r.val] ELSE settings
    /\ waiting' = IF r.cb THEN Append(waiting, [id |-> id, param |-> r.param])
                  ELSE waiting
    /\ UNCHANGED <<state, answered, lastAnswer>>

(* The oldest waiting request is answered with its parameter's value.     *)
AnswerValues(p) == IF p \in Checked THEN {settings[p]} ELSE Values
Answer ==
    /\ waiting # <<>>
    /\ LET w == Head(waiting) IN
         /\ answered' = Append(answered, w.id)
         /\ \E v \in AnswerValues(w.param) :
                lastAnswer' = [param |-> w.param, val |-> v]
    /\ waiting' = Tail(waiting)
    /\ UNCHANGED <<state, settings>>

StartClose ==
    /\ state = "open" /\ state' = "closing"
    /\ UNCHANGED <<settings, waiting, answered, lastAnswer>>

FinishClose ==
    /\ state = "closing" /\ waiting = <<>> /\ state' = "closed"
    /\ UNCHANGED <<settings, waiting, answered, lastAnswer>>

Next ==
    \/ Open
    \/ \E r \in Requests, id \in Ids : Request(r, id)
    \/ Answer
    \/ StartClose
    \/ FinishClose

Spec == Init /\ [][Next]_vars /\ WF_vars(Answer) /\ WF_vars(FinishClose)
=============================================================================
