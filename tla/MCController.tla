---------------------------- MODULE MCController ----------------------------
(* Three control connections against a limit of two, so that one is       *)
(* refused while two are open; two ports, one of which can be replaced by *)
(* a reconfiguration; a two-byte line buffer, so that a command followed  *)
(* by \r fills it and one more byte overflows it.                         *)
EXTENDS Controller, TLC

MCMonTarget == [b \in {"1"} |-> "n1"]
MCNameOf == [id \in {"p1", "p2", "p1b"} |-> IF id = "p2" THEN "other" ELSE "n1"]
MCInitPorts == <<"p1", "p2">>
\* A command with its \r in one read; a \r that leaves a byte behind for
\* the next read (to be erased by a backspace at index 1, or to overflow
\* the buffer); a backspace at index 0; a dropped byte.
MCChunks == {<<"1", CR>>, <<StopCmd, CR>>, <<ExitCmd, CR>>, <<CR, "h">>,
             <<BS>>, <<NUL, CR>>}
MCSymmetry == Permutations(Conns)
====
