----------------------------- MODULE MCTermios -----------------------------
(* Requests on the parameters of sterm_funcs but rts, which takes the     *)
(* dtr code path: sets with and without a done callback, and reads.       *)
(* Parity is set to MARK and to ODD, so a set must clear CMSPAR; baud is  *)
(* set to a speed that needs CBAUDEX.                                      *)
EXTENDS Termios

Req(p, v, cb) == [param |-> p, val |-> v, cb |-> cb]
MCCalls ==
    { Req("baud", 115200, TRUE), Req("datasize", 7, TRUE),
      Req("parity", PARITY_MARK, TRUE), Req("parity", PARITY_ODD, FALSE),
      Req("parity", 0, TRUE), Req("stopbits", 2, TRUE),
      Req("flowcontrol", 0, TRUE), Req("sbreak", ON, TRUE),
      Req("dtr", ON, TRUE) }
=============================================================================
