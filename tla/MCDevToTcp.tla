----------------------------- MODULE MCDevToTcp -----------------------------
(* Device streams of up to three bytes through buffers of three to five   *)
(* bytes: enough for a read to be batched with a later one, to fill the   *)
(* telnet half of the buffer, and to be split by a short write.           *)
EXTENDS DevToTcp

\* Raw streams: ordinary bytes, "b" also ends a one-byte closeon string.
MCRawInputs == BoundedSeq({"a", "b"}, 3)
\* Telnet streams: ordinary bytes and 0xFF.
MCTelnetInputs == BoundedSeq({"a", IAC}, 3)
\* A half-buffer of 0xFF bytes in a four-byte buffer.
MCAllIAC == {<<IAC, IAC>>}
\* A stream holding "ab" after a partial match of it.
MCPartialMatch == {<<"a", "a", "b">>}
MCCloseOnB == <<"b">>
MCCloseOnAB == <<"a", "b">>
MCNoCloseOn == << >>
=============================================================================
