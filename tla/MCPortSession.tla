---------------------------- MODULE MCPortSession ----------------------------
(* A peer that sends two or three bytes through a two-byte tcp_to_dev     *)
(* buffer, so a read may take one or two, an escaped 0xFF or an option   *)
(* request may be split between two reads, and a write to the device may  *)
(* be split; the device sends up to two (raw) or three (telnet) bytes.     *)
EXTENDS PortSession

\* Device streams: ordinary bytes, "b" also ends a one-byte closeon string.
MCRawInputs == BoundedSeq({"a", "b"}, 2)
\* Telnet device streams: ordinary bytes and 0xFF.
MCTelnetInputs == BoundedSeq({"a", IAC}, 3)
\* A device that stays silent.
MCSilent == {<< >>}
MCCloseOnB == <<"b">>
\* A two-byte closeon string, and device streams that match it across two
\* reads ("b a a" read as "b a", "a") or start a match a "b" breaks ("a b a").
MCCloseOnAA == <<"a", "a">>
MCCloseonInputs == MCRawInputs \cup {<<"a", "b", "a">>, <<"b", "a", "a">>}
\* A closeon string whose first byte can break a partial match of it, and a
\* device that sends it right after such a break.
MCCloseOnAB == <<"a", "b">>
MCOverlapInputs == {<<"a", "a", "b">>}
MCNoCloseOn == << >>
\* Raw peer streams of distinct bytes, so a lost byte shows.
MCRawPeer == {<<"c", "d">>}
\* Telnet peer streams: data, an escaped 0xFF and an option request.
MCTelnetPeer == {<<"c", IAC, IAC>>, <<IAC, "N", "c">>}
MCOpenStr == <<"o", "o">>
MCCloseStr == <<"z">>
MCNoStr == << >>
\* A banner of the device name, am/pm and an octal byte that ends it.
MCBanner == <<"\\", "d", "\\", "q", "\\", "1", "2">>
\* Banners with a three-digit octal escape, and with the peer's address.
MCBannerOctal == <<"\\", "1", "0", "1", "x">>
MCBannerIp == <<"\\", "I", "x">>
\* The context of the expansion: a device /t on TCP port 7 at 9600 baud,
\* 13:05:07 on 9 January 2024, a peer at address 1.
MCCtx == [devname |-> <<"/", "t">>, portname |-> <<"7">>, serparms |-> <<"9">>,
          tm |-> [year |-> 124, yday |-> 8, mon |-> 0, wday |-> 2, mday |-> 9,
                  hour |-> 13, min |-> 5, sec |-> 7],
          tv |-> [sec |-> 1704805507, usec |-> 42], peerIp |-> <<"1">>]
\* getnameinfo succeeds; or it fails and ip[] holds up to two bytes.
MCIpOk == {<< >>}
MCIpAny == {<< >>, <<Uninit>>, <<Uninit, Uninit>>}
=============================================================================
