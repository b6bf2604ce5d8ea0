------------------------------ MODULE BytePipe ------------------------------
(***************************************************************************)
(* What a connected port promises its two ends, without buffers, handlers *)
(* or telnet framing: the bytes the peer sends reach the device, and the   *)
(* bytes the device sends reach the peer, each stream in order, without    *)
(* loss, duplication or invention, in chunks of any size.  The pipe may    *)
(* close at any time; bytes already on their way to the device may still  *)
(* arrive after that.  While it is open, bytes still to be delivered are   *)
(* eventually delivered.                                                   *)
(***************************************************************************)
EXTENDS Naturals, Sequences

VARIABLES
    fromPeer,  \* everything the peer sends, as data
    fromDev,   \* everything the device sends that is to be relayed
    toDev,     \* the peer's data delivered to the device so far
    toPeer,    \* the device's data delivered to the peer so far
    open       \* the pipe has not been closed

pvars == <<fromPeer, fromDev, toDev, toPeer, open>>

Init == toDev = << >> /\ toPeer = << >> /\ open = TRUE

(* A step delivers a chunk in either direction, or closes the pipe, or     *)
(* both at once.                                                           *)
Next ==
    /\ UNCHANGED <<fromPeer, fromDev>>
    /\ Len(toDev) <= Len(toDev') /\ Len(toDev') <= Len(fromPeer)
    /\ SubSeq(toDev', 1, Len(toDev)) = toDev
    /\ toDev' = SubSeq(fromPeer, 1, Len(toDev'))
    /\ Len(toPeer) <= Len(toPeer') /\ Len(toPeer') <= Len(fromDev)
    /\ SubSeq(toPeer', 1, Len(toPeer)) = toPeer
    /\ toPeer' = SubSeq(fromDev, 1, Len(toPeer'))
    /\ open' \in {open, FALSE}

ToDevice == Next /\ Len(toDev') > Len(toDev)
ToPeer == Next /\ Len(toPeer') > Len(toPeer)

(* Bytes remain to be delivered while the pipe is open.  In a behaviour   *)
(* of Next these are exactly ENABLED <<open /\ ToDevice>>_pvars and        *)
(* ENABLED <<open /\ ToPeer>>_pvars.                                        *)
DevPending == open /\ Len(toDev) < Len(fromPeer)
PeerPending == open /\ Len(toPeer) < Len(fromDev)

(* Weak fairness of each delivery, with its enabling condition spelled   *)
(* out: a delivery that stays possible is eventually made.                *)
Fairness ==
    /\ []<>~DevPending \/ []<><<open /\ ToDevice>>_pvars
    /\ []<>~PeerPending \/ []<><<open /\ ToPeer>>_pvars

Spec == Init /\ [][Next]_pvars /\ Fairness
=============================================================================
