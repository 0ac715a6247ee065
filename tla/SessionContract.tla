---------------------------- MODULE SessionContract ----------------------------
(***************************************************************************)
(* What an ITcpSession is told about one connection: OnConnected, then     *)
(* OnRecv as data comes, then OnDisconnect, once, when the peer has hung   *)
(* up and all it sent has been shown, or after the session's own Close.    *)
(***************************************************************************)
EXTENDS Naturals

CONSTANT MaxIn      \* bound: how much the peer sends

VARIABLES peerSent, \* what the peer has sent
          peerEnded,
          shown,    \* how much of it OnRecv has been called with
          closed,   \* the session has called Close
          phase     \* the session's m_bIsConnected, with a past

vars == <<peerSent, peerEnded, shown, closed, phase>>

Init == peerSent = 0 /\ peerEnded = FALSE /\ shown = 0 /\ closed = FALSE
        /\ phase = "new"

PeerSends == /\ ~peerEnded /\ peerSent < MaxIn
             /\ peerSent' = peerSent + 1
             /\ UNCHANGED <<peerEnded, shown, closed, phase>>

PeerEnds == /\ ~peerEnded /\ peerEnded' = TRUE
            /\ UNCHANGED <<peerSent, shown, closed, phase>>

Close == /\ ~closed /\ closed' = TRUE
         /\ UNCHANGED <<peerSent, peerEnded, shown, phase>>

OnConnected == /\ phase = "new" /\ phase' = "connected"
               /\ UNCHANGED <<peerSent, peerEnded, shown, closed>>

OnRecv == /\ phase = "connected"
          /\ shown' \in shown + 1 .. peerSent
          /\ UNCHANGED <<peerSent, peerEnded, closed, phase>>

OnDisconnect == /\ phase = "connected"
                /\ closed \/ (peerEnded /\ shown = peerSent)
                /\ phase' = "disconnected"
                /\ UNCHANGED <<peerSent, peerEnded, shown, closed>>

Next == PeerSends \/ PeerEnds \/ Close \/ OnConnected \/ OnRecv \/ OnDisconnect

Spec == Init /\ [][Next]_vars
=============================================================================
