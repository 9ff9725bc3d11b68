---------------------------- MODULE MCTcpServer -----------------------------
(* TcpServer for TLC, with two peers. *)
EXTENDS TcpServer

CONSTANTS listener, p1, p2

TwoPeers == {listener, p1, p2}

\* A descriptor for the listener and for each peer, or for the listener and one peer.
ForTwo == 0..2
ForOne == 0..1

=============================================================================
