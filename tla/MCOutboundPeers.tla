------------------------- MODULE MCOutboundPeers ---------------------------
(* Model-checking instance of OutboundPeers: two topology peers. *)
EXTENDS OutboundPeers

CONSTANTS p1, p2

MCPeerSeq == <<p1, p2>>

MCPeerSeqOne == <<p1>>
=============================================================================
