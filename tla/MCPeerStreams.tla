---------------------------- MODULE MCPeerStreams ----------------------------
(* Instances of PeerStreams for TLC.                                       *)
EXTENDS PeerStreams
=============================================================================
