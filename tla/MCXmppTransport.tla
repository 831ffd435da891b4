--------------------------- MODULE MCXmppTransport ---------------------------
(* Instances of XmppTransport for TLC.                                     *)
EXTENDS XmppTransport
=============================================================================
