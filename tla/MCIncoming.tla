------------------------------ MODULE MCIncoming ------------------------------
(* Instances of Incoming for TLC.                                          *)
EXTENDS Incoming

CONSTANTS in, out, srv

\* Peer a on a stream it opened and on the server, peer b on one we dialed.
SentStanzas == [s \in {in, out, srv} |->
  CASE s = in -> <<"presence", "message", "message">>
    [] s = out -> <<"message", "iq", "message">>
    [] OTHER -> <<"message", "message">>]

ChatOfSource == [s \in {in, out, srv} |-> IF s = out THEN "b" ELSE "a"]

Pairs == {{in, srv}, {in, out}, {out, srv}}
=============================================================================
