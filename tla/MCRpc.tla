-------------------------------- MODULE MCRpc --------------------------------
(* Instances of Rpc for TLC.                                               *)
EXTENDS Rpc

\* A call like any other, system.shutdown and connection.reconnect.
MethodOf == [k \in {"call", "stop", "reconnect"} |->
               CASE k = "call" -> "plain" [] k = "stop" -> "shutdown" [] OTHER -> k]

\* The sockets of the client stand between those of the two other programs, or
\* before both of them.
Between == [s \in Sockets |-> CASE s = 1 -> 1 [] s = 2 -> MaxSockets [] OTHER -> s - 1]
Before  == [s \in Sockets |-> CASE s = 1 -> MaxSockets [] s = 2 -> MaxSockets - 1 [] OTHER -> s - 2]
TwoOrders == {Between, Before}

Plan(token, raises, ks, visitors, events, kinds, fs) ==
  [token |-> token, raises |-> raises, slot |-> Between, calls |-> ks,
   visitors |-> visitors, events |-> events, kinds |-> kinds, faults |-> fs]

\* Events among several clients; an event whose set of clients is laid out anew;
\* a client whose handlers raise; calls and system.shutdown; a shutdown and a
\* method that may hang; a service with a token.
SixPlans ==
  {Plan(FALSE, FALSE, {}, 1, 2, {"cut", "full"}, 2),
   Plan(FALSE, FALSE, {}, 2, 1, {"full", "rehash"}, 1),
   Plan(FALSE, TRUE, {"call"}, 0, 2, {"cut", "crash"}, 1),
   Plan(FALSE, FALSE, {"call", "stop"}, 0, 0, {"cut", "full", "quit", "signal"}, 1),
   Plan(FALSE, FALSE, {"stop", "reconnect"}, 0, 0, {"signal"}, 1),
   Plan(TRUE, FALSE, {"call"}, 2, 1, {"signal"}, 1)}
=============================================================================
