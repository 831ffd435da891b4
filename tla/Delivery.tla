------------------------------ MODULE Delivery ------------------------------
(***************************************************************************)
(* What the connection service promises about an outgoing message, with no *)
(* word about tasks, statements or crashes: the client asks (asked), the   *)
(* message is handed to a transport (sent), it is kept in a durable queue  *)
(* (queue), the client is told that it was accepted (acked).               *)
(***************************************************************************)
EXTENDS TLAPS

CONSTANT Message

VARIABLES asked, sent, queue, acked

vars == <<asked, sent, queue, acked>>

Init == asked = {} /\ sent = {} /\ queue = {} /\ acked = {}

Ask(m) ==
  /\ m \in Message \ asked
  /\ asked' = asked \cup {m}
  /\ UNCHANGED <<sent, queue, acked>>

Transmit(m) ==
  /\ m \in asked
  /\ sent' = sent \cup {m}
  /\ UNCHANGED <<asked, queue, acked>>

(* A durable write replaces the queue by Q and answers the calls for A: it *)
(* drops only what was sent, and answers only for what was sent or is in   *)
(* the queue it leaves.                                                    *)
Write(Q, A) ==
  /\ Q \subseteq asked /\ queue \ Q \subseteq sent
  /\ A \subseteq sent \cup Q
  /\ queue' = Q /\ acked' = acked \cup A
  /\ UNCHANGED <<asked, sent>>

Next ==
  \/ \E m \in Message : Ask(m) \/ Transmit(m)
  \/ \E Q, A \in SUBSET Message : Write(Q, A)

Spec == Init /\ [][Next]_vars

(* What follows: an accepted message was sent or will be found in the      *)
(* queue, whatever happens to the process.                                 *)
Accepted == acked \subseteq sent \cup queue

(* Whatever implements Delivery (Outbox does) keeps accepted messages.     *)
THEOREM AcceptedIsKept == Spec => []Accepted
<1>1. Init => Accepted
  BY DEF Init, Accepted
<1>2. Accepted /\ [Next]_vars => Accepted'
  <2> SUFFICES ASSUME Accepted, [Next]_vars PROVE Accepted'
    OBVIOUS
  <2>1. CASE \E m \in Message : Ask(m) \/ Transmit(m)
    BY <2>1 DEF Accepted, Ask, Transmit
  <2>2. CASE \E Q, A \in SUBSET Message : Write(Q, A)
    BY <2>2 DEF Accepted, Write
  <2>3. CASE UNCHANGED vars
    BY <2>3 DEF Accepted, vars
  <2>4. QED
    BY <2>1, <2>2, <2>3 DEF Next, vars
<1>3. QED
  BY <1>1, <1>2, PTL DEF Spec
=============================================================================
