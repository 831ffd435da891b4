------------------------------ MODULE MCOutbox ------------------------------
(* Instances of Outbox for TLC: contacts and drains are interchangeable.   *)
EXTENDS Outbox, TLC

Symmetry == Permutations(Contact) \cup Permutations(Drainer)
=============================================================================
