---------------------------- MODULE OutboxProofs ----------------------------
(***************************************************************************)
(* Proofs about Outbox for any numbers of messages, contacts, overlapping  *)
(* drains, crashes and failing statements.                                 *)
(***************************************************************************)
EXTENDS Outbox, TLAPS

(* What the statements do to the database the connection sees.             *)
LEMMA SetStatusEffect ==
  ASSUME live \in Db, NEW m \in Message, NEW s \in RowStatus, SetStatus(m, s)
  PROVE  /\ live' \in Db
         /\ live'.outbox = live.outbox
         /\ live'.hist = [live.hist EXCEPT ![m] = s]
  BY DEF Db, SetStatus

(* UPDATE of a status changes at most the row of that message.             *)
LEMMA UpdateStatusEffect ==
  ASSUME live \in Db, NEW m \in Message, NEW s \in RowStatus \ {"none"},
         UpdateStatus(m, s)
  PROVE  /\ live' \in Db
         /\ live'.outbox = live.outbox
         /\ \/ live'.hist = live.hist
            \/ live.hist[m] # "none" /\ live'.hist = [live.hist EXCEPT ![m] = s]
  BY DEF Db, UpdateStatus

(* INSERT into and DELETE from outbox leave the other tables alone.        *)
LEMMA OutboxEffect ==
  ASSUME live \in Db, NEW S \in SUBSET Message,
         live' = [live EXCEPT !.outbox = S]
  PROVE  live' \in Db /\ live'.outbox = S /\ live'.hist = live.hist
  BY DEF Db

(* INSERT into chats leaves the other tables alone.                        *)
LEMMA ChatsEffect ==
  ASSUME live \in Db, NEW c \in Contact,
         live' = [live EXCEPT !.chats = @ \cup {c}]
  PROVE  live' \in Db /\ live'.outbox = live.outbox /\ live'.hist = live.hist
  BY DEF Db

(* A statement that raises changes no table.                               *)
LEMMA RaisesEffect ==
  ASSUME TypeOK, Raises
  PROVE  /\ live' = live /\ disk' = disk /\ live' \in Db /\ disk' \in Db
         /\ faults' \in 0..MaxFaults
  BY BoundsAssumption DEF TypeOK, Raises

(* A step of one send_message call moves no other call.                    *)
LEMMA GoToEffect ==
  ASSUME pc \in [Message -> SendPc], NEW m \in Message, NEW l, GoTo(m, l)
  PROVE  \A k \in Message : pc'[k] = IF k = m THEN l ELSE pc[k]
  BY DEF GoTo

(* What a step of a drain does to the drain itself.                        *)
LEMMA DrainToEffect ==
  ASSUME drain \in [Drainer -> DrainTask], NEW d \in Drainer,
         NEW l \in DrainPc, DrainTo(d, l)
  PROVE  /\ drain' \in [Drainer -> DrainTask]
         /\ drain'[d].pc = l
         /\ drain'[d].cur = IF l = "loop" THEN 0 ELSE drain[d].cur
         /\ drain'[d].todo = drain[d].todo
         /\ \A e \in Drainer \ {d} : drain'[e] = drain[e]
  BY DEF DrainTo, DrainTask

(* A drain that ends leaves the others alone.                              *)
LEMMA DrainStopsEffect ==
  ASSUME drain \in [Drainer -> DrainTask], NEW d \in Drainer, DrainStops(d)
  PROVE  /\ drain' \in [Drainer -> DrainTask]
         /\ drain'[d] = NoDrain
         /\ \A e \in Drainer \ {d} : drain'[e] = drain[e]
  BY DEF DrainStops, DrainTask, NoDrain, DrainPc

(* A drain that has its list leaves the others alone.                      *)
LEMMA SelectEffect ==
  ASSUME drain \in [Drainer -> DrainTask], NEW d \in Drainer,
         NEW S \in SUBSET Message,
         drain' = [drain EXCEPT ![d].pc = "loop", ![d].pending = S,
                                ![d].todo = S]
  PROVE  /\ drain' \in [Drainer -> DrainTask]
         /\ drain'[d].pc = "loop"
         /\ \A e \in Drainer \ {d} : drain'[e] = drain[e]
  BY DEF DrainTask, DrainPc

(* Taking the next message removes it from what is left of the list.       *)
LEMMA NextPendingEffect ==
  ASSUME drain \in [Drainer -> DrainTask], NEW d \in Drainer,
         NEW m \in drain[d].todo, NEW n \in Nat, NEW l \in DrainPc,
         drain' = [drain EXCEPT ![d] = [pc |-> l, pending |-> @.pending,
                                        todo |-> @.todo \ {m}, cur |-> n]]
  PROVE  /\ drain' \in [Drainer -> DrainTask]
         /\ drain'[d].pc = l /\ drain'[d].cur = n
         /\ drain'[d].todo = drain[d].todo \ {m}
         /\ \A e \in Drainer \ {d} : drain'[e] = drain[e]
<1>1. drain[d].pending \in SUBSET Message /\ drain[d].todo \in SUBSET Message
  BY DEF DrainTask
<1>2. QED
  BY <1>1 DEF DrainTask

(* Every variable keeps its type.                                          *)
THEOREM TypeCorrect == Spec => []TypeOK
<1>1. Init => TypeOK
  BY BoundsAssumption DEF Init, TypeOK, Db, EmptyDb, NoDrain, RowStatus, SendPc,
     DrainPc, DrainTask, AfterHandover
<1>2. TypeOK /\ [Next]_vars => TypeOK'
  <2> SUFFICES ASSUME TypeOK, [Next]_vars PROVE TypeOK'
    OBVIOUS
  <2> USE BoundsAssumption DEF TypeOK
  <2>1. ASSUME NEW c \in Contact, StartChat(c) PROVE TypeOK'
    BY <2>1, ChatsEffect DEF StartChat, Raises
  <2>2. ASSUME NEW c \in Contact, IncomingOpensChat(c) PROVE TypeOK'
    BY <2>2, ChatsEffect DEF IncomingOpensChat, Raises
  <2>3. ASSUME NEW c \in Contact, CommitChat(c) PROVE TypeOK'
    BY <2>3 DEF CommitChat, Raises, Commit
  <2>4. ASSUME NEW m \in Message, SendMessage(m) PROVE TypeOK'
    BY <2>4 DEF SendMessage, GoTo, SendPc
  <2>5. ASSUME NEW m \in Message, AttemptSucceeds(m) PROVE TypeOK'
    BY <2>5 DEF AttemptSucceeds, HandOver, GoTo, SendPc
  <2>6. ASSUME NEW m \in Message, AttemptFails(m) PROVE TypeOK'
    BY <2>6 DEF AttemptFails, GoTo, SendPc
  <2>7. ASSUME NEW m \in Message, SaveSent(m) PROVE TypeOK'
    <3>1. "sent" \in RowStatus
      BY DEF RowStatus
    <3>2. live' \in Db /\ disk' \in Db /\ faults' \in 0..MaxFaults
      BY <2>7, <3>1, SetStatusEffect, RaisesEffect DEF SaveSent
    <3>3. QED
      BY <2>7, <3>2 DEF SaveSent, GoTo, SendPc, SenderFrame
  <2>8. ASSUME NEW m \in Message, CommitSent(m) PROVE TypeOK'
    BY <2>8 DEF CommitSent, Commit, Raises, GoTo, SendPc, SenderFrame
  <2>9. ASSUME NEW m \in Message, SavePending(m) PROVE TypeOK'
    <3>1. "pending" \in RowStatus
      BY DEF RowStatus
    <3>2. live' \in Db /\ disk' \in Db /\ faults' \in 0..MaxFaults
      BY <2>9, <3>1, SetStatusEffect, RaisesEffect DEF SavePending
    <3>3. QED
      BY <2>9, <3>2 DEF SavePending, GoTo, SendPc, SenderFrame
  <2>10. ASSUME NEW m \in Message, CommitPending(m) PROVE TypeOK'
    BY <2>10 DEF CommitPending, Commit, Raises, GoTo, SendPc, SenderFrame
  <2>11. ASSUME NEW m \in Message, InsertOutbox(m) PROVE TypeOK'
    <3>1. live.outbox \cup {m} \in SUBSET Message
      BY DEF Db
    <3>2. live' \in Db /\ disk' \in Db /\ faults' \in 0..MaxFaults
      BY <2>11, <3>1, OutboxEffect, RaisesEffect DEF InsertOutbox
    <3>3. QED
      BY <2>11, <3>2 DEF InsertOutbox, GoTo, SendPc, SenderFrame
  <2>12. ASSUME NEW m \in Message, CommitOutbox(m) PROVE TypeOK'
    BY <2>12 DEF CommitOutbox, Commit, Raises, GoTo, SendPc, SenderFrame
  <2>13. ASSUME NEW d \in Drainer, StartDrain(d) PROVE TypeOK'
    BY <2>13, DrainToEffect DEF StartDrain, DrainFrame, DrainPc, AfterHandover
  <2>14. ASSUME NEW d \in Drainer, SelectPending(d) PROVE TypeOK'
    <3>1. PendingOutbox \in SUBSET Message
      BY DEF PendingOutbox, Db
    <3>2. /\ drain' \in [Drainer -> DrainTask]
          /\ drain'[d].pc = "loop"
          /\ \A e \in Drainer \ {d} : drain'[e] = drain[e]
      BY <2>14, <3>1, SelectEffect DEF SelectPending
    <3>3. QED
      BY <2>14, <3>2 DEF SelectPending, DrainFrame, AfterHandover
  <2>15. ASSUME NEW d \in Drainer, NextPending(d) PROVE TypeOK'
    <3>1. PICK m \in drain[d].todo :
            drain' = [drain EXCEPT ![d] =
                        [pc |-> IF Known(m) THEN "send" ELSE "loop",
                         pending |-> @.pending, todo |-> @.todo \ {m},
                         cur |-> IF Known(m) THEN m ELSE 0]]
      BY <2>15 DEF NextPending
    <3>2. m \in Message /\ m \in Nat
      BY DEF DrainTask, Message
    <3>3. CASE Known(m)
      <4>1. drain' = [drain EXCEPT ![d] =
                        [pc |-> "send", pending |-> @.pending,
                         todo |-> @.todo \ {m}, cur |-> m]]
        BY <3>1, <3>3
      <4>2. "send" \in DrainPc
        BY DEF DrainPc
      <4>3. /\ drain' \in [Drainer -> DrainTask]
            /\ drain'[d].cur = m
            /\ \A e \in Drainer \ {d} : drain'[e] = drain[e]
        BY <3>2, <4>1, <4>2, NextPendingEffect
      <4>4. QED
        BY <2>15, <3>2, <4>3 DEF NextPending, DrainFrame
    <3>4. CASE ~Known(m)
      <4>1. drain' = [drain EXCEPT ![d] =
                        [pc |-> "loop", pending |-> @.pending,
                         todo |-> @.todo \ {m}, cur |-> 0]]
        BY <3>1, <3>4
      <4>2. "loop" \in DrainPc /\ 0 \in Nat
        BY DEF DrainPc
      <4>3. /\ drain' \in [Drainer -> DrainTask]
            /\ drain'[d].pc = "loop"
            /\ \A e \in Drainer \ {d} : drain'[e] = drain[e]
        BY <4>1, <4>2, NextPendingEffect
      <4>4. QED
        BY <2>15, <4>3 DEF NextPending, DrainFrame, AfterHandover
    <3>5. QED
      BY <3>3, <3>4
  <2>16. ASSUME NEW d \in Drainer, DrainEnds(d) PROVE TypeOK'
    BY <2>16, DrainStopsEffect DEF DrainEnds, NoDrain, DrainFrame, AfterHandover
  <2>17. ASSUME NEW d \in Drainer, DrainSend(d) PROVE TypeOK'
    BY <2>17, DrainToEffect DEF DrainSend, HandOver, DrainFrame, DrainPc,
       AfterHandover
  <2>18. ASSUME NEW d \in Drainer, MarkSent(d) PROVE TypeOK'
    <3>1. "sent" \in RowStatus \ {"none"} /\ drain[d].cur \in Message
      BY <2>18 DEF MarkSent, RowStatus, AfterHandover
    <3>2. live' \in Db /\ disk' \in Db /\ faults' \in 0..MaxFaults
      BY <2>18, <3>1, UpdateStatusEffect, RaisesEffect DEF MarkSent
    <3>3. QED
      BY <2>18, <3>1, <3>2, DrainToEffect DEF MarkSent, DrainFrame, DrainPc,
         AfterHandover
  <2>19. ASSUME NEW d \in Drainer, CommitMarkSent(d) PROVE TypeOK'
    BY <2>19, DrainToEffect DEF CommitMarkSent, DrainCommits, Commit, Raises,
       DrainFrame, DrainPc, AfterHandover
  <2>20. ASSUME NEW d \in Drainer, MarkDelivered(d) PROVE TypeOK'
    <3>1. "delivered" \in RowStatus \ {"none"} /\ drain[d].cur \in Message
      BY <2>20 DEF MarkDelivered, RowStatus, AfterHandover
    <3>2. live' \in Db /\ disk' \in Db /\ faults' \in 0..MaxFaults
      BY <2>20, <3>1, UpdateStatusEffect, RaisesEffect DEF MarkDelivered
    <3>3. QED
      BY <2>20, <3>1, <3>2, DrainToEffect DEF MarkDelivered, DrainFrame, DrainPc,
         AfterHandover
  <2>21. ASSUME NEW d \in Drainer, DeleteOutbox(d) PROVE TypeOK'
    <3>1. live.outbox \ {drain[d].cur} \in SUBSET Message
      BY DEF Db
    <3>2. live' \in Db /\ disk' \in Db /\ faults' \in 0..MaxFaults
      BY <2>21, <3>1, OutboxEffect, RaisesEffect DEF DeleteOutbox
    <3>3. QED
      BY <2>21, <3>2, DrainToEffect DEF DeleteOutbox, DrainFrame, DrainPc,
         AfterHandover
  <2>22. ASSUME NEW d \in Drainer, CommitDelivered(d) PROVE TypeOK'
    BY <2>22, DrainToEffect DEF CommitDelivered, DrainCommits, Commit, Raises,
       DrainFrame, DrainPc, AfterHandover
  <2>23. ASSUME NEW c \in Contact,
                PeerUp(c) \/ PeerDown(c) \/ RemoveContact(c) \/ AddContact(c)
         PROVE TypeOK'
    BY <2>23 DEF PeerUp, PeerDown, RemoveContact, AddContact
  <2>24. CASE Crash
    BY <2>24, BoundsAssumption DEF Crash, NoDrain, SendPc, DrainPc, Db,
       DrainTask, AfterHandover, SendOver
  <2>25. CASE UNCHANGED vars
    BY <2>25 DEF vars
  <2>26. ASSUME NEW d \in Drainer, ReadRaises(d) PROVE TypeOK'
    BY <2>26, RaisesEffect, DrainStopsEffect DEF ReadRaises, DrainFrame,
       NoDrain, AfterHandover
  <2>27. QED
    BY <2>1, <2>2, <2>3, <2>4, <2>5, <2>6, <2>7, <2>8, <2>9, <2>10, <2>11,
       <2>12, <2>13, <2>14, <2>15, <2>16, <2>17, <2>18, <2>19, <2>20, <2>21,
       <2>22, <2>23, <2>24, <2>25, <2>26 DEF Next, SendStep, DrainStep
<1>3. QED
  BY <1>1, <1>2, PTL DEF Spec

-----------------------------------------------------------------------------
(* The invariant.  "Same" steps move tasks and leave the database alone;   *)
(* commits copy live to disk; each statement changes one message's row.    *)

(* Every step of calls, drains, clients and crashes preserves the          *)
(* inductive invariant.                                                    *)
THEOREM Safety == Spec => []IInv
<1>1. Init => IInv
  BY DEF Init, EmptyDb, NoDrain, AfterHandover, IInv, AckedIsSafe,
     OutboxRowHasMessage, StatusTruthful, SendersKnow, DrainsKnow,
     OnlyAskedIsQueued, RemovalFollowsHandover
<1>2. TypeOK /\ TypeOK' /\ IInv /\ [Next]_vars => IInv'
  <2> SUFFICES ASSUME TypeOK, TypeOK', IInv, [Next]_vars PROVE IInv'
    OBVIOUS
  <2> USE DEF IInv, AckedIsSafe, OutboxRowHasMessage, StatusTruthful,
              SendersKnow, DrainsKnow, OnlyAskedIsQueued,
              RemovalFollowsHandover
  <2>1. ASSUME NEW c \in Contact, StartChat(c) PROVE IInv'
    BY <2>1, ChatsEffect DEF TypeOK, StartChat, Raises
  <2>2. ASSUME NEW c \in Contact, IncomingOpensChat(c) PROVE IInv'
    BY <2>2, ChatsEffect DEF TypeOK, IncomingOpensChat, Raises
  <2>3. ASSUME NEW c \in Contact, CommitChat(c) PROVE IInv'
    BY <2>3 DEF TypeOK, CommitChat, Raises, Commit
  <2>4. ASSUME NEW m \in Message, SendMessage(m) PROVE IInv'
    BY <2>4 DEF TypeOK, SendMessage, GoTo
  <2>5. ASSUME NEW m \in Message, AttemptSucceeds(m) PROVE IInv'
    BY <2>5 DEF TypeOK, AttemptSucceeds, HandOver, GoTo
  <2>6. ASSUME NEW m \in Message, AttemptFails(m) PROVE IInv'
    BY <2>6 DEF TypeOK, AttemptFails, GoTo
  <2>7. ASSUME NEW m \in Message, SaveSent(m) PROVE IInv'
    <3>1. pc[m] = "saveSent" /\ drain' = drain /\ handed' = handed
      BY <2>7 DEF SaveSent, SenderFrame
    <3>2. CASE SetStatus(m, "sent") /\ GoTo(m, "commitSent") /\ disk' = disk
      <4>1. \A k \in Message : pc'[k] = IF k = m THEN "commitSent" ELSE pc[k]
        BY <3>2, GoToEffect DEF TypeOK
      <4>2. "sent" \in RowStatus
        BY DEF RowStatus
      <4>3. /\ live'.outbox = live.outbox /\ live'.hist[m] = "sent"
            /\ \A k \in Message \ {m} : live'.hist[k] = live.hist[k]
        BY <3>2, <4>2, SetStatusEffect DEF TypeOK, Db
      <4>4. QED
        BY <3>1, <3>2, <4>1, <4>3 DEF TypeOK, Db, DrainTask
    <3>3. CASE Raises /\ GoTo(m, "savePending")
      <4>1. \A k \in Message : pc'[k] = IF k = m THEN "savePending" ELSE pc[k]
        BY <3>3, GoToEffect DEF TypeOK
      <4>2. live' = live /\ disk' = disk
        BY <3>3, RaisesEffect
      <4>3. QED
        BY <3>1, <4>1, <4>2 DEF TypeOK, DrainTask
    <3>4. QED
      BY <2>7, <3>2, <3>3 DEF SaveSent
  <2>8. ASSUME NEW m \in Message, CommitSent(m) PROVE IInv'
    <3>1. pc[m] = "commitSent" /\ drain' = drain /\ handed' = handed
      BY <2>8 DEF CommitSent, SenderFrame
    <3>2. CASE Commit /\ GoTo(m, "done")
      <4>1. \A k \in Message : pc'[k] = IF k = m THEN "done" ELSE pc[k]
        BY <3>2, GoToEffect DEF TypeOK
      <4>2. live' = live /\ disk' = live
        BY <3>2 DEF Commit
      <4>3. QED
        BY <3>1, <4>1, <4>2 DEF TypeOK, DrainTask
    <3>3. CASE Raises /\ GoTo(m, "savePending")
      <4>1. \A k \in Message : pc'[k] = IF k = m THEN "savePending" ELSE pc[k]
        BY <3>3, GoToEffect DEF TypeOK
      <4>2. live' = live /\ disk' = disk
        BY <3>3, RaisesEffect
      <4>3. QED
        BY <3>1, <4>1, <4>2 DEF TypeOK, DrainTask
    <3>4. QED
      BY <2>8, <3>2, <3>3 DEF CommitSent
  <2>9. ASSUME NEW m \in Message, SavePending(m) PROVE IInv'
    <3>1. pc[m] = "savePending" /\ drain' = drain /\ handed' = handed
      BY <2>9 DEF SavePending, SenderFrame
    <3>2. CASE SetStatus(m, "pending") /\ GoTo(m, "commitPending") /\ disk' = disk
      <4>1. \A k \in Message : pc'[k] = IF k = m THEN "commitPending" ELSE pc[k]
        BY <3>2, GoToEffect DEF TypeOK
      <4>2. "pending" \in RowStatus
        BY DEF RowStatus
      <4>3. /\ live'.outbox = live.outbox /\ live'.hist[m] = "pending"
            /\ \A k \in Message \ {m} : live'.hist[k] = live.hist[k]
        BY <3>2, <4>2, SetStatusEffect DEF TypeOK, Db
      <4>4. QED
        BY <3>1, <3>2, <4>1, <4>3 DEF TypeOK, Db, DrainTask
    <3>3. CASE Raises /\ GoTo(m, "error")
      <4>1. \A k \in Message : pc'[k] = IF k = m THEN "error" ELSE pc[k]
        BY <3>3, GoToEffect DEF TypeOK
      <4>2. live' = live /\ disk' = disk
        BY <3>3, RaisesEffect
      <4>3. QED
        BY <3>1, <4>1, <4>2 DEF TypeOK, DrainTask
    <3>4. QED
      BY <2>9, <3>2, <3>3 DEF SavePending
  <2>10. ASSUME NEW m \in Message, CommitPending(m) PROVE IInv'
    <3>1. pc[m] = "commitPending" /\ drain' = drain /\ handed' = handed
      BY <2>10 DEF CommitPending, SenderFrame
    <3>2. CASE Commit /\ GoTo(m, "insertOutbox")
      <4>1. \A k \in Message : pc'[k] = IF k = m THEN "insertOutbox" ELSE pc[k]
        BY <3>2, GoToEffect DEF TypeOK
      <4>2. live' = live /\ disk' = live
        BY <3>2 DEF Commit
      <4>3. QED
        BY <3>1, <4>1, <4>2 DEF TypeOK, DrainTask
    <3>3. CASE Raises /\ GoTo(m, "error")
      <4>1. \A k \in Message : pc'[k] = IF k = m THEN "error" ELSE pc[k]
        BY <3>3, GoToEffect DEF TypeOK
      <4>2. live' = live /\ disk' = disk
        BY <3>3, RaisesEffect
      <4>3. QED
        BY <3>1, <4>1, <4>2 DEF TypeOK, DrainTask
    <3>4. QED
      BY <2>10, <3>2, <3>3 DEF CommitPending
  <2>11. ASSUME NEW m \in Message, InsertOutbox(m) PROVE IInv'
    <3>1. pc[m] = "insertOutbox" /\ drain' = drain /\ handed' = handed
      BY <2>11 DEF InsertOutbox, SenderFrame
    <3>2. CASE /\ live' = [live EXCEPT !.outbox = @ \cup {m}]
               /\ GoTo(m, "commitOutbox") /\ disk' = disk
      <4>1. \A k \in Message : pc'[k] = IF k = m THEN "commitOutbox" ELSE pc[k]
        BY <3>2, GoToEffect DEF TypeOK
      <4>2. live.outbox \cup {m} \in SUBSET Message
        BY DEF TypeOK, Db
      <4>3. live'.outbox = live.outbox \cup {m} /\ live'.hist = live.hist
        BY <3>2, <4>2, OutboxEffect DEF TypeOK
      <4>4. QED
        BY <3>1, <3>2, <4>1, <4>3 DEF TypeOK, Db, DrainTask
    <3>3. CASE Raises /\ GoTo(m, "error")
      <4>1. \A k \in Message : pc'[k] = IF k = m THEN "error" ELSE pc[k]
        BY <3>3, GoToEffect DEF TypeOK
      <4>2. live' = live /\ disk' = disk
        BY <3>3, RaisesEffect
      <4>3. QED
        BY <3>1, <4>1, <4>2 DEF TypeOK, DrainTask
    <3>4. QED
      BY <2>11, <3>2, <3>3 DEF InsertOutbox
  <2>12. ASSUME NEW m \in Message, CommitOutbox(m) PROVE IInv'
    <3>1. pc[m] = "commitOutbox" /\ drain' = drain /\ handed' = handed
      BY <2>12 DEF CommitOutbox, SenderFrame
    <3>2. CASE Commit /\ GoTo(m, "done")
      <4>1. \A k \in Message : pc'[k] = IF k = m THEN "done" ELSE pc[k]
        BY <3>2, GoToEffect DEF TypeOK
      <4>2. live' = live /\ disk' = live
        BY <3>2 DEF Commit
      <4>3. QED
        BY <3>1, <4>1, <4>2 DEF TypeOK, DrainTask
    <3>3. CASE Raises /\ GoTo(m, "error")
      <4>1. \A k \in Message : pc'[k] = IF k = m THEN "error" ELSE pc[k]
        BY <3>3, GoToEffect DEF TypeOK
      <4>2. live' = live /\ disk' = disk
        BY <3>3, RaisesEffect
      <4>3. QED
        BY <3>1, <4>1, <4>2 DEF TypeOK, DrainTask
    <3>4. QED
      BY <2>12, <3>2, <3>3 DEF CommitOutbox
  <2>13. ASSUME NEW d \in Drainer, StartDrain(d) PROVE IInv'
    <3>1. "select" \in DrainPc
      BY DEF DrainPc
    <3>2. /\ drain'[d].pc = "select" /\ drain'[d].todo = drain[d].todo
          /\ \A e \in Drainer \ {d} : drain'[e] = drain[e]
      BY <2>13, <3>1, DrainToEffect DEF StartDrain, TypeOK
    <3>3. QED
      BY <2>13, <3>2 DEF StartDrain, DrainFrame, AfterHandover
  <2>14. ASSUME NEW d \in Drainer, SelectPending(d) PROVE IInv'
    <3>1. pc' = pc /\ handed' = handed /\ live' = live /\ disk' = disk
      BY <2>14 DEF SelectPending, DrainFrame
    <3>2. /\ drain'[d].pc = "loop"
          /\ \A m \in drain'[d].todo : m \in live.outbox /\ m \in Message
          /\ \A e \in Drainer \ {d} : drain'[e] = drain[e]
      <4>1. \A m \in PendingOutbox : m \in live.outbox /\ m \in Message
        BY DEF TypeOK, Db, PendingOutbox
      <4>2. QED
        BY <2>14, <4>1 DEF SelectPending, TypeOK
    <3>3. QED
      BY <3>1, <3>2 DEF AfterHandover
  <2>15. ASSUME NEW d \in Drainer, NextPending(d) PROVE IInv'
    <3>1. /\ pc' = pc /\ handed' = handed /\ live' = live /\ disk' = disk
          /\ drain[d].pc = "loop"
      BY <2>15 DEF NextPending, DrainFrame
    <3>2. PICK m \in drain[d].todo :
            drain' = [drain EXCEPT ![d] =
                        [pc |-> IF Known(m) THEN "send" ELSE "loop",
                         pending |-> @.pending, todo |-> @.todo \ {m},
                         cur |-> IF Known(m) THEN m ELSE 0]]
      BY <2>15 DEF NextPending
    <3>3. /\ drain'[d].todo = drain[d].todo \ {m}
          /\ \/ drain'[d].pc = "send" /\ drain'[d].cur = m
             \/ drain'[d].pc = "loop"
          /\ \A e \in Drainer \ {d} : drain'[e] = drain[e]
      BY <3>2 DEF TypeOK
    <3>4. QED
      BY <3>1, <3>3 DEF AfterHandover
  <2>16. ASSUME NEW d \in Drainer, DrainEnds(d) PROVE IInv'
    <3>1. /\ drain'[d] = NoDrain
          /\ \A e \in Drainer \ {d} : drain'[e] = drain[e]
      BY <2>16, DrainStopsEffect DEF DrainEnds, TypeOK
    <3>2. QED
      BY <2>16, <3>1 DEF DrainEnds, DrainFrame, AfterHandover, NoDrain
  <2>17. ASSUME NEW d \in Drainer, DrainSend(d) PROVE IInv'
    <3> DEFINE c == drain[d].cur
    <3>1. /\ pc' = pc /\ live' = live /\ disk' = disk
          /\ drain[d].pc = "send" /\ c \in Message
      BY <2>17 DEF DrainSend, DrainFrame, TypeOK
    <3>2. PICK l \in {"markSent", "loop"} :
            /\ DrainTo(d, l)
            /\ l = "markSent" => HandOver(c)
            /\ l = "loop" => handed' = handed
      BY <2>17 DEF DrainSend
    <3>3. /\ drain'[d].pc = l /\ drain'[d].todo = drain[d].todo
          /\ l = "markSent" => drain'[d].cur = c
          /\ \A e \in Drainer \ {d} : drain'[e] = drain[e]
      BY <3>2, DrainToEffect DEF TypeOK, DrainPc
    <3>4. /\ \A k \in Message : handed[k] > 0 => handed'[k] > 0
          /\ l = "markSent" => handed'[c] > 0
          /\ \A k \in Message \ {c} : handed'[k] = handed[k]
      BY <3>1, <3>2 DEF HandOver, TypeOK
    <3>5. pc[c] # "new"
      BY <3>1
    <3> HIDE DEF c
    <3>6. AckedIsSafe' /\ OutboxRowHasMessage' /\ StatusTruthful' /\ SendersKnow'
      BY <3>1, <3>4
    <3>7. DrainsKnow'
      BY <3>1, <3>3, <3>4, <3>5 DEF c, TypeOK, AfterHandover
    <3>8. OnlyAskedIsQueued' /\ RemovalFollowsHandover'
      BY <3>1, <3>4, <3>5 DEF TypeOK, Db
    <3>9. QED
      BY <3>6, <3>7, <3>8
  <2>18. ASSUME NEW d \in Drainer, MarkSent(d) PROVE IInv'
    <3> DEFINE c == drain[d].cur
    <3>1. /\ pc' = pc /\ handed' = handed
          /\ drain[d].pc = "markSent" /\ c \in Message /\ handed[c] > 0
      BY <2>18 DEF MarkSent, DrainFrame, TypeOK, AfterHandover
    <3>2. PICK l \in {"commitSent", "loop"} : DrainTo(d, l)
      BY <2>18 DEF MarkSent
    <3>3. /\ drain'[d].pc = l /\ drain'[d].todo = drain[d].todo
          /\ l # "loop" => drain'[d].cur = c
          /\ \A e \in Drainer \ {d} : drain'[e] = drain[e]
      BY <3>2, DrainToEffect DEF TypeOK, DrainPc
    <3>4. /\ disk' = disk /\ live'.outbox = live.outbox
          /\ \/ live'.hist = live.hist
             \/ live.hist[c] # "none" /\ live'.hist = [live.hist EXCEPT ![c] = "sent"]
      <4>1. "sent" \in RowStatus \ {"none"}
        BY DEF RowStatus
      <4>2. CASE Raises
        BY <4>2, RaisesEffect
      <4>3. CASE UpdateStatus(c, "sent") /\ disk' = disk
        BY <3>1, <4>1, <4>3, UpdateStatusEffect DEF TypeOK
      <4>4. QED
        BY <2>18, <4>2, <4>3 DEF MarkSent
    <3>5. DrainsKnow'
      BY <3>1, <3>3 DEF TypeOK, AfterHandover
    <3>6. QED
      BY <3>1, <3>4, <3>5 DEF TypeOK, Db
  <2>19. ASSUME NEW d \in Drainer, CommitMarkSent(d) PROVE IInv'
    <3> DEFINE c == drain[d].cur
    <3>1. /\ pc' = pc /\ handed' = handed
          /\ drain[d].pc = "commitSent" /\ c \in Message /\ handed[c] > 0
      BY <2>19 DEF CommitMarkSent, DrainCommits, DrainFrame, TypeOK, AfterHandover
    <3>2. PICK l \in {"markDelivered", "loop"} : DrainTo(d, l)
      BY <2>19 DEF CommitMarkSent, DrainCommits
    <3>3. /\ drain'[d].pc = l /\ drain'[d].todo = drain[d].todo
          /\ l # "loop" => drain'[d].cur = c
          /\ \A e \in Drainer \ {d} : drain'[e] = drain[e]
      BY <3>2, DrainToEffect DEF TypeOK, DrainPc
    <3>4. live' = live /\ disk' \in {live, disk}
      BY <2>19, RaisesEffect DEF CommitMarkSent, DrainCommits, Commit
    <3>5. DrainsKnow'
      BY <3>1, <3>3 DEF TypeOK, AfterHandover
    <3>6. QED
      BY <3>1, <3>4, <3>5 DEF TypeOK, Db
  <2>20. ASSUME NEW d \in Drainer, MarkDelivered(d) PROVE IInv'
    <3> DEFINE c == drain[d].cur
    <3>1. /\ pc' = pc /\ handed' = handed
          /\ drain[d].pc = "markDelivered" /\ c \in Message /\ handed[c] > 0
      BY <2>20 DEF MarkDelivered, DrainFrame, TypeOK, AfterHandover
    <3>2. PICK l \in {"deleteOutbox", "loop"} : DrainTo(d, l)
      BY <2>20 DEF MarkDelivered
    <3>3. /\ drain'[d].pc = l /\ drain'[d].todo = drain[d].todo
          /\ l # "loop" => drain'[d].cur = c
          /\ \A e \in Drainer \ {d} : drain'[e] = drain[e]
      BY <3>2, DrainToEffect DEF TypeOK, DrainPc
    <3>4. /\ disk' = disk /\ live'.outbox = live.outbox
          /\ \/ live'.hist = live.hist
             \/ live.hist[c] # "none" /\ live'.hist = [live.hist EXCEPT ![c] = "delivered"]
      <4>1. "delivered" \in RowStatus \ {"none"}
        BY DEF RowStatus
      <4>2. CASE Raises
        BY <4>2, RaisesEffect
      <4>3. CASE UpdateStatus(c, "delivered") /\ disk' = disk
        BY <3>1, <4>1, <4>3, UpdateStatusEffect DEF TypeOK
      <4>4. QED
        BY <2>20, <4>2, <4>3 DEF MarkDelivered
    <3>5. DrainsKnow'
      BY <3>1, <3>3 DEF TypeOK, AfterHandover
    <3>6. QED
      BY <3>1, <3>4, <3>5 DEF TypeOK, Db
  <2>21. ASSUME NEW d \in Drainer, DeleteOutbox(d) PROVE IInv'
    <3> DEFINE c == drain[d].cur
    <3>1. /\ pc' = pc /\ handed' = handed
          /\ drain[d].pc = "deleteOutbox" /\ c \in Message /\ handed[c] > 0
      BY <2>21 DEF DeleteOutbox, DrainFrame, TypeOK, AfterHandover
    <3>2. PICK l \in {"commitDelivered", "loop"} : DrainTo(d, l)
      BY <2>21 DEF DeleteOutbox
    <3>3. /\ drain'[d].pc = l /\ drain'[d].todo = drain[d].todo
          /\ l # "loop" => drain'[d].cur = c
          /\ \A e \in Drainer \ {d} : drain'[e] = drain[e]
      BY <3>2, DrainToEffect DEF TypeOK, DrainPc
    <3>4. /\ disk' = disk /\ live'.hist = live.hist
          /\ live'.outbox \in {live.outbox, live.outbox \ {c}}
      <4>1. live.outbox \ {c} \in SUBSET Message
        BY DEF TypeOK, Db
      <4>2. CASE Raises
        BY <4>2, RaisesEffect
      <4>3. CASE live' = [live EXCEPT !.outbox = @ \ {c}] /\ disk' = disk
        BY <4>1, <4>3, OutboxEffect DEF TypeOK
      <4>4. QED
        BY <2>21, <4>2, <4>3 DEF DeleteOutbox
    <3>5. DrainsKnow'
      BY <3>1, <3>3 DEF TypeOK, AfterHandover
    <3>6. QED
      BY <3>1, <3>4, <3>5 DEF TypeOK, Db
  <2>22. ASSUME NEW d \in Drainer, CommitDelivered(d) PROVE IInv'
    <3> DEFINE c == drain[d].cur
    <3>1. /\ pc' = pc /\ handed' = handed
          /\ drain[d].pc = "commitDelivered" /\ c \in Message /\ handed[c] > 0
      BY <2>22 DEF CommitDelivered, DrainCommits, DrainFrame, TypeOK, AfterHandover
    <3>2. DrainTo(d, "loop")
      BY <2>22 DEF CommitDelivered, DrainCommits
    <3>3. /\ drain'[d].pc = "loop" /\ drain'[d].todo = drain[d].todo
          /\ \A e \in Drainer \ {d} : drain'[e] = drain[e]
      BY <3>2, DrainToEffect DEF TypeOK, DrainPc
    <3>4. live' = live /\ disk' \in {live, disk}
      BY <2>22, RaisesEffect DEF CommitDelivered, DrainCommits, Commit
    <3>5. DrainsKnow'
      BY <3>1, <3>3 DEF TypeOK, AfterHandover
    <3>6. QED
      BY <3>1, <3>4, <3>5 DEF TypeOK, Db
  <2>23. ASSUME NEW c \in Contact,
                PeerUp(c) \/ PeerDown(c) \/ RemoveContact(c) \/ AddContact(c)
         PROVE IInv'
    BY <2>23 DEF PeerUp, PeerDown, RemoveContact, AddContact
  <2>24. CASE Crash
    BY <2>24 DEF Crash, NoDrain, SendOver, AfterHandover, TypeOK
  <2>25. CASE UNCHANGED vars
    BY <2>25 DEF vars
  <2>26. ASSUME NEW d \in Drainer, ReadRaises(d) PROVE IInv'
    <3>1. /\ pc' = pc /\ handed' = handed /\ live' = live /\ disk' = disk
          /\ drain'[d] = NoDrain
          /\ \A e \in Drainer \ {d} : drain'[e] = drain[e]
      BY <2>26, RaisesEffect, DrainStopsEffect DEF ReadRaises, DrainFrame, TypeOK
    <3>2. QED
      BY <3>1 DEF AfterHandover, NoDrain
  <2>27. QED
    BY <2>1, <2>2, <2>3, <2>4, <2>5, <2>6, <2>7, <2>8, <2>9, <2>10, <2>11,
       <2>12, <2>13, <2>14, <2>15, <2>16, <2>17, <2>18, <2>19, <2>20, <2>21,
       <2>22, <2>23, <2>24, <2>25, <2>26 DEF Next, SendStep, DrainStep
<1>3. QED
  BY <1>1, <1>2, TypeCorrect, PTL DEF Spec

(* chat.send_message answers only for a message handed over or durably     *)
(* queued, for any number of messages, overlapping drains, crashes and     *)
(* failing statements.                                                     *)
THEOREM AnsweredIsKept == Spec => []AckedIsSafe
  BY Safety, PTL DEF IInv

(* get_pending_outbox finds every row of outbox.                           *)
THEOREM OutboxJoins == Spec => []OutboxRowHasMessage
  BY Safety, PTL DEF IInv

(* chat.get_history shows no transmission that did not happen.             *)
THEOREM HistoryIsTruthful == Spec => []StatusTruthful
  BY Safety, PTL DEF IInv

-----------------------------------------------------------------------------
(* A step that starts no call, hands nothing over and leaves on disk what  *)
(* was there or what the connection sees is a write of the promise.        *)
LEMMA WriteStep ==
  ASSUME TypeOK, TypeOK', IInv, IInv',
         \A m \in Message : /\ pc'[m] = "new" <=> pc[m] = "new"
                            /\ pc[m] = "done" => pc'[m] = "done"
                            /\ handed'[m] = handed[m],
         disk' \in {disk, live}
  PROVE  Promise!Next
<1> DEFINE Q == disk'.outbox
           A == {m \in Message : pc'[m] = "done"}
<1>1. Q \in SUBSET Message
  BY DEF TypeOK, Db
<1>2. A \in SUBSET Message
  OBVIOUS
<1>3. Q \subseteq {m \in Message : pc[m] # "new"}
  BY <1>1 DEF IInv, OnlyAskedIsQueued
<1>4. disk.outbox \ Q \subseteq {m \in Message : handed[m] > 0}
  BY DEF TypeOK, Db, IInv, RemovalFollowsHandover
<1>5. A \subseteq {m \in Message : handed[m] > 0} \cup Q
  BY DEF IInv, AckedIsSafe
<1>6. PICK R \in SUBSET Message, B \in SUBSET Message : R = Q /\ B = A
  BY <1>1, <1>2
<1>7. Promise!Write(R, B)
  BY <1>3, <1>4, <1>5, <1>6 DEF Promise!Write
<1>8. QED
  BY <1>7 DEF Promise!Next

(* The service implements the promise of Delivery.                         *)
THEOREM Refinement == Spec => KeepsPromise
<1>1. Init => Promise!Init
  BY DEF Init, Promise!Init, EmptyDb
<1>2. TypeOK /\ TypeOK' /\ IInv /\ IInv' /\ [Next]_vars
        => [Promise!Next]_(Promise!vars)
  <2> SUFFICES ASSUME TypeOK, TypeOK', IInv, IInv', [Next]_vars
               PROVE  [Promise!Next]_(Promise!vars)
    OBVIOUS
  <2>1. ASSUME NEW c \in Contact,
               StartChat(c) \/ IncomingOpensChat(c) \/ CommitChat(c)
        PROVE Promise!Next
    <3>1. pc' = pc /\ handed' = handed /\ disk' \in {disk, live}
      BY <2>1, RaisesEffect DEF StartChat, IncomingOpensChat, CommitChat, Commit
    <3>2. QED
      BY <3>1, WriteStep
  <2>2. ASSUME NEW m \in Message, SendMessage(m) PROVE Promise!Next
    <3>1. {k \in Message : pc'[k] # "new"} = {k \in Message : pc[k] # "new"} \cup {m}
      BY <2>2 DEF SendMessage, GoTo, TypeOK
    <3>2. {k \in Message : pc'[k] = "done"} = {k \in Message : pc[k] = "done"}
      BY <2>2 DEF SendMessage, GoTo, TypeOK
    <3>3. handed' = handed /\ disk' = disk /\ pc[m] = "new"
      BY <2>2 DEF SendMessage
    <3>4. Promise!Ask(m)
      BY <3>1, <3>2, <3>3 DEF Promise!Ask
    <3>5. QED
      BY <3>4 DEF Promise!Next
  <2>3. ASSUME NEW m \in Message, HandOver(m), pc[m] # "new", disk' = disk,
               \A k \in Message : /\ pc'[k] = "new" <=> pc[k] = "new"
                                  /\ pc'[k] = "done" <=> pc[k] = "done"
        PROVE Promise!Next
    <3>1. {k \in Message : handed'[k] > 0} = {k \in Message : handed[k] > 0} \cup {m}
      BY <2>3 DEF HandOver, TypeOK
    <3>2. {k \in Message : pc'[k] # "new"} = {k \in Message : pc[k] # "new"}
      BY <2>3
    <3>3. {k \in Message : pc'[k] = "done"} = {k \in Message : pc[k] = "done"}
      BY <2>3
    <3>4. Promise!Transmit(m)
      BY <2>3, <3>1, <3>2, <3>3 DEF Promise!Transmit
    <3>5. QED
      BY <3>4 DEF Promise!Next
  <2>4. ASSUME NEW m \in Message, SendStep(m) PROVE Promise!Next
    <3>1. CASE AttemptSucceeds(m)
      <4>1. /\ HandOver(m) /\ pc[m] # "new" /\ disk' = disk
            /\ \A k \in Message : /\ pc'[k] = "new" <=> pc[k] = "new"
                                  /\ pc'[k] = "done" <=> pc[k] = "done"
        BY <3>1 DEF AttemptSucceeds, GoTo, TypeOK
      <4>2. QED
        BY <4>1, <2>3
    <3>2. CASE ~AttemptSucceeds(m)
      <4>1. handed' = handed /\ disk' \in {disk, live}
        BY <2>4, <3>2, RaisesEffect DEF SendStep, AttemptFails, SaveSent,
           CommitSent, SavePending, CommitPending, InsertOutbox, CommitOutbox,
           SenderFrame, Commit
      <4>2. PICK l \in SendPc \ {"new"} : GoTo(m, l)
        BY <2>4, <3>2 DEF SendStep, AttemptFails, SaveSent, CommitSent,
           SavePending, CommitPending, InsertOutbox, CommitOutbox, SendPc
      <4>3. pc[m] # "new" /\ pc[m] # "done"
        BY <2>4, <3>2 DEF SendStep, AttemptFails, SaveSent, CommitSent,
           SavePending, CommitPending, InsertOutbox, CommitOutbox
      <4>4. \A k \in Message : /\ pc'[k] = "new" <=> pc[k] = "new"
                               /\ pc[k] = "done" => pc'[k] = "done"
        BY <4>2, <4>3, GoToEffect DEF TypeOK
      <4>5. QED
        BY <4>1, <4>4, WriteStep
    <3>3. QED
      BY <3>1, <3>2
  <2>5. ASSUME NEW d \in Drainer, StartDrain(d) \/ DrainStep(d)
        PROVE Promise!Next
    <3>1. CASE drain[d].pc = "send" /\ HandOver(drain[d].cur) /\ DrainSend(d)
      <4>1. /\ drain[d].cur \in Message /\ pc[drain[d].cur] # "new"
            /\ disk' = disk /\ pc' = pc
        BY <3>1 DEF TypeOK, IInv, DrainsKnow, DrainSend, DrainFrame
      <4>2. QED
        BY <3>1, <4>1, <2>3
    <3>2. CASE ~(drain[d].pc = "send" /\ HandOver(drain[d].cur) /\ DrainSend(d))
      <4>1. pc' = pc
        BY <2>5 DEF StartDrain, DrainStep, ReadRaises, SelectPending, NextPending, DrainEnds,
           DrainSend, MarkSent, CommitMarkSent, MarkDelivered, DeleteOutbox,
           CommitDelivered, DrainCommits, DrainFrame
      <4>2. handed' = handed
        BY <2>5, <3>2 DEF StartDrain, DrainStep, ReadRaises, SelectPending, NextPending,
           DrainEnds, DrainSend, MarkSent, CommitMarkSent, MarkDelivered,
           DeleteOutbox, CommitDelivered, DrainCommits
      <4>3. disk' \in {disk, live}
        BY <2>5, RaisesEffect DEF StartDrain, DrainStep, ReadRaises, SelectPending,
           NextPending, DrainEnds, DrainSend, MarkSent, CommitMarkSent,
           MarkDelivered, DeleteOutbox, CommitDelivered, DrainCommits, Commit
      <4>4. QED
        BY <4>1, <4>2, <4>3, WriteStep
    <3>3. QED
      BY <3>1, <3>2
  <2>6. ASSUME NEW c \in Contact,
               PeerUp(c) \/ PeerDown(c) \/ RemoveContact(c) \/ AddContact(c)
        PROVE Promise!Next
    <3>1. pc' = pc /\ handed' = handed /\ disk' = disk
      BY <2>6 DEF PeerUp, PeerDown, RemoveContact, AddContact
    <3>2. QED
      BY <3>1, WriteStep
  <2>7. CASE Crash
    <3>1. /\ handed' = handed /\ disk' = disk
          /\ \A k \in Message : /\ pc'[k] = "new" <=> pc[k] = "new"
                                /\ pc[k] = "done" => pc'[k] = "done"
      BY <2>7 DEF Crash, SendOver, TypeOK
    <3>2. QED
      BY <3>1, WriteStep
  <2>8. CASE UNCHANGED vars
    BY <2>8 DEF vars, Promise!vars
  <2>9. QED
    BY <2>1, <2>2, <2>4, <2>5, <2>6, <2>7, <2>8 DEF Next
<1>3. QED
  BY <1>1, <1>2, TypeCorrect, Safety, PTL DEF Spec, KeepsPromise, Promise!Spec
=============================================================================
