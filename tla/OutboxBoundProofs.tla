-------------------------- MODULE OutboxBoundProofs --------------------------
(***************************************************************************)
(* Proofs about Outbox under the two assumptions its remaining invariants  *)
(* are stated with: no statement fails, and drains do not overlap.         *)
(***************************************************************************)
EXTENDS OutboxProofs

(* Rows of chats: whatever is queued, open or under way has its chat.      *)
OpenIsSaved == open \subseteq live.chats

QueuedHasChat ==
  /\ \A m \in live.outbox : dest[m] \in live.chats
  /\ \A m \in disk.outbox : dest[m] \in disk.chats

SenderHasChat ==
  \A m \in Message : pc[m] \notin SendOver \cup {"new"}
                       => dest[m] \in live.chats

ChatInv == OpenIsSaved /\ QueuedHasChat /\ SenderHasChat

(* A step that opens no session, queues nothing and starts no call.        *)
LEMMA PlainStep ==
  ASSUME TypeOK, TypeOK', ChatInv, dest' = dest, open' = open,
         live'.chats = live.chats, live'.outbox \subseteq live.outbox,
         disk' \in {disk, live},
         \A m \in Message : pc'[m] \notin SendOver \cup {"new"}
                              => pc[m] \notin SendOver \cup {"new"}
  PROVE  ChatInv'
  BY DEF ChatInv, OpenIsSaved, QueuedHasChat, SenderHasChat

(* No statement or commit raises.                                          *)
LEMMA NothingRaises ==
  ASSUME TypeOK, MaxFaults = 0
  PROVE  ~Raises
  BY BoundsAssumption DEF TypeOK, Raises

(* What a new or opened chat does to the tables.                           *)
LEMMA NewChat ==
  ASSUME live \in Db, NEW c \in Contact,
         live' = [live EXCEPT !.chats = @ \cup {c}]
  PROVE  live'.chats = live.chats \cup {c} /\ live'.outbox = live.outbox
  BY DEF Db

(* The statements of a drain keep the chats.                               *)
LEMMA StatusKeepsChats ==
  ASSUME live \in Db, NEW m \in Message, NEW s \in RowStatus,
         SetStatus(m, s) \/ UpdateStatus(m, s)
  PROVE  live'.chats = live.chats /\ live'.outbox = live.outbox
  BY DEF Db, SetStatus, UpdateStatus

(* As long as no statement fails, every session, every queued row and     *)
(* every call under way has its row of chats.                              *)
THEOREM ChatSafety == ASSUME MaxFaults = 0 PROVE Spec => []ChatInv
<1>1. Init => ChatInv
  BY DEF Init, EmptyDb, ChatInv, OpenIsSaved, QueuedHasChat, SenderHasChat
<1>2. TypeOK /\ TypeOK' /\ ChatInv /\ [Next]_vars => ChatInv'
  <2> SUFFICES ASSUME TypeOK, TypeOK', ChatInv, [Next]_vars PROVE ChatInv'
    OBVIOUS
  <2>0. ~Raises
    BY NothingRaises
  <2>1. ASSUME NEW c \in Contact, StartChat(c) \/ IncomingOpensChat(c)
        PROVE  ChatInv'
    <3>1. /\ open' = open \cup {c} /\ live' = [live EXCEPT !.chats = @ \cup {c}]
          /\ disk' = disk /\ pc' = pc /\ dest' = dest
      BY <2>0, <2>1 DEF StartChat, IncomingOpensChat
    <3>2. live'.chats = live.chats \cup {c} /\ live'.outbox = live.outbox
      BY <3>1, NewChat DEF TypeOK
    <3>3. QED
      BY <3>1, <3>2 DEF ChatInv, OpenIsSaved, QueuedHasChat, SenderHasChat
  <2>2. ASSUME NEW c \in Contact, CommitChat(c) PROVE ChatInv'
    BY <2>0, <2>2, PlainStep DEF CommitChat, Commit
  <2>3. ASSUME NEW m \in Message, SendMessage(m) PROVE ChatInv'
    <3>1. /\ open' = open \cup {dest[m]} /\ live' = live /\ disk' = disk
          /\ dest' = dest /\ HasSession(dest[m])
      BY <2>3 DEF SendMessage
    <3>2. \A k \in Message : pc'[k] = IF k = m THEN "attempt" ELSE pc[k]
      BY <2>3, GoToEffect DEF SendMessage, TypeOK
    <3>3. dest[m] \in live.chats
      BY <3>1 DEF HasSession, ChatInv, OpenIsSaved
    <3>4. QED
      BY <3>1, <3>2, <3>3 DEF ChatInv, OpenIsSaved, QueuedHasChat, SenderHasChat
  <2>4. ASSUME NEW m \in Message, SendStep(m) PROVE ChatInv'
    <3>1. dest' = dest /\ open' = open
      BY <2>4 DEF SendStep, AttemptSucceeds, AttemptFails, SaveSent, CommitSent,
         SavePending, CommitPending, InsertOutbox, CommitOutbox, SenderFrame
    <3>2. pc[m] \notin SendOver \cup {"new"}
      BY <2>4 DEF SendStep, AttemptSucceeds, AttemptFails, SaveSent, CommitSent,
         SavePending, CommitPending, InsertOutbox, CommitOutbox, SendOver
    <3>3. \E l \in SendPc : GoTo(m, l)
      BY <2>4 DEF SendStep, AttemptSucceeds, AttemptFails, SaveSent, CommitSent,
         SavePending, CommitPending, InsertOutbox, CommitOutbox, SendPc
    <3>4. \A k \in Message : k # m => pc'[k] = pc[k]
      BY <3>3, GoToEffect DEF TypeOK
    <3>5. \A k \in Message : pc'[k] \notin SendOver \cup {"new"}
                               => pc[k] \notin SendOver \cup {"new"}
      BY <3>2, <3>4
    <3>6. CASE InsertOutbox(m)
      <4>1. live.outbox \cup {m} \in SUBSET Message
        BY DEF TypeOK, Db
      <4>2. live' = [live EXCEPT !.outbox = live.outbox \cup {m}] /\ disk' = disk
        BY <2>0, <3>6 DEF InsertOutbox
      <4>3. live'.outbox = live.outbox \cup {m} /\ live'.chats = live.chats
        BY <4>1, <4>2 DEF TypeOK, Db
      <4>4. dest[m] \in live.chats
        BY <3>2 DEF ChatInv, SenderHasChat
      <4>5. QED
        BY <3>1, <3>5, <4>2, <4>3, <4>4 DEF ChatInv, OpenIsSaved, QueuedHasChat,
           SenderHasChat
    <3>7. CASE ~InsertOutbox(m)
      <4>1. "sent" \in RowStatus /\ "pending" \in RowStatus
        BY DEF RowStatus
      <4>2. /\ disk' \in {disk, live}
            /\ \/ live' = live
               \/ SetStatus(m, "sent")
               \/ SetStatus(m, "pending")
        BY <2>0, <2>4, <3>7 DEF SendStep, AttemptSucceeds, AttemptFails,
           SaveSent, CommitSent, SavePending, CommitPending, CommitOutbox, Commit
      <4>3. live'.chats = live.chats /\ live'.outbox = live.outbox
        BY <4>1, <4>2, StatusKeepsChats DEF TypeOK
      <4>4. QED
        BY <3>1, <3>5, <4>2, <4>3, PlainStep
    <3>8. QED
      BY <3>6, <3>7
  <2>5. ASSUME NEW d \in Drainer, StartDrain(d) \/ DrainStep(d) PROVE ChatInv'
    <3> DEFINE c == drain[d].cur
    <3>1. dest' = dest /\ open' = open /\ pc' = pc
      BY <2>5 DEF StartDrain, DrainStep, ReadRaises, SelectPending, NextPending,
         DrainEnds, DrainSend, MarkSent, CommitMarkSent, MarkDelivered,
         DeleteOutbox, CommitDelivered, DrainCommits, DrainFrame
    <3>2. /\ disk' \in {disk, live}
          /\ \/ live' = live
             \/ UpdateStatus(c, "sent") /\ drain[d].pc = "markSent"
             \/ UpdateStatus(c, "delivered") /\ drain[d].pc = "markDelivered"
             \/ live' = [live EXCEPT !.outbox = @ \ {c}]
      BY <2>0, <2>5 DEF StartDrain, DrainStep, ReadRaises, SelectPending,
         NextPending, DrainEnds, DrainSend, MarkSent, CommitMarkSent,
         MarkDelivered, DeleteOutbox, CommitDelivered, DrainCommits, Commit
    <3>3. "sent" \in RowStatus /\ "delivered" \in RowStatus
      BY DEF RowStatus
    <3>4. drain[d].pc = "markSent" \/ drain[d].pc = "markDelivered"
            => c \in Message
      BY DEF TypeOK, AfterHandover
    <3>5. live'.chats = live.chats /\ live'.outbox \subseteq live.outbox
      <4>1. CASE live' = live
        BY <4>1
      <4>2. CASE live' = [live EXCEPT !.outbox = @ \ {c}]
        BY <4>2 DEF TypeOK, Db
      <4>3. CASE UpdateStatus(c, "sent") /\ drain[d].pc = "markSent"
        BY <3>3, <3>4, <4>3, StatusKeepsChats DEF TypeOK
      <4>4. CASE UpdateStatus(c, "delivered") /\ drain[d].pc = "markDelivered"
        BY <3>3, <3>4, <4>4, StatusKeepsChats DEF TypeOK
      <4>5. QED
        BY <3>2, <4>1, <4>2, <4>3, <4>4
    <3>6. QED
      BY <3>1, <3>2, <3>5, PlainStep
  <2>6. ASSUME NEW c \in Contact,
               PeerUp(c) \/ PeerDown(c) \/ RemoveContact(c) \/ AddContact(c)
        PROVE ChatInv'
    BY <2>6, PlainStep DEF PeerUp, PeerDown, RemoveContact, AddContact
  <2>7. CASE Crash
    <3>1. /\ live' = disk /\ disk' = disk /\ open' = disk.chats /\ dest' = dest
          /\ \A m \in Message : pc'[m] \in SendOver \cup {"new"}
      BY <2>7 DEF Crash, SendOver
    <3>2. QED
      BY <3>1 DEF ChatInv, OpenIsSaved, QueuedHasChat, SenderHasChat
  <2>8. CASE UNCHANGED vars
    BY <2>8, PlainStep DEF vars
  <2>9. QED
    BY <2>1, <2>2, <2>3, <2>4, <2>5, <2>6, <2>7, <2>8 DEF Next
<1>3. QED
  BY <1>1, <1>2, TypeCorrect, PTL DEF Spec

(* _drain_outbox finds the chat of every durable outbox row, as long as no *)
(* statement fails: a restart can send it.                                 *)
THEOREM ChatsAreKept == ASSUME MaxFaults = 0 PROVE Spec => []OutboxRowHasChat
<1>1. ChatInv => OutboxRowHasChat
  BY DEF ChatInv, QueuedHasChat, OutboxRowHasChat
<1>2. QED
  BY <1>1, ChatSafety, PTL


-----------------------------------------------------------------------------
(* How often a message is handed over                                      *)

(* A message was handed over at most once for each crash or failing        *)
(* statement (Spare: it may be handed over), or once more (Within).        *)
Spare(m)  == handed[m] <= crashes + faults
Within(m) == handed[m] <= 1 + crashes + faults

(* Where the call of a message is: before its transmission, on its way to  *)
(* the outbox after it failed, or past its outbox row.                     *)
Fresh(m)    == pc[m] = "new" \/ pc[m] = "attempt"
Unqueued(m) == \/ pc[m] = "savePending" \/ pc[m] = "commitPending"
               \/ pc[m] = "insertOutbox"
Queued(m)   == \/ pc[m] = "commitOutbox" \/ pc[m] = "done"
               \/ pc[m] = "error" \/ pc[m] = "lost"

(* What a drain is about to send, and what it has sent and not removed.    *)
Sending(d, m) == drain[d].pc = "send" /\ drain[d].cur = m
Marking(d, m) ==
  /\ drain[d].cur = m
  /\ \/ drain[d].pc = "markSent" \/ drain[d].pc = "commitSent"
     \/ drain[d].pc = "markDelivered" \/ drain[d].pc = "deleteOutbox"

Taken(d, m) == m \in drain[d].todo \/ Sending(d, m)

Counted(m) ==
  /\ Within(m)
  /\ Fresh(m) => handed[m] = 0
  /\ Unqueued(m) => Spare(m)
  /\ m \in live.outbox \/ m \in disk.outbox => Queued(m)
  /\ m \in live.outbox => Spare(m) \/ \E d \in Drainer : Marking(d, m)

TakenOnce(d, m) ==
  /\ Taken(d, m) => Spare(m) /\ Queued(m)
  /\ Sending(d, m) => m \notin drain[d].todo

HandoverInv ==
  /\ \A m \in Message : Counted(m)
  /\ \A d \in Drainer, m \in Message : TakenOnce(d, m)

(* Crashes and failing statements only allow more handovers ...            *)
LEMMA MoreIsAllowed ==
  ASSUME TypeOK, TypeOK', NEW m \in Message, handed'[m] = handed[m],
         crashes' >= crashes, faults' >= faults
  PROVE  /\ Spare(m) => Spare(m)'
         /\ Within(m) => Within(m)'
<1>1. /\ handed[m] \in Nat /\ crashes \in Nat /\ faults \in Nat
      /\ crashes' \in Nat /\ faults' \in Nat
  BY BoundsAssumption DEF TypeOK
<1>2. QED
  BY <1>1 DEF Spare, Within

(* ... and each allows one more.                                           *)
LEMMA OneMoreIsAllowed ==
  ASSUME TypeOK, NEW m \in Message, handed'[m] = handed[m],
         crashes' + faults' = crashes + faults + 1, Within(m),
         crashes' \in Nat, faults' \in Nat
  PROVE  Spare(m)'
<1>1. handed[m] \in Nat /\ crashes \in Nat /\ faults \in Nat
  BY BoundsAssumption DEF TypeOK
<1>2. \A h, c, f, x, y \in Nat : h <= 1 + c + f /\ x + y = c + f + 1 => h <= x + y
  OBVIOUS
<1>3. handed[m] <= 1 + crashes + faults
  BY DEF Within
<1>4. handed[m] <= crashes' + faults'
  BY <1>1, <1>2, <1>3
<1>5. QED
  BY <1>4 DEF Spare

(* A statement that raises is one more fault.                              *)
LEMMA RaisesCounts ==
  ASSUME TypeOK, Raises
  PROVE  faults' = faults + 1 /\ live' = live /\ disk' = disk
  BY DEF Raises

(* A step of a call or of the environment that hands nothing over, queues  *)
(* nothing and leaves the drains alone.                                    *)
LEMMA CallerStep ==
  ASSUME TypeOK, TypeOK', HandoverInv, drain' = drain, handed' = handed,
         crashes' = crashes, faults' >= faults,
         live'.outbox = live.outbox, disk' \in {disk, live},
         \A m \in Message : /\ Fresh(m)' => Fresh(m)
                            /\ Queued(m) => Queued(m)'
                            /\ Unqueued(m)' => Spare(m)'
  PROVE  HandoverInv'
<1>1. \A m \in Message : (Spare(m) => Spare(m)') /\ (Within(m) => Within(m)')
  BY MoreIsAllowed, BoundsAssumption DEF TypeOK
<1>2. \A d \in Drainer, m \in Message : /\ Marking(d, m)' <=> Marking(d, m)
                                        /\ Sending(d, m)' <=> Sending(d, m)
                                        /\ Taken(d, m)' <=> Taken(d, m)
  BY DEF Marking, Sending, Taken
<1>3. ASSUME NEW m \in Message PROVE Counted(m)'
  <2>1. Counted(m)
    BY DEF HandoverInv
  <2>2. QED
    BY <1>1, <1>2, <2>1 DEF Counted
<1>4. ASSUME NEW d \in Drainer, NEW m \in Message PROVE TakenOnce(d, m)'
  <2>1. TakenOnce(d, m)
    BY DEF HandoverInv
  <2>2. QED
    BY <1>1, <1>2, <2>1 DEF TakenOnce
<1>5. QED
  BY <1>3, <1>4 DEF HandoverInv

(* A step of a drain that hands nothing over, queues nothing and takes up  *)
(* only what may be handed over; what it forgets to remove is a fault.     *)
LEMMA DrainerStep ==
  ASSUME TypeOK, TypeOK', HandoverInv, NEW d \in Drainer,
         pc' = pc, handed' = handed, crashes' = crashes,
         faults' = faults \/ faults' = faults + 1,
         live'.outbox \subseteq live.outbox, disk' \in {disk, live},
         \A e \in Drainer \ {d} : drain'[e] = drain[e],
         \A m \in Message :
           /\ Taken(d, m)' => Taken(d, m) \/ (Spare(m) /\ Queued(m))
           /\ Sending(d, m)' => m \notin drain'[d].todo
           /\ Marking(d, m) => \/ Marking(d, m)' \/ faults' = faults + 1
                               \/ m \notin live'.outbox
  PROVE  HandoverInv'
<1>1. faults' >= faults /\ crashes' >= crashes
  BY BoundsAssumption DEF TypeOK
<1>2. \A m \in Message : (Spare(m) => Spare(m)') /\ (Within(m) => Within(m)')
  BY <1>1, MoreIsAllowed
<1>3. \A m \in Message : faults' = faults + 1 => Spare(m)'
  <2> SUFFICES ASSUME NEW m \in Message, faults' = faults + 1 PROVE Spare(m)'
    OBVIOUS
  <2>1. /\ crashes' + faults' = crashes + faults + 1
        /\ crashes' \in Nat /\ faults' \in Nat
    BY BoundsAssumption DEF TypeOK
  <2>2. Within(m)
    BY DEF HandoverInv, Counted
  <2>3. QED
    BY <2>1, <2>2, OneMoreIsAllowed
<1>4. \A m \in Message : /\ Fresh(m)' <=> Fresh(m)
                         /\ Queued(m)' <=> Queued(m)
                         /\ Unqueued(m)' <=> Unqueued(m)
  BY DEF Fresh, Queued, Unqueued
<1>5. \A e \in Drainer \ {d}, m \in Message : /\ Marking(e, m)' <=> Marking(e, m)
                                              /\ Sending(e, m)' <=> Sending(e, m)
                                              /\ Taken(e, m)' <=> Taken(e, m)
  BY DEF Marking, Sending, Taken
<1>6. ASSUME NEW m \in Message PROVE Counted(m)'
  <2>1. Counted(m)
    BY DEF HandoverInv
  <2>2. m \in live'.outbox => Spare(m)' \/ \E e \in Drainer : Marking(e, m)'
    <3>1. CASE \E e \in Drainer : Marking(e, m)
      <4>1. PICK e \in Drainer : Marking(e, m)
        BY <3>1
      <4>2. QED
        BY <1>3, <1>5, <4>1
    <3>2. CASE ~\E e \in Drainer : Marking(e, m)
      BY <1>2, <2>1, <3>2 DEF Counted
    <3>3. QED
      BY <3>1, <3>2
  <2>3. QED
    BY <1>2, <1>4, <2>1, <2>2 DEF Counted
<1>7. ASSUME NEW e \in Drainer, NEW m \in Message PROVE TakenOnce(e, m)'
  <2>1. TakenOnce(e, m)
    BY DEF HandoverInv
  <2>2. QED
    BY <1>2, <1>4, <1>5, <2>1 DEF TakenOnce
<1>8. QED
  BY <1>6, <1>7 DEF HandoverInv

(* When drains do not overlap, each further handover of a message has a    *)
(* crash or a failing statement of its own.                                *)
THEOREM HandoverSafety ==
  ASSUME \A d, e \in Drainer : d = e
  PROVE  Spec => []HandoverInv
<1>1. Init => HandoverInv
  <2> SUFFICES ASSUME Init PROVE HandoverInv
    OBVIOUS
  <2>1. ASSUME NEW m \in Message PROVE Counted(m)
    <3>1. handed[m] = 0 /\ crashes = 0 /\ faults = 0 /\ pc[m] = "new"
      BY DEF Init
    <3>2. m \notin live.outbox /\ m \notin disk.outbox
      BY DEF Init, EmptyDb
    <3>3. Spare(m) /\ Within(m) /\ ~Unqueued(m)
      BY <3>1 DEF Spare, Within, Unqueued
    <3>4. QED
      BY <3>1, <3>2, <3>3 DEF Counted
  <2>2. ASSUME NEW d \in Drainer, NEW m \in Message PROVE TakenOnce(d, m)
    BY DEF Init, NoDrain, TakenOnce, Taken, Sending
  <2>3. QED
    BY <2>1, <2>2 DEF HandoverInv
<1>2. TypeOK /\ TypeOK' /\ HandoverInv /\ [Next]_vars => HandoverInv'
  <2> SUFFICES ASSUME TypeOK, TypeOK', HandoverInv, [Next]_vars
               PROVE  HandoverInv'
    OBVIOUS
  <2>0. faults \in Nat /\ crashes \in Nat /\ faults >= faults /\ faults + 1 >= faults
    BY BoundsAssumption DEF TypeOK
  <2>1. ASSUME NEW c \in Contact,
               StartChat(c) \/ IncomingOpensChat(c) \/ CommitChat(c)
        PROVE  HandoverInv'
    <3>1. /\ pc' = pc /\ drain' = drain /\ handed' = handed /\ crashes' = crashes
          /\ faults' = faults \/ faults' = faults + 1
          /\ disk' \in {disk, live}
      BY <2>1, RaisesCounts DEF StartChat, IncomingOpensChat, CommitChat, Commit
    <3>2. live'.outbox = live.outbox
      BY <2>1, RaisesCounts, NewChat DEF StartChat, IncomingOpensChat,
         CommitChat, Commit, TypeOK
    <3>3. faults' >= faults
      BY <2>0, <3>1
    <3>4. \A m \in Message : Unqueued(m)' => Spare(m)'
      <4>1. \A m \in Message : Unqueued(m)' => Spare(m)
        BY <3>1 DEF Unqueued, HandoverInv, Counted
      <4>2. crashes' >= crashes
        BY <2>0, <3>1
      <4>3. QED
        BY <3>1, <3>3, <4>1, <4>2, MoreIsAllowed
    <3>5. QED
      BY <3>1, <3>2, <3>3, <3>4, CallerStep DEF Fresh, Queued
  <2>2. ASSUME NEW m \in Message, SendMessage(m) \/ AttemptFails(m)
        PROVE  HandoverInv'
    <3>1. /\ drain' = drain /\ handed' = handed /\ crashes' = crashes
          /\ faults' = faults /\ disk' = disk /\ live' = live /\ Fresh(m)
      BY <2>2 DEF SendMessage, AttemptFails, Fresh
    <3>2. PICK l : (l = "attempt" \/ l = "savePending") /\ GoTo(m, l)
      BY <2>2 DEF SendMessage, AttemptFails
    <3>3. \A k \in Message : pc'[k] = IF k = m THEN l ELSE pc[k]
      BY <3>2, GoToEffect DEF TypeOK
    <3>4. \A k \in Message : Spare(k) => Spare(k)'
      BY <3>1 DEF Spare
    <3>5. Spare(m)
      <4>1. handed[m] = 0
        BY <3>1 DEF HandoverInv, Counted
      <4>2. QED
        BY <2>0, <4>1 DEF Spare
    <3>6. \A k \in Message : Unqueued(k) => Spare(k)
      BY DEF HandoverInv, Counted
    <3>7. \A k \in Message : Unqueued(k)' => Spare(k)'
      BY <3>3, <3>4, <3>5, <3>6 DEF Unqueued
    <3>8. \A k \in Message : /\ Fresh(k)' => Fresh(k)
                             /\ Queued(k) => Queued(k)'
      BY <3>1, <3>3 DEF Fresh, Queued
    <3>9. QED
      BY <2>0, <3>1, <3>7, <3>8, CallerStep
  <2>3. ASSUME NEW m \in Message, AttemptSucceeds(m) PROVE HandoverInv'
    <3>1. /\ pc[m] = "attempt" /\ drain' = drain /\ crashes' = crashes
          /\ faults' = faults /\ disk' = disk /\ live' = live
      BY <2>3 DEF AttemptSucceeds
    <3>2. \A k \in Message : pc'[k] = IF k = m THEN "saveSent" ELSE pc[k]
      BY <2>3, GoToEffect DEF AttemptSucceeds, TypeOK
    <3>3. \A k \in Message : handed'[k] = IF k = m THEN handed[m] + 1 ELSE handed[k]
      BY <2>3 DEF AttemptSucceeds, HandOver, TypeOK
    <3>4. /\ handed[m] = 0 /\ ~Queued(m)
          /\ m \notin live.outbox /\ m \notin disk.outbox
      BY <3>1 DEF Fresh, Queued, HandoverInv, Counted
    <3>5. Within(m)'
      <4>1. handed'[m] = 1
        BY <3>3, <3>4
      <4>2. QED
        BY <2>0, <3>1, <4>1 DEF Within
    <3>6. Counted(m)'
      BY <3>1, <3>2, <3>4, <3>5 DEF Counted, Fresh, Unqueued
    <3>7. ASSUME NEW k \in Message \ {m} PROVE Counted(k)'
      <4>1. Counted(k) /\ handed'[k] = handed[k] /\ pc'[k] = pc[k]
        BY <3>2, <3>3 DEF HandoverInv
      <4>2. QED
        BY <3>1, <4>1 DEF Counted, Within, Spare, Fresh, Queued, Unqueued, Marking
    <3>8. ASSUME NEW d \in Drainer, NEW k \in Message PROVE TakenOnce(d, k)'
      <4>1. TakenOnce(d, k)
        BY DEF HandoverInv
      <4>2. CASE k = m
        BY <3>1, <3>4, <4>1, <4>2 DEF TakenOnce, Taken, Sending
      <4>3. CASE k # m
        <5>1. handed'[k] = handed[k] /\ pc'[k] = pc[k]
          BY <3>2, <3>3, <4>3
        <5>2. QED
          BY <3>1, <4>1, <5>1 DEF TakenOnce, Taken, Sending, Spare, Queued
      <4>4. QED
        BY <4>2, <4>3
    <3>9. QED
      BY <3>6, <3>7, <3>8 DEF HandoverInv
  <2>4. ASSUME NEW m \in Message,
               \/ SaveSent(m) \/ CommitSent(m) \/ SavePending(m)
               \/ CommitPending(m) \/ CommitOutbox(m)
               \/ (InsertOutbox(m) /\ Raises)
        PROVE  HandoverInv'
    <3>1. /\ drain' = drain /\ handed' = handed /\ crashes' = crashes
          /\ faults' = faults \/ faults' = faults + 1
          /\ disk' \in {disk, live}
      BY <2>4, RaisesCounts DEF SaveSent, CommitSent, SavePending, CommitPending,
         InsertOutbox, CommitOutbox, SenderFrame, Commit
    <3>2. live'.outbox = live.outbox
      <4>1. "sent" \in RowStatus /\ "pending" \in RowStatus
        BY DEF RowStatus
      <4>2. live' = live \/ SetStatus(m, "sent") \/ SetStatus(m, "pending")
        BY <2>4, RaisesCounts DEF SaveSent, CommitSent, SavePending,
           CommitPending, InsertOutbox, CommitOutbox, Commit
      <4>3. QED
        BY <4>1, <4>2, StatusKeepsChats DEF TypeOK
    <3>3. \A k \in Message \ {m} : pc'[k] = pc[k]
      BY <2>4 DEF SaveSent, CommitSent, SavePending, CommitPending, InsertOutbox,
         CommitOutbox, GoTo, TypeOK
    <3>4. \/ pc'[m] = "commitSent" \/ pc'[m] = "done" \/ pc'[m] = "error"
          \/ pc'[m] = "savePending" /\ faults' = faults + 1
          \/ (pc'[m] = "commitPending" \/ pc'[m] = "insertOutbox") /\ Unqueued(m)
      <4>1. pc \in [Message -> SendPc]
        BY DEF TypeOK
      <4>2. Raises => faults' = faults + 1
        BY RaisesCounts
      <4>3. CASE SaveSent(m) \/ CommitSent(m)
        BY <4>1, <4>2, <4>3 DEF SaveSent, CommitSent, GoTo
      <4>4. CASE SavePending(m) \/ CommitPending(m) \/ CommitOutbox(m)
        BY <4>1, <4>4 DEF SavePending, CommitPending, CommitOutbox, GoTo, Unqueued
      <4>5. CASE InsertOutbox(m) /\ Raises
        BY <2>0, <4>1, <4>2, <4>5 DEF InsertOutbox, GoTo
      <4>6. QED
        BY <2>4, <4>3, <4>4, <4>5
    <3>5. ~Fresh(m) /\ (Queued(m) => pc[m] = "commitOutbox")
      BY <2>4 DEF SaveSent, CommitSent, SavePending, CommitPending, InsertOutbox,
         CommitOutbox, Fresh, Queued
    <3>6. pc[m] = "commitOutbox" => pc'[m] = "done" \/ pc'[m] = "error"
      <4>1. pc[m] = "commitOutbox" => CommitOutbox(m)
        BY <2>4 DEF SaveSent, CommitSent, SavePending, CommitPending, InsertOutbox
      <4>2. CommitOutbox(m) => pc'[m] = "done" \/ pc'[m] = "error"
        BY DEF CommitOutbox, GoTo, TypeOK
      <4>3. QED
        BY <4>1, <4>2
    <3>7. \A k \in Message : /\ Fresh(k)' => Fresh(k)
                             /\ Queued(k) => Queued(k)'
      BY <3>3, <3>4, <3>5, <3>6 DEF Fresh, Queued
    <3>8. faults' >= faults /\ crashes' >= crashes
      BY <2>0, <3>1
    <3>9. \A k \in Message : (Spare(k) => Spare(k)')
      BY <3>1, <3>8, MoreIsAllowed
    <3>10. faults' = faults + 1 => Spare(m)'
      <4> SUFFICES ASSUME faults' = faults + 1 PROVE Spare(m)'
        OBVIOUS
      <4>1. /\ crashes' + faults' = crashes + faults + 1
            /\ crashes' \in Nat /\ faults' \in Nat
        BY <2>0, <3>1
      <4>2. Within(m) /\ handed'[m] = handed[m]
        BY <3>1 DEF HandoverInv, Counted
      <4>3. QED
        BY <4>1, <4>2, OneMoreIsAllowed
    <3>11. \A k \in Message : Unqueued(k) => Spare(k)
      BY DEF HandoverInv, Counted
    <3>12. \A k \in Message : Unqueued(k)' => Spare(k)'
      BY <3>3, <3>4, <3>9, <3>10, <3>11 DEF Unqueued
    <3>13. QED
      BY <3>1, <3>2, <3>7, <3>8, <3>12, CallerStep
  <2>5. ASSUME NEW m \in Message, InsertOutbox(m), ~Raises PROVE HandoverInv'
    <3>1. /\ drain' = drain /\ handed' = handed /\ crashes' = crashes
          /\ faults' = faults /\ disk' = disk /\ Unqueued(m)
          /\ live' = [live EXCEPT !.outbox = live.outbox \cup {m}]
      BY <2>5 DEF InsertOutbox, SenderFrame, Unqueued
    <3>2. live'.outbox = live.outbox \cup {m}
      <4>1. live.outbox \cup {m} \in SUBSET Message
        BY DEF TypeOK, Db
      <4>2. QED
        BY <3>1, <4>1, OutboxEffect DEF TypeOK
    <3>3. \A k \in Message : pc'[k] = IF k = m THEN "commitOutbox" ELSE pc[k]
      BY <2>5, GoToEffect DEF InsertOutbox, TypeOK
    <3>4. \A k \in Message : /\ Fresh(k)' => Fresh(k)
                             /\ Queued(k) => Queued(k)'
                             /\ Unqueued(k)' => Unqueued(k)
      BY <3>1, <3>3 DEF Fresh, Queued, Unqueued
    <3>5. Queued(m)' /\ Spare(m)
      BY <3>1, <3>3 DEF Queued, HandoverInv, Counted
    <3>6. \A k \in Message : (Spare(k)' <=> Spare(k)) /\ (Within(k)' <=> Within(k))
      BY <3>1 DEF Spare, Within
    <3>7. ASSUME NEW k \in Message PROVE Counted(k)'
      <4>1. Counted(k) /\ \A d \in Drainer : Marking(d, k)' <=> Marking(d, k)
        BY <3>1 DEF HandoverInv, Marking
      <4>2. QED
        BY <3>1, <3>2, <3>4, <3>5, <3>6, <4>1 DEF Counted
    <3>8. ASSUME NEW d \in Drainer, NEW k \in Message PROVE TakenOnce(d, k)'
      <4>1. TakenOnce(d, k)
        BY DEF HandoverInv
      <4>2. QED
        BY <3>1, <3>4, <3>6, <4>1 DEF TakenOnce, Taken, Sending
    <3>9. QED
      BY <3>7, <3>8 DEF HandoverInv
  <2>6. ASSUME NEW d \in Drainer, StartDrain(d) PROVE HandoverInv'
    <3>1. /\ pc' = pc /\ handed' = handed /\ crashes' = crashes
          /\ faults' = faults /\ live' = live /\ disk' = disk
          /\ drain[d].pc = "idle" /\ DrainTo(d, "select")
      BY <2>6 DEF StartDrain, DrainFrame
    <3>2. "select" \in DrainPc
      BY DEF DrainPc
    <3>3. /\ drain'[d].pc = "select" /\ drain'[d].todo = drain[d].todo
          /\ \A e \in Drainer \ {d} : drain'[e] = drain[e]
      BY <3>1, <3>2, DrainToEffect DEF TypeOK
    <3>4. QED
      BY <3>1, <3>3, DrainerStep DEF Taken, Sending, Marking
  <2>7. ASSUME NEW d \in Drainer, SelectPending(d) PROVE HandoverInv'
    <3>1. /\ pc' = pc /\ handed' = handed /\ crashes' = crashes
          /\ faults' = faults /\ live' = live /\ disk' = disk
          /\ drain[d].pc = "select"
      BY <2>7 DEF SelectPending, DrainFrame
    <3>2. PendingOutbox \in SUBSET Message
      BY DEF PendingOutbox, TypeOK, Db
    <3>3. /\ drain'[d].pc = "loop"
          /\ \A e \in Drainer \ {d} : drain'[e] = drain[e]
      BY <2>7, <3>2, SelectEffect DEF SelectPending, TypeOK
    <3>4. drain'[d].todo = PendingOutbox
      BY <2>7 DEF SelectPending, TypeOK, DrainTask
    <3>5. \A e \in Drainer, m \in Message : ~Marking(e, m)
      BY <3>1 DEF Marking
    <3>6. \A m \in PendingOutbox : Spare(m) /\ Queued(m)
      BY <3>2, <3>5 DEF PendingOutbox, HandoverInv, Counted
    <3>7. \A m \in Message : /\ Taken(d, m)' => Spare(m) /\ Queued(m)
                             /\ ~Sending(d, m)'
      BY <3>3, <3>4, <3>6 DEF Taken, Sending
    <3>8. QED
      BY <3>1, <3>3, <3>5, <3>7, DrainerStep
  <2>8. ASSUME NEW d \in Drainer, NextPending(d) PROVE HandoverInv'
    <3>1. /\ pc' = pc /\ handed' = handed /\ crashes' = crashes
          /\ faults' = faults /\ live' = live /\ disk' = disk
          /\ drain[d].pc = "loop"
      BY <2>8 DEF NextPending, DrainFrame
    <3>2. PICK n \in drain[d].todo :
            drain' = [drain EXCEPT ![d] =
                        [pc |-> IF Known(n) THEN "send" ELSE "loop",
                         pending |-> @.pending, todo |-> @.todo \ {n},
                         cur |-> IF Known(n) THEN n ELSE 0]]
      BY <2>8 DEF NextPending
    <3>3. /\ drain'[d].todo = drain[d].todo \ {n}
          /\ \/ drain'[d].pc = "send" /\ drain'[d].cur = n
             \/ drain'[d].pc = "loop"
          /\ \A e \in Drainer \ {d} : drain'[e] = drain[e]
      BY <3>2 DEF TypeOK
    <3>4. \A m \in Message : ~Marking(d, m)
      BY <3>1 DEF Marking
    <3>5. \A m \in Message : /\ Taken(d, m)' => Taken(d, m)
                             /\ Sending(d, m)' => m \notin drain'[d].todo
      BY <3>3 DEF Taken, Sending
    <3>6. QED
      BY <3>1, <3>3, <3>4, <3>5, DrainerStep
  <2>9. ASSUME NEW d \in Drainer, DrainEnds(d) \/ ReadRaises(d)
        PROVE  HandoverInv'
    <3>1. /\ pc' = pc /\ handed' = handed /\ crashes' = crashes
          /\ faults' = faults \/ faults' = faults + 1
          /\ live' = live /\ disk' = disk /\ DrainStops(d)
          /\ drain[d].pc = "loop" \/ drain[d].pc = "select"
      BY <2>9, RaisesCounts DEF DrainEnds, ReadRaises, DrainFrame
    <3>2. /\ drain'[d] = NoDrain
          /\ \A e \in Drainer \ {d} : drain'[e] = drain[e]
      BY <3>1, DrainStopsEffect DEF TypeOK
    <3>3. \A m \in Message : ~Taken(d, m)' /\ ~Sending(d, m)' /\ ~Marking(d, m)
      BY <3>1, <3>2 DEF Taken, Sending, Marking, NoDrain
    <3>4. QED
      BY <3>1, <3>2, <3>3, DrainerStep
  <2>10. ASSUME NEW d \in Drainer, DrainSend(d), dest[drain[d].cur] \notin reach
         PROVE  HandoverInv'
    <3>1. /\ pc' = pc /\ handed' = handed /\ crashes' = crashes
          /\ faults' = faults /\ live' = live /\ disk' = disk
          /\ drain[d].pc = "send" /\ DrainTo(d, "loop")
      BY <2>10 DEF DrainSend, DrainFrame
    <3>2. "loop" \in DrainPc
      BY DEF DrainPc
    <3>3. /\ drain'[d].pc = "loop" /\ drain'[d].todo = drain[d].todo
          /\ \A e \in Drainer \ {d} : drain'[e] = drain[e]
      BY <3>1, <3>2, DrainToEffect DEF TypeOK
    <3>4. QED
      BY <3>1, <3>3, DrainerStep DEF Taken, Sending, Marking
  <2>11. ASSUME NEW d \in Drainer, DrainSend(d), dest[drain[d].cur] \in reach
         PROVE  HandoverInv'
    <3>0. PICK c \in Message : c = drain[d].cur
      BY <2>11 DEF DrainSend, TypeOK, AfterHandover
    <3>1. /\ pc' = pc /\ crashes' = crashes /\ faults' = faults /\ live' = live
          /\ disk' = disk /\ HandOver(c) /\ drain[d].pc = "send"
          /\ DrainTo(d, "markSent")
      BY <2>11, <3>0 DEF DrainSend, DrainFrame
    <3>2. "markSent" \in DrainPc
      BY DEF DrainPc
    <3>3. /\ drain'[d].pc = "markSent" /\ drain'[d].cur = c
          /\ drain'[d].todo = drain[d].todo
          /\ \A e \in Drainer \ {d} : drain'[e] = drain[e]
      BY <3>0, <3>1, <3>2, DrainToEffect DEF TypeOK
    <3>4. /\ handed'[c] = handed[c] + 1
          /\ \A k \in Message \ {c} : handed'[k] = handed[k]
      BY <3>1 DEF HandOver, TypeOK
    <3>5. Spare(c) /\ Queued(c) /\ c \notin drain[d].todo
      <4>1. Sending(d, c) /\ Taken(d, c)
        BY <3>0, <3>1 DEF Sending, Taken
      <4>2. QED
        BY <3>1, <4>1 DEF HandoverInv, TakenOnce
    <3>6. Counted(c)'
      <4>1. handed[c] \in Nat
        BY <3>1 DEF TypeOK
      <4>2. Within(c)'
        <5>1. \A h, x, y \in Nat : h <= x + y => h + 1 <= 1 + x + y
          OBVIOUS
        <5>2. handed[c] <= crashes + faults
          BY <3>5 DEF Spare
        <5>3. handed'[c] <= 1 + crashes' + faults'
          BY <2>0, <3>1, <3>4, <4>1, <5>1, <5>2
        <5>4. QED
          BY <5>3 DEF Within
      <4>3. Queued(c)' /\ ~Fresh(c)' /\ ~Unqueued(c)'
        BY <3>1, <3>5 DEF Queued, Fresh, Unqueued
      <4>4. Marking(d, c)'
        BY <3>3 DEF Marking
      <4>5. QED
        BY <4>2, <4>3, <4>4 DEF Counted
    <3>7. ASSUME NEW k \in Message \ {c} PROVE Counted(k)'
      <4>1. Counted(k)
        BY DEF HandoverInv
      <4>2. /\ Spare(k)' <=> Spare(k)
            /\ Within(k)' <=> Within(k)
        BY <3>1, <3>4 DEF Spare, Within
      <4>3. \A e \in Drainer : ~Marking(e, k)
        BY <3>0, <3>1 DEF Marking
      <4>4. QED
        BY <3>1, <3>4, <4>1, <4>2, <4>3 DEF Counted, Fresh, Queued, Unqueued
    <3>8. ASSUME NEW e \in Drainer, NEW k \in Message PROVE TakenOnce(e, k)'
      <4>1. e = d /\ TakenOnce(d, k)
        BY DEF HandoverInv
      <4>2. CASE k = c
        BY <3>3, <3>5, <4>1, <4>2 DEF TakenOnce, Taken, Sending
      <4>3. CASE k # c
        <5>1. Spare(k)' <=> Spare(k)
          BY <3>1, <3>4, <4>3 DEF Spare
        <5>2. QED
          BY <3>1, <3>3, <4>1, <5>1 DEF TakenOnce, Taken, Sending, Queued
      <4>4. QED
        BY <4>2, <4>3
    <3>9. QED
      BY <3>6, <3>7, <3>8 DEF HandoverInv
  <2>12. ASSUME NEW d \in Drainer,
                \/ MarkSent(d) \/ CommitMarkSent(d) \/ MarkDelivered(d)
                \/ DeleteOutbox(d) \/ CommitDelivered(d)
         PROVE  HandoverInv'
    <3> DEFINE c == drain[d].cur
    <3>1. /\ pc' = pc /\ handed' = handed /\ crashes' = crashes
          /\ faults' = faults \/ faults' = faults + 1
          /\ disk' \in {disk, live} /\ c \in Message
      BY <2>12, RaisesCounts DEF MarkSent, CommitMarkSent, MarkDelivered,
         DeleteOutbox, CommitDelivered, DrainCommits, DrainFrame, Commit,
         TypeOK, AfterHandover
    <3>2. live'.outbox \subseteq live.outbox
      <4>1. "sent" \in RowStatus /\ "delivered" \in RowStatus
        BY DEF RowStatus
      <4>2. \/ live' = live \/ UpdateStatus(c, "sent")
            \/ UpdateStatus(c, "delivered")
            \/ live' = [live EXCEPT !.outbox = @ \ {c}]
        BY <2>12, RaisesCounts DEF MarkSent, CommitMarkSent, MarkDelivered,
           DeleteOutbox, CommitDelivered, DrainCommits, Commit
      <4>3. live' = [live EXCEPT !.outbox = @ \ {c}]
              => live'.outbox \subseteq live.outbox
        BY DEF TypeOK, Db
      <4>4. QED
        BY <3>1, <4>1, <4>2, <4>3, StatusKeepsChats DEF TypeOK
    <3>3. \A m \in Message : ~Sending(d, m)
      BY <2>12 DEF Sending, MarkSent, CommitMarkSent, MarkDelivered, DeleteOutbox,
         CommitDelivered, DrainCommits
    <3>4. ASSUME NEW l \in DrainPc, DrainTo(d, l), l # "send",
                 \/ l = "commitSent" \/ l = "markDelivered" \/ l = "deleteOutbox"
                 \/ faults' = faults + 1 \/ c \notin live'.outbox
                 \/ ~Marking(d, c)
          PROVE  HandoverInv'
      <4>1. /\ drain'[d].pc = l
            /\ drain'[d].cur = IF l = "loop" THEN 0 ELSE c
            /\ drain'[d].todo = drain[d].todo
            /\ \A e \in Drainer \ {d} : drain'[e] = drain[e]
        BY <3>4, DrainToEffect DEF TypeOK
      <4>2. \A m \in Message : Taken(d, m)' => Taken(d, m)
        BY <3>4, <4>1 DEF Taken, Sending
      <4>3. \A m \in Message : ~Sending(d, m)'
        BY <3>4, <4>1 DEF Sending
      <4>4. \A m \in Message : Marking(d, m) => \/ Marking(d, m)'
                                                \/ faults' = faults + 1
                                                \/ m \notin live'.outbox
        BY <3>4, <4>1 DEF Marking
      <4>5. QED
        BY <3>1, <3>2, <4>1, <4>2, <4>3, <4>4, DrainerStep
    <3>5. /\ "loop" \in DrainPc /\ "commitSent" \in DrainPc
          /\ "markDelivered" \in DrainPc /\ "deleteOutbox" \in DrainPc
          /\ "commitDelivered" \in DrainPc
      BY DEF DrainPc
    <3>6. CASE Raises /\ DrainTo(d, "loop")
      BY <3>4, <3>5, <3>6, RaisesCounts
    <3>7. CASE MarkSent(d)
      BY <3>4, <3>5, <3>6, <3>7 DEF MarkSent
    <3>8. CASE CommitMarkSent(d)
      BY <3>4, <3>5, <3>6, <3>8 DEF CommitMarkSent, DrainCommits
    <3>9. CASE MarkDelivered(d)
      BY <3>4, <3>5, <3>6, <3>9 DEF MarkDelivered
    <3>10. CASE DeleteOutbox(d)
      <4>1. live' = [live EXCEPT !.outbox = @ \ {c}] => c \notin live'.outbox
        BY DEF TypeOK, Db
      <4>2. QED
        BY <3>4, <3>5, <3>6, <3>10, <4>1 DEF DeleteOutbox
    <3>11. CASE CommitDelivered(d)
      <4>1. DrainTo(d, "loop") /\ ~Marking(d, c)
        BY <3>11 DEF CommitDelivered, DrainCommits, Marking
      <4>2. QED
        BY <3>4, <3>5, <4>1
    <3>12. QED
      BY <2>12, <3>7, <3>8, <3>9, <3>10, <3>11
  <2>13. ASSUME NEW c \in Contact,
                PeerUp(c) \/ PeerDown(c) \/ RemoveContact(c) \/ AddContact(c)
         PROVE HandoverInv'
    <3>1. /\ pc' = pc /\ drain' = drain /\ handed' = handed /\ crashes' = crashes
          /\ faults' = faults /\ live' = live /\ disk' = disk
      BY <2>13 DEF PeerUp, PeerDown, RemoveContact, AddContact
    <3>2. QED
      BY <3>1 DEF HandoverInv, Counted, TakenOnce, Taken, Sending, Marking, Spare,
         Within, Fresh, Queued, Unqueued
  <2>14. CASE Crash
    <3>1. /\ drain' = [d \in Drainer |-> NoDrain] /\ handed' = handed
          /\ faults' = faults /\ crashes' = crashes + 1
          /\ live' = disk /\ disk' = disk
          /\ \A m \in Message :
               pc'[m] = IF pc[m] \in SendOver \cup {"new"} THEN pc[m] ELSE "lost"
      BY <2>14 DEF Crash
    <3>2. \A m \in Message : /\ Fresh(m)' => Fresh(m)
                             /\ Queued(m) => Queued(m)'
                             /\ ~Unqueued(m)'
      BY <3>1 DEF Fresh, Queued, Unqueued, SendOver
    <3>3. ASSUME NEW m \in Message PROVE Counted(m)'
      <4>1. Counted(m)
        BY DEF HandoverInv
      <4>2. Spare(m)'
        <5>1. /\ crashes' + faults' = crashes + faults + 1
              /\ crashes' \in Nat /\ faults' \in Nat
          BY <2>0, <3>1
        <5>2. handed'[m] = handed[m] /\ Within(m)
          BY <3>1, <4>1 DEF Counted
        <5>3. QED
          BY <5>1, <5>2, OneMoreIsAllowed
      <4>3. Within(m)'
        <5>1. handed'[m] \in Nat /\ crashes' \in Nat /\ faults' \in Nat
          BY BoundsAssumption DEF TypeOK
        <5>2. QED
          BY <4>2, <5>1 DEF Spare, Within
      <4>4. QED
        BY <3>1, <3>2, <4>1, <4>2, <4>3 DEF Counted
    <3>4. \A d \in Drainer, m \in Message : TakenOnce(d, m)'
      BY <3>1 DEF TakenOnce, Taken, Sending, NoDrain
    <3>5. QED
      BY <3>3, <3>4 DEF HandoverInv
  <2>15. CASE UNCHANGED vars
    BY <2>15 DEF vars, HandoverInv, Counted, TakenOnce, Taken, Sending, Marking,
       Spare, Within, Fresh, Queued, Unqueued
  <2>16. ASSUME NEW m \in Message, SendStep(m) PROVE HandoverInv'
    BY <2>2, <2>3, <2>4, <2>5, <2>16 DEF SendStep
  <2>17. ASSUME NEW d \in Drainer, DrainStep(d) PROVE HandoverInv'
    BY <2>7, <2>8, <2>9, <2>10, <2>11, <2>12, <2>17 DEF DrainStep
  <2>18. QED
    BY <2>1, <2>2, <2>6, <2>13, <2>14, <2>15, <2>16, <2>17 DEF Next
<1>3. QED
  BY <1>1, <1>2, TypeCorrect, PTL DEF Spec

(* A message reaches its transport twice only for a crash or a failing     *)
(* statement between a handover and its bookkeeping, when drains do not    *)
(* overlap.                                                                *)
THEOREM HandoversAreBounded ==
  ASSUME \A d, e \in Drainer : d = e
  PROVE  Spec => []HandoverBound
<1>1. HandoverInv => HandoverBound
  BY DEF HandoverInv, Counted, Within, HandoverBound
<1>2. QED
  BY <1>1, HandoverSafety, PTL

-----------------------------------------------------------------------------
(* The record of a transmission                                            *)

(* A call that has not saved its message has no row; a transmission that   *)
(* is on disk is a transmission in what the connection sees.               *)
Recorded(s) == s = "sent" \/ s = "delivered"

Unsaved(m) == \/ pc[m] = "new" \/ pc[m] = "attempt" \/ pc[m] = "saveSent"
              \/ pc[m] = "savePending"

RecordInv ==
  \A m \in Message :
    /\ Unsaved(m) => live.hist[m] = "none" /\ disk.hist[m] = "none"
    /\ Recorded(disk.hist[m]) => Recorded(live.hist[m])

(* A step that saves no row: statuses only move on.                        *)
LEMMA NoNewRow ==
  ASSUME TypeOK, RecordInv, disk' \in {disk, live},
         \A m \in Message :
           /\ Unsaved(m)' => Unsaved(m)
           /\ \/ live'.hist[m] = live.hist[m]
              \/ live.hist[m] # "none" /\ Recorded(live'.hist[m])
  PROVE  RecordInv'
  BY DEF RecordInv, Recorded

(* Without failing statements a message is saved once, and what is saved   *)
(* of its transmission is never taken back.                                *)
THEOREM RecordSafety == ASSUME MaxFaults = 0 PROVE Spec => []RecordInv
<1>1. Init => RecordInv
  BY DEF Init, EmptyDb, RecordInv, Recorded
<1>2. TypeOK /\ TypeOK' /\ RecordInv /\ [Next]_vars => RecordInv'
  <2> SUFFICES ASSUME TypeOK, TypeOK', RecordInv, [Next]_vars PROVE RecordInv'
    OBVIOUS
  <2>0. ~Raises
    BY NothingRaises
  <2>1. ASSUME NEW c \in Contact,
               StartChat(c) \/ IncomingOpensChat(c) \/ CommitChat(c)
        PROVE  RecordInv'
    <3>1. pc' = pc /\ disk' \in {disk, live}
      BY <2>0, <2>1 DEF StartChat, IncomingOpensChat, CommitChat, Commit
    <3>2. live'.hist = live.hist
      BY <2>0, <2>1, ChatsEffect DEF StartChat, IncomingOpensChat, CommitChat,
         Commit, TypeOK
    <3>3. QED
      BY <3>1, <3>2, NoNewRow DEF Unsaved
  <2>2. ASSUME NEW m \in Message, SendMessage(m) \/ SendStep(m)
        PROVE  RecordInv'
    <3>1. \A k \in Message \ {m} : pc'[k] = pc[k]
      BY <2>2 DEF SendMessage, SendStep, AttemptSucceeds, AttemptFails, SaveSent,
         CommitSent, SavePending, CommitPending, InsertOutbox, CommitOutbox,
         GoTo, TypeOK
    <3>2. CASE SaveSent(m) \/ SavePending(m)
      <4>1. PICK s \in RowStatus \ {"none"} : SetStatus(m, s)
        BY <2>0, <3>2 DEF SaveSent, SavePending, RowStatus
      <4>2. disk' = disk /\ Unsaved(m) /\ ~Unsaved(m)'
        BY <2>0, <3>2 DEF SaveSent, SavePending, GoTo, Unsaved, TypeOK
      <4>3. /\ live'.hist = [live.hist EXCEPT ![m] = s]
            /\ live.hist \in [Message -> RowStatus]
        BY <4>1, SetStatusEffect DEF TypeOK, Db
      <4>4. disk.hist[m] = "none"
        BY <4>2 DEF RecordInv
      <4>5. QED
        BY <3>1, <4>2, <4>3, <4>4 DEF RecordInv, Recorded, Unsaved
    <3>3. CASE ~(SaveSent(m) \/ SavePending(m))
      <4>1. disk' \in {disk, live}
        BY <2>0, <2>2, <3>3 DEF SendMessage, SendStep, AttemptSucceeds,
           AttemptFails, CommitSent, CommitPending, InsertOutbox,
           CommitOutbox, Commit
      <4>2. Unsaved(m)' => Unsaved(m)
        BY <2>0, <2>2, <3>3 DEF SendMessage, SendStep, AttemptSucceeds,
           AttemptFails, CommitSent, CommitPending, InsertOutbox,
           CommitOutbox, GoTo, Unsaved, TypeOK
      <4>3. live'.hist = live.hist
        <5>1. \/ live' = live
              \/ live' = [live EXCEPT !.outbox = live.outbox \cup {m}]
          BY <2>0, <2>2, <3>3 DEF SendMessage, SendStep, AttemptSucceeds,
             AttemptFails, CommitSent, CommitPending, InsertOutbox,
             CommitOutbox, Commit
        <5>2. live.outbox \cup {m} \in SUBSET Message
          BY DEF TypeOK, Db
        <5>3. QED
          BY <5>1, <5>2, OutboxEffect DEF TypeOK
      <4>4. QED
        BY <3>1, <4>1, <4>2, <4>3, NoNewRow DEF Unsaved
    <3>4. QED
      BY <3>2, <3>3
  <2>3. ASSUME NEW d \in Drainer, StartDrain(d) \/ DrainStep(d)
        PROVE  RecordInv'
    <3> DEFINE c == drain[d].cur
    <3>1. /\ pc' = pc /\ disk' \in {disk, live}
          /\ \/ live' = live
             \/ UpdateStatus(c, "sent") /\ drain[d].pc = "markSent"
             \/ UpdateStatus(c, "delivered") /\ drain[d].pc = "markDelivered"
             \/ live' = [live EXCEPT !.outbox = @ \ {c}]
      BY <2>0, <2>3 DEF StartDrain, DrainStep, ReadRaises, SelectPending,
         NextPending, DrainEnds, DrainSend, MarkSent, CommitMarkSent,
         MarkDelivered, DeleteOutbox, CommitDelivered, DrainCommits, Commit,
         DrainFrame
    <3>2. drain[d].pc = "markSent" \/ drain[d].pc = "markDelivered"
            => c \in Message
      BY DEF TypeOK, AfterHandover
    <3>3. ASSUME NEW s \in RowStatus \ {"none"}, Recorded(s), c \in Message,
                 UpdateStatus(c, s)
          PROVE  \A m \in Message :
                   \/ live'.hist[m] = live.hist[m]
                   \/ live.hist[m] # "none" /\ Recorded(live'.hist[m])
      BY <3>3, UpdateStatusEffect DEF TypeOK, Db
    <3>4. /\ "sent" \in RowStatus \ {"none"} /\ Recorded("sent")
          /\ "delivered" \in RowStatus \ {"none"} /\ Recorded("delivered")
      BY DEF RowStatus, Recorded
    <3>5. live' = [live EXCEPT !.outbox = @ \ {c}] => live'.hist = live.hist
      BY DEF TypeOK, Db
    <3>6. \A m \in Message :
            \/ live'.hist[m] = live.hist[m]
            \/ live.hist[m] # "none" /\ Recorded(live'.hist[m])
      BY <3>1, <3>2, <3>3, <3>4, <3>5
    <3>7. QED
      BY <3>1, <3>6, NoNewRow DEF Unsaved
  <2>4. ASSUME NEW c \in Contact,
               PeerUp(c) \/ PeerDown(c) \/ RemoveContact(c) \/ AddContact(c)
        PROVE RecordInv'
    BY <2>4, NoNewRow DEF PeerUp, PeerDown, RemoveContact, AddContact, Unsaved
  <2>5. CASE Crash
    <3>1. /\ live' = disk /\ disk' = disk
          /\ \A m \in Message : Unsaved(m)' => Unsaved(m)
      BY <2>5 DEF Crash, SendOver, Unsaved
    <3>2. QED
      BY <3>1 DEF RecordInv
  <2>6. CASE UNCHANGED vars
    BY <2>6, NoNewRow DEF vars, Unsaved
  <2>7. QED
    BY <2>1, <2>2, <2>3, <2>4, <2>5, <2>6 DEF Next
<1>3. QED
  BY <1>1, <1>2, TypeCorrect, PTL DEF Spec

(* The durable record of a transmission is never taken back, as long as no *)
(* statement fails: not over a crash, a new drain or overlapping drains.   *)
THEOREM RecordIsFinal ==
  ASSUME MaxFaults = 0
  PROVE  Spec => TransmissionStaysRecorded
<1> DEFINE Stays == \A m \in Message : disk.hist[m] \in {"sent", "delivered"}
                               => disk'.hist[m] \in {"sent", "delivered"}
<1>1. TypeOK /\ TypeOK' /\ RecordInv /\ [Next]_vars => [Stays]_disk
  <2> SUFFICES ASSUME TypeOK, TypeOK', RecordInv, [Next]_vars PROVE [Stays]_disk
    OBVIOUS
  <2>0. ~Raises
    BY NothingRaises
  <2>1. disk' \in {disk, live}
    BY <2>0 DEF Next, vars, StartChat, IncomingOpensChat, CommitChat, Commit,
       SendMessage, SendStep, AttemptSucceeds, AttemptFails, SaveSent,
       CommitSent, SavePending, CommitPending, InsertOutbox, CommitOutbox,
       StartDrain, DrainStep, ReadRaises, SelectPending, NextPending, DrainEnds,
       DrainSend, MarkSent, CommitMarkSent, MarkDelivered, DeleteOutbox,
       CommitDelivered, DrainCommits, PeerUp, PeerDown, RemoveContact,
       AddContact, Crash
  <2>2. QED
    BY <2>1 DEF RecordInv, Recorded
<1>2. QED
  BY <1>1, RecordSafety, TypeCorrect, PTL DEF Spec, TransmissionStaysRecorded
=============================================================================
