------------------------------- MODULE Outbox -------------------------------
(***************************************************************************)
(* Outgoing messages of the connection service: SessionManager.start_chat, *)
(* send_message and _drain_outbox (session.py) over the PersistenceManager *)
(* tables chats, messages and outbox (persistence.py).                     *)
(*                                                                         *)
(* All coroutines of the service share one aiosqlite connection and hence  *)
(* one implicit transaction: "live" is what a statement on that connection *)
(* reads and writes, "disk" what the last commit made durable.  A commit   *)
(* issued by any coroutine makes the half-finished writes of every other   *)
(* coroutine durable too.  Each await is a point where others may run.     *)
(*                                                                         *)
(* A statement reaches the connection's worker thread in the order in      *)
(* which it is awaited, so its effect is taken at the await.               *)
(***************************************************************************)
EXTENDS Integers, FiniteSets

CONSTANTS
  MaxMessages,  \* messages the clients ask to send (bound)
  Contact,      \* contacts; the chat of a contact has the contact's id
  Drainer,      \* drains that may overlap (bound)
  MaxCrashes,   \* process kills (bound)
  MaxFaults     \* statements or commits that raise, e.g. disk full (bound)

ASSUME MessagesAssumption == MaxMessages \in Nat
ASSUME BoundsAssumption   == MaxCrashes \in Nat /\ MaxFaults \in Nat

(* Messages are numbered in the order of their timestamps, the column by  *)
(* which get_pending_outbox sorts.                                         *)
Message == 1..MaxMessages

VARIABLES
  dest,     \* the chat each message is for
  pc,       \* where the send_message call of each message is
  chatPc,   \* where the start_chat call of each contact is
  drain,    \* each drain: where it is, its list pending, what is left of it
            \* (todo), the current message
  live,     \* the database as the shared connection sees it
  disk,     \* the database as last committed
  open,     \* keys of SessionManager._sessions
  book,     \* contacts in the address book
  reach,    \* contacts whose transport can take a message now
  handed,   \* how often transport.send_message took each message
  crashes,
  faults

vars == <<dest, pc, chatPc, drain, live, disk, open, book, reach, handed,
          crashes, faults>>

-----------------------------------------------------------------------------

(* DeliveryStatus of a row of messages; "none": there is no such row.      *)
RowStatus == {"none", "pending", "sent", "delivered"}

Db == [hist : [Message -> RowStatus],
       outbox : SUBSET Message,
       chats : SUBSET Contact]

SendPc == {"new", "attempt", "saveSent", "commitSent", "savePending",
           "commitPending", "insertOutbox", "commitOutbox",
           "done", "error", "lost"}

(* send_message has not started, or has ended one way or the other.        *)
SendOver == {"done", "error", "lost"}

DrainPc == {"idle", "select", "loop", "send", "markSent", "commitSent",
            "markDelivered", "deleteOutbox", "commitDelivered"}

DrainTask == [pc : DrainPc, pending : SUBSET Message, todo : SUBSET Message,
              cur : Nat]

(* The drain has handed its current message over.                          *)
AfterHandover == {"markSent", "commitSent", "markDelivered", "deleteOutbox",
                  "commitDelivered"}

TypeOK ==
  /\ dest \in [Message -> Contact]
  /\ pc \in [Message -> SendPc]
  /\ chatPc \in [Contact -> {"idle", "commit"}]
  /\ drain \in [Drainer -> DrainTask]
  /\ \A d \in Drainer :
        drain[d].pc \in AfterHandover \cup {"send"} => drain[d].cur \in Message
  /\ live \in Db
  /\ disk \in Db
  /\ open \in SUBSET Contact
  /\ book \in SUBSET Contact
  /\ reach \in SUBSET Contact
  /\ handed \in [Message -> Nat]
  /\ crashes \in 0..MaxCrashes
  /\ faults \in 0..MaxFaults

EmptyDb == [hist |-> [m \in Message |-> "none"], outbox |-> {}, chats |-> {}]

NoDrain == [pc |-> "idle", pending |-> {}, todo |-> {}, cur |-> 0]

Init ==
  /\ dest \in [Message -> Contact]
  /\ pc = [m \in Message |-> "new"]
  /\ chatPc = [c \in Contact |-> "idle"]
  /\ drain = [d \in Drainer |-> NoDrain]
  /\ live = EmptyDb
  /\ disk = EmptyDb
  /\ open = {}
  /\ book = Contact
  /\ reach = {}
  /\ handed = [m \in Message |-> 0]
  /\ crashes = 0
  /\ faults = 0

-----------------------------------------------------------------------------
(* Statements and commits on the shared connection                         *)

SetStatus(m, s) == live' = [live EXCEPT !.hist[m] = s]

(* UPDATE ... WHERE id = ?: without the row nothing changes.               *)
UpdateStatus(m, s) ==
  live' = IF live.hist[m] = "none" THEN live ELSE [live EXCEPT !.hist[m] = s]

Commit == disk' = live /\ live' = live

(* A statement or a commit raises.  External: the open transaction stays   *)
(* as it is.  (SQLite rolls it back itself on some errors, as a full disk  *)
(* or an I/O error: those are left out.)                                   *)
Raises ==
  faults < MaxFaults /\ faults' = faults + 1 /\ UNCHANGED <<live, disk>>

-----------------------------------------------------------------------------
(* chat.start, and the session an incoming message opens                   *)

(* Mutant: the session is kept in memory only.                             *)
StartChatUnsaved(c) ==
  /\ c \in book /\ c \in reach /\ c \notin open
  /\ open' = open \cup {c}
  /\ UNCHANGED <<dest, pc, chatPc, drain, live, disk, book, reach, handed,
                 crashes, faults>>

StartChat(c) ==
  /\ c \in book /\ c \in reach
  /\ c \notin open
  /\ open' = open \cup {c}
  /\ \/ /\ live' = [live EXCEPT !.chats = @ \cup {c}]
        /\ chatPc' = [chatPc EXCEPT ![c] = "commit"]
        /\ UNCHANGED <<disk, faults>>
     \/ Raises /\ UNCHANGED chatPc
  /\ UNCHANGED <<dest, pc, drain, book, reach, handed, crashes>>

IncomingOpensChat(c) ==
  /\ c \notin open
  /\ open' = open \cup {c}
  /\ \/ /\ live' = [live EXCEPT !.chats = @ \cup {c}]
        /\ chatPc' = [chatPc EXCEPT ![c] = "commit"]
        /\ UNCHANGED <<disk, faults>>
     \/ Raises /\ UNCHANGED chatPc
  /\ UNCHANGED <<dest, pc, drain, book, reach, handed, crashes>>

CommitChat(c) ==
  /\ chatPc[c] = "commit"
  /\ chatPc' = [chatPc EXCEPT ![c] = "idle"]
  /\ (Commit /\ UNCHANGED faults) \/ Raises
  /\ UNCHANGED <<dest, pc, drain, open, book, reach, handed, crashes>>

-----------------------------------------------------------------------------
(* chat.send_message                                                       *)

GoTo(m, l) == pc' = [pc EXCEPT ![m] = l]

HasSession(c) == c \in open \/ c \in live.chats

SendMessage(m) ==
  /\ pc[m] = "new" /\ \A k \in 1..(m - 1) : pc[k] # "new"
  /\ HasSession(dest[m]) /\ dest[m] \in book
  /\ open' = open \cup {dest[m]}
  /\ GoTo(m, "attempt")
  /\ UNCHANGED <<dest, chatPc, drain, live, disk, book, reach, handed, crashes,
                 faults>>

HandOver(m) == handed' = [handed EXCEPT ![m] = @ + 1]

AttemptSucceeds(m) ==
  /\ pc[m] = "attempt" /\ dest[m] \in reach
  /\ HandOver(m)
  /\ GoTo(m, "saveSent")
  /\ UNCHANGED <<dest, chatPc, drain, live, disk, open, book, reach, crashes,
                 faults>>

(* Mutant: a failed transmission is saved like a good one.                 *)
AttemptFailsUnnoticed(m) ==
  /\ pc[m] = "attempt"
  /\ GoTo(m, "saveSent")
  /\ UNCHANGED <<dest, chatPc, drain, live, disk, open, book, reach, handed,
                 crashes, faults>>

(* No transport, its state is neither CONNECTED nor CONNECTING (which one   *)
(* peer's failure can cause for all of them), or its send_message raises.  *)
AttemptFails(m) ==
  /\ pc[m] = "attempt"
  /\ GoTo(m, "savePending")
  /\ UNCHANGED <<dest, chatPc, drain, live, disk, open, book, reach, handed,
                 crashes, faults>>

SenderFrame == UNCHANGED <<dest, chatPc, drain, open, book, reach, handed,
                           crashes>>

(* save_message after the transmission; an exception here is caught by the *)
(* same handler as a failed transmission, which queues the message.        *)
SaveSent(m) ==
  /\ pc[m] = "saveSent"
  /\ \/ SetStatus(m, "sent") /\ GoTo(m, "commitSent") /\ UNCHANGED <<disk, faults>>
     \/ Raises /\ GoTo(m, "savePending")
  /\ SenderFrame

CommitSent(m) ==
  /\ pc[m] = "commitSent"
  /\ \/ Commit /\ GoTo(m, "done") /\ UNCHANGED faults
     \/ Raises /\ GoTo(m, "savePending")
  /\ SenderFrame

(* Mutant: queue_outbound writes the outbox row first.                     *)
OutboxRowFirst(m) ==
  /\ pc[m] = "savePending"
  /\ live' = [live EXCEPT !.outbox = @ \cup {m}]
  /\ GoTo(m, "commitPending") /\ UNCHANGED <<disk, faults>>
  /\ SenderFrame

(* queue_outbound: save_message with its commit, then the outbox row with  *)
(* its commit.  An exception reaches the client as an RPC error.           *)
SavePending(m) ==
  /\ pc[m] = "savePending"
  /\ \/ SetStatus(m, "pending") /\ GoTo(m, "commitPending")
        /\ UNCHANGED <<disk, faults>>
     \/ Raises /\ GoTo(m, "error")
  /\ SenderFrame

CommitPending(m) ==
  /\ pc[m] = "commitPending"
  /\ \/ Commit /\ GoTo(m, "insertOutbox") /\ UNCHANGED faults
     \/ Raises /\ GoTo(m, "error")
  /\ SenderFrame

InsertOutbox(m) ==
  /\ pc[m] = "insertOutbox"
  /\ \/ /\ live' = [live EXCEPT !.outbox = @ \cup {m}]
        /\ GoTo(m, "commitOutbox") /\ UNCHANGED <<disk, faults>>
     \/ Raises /\ GoTo(m, "error")
  /\ SenderFrame

(* Mutant: the call returns before its outbox row is committed.            *)
CommitOutboxForgotten(m) ==
  /\ pc[m] = "commitOutbox"
  /\ GoTo(m, "done") /\ UNCHANGED <<live, disk, faults>>
  /\ SenderFrame

CommitOutbox(m) ==
  /\ pc[m] = "commitOutbox"
  /\ \/ Commit /\ GoTo(m, "done") /\ UNCHANGED faults
     \/ Raises /\ GoTo(m, "error")
  /\ SenderFrame

SendStep(m) ==
  \/ AttemptSucceeds(m) \/ AttemptFails(m)
  \/ SaveSent(m) \/ CommitSent(m)
  \/ SavePending(m) \/ CommitPending(m) \/ InsertOutbox(m) \/ CommitOutbox(m)

-----------------------------------------------------------------------------
(* _drain_outbox                                                           *)

(* Back in its loop, a drain has no current message.                       *)
DrainTo(d, l) ==
  drain' = [drain EXCEPT ![d].pc = l,
                         ![d].cur = IF l = "loop" THEN 0 ELSE @]

DrainStops(d) == drain' = [drain EXCEPT ![d] = NoDrain]

DrainFrame == UNCHANGED <<dest, pc, chatPc, open, book, reach, crashes>>

(* A transport reports CONNECTED, or connection.reconnect reaches its end. *)
StartDrain(d) ==
  /\ drain[d].pc = "idle"
  /\ DrainTo(d, "select")
  /\ UNCHANGED <<live, disk, handed, faults>> /\ DrainFrame

(* Mutant: the query asks for rows already marked as sent.                 *)
PendingOutboxMarked == {m \in live.outbox : live.hist[m] = "sent"}

(* get_pending_outbox: the outbox rows that join a row of messages.        *)
PendingOutbox == {m \in live.outbox : live.hist[m] # "none"}

(* Mutant: an empty snapshot is not looked for.                            *)
SelectThenSend(d) ==
  /\ drain[d].pc = "select"
  /\ drain' = [drain EXCEPT ![d].pc = "send", ![d].todo = PendingOutbox]
  /\ UNCHANGED <<live, disk, faults>>
  /\ UNCHANGED handed /\ DrainFrame

SelectPending(d) ==
  /\ drain[d].pc = "select"
  /\ drain' = [drain EXCEPT ![d].pc = "loop", ![d].pending = PendingOutbox,
                            ![d].todo = PendingOutbox]
  /\ UNCHANGED <<live, disk, faults>>
  /\ UNCHANGED handed /\ DrainFrame

(* A read outside the loop's try raises, get_pending_outbox or get_chat:   *)
(* the whole drain ends.                                                   *)
ReadRaises(d) ==
  /\ \/ drain[d].pc = "select"
     \/ drain[d].pc = "loop" /\ \E m \in drain[d].todo : dest[m] \notin open
  /\ Raises /\ DrainStops(d)
  /\ UNCHANGED handed /\ DrainFrame

Known(m) == HasSession(dest[m]) /\ dest[m] \in book

(* The next message of the snapshot; it is skipped when its chat or its    *)
(* contact is unknown.                                                     *)
NextPending(d) ==
  /\ drain[d].pc = "loop"
  /\ \E m \in drain[d].todo :
       /\ \A k \in drain[d].todo : m <= k
       /\ drain' = [drain EXCEPT ![d] =
                      [pc |-> IF Known(m) THEN "send" ELSE "loop",
                       pending |-> @.pending, todo |-> @.todo \ {m},
                       cur |-> IF Known(m) THEN m ELSE 0]]
  /\ UNCHANGED <<live, disk, handed, faults>> /\ DrainFrame

DrainEnds(d) ==
  /\ drain[d].pc = "loop" /\ drain[d].todo = {}
  /\ DrainStops(d)
  /\ UNCHANGED <<live, disk, handed, faults>> /\ DrainFrame

(* Mutants: a failed send goes on as a good one; it resets the status.     *)
DrainIgnoresFailure(d) ==
  /\ drain[d].pc = "send"
  /\ LET m == drain[d].cur IN
       /\ IF dest[m] \in reach THEN HandOver(m) ELSE UNCHANGED handed
       /\ DrainTo(d, "markSent")
  /\ UNCHANGED <<live, disk, faults>> /\ DrainFrame

DrainFailureResets(d) ==
  /\ drain[d].pc = "send"
  /\ LET m == drain[d].cur IN
       \/ /\ dest[m] \in reach /\ HandOver(m) /\ DrainTo(d, "markSent")
          /\ UNCHANGED live
       \/ /\ dest[m] \notin reach /\ DrainTo(d, "loop") /\ UNCHANGED handed
          /\ UpdateStatus(m, "pending")
  /\ UNCHANGED <<disk, faults>> /\ DrainFrame

(* The drain does not look at the transport's state: it fails only when    *)
(* the transport cannot be had or its send_message raises.                 *)
DrainSend(d) ==
  /\ drain[d].pc = "send"
  /\ LET m == drain[d].cur IN
       \/ dest[m] \in reach /\ HandOver(m) /\ DrainTo(d, "markSent")
       \/ dest[m] \notin reach /\ DrainTo(d, "loop") /\ UNCHANGED handed
  /\ UNCHANGED <<live, disk, faults>> /\ DrainFrame

(* One statement or commit of mark_sent or mark_delivered; an exception is *)
(* logged and the drain goes on with its next message.                     *)
DrainCommits(d, from, to) ==
  /\ drain[d].pc = from
  /\ \/ Commit /\ DrainTo(d, to) /\ UNCHANGED faults
     \/ Raises /\ DrainTo(d, "loop")
  /\ UNCHANGED handed /\ DrainFrame

MarkSent(d) ==
  /\ drain[d].pc = "markSent"
  /\ \/ UpdateStatus(drain[d].cur, "sent") /\ DrainTo(d, "commitSent")
        /\ UNCHANGED <<disk, faults>>
     \/ Raises /\ DrainTo(d, "loop")
  /\ UNCHANGED handed /\ DrainFrame

CommitMarkSent(d) == DrainCommits(d, "commitSent", "markDelivered")

MarkDelivered(d) ==
  /\ drain[d].pc = "markDelivered"
  /\ \/ UpdateStatus(drain[d].cur, "delivered") /\ DrainTo(d, "deleteOutbox")
        /\ UNCHANGED <<disk, faults>>
     \/ Raises /\ DrainTo(d, "loop")
  /\ UNCHANGED handed /\ DrainFrame

(* Mutant: the outbox row stays.                                           *)
DeleteForgotten(d) ==
  /\ drain[d].pc = "deleteOutbox"
  /\ DrainTo(d, "commitDelivered") /\ UNCHANGED <<live, disk, faults>>
  /\ UNCHANGED handed /\ DrainFrame

DeleteOutbox(d) ==
  /\ drain[d].pc = "deleteOutbox"
  /\ \/ /\ live' = [live EXCEPT !.outbox = @ \ {drain[d].cur}]
        /\ DrainTo(d, "commitDelivered") /\ UNCHANGED <<disk, faults>>
     \/ Raises /\ DrainTo(d, "loop")
  /\ UNCHANGED handed /\ DrainFrame

CommitDelivered(d) == DrainCommits(d, "commitDelivered", "loop")

DrainStep(d) ==
  \/ SelectPending(d) \/ NextPending(d) \/ DrainEnds(d) \/ DrainSend(d)
  \/ ReadRaises(d)
  \/ MarkSent(d) \/ CommitMarkSent(d)
  \/ MarkDelivered(d) \/ DeleteOutbox(d) \/ CommitDelivered(d)

-----------------------------------------------------------------------------
(* The environment                                                         *)

PeerUp(c) ==
  /\ c \notin reach /\ reach' = reach \cup {c}
  /\ UNCHANGED <<dest, pc, chatPc, drain, live, disk, open, book, handed,
                 crashes, faults>>

PeerDown(c) ==
  /\ c \in reach /\ reach' = reach \ {c}
  /\ UNCHANGED <<dest, pc, chatPc, drain, live, disk, open, book, handed,
                 crashes, faults>>

(* addressbook.remove and addressbook.add touch neither sessions nor rows. *)
RemoveContact(c) ==
  /\ c \in book /\ book' = book \ {c}
  /\ UNCHANGED <<dest, pc, chatPc, drain, live, disk, open, reach, handed,
                 crashes, faults>>

AddContact(c) ==
  /\ c \notin book /\ book' = book \cup {c}
  /\ UNCHANGED <<dest, pc, chatPc, drain, live, disk, open, reach, handed,
                 crashes, faults>>

(* The process ends and starts again: what was not committed is gone, and  *)
(* initialize loads the sessions from the table chats.  The calls that     *)
(* were under way never answer their clients.                              *)
Crash ==
  /\ crashes < MaxCrashes /\ crashes' = crashes + 1
  /\ pc' = [m \in Message |-> IF pc[m] \in SendOver \cup {"new"}
                              THEN pc[m] ELSE "lost"]
  /\ chatPc' = [c \in Contact |-> "idle"]
  /\ drain' = [d \in Drainer |-> NoDrain]
  /\ live' = disk
  /\ open' = disk.chats
  /\ reach' = {}
  /\ UNCHANGED <<dest, disk, book, handed, faults>>

Next ==
  \/ \E c \in Contact : StartChat(c) \/ IncomingOpensChat(c) \/ CommitChat(c)
  \/ \E m \in Message : SendMessage(m) \/ SendStep(m)
  \/ \E d \in Drainer : StartDrain(d) \/ DrainStep(d)
  \/ \E c \in Contact : PeerUp(c) \/ PeerDown(c)
                        \/ RemoveContact(c) \/ AddContact(c)
  \/ Crash

Spec == Init /\ [][Next]_vars

-----------------------------------------------------------------------------
(* Safety                                                                  *)

(* send_message answers its client only when the message was handed to a   *)
(* transport or its outbox row is durable: an answered message survives    *)
(* any crash, any failing statement and any overlap of drains.             *)
AckedIsSafe ==
  \A m \in Message : pc[m] = "done" => handed[m] > 0 \/ m \in disk.outbox

(* get_pending_outbox joins outbox with messages, so an outbox row without *)
(* its row of messages would never be sent and never be removed.           *)
OutboxRowHasMessage ==
  /\ \A m \in live.outbox : live.hist[m] # "none"
  /\ \A m \in disk.outbox : disk.hist[m] # "none"

(* The status chat.get_history shows, before and after a restart, never    *)
(* claims a transmission that did not happen.                              *)
StatusTruthful ==
  \A m \in Message :
    live.hist[m] \in {"sent", "delivered"}
      \/ disk.hist[m] \in {"sent", "delivered"} => handed[m] > 0

(* The strengthening of these three that every step preserves: what the    *)
(* tasks under way know about the message they are working on.             *)
SendersKnow ==
  \A m \in Message :
    /\ pc[m] \in {"saveSent", "commitSent"} => handed[m] > 0
    /\ pc[m] \in {"commitPending", "insertOutbox", "commitOutbox"}
         => live.hist[m] # "none"
    /\ pc[m] = "commitOutbox" => handed[m] > 0 \/ m \in live.outbox
    /\ pc[m] = "done" => handed[m] > 0 \/ m \in live.outbox

DrainsKnow ==
  \A d \in Drainer :
    /\ drain[d].pc \in AfterHandover => handed[drain[d].cur] > 0
    /\ drain[d].pc \in AfterHandover \cup {"send"} => pc[drain[d].cur] # "new"
    /\ \A m \in drain[d].todo : pc[m] # "new"

OnlyAskedIsQueued ==
  \A m \in Message :
    m \in live.outbox \/ m \in disk.outbox \/ handed[m] > 0 => pc[m] # "new"

RemovalFollowsHandover ==
  \A m \in disk.outbox : m \in live.outbox \/ handed[m] > 0

IInv ==
  /\ AckedIsSafe /\ OutboxRowHasMessage /\ StatusTruthful
  /\ SendersKnow /\ DrainsKnow /\ OnlyAskedIsQueued /\ RemovalFollowsHandover

(* _drain_outbox skips a row whose chat it cannot find: as long as no      *)
(* statement fails, a durable outbox row always has a durable chat, so a   *)
(* restart can send it although no client opens the chat again.            *)
OutboxRowHasChat == \A m \in disk.outbox : dest[m] \in disk.chats

(* When drains do not overlap, a message is handed over once more only for *)
(* a crash or a failing statement between a handover and its bookkeeping.  *)
HandoverBound == \A m \in Message : handed[m] <= 1 + crashes + faults

(* As long as no statement fails, the durable record that a message was    *)
(* transmitted is never taken back, not even over a crash and a new drain. *)
(* (It may fall back from delivered to sent: the commit of another task    *)
(* can come between the two statements of mark_delivered.)                 *)
TransmissionStaysRecorded ==
  [][\A m \in Message : disk.hist[m] \in {"sent", "delivered"}
                          => disk'.hist[m] \in {"sent", "delivered"}]_disk

(* "Drain the outbox for affected chats in order": a drain hands a message *)
(* over only after the earlier ones of the same chat in its list.          *)
TransmittedInOrder ==
  [][\A d \in Drainer, m, k \in Message :
       /\ drain[d].pc = "send" /\ drain[d].cur = m /\ handed'[m] > handed[m]
       /\ k < m /\ dest[k] = dest[m] /\ k \in drain[d].pending
       => handed[k] > 0]_vars

(* "Every outgoing message is immediately written to outbox + messages     *)
(* (pending)": a durable pending row of a call that is over is queued.     *)
PendingIsQueued ==
  \A m \in Message :
    disk.hist[m] = "pending" /\ pc[m] \in SendOver => m \in disk.outbox

-----------------------------------------------------------------------------
(* The promise of Delivery                                                 *)

Promise == INSTANCE Delivery WITH
  asked <- {m \in Message : pc[m] # "new"},
  sent  <- {m \in Message : handed[m] > 0},
  queue <- disk.outbox,
  acked <- {m \in Message : pc[m] = "done"}

(* send_message, the drains and restarts keep the promise of Delivery:     *)
(* nothing leaves the durable outbox unsent and no call is answered for a  *)
(* message that is neither sent nor durably queued.                        *)
KeepsPromise == Promise!Spec

-----------------------------------------------------------------------------
(* Liveness                                                                *)

(* The event loop resumes every coroutine whose await is over.  Nothing is *)
(* assumed of what starts a drain: a transport that reports CONNECTED, or  *)
(* a client that asks for a reconnect, may never do so again.              *)
Fairness ==
  /\ \A c \in Contact : WF_vars(CommitChat(c))
  /\ \A m \in Message : WF_vars(SendStep(m))
  /\ \A d \in Drainer : WF_vars(DrainStep(d))

LiveSpec == Spec /\ Fairness

Deliverable(m) == dest[m] \in reach /\ dest[m] \in book /\ HasSession(dest[m])

(* A drain that starts while a message is queued for a contact that stays  *)
(* reachable and in the address book hands it over and takes it off the    *)
(* outbox, whatever becomes of the messages before it, unless the process  *)
(* ends first.  Only a message queued after the drain has read the table   *)
(* waits for the next drain, which nothing promises.                       *)
DrainDelivers ==
  \A m \in Message, d \in Drainer, n \in 0..MaxCrashes :
    /\ drain[d].pc = "select" /\ crashes = n
    /\ m \in live.outbox /\ Deliverable(m)
    ~> \/ m \notin live.outbox /\ handed[m] > 0
       \/ ~Deliverable(m)
       \/ crashes # n
=============================================================================
