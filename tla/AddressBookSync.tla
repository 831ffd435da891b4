--------------------------- MODULE AddressBookSync ---------------------------
(***************************************************************************)
(* The callers of the address book: the addressbook.* methods of the RPC   *)
(* server (connection_service/api.py), AddressBookSyncService              *)
(* (addressbook_sync.py) with its queue of pending updates in the          *)
(* database, and the peers it tells.                                       *)
(*                                                                         *)
(* The server handles the requests of one connection one after the other,  *)
(* and each await (a database statement, an IQ to a peer) lets the others  *)
(* run.  The database applies statements and commits in the order they are *)
(* asked for, and a commit makes durable what anybody wrote before it.     *)
(*                                                                         *)
(* Left out: signature, time stamp and payload of an update (a refused one *)
(* is a lost one), and the contacts that have no XMPP address.             *)
(***************************************************************************)
EXTENDS AddressBook

CONSTANTS
  Clients,    \* connections to the RPC server
  Updates,    \* names of the updates peers send
  Content,    \* per update: its action, contact and sender
  Settings,   \* the settings [enabled, auto] clients choose from
  Cases       \* the files and settings a first process may find, the updates
              \* on their way, and how much may happen (bound)

ASSUME ContentAssumption ==
  Content \in [Updates -> [action : {"add", "update", "remove", "announce"},
                           id : Ids, from : Ids]]
ASSUME SettingsAssumption ==
  Settings \subseteq [enabled : BOOLEAN, auto : BOOLEAN]
ASSUME CasesAssumption ==
  Cases \subseteq [files : [Files -> File], setting : Settings,
                   sent : SUBSET Updates, budget : Budget]

VARIABLES
  setting,  \* config.addressbook_sync of the process
  call,     \* the request each connection is in
  casts,    \* payloads on their way to the peers, one IQ after the other
  arrival,  \* the update each peer sent: in the network, or in its handler
  live,     \* table addressbook_sync_pending as the connection sees it
  disk,     \* the table as last committed
  initial,  \* the settings in the configuration file
  noticed,  \* history: updates pushed as addressbook.sync_pending
  taken,    \* history: updates applied, refused by the book, or rejected
  answered, \* history: updates whose apply or reject was answered with ok
  seen      \* history: per peer and connection, the version of the last payload

syncVars == <<setting, call, casts, arrival, live, disk, initial,
              noticed, taken, answered, seen>>
vars == <<bookVars, syncVars>>

Idle      == [op |-> "idle"]
Casting   == [op |-> "casting"]
Decisions == [op : {"apply", "reject"}, update : Updates,
              at : {"get", "run", "delete", "commit"}]
Casts     == [by : Clients, must : BOOLEAN, version : Nat, todo : SUBSET Ids]

TypeOK ==
  /\ BookTypeOK
  /\ setting \in Settings
  /\ call \in [Clients -> {Idle, Casting} \cup Decisions]
  /\ casts \subseteq Casts
  /\ arrival \in [Updates -> {"sent", "insert", "commit", "push", "over"}]
  /\ live \subseteq Updates
  /\ disk \subseteq Updates
  /\ initial \in Settings
  /\ noticed \subseteq Updates
  /\ taken \subseteq Updates
  /\ answered \subseteq Updates
  /\ seen \in [Ids -> [Clients -> Nat]]

Init ==
  /\ \E c \in Cases :
       /\ files = c.files
       /\ setting = c.setting /\ initial = c.setting
       /\ arrival = [u \in Updates |-> IF u \in c.sent THEN "sent" ELSE "over"]
       /\ left = c.budget
  /\ meta = None
  /\ running = FALSE
  /\ book = Empty /\ hash = Empty /\ version = 0
  /\ clock = 0
  /\ edited = {}
  /\ failed = FALSE /\ lost = {} /\ metaLost = FALSE
  /\ told = {}
  /\ claim = [i \in Ids |-> Void]
  /\ call = [k \in Clients |-> Idle]
  /\ casts = {}
  /\ live = {} /\ disk = {}
  /\ noticed = {} /\ taken = {} /\ answered = {}
  /\ seen = [p \in Ids |-> [k \in Clients |-> 0]]

\* What ends with the process: its requests, its IQs, its handlers, and what
\* the database had not committed.  An update being handled is over too.
EndedIn(handled) ==
  /\ call' = [k \in Clients |-> Idle]
  /\ casts' = {}
  /\ arrival' = [u \in Updates |-> IF arrival[u] = "sent" /\ u \notin handled
                                   THEN "sent" ELSE "over"]
  /\ live' = disk

Ended == EndedIn({})

-----------------------------------------------------------------------------
(* Changes by a client, and what the peers are told of them.               *)

CastBefore(k, must, v, peers) ==
  [by |-> k, must |-> must, version |-> v - 1, todo |-> peers]

\* The payload of broadcast_mutation has the version of the mutation, as
\* nothing is awaited before it is built; the peers are those of that moment.
Cast(k, must, v, peers) == [by |-> k, must |-> must, version |-> v, todo |-> peers]

\* The contacts of the new book, less the one a payload is about.
Others(i) == {p \in Ids : book'[p] # None} \ {i}

AnswerAtOnce(k) == Idle

\* The request is answered when every peer has been told.
WhileCasting(k) == Casting

Change(k, i, how, broadcasts) ==
  /\ IF how = "dies" THEN Ended
     ELSE /\ IF how = "done" /\ broadcasts /\ setting.enabled
             THEN /\ casts' = casts \cup {Cast(k, FALSE, version', Others(i))}
                  /\ call' = [call EXCEPT ![k] = WhileCasting(k)]
             ELSE UNCHANGED <<casts, call>>
          /\ UNCHANGED <<arrival, live>>
  /\ UNCHANGED <<setting, initial, disk, noticed, taken, answered, seen>>

Ready(k) == running /\ call[k] = Idle

\* addressbook.add of a free id and addressbook.update of a taken one.
PutContact(k, i, how) == Ready(k) /\ Put(i, how) /\ Change(k, i, how, TRUE)

\* addressbook.remove.
RemoveContact(k, i, how) == Ready(k) /\ Remove(i, how) /\ Change(k, i, how, TRUE)

\* discovery.apply of a contact with a matching peer and no address of its
\* own yet: an update that no peer is told of.
ApplyDiscovered(k, i, how) ==
  /\ Ready(k)
  /\ book[i] # None
  /\ Put(i, how)
  /\ Change(k, i, how, FALSE)

\* addressbook.reload.
ReloadBook(k, how) ==
  /\ Ready(k)
  /\ Reload(how)
  /\ UNCHANGED <<setting, initial, call, casts, arrival, live, disk, noticed,
                 taken, answered, seen>>

\* The same request when a file cannot be read: answered with an error.
ReloadBreaks(k, f) ==
  /\ Ready(k)
  /\ ReloadRaises(f)
  /\ UNCHANGED <<setting, initial, call, casts, arrival, live, disk, noticed,
                 taken, answered, seen>>

Request ==
  /\ left.requests > 0
  /\ left' = [left EXCEPT !.requests = @ - 1]

\* addressbook.sync_now: an announcement to every contact.
SyncNow(k) ==
  /\ Ready(k) /\ Request
  /\ setting.enabled
  /\ casts' = casts \cup
       {Cast(k, TRUE, version, {p \in Ids : book[p] # None})}
  /\ call' = [call EXCEPT ![k] = Casting]
  /\ UNCHANGED <<coreVars, setting, arrival, live, disk, initial, noticed,
                 taken, answered, seen>>

NextPeer(c) == CHOOSE p \in c.todo : \A q \in c.todo : p <= q

\* One peer is sent the payload (arrives); the failure of an IQ is logged by
\* broadcast_mutation and ends sync_now.
Tell(c, arrives) ==
  /\ running
  /\ c.todo # {}
  /\ casts' = (casts \ {c}) \cup
       {[c EXCEPT !.todo = IF c.must /\ ~arrives THEN {} ELSE @ \ {NextPeer(c)}]}
  /\ seen' = IF arrives THEN [seen EXCEPT ![NextPeer(c)][c.by] = c.version]
             ELSE seen
  /\ UNCHANGED <<bookVars, setting, call, arrival, live, disk, initial, noticed,
                 taken, answered>>

\* The last peer has been told, or an error ends the request.
CastEnds(c) ==
  /\ running
  /\ c.todo = {}
  /\ casts' = casts \ {c}
  /\ call' = [call EXCEPT ![c.by] = Idle]
  /\ UNCHANGED <<bookVars, setting, arrival, live, disk, initial, noticed,
                 taken, answered, seen>>

\* addressbook.enable_sync: nothing but the settings of the process.
Configure(k, s) ==
  /\ Ready(k) /\ Request
  /\ s # setting
  /\ setting' = s
  /\ UNCHANGED <<coreVars, call, casts, arrival, live, disk, initial, noticed,
                 taken, answered, seen>>

-----------------------------------------------------------------------------
(* Updates of peers.                                                       *)

\* _apply_payload changes the book, or refuses with a warning: update of an
\* unknown contact, or an announcement.
Takes(u) ==
  \/ Content[u].action = "add"
  \/ Content[u].action \in {"update", "remove"} /\ book[Content[u].id] # None

ApplyPayload(u, how) ==
  IF ~Takes(u) THEN how = "done" /\ UNCHANGED bookVars
  ELSE IF Content[u].action = "remove" THEN Remove(Content[u].id, how)
  ELSE Put(Content[u].id, how)

\* The update is lost on its way, or has a signature or a time stamp that
\* is refused, or comes while sync is off or from a stranger.
Drop(u) ==
  /\ arrival[u] = "sent"
  /\ running
  /\ arrival' = [arrival EXCEPT ![u] = "over"]
  /\ UNCHANGED <<bookVars, setting, call, casts, live, disk, initial, noticed,
                 taken, answered, seen>>

Trusted(u) == setting.enabled /\ book[Content[u].from] # None

\* handle_inbound_iq with auto_apply.
ApplyInbound(u, how) ==
  /\ running
  /\ arrival[u] = "sent"
  /\ Trusted(u) /\ setting.auto
  /\ ApplyPayload(u, how)
  /\ IF how = "dies" THEN EndedIn({u})
     ELSE /\ arrival' = [arrival EXCEPT ![u] = "over"]
          /\ UNCHANGED <<call, casts, live>>
  /\ UNCHANGED <<setting, initial, disk, noticed, taken, answered, seen>>

\* handle_inbound_iq without auto_apply: save_sync_pending (insert, commit),
\* then the push to the user interfaces.
KeepInbound(u) ==
  /\ running
  /\ arrival[u] = "sent"
  /\ Trusted(u) /\ ~setting.auto
  /\ arrival' = [arrival EXCEPT ![u] = "insert"]
  /\ UNCHANGED <<bookVars, setting, call, casts, live, disk, initial, noticed,
                 taken, answered, seen>>

InsertPending(u) ==
  /\ arrival[u] = "insert"
  /\ live' = live \cup {u}
  /\ arrival' = [arrival EXCEPT ![u] = "commit"]
  /\ UNCHANGED <<bookVars, setting, call, casts, disk, initial, noticed, taken,
                 answered, seen>>

PushEarly(u) ==
  /\ arrival[u] = "commit"
  /\ noticed' = noticed \cup {u}
  /\ arrival' = [arrival EXCEPT ![u] = "over"]
  /\ UNCHANGED <<bookVars, setting, call, casts, live, disk, initial, taken,
                 answered, seen>>

CommitPending(u) ==
  /\ arrival[u] = "commit"
  /\ disk' = live
  /\ arrival' = [arrival EXCEPT ![u] = "push"]
  /\ UNCHANGED <<bookVars, setting, call, casts, live, initial, noticed, taken,
                 answered, seen>>

PushPending(u) ==
  /\ arrival[u] = "push"
  /\ noticed' = noticed \cup {u}
  /\ arrival' = [arrival EXCEPT ![u] = "over"]
  /\ UNCHANGED <<bookVars, setting, call, casts, live, disk, initial, taken,
                 answered, seen>>

-----------------------------------------------------------------------------
(* Decisions of a client about a pending update.                           *)

Decision(op, u, at) == [op |-> op, update |-> u, at |-> at]

\* What follows get_sync_pending.
AfterGet(op) == IF op = "apply" THEN "run" ELSE "delete"

\* addressbook.apply_pending_update and addressbook.reject_pending_update.
Decide(k, u, op) ==
  /\ Ready(k)
  /\ call' = [call EXCEPT ![k] = Decision(op, u, "get")]
  /\ UNCHANGED <<bookVars, setting, casts, arrival, live, disk, initial,
                 noticed, taken, answered, seen>>

\* get_sync_pending; no row is an error for the client.
GetPending(k) ==
  /\ call[k] \in Decisions
  /\ call[k].at = "get"
  /\ call' = [call EXCEPT ![k] =
                IF call[k].update \in live
                THEN Decision(call[k].op, call[k].update, AfterGet(call[k].op))
                ELSE Idle]
  /\ UNCHANGED <<bookVars, setting, casts, arrival, live, disk, initial,
                 noticed, taken, answered, seen>>

\* _apply_payload of apply_pending: an OSError ends the request and leaves
\* the row; a refusal is logged, and the row will be deleted.
RunPending(k, how) ==
  /\ call[k] \in Decisions
  /\ call[k].at = "run"
  /\ ApplyPayload(call[k].update, how)
  /\ IF how = "dies" THEN Ended
     ELSE /\ call' = [call EXCEPT ![k] =
                        IF how = "done"
                        THEN Decision("apply", call[k].update, "delete")
                        ELSE Idle]
          /\ UNCHANGED <<casts, arrival, live>>
  /\ taken' = IF how = "done" THEN taken \cup {call[k].update} ELSE taken
  /\ UNCHANGED <<setting, initial, disk, noticed, answered, seen>>

DeletePending(k) ==
  /\ call[k] \in Decisions
  /\ call[k].at = "delete"
  /\ live' = live \ {call[k].update}
  /\ taken' = IF call[k].op = "reject" THEN taken \cup {call[k].update} ELSE taken
  /\ call' = [call EXCEPT ![k] = Decision(call[k].op, call[k].update, "commit")]
  /\ UNCHANGED <<bookVars, setting, casts, arrival, disk, initial, noticed,
                 answered, seen>>

AnswerUncommitted(k) ==
  /\ call[k] \in Decisions
  /\ call[k].at = "commit"
  /\ answered' = answered \cup {call[k].update}
  /\ call' = [call EXCEPT ![k] = Idle]
  /\ UNCHANGED <<bookVars, setting, casts, arrival, live, disk, initial,
                 noticed, taken, seen>>

CommitDelete(k) ==
  /\ call[k] \in Decisions
  /\ call[k].at = "commit"
  /\ disk' = live
  /\ answered' = answered \cup {call[k].update}
  /\ call' = [call EXCEPT ![k] = Idle]
  /\ UNCHANGED <<bookVars, setting, casts, arrival, live, initial, noticed,
                 taken, seen>>

-----------------------------------------------------------------------------
(* The process and its files.                                              *)

\* A new process has the settings of the configuration file.
Start(how) ==
  /\ Startup(how)
  /\ setting' = initial
  /\ UNCHANGED <<initial, call, casts, arrival, live, disk, noticed, taken,
                 answered, seen>>

Die ==
  /\ Stop
  /\ Ended
  /\ UNCHANGED <<setting, initial, disk, noticed, taken, answered, seen>>

EditFile(f) ==
  /\ edited = {}
  /\ EditOf(f)
  /\ UNCHANGED syncVars

ClientStep(k) ==
  \/ \E i \in Ids, how \in Outcomes :
       \/ PutContact(k, i, how)
       \/ RemoveContact(k, i, how)
       \/ ApplyDiscovered(k, i, how)
  \/ \E how \in Outcomes : ReloadBook(k, how)
  \/ \E f \in Files : ReloadBreaks(k, f)
  \/ SyncNow(k)
  \/ \E s \in Settings : Configure(k, s)
  \/ \E u \in Updates, op \in {"apply", "reject"} : Decide(k, u, op)
  \/ GetPending(k)
  \/ \E how \in Outcomes : RunPending(k, how)
  \/ DeletePending(k)
  \/ CommitDelete(k)

UpdateStep(u) ==
  \/ Drop(u)
  \/ \E how \in Outcomes : ApplyInbound(u, how)
  \/ KeepInbound(u)
  \/ InsertPending(u)
  \/ CommitPending(u)
  \/ PushPending(u)

CastStep(c) == CastEnds(c) \/ \E arrives \in BOOLEAN : Tell(c, arrives)

ProcessStep ==
  \/ \E how \in Outcomes : Start(how)
  \/ Die
  \/ \E f \in Files : EditFile(f)

Next ==
  \/ \E k \in Clients : ClientStep(k)
  \/ \E u \in Updates : UpdateStep(u)
  \/ \E c \in casts : CastStep(c)
  \/ ProcessStep

Spec == Init /\ [][Next]_vars

-----------------------------------------------------------------------------
(* Properties                                                              *)

\* An update the user interfaces were told of is never lost: it stands in the
\* committed table until a client has rejected it or the book has taken or
\* refused it, through failing writes, crashes, and commits of other handlers
\* that fall between two of its statements.
NoticedIsKept ==
  /\ noticed \subseteq disk \cup taken
  /\ running => noticed \subseteq live \cup taken

\* An update a client was told is applied or rejected is gone for good: no
\* restart brings its row back to be decided a second time.
DecidedIsGone == answered \cap (live \cup disk) = {}

\* A peer learns the changes one client makes in the order of their versions,
\* although other clients' changes go out at the same time, IQs fail and the
\* service restarts.
PerClientOrder ==
  [][~metaLost' =>
       \A p \in Ids, k \in Clients : seen[p][k] <= seen'[p][k]]_vars
=============================================================================
