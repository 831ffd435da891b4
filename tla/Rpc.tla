---------------------------------- MODULE Rpc ----------------------------------
(***************************************************************************)
(* The JSON-RPC interface between the connection service and its user      *)
(* interfaces: RpcServer (connection_service/api.py), the start and the    *)
(* shutdown of the service (service.py), the APIClient of the text user    *)
(* interface (common/api_client.py) and the event handler it registers     *)
(* (text_ui/app.py).                                                       *)
(*                                                                         *)
(* Sockets are numbered.  The first Visitors of them belong to other       *)
(* programs (the web user interface, a second terminal), which come once   *)
(* and leave once; the APIClient takes the others in turn.                 *)
(*                                                                         *)
(* websockets runs one handler per socket.  A send on a socket that is     *)
(* full waits, first come first served, until the socket takes more or is  *)
(* closed; every other send ends at once, so a task that sends keeps the   *)
(* event loop until it meets a full socket.                                *)
(*                                                                         *)
(* Left out: what the methods do (modules Outbox, AddressBookSync and      *)
(* Incoming) beyond whether they end, the lists the text user interface    *)
(* shows, and messages that are not JSON.                                  *)
(***************************************************************************)
EXTENDS Integers, Sequences, FiniteSets, SequencesExt

CONSTANTS
  Visitors,    \* how many sockets other programs open (bound)
  MaxSockets,  \* how many sockets there are (bound)
  Method,      \* of each call of the APIClient: "plain", "shutdown", "reconnect"
  Plans,       \* [token, raises, slot, calls, visitors, events, kinds, faults] (bounds)
  Orders       \* the orders in which a set of sockets may be iterated

Calls   == DOMAIN Method
Sockets == 1..MaxSockets

ASSUME SocketsAssumption ==
  /\ Visitors \in Nat
  /\ MaxSockets \in Nat
  /\ Visitors < MaxSockets
ASSUME MethodAssumption == \A k \in Calls : Method[k] \in {"plain", "shutdown", "reconnect"}
ASSUME PlansAssumption ==
  \A p \in Plans : /\ p.token \in BOOLEAN /\ p.raises \in BOOLEAN /\ p.slot \in Orders
                   /\ p.calls \subseteq Calls /\ p.visitors \in 0..Visitors
                   /\ p.events \in Nat /\ p.faults \in Nat
                   /\ p.kinds \subseteq {"cut", "full", "quit", "rehash", "signal", "crash"}
ASSUME OrdersAssumption ==
  \A o \in Orders : /\ o \in [Sockets -> Sockets]
                    /\ \A s, r \in Sockets : o[s] = o[r] => s = r

VARIABLES
  plan,      \* what may happen in this run
  slot,      \* where a socket stands in the table of the set `clients`
  svc,       \* the service: up, asked to stop, closing, stopping, down
  state,     \* of each socket: none, open, or how it was closed: clean, cut
  full,      \* sockets that take no more data for now
  inbox,     \* requests on each socket; its handler works on the first
  hand,      \* handle_client of each socket: none, idle, busy, answer, over
  clients,   \* RpcServer.clients
  authed,    \* RpcServer._authenticated
  tasks,     \* broadcasts that have not ended, in the order of their start
  pushed,    \* how many events were pushed
  astray,    \* history: events whose broadcast ended with an exception, or
             \* has the set laid out anew under its iteration
  given,     \* history: the events written on each socket that is served, as
             \* long as they are not astray
  since,     \* history: how many events had been pushed when it was let in
  pc,        \* APIClient.connect(): dial, auth, read, sleep, stopped
  ws,        \* APIClient._ws, 0 at first
  made,      \* the last socket used
  out,       \* frames on the socket of the read loop that it has not read
  connected, \* APIClient._connected
  quit,      \* not APIClient._should_run
  calls,     \* of each call: none, asked, sent, done, failed, expired
  pending,   \* APIClient._pending
  faults     \* faults so far

sockVars == <<state, full, inbox>>
srvVars  == <<svc, hand, clients, authed, since>>
castVars == <<tasks, pushed, astray, given>>
cliVars  == <<pc, ws, made, connected, quit, calls, pending>>
runVars  == <<plan, slot>>
vars == <<runVars, sockVars, srvVars, castVars, cliVars, out, faults>>

Running == {"idle", "busy", "answer"}
Requests == Calls \cup {"auth", "bad auth"}
Tasks == [event : Nat, pos : Nat, on : Nat, size : Int, dead : SUBSET Sockets]

TypeOK ==
  /\ svc \in {"up", "asked", "closing", "stopping", "down"}
  /\ state \in [Sockets -> {"none", "open", "clean", "cut"}]
  /\ full \subseteq Sockets
  /\ \A s \in Sockets : inbox[s] \in Seq(Requests)
  /\ hand \in [Sockets -> Running \cup {"none", "over"}]
  /\ clients \subseteq {s \in Sockets : hand[s] \in Running}
  /\ authed \subseteq {s \in Sockets : hand[s] \in Running}
  /\ \A i \in 1..Len(tasks) : tasks[i] \in Tasks
  /\ pushed \in 0..plan.events
  /\ astray \subseteq 1..pushed
  /\ given \in [Sockets -> Seq(1..pushed)]
  /\ since \in [Sockets -> 0..pushed]
  /\ pc \in {"dial", "auth", "read", "sleep", "stopped"}
  /\ ws \in 0..made /\ made \in Visitors..MaxSockets
  /\ connected \in BOOLEAN /\ quit \in BOOLEAN
  /\ calls \in [Calls -> {"none", "asked", "sent", "done", "failed", "expired"}]
  /\ pending \subseteq Calls
  /\ faults \in 0..plan.faults

Init ==
  /\ plan \in Plans /\ slot = plan.slot
  /\ svc = "up"
  /\ state = [s \in Sockets |-> "none"]
  /\ full = {}
  /\ inbox = [s \in Sockets |-> <<>>]
  /\ hand = [s \in Sockets |-> "none"]
  /\ clients = {} /\ authed = {}
  /\ tasks = <<>> /\ pushed = 0 /\ astray = {}
  /\ given = [s \in Sockets |-> <<>>]
  /\ since = [s \in Sockets |-> 0]
  /\ pc = "dial" /\ ws = 0 /\ made = Visitors
  /\ out = <<>>
  /\ connected = FALSE /\ quit = FALSE
  /\ calls = [k \in Calls |-> "none"]
  /\ pending = {}
  /\ faults = 0

Fault(kind) ==
  /\ kind \in plan.kinds
  /\ faults < plan.faults
  /\ faults' = faults + 1

Open(s) == state[s] = "open"
Full(s) == Open(s) /\ s \in full
Serves  == svc \in {"up", "asked"}

AnswerTo(k) == <<"answer", k>>
Event(e)    == <<"event", e>>

\* A frame reaches the APIClient if the read loop still reads that socket.
Receives(s) == pc = "read" /\ ws = s

-----------------------------------------------------------------------------
(* APIClient.                                                              *)

\* _fail_pending: every pending call that still waits fails.
FailPending ==
  /\ connected' = FALSE
  /\ calls' = [k \in Calls |-> IF k \in pending /\ calls[k] = "sent" THEN "failed"
                               ELSE calls[k]]
  /\ pending' = {}
  /\ out' = <<>>

EndsForGood == pc' = "stopped" /\ FailPending

\* The read loop or the dialling ended with an exception, and the loop of
\* connect() sleeps.  The socket is not closed.
Dies == pc' = "sleep" /\ FailPending

\* The service takes the connection.  With a token the client calls "auth"
\* before it sets _connected, for which every call waits: it stays there.
Dial ==
  /\ pc = "dial"
  /\ Serves
  /\ made < MaxSockets
  /\ made' = made + 1
  /\ ws' = made + 1
  /\ state' = [state EXCEPT ![made + 1] = "open"]
  /\ pc' = IF plan.token THEN "auth" ELSE "read"
  /\ connected' = (connected \/ ~plan.token)
  /\ UNCHANGED <<runVars, full, inbox, srvVars, castVars, quit, calls,
                 pending, out, faults>>

DialFails ==
  /\ pc = "dial"
  /\ ~Serves
  /\ Dies
  /\ UNCHANGED <<runVars, sockVars, srvVars, castVars, ws, made, quit, faults>>

\* Two seconds later; disconnect() may have been called meanwhile.
Wake ==
  /\ pc = "sleep"
  /\ pc' = IF quit THEN "stopped" ELSE "dial"
  /\ UNCHANGED <<runVars, sockVars, srvVars, castVars, ws, made, connected,
                 quit, calls, pending, out, faults>>

\* A part of the user interface calls a method.
Ask(k) ==
  /\ calls[k] = "none"
  /\ k \in plan.calls
  /\ ~quit
  /\ calls' = [calls EXCEPT ![k] = "asked"]
  /\ UNCHANGED <<runVars, sockVars, srvVars, castVars, pc, ws, made,
                 connected, quit, pending, out, faults>>

\* _connected is set: the call is entered in _pending and sent.  On a socket
\* that is closed the send raises, and the entry stays.
Send(k) ==
  /\ calls[k] = "asked"
  /\ connected
  /\ pending' = pending \cup {k}
  /\ calls' = [calls EXCEPT ![k] = IF Open(ws) THEN "sent" ELSE "failed"]
  /\ inbox' = IF Open(ws) THEN [inbox EXCEPT ![ws] = Append(@, k)] ELSE inbox
  /\ UNCHANGED <<runVars, state, full, srvVars, castVars, pc, ws, made,
                 connected, quit, out, faults>>

\* wait_for() gives up after 30 seconds, or the worker that made the call is
\* replaced by a newer one; the entry in _pending stays.
Expire(k) ==
  /\ calls[k] = "sent"
  /\ calls' = [calls EXCEPT ![k] = "expired"]
  /\ UNCHANGED <<runVars, sockVars, srvVars, castVars, pc, ws, made,
                 connected, quit, pending, out, faults>>

\* The handler of the text user interface uses call_from_thread, which Textual
\* refuses in the thread of the event loop; other handlers do not raise.
HandlerRaises == plan.raises

\* The read loop takes a frame.  The answer to a call that nobody waits for
\* any more raises, and so does a handler of events that fails.
ReadFrame ==
  /\ pc = "read"
  /\ out # <<>>
  /\ LET f == Head(out)
         answers == f[1] = "answer" /\ f[2] \in pending
         raises  == \/ answers /\ calls[f[2]] # "sent"
                    \/ f[1] = "event" /\ HandlerRaises
     IN IF raises
        THEN Dies
        ELSE /\ out' = Tail(out)
             /\ IF answers
                THEN /\ pending' = pending \ {f[2]}
                     /\ calls' = [calls EXCEPT ![f[2]] = "done"]
                ELSE UNCHANGED <<pending, calls>>
             /\ UNCHANGED <<pc, connected>>
  /\ UNCHANGED <<runVars, sockVars, srvVars, castVars, ws, made, quit, faults>>

\* The read loop meets the end of the socket, perhaps before it has read all
\* that had come.  A socket closed cleanly ends it without an exception: what
\* is pending stays pending, _connected stays set, and connect() dials again.
ReadEnd ==
  /\ pc = "read"
  /\ ~Open(ws)
  /\ IF state[ws] = "clean"
     THEN /\ pc' = IF quit THEN "stopped" ELSE "dial"
          /\ out' = <<>>
          /\ UNCHANGED <<connected, calls, pending>>
     ELSE Dies
  /\ UNCHANGED <<runVars, sockVars, srvVars, castVars, ws, made, quit, faults>>

\* disconnect(): a read loop that runs is cancelled and the last socket closed.
Quit ==
  /\ ~quit
  /\ Fault("quit")
  /\ quit' = TRUE
  /\ pc' = IF pc = "read" THEN "stopped" ELSE pc
  /\ out' = <<>>
  /\ state' = IF ws # 0 /\ Open(ws) THEN [state EXCEPT ![ws] = "clean"] ELSE state
  /\ UNCHANGED <<runVars, full, inbox, srvVars, castVars, ws, made, connected,
                 calls, pending>>

-----------------------------------------------------------------------------
(* Other programs, and what happens to sockets.                            *)

Visit(s) ==
  /\ s <= plan.visitors
  /\ state[s] = "none"
  /\ Serves
  /\ state' = [state EXCEPT ![s] = "open"]
  /\ UNCHANGED <<runVars, full, inbox, srvVars, castVars, cliVars, out, faults>>

\* With a token another program tries to authenticate.
Apply(s, how) ==
  /\ s <= Visitors /\ Open(s)
  /\ plan.token /\ s \notin authed
  /\ inbox[s] = <<>>
  /\ inbox' = [inbox EXCEPT ![s] = <<how>>]
  /\ UNCHANGED <<runVars, state, full, srvVars, castVars, cliVars, out, faults>>

Leave(s) ==
  /\ s <= Visitors /\ Open(s)
  /\ state' = [state EXCEPT ![s] = "clean"]
  /\ UNCHANGED <<runVars, full, inbox, srvVars, castVars, cliVars, out, faults>>

\* The network drops a connection.
Cut(s) ==
  /\ Open(s)
  /\ Fault("cut")
  /\ state' = [state EXCEPT ![s] = "cut"]
  /\ UNCHANGED <<runVars, full, inbox, srvVars, castVars, cliVars, out>>

\* Its program does not read a socket for a while.
FillUp(s) ==
  /\ Open(s) /\ s \notin full
  /\ Fault("full")
  /\ full' = full \cup {s}
  /\ UNCHANGED <<runVars, state, inbox, srvVars, castVars, cliVars, out>>

\* It reads again, or ping_timeout closes the connection.
Relieve(s) ==
  /\ Full(s)
  /\ full' = full \ {s}
  /\ \/ UNCHANGED state
     \/ state' = [state EXCEPT ![s] = "cut"]
  /\ UNCHANGED <<runVars, inbox, srvVars, castVars, cliVars, out, faults>>

-----------------------------------------------------------------------------
(* RpcServer.handle_client.                                                *)

\* An add may lay out the table of a set anew.  An iteration that is under way
\* goes on at the place it has come to, in a table that has changed, and only
\* looks whether the size of the set is the one it began with.
LaidOutAnew ==
  /\ "rehash" \in plan.kinds
  /\ slot' \in Orders
  /\ astray' = astray \cup {tasks[i].event : i \in {j \in 1..Len(tasks) : tasks[j].on # 0}}

Accept(s) ==
  /\ hand[s] = "none"
  /\ Open(s)
  /\ hand' = [hand EXCEPT ![s] = "idle"]
  /\ clients' = clients \cup {s}
  /\ LaidOutAnew \/ UNCHANGED <<slot, astray>>
  /\ IF plan.token THEN UNCHANGED <<authed, since>>
     ELSE /\ authed' = authed \cup {s}
          /\ since' = [since EXCEPT ![s] = pushed]
  /\ UNCHANGED <<plan, sockVars, svc, tasks, pushed, given, cliVars, out, faults>>

LeavesItsMark(s) ==
  /\ hand' = [hand EXCEPT ![s] = "over"]
  /\ authed' = authed \ {s}
  /\ given' = [given EXCEPT ![s] = <<>>]
  /\ since' = [since EXCEPT ![s] = 0]
  /\ UNCHANGED clients

\* The finally clause (and the end of what is recorded of the socket).
Over(s) ==
  /\ hand' = [hand EXCEPT ![s] = "over"]
  /\ clients' = clients \ {s}
  /\ authed' = authed \ {s}
  /\ given' = [given EXCEPT ![s] = <<>>]
  /\ since' = [since EXCEPT ![s] = 0]

\* The next message, perhaps one that came before the socket was closed.  As
\* long as it is not let in, a client can only authenticate; after a wrong
\* token its socket is closed.
Take(s) ==
  /\ hand[s] = "idle"
  /\ inbox[s] # <<>>
  /\ LET request == Head(inbox[s]) IN
       IF plan.token /\ s \notin authed
       THEN /\ inbox' = [inbox EXCEPT ![s] = Tail(@)]
            /\ IF request = "auth"
               THEN /\ authed' = authed \cup {s}
                    /\ since' = [since EXCEPT ![s] = pushed]
                    /\ UNCHANGED state
               ELSE /\ state' = IF request = "bad auth" /\ Open(s)
                                THEN [state EXCEPT ![s] = "cut"] ELSE state
                    /\ UNCHANGED <<authed, since>>
            /\ UNCHANGED hand
       ELSE /\ hand' = [hand EXCEPT ![s] = "busy"]
            /\ UNCHANGED <<inbox, authed, since, state>>
  /\ UNCHANGED <<runVars, full, svc, clients, castVars, cliVars, out, faults>>

\* connection.reconnect awaits DirectP2PTransport.disconnect(), which may never
\* end (PeerStreams, DisconnectTerminates).
MayHang(s) == hand[s] = "busy" /\ Head(inbox[s]) \in Calls /\ Method[Head(inbox[s])] = "reconnect"

\* _dispatch ends, with a result or an exception.  system.shutdown has only
\* created the task of shutdown().
Execute(s) ==
  /\ hand[s] = "busy"
  /\ hand' = [hand EXCEPT ![s] = "answer"]
  /\ svc' = IF Head(inbox[s]) \in Calls /\ svc = "up"
            THEN IF Method[Head(inbox[s])] = "shutdown" THEN "asked" ELSE svc
            ELSE svc
  /\ UNCHANGED <<runVars, sockVars, clients, authed, since, castVars, cliVars,
                 out, faults>>

\* Mutant: a method that raised is logged, and no error is sent.
AnswerNothing(s) ==
  /\ hand[s] = "answer"
  /\ ~Full(s)
  /\ inbox' = [inbox EXCEPT ![s] = Tail(@)]
  /\ hand' = [hand EXCEPT ![s] = "idle"]
  /\ UNCHANGED <<runVars, state, full, svc, clients, authed, since, castVars,
                 cliVars, out, faults>>

\* The answer is sent.  On a closed socket this raises, in the attempt to
\* send the error too, and the handler ends.
Answer(s) ==
  /\ hand[s] = "answer"
  /\ ~Full(s)
  /\ inbox' = [inbox EXCEPT ![s] = Tail(@)]
  /\ IF Open(s)
     THEN /\ hand' = [hand EXCEPT ![s] = "idle"]
          /\ out' = IF Receives(s) THEN Append(out, AnswerTo(Head(inbox[s]))) ELSE out
          /\ UNCHANGED <<clients, authed, given, since>>
     ELSE Over(s) /\ UNCHANGED out
  /\ UNCHANGED <<runVars, state, full, svc, tasks, pushed, astray, cliVars,
                 faults>>

\* The handler meets the end of the socket.
End(s) ==
  /\ hand[s] = "idle"
  /\ state[s] \in {"clean", "cut"}
  /\ Over(s)
  /\ UNCHANGED <<runVars, sockVars, svc, tasks, pushed, astray, cliVars, out,
                 faults>>

-----------------------------------------------------------------------------
(* RpcServer.broadcast, a task for each event.                             *)

\* _on_push and _on_addressbook_updated.
Push ==
  /\ pushed < plan.events
  /\ svc # "down"
  /\ pushed' = pushed + 1
  /\ tasks' = Append(tasks, [event |-> pushed + 1, pos |-> 0, on |-> 0,
                             size |-> -1, dead |-> {}])
  /\ UNCHANGED <<runVars, sockVars, srvVars, astray, given, cliVars, out,
                 faults>>

Waits(t) == t.on # 0 /\ Full(t.on)

\* The event loop runs what can go on in the order it was started.
Turn(i) == ~Waits(tasks[i]) /\ \A j \in 1..(i - 1) : Waits(tasks[j])

UpToTheDead(reached) ==
  {s \in reached : \A r \in reached : ~Open(r) => slot[s] < slot[r]}

\* A send on a closed socket raises, and the loop goes on to the next client.
Written(reached) == {s \in reached : Open(s)}

\* What the APIClient gets of it.
FramesFor(reached, event) ==
  IF \E s \in Written(reached) : Receives(s) THEN <<Event(event)>> ELSE <<>>

\* Task i goes through the set from where it stands to the next full socket,
\* or to the end.  A set that has another size than before its iteration ends
\* it with an exception; clients found dead are removed at the end.
Cast(i) ==
  /\ Turn(i)
  /\ LET t       == tasks[i]
         size    == IF t.size = -1 THEN Cardinality(clients) ELSE t.size
         changed == Cardinality(clients) # size
         left    == {s \in clients : slot[s] > t.pos /\ (plan.token => s \in authed)}
         stops   == {s \in left : Full(s)}
         at      == CHOOSE s \in stops : \A r \in stops : slot[s] <= slot[r]
         waited  == IF t.on = 0 THEN {} ELSE {t.on}
         passed  == IF changed THEN {}
                    ELSE {s \in left : \A r \in stops : slot[s] < slot[r]}
         reached == passed \cup waited
         written == IF t.event \in astray THEN {} ELSE Written(reached)
         dead    == t.dead \cup {s \in reached : ~Open(s)}
     IN /\ given' = [s \in Sockets |->
                       IF s \in written THEN Append(given[s], t.event) ELSE given[s]]
        /\ out' = out \o FramesFor(waited, t.event) \o FramesFor(passed, t.event)
        /\ IF ~changed /\ stops # {}
           THEN /\ tasks' = [tasks EXCEPT ![i] =
                   [@ EXCEPT !.pos = slot[at], !.on = at, !.size = size, !.dead = dead]]
                /\ UNCHANGED <<clients, authed, astray>>
           ELSE /\ tasks' = RemoveAt(tasks, i)
                /\ IF changed
                   THEN astray' = astray \cup {t.event} /\ UNCHANGED <<clients, authed>>
                   ELSE /\ clients' = clients \ dead
                        /\ authed' = authed \ dead
                        /\ UNCHANGED astray
  /\ UNCHANGED <<runVars, sockVars, svc, hand, since, pushed, cliVars, faults>>

-----------------------------------------------------------------------------
(* ConnectionService.                                                      *)

\* SIGINT or SIGTERM.
Signal ==
  /\ svc = "up"
  /\ Fault("signal")
  /\ svc' = "asked"
  /\ UNCHANGED <<runVars, sockVars, hand, clients, authed, since, castVars,
                 cliVars, out>>

Remain(s) == state[s]

\* The server of websockets closes every connection as "going away".
ClosedBy(s) == IF Open(s) THEN "clean" ELSE state[s]

\* shutdown() begins.
Close ==
  /\ svc = "asked"
  /\ svc' = "closing"
  /\ state' = [s \in Sockets |-> ClosedBy(s)]
  /\ UNCHANGED <<runVars, full, inbox, hand, clients, authed, since, castVars,
                 cliVars, out, faults>>

\* wait_closed() has seen every handler end; sessions.shutdown() begins.
HandlersOver ==
  /\ svc = "closing"
  /\ \A s \in Sockets : hand[s] \notin Running
  /\ svc' = "stopping"
  /\ UNCHANGED <<runVars, sockVars, hand, clients, authed, since, castVars,
                 cliVars, out, faults>>

\* With the process ends what it keeps in memory.
ProcessEnds ==
  /\ svc' = "down"
  /\ hand' = [s \in Sockets |-> IF hand[s] \in Running THEN "over" ELSE hand[s]]
  /\ clients' = {} /\ authed' = {}
  /\ given' = [s \in Sockets |-> <<>>]
  /\ since' = [s \in Sockets |-> 0]
  /\ tasks' = <<>>

\* The transports and the database are closed and the process exits.  This may
\* never happen: DirectP2PTransport.disconnect() is awaited first.
Exit ==
  /\ svc = "stopping"
  /\ ProcessEnds
  /\ UNCHANGED <<runVars, sockVars, pushed, astray, cliVars, out, faults>>

Crash ==
  /\ svc # "down"
  /\ Fault("crash")
  /\ ProcessEnds
  /\ state' = [s \in Sockets |-> IF Open(s) THEN "cut" ELSE state[s]]
  /\ full' = {}
  /\ UNCHANGED <<runVars, inbox, pushed, astray, cliVars, out>>

\* start(), with a new RpcServer.
Start ==
  /\ svc = "down"
  /\ svc' = "up"
  /\ UNCHANGED <<runVars, sockVars, hand, clients, authed, since, castVars,
                 cliVars, out, faults>>

ClientStep == Dial \/ DialFails \/ Wake \/ ReadFrame \/ ReadEnd \/ \E k \in Calls : Send(k)

ServerStep ==
  \/ \E s \in Sockets : \/ Accept(s)
                         \/ Take(s)
                         \/ (~MayHang(s) /\ Execute(s))
                         \/ Answer(s)
                         \/ End(s)
  \/ \E i \in 1..Len(tasks) : Cast(i)
  \/ Close
  \/ HandlersOver

Next ==
  \/ ClientStep
  \/ ServerStep
  \/ \E k \in Calls : Ask(k) \/ Expire(k)
  \/ \E s \in Sockets :
       \/ (MayHang(s) /\ Execute(s))
       \/ Visit(s)
       \/ \E how \in {"auth", "bad auth"} : Apply(s, how)
       \/ Leave(s)
       \/ Cut(s)
       \/ FillUp(s)
       \/ Relieve(s)
  \/ Push
  \/ Quit
  \/ Signal
  \/ Exit
  \/ Crash
  \/ Start

\* Event loops run, methods end except the one that may hang, and a socket does
\* not stay full and open.
Fairness ==
  /\ WF_vars(ClientStep)
  /\ WF_vars(ServerStep)
  /\ WF_vars(\E s \in Sockets : Relieve(s))

Spec == Init /\ [][Next]_vars
LiveSpec == Spec /\ Fairness

-----------------------------------------------------------------------------
(* Properties                                                              *)

Increasing(seq) == \A i, j \in 1..Len(seq) : i < j => seq[i] < seq[j]

\* Every event is broadcast by a task of its own, which waits for the slowest
\* client while others start, and clients come and go under its iteration.
\* Still a client that is let in gets the events in the order they were pushed,
\* none twice, and every one pushed since, except those whose broadcast has not
\* ended yet and those that went astray: under their broadcast the set changed
\* its size, which ends it with an exception, or was laid out anew, after which
\* it may meet a client twice or not at all.
EventsReachClients ==
  \A s \in authed : Open(s) =>
    /\ Increasing(given[s])
    /\ \A e \in (since[s] + 1)..pushed :
         \/ e \in ToSet(given[s])
         \/ e \in astray
         \/ \E i \in 1..Len(tasks) : tasks[i].event = e

\* A call on the socket that the read loop reads is answered, although its
\* handler works on one call after the other, the answer waits until the socket
\* takes it, and the service may be shutting down.  The call needs no time-out
\* for that: it ends, or the read loop gives up that socket, unless the handler
\* is at a method that may hang.
CallsAreAnswered ==
  \A k \in Calls :
    (pc = "read" /\ k \in ToSet(inbox[ws]) /\ calls[k] = "sent")
      ~> (calls[k] # "sent" \/ pc # "read" \/ MayHang(ws))

\* Unless the service goes down or the user quits, a client without a token is
\* connected again and again, after dropped connections, after restarts of the
\* service, after handlers that raise and after answers that come too late.
StaysConnected ==
  <>[](svc = "up" /\ ~quit /\ ~plan.token) => []<>(connected /\ Receives(ws) /\ Open(ws))

\* A shutdown that was asked for gets past the user interfaces: it waits for
\* the handlers of all clients, for the one whose call asked for it and for those
\* that send an answer to a client that does not read, unless one of them is at
\* a method that may hang.  (Then it closes the transports, which may not end.)
ShutdownGoesOn ==
  (svc \in {"asked", "closing"})
    ~> (svc \in {"stopping", "down"} \/ \E s \in Sockets : MayHang(s))
=============================================================================
