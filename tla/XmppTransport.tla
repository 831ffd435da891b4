---------------------------- MODULE XmppTransport ----------------------------
(***************************************************************************)
(* XMPPServerTransport (transports/xmpp_server.py): one transport object,  *)
(* the slixmpp clients it makes one after the other, the coroutines that   *)
(* dial for it, its reconnect task and its ping task.                      *)
(*                                                                         *)
(* Nobody closes a client that is replaced, and every client's event       *)
(* handlers refer to the transport: an event of any client changes the     *)
(* state of the transport.  A handler has no await that suspends before    *)
(* its last assignment, so it is one step.                                 *)
(*                                                                         *)
(* Left out: _error, _error_info and _sm_active, which only status() reads,*)
(* and the length of the delays (_backoff), as time is not modelled.       *)
(***************************************************************************)
EXTENDS Integers, FiniteSets

CONSTANTS
  MaxClients,  \* slixmpp clients made, over all restarts (bound)
  Caller       \* coroutines that may be in connect() at the same time (bound)

ASSUME ClientsAssumption == MaxClients \in Nat

Client == 1..MaxClients

VARIABLES
  state,    \* _state
  wanted,   \* _should_reconnect
  client,   \* _client, 0 for None
  stream,   \* external: the stream of each client
  smId,     \* the stream management id each client's plugin holds, 0 for none;
            \* an id is named after the client whose session began with it
  saved,    \* the id in .xmpp-sm-state.json, 0 when there is no file
  dial,     \* the client whose connect() each caller awaits, 0 for none
  retry,    \* _reconnect_task: done, asleep, or awaiting a client's connect()
  ping,     \* _ping_task: done, asleep, awaiting the answer, or awaiting the
            \* disconnect() of the client that did not answer
  closing,  \* the client whose disconnect() the transport's disconnect awaits
  pushed,   \* the state that connection.changed last told the user interfaces
  crossed   \* history: a dial began while an earlier client was still alive

vars == <<state, wanted, client, stream, smId, saved, dial, retry, ping,
          closing, pushed, crossed>>

State == {"disconnected", "connecting", "connected", "reconnecting", "error"}

Asleep == -1
Done   == 0

Alive == {k \in Client : stream[k] \in {"opening", "open", "session"}}

TypeOK ==
  /\ state \in State
  /\ wanted \in BOOLEAN
  /\ client \in 0..MaxClients
  /\ stream \in [Client -> {"unborn", "opening", "open", "session", "closed"}]
  /\ smId \in [Client -> 0..MaxClients]
  /\ saved \in 0..MaxClients
  /\ dial \in [Caller -> 0..MaxClients]
  /\ retry \in {Asleep, Done} \cup Client
  /\ ping \in {"done", "asleep", "asked", "leaving"}
  /\ closing \in 0..MaxClients
  /\ pushed \in State
  /\ crossed \in BOOLEAN

Init ==
  /\ state = "disconnected" /\ pushed = "disconnected"
  /\ wanted = TRUE
  /\ client = 0 /\ closing = 0
  /\ stream = [k \in Client |-> "unborn"]
  /\ smId = [k \in Client |-> 0] /\ saved = 0
  /\ dial = [t \in Caller |-> 0]
  /\ retry = Done /\ ping = "done"
  /\ crossed = FALSE

-----------------------------------------------------------------------------

SetState(s) == state' = s /\ pushed' = s

SetStream(k, s) == stream' = [stream EXCEPT ![k] = s]

(* Mutant: the count of handled stanzas is saved in place of the id.       *)
PersistCount == saved' = IF client # 0 THEN saved + 1 ELSE saved

(* _persist_sm_state: it asks the client of the transport, whichever       *)
(* client's event it serves.                                               *)
Persist ==
  saved' = IF client # 0 /\ smId'[client] # 0 THEN smId'[client] ELSE saved

(* Mutant: a scheduled reconnect is announced and started every time.      *)
FailsAlwaysReconnecting(s) ==
  /\ pushed' = s
  /\ state' = IF wanted THEN "reconnecting" ELSE s
  /\ retry' = IF wanted /\ retry = Done THEN Asleep ELSE retry

(* Mutant: a failure that will be retried is not told.                     *)
FailsUntold(s) ==
  IF wanted /\ retry = Done
  THEN state' = "reconnecting" /\ retry' = Asleep /\ UNCHANGED pushed
  ELSE state' = s /\ pushed' = s /\ UNCHANGED retry

(* A failure is told; then _schedule_reconnect does nothing while a        *)
(* reconnect task is not done.                                             *)
Fails(s) ==
  /\ pushed' = s
  /\ IF wanted /\ retry = Done
     THEN state' = "reconnecting" /\ retry' = Asleep
     ELSE state' = s /\ UNCHANGED retry

(* _do_connect up to its await: a new client, with the saved id.           *)
Dial(k) ==
  /\ stream[k] = "unborn" /\ \A j \in 1..(k - 1) : stream[j] # "unborn"
  /\ SetState("connecting")
  /\ client' = k
  /\ SetStream(k, "opening")
  /\ smId' = [smId EXCEPT ![k] = saved]
  /\ crossed' = (crossed \/ Alive # {})

(* _ensure_xmpp for chat.start, chat.send_message, a drain or startup.     *)
Connect(t) ==
  /\ dial[t] = 0 /\ state # "connected"
  /\ wanted' = TRUE
  /\ \E k \in Client : Dial(k) /\ dial' = [dial EXCEPT ![t] = k]
  /\ UNCHANGED <<saved, retry, ping, closing>>

DialReturns(t) ==
  /\ dial[t] # 0 /\ stream[dial[t]] = "opening"
  /\ SetStream(dial[t], "open")
  /\ dial' = [dial EXCEPT ![t] = 0]
  /\ UNCHANGED <<state, wanted, client, smId, saved, retry, ping, closing,
                 pushed, crossed>>

(* connect() raises, or does not return within 30 seconds.                 *)
DialFails(t) ==
  /\ dial[t] # 0 /\ stream[dial[t]] \in {"opening", "closed"}
  /\ SetStream(dial[t], "closed")
  /\ dial' = [dial EXCEPT ![t] = 0]
  /\ Fails("error")
  /\ UNCHANGED <<wanted, client, smId, saved, ping, closing, crossed>>

(* Mutant: the task looks for the state that _handle_disconnected set.     *)
RetryWakesIfDisconnected ==
  /\ retry = Asleep
  /\ IF wanted /\ state = "disconnected"
     THEN \E k \in Client : Dial(k) /\ retry' = k
     ELSE /\ retry' = Done
          /\ UNCHANGED <<state, client, stream, smId, pushed, crossed>>
  /\ UNCHANGED <<wanted, saved, dial, ping, closing>>

(* The reconnect task ends its sleep.                                      *)
RetryWakes ==
  /\ retry = Asleep
  /\ IF wanted /\ state # "connected"
     THEN \E k \in Client : Dial(k) /\ retry' = k
     ELSE /\ retry' = Done
          /\ UNCHANGED <<state, client, stream, smId, pushed, crossed>>
  /\ UNCHANGED <<wanted, saved, dial, ping, closing>>

RetryReturns ==
  /\ retry \in Client /\ stream[retry] = "opening"
  /\ SetStream(retry, "open")
  /\ retry' = Done
  /\ UNCHANGED <<state, wanted, client, smId, saved, dial, ping, closing,
                 pushed, crossed>>

(* Its own _schedule_reconnect finds the reconnect task not done: this     *)
(* very task.                                                              *)
RetryFails ==
  /\ retry \in Client /\ stream[retry] \in {"opening", "closed"}
  /\ SetStream(retry, "closed")
  /\ SetState("error")
  /\ retry' = Done
  /\ UNCHANGED <<wanted, client, smId, saved, dial, ping, closing, crossed>>

-----------------------------------------------------------------------------
(* Events of a client                                                      *)

(* Mutant: a refused id stays in the file.                                 *)
SessionStartKeepsSaved(k) ==
  /\ stream[k] = "open"
  /\ SetStream(k, "session")
  /\ smId' = [smId EXCEPT ![k] = 0]
  /\ SetState("connected")
  /\ ping' = IF wanted THEN "asleep" ELSE "done"
  /\ UNCHANGED <<wanted, client, saved, dial, retry, closing, crossed>>

(* session_start; when an id was offered, the server refused it, and       *)
(* sm_failed has removed the file.                                         *)
SessionStart(k) ==
  /\ stream[k] = "open"
  /\ SetStream(k, "session")
  /\ smId' = [smId EXCEPT ![k] = 0]
  /\ saved' = IF smId[k] # 0 THEN 0 ELSE saved
  /\ SetState("connected")
  /\ ping' = IF wanted THEN "asleep" ELSE "done"
  /\ UNCHANGED <<wanted, client, dial, retry, closing, crossed>>

SmEnabled(k) ==
  /\ stream[k] = "session" /\ smId[k] = 0
  /\ smId' = [smId EXCEPT ![k] = k]
  /\ Persist
  /\ UNCHANGED <<state, wanted, client, stream, dial, retry, ping, closing,
                 pushed, crossed>>

(* session_resumed, which the server sends instead of starting a session.  *)
Resumed(k) ==
  /\ stream[k] = "open" /\ smId[k] # 0
  /\ SetStream(k, "session")
  /\ UNCHANGED smId /\ Persist
  /\ UNCHANGED <<state, wanted, client, dial, retry, ping, closing, pushed,
                 crossed>>

(* Mutant: only the loss of the transport's own client counts.             *)
StreamLostOwnOnly(k) ==
  /\ stream[k] \in {"open", "session"}
  /\ SetStream(k, "closed")
  /\ UNCHANGED smId /\ Persist
  /\ ping' = "done"
  /\ IF state = "disconnected" \/ k # client
     THEN UNCHANGED <<state, retry, pushed>>
     ELSE Fails("disconnected")
  /\ UNCHANGED <<wanted, client, dial, closing, crossed>>

(* Mutant: while a reconnect task is not done, a loss is left to it.       *)
StreamLostLeftToRetry(k) ==
  /\ stream[k] \in {"open", "session"}
  /\ SetStream(k, "closed")
  /\ UNCHANGED smId /\ Persist
  /\ ping' = "done"
  /\ IF state = "disconnected" \/ retry # Done
     THEN UNCHANGED <<state, retry, pushed>>
     ELSE Fails("disconnected")
  /\ UNCHANGED <<wanted, client, dial, closing, crossed>>

(* disconnected, of whichever client.                                      *)
StreamLost(k) ==
  /\ \/ stream[k] \in {"open", "session"}
     \/ k = closing /\ stream[k] = "opening"
  /\ SetStream(k, "closed")
  /\ UNCHANGED smId /\ Persist
  /\ ping' = "done"
  /\ IF state = "disconnected"
     THEN UNCHANGED <<state, retry, pushed>>
     ELSE Fails("disconnected")
  /\ UNCHANGED <<wanted, client, dial, closing, crossed>>

-----------------------------------------------------------------------------
(* The ping task                                                           *)

PingIsDue ==
  /\ ping = "asleep"
  /\ ping' = IF state = "connected" THEN "asked" ELSE "done"
  /\ UNCHANGED <<state, wanted, client, stream, smId, saved, dial, retry,
                 closing, pushed, crossed>>

(* By the client that was asked, which may have been replaced since.       *)
PingAnswered ==
  /\ ping = "asked" /\ \E k \in Client : stream[k] = "session"
  /\ ping' = IF state = "connected" /\ wanted THEN "asleep" ELSE "done"
  /\ UNCHANGED <<state, wanted, client, stream, smId, saved, dial, retry,
                 closing, pushed, crossed>>

(* No answer, an error or no client: the task disconnects the client.     *)
PingFails ==
  /\ ping = "asked" /\ ping' = "leaving"
  /\ UNCHANGED <<state, wanted, client, stream, smId, saved, dial, retry,
                 closing, pushed, crossed>>

(* Then it calls _handle_disconnected.  The client's own event does so too *)
(* (StreamLost): when it comes first it cancels the ping task; when it     *)
(* comes later it sets the state back from reconnecting to disconnected.   *)
PingGivesUp ==
  /\ ping = "leaving" /\ ping' = "done"
  /\ IF state = "disconnected"
     THEN UNCHANGED <<state, retry, pushed>>
     ELSE Fails("disconnected")
  /\ UNCHANGED <<wanted, client, stream, smId, saved, dial, closing, crossed>>

-----------------------------------------------------------------------------
(* disconnect(), by connection.reconnect or the shutdown of the service    *)

(* Mutant: the reconnect task is left alone.                               *)
DisconnectKeepsRetry ==
  /\ closing = 0 /\ client # 0
  /\ wanted' = FALSE /\ ping' = "done"
  /\ UNCHANGED smId /\ Persist
  /\ closing' = client
  /\ UNCHANGED <<state, client, stream, dial, retry, pushed, crossed>>

(* Cancelling the reconnect task cancels the connect() it awaits; callers  *)
(* in connect() are not cancelled.  Without a client it ends at once.      *)
DisconnectBegins ==
  /\ closing = 0
  /\ wanted' = FALSE /\ ping' = "done" /\ retry' = Done
  /\ IF retry \in Client THEN SetStream(retry, "closed") ELSE UNCHANGED stream
  /\ UNCHANGED smId /\ Persist
  /\ closing' = client
  /\ IF client = 0 THEN SetState("disconnected") ELSE UNCHANGED <<state, pushed>>
  /\ UNCHANGED <<client, dial, crossed>>

DisconnectEnds ==
  /\ closing # 0 /\ stream[closing] = "closed"
  /\ closing' = 0 /\ client' = 0
  /\ SetState("disconnected")
  /\ UNCHANGED <<wanted, stream, smId, saved, dial, retry, ping, crossed>>

(* The process ends; the next one finds the file.                          *)
Restart ==
  /\ client # 0
  /\ stream' = [k \in Client |-> IF k \in Alive THEN "closed" ELSE stream[k]]
  /\ state' = "disconnected" /\ pushed' = "disconnected" /\ wanted' = TRUE
  /\ client' = 0 /\ closing' = 0 /\ retry' = Done /\ ping' = "done"
  /\ dial' = [t \in Caller |-> 0] /\ crossed' = FALSE
  /\ UNCHANGED <<smId, saved>>

Next ==
  \/ \E t \in Caller : Connect(t) \/ DialReturns(t) \/ DialFails(t)
  \/ RetryWakes \/ RetryReturns \/ RetryFails
  \/ \E k \in Client : \/ SessionStart(k) \/ SmEnabled(k) \/ Resumed(k)
                       \/ StreamLost(k)
  \/ PingIsDue \/ PingAnswered \/ PingFails \/ PingGivesUp
  \/ DisconnectBegins \/ DisconnectEnds \/ Restart

Spec == Init /\ [][Next]_vars

-----------------------------------------------------------------------------
(* Safety                                                                  *)

(* The transport says connected only while some client of it has a         *)
(* session, however dials, retries and late events of replaced clients     *)
(* interleave.                                                             *)
ConnectedHasSession ==
  state = "connected" => \E k \in Client : stream[k] = "session"

(* A state of reconnecting is never a promise without a task behind it:    *)
(* the reconnect task is asleep and will dial, unless it was cancelled by  *)
(* disconnect().                                                           *)
ReconnectingIsScheduled == state = "reconnecting" /\ wanted => retry = Asleep

(* After disconnect() no reconnect and no ping of the transport goes on,   *)
(* whatever its clients and the coroutines still in connect() do, until    *)
(* somebody calls connect() again.                                         *)
QuietAfterDisconnect == ~wanted => retry = Done /\ ping = "done"

(* The user interfaces are told connected exactly as long as the transport *)
(* is, and otherwise miss only that a reconnect is scheduled.              *)
PushedIsCurrent ==
  pushed # state => state = "reconnecting" /\ pushed \in {"error", "disconnected"}

(* As long as dials do not cross, a message that send_message accepts goes *)
(* to a client that has a session, never into the void.                    *)
SendReachesSession ==
  state = "connected" /\ client # 0 /\ ~crossed => stream[client] = "session"

(* As long as dials do not cross, the file holds the stream management id  *)
(* of the session in use: once a session is open, a refused or outdated id *)
(* is not offered again.  (The id of a session that disconnect() has ended *)
(* stays in the file and is offered once more, by the next dial.)          *)
SavedIsCurrent ==
  client # 0 /\ ~crossed /\ stream[client] = "session" => saved = smId[client]

(* "enter a reconnection loop": a transport that wants a connection and    *)
(* has none has a retry or a dial under way.                               *)
KeepsTrying ==
  wanted /\ client # 0 /\ state \in {"error", "disconnected", "reconnecting"}
    => retry # Done \/ \E t \in Caller : dial[t] # 0

(* "session_resumed: log + emit transport state": the transport is         *)
(* connected once its session is resumed.                                  *)
ResumedIsConnected ==
  [][\A k \in Client : stream[k] = "open" /\ stream'[k] = "session"
                         => state' = "connected"]_vars

-----------------------------------------------------------------------------
(* Liveness                                                                *)

(* The event loop wakes the sleeping task.                                 *)
LiveSpec == Spec /\ WF_vars(RetryWakes)

(* A scheduled reconnect takes place or is overtaken: the transport does   *)
(* not stay in reconnecting (MaxClients is what stops it in the model).    *)
ReconnectTakesPlace ==
  state = "reconnecting" /\ wanted
    ~> (state # "reconnecting" \/ ~wanted
        \/ \A k \in Client : stream[k] # "unborn")
=============================================================================
