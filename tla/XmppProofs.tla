----------------------------- MODULE XmppProofs -----------------------------
(***************************************************************************)
(* Proofs about XmppTransport for any numbers of clients and of coroutines *)
(* in connect() at the same time.                                          *)
(***************************************************************************)
EXTENDS XmppTransport, TLAPS

(* Every variable keeps its type.                                          *)
THEOREM TypeCorrect == Spec => []TypeOK
<1> USE ClientsAssumption DEF TypeOK, Client, State, Asleep, Done
<1>1. Init => TypeOK
  <2> SUFFICES ASSUME Init PROVE TypeOK
    OBVIOUS
  <2> USE DEF Init
  <2>1. stream \in [Client -> {"unborn", "opening", "open", "session", "closed"}]
    OBVIOUS
  <2>2. smId \in [Client -> 0..MaxClients] /\ saved \in 0..MaxClients
    OBVIOUS
  <2>3. dial \in [Caller -> 0..MaxClients]
    OBVIOUS
  <2>4. retry \in {Asleep, Done} \cup Client
    OBVIOUS
  <2>5. client \in 0..MaxClients /\ closing \in 0..MaxClients
    OBVIOUS
  <2>6. QED
    BY <2>1, <2>2, <2>3, <2>4, <2>5
<1>2. TypeOK /\ [Next]_vars => TypeOK'
  <2> SUFFICES ASSUME TypeOK, [Next]_vars PROVE TypeOK'
    OBVIOUS
  <2>1. ASSUME NEW t \in Caller, Connect(t) PROVE TypeOK'
    BY <2>1 DEF Connect, Dial, SetState, SetStream
  <2>2. ASSUME NEW t \in Caller, DialReturns(t) PROVE TypeOK'
    BY <2>2 DEF DialReturns, SetStream
  <2>3. ASSUME NEW t \in Caller, DialFails(t) PROVE TypeOK'
    BY <2>3 DEF DialFails, SetStream, Fails
  <2>4. CASE RetryWakes
    <3>1. CASE wanted /\ state # "connected"
      <4>1. PICK k \in Client : Dial(k) /\ retry' = k
        BY <2>4, <3>1 DEF RetryWakes
      <4>2. stream' \in [Client -> {"unborn", "opening", "open", "session", "closed"}]
        BY <4>1 DEF Dial, SetStream
      <4>3. smId' \in [Client -> 0..MaxClients] /\ client' \in 0..MaxClients
        BY <4>1 DEF Dial
      <4>4. state' \in State /\ pushed' \in State
        BY <4>1 DEF Dial, SetState
      <4>5. crossed' \in BOOLEAN /\ retry' \in {Asleep, Done} \cup Client
        BY <4>1 DEF Dial
      <4>6. UNCHANGED <<wanted, saved, dial, ping, closing>>
        BY <2>4 DEF RetryWakes
      <4>7. QED
        BY <4>2, <4>3, <4>4, <4>5, <4>6
    <3>2. CASE ~(wanted /\ state # "connected")
      BY <2>4, <3>2 DEF RetryWakes
    <3>3. QED
      BY <3>1, <3>2
  <2>5. CASE RetryReturns
    BY <2>5 DEF RetryReturns, SetStream
  <2>6. CASE RetryFails
    BY <2>6 DEF RetryFails, SetState, SetStream
  <2>7. ASSUME NEW k \in Client, SessionStart(k) PROVE TypeOK'
    BY <2>7 DEF SessionStart, SetState, SetStream
  <2>8. ASSUME NEW k \in Client, SmEnabled(k) PROVE TypeOK'
    BY <2>8 DEF SmEnabled, Persist
  <2>9. ASSUME NEW k \in Client, Resumed(k) PROVE TypeOK'
    BY <2>9 DEF Resumed, SetStream, Persist
  <2>10. ASSUME NEW k \in Client, StreamLost(k) PROVE TypeOK'
    BY <2>10 DEF StreamLost, SetStream, Persist, Fails
  <2>11. CASE PingIsDue \/ PingAnswered \/ PingFails
    BY <2>11 DEF PingIsDue, PingAnswered, PingFails
  <2>12. CASE PingGivesUp
    BY <2>12 DEF PingGivesUp, Fails
  <2>13. CASE DisconnectBegins
    <3>1. stream' \in [Client -> {"unborn", "opening", "open", "session", "closed"}]
      BY <2>13 DEF DisconnectBegins, SetStream
    <3>2. smId' \in [Client -> 0..MaxClients] /\ saved' \in 0..MaxClients
      BY <2>13 DEF DisconnectBegins, Persist
    <3>3. state' \in State /\ pushed' \in State
      BY <2>13 DEF DisconnectBegins, SetState
    <3>4. retry' \in {Asleep, Done} \cup Client
      BY <2>13 DEF DisconnectBegins
    <3>5. QED
      BY <2>13, <3>1, <3>2, <3>3, <3>4 DEF DisconnectBegins
  <2>14. CASE DisconnectEnds
    BY <2>14 DEF DisconnectEnds, SetState
  <2>15. CASE Restart
    <3>1. stream' \in [Client -> {"unborn", "opening", "open", "session", "closed"}]
      BY <2>15 DEF Restart
    <3>2. dial' \in [Caller -> 0..MaxClients]
      BY <2>15 DEF Restart
    <3>3. retry' \in {Asleep, Done} \cup Client
      BY <2>15 DEF Restart
    <3>4. client' \in 0..MaxClients /\ closing' \in 0..MaxClients
      BY <2>15 DEF Restart
    <3>5. smId' = smId /\ saved' = saved /\ ping' = "done"
      BY <2>15 DEF Restart
    <3>6. state' \in State /\ pushed' \in State
      BY <2>15 DEF Restart
    <3>7. wanted' \in BOOLEAN /\ crossed' \in BOOLEAN
      BY <2>15 DEF Restart
    <3>8. QED
      BY <3>1, <3>2, <3>3, <3>4, <3>5, <3>6, <3>7
  <2>16. CASE UNCHANGED vars
    BY <2>16 DEF vars
  <2>17. QED
    BY <2>1, <2>2, <2>3, <2>4, <2>5, <2>6, <2>7, <2>8, <2>9, <2>10, <2>11,
       <2>12, <2>13, <2>14, <2>15, <2>16 DEF Next
<1>3. QED
  BY <1>1, <1>2, PTL DEF Spec

-----------------------------------------------------------------------------
(* Each connect() under way has a client of its own, which is not yet open,*)
(* so its failure or its cancellation ends no session.                     *)
DialsAreOwn ==
  /\ \A t \in Caller : dial[t] # 0 => stream[dial[t]] \in {"opening", "closed"}
  /\ \A t, u \in Caller : dial[t] # 0 /\ dial[t] = dial[u] => t = u
  /\ retry # Done /\ retry # Asleep =>
       /\ stream[retry] \in {"opening", "closed"}
       /\ \A t \in Caller : dial[t] # retry

(* A client not yet made is nobody's.                                      *)
LEMMA FreshIsNobodys ==
  ASSUME DialsAreOwn, NEW k \in Client, stream[k] = "unborn"
  PROVE  retry # k /\ \A t \in Caller : dial[t] # k
<1>1. k # Done /\ k # Asleep /\ k # 0
  BY ClientsAssumption DEF Client, Done, Asleep
<1>2. QED
  BY <1>1 DEF DialsAreOwn

Inv == /\ ConnectedHasSession /\ ReconnectingIsScheduled
       /\ QuietAfterDisconnect /\ PushedIsCurrent /\ DialsAreOwn

(* The conjuncts of the invariant hold together after every step.          *)
THEOREM Safety == Spec => []Inv
<1> USE ClientsAssumption DEF Inv, TypeOK, Client, Asleep, Done
<1> USE DEF ConnectedHasSession, ReconnectingIsScheduled, QuietAfterDisconnect,
            PushedIsCurrent, DialsAreOwn
<1>1. Init => Inv
  BY DEF Init
<1>2. TypeOK /\ TypeOK' /\ Inv /\ [Next]_vars => Inv'
  <2> SUFFICES ASSUME TypeOK, TypeOK', Inv, [Next]_vars PROVE Inv'
    OBVIOUS
  <2>1. ASSUME NEW t \in Caller, Connect(t) PROVE Inv'
    <3> PICK k \in Client : Dial(k) /\ dial' = [dial EXCEPT ![t] = k]
      BY <2>1 DEF Connect
    <3>1. /\ stream[k] = "unborn" /\ stream' = [stream EXCEPT ![k] = "opening"]
          /\ state' = "connecting" /\ pushed' = "connecting"
      BY DEF Dial, SetState, SetStream
    <3>2. ConnectedHasSession' /\ ReconnectingIsScheduled' /\ PushedIsCurrent'
      BY <3>1
    <3>3. QuietAfterDisconnect'
      BY <2>1 DEF Connect
    <3>4. retry' = retry /\ dial' = [dial EXCEPT ![t] = k]
      BY <2>1 DEF Connect
    <3>5. retry # k /\ \A u \in Caller : dial[u] # k
      BY <3>1, FreshIsNobodys
    <3>6. \A j \in Client \ {k} : stream'[j] = stream[j]
      BY <3>1
    <3>7. stream'[k] = "opening" /\ k # 0
      BY <3>1
    <3>8. \A u \in Caller : dial'[u] = IF u = t THEN k ELSE dial[u]
      BY <3>4
    <3>9. \A u \in Caller : dial[u] # 0 => dial[u] \in Client
      OBVIOUS
    <3>10. \A u \in Caller : dial'[u] # 0 => stream'[dial'[u]] \in {"opening", "closed"}
      BY <3>5, <3>6, <3>7, <3>8, <3>9
    <3>11. \A u, v \in Caller : dial'[u] # 0 /\ dial'[u] = dial'[v] => u = v
      BY <3>5, <3>7, <3>8
    <3>12. retry' # Done /\ retry' # Asleep =>
             /\ stream'[retry'] \in {"opening", "closed"}
             /\ \A u \in Caller : dial'[u] # retry'
      BY <3>4, <3>5, <3>6, <3>8
    <3>13. QED
      BY <3>2, <3>3, <3>10, <3>11, <3>12
  <2>2. ASSUME NEW t \in Caller, DialReturns(t) PROVE Inv'
    BY <2>2 DEF DialReturns, SetStream
  <2>3. ASSUME NEW t \in Caller, DialFails(t) PROVE Inv'
    BY <2>3 DEF DialFails, SetStream, Fails
  <2>4. ASSUME RetryWakes, wanted /\ state # "connected" PROVE Inv'
    <3> PICK k \in Client : Dial(k) /\ retry' = k
      BY <2>4 DEF RetryWakes
    <3>1. /\ stream[k] = "unborn" /\ stream' = [stream EXCEPT ![k] = "opening"]
          /\ state' = "connecting" /\ pushed' = "connecting"
      BY DEF Dial, SetState, SetStream
    <3>2. ConnectedHasSession' /\ ReconnectingIsScheduled' /\ PushedIsCurrent'
      BY <3>1
    <3>3. QuietAfterDisconnect'
      BY <2>4 DEF RetryWakes
    <3>4. retry' = k /\ dial' = dial
      BY <2>4 DEF RetryWakes
    <3>5. \A u \in Caller : dial[u] # k
      BY <3>1, FreshIsNobodys
    <3>6. \A j \in Client \ {k} : stream'[j] = stream[j]
      BY <3>1
    <3>7. stream'[k] = "opening"
      BY <3>1
    <3>8. \A u \in Caller : dial[u] # 0 => dial[u] \in Client
      OBVIOUS
    <3>9. \A u \in Caller : dial'[u] # 0 => stream'[dial'[u]] \in {"opening", "closed"}
      BY <3>4, <3>5, <3>6, <3>8
    <3>10. QED
      BY <3>2, <3>3, <3>4, <3>5, <3>7, <3>9
  <2>18. ASSUME RetryWakes, ~(wanted /\ state # "connected") PROVE Inv'
    BY <2>18 DEF RetryWakes
  <2>5. CASE RetryReturns
    BY <2>5 DEF RetryReturns, SetStream
  <2>6. CASE RetryFails
    BY <2>6 DEF RetryFails, SetState, SetStream
  <2>7. ASSUME NEW k \in Client, SessionStart(k) PROVE Inv'
    BY <2>7 DEF SessionStart, SetState, SetStream
  <2>8. ASSUME NEW k \in Client, SmEnabled(k) PROVE Inv'
    BY <2>8 DEF SmEnabled
  <2>9. ASSUME NEW k \in Client, Resumed(k) PROVE Inv'
    BY <2>9 DEF Resumed, SetStream
  <2>10. ASSUME NEW k \in Client, StreamLost(k) PROVE Inv'
    BY <2>10 DEF StreamLost, SetStream, Fails
  <2>11. CASE PingIsDue \/ PingAnswered \/ PingFails
    BY <2>11 DEF PingIsDue, PingAnswered, PingFails
  <2>12. CASE PingGivesUp
    BY <2>12 DEF PingGivesUp, Fails
  <2>13. CASE DisconnectBegins
    BY <2>13 DEF DisconnectBegins, SetState, SetStream
  <2>14. CASE DisconnectEnds
    BY <2>14 DEF DisconnectEnds, SetState
  <2>15. CASE Restart
    BY <2>15 DEF Restart, Alive
  <2>16. CASE UNCHANGED vars
    BY <2>16 DEF vars
  <2>17. QED
    BY <2>1, <2>2, <2>3, <2>4, <2>5, <2>6, <2>7, <2>8, <2>9, <2>10, <2>11,
       <2>12, <2>13, <2>14, <2>15, <2>16, <2>18 DEF Next
<1>3. QED
  BY <1>1, <1>2, TypeCorrect, PTL DEF Spec

(* The state connected always has a session behind it, whichever client's. *)
THEOREM ConnectedIsTrue == Spec => []ConnectedHasSession
  BY Safety, PTL DEF Inv

(* The state reconnecting always has a sleeping reconnect task behind it.  *)
THEOREM ReconnectingIsTrue == Spec => []ReconnectingIsScheduled
  BY Safety, PTL DEF Inv

(* disconnect() ends all reconnecting and pinging for good.                *)
THEOREM DisconnectIsFinal == Spec => []QuietAfterDisconnect
  BY Safety, PTL DEF Inv

(* The user interfaces know the state, but for a scheduled reconnect.      *)
THEOREM PushesAreTrue == Spec => []PushedIsCurrent
  BY Safety, PTL DEF Inv


-----------------------------------------------------------------------------
(* As long as dials do not cross, the transport's client is the only one   *)
(* that is alive.                                                          *)
Lone == client # 0 /\ ~crossed => Alive \subseteq {client}

\* The file holds what that client offers or has been given.
SavedOfAlive == client # 0 /\ ~crossed /\ client \in Alive => saved = smId[client]

LoneInv == Lone /\ SavedOfAlive

(* A new client is the only one that is alive, or dials cross.             *)
LEMMA DialKeepsLone ==
  ASSUME TypeOK, LoneInv, NEW k \in Client, Dial(k), saved' = saved
  PROVE  LoneInv'
<1> USE ClientsAssumption DEF TypeOK, Client, LoneInv, Lone, SavedOfAlive, Alive, Dial, SetStream
<1>1. \A j \in Client : stream'[j] = IF j = k THEN "opening" ELSE stream[j]
  OBVIOUS
<1>2. smId'[k] = saved' /\ client' = k
  OBVIOUS
<1>3. Lone'
  BY <1>1, <1>2
<1> QED
  BY <1>2, <1>3

(* Steps in which a stream only goes on or ends.                           *)
LEMMA StreamsKeepLone ==
  ASSUME TypeOK, LoneInv, client' = client, crossed' = crossed, Alive' \subseteq Alive,
         smId' = smId, saved' = saved \/ (smId[client] # 0 /\ saved' = smId[client])
  PROVE  LoneInv'
BY DEF LoneInv, Lone, SavedOfAlive

(* Lone and SavedOfAlive hold after every step.                            *)
THEOREM LoneSafety == Spec => []LoneInv
<1> USE ClientsAssumption DEF TypeOK, Client, Asleep, Done
<1>1. Init => LoneInv
  BY DEF Init, LoneInv, Lone, SavedOfAlive
<1>2. TypeOK /\ Inv /\ LoneInv /\ [Next]_vars => LoneInv'
  <2> SUFFICES ASSUME TypeOK, Inv, LoneInv, [Next]_vars PROVE LoneInv'
    OBVIOUS
  <2>1. ASSUME NEW t \in Caller, Connect(t) PROVE LoneInv'
    <3>1. PICK k \in Client : Dial(k) /\ saved' = saved
      BY <2>1 DEF Connect
    <3> QED
      BY <3>1, DialKeepsLone
  <2>2. CASE RetryWakes
    <3>1. saved' = saved
      BY <2>2 DEF RetryWakes
    <3>2. CASE wanted /\ state # "connected"
      <4>1. PICK k \in Client : Dial(k)
        BY <2>2, <3>2 DEF RetryWakes
      <4> QED
        BY <3>1, <4>1, DialKeepsLone
    <3>3. CASE ~(wanted /\ state # "connected")
      <4>1. client' = client /\ crossed' = crossed /\ stream' = stream /\ smId' = smId
        BY <2>2, <3>3 DEF RetryWakes
      <4>2. Alive' \subseteq Alive
        BY <4>1 DEF Alive
      <4> QED
        BY <3>1, <4>1, <4>2, StreamsKeepLone
    <3> QED
      BY <3>2, <3>3
  <2>3. ASSUME NEW t \in Caller, DialReturns(t) \/ DialFails(t) PROVE LoneInv'
    <3>1. Alive' \subseteq Alive
      BY <2>3 DEF DialReturns, DialFails, SetStream, Alive
    <3>2. client' = client /\ crossed' = crossed /\ smId' = smId /\ saved' = saved
      BY <2>3 DEF DialReturns, DialFails
    <3> QED
      BY <3>1, <3>2, StreamsKeepLone
  <2>4. CASE RetryReturns \/ RetryFails
    <3>1. Alive' \subseteq Alive
      BY <2>4 DEF RetryReturns, RetryFails, SetStream, Alive
    <3>2. client' = client /\ crossed' = crossed /\ smId' = smId /\ saved' = saved
      BY <2>4 DEF RetryReturns, RetryFails
    <3> QED
      BY <3>1, <3>2, StreamsKeepLone
  <2>5. ASSUME NEW k \in Client, SessionStart(k) PROVE LoneInv'
    <3>1. k \in Alive /\ Alive' \subseteq Alive
      BY <2>5 DEF SessionStart, SetStream, Alive
    <3>2. /\ client' = client /\ crossed' = crossed
          /\ smId'[k] = 0 /\ saved' = IF smId[k] # 0 THEN 0 ELSE saved
      BY <2>5 DEF SessionStart
    <3> QED
      BY <3>1, <3>2 DEF LoneInv, Lone, SavedOfAlive
  <2>6. ASSUME NEW k \in Client, SmEnabled(k) PROVE LoneInv'
    <3>1. k \in Alive /\ Alive' = Alive
      BY <2>6 DEF SmEnabled, Alive
    <3>2. client' = client /\ crossed' = crossed /\ smId'[k] = k /\ Persist
      BY <2>6 DEF SmEnabled
    <3> QED
      BY <3>1, <3>2 DEF LoneInv, Lone, SavedOfAlive, Persist
  <2>7. ASSUME NEW k \in Client, Resumed(k) \/ StreamLost(k) PROVE LoneInv'
    <3>1. Alive' \subseteq Alive
      BY <2>7 DEF Resumed, StreamLost, SetStream, Alive
    <3>2. client' = client /\ crossed' = crossed /\ smId' = smId /\ Persist
      BY <2>7 DEF Resumed, StreamLost
    <3> QED
      BY <3>1, <3>2, StreamsKeepLone DEF Persist
  <2>8. CASE PingIsDue \/ PingAnswered \/ PingFails \/ PingGivesUp \/ UNCHANGED vars
    <3>1. /\ Alive' \subseteq Alive
          /\ client' = client /\ crossed' = crossed /\ smId' = smId /\ saved' = saved
      BY <2>8 DEF PingIsDue, PingAnswered, PingFails, PingGivesUp, vars, Alive
    <3> QED
      BY <3>1, StreamsKeepLone
  <2>9. CASE DisconnectBegins
    <3>1. Alive' \subseteq Alive
      BY <2>9 DEF DisconnectBegins, SetStream, Alive
    <3>2. client' = client /\ crossed' = crossed /\ smId' = smId /\ Persist
      BY <2>9 DEF DisconnectBegins
    <3> QED
      BY <3>1, <3>2, StreamsKeepLone DEF Persist
  <2>10. CASE DisconnectEnds \/ Restart
    <3>1. client' = 0
      BY <2>10 DEF DisconnectEnds, Restart
    <3> QED
      BY <3>1 DEF LoneInv, Lone, SavedOfAlive
  <2> QED
    BY <2>1, <2>2, <2>3, <2>4, <2>5, <2>6, <2>7, <2>8, <2>9, <2>10 DEF Next
<1> QED
  BY <1>1, <1>2, TypeCorrect, Safety, PTL DEF Spec

(* A message that send_message accepts goes to a client with a session.    *)
THEOREM SendsAreHeard == Spec => []SendReachesSession
<1>1. TypeOK /\ Inv /\ LoneInv => SendReachesSession
  BY DEF TypeOK, Inv, ConnectedHasSession, LoneInv, Lone, Alive, SendReachesSession, Client
<1> QED
  BY <1>1, TypeCorrect, Safety, LoneSafety, PTL

(* The file holds the stream management id of the session in use.          *)
THEOREM SavedIsTrue == Spec => []SavedIsCurrent
<1>1. TypeOK /\ LoneInv => SavedIsCurrent
  BY ClientsAssumption DEF TypeOK, LoneInv, SavedOfAlive, Alive, SavedIsCurrent, Client
<1> QED
  BY <1>1, TypeCorrect, LoneSafety, PTL

=============================================================================
