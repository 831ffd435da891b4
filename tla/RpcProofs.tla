------------------------------- MODULE RpcProofs -------------------------------
(***************************************************************************)
(* Proofs about Rpc for any number of sockets and of other programs, any   *)
(* calls, any plans and any orders in which a set may be iterated, before  *)
(* and after it is laid out anew: what the broadcasts owe to the clients   *)
(* that are let in.                                                        *)
(***************************************************************************)
EXTENDS Rpc, TLAPS, FiniteSetTheorems, SequenceTheorems, WellFoundedInduction

(* A set of natural numbers has a least element.                           *)
LEMMA LeastOfNat ==
  ASSUME NEW T \in SUBSET Nat, T # {}
  PROVE  \E x \in T : \A y \in T : x <= y
<1>1. PICK x \in T : \A y \in T : <<y, x>> \notin OpToRel(<, Nat)
  BY NatLessThanWellFounded, WFMin
<1>2. \A y \in T : ~(y < x)
  BY <1>1 DEF OpToRel
<1> QED
  BY <1>2

-----------------------------------------------------------------------------
(* The invariant.                                                          *)

Closed(s) == state[s] = "clean" \/ state[s] = "cut"

\* The handler of a socket runs.
Served(s) == hand[s] = "idle" \/ hand[s] = "busy" \/ hand[s] = "answer"

\* A broadcast has still to write on a socket: it waits there, or the socket
\* stands behind the place it has come to.
Reaches(t, s) == t.on = s \/ t.pos < slot[s]

SocketTypes ==
  /\ state \in [Sockets -> {"none", "open", "clean", "cut"}]
  /\ full \subseteq Sockets
  /\ inbox \in [Sockets -> Seq(Requests)]

ServerTypes ==
  /\ svc \in {"up", "asked", "closing", "stopping", "down"}
  /\ hand \in [Sockets -> Running \cup {"none", "over"}]
  /\ clients \subseteq {s \in Sockets : hand[s] \in Running}
  /\ authed \subseteq {s \in Sockets : hand[s] \in Running}

CastTypes ==
  /\ plan \in Plans /\ slot \in Orders
  /\ tasks \in Seq(Tasks)
  /\ \A i \in 1..Len(tasks) : tasks[i].event \in 1..pushed
  /\ pushed \in 0..plan.events
  /\ astray \subseteq 1..pushed
  /\ given \in [Sockets -> Seq(Nat)]
  /\ \A s \in Sockets : \A k \in 1..Len(given[s]) : given[s][k] \in 1..pushed
  /\ since \in [Sockets -> 0..pushed]

ClientTypes ==
  /\ pc \in {"dial", "auth", "read", "sleep", "stopped"}
  /\ ws \in 0..made /\ made \in Visitors..MaxSockets
  /\ connected \in BOOLEAN /\ quit \in BOOLEAN
  /\ calls \in [Calls -> {"none", "asked", "sent", "done", "failed", "expired"}]
  /\ pending \subseteq Calls
  /\ faults \in 0..plan.faults

RpcTypes == SocketTypes /\ ServerTypes /\ CastTypes /\ ClientTypes

\* A socket is used once, a handler that works has a request, and only a
\* socket that is closed is taken out of the clients while it is served.
SocketsInv ==
  /\ \A s \in Sockets : made < s => state[s] = "none"
  /\ \A s \in Sockets : state[s] = "none" => hand[s] = "none"
  /\ \A s \in Sockets : (hand[s] = "busy" \/ hand[s] = "answer") => inbox[s] # <<>>
  /\ \A s \in Sockets : (Open(s) /\ Served(s)) => s \in clients
  /\ ~plan.token => clients \subseteq authed
  /\ \A s \in Sockets : (s \notin authed /\ ~Closed(s)) => given[s] = <<>>

\* A broadcast waits on a client that is let in, where it stands unless the
\* broadcast is astray, and found dead what is closed.
TaskPlaces ==
  \A i \in 1..Len(tasks) :
    /\ tasks[i].on = 0 => tasks[i].pos = 0
    /\ tasks[i].on # 0 =>
         /\ tasks[i].on \in Sockets
         /\ tasks[i].event \notin astray => tasks[i].pos = slot[tasks[i].on]
         /\ state[tasks[i].on] # "none"
         /\ Open(tasks[i].on) => tasks[i].on \in authed
    /\ \A s \in tasks[i].dead : Closed(s)

\* A broadcast never overtakes an earlier one, unless one of them is astray.
TasksInOrder ==
  \A i, j \in 1..Len(tasks) : i < j =>
    /\ tasks[i].event < tasks[j].event
    /\ (tasks[i].event \notin astray /\ tasks[j].event \notin astray) =>
         tasks[j].pos <= tasks[i].pos

\* What a client was given comes before what it will be given.
GivenInOrder ==
  \A s \in authed : Open(s) =>
    /\ Increasing(given[s])
    /\ \A i \in 1..Len(tasks) : (tasks[i].event \notin astray /\ Reaches(tasks[i], s)) =>
         \A k \in 1..Len(given[s]) : given[s][k] < tasks[i].event

\* The set of clients is laid out as before, or anew: then every broadcast under
\* way is astray.
LaidOut ==
  \/ UNCHANGED <<slot, astray>>
  \/ /\ slot' \in Orders
     /\ astray \subseteq astray' /\ astray' \subseteq 1..pushed
     /\ \A i \in 1..Len(tasks) : tasks[i].on # 0 => tasks[i].event \in astray'

\* Whether an event is owed to a client no more, or by a broadcast under way.
Settled(s, e) ==
  \/ \E k \in 1..Len(given[s]) : given[s][k] = e
  \/ e \in astray
  \/ \E i \in 1..Len(tasks) : tasks[i].event = e /\ Reaches(tasks[i], s)

NoneLost ==
  \A s \in authed : Open(s) => \A e \in (since[s] + 1)..pushed : Settled(s, e)

RpcInv ==
  /\ RpcTypes /\ SocketsInv /\ TaskPlaces /\ TasksInOrder /\ GivenInOrder /\ NoneLost

-----------------------------------------------------------------------------
(* Sequences and places.                                                   *)

(* What is appended comes last.                                            *)
LEMMA Appended ==
  ASSUME NEW S, NEW q \in Seq(S), NEW x \in S
  PROVE  /\ Append(q, x) \in Seq(S)
         /\ Len(q) \in Nat /\ Len(Append(q, x)) = Len(q) + 1
         /\ \A i \in 1..Len(q) : Append(q, x)[i] = q[i]
         /\ Append(q, x)[Len(q) + 1] = x
OBVIOUS

(* A sequence without its first element.                                   *)
LEMMA Shifted ==
  ASSUME NEW S, NEW q \in Seq(S), q # <<>>
  PROVE  Head(q) \in S /\ Tail(q) \in Seq(S)
OBVIOUS

(* A sequence of one element.                                              *)
LEMMA OneElement ==
  ASSUME NEW S, NEW x \in S
  PROVE  <<x>> \in Seq(S)
OBVIOUS

(* A sequence whose elements belong to a smaller set.                      *)
LEMMA Narrowed ==
  ASSUME NEW S, NEW q \in Seq(S), NEW T, \A k \in 1..Len(q) : q[k] \in T
  PROVE  q \in Seq(T)
<1>1. Len(q) \in Nat /\ q = [k \in 1..Len(q) |-> q[k]]
  OBVIOUS
<1>2. q \in [1..Len(q) -> T]
  BY <1>1
<1> QED
  BY <1>1, <1>2, SeqDef

(* One sequence behind another.                                            *)
LEMMA Joined ==
  ASSUME NEW S, NEW a \in Seq(S), NEW b \in Seq(S), NEW r, r = a \o b
  PROVE  /\ r \in Seq(S) /\ Len(r) = Len(a) + Len(b)
         /\ \A k \in 1..(Len(a) + Len(b)) :
              r[k] = IF k <= Len(a) THEN a[k] ELSE b[k - Len(a)]
OBVIOUS

(* Without the element at a place those behind it move up.                 *)
LEMMA Removed ==
  ASSUME NEW S, NEW q \in Seq(S), NEW i \in 1..Len(q), NEW r, r = RemoveAt(q, i)
  PROVE  /\ r \in Seq(S) /\ Len(q) \in Nat /\ Len(r) = Len(q) - 1
         /\ \A k \in 1..Len(r) : r[k] = IF k < i THEN q[k] ELSE q[k + 1]
<1>1. Len(q) \in Nat /\ i \in Nat /\ 1 <= i /\ i <= Len(q)
  OBVIOUS
<1>2. PICK a : a = SubSeq(q, 1, i - 1)
  OBVIOUS
<1>3. PICK b : b = SubSeq(q, i + 1, Len(q))
  OBVIOUS
<1>4. a \in Seq(S) /\ Len(a) = i - 1 /\ \A k \in 1..(i - 1) : a[k] = q[k]
  BY <1>1, <1>2
<1>5. b \in Seq(S) /\ Len(b) = Len(q) - i /\ \A k \in 1..(Len(q) - i) : b[k] = q[k + i]
  BY <1>1, <1>3
<1>6. r = a \o b
  BY <1>2, <1>3 DEF RemoveAt
<1>10. a \in Seq(S) /\ b \in Seq(S)
  BY <1>4, <1>5
<1>7. /\ r \in Seq(S) /\ Len(r) = Len(a) + Len(b)
      /\ \A k \in 1..(Len(a) + Len(b)) :
           r[k] = IF k <= Len(a) THEN a[k] ELSE b[k - Len(a)]
  <2> HIDE DEF RemoveAt
  <2>1. a \in Seq(S)
    BY <1>10
  <2>2. b \in Seq(S)
    BY <1>10
  <2>3. r \in Seq(S) /\ Len(r) = Len(a) + Len(b)
    BY <1>6, <2>1, <2>2, Joined
  <2>4. \A k \in 1..(Len(a) + Len(b)) :
           r[k] = IF k <= Len(a) THEN a[k] ELSE b[k - Len(a)]
    BY <1>6, <2>1, <2>2
  <2> QED
    BY <2>3, <2>4
<1>8. Len(r) = Len(q) - 1
  BY <1>1, <1>4, <1>5, <1>7
<1>9. ASSUME NEW k \in 1..Len(r) PROVE r[k] = IF k < i THEN q[k] ELSE q[k + 1]
  <2>1. r[k] = IF k <= i - 1 THEN a[k] ELSE b[k - (i - 1)]
    BY <1>4, <1>7
  <2>2. CASE k < i
    <3>1. k \in 1..(i - 1) /\ k <= i - 1
      BY <1>1, <2>2
    <3> QED
      BY <1>4, <2>1, <2>2, <3>1
  <2>3. CASE ~(k < i)
    <3>1. k - (i - 1) \in 1..(Len(q) - i) /\ ~(k <= i - 1) /\ (k - (i - 1)) + i = k + 1
      BY <1>1, <1>8, <2>3
    <3> QED
      BY <1>5, <2>1, <2>3, <3>1
  <2> QED
    BY <2>2, <2>3
<1> QED
  BY <1>1, <1>7, <1>8, <1>9

(* One element of a sequence is replaced.                                  *)
LEMMA Replaced ==
  ASSUME NEW S, NEW q \in Seq(S), NEW i \in 1..Len(q), NEW x \in S,
         NEW r, r = [q EXCEPT ![i] = x]
  PROVE  /\ r \in Seq(S) /\ Len(r) = Len(q) /\ r[i] = x
         /\ \A k \in 1..Len(q) : k # i => r[k] = q[k]
OBVIOUS

(* No two sockets have one place.                                          *)
LEMMA SlotFacts ==
  ASSUME CastTypes
  PROVE  /\ \A s \in Sockets : s \in Nat \ {0} /\ slot[s] \in Nat \ {0}
         /\ \A s, r \in Sockets : slot[s] = slot[r] => s = r
<1>1. MaxSockets \in Nat
  BY SocketsAssumption
<1>2. slot \in [Sockets -> Sockets] /\ \A s, r \in Sockets : slot[s] = slot[r] => s = r
  BY OrdersAssumption DEF CastTypes
<1>3. \A s \in Sockets : s \in Nat \ {0}
  BY <1>1 DEF Sockets
<1> QED
  BY <1>2, <1>3

(* Some socket of a set comes first.                                       *)
LEMMA FirstPlace ==
  ASSUME CastTypes, NEW T \in SUBSET Sockets, T # {},
         NEW at, at = CHOOSE s \in T : \A r \in T : slot[s] <= slot[r]
  PROVE  at \in T /\ \A r \in T : slot[at] <= slot[r]
<1>1. PICK P : P = {slot[s] : s \in T}
  OBVIOUS
<1>2. P \in SUBSET Nat /\ P # {}
  BY <1>1, SlotFacts
<1>3. PICK p \in P : \A y \in P : p <= y
  BY <1>2, LeastOfNat
<1>4. \E s \in T : \A r \in T : slot[s] <= slot[r]
  BY <1>1, <1>3
<1> QED
  BY <1>4

(* A set of sockets has a size.                                            *)
LEMMA Counted ==
  ASSUME NEW T \in SUBSET Sockets
  PROVE  Cardinality(T) \in Nat
<1>1. MaxSockets \in Int /\ 1 \in Int
  BY SocketsAssumption
<1>2. IsFiniteSet(Sockets)
  BY <1>1, FS_Interval DEF Sockets
<1> QED
  BY <1>2, FS_Subset, FS_CardinalityType

-----------------------------------------------------------------------------
(* Steps that leave the broadcasts alone.                                  *)

(* Sockets may open and close, clients may come and leave, as long as none *)
(* opens again and who is let in stays in while its socket is open.        *)
LEMMA BroadcastsStay ==
  ASSUME RpcInv, LaidOut, UNCHANGED <<tasks, pushed>>,
         authed' \subseteq Sockets,
         \A s \in Sockets : /\ Closed(s) => Closed(s)'
                            /\ state[s] # "none" => state'[s] # "none"
                            /\ (s \in authed /\ Open(s)') => s \in authed',
         \A s \in Sockets : (s \in authed' /\ Open(s)') =>
           \/ s \in authed /\ Open(s) /\ given'[s] = given[s] /\ since'[s] = since[s]
           \/ given'[s] = <<>> /\ since'[s] = pushed
  PROVE  TaskPlaces' /\ TasksInOrder' /\ GivenInOrder' /\ NoneLost'
<1>1. /\ tasks \in Seq(Tasks) /\ pushed \in Nat
      /\ \A i \in 1..Len(tasks) : tasks[i].dead \subseteq Sockets /\ tasks[i].pos \in Nat
      /\ \A s \in Sockets : ~(state[s] = "none" /\ Open(s)) /\ ~(Closed(s) /\ Open(s))
      /\ \A s \in Sockets : state[s] = "none" \/ Open(s) \/ Closed(s)
  <2>1. tasks \in Seq(Tasks) /\ pushed \in Nat
    BY PlansAssumption DEF RpcInv, RpcTypes, CastTypes
  <2>2. \A i \in 1..Len(tasks) : tasks[i] \in Tasks
    BY <2>1
  <2>3. \A i \in 1..Len(tasks) : tasks[i].dead \subseteq Sockets /\ tasks[i].pos \in Nat
    BY <2>2 DEF Tasks
  <2>4. state \in [Sockets -> {"none", "open", "clean", "cut"}]
    BY DEF RpcInv, RpcTypes, SocketTypes
  <2>5. /\ \A s \in Sockets : ~(state[s] = "none" /\ Open(s)) /\ ~(Closed(s) /\ Open(s))
        /\ \A s \in Sockets : state[s] = "none" \/ Open(s) \/ Closed(s)
    BY <2>4 DEF Open, Closed
  <2> QED
    BY <2>1, <2>3, <2>5
<1>2. \A s \in Sockets : (Open(s)' /\ state[s] # "none") => Open(s)
  <2>1. \A s \in Sockets : ~(Closed(s)' /\ Open(s)')
    BY DEF Open, Closed
  <2> QED
    BY <1>1, <2>1
<1>7. /\ astray \subseteq astray'
      /\ slot' = slot \/ \A i \in 1..Len(tasks) : tasks[i].event \notin astray' =>
                           tasks[i].on = 0 /\ tasks[i].pos = 0
      /\ \A s \in Sockets : slot'[s] \in Nat \ {0}
  <2>1. \A i \in 1..Len(tasks) : tasks[i].on = 0 => tasks[i].pos = 0
    BY DEF RpcInv, TaskPlaces
  <2>2. /\ astray \subseteq astray'
        /\ slot' = slot \/ \A i \in 1..Len(tasks) : tasks[i].event \notin astray' =>
                             tasks[i].on = 0
    BY DEF LaidOut
  <2>3. slot' \in Orders
    BY DEF LaidOut, RpcInv, RpcTypes, CastTypes
  <2>4. slot' \in [Sockets -> Sockets]
    BY <2>3, OrdersAssumption
  <2>5. \A s \in Sockets : s \in Nat \ {0}
    BY SocketsAssumption DEF Sockets
  <2> QED
    BY <2>1, <2>2, <2>4, <2>5
<1>3. TaskPlaces'
  <2>1. ASSUME NEW i \in 1..Len(tasks), tasks[i].on # 0
        PROVE  /\ tasks[i].on \in Sockets
               /\ tasks[i].event \notin astray' => tasks[i].pos = slot'[tasks[i].on]
               /\ state'[tasks[i].on] # "none"
               /\ Open(tasks[i].on)' => tasks[i].on \in authed'
    <3>1. /\ tasks[i].on \in Sockets
          /\ tasks[i].event \notin astray => tasks[i].pos = slot[tasks[i].on]
          /\ state[tasks[i].on] # "none"
          /\ Open(tasks[i].on) => tasks[i].on \in authed
      BY <2>1 DEF RpcInv, TaskPlaces
    <3>2. tasks[i].event \notin astray' => slot' = slot /\ tasks[i].event \notin astray
      BY <1>7, <2>1
    <3> QED
      BY <1>2, <3>1, <3>2
  <2>2. ASSUME NEW i \in 1..Len(tasks)
        PROVE  /\ tasks[i].on = 0 => tasks[i].pos = 0
               /\ \A s \in tasks[i].dead : Closed(s)'
    BY <1>1 DEF RpcInv, TaskPlaces
  <2>3. \A i \in 1..Len(tasks) : Open(tasks[i].on)' <=> state'[tasks[i].on] = "open"
    BY DEF Open
  <2> QED
    BY <2>1, <2>2, <2>3 DEF TaskPlaces, Open, Closed
<1>4. TasksInOrder'
  BY <1>7 DEF RpcInv, TasksInOrder
<1>8. ASSUME NEW i \in 1..Len(tasks), tasks[i].event \notin astray', NEW s \in Sockets
      PROVE  (tasks[i].on = s \/ tasks[i].pos < slot[s])
               <=> (tasks[i].on = s \/ tasks[i].pos < slot'[s])
  <2>1. CASE slot' = slot
    BY <2>1
  <2>2. CASE tasks[i].pos = 0
    <3>1. slot[s] \in Nat \ {0}
      BY SlotFacts DEF RpcInv, RpcTypes
    <3>2. 0 < slot[s] /\ 0 < slot'[s]
      BY <1>7, <3>1
    <3> QED
      BY <2>2, <3>2
  <2> QED
    BY <1>7, <1>8, <2>1, <2>2
<1>5. GivenInOrder'
  <2>1. ASSUME NEW s \in authed', Open(s)'
        PROVE  /\ Increasing(given'[s])
               /\ \A i \in 1..Len(tasks) :
                    (tasks[i].event \notin astray' /\ (tasks[i].on = s \/ tasks[i].pos < slot'[s])) =>
                      \A k \in 1..Len(given'[s]) : given'[s][k] < tasks[i].event
    <3>1. CASE s \in authed /\ Open(s) /\ given'[s] = given[s]
      <4>1. /\ Increasing(given[s])
            /\ \A i \in 1..Len(tasks) :
                 (tasks[i].event \notin astray /\ (tasks[i].on = s \/ tasks[i].pos < slot[s])) =>
                   \A k \in 1..Len(given[s]) : given[s][k] < tasks[i].event
        BY <3>1 DEF RpcInv, GivenInOrder, Reaches
      <4>2. s \in Sockets
        OBVIOUS
      <4> QED
        BY <1>7, <1>8, <3>1, <4>1, <4>2
    <3>2. CASE given'[s] = <<>>
      <4>1. \A k \in 1..Len(given'[s]) : FALSE
        BY <3>2
      <4> QED
        BY <4>1 DEF Increasing
    <3> QED
      BY <2>1, <3>1, <3>2
  <2> QED
    BY <2>1 DEF GivenInOrder, Reaches, Open
<1>6. NoneLost'
  <2>1. ASSUME NEW s \in authed', Open(s)', NEW e \in (since'[s] + 1)..pushed
        PROVE  \/ \E k \in 1..Len(given'[s]) : given'[s][k] = e
               \/ e \in astray'
               \/ \E i \in 1..Len(tasks) :
                    tasks[i].event = e /\ (tasks[i].on = s \/ tasks[i].pos < slot'[s])
    <3>1. CASE s \in authed /\ Open(s) /\ given'[s] = given[s] /\ since'[s] = since[s]
      <4>1. Settled(s, e) /\ s \in Sockets
        BY <2>1, <3>1 DEF RpcInv, NoneLost
      <4>2. CASE (\E k \in 1..Len(given[s]) : given[s][k] = e) \/ e \in astray'
        BY <3>1, <4>2
      <4>3. ASSUME NEW i \in 1..Len(tasks), tasks[i].event = e, e \notin astray', Reaches(tasks[i], s)
            PROVE  tasks[i].on = s \/ tasks[i].pos < slot'[s]
        <5>1. tasks[i].on = s \/ tasks[i].pos < slot[s]
          BY <4>3 DEF Reaches
        <5> QED
          BY <1>8, <4>1, <4>3, <5>1
      <4> QED
        BY <1>7, <4>1, <4>2, <4>3 DEF Settled
    <3>2. CASE since'[s] = pushed
      <4>1. pushed + 1 <= e /\ e <= pushed
        BY <1>1, <2>1, <3>2
      <4> QED
        BY <1>1, <2>1, <4>1
    <3> QED
      BY <2>1, <3>1, <3>2
  <2> QED
    BY <2>1 DEF NoneLost, Settled, Reaches, Open
<1> QED
  BY <1>3, <1>4, <1>5, <1>6

(* Steps of the network, of other programs and of the APIClient: sockets   *)
(* open once and close once, and requests only come.                       *)
LEMMA SocketsMove ==
  ASSUME RpcInv, SocketTypes', ClientTypes',
         svc' = "up" \/ svc' = "asked" \/ svc' = "closing" \/ svc' = "stopping" \/ svc' = "down",
         UNCHANGED <<plan, slot, hand, clients, authed, since, tasks, pushed, astray, given>>,
         made <= made',
         \A s \in Sockets :
           \/ state'[s] = state[s]
           \/ state[s] = "none" /\ state'[s] = "open" /\ s <= made'
           \/ Open(s) /\ Closed(s)',
         \A s \in Sockets : inbox[s] # <<>> => inbox'[s] # <<>>
  PROVE  RpcInv'
<1> USE DEF RpcInv, RpcTypes
<1>1. ServerTypes' /\ CastTypes'
  BY DEF ServerTypes, CastTypes
<1>2. \A s \in Sockets : /\ state[s] = "none" => ~Open(s) /\ ~Closed(s)
                         /\ Open(s)' => ~Closed(s)' /\ state'[s] # "none"
                         /\ Closed(s)' => state'[s] # "none"
                         /\ state[s] = "none" => s \notin authed /\ hand[s] = "none"
                         /\ Open(s) => state[s] # "none"
                         /\ (state[s] # "none" /\ ~Open(s)) => Closed(s)
  <2>1. /\ state \in [Sockets -> {"none", "open", "clean", "cut"}]
        /\ authed \subseteq {s \in Sockets : hand[s] \in Running}
    BY DEF SocketTypes, ServerTypes
  <2>2. \A s \in Sockets : hand[s] = "none" => s \notin authed
    BY <2>1 DEF Running
  <2> QED
    BY <2>1, <2>2 DEF Open, Closed, SocketsInv
<1>3. SocketsInv'
  <2>1. ASSUME NEW s \in Sockets, made' < s PROVE state'[s] = "none"
    <3>1. made \in Int /\ made' \in Int /\ s \in Int
      BY SocketsAssumption DEF ClientTypes, Sockets
    <3>2. made < s /\ ~(s <= made')
      BY <2>1, <3>1
    <3>3. state[s] = "none"
      BY <3>2 DEF SocketsInv
    <3> QED
      BY <1>2, <3>2, <3>3
  <2>2. ASSUME NEW s \in Sockets
        PROVE  /\ state'[s] = "none" => hand[s] = "none"
               /\ (Open(s)' /\ Served(s)) => s \in clients
               /\ (s \notin authed /\ ~Closed(s)') => given[s] = <<>>
    <3>1. /\ state[s] = "none" => hand[s] = "none"
          /\ (Open(s) /\ Served(s)) => s \in clients
          /\ (s \notin authed /\ ~Closed(s)) => given[s] = <<>>
      BY DEF SocketsInv
    <3>2. CASE state'[s] = state[s]
      BY <3>1, <3>2 DEF Open, Closed
    <3>3. CASE state[s] = "none" /\ state'[s] = "open"
      BY <1>2, <3>1, <3>3 DEF Served
    <3>4. CASE Open(s) /\ Closed(s)'
      BY <1>2, <3>4 
    <3> QED
      BY <3>2, <3>3, <3>4
  <2>3. \A s \in Sockets : (hand[s] = "busy" \/ hand[s] = "answer") => inbox'[s] # <<>>
    BY DEF SocketsInv
  <2>4. ~plan.token => clients \subseteq authed
    BY DEF SocketsInv
  <2> QED
    BY <2>1, <2>2, <2>3, <2>4 DEF SocketsInv, Served
<1>4. TaskPlaces' /\ TasksInOrder' /\ GivenInOrder' /\ NoneLost'
  <2>1. authed \subseteq Sockets
    BY DEF ServerTypes
  <2>2. ASSUME NEW s \in Sockets
        PROVE  /\ Closed(s) => Closed(s)'
               /\ state[s] # "none" => state'[s] # "none"
               /\ (s \in authed /\ Open(s)') => Open(s)
    <3>1. CASE state'[s] = state[s]
      BY <3>1 DEF Open, Closed
    <3>2. CASE state[s] = "none" /\ state'[s] = "open"
      BY <1>2, <3>2
    <3>3. CASE Open(s) /\ Closed(s)'
      BY <1>2, <3>3
    <3> QED
      BY <3>1, <3>2, <3>3
  <2>3. LaidOut
    BY DEF LaidOut
  <2> QED
    BY <2>1, <2>2, <2>3, BroadcastsStay
<1> QED
  BY <1>1, <1>3, <1>4

-----------------------------------------------------------------------------
(* The APIClient, other programs and the network.                          *)

(* When the read loop dies, and when it goes on.                           *)
LEMMA PendingFails ==
  ASSUME RpcInv, FailPending
  PROVE  /\ connected' \in BOOLEAN /\ pending' \subseteq Calls
         /\ calls' \in [Calls -> {"none", "asked", "sent", "done", "failed", "expired"}]
BY DEF FailPending, RpcInv, RpcTypes, ClientTypes

(* Steps of the APIClient that leave the sockets as they are.              *)
LEMMA ClientKeeps ==
  ASSUME RpcInv, ClientTypes', UNCHANGED <<runVars, sockVars, srvVars, castVars, made>>
  PROVE  RpcInv'
<1> USE DEF RpcInv, RpcTypes
<1>1. UNCHANGED <<plan, slot, hand, clients, authed, since, tasks, pushed, astray, given,
                  state, full, inbox, svc, made>>
  BY DEF runVars, sockVars, srvVars, castVars
<1>2. SocketTypes' /\ svc \in {"up", "asked", "closing", "stopping", "down"}
  BY <1>1 DEF SocketTypes, ServerTypes
<1>3. svc' = "up" \/ svc' = "asked" \/ svc' = "closing" \/ svc' = "stopping" \/ svc' = "down"
  BY <1>1, <1>2
<1>4. made <= made'
  <2>1. made \in Int
    BY SocketsAssumption DEF ClientTypes
  <2> QED
    BY <1>1, <2>1
<1> QED
  BY <1>1, <1>2, <1>3, <1>4, SocketsMove

(* The APIClient wakes up, calls, gives up and reads.                      *)
LEMMA ClientSteps ==
  ASSUME RpcInv,
         DialFails \/ Wake \/ ReadFrame \/ ReadEnd \/ (\E k \in Calls : Ask(k) \/ Expire(k))
  PROVE  RpcInv'
<1>1. /\ pc \in {"dial", "auth", "read", "sleep", "stopped"}
      /\ ws \in 0..made /\ made \in Visitors..MaxSockets
      /\ connected \in BOOLEAN /\ quit \in BOOLEAN
      /\ calls \in [Calls -> {"none", "asked", "sent", "done", "failed", "expired"}]
      /\ pending \subseteq Calls
      /\ faults \in 0..plan.faults
  BY DEF RpcInv, RpcTypes, ClientTypes
<1>2. ASSUME UNCHANGED <<runVars, ws, made, quit, faults>>,
             pc' \in {"dial", "auth", "read", "sleep", "stopped"},
             connected' \in BOOLEAN, pending' \subseteq Calls,
             calls' \in [Calls -> {"none", "asked", "sent", "done", "failed", "expired"}]
      PROVE  ClientTypes'
  BY <1>1, <1>2 DEF ClientTypes, runVars
<1>3. CASE DialFails
  BY <1>2, <1>3, PendingFails, ClientKeeps DEF DialFails, Dies
<1>4. CASE Wake
  BY <1>1, <1>2, <1>4, ClientKeeps DEF Wake
<1>5. CASE ReadFrame
  <2>1. UNCHANGED <<runVars, sockVars, srvVars, castVars, ws, made, quit, faults>>
    BY <1>5 DEF ReadFrame
  <2>2. CASE Dies
    BY <1>2, <2>1, <2>2, PendingFails, ClientKeeps DEF Dies
  <2>3. CASE ~Dies
    <3>1. PICK k : /\ pending' = pending \ {k} \/ pending' = pending
                   /\ calls' = [calls EXCEPT ![k] = "done"] \/ calls' = calls
                   /\ UNCHANGED <<pc, connected>>
      BY <1>5, <2>3 DEF ReadFrame
    <3>2. /\ pending' \subseteq Calls
          /\ calls' \in [Calls -> {"none", "asked", "sent", "done", "failed", "expired"}]
      BY <1>1, <3>1
    <3> QED
      BY <1>1, <1>2, <2>1, <3>1, <3>2, ClientKeeps
  <2> QED
    BY <2>2, <2>3
<1>6. CASE ReadEnd
  <2>1. CASE state[ws] = "clean"
    BY <1>1, <1>2, <1>6, <2>1, ClientKeeps DEF ReadEnd
  <2>2. CASE state[ws] # "clean"
    BY <1>2, <1>6, <2>2, PendingFails, ClientKeeps DEF ReadEnd, Dies
  <2> QED
    BY <2>1, <2>2
<1>7. ASSUME NEW k \in Calls, Ask(k) \/ Expire(k) PROVE RpcInv'
  <2>1. calls' = [calls EXCEPT ![k] = "asked"] \/ calls' = [calls EXCEPT ![k] = "expired"]
    BY <1>7 DEF Ask, Expire
  <2>2. calls' \in [Calls -> {"none", "asked", "sent", "done", "failed", "expired"}]
    BY <1>1, <2>1
  <2>3. /\ UNCHANGED <<runVars, sockVars, srvVars, castVars, ws, made, quit, faults>>
        /\ UNCHANGED <<pc, connected, pending>>
    BY <1>7 DEF Ask, Expire
  <2> QED
    BY <1>1, <1>2, <2>2, <2>3, ClientKeeps
<1> QED
  BY <1>3, <1>4, <1>5, <1>6, <1>7

(* A fault is counted.                                                     *)
LEMMA Counting ==
  ASSUME RpcInv, NEW kind, Fault(kind)
  PROVE  faults' \in 0..plan.faults
<1>1. faults \in 0..plan.faults /\ plan.faults \in Nat
  BY PlansAssumption DEF RpcInv, RpcTypes, CastTypes, ClientTypes
<1> QED
  BY <1>1 DEF Fault

(* One socket opens, or is closed.                                         *)
LEMMA OneSocketMoves ==
  ASSUME RpcInv, ClientTypes', NEW s \in Sockets, NEW c,
         UNCHANGED <<plan, slot, hand, clients, authed, since, tasks, pushed, astray, given,
                     inbox, svc>>,
         full' \subseteq Sockets, made <= made',
         state' = [state EXCEPT ![s] = c],
         \/ state[s] = "none" /\ c = "open" /\ s <= made'
         \/ Open(s) /\ (c = "clean" \/ c = "cut")
  PROVE  RpcInv'
<1>1. /\ state \in [Sockets -> {"none", "open", "clean", "cut"}]
      /\ inbox \in [Sockets -> Seq(Requests)]
      /\ svc \in {"up", "asked", "closing", "stopping", "down"}
  BY DEF RpcInv, RpcTypes, SocketTypes, ServerTypes
<1>2. state'[s] = c /\ \A x \in Sockets \ {s} : state'[x] = state[x]
  BY <1>1
<1>3. SocketTypes'
  BY <1>1 DEF SocketTypes
<1>4. svc' = "up" \/ svc' = "asked" \/ svc' = "closing" \/ svc' = "stopping" \/ svc' = "down"
  BY <1>1
<1>5. \A x \in Sockets :
           \/ state'[x] = state[x]
           \/ state[x] = "none" /\ state'[x] = "open" /\ x <= made'
           \/ Open(x) /\ Closed(x)'
  BY <1>2 DEF Closed
<1> QED
  BY <1>3, <1>4, <1>5, SocketsMove

(* The APIClient dials, sends a call and is told to quit.                  *)
LEMMA DialSendQuit ==
  ASSUME RpcInv, Dial \/ (\E k \in Calls : Send(k)) \/ Quit
  PROVE  RpcInv'
<1>1. /\ pc \in {"dial", "auth", "read", "sleep", "stopped"}
      /\ ws \in 0..made /\ made \in Visitors..MaxSockets
      /\ connected \in BOOLEAN /\ quit \in BOOLEAN
      /\ calls \in [Calls -> {"none", "asked", "sent", "done", "failed", "expired"}]
      /\ pending \subseteq Calls
      /\ faults \in 0..plan.faults
  BY DEF RpcInv, RpcTypes, ClientTypes
<1>2. Visitors \in Nat /\ MaxSockets \in Nat /\ made \in Nat /\ full \subseteq Sockets
  BY <1>1, SocketsAssumption DEF RpcInv, RpcTypes, SocketTypes
<1>3. CASE Dial
  <2>1. /\ made < MaxSockets /\ made' = made + 1 /\ ws' = made + 1
        /\ pc' = "auth" \/ pc' = "read"
        /\ state' = [state EXCEPT ![made + 1] = "open"]
        /\ connected' = (connected \/ ~plan.token)
        /\ UNCHANGED <<plan, slot, hand, clients, authed, since, tasks, pushed, astray, given,
                       inbox, svc, full, quit, calls, pending, faults>>
    BY <1>3 DEF Dial, runVars, srvVars, castVars
  <2>2. /\ ws' \in 0..made' /\ made' \in Visitors..MaxSockets /\ made <= made'
        /\ made + 1 \in Sockets /\ made < made + 1 /\ made + 1 <= made'
    BY <1>1, <1>2, <2>1 DEF Sockets
  <2>3. connected' \in BOOLEAN
    BY <2>1
  <2>4. pc' \in {"dial", "auth", "read", "sleep", "stopped"}
    BY <2>1
  <2>5. ClientTypes'
    BY <1>1, <2>1, <2>2, <2>3, <2>4 DEF ClientTypes
  <2>6. state[made + 1] = "none"
    BY <2>2 DEF RpcInv, SocketsInv
  <2> QED
    BY <1>2, <2>1, <2>2, <2>5, <2>6, OneSocketMoves
<1>4. ASSUME NEW k \in Calls, Send(k) PROVE RpcInv'
  <2>1. /\ pending' = pending \cup {k}
        /\ \E c : calls' = [calls EXCEPT ![k] = c] /\ (c = "sent" \/ c = "failed")
        /\ inbox' = inbox \/ inbox' = [inbox EXCEPT ![ws] = Append(@, k)]
        /\ UNCHANGED <<plan, slot, hand, clients, authed, since, tasks, pushed, astray, given,
                       state, svc, full, pc, ws, made, connected, quit, faults>>
    BY <1>4 DEF Send, runVars, srvVars, castVars
  <2>2. calls' \in [Calls -> {"none", "asked", "sent", "done", "failed", "expired"}]
    BY <1>1, <2>1
  <2>3. ClientTypes'
    BY <1>1, <2>1, <2>2 DEF ClientTypes
  <2>4. /\ inbox' \in [Sockets -> Seq(Requests)]
        /\ \A s \in Sockets : inbox[s] # <<>> => inbox'[s] # <<>>
    <3>1. inbox \in [Sockets -> Seq(Requests)] /\ k \in Requests
      BY DEF RpcInv, RpcTypes, SocketTypes, Requests
    <3>2. ws \in Sockets => /\ Append(inbox[ws], k) \in Seq(Requests)
                            /\ Append(inbox[ws], k) # <<>>
      <4>1. ASSUME ws \in Sockets PROVE inbox[ws] \in Seq(Requests)
        BY <3>1, <4>1
      <4> QED
        BY <3>1, <4>1, Appended
    <3>3. CASE inbox' = [inbox EXCEPT ![ws] = Append(@, k)]
      <4>1. \A s \in Sockets : inbox'[s] = IF s = ws THEN Append(inbox[ws], k) ELSE inbox[s]
        BY <3>1, <3>3
      <4>2. inbox' \in [Sockets -> Seq(Requests)]
        BY <3>1, <3>2, <3>3
      <4> QED
        BY <3>2, <4>1, <4>2
    <3> QED
      BY <2>1, <3>1, <3>3
  <2>5. /\ SocketTypes' /\ made <= made'
        /\ svc' = "up" \/ svc' = "asked" \/ svc' = "closing" \/ svc' = "stopping" \/ svc' = "down"
    BY <1>2, <2>1, <2>4 DEF RpcInv, RpcTypes, SocketTypes, ServerTypes
  <2> QED
    BY <2>1, <2>3, <2>4, <2>5, SocketsMove
<1>5. CASE Quit
  <2>1. /\ quit' = TRUE /\ (pc' = "stopped" \/ pc' = pc)
        /\ UNCHANGED <<plan, slot, hand, clients, authed, since, tasks, pushed, astray, given,
                       inbox, svc, full, ws, made, connected, calls, pending>>
        /\ state' = state \/ (Open(ws) /\ ws # 0 /\ state' = [state EXCEPT ![ws] = "clean"])
    BY <1>5 DEF Quit, runVars, srvVars, castVars
  <2>2. faults' \in 0..plan.faults
    BY <1>5, Counting DEF Quit
  <2>3. pc' \in {"dial", "auth", "read", "sleep", "stopped"}
    BY <1>1, <2>1
  <2>4. ClientTypes'
    BY <1>1, <2>1, <2>2, <2>3 DEF ClientTypes
  <2>5. CASE state' = state
    BY <2>1, <2>4, <2>5, ClientKeeps DEF runVars, sockVars, srvVars, castVars
  <2>6. CASE Open(ws) /\ ws # 0 /\ state' = [state EXCEPT ![ws] = "clean"]
    <3>1. ws \in Sockets
      BY <1>1, <1>2, <2>6 DEF Sockets
    <3>2. made <= made' /\ full' \subseteq Sockets
      BY <1>2, <2>1
    <3>3. "clean" = "clean" \/ "clean" = "cut"
      OBVIOUS
    <3> QED
      BY <2>1, <2>4, <2>6, <3>1, <3>2, <3>3, OneSocketMoves
  <2> QED
    BY <2>1, <2>5, <2>6
<1> QED
  BY <1>3, <1>4, <1>5

(* The sockets of other programs come before those of the APIClient.       *)
LEMMA VisitorsFirst ==
  ASSUME RpcInv, NEW s \in Sockets
  PROVE  /\ made \in Nat /\ made <= made /\ full \subseteq Sockets
         /\ s <= plan.visitors => s <= made
<1>1. Visitors \in Nat /\ MaxSockets \in Nat /\ made \in Visitors..MaxSockets
  BY SocketsAssumption DEF RpcInv, RpcTypes, ClientTypes
<1>2. plan.visitors \in 0..Visitors
  BY PlansAssumption DEF RpcInv, RpcTypes, CastTypes
<1>3. s \in 1..MaxSockets
  BY DEF Sockets
<1>4. full \subseteq Sockets
  BY DEF RpcInv, RpcTypes, SocketTypes
<1>5. plan.visitors \in Nat /\ plan.visitors <= Visitors
  BY <1>1, <1>2
<1>6. s \in Nat /\ made \in Nat /\ Visitors <= made
  BY <1>1, <1>3
<1>7. s <= plan.visitors => s <= made
  BY <1>1, <1>5, <1>6
<1> QED
  BY <1>4, <1>6, <1>7

(* Other programs and the network open, close, fill and drain sockets.     *)
LEMMA NetworkSteps ==
  ASSUME RpcInv, NEW s \in Sockets,
         \/ Visit(s) \/ (\E how \in {"auth", "bad auth"} : Apply(s, how))
         \/ Leave(s) \/ Cut(s) \/ FillUp(s) \/ Relieve(s)
  PROVE  RpcInv'
<1>1. /\ made \in Nat /\ made <= made /\ full \subseteq Sockets
      /\ s <= plan.visitors => s <= made
  BY VisitorsFirst
<1>2. ASSUME UNCHANGED <<plan, cliVars>>, faults' \in 0..plan.faults
      PROVE  ClientTypes'
  BY <1>2 DEF RpcInv, RpcTypes, ClientTypes, cliVars
<1>3. faults \in 0..plan.faults
  BY DEF RpcInv, RpcTypes, ClientTypes
<1>4. ASSUME UNCHANGED <<runVars, inbox, srvVars, castVars, cliVars>>,
             faults' \in 0..plan.faults, full' \subseteq Sockets,
             NEW c, state' = [state EXCEPT ![s] = c],
             \/ state[s] = "none" /\ c = "open" /\ s <= made
             \/ Open(s) /\ (c = "clean" \/ c = "cut")
      PROVE  RpcInv'
  <2>1. /\ UNCHANGED <<plan, slot, hand, clients, authed, since, tasks, pushed, astray, given,
                       inbox, svc>>
        /\ made' = made
    BY <1>4 DEF runVars, srvVars, castVars, cliVars
  <2>2. /\ made <= made'
        /\ \/ state[s] = "none" /\ c = "open" /\ s <= made'
           \/ Open(s) /\ (c = "clean" \/ c = "cut")
    BY <1>1, <1>4, <2>1
  <2>3. ClientTypes'
    BY <1>2, <1>4, <2>1
  <2> QED
    BY <1>4, <2>1, <2>2, <2>3, OneSocketMoves
<1>5. ASSUME UNCHANGED <<runVars, state, srvVars, castVars, cliVars>>,
             faults' \in 0..plan.faults, full' \subseteq Sockets,
             inbox' \in [Sockets -> Seq(Requests)],
             \A x \in Sockets : inbox[x] # <<>> => inbox'[x] # <<>>
      PROVE  RpcInv'
  <2>1. /\ UNCHANGED <<plan, slot, hand, clients, authed, since, tasks, pushed, astray, given,
                       svc, state>>
        /\ made' = made
    BY <1>5 DEF runVars, srvVars, castVars, cliVars
  <2>2. ClientTypes'
    BY <1>2, <1>5, <2>1
  <2>3. /\ SocketTypes'
        /\ svc' = "up" \/ svc' = "asked" \/ svc' = "closing" \/ svc' = "stopping" \/ svc' = "down"
    BY <1>5, <2>1 DEF RpcInv, RpcTypes, SocketTypes, ServerTypes
  <2>4. made <= made'
    BY <1>1, <2>1
  <2> QED
    BY <1>5, <2>1, <2>2, <2>3, <2>4, SocketsMove
<1>6. CASE Visit(s)
  <2>1. s <= made /\ state[s] = "none" /\ state' = [state EXCEPT ![s] = "open"]
    BY <1>1, <1>6 DEF Visit
  <2>2. UNCHANGED <<runVars, inbox, srvVars, castVars, cliVars, full, faults>>
    BY <1>6 DEF Visit
  <2>3. full' \subseteq Sockets /\ faults' \in 0..plan.faults
    BY <1>1, <1>3, <2>2
  <2> QED
    BY <1>4, <2>1, <2>2, <2>3
<1>7. CASE Leave(s)
  <2>1. Open(s) /\ state' = [state EXCEPT ![s] = "clean"]
    BY <1>7 DEF Leave
  <2>2. UNCHANGED <<runVars, inbox, srvVars, castVars, cliVars, full, faults>>
    BY <1>7 DEF Leave
  <2>3. full' \subseteq Sockets /\ faults' \in 0..plan.faults
    BY <1>1, <1>3, <2>2
  <2> QED
    BY <1>4, <2>1, <2>2, <2>3
<1>8. CASE Cut(s)
  <2>1. Open(s) /\ state' = [state EXCEPT ![s] = "cut"]
    BY <1>8 DEF Cut
  <2>2. UNCHANGED <<runVars, inbox, srvVars, castVars, cliVars, full>>
    BY <1>8 DEF Cut
  <2>3. full' \subseteq Sockets /\ faults' \in 0..plan.faults
    BY <1>1, <1>8, <2>2, Counting DEF Cut
  <2> QED
    BY <1>4, <2>1, <2>2, <2>3
<1>9. CASE Relieve(s)
  <2>1. /\ UNCHANGED <<runVars, inbox, srvVars, castVars, cliVars>>
        /\ full' \subseteq Sockets /\ faults' \in 0..plan.faults
        /\ Open(s)
    BY <1>1, <1>3, <1>9 DEF Relieve, Full
  <2>2. CASE state' = [state EXCEPT ![s] = "cut"]
    BY <1>4, <2>1, <2>2
  <2>3. CASE state' = state
    BY <1>5, <2>1, <2>3 DEF RpcInv, RpcTypes, SocketTypes
  <2> QED
    BY <1>9, <2>2, <2>3 DEF Relieve
<1>10. CASE FillUp(s)
  <2>1. /\ UNCHANGED <<runVars, state, inbox, srvVars, castVars, cliVars>>
        /\ full' \subseteq Sockets /\ faults' \in 0..plan.faults
    BY <1>1, <1>10, Counting DEF FillUp
  <2> QED
    BY <1>5, <2>1 DEF RpcInv, RpcTypes, SocketTypes
<1>11. ASSUME NEW how \in {"auth", "bad auth"}, Apply(s, how) PROVE RpcInv'
  <2>1. /\ inbox[s] = <<>> /\ inbox' = [inbox EXCEPT ![s] = <<how>>]
        /\ UNCHANGED <<runVars, state, full, srvVars, castVars, cliVars, faults>>
    BY <1>11 DEF Apply
  <2>2. full' \subseteq Sockets /\ faults' \in 0..plan.faults
    BY <1>1, <1>3, <2>1
  <2>3. how \in Requests /\ inbox \in [Sockets -> Seq(Requests)]
    BY DEF Requests, RpcInv, RpcTypes, SocketTypes
  <2>4. <<how>> \in Seq(Requests)
    BY <2>3, OneElement
  <2>5. /\ inbox' \in [Sockets -> Seq(Requests)]
        /\ \A x \in Sockets : inbox[x] # <<>> => inbox'[x] # <<>>
    BY <2>1, <2>3, <2>4
  <2> QED
    BY <1>5, <2>1, <2>2, <2>5
<1> QED
  BY <1>6, <1>7, <1>8, <1>9, <1>10, <1>11

(* The service is asked to stop, begins to, or is started again.           *)
LEMMA ServiceSteps ==
  ASSUME RpcInv, Signal \/ Close \/ HandlersOver \/ Start
  PROVE  RpcInv'
<1>1. /\ faults \in 0..plan.faults /\ made <= made
      /\ state \in [Sockets -> {"none", "open", "clean", "cut"}]
  BY SocketsAssumption DEF RpcInv, RpcTypes, ClientTypes, SocketTypes
<1>2. /\ UNCHANGED <<plan, slot, hand, clients, authed, since, tasks, pushed, astray, given,
                     full, inbox, cliVars>>
      /\ svc' = "up" \/ svc' = "asked" \/ svc' = "closing" \/ svc' = "stopping" \/ svc' = "down"
  BY DEF Signal, Close, HandlersOver, Start, runVars, sockVars, castVars
<1>3. ClientTypes'
  <2>1. faults' \in 0..plan.faults
    BY <1>1, Counting DEF Signal, Close, HandlersOver, Start
  <2> QED
    BY <1>2, <2>1 DEF RpcInv, RpcTypes, ClientTypes, cliVars
<1>4. /\ state' \in [Sockets -> {"none", "open", "clean", "cut"}]
      /\ \A s \in Sockets : state'[s] = state[s] \/ (Open(s) /\ Closed(s)')
  <2>1. CASE state' = state
    BY <1>1, <2>1
  <2>2. CASE Close
    BY <1>1, <2>2 DEF Close, ClosedBy, Open, Closed
  <2> QED
    BY <2>1, <2>2 DEF Signal, HandlersOver, Start, sockVars
<1>5. SocketTypes' /\ made' = made
  BY <1>2, <1>4 DEF RpcInv, RpcTypes, SocketTypes, cliVars
<1> QED
  BY <1>1, <1>2, <1>3, <1>4, <1>5, SocketsMove

-----------------------------------------------------------------------------
(* The handlers.                                                           *)

(* The handler of one socket goes on, lets its client in, or ends when the *)
(* socket is closed.                                                       *)
LEMMA HandlerMoves ==
  ASSUME RpcInv, NEW s \in Sockets, NEW h,
         LaidOut, UNCHANGED <<plan, full, tasks, pushed, cliVars, faults>>,
         svc' = "up" \/ svc' = "asked" \/ svc' = "closing" \/ svc' = "stopping" \/ svc' = "down",
         hand' = [hand EXCEPT ![s] = h],
         state[s] # "none",
         inbox' = inbox \/ (inbox[s] # <<>> /\ inbox' = [inbox EXCEPT ![s] = Tail(@)]),
         (h = "busy" \/ h = "answer") => inbox' = inbox /\ inbox[s] # <<>>,
         state' = state \/ (Open(s) /\ state' = [state EXCEPT ![s] = "cut"]),
         \/ /\ h = "idle" \/ h = "busy" \/ h = "answer"
            /\ (clients' = clients /\ Served(s)) \/ clients' = clients \cup {s}
            /\ \/ authed' = authed /\ since' = since /\ (plan.token \/ clients' = clients)
               \/ /\ authed' = authed \cup {s} /\ s \notin authed
                  /\ since' = [since EXCEPT ![s] = pushed]
            /\ given' = given
         \/ /\ h = "over" /\ ~Open(s)
            /\ clients' = clients \ {s} /\ authed' = authed \ {s}
            /\ given' = [given EXCEPT ![s] = <<>>] /\ since' = [since EXCEPT ![s] = 0]
  PROVE  RpcInv'
<1>1. /\ state \in [Sockets -> {"none", "open", "clean", "cut"}]
      /\ inbox \in [Sockets -> Seq(Requests)]
      /\ full \subseteq Sockets
      /\ hand \in [Sockets -> Running \cup {"none", "over"}]
      /\ clients \subseteq {x \in Sockets : hand[x] \in Running}
      /\ authed \subseteq {x \in Sockets : hand[x] \in Running}
      /\ given \in [Sockets -> Seq(Nat)]
      /\ since \in [Sockets -> 0..pushed]
      /\ pushed \in Nat
  BY PlansAssumption DEF RpcInv, RpcTypes, SocketTypes, ServerTypes, CastTypes
<1>2. plan' = plan /\ slot' \in Orders /\ astray' \subseteq 1..pushed
  BY DEF LaidOut, RpcInv, RpcTypes, CastTypes
<1>3. SocketTypes'
  <2>1. inbox[s] # <<>> => Tail(inbox[s]) \in Seq(Requests)
    <3>1. inbox[s] \in Seq(Requests)
      BY <1>1
    <3> QED
      BY <3>1, Shifted
  <2>2. inbox' \in [Sockets -> Seq(Requests)]
    BY <1>1, <2>1
  <2>3. state' \in [Sockets -> {"none", "open", "clean", "cut"}]
    BY <1>1
  <2> QED
    BY <1>1, <2>2, <2>3 DEF SocketTypes
<1>4. ServerTypes'
  <2>1. hand' \in [Sockets -> Running \cup {"none", "over"}]
    BY <1>1 DEF Running
  <2>2. \A x \in Sockets : hand'[x] = IF x = s THEN h ELSE hand[x]
    BY <1>1
  <2>3. clients' \subseteq {x \in Sockets : hand'[x] \in Running}
    BY <1>1, <2>2 DEF Running
  <2>4. authed' \subseteq {x \in Sockets : hand'[x] \in Running}
    BY <1>1, <2>2 DEF Running
  <2>5. svc' \in {"up", "asked", "closing", "stopping", "down"}
    OBVIOUS
  <2> QED
    BY <2>1, <2>3, <2>4, <2>5 DEF ServerTypes
<1>5. CastTypes'
  <2>1. given' \in [Sockets -> Seq(Nat)]
    <3>1. <<>> \in Seq(Nat)
      OBVIOUS
    <3> QED
      BY <1>1, <3>1
  <2>2. ASSUME NEW x \in Sockets, NEW k \in 1..Len(given'[x])
        PROVE  given'[x][k] \in 1..pushed
    <3>1. CASE given'[x] = given[x]
      BY <2>2, <3>1 DEF RpcInv, RpcTypes, CastTypes
    <3>2. CASE given'[x] = <<>>
      BY <2>2, <3>2
    <3> QED
      BY <1>1, <3>1, <3>2
  <2>3. since' \in [Sockets -> 0..pushed]
    <3>1. 0 \in 0..pushed /\ pushed \in 0..pushed
      BY <1>1
    <3> QED
      BY <1>1, <3>1
  <2> QED
    BY <1>2, <2>1, <2>2, <2>3 DEF RpcInv, RpcTypes, CastTypes
<1>6. ClientTypes'
  BY <1>2 DEF RpcInv, RpcTypes, ClientTypes, cliVars
<1>7. /\ \A x \in Sockets : x # s =>
           /\ state'[x] = state[x] /\ hand'[x] = hand[x] /\ inbox'[x] = inbox[x]
           /\ given'[x] = given[x] /\ since'[x] = since[x]
           /\ (x \in clients' <=> x \in clients) /\ (x \in authed' <=> x \in authed)
      /\ hand'[s] = h /\ state'[s] # "none"
      /\ (state' = state \/ (Open(s) /\ Closed(s)'))
  <2>1. /\ \A x \in Sockets : x # s =>
           /\ state'[x] = state[x] /\ hand'[x] = hand[x] /\ inbox'[x] = inbox[x]
        /\ hand'[s] = h /\ state'[s] # "none"
        /\ (state' = state \/ (Open(s) /\ state'[s] = "cut"))
    BY <1>1
  <2>2. \A x \in Sockets : x # s =>
           /\ given'[x] = given[x] /\ since'[x] = since[x]
           /\ (x \in clients' <=> x \in clients) /\ (x \in authed' <=> x \in authed)
    BY <1>1
  <2> QED
    BY <2>1, <2>2 DEF Closed
<1>8. SocketsInv'
  <2>1. /\ \A x \in Sockets : made < x => state[x] = "none"
        /\ \A x \in Sockets : state[x] = "none" => hand[x] = "none"
        /\ \A x \in Sockets : (hand[x] = "busy" \/ hand[x] = "answer") => inbox[x] # <<>>
        /\ \A x \in Sockets : (Open(x) /\ Served(x)) => x \in clients
        /\ ~plan.token => clients \subseteq authed
        /\ \A x \in Sockets : (x \notin authed /\ ~Closed(x)) => given[x] = <<>>
    BY DEF RpcInv, SocketsInv
  <2>2. \A x \in Sockets : /\ made' < x => state'[x] = "none"
                           /\ state'[x] = "none" => hand'[x] = "none"
    BY <1>7, <2>1 DEF cliVars
  <2>3. \A x \in Sockets : (hand'[x] = "busy" \/ hand'[x] = "answer") => inbox'[x] # <<>>
    BY <1>7, <2>1
  <2>4. ASSUME NEW x \in Sockets, Open(x)', Served(x)' PROVE x \in clients'
    <3>1. CASE x # s
      BY <1>7, <2>1, <2>4, <3>1 DEF Open, Served
    <3>2. CASE x = s
      <4>1. Open(s)
        BY <1>7, <2>4, <3>2 DEF Open, Closed
      <4>2. h # "over"
        BY <4>1
      <4> QED
        BY <2>1, <3>2, <4>1, <4>2
    <3> QED
      BY <3>1, <3>2
  <2>5. ~plan'.token => clients' \subseteq authed'
    BY <1>2, <2>1
  <2>6. ASSUME NEW x \in Sockets, x \notin authed', ~Closed(x)' PROVE given'[x] = <<>>
    <3>1. CASE x # s
      BY <1>7, <2>1, <2>6, <3>1 DEF Closed
    <3>2. CASE x = s
      <4>1. h = "over" => given'[s] = <<>>
        BY <1>1
      <4>2. ASSUME h # "over" PROVE given'[s] = <<>>
        <5>1. s \notin authed /\ given' = given
          BY <2>6, <3>2, <4>2
        <5>2. ~Closed(s)
          BY <1>7, <2>6, <3>2 DEF Closed, Open
        <5> QED
          BY <2>1, <5>1, <5>2
      <4> QED
        BY <3>2, <4>1, <4>2
    <3> QED
      BY <3>1, <3>2
  <2> QED
    BY <2>2, <2>3, <2>4, <2>5, <2>6 DEF SocketsInv
<1>9. TaskPlaces' /\ TasksInOrder' /\ GivenInOrder' /\ NoneLost'
  <2>1. authed' \subseteq Sockets
    BY <1>4 DEF ServerTypes
  <2>2. ASSUME NEW x \in Sockets
        PROVE  /\ Closed(x) => Closed(x)'
               /\ state[x] # "none" => state'[x] # "none"
               /\ Open(x)' => Open(x)
               /\ (x \in authed /\ Open(x)') => x \in authed'
    <3>1. CASE x # s
      BY <1>7, <3>1 DEF Open, Closed
    <3>2. CASE x = s
      <4>1. Closed(s) => Closed(s)'
        BY <1>7 DEF Open, Closed
      <4>2. Open(s)' => Open(s)
        BY <1>7 DEF Open, Closed
      <4>3. (s \in authed /\ Open(s)') => s \in authed'
        BY <4>2
      <4> QED
        BY <1>7, <3>2, <4>1, <4>2, <4>3
    <3> QED
      BY <3>1, <3>2
  <2>3. ASSUME NEW x \in Sockets, x \in authed', Open(x)'
        PROVE  \/ x \in authed /\ Open(x) /\ given'[x] = given[x] /\ since'[x] = since[x]
               \/ given'[x] = <<>> /\ since'[x] = pushed
    <3>1. CASE x # s
      BY <1>7, <2>2, <2>3, <3>1
    <3>2. CASE x = s
      <4>1. Open(s) /\ h # "over"
        BY <2>2, <2>3, <3>2
      <4>2. CASE authed' = authed /\ since' = since /\ given' = given
        BY <2>3, <3>2, <4>1, <4>2
      <4>3. CASE s \notin authed /\ since' = [since EXCEPT ![s] = pushed] /\ given' = given
        <5>1. ~Closed(s)
          BY <4>1 DEF Open, Closed
        <5>2. given[s] = <<>>
          BY <4>3, <5>1 DEF RpcInv, SocketsInv
        <5> QED
          BY <1>1, <3>2, <4>3, <5>2
      <4> QED
        BY <4>1, <4>2, <4>3
    <3> QED
      BY <3>1, <3>2
  <2> QED
    BY <2>1, <2>2, <2>3, BroadcastsStay
<1> QED
  BY <1>3, <1>4, <1>5, <1>6, <1>8, <1>9 DEF RpcInv, RpcTypes

(* A handler takes the connection, works on a request, and ends.           *)
LEMMA HandlerSteps ==
  ASSUME RpcInv, NEW s \in Sockets,
         Accept(s) \/ Take(s) \/ Execute(s) \/ Answer(s) \/ End(s)
  PROVE  RpcInv'
<1>1. /\ svc = "up" \/ svc = "asked" \/ svc = "closing" \/ svc = "stopping" \/ svc = "down"
      /\ hand[s] # "none" => state[s] # "none"
      /\ (hand[s] = "busy" \/ hand[s] = "answer") => inbox[s] # <<>>
      /\ s \in authed => Served(s)
      /\ Open(s) => state[s] # "none"
  <2>1. /\ svc \in {"up", "asked", "closing", "stopping", "down"}
        /\ authed \subseteq {x \in Sockets : hand[x] \in Running}
    BY DEF RpcInv, RpcTypes, ServerTypes
  <2>2. /\ hand[s] # "none" => state[s] # "none"
        /\ (hand[s] = "busy" \/ hand[s] = "answer") => inbox[s] # <<>>
    BY DEF RpcInv, SocketsInv
  <2>3. s \in authed => Served(s)
    BY <2>1 DEF Served, Running
  <2> QED
    BY <2>1, <2>2, <2>3 DEF Open
<1>2. CASE Accept(s)
  <2>1. /\ hand[s] = "none" /\ Open(s)
        /\ hand' = [hand EXCEPT ![s] = "idle"]
        /\ clients' = clients \cup {s}
        /\ \/ authed' = authed /\ since' = since /\ plan.token
           \/ authed' = authed \cup {s} /\ since' = [since EXCEPT ![s] = pushed]
        /\ UNCHANGED <<plan, full, tasks, pushed, cliVars, faults,
                       svc, inbox, state, given>>
        /\ LaidOutAnew \/ UNCHANGED <<slot, astray>>
    BY <1>2 DEF Accept, sockVars
  <2>4. LaidOut
    <3>1. CASE LaidOutAnew
      <4>1. /\ slot' \in Orders
            /\ astray' = astray \cup {tasks[i].event : i \in {j \in 1..Len(tasks) : tasks[j].on # 0}}
        BY <3>1 DEF LaidOutAnew
      <4>2. astray \subseteq 1..pushed /\ \A i \in 1..Len(tasks) : tasks[i].event \in 1..pushed
        BY DEF RpcInv, RpcTypes, CastTypes
      <4> QED
        BY <4>1, <4>2 DEF LaidOut
    <3> QED
      BY <2>1, <3>1 DEF LaidOut
  <2>2. s \notin authed
    BY <1>1, <2>1 DEF Served
  <2>3. "idle" = "idle" \/ "idle" = "busy" \/ "idle" = "answer"
    OBVIOUS
  <2> QED
    BY <1>1, <2>1, <2>2, <2>3, <2>4, HandlerMoves
<1>3. CASE Take(s)
  <2>1. /\ hand[s] = "idle" /\ inbox[s] # <<>>
        /\ UNCHANGED <<plan, full, tasks, pushed, cliVars, faults, svc, clients, given>>
        /\ LaidOut
    BY <1>3 DEF Take, runVars, castVars, LaidOut
  <2>2. hand \in [Sockets -> Running \cup {"none", "over"}] /\ Served(s)
    BY <2>1 DEF RpcInv, RpcTypes, ServerTypes, Served
  <2>3. CASE plan.token /\ s \notin authed
    <3>1. /\ inbox' = [inbox EXCEPT ![s] = Tail(@)]
          /\ \/ authed' = authed \cup {s} /\ since' = [since EXCEPT ![s] = pushed] /\ state' = state
             \/ /\ authed' = authed /\ since' = since
                /\ state' = state \/ (Open(s) /\ state' = [state EXCEPT ![s] = "cut"])
          /\ hand' = hand
      BY <1>3, <2>3 DEF Take
    <3>2. hand' = [hand EXCEPT ![s] = "idle"]
      BY <2>1, <2>2, <3>1
    <3>3. "idle" = "idle" \/ "idle" = "busy" \/ "idle" = "answer"
      OBVIOUS
    <3>4. ~("idle" = "busy" \/ "idle" = "answer")
      OBVIOUS
    <3> QED
      BY <1>1, <2>1, <2>2, <2>3, <3>1, <3>2, <3>3, <3>4, HandlerMoves
  <2>4. CASE ~(plan.token /\ s \notin authed)
    <3>1. /\ hand' = [hand EXCEPT ![s] = "busy"]
          /\ UNCHANGED <<inbox, authed, since, state>>
      BY <1>3, <2>4 DEF Take
    <3>3. "busy" = "idle" \/ "busy" = "busy" \/ "busy" = "answer"
      OBVIOUS
    <3> QED
      BY <1>1, <2>1, <2>2, <3>1, <3>3, HandlerMoves
  <2> QED
    BY <2>3, <2>4
<1>4. CASE Execute(s)
  <2>1. /\ hand[s] = "busy"
        /\ hand' = [hand EXCEPT ![s] = "answer"]
        /\ UNCHANGED <<plan, full, tasks, pushed, cliVars, faults,
                       clients, given, inbox, state, authed, since>>
        /\ LaidOut
        /\ svc' = svc \/ svc' = "asked"
    BY <1>4 DEF Execute, runVars, castVars, sockVars, LaidOut
  <2>2. "answer" = "idle" \/ "answer" = "busy" \/ "answer" = "answer"
    OBVIOUS
  <2>3. Served(s)
    BY <2>1 DEF Served
  <2> QED
    BY <1>1, <2>1, <2>2, <2>3, HandlerMoves
<1>5. CASE Answer(s)
  <2>1. /\ hand[s] = "answer"
        /\ inbox' = [inbox EXCEPT ![s] = Tail(@)]
        /\ UNCHANGED <<plan, state, full, svc, tasks, pushed, cliVars, faults>>
        /\ LaidOut
        /\ \/ hand' = [hand EXCEPT ![s] = "idle"] /\ UNCHANGED <<clients, authed, given, since>>
           \/ ~Open(s) /\ Over(s)
    BY <1>5 DEF Answer, runVars, LaidOut
  <2>2. "idle" = "idle" \/ "idle" = "busy" \/ "idle" = "answer"
    OBVIOUS
  <2>3. ~("idle" = "busy" \/ "idle" = "answer") /\ ~("over" = "busy" \/ "over" = "answer")
    OBVIOUS
  <2>4. Served(s)
    BY <2>1 DEF Served
  <2>5. CASE hand' = [hand EXCEPT ![s] = "idle"] /\ UNCHANGED <<clients, authed, given, since>>
    BY <1>1, <2>1, <2>2, <2>3, <2>4, <2>5, HandlerMoves
  <2>6. CASE ~Open(s) /\ Over(s)
    BY <1>1, <2>1, <2>3, <2>6, HandlerMoves DEF Over
  <2> QED
    BY <2>1, <2>5, <2>6
<1>6. CASE End(s)
  <2>1. /\ hand[s] = "idle" /\ ~Open(s) /\ Over(s)
        /\ UNCHANGED <<plan, state, inbox, full, svc, tasks, pushed, cliVars, faults>>
        /\ LaidOut
    BY <1>6 DEF End, runVars, sockVars, Open, LaidOut
  <2>2. ~("over" = "busy" \/ "over" = "answer")
    OBVIOUS
  <2> QED
    BY <1>1, <2>1, <2>2, HandlerMoves DEF Over
<1> QED
  BY <1>2, <1>3, <1>4, <1>5, <1>6

-----------------------------------------------------------------------------
(* The service goes down.                                                  *)

(* Nobody is served and nothing is broadcast any more.                     *)
LEMMA DownSteps ==
  ASSUME RpcInv, Exit \/ Crash
  PROVE  RpcInv'
<1>1. /\ state \in [Sockets -> {"none", "open", "clean", "cut"}]
      /\ full \subseteq Sockets
      /\ inbox \in [Sockets -> Seq(Requests)]
      /\ hand \in [Sockets -> Running \cup {"none", "over"}]
      /\ clients \subseteq {x \in Sockets : hand[x] \in Running}
      /\ authed \subseteq {x \in Sockets : hand[x] \in Running}
      /\ given \in [Sockets -> Seq(Nat)]
      /\ since \in [Sockets -> 0..pushed]
      /\ pushed \in Nat
      /\ faults \in 0..plan.faults
  BY PlansAssumption DEF RpcInv, RpcTypes, SocketTypes, ServerTypes, CastTypes, ClientTypes
<1>2. /\ UNCHANGED <<runVars, plan, slot, inbox, pushed, astray, cliVars>>
      /\ svc' = "down" /\ tasks' = <<>>
  BY DEF Exit, Crash, ProcessEnds, runVars, sockVars
<1>3. authed' = {} /\ clients' = {}
  BY <1>1 DEF Exit, Crash, ProcessEnds
<1>4. SocketTypes'
  <2>1. state' \in [Sockets -> {"none", "open", "clean", "cut"}] /\ full' \subseteq Sockets
    BY <1>1 DEF Exit, Crash, ProcessEnds, sockVars
  <2> QED
    BY <1>1, <1>2, <2>1 DEF SocketTypes
<1>5. ServerTypes'
  <2>1. hand' \in [Sockets -> Running \cup {"none", "over"}]
    BY <1>1 DEF Exit, Crash, ProcessEnds
  <2> QED
    BY <1>2, <1>3, <2>1 DEF ServerTypes
<1>6. \/ given' = given /\ since' = since
      \/ given' = [s \in Sockets |-> <<>>] /\ since' = [s \in Sockets |-> 0]
  BY DEF Exit, Crash, ProcessEnds
<1>7. CastTypes'
  <2>1. tasks' \in Seq(Tasks) /\ Len(tasks') = 0
    BY <1>2
  <2>2. \A i \in 1..Len(tasks') : FALSE
    BY <2>1
  <2>3. given' \in [Sockets -> Seq(Nat)]
    <3>1. <<>> \in Seq(Nat)
      OBVIOUS
    <3> QED
      BY <1>1, <1>6, <3>1
  <2>4. ASSUME NEW x \in Sockets, NEW k \in 1..Len(given'[x])
        PROVE  given'[x][k] \in 1..pushed
    <3>1. CASE given' = given
      BY <2>4, <3>1 DEF RpcInv, RpcTypes, CastTypes
    <3>2. CASE given'[x] = <<>>
      BY <2>4, <3>2
    <3> QED
      BY <1>6, <3>1, <3>2
  <2>5. since' \in [Sockets -> 0..pushed]
    <3>1. 0 \in 0..pushed
      BY <1>1
    <3> QED
      BY <1>1, <1>6, <3>1
  <2> QED
    BY <1>2, <2>1, <2>2, <2>3, <2>4, <2>5 DEF RpcInv, RpcTypes, CastTypes
<1>8. ClientTypes'
  <2>1. faults' \in 0..plan.faults
    BY <1>1, Counting DEF Exit, Crash, ProcessEnds
  <2> QED
    BY <1>2, <2>1 DEF RpcInv, RpcTypes, ClientTypes, cliVars
<1>9. SocketsInv'
  <2>1. /\ \A x \in Sockets : made < x => state[x] = "none"
        /\ \A x \in Sockets : state[x] = "none" => hand[x] = "none"
        /\ \A x \in Sockets : (hand[x] = "busy" \/ hand[x] = "answer") => inbox[x] # <<>>
        /\ \A x \in Sockets : (x \notin authed /\ ~Closed(x)) => given[x] = <<>>
    BY DEF RpcInv, SocketsInv
  <2>2. \A x \in Sockets : /\ state'[x] = state[x] \/ (Open(x) /\ state'[x] = "cut")
                           /\ hand'[x] = IF hand[x] \in Running THEN "over" ELSE hand[x]
                           /\ given'[x] = <<>>
    BY <1>1 DEF Exit, Crash, ProcessEnds, sockVars
  <2>3. \A x \in Sockets : ~Served(x)' /\ hand'[x] # "busy" /\ hand'[x] # "answer"
    BY <2>2 DEF Served, Running
  <2>4. \A x \in Sockets : made' < x => state'[x] = "none"
    BY <1>2, <2>1, <2>2 DEF Open, cliVars
  <2>5. \A x \in Sockets : state'[x] = "none" => hand'[x] = "none"
    <3>1. \A x \in Sockets : state'[x] = "none" => state[x] = "none"
      BY <2>2 DEF Open
    <3>2. "none" \notin Running
      BY DEF Running
    <3> QED
      BY <2>1, <2>2, <3>1, <3>2
  <2> QED
    BY <1>3, <2>2, <2>3, <2>4, <2>5 DEF SocketsInv
<1>10. TaskPlaces' /\ TasksInOrder' /\ GivenInOrder' /\ NoneLost'
  <2>1. \A i \in 1..Len(tasks') : FALSE
    BY <1>2
  <2>2. TaskPlaces' /\ TasksInOrder'
    BY <2>1 DEF TaskPlaces, TasksInOrder
  <2> QED
    BY <1>3, <2>2 DEF GivenInOrder, NoneLost
<1> QED
  BY <1>4, <1>5, <1>7, <1>8, <1>9, <1>10 DEF RpcInv, RpcTypes

-----------------------------------------------------------------------------
(* The broadcasts.                                                         *)

(* A new broadcast comes last, and has everyone before it.                 *)
LEMMA PushStep ==
  ASSUME RpcInv, Push
  PROVE  RpcInv'
<1>1. PICK t : t = [event |-> pushed + 1, pos |-> 0, on |-> 0, size |-> -1, dead |-> {}]
  OBVIOUS
<1>2. /\ tasks' = Append(tasks, t) /\ pushed' = pushed + 1 /\ pushed < plan.events
      /\ UNCHANGED <<runVars, plan, slot, sockVars, state, full, inbox, srvVars, svc, hand,
                     clients, authed, since, astray, given, cliVars, out, faults>>
  BY <1>1 DEF Push, runVars, sockVars, srvVars
<1>3. /\ pushed \in Nat /\ plan.events \in Nat /\ tasks \in Seq(Tasks)
      /\ since \in [Sockets -> 0..pushed] /\ astray \subseteq 1..pushed
      /\ given \in [Sockets -> Seq(Nat)]
      /\ \A i \in 1..Len(tasks) : tasks[i].event \in 1..pushed
      /\ \A s \in Sockets : \A k \in 1..Len(given[s]) : given[s][k] \in 1..pushed
      /\ authed \subseteq Sockets
  <2>1. plan \in Plans /\ pushed \in 0..plan.events
    BY DEF RpcInv, RpcTypes, CastTypes
  <2>2. plan.events \in Nat
    BY <2>1, PlansAssumption
  <2>3. pushed \in Nat
    BY <2>1, <2>2
  <2>4. authed \subseteq Sockets
    BY DEF RpcInv, RpcTypes, ServerTypes
  <2> QED
    BY <2>2, <2>3, <2>4 DEF RpcInv, RpcTypes, CastTypes
<1>4. /\ t \in Tasks /\ t.event = pushed + 1 /\ t.pos = 0 /\ t.on = 0 /\ t.dead = {}
  BY <1>1, <1>3 DEF Tasks
<1>5. /\ tasks' \in Seq(Tasks) /\ Len(tasks) \in Nat /\ Len(tasks') = Len(tasks) + 1
      /\ \A i \in 1..Len(tasks) : tasks'[i] = tasks[i]
      /\ tasks'[Len(tasks) + 1] = t
  BY <1>2, <1>3, <1>4, Appended
<1>6. \A i \in 1..Len(tasks') : \/ i \in 1..Len(tasks) /\ tasks'[i] = tasks[i]
                                \/ i = Len(tasks) + 1 /\ tasks'[i] = t
  BY <1>5
<1>7. 1..pushed \subseteq 1..pushed' /\ pushed' \in 0..plan.events /\ pushed + 1 \in 1..pushed'
  BY <1>2, <1>3
<1>8. CastTypes'
  <2>1. \A i \in 1..Len(tasks') : tasks'[i].event \in 1..pushed'
    BY <1>3, <1>4, <1>6, <1>7
  <2>2. since' \in [Sockets -> 0..pushed']
    <3>1. 0..pushed \subseteq 0..pushed'
      BY <1>2, <1>3
    <3> QED
      BY <1>2, <1>3, <3>1
  <2>3. astray' \subseteq 1..pushed'
    BY <1>2, <1>3, <1>7
  <2>4. \A s \in Sockets : \A k \in 1..Len(given'[s]) : given'[s][k] \in 1..pushed'
    BY <1>2, <1>3, <1>7
  <2> QED
    BY <1>2, <1>3, <1>5, <1>7, <2>1, <2>2, <2>3, <2>4 DEF CastTypes, RpcInv, RpcTypes
<1>9. SocketTypes' /\ ServerTypes' /\ ClientTypes' /\ SocketsInv'
  BY <1>2 DEF RpcInv, RpcTypes, SocketTypes, ServerTypes, ClientTypes, SocketsInv, Open,
              Closed, Served, cliVars
<1>10. TaskPlaces'
  <2>1. ASSUME NEW i \in 1..Len(tasks')
        PROVE  /\ tasks'[i].on = 0 => tasks'[i].pos = 0
               /\ tasks'[i].on # 0 =>
                    /\ tasks'[i].on \in Sockets
                    /\ tasks'[i].event \notin astray => tasks'[i].pos = slot[tasks'[i].on]
                    /\ state[tasks'[i].on] # "none"
                    /\ Open(tasks'[i].on) => tasks'[i].on \in authed
               /\ \A s \in tasks'[i].dead : Closed(s)
    <3>1. CASE i \in 1..Len(tasks) /\ tasks'[i] = tasks[i]
      BY <3>1 DEF RpcInv, TaskPlaces
    <3>2. CASE tasks'[i] = t
      BY <1>4, <3>2
    <3> QED
      BY <1>6, <3>1, <3>2
  <2> QED
    BY <1>2, <2>1 DEF TaskPlaces, Open, Closed
<1>11. TasksInOrder'
  <2>1. ASSUME NEW i \in 1..Len(tasks'), NEW j \in 1..Len(tasks'), i < j
        PROVE  /\ tasks'[i].event < tasks'[j].event
               /\ (tasks'[i].event \notin astray /\ tasks'[j].event \notin astray) =>
                    tasks'[j].pos <= tasks'[i].pos
    <3>1. i \in 1..Len(tasks) /\ tasks'[i] = tasks[i]
      BY <1>5, <2>1
    <3>2. CASE j \in 1..Len(tasks) /\ tasks'[j] = tasks[j]
      BY <2>1, <3>1, <3>2 DEF RpcInv, TasksInOrder
    <3>3. CASE tasks'[j] = t
      <4>1. tasks[i] \in Tasks
        BY <1>3, <3>1
      <4>2. tasks[i].pos \in Nat
        BY <4>1 DEF Tasks
      <4>3. tasks[i].event \in 1..pushed
        BY <1>3, <3>1
      <4>4. tasks[i].event < pushed + 1 /\ 0 <= tasks[i].pos
        BY <1>3, <4>2, <4>3
      <4> QED
        BY <1>4, <3>1, <3>3, <4>4
    <3> QED
      BY <1>6, <3>2, <3>3
  <2> QED
    BY <1>2, <2>1 DEF TasksInOrder
<1>12. GivenInOrder'
  <2>1. ASSUME NEW s \in authed, Open(s)
        PROVE  /\ Increasing(given[s])
               /\ \A i \in 1..Len(tasks') : (tasks'[i].event \notin astray /\ Reaches(tasks'[i], s)) =>
                    \A k \in 1..Len(given[s]) : given[s][k] < tasks'[i].event
    <3>1. Increasing(given[s])
      BY <2>1 DEF RpcInv, GivenInOrder
    <3>2. ASSUME NEW i \in 1..Len(tasks'), tasks'[i].event \notin astray, Reaches(tasks'[i], s),
                 NEW k \in 1..Len(given[s])
          PROVE  given[s][k] < tasks'[i].event
      <4>1. CASE i \in 1..Len(tasks) /\ tasks'[i] = tasks[i]
        BY <2>1, <3>2, <4>1 DEF RpcInv, GivenInOrder
      <4>2. CASE tasks'[i] = t
        <5>1. given[s][k] \in 1..pushed
          BY <1>3
        <5>2. given[s][k] < pushed + 1
          BY <1>3, <5>1
        <5> QED
          BY <1>4, <4>2, <5>2
      <4> QED
        BY <1>6, <4>1, <4>2
    <3> QED
      BY <3>1, <3>2
  <2> QED
    BY <1>2, <2>1 DEF GivenInOrder, Reaches, Open
<1>13. NoneLost'
  <2>1. ASSUME NEW s \in authed, Open(s), NEW e \in (since[s] + 1)..(pushed + 1)
        PROVE  \/ \E k \in 1..Len(given[s]) : given[s][k] = e
               \/ e \in astray
               \/ \E i \in 1..Len(tasks') : tasks'[i].event = e /\ Reaches(tasks'[i], s)
    <3>1. CASE e = pushed + 1
      <4>1. 0 < slot[s]
        BY <1>3, SlotFacts DEF RpcInv, RpcTypes
      <4>2. Len(tasks) + 1 \in 1..Len(tasks')
        BY <1>5
      <4> QED
        BY <1>4, <1>5, <3>1, <4>1, <4>2 DEF Reaches
    <3>2. CASE e # pushed + 1
      <4>1. since[s] \in Int
        BY <1>3
      <4>2. e \in (since[s] + 1)..pushed
        BY <1>3, <2>1, <3>2, <4>1
      <4>3. Settled(s, e)
        BY <2>1, <4>2 DEF RpcInv, NoneLost
      <4>4. \A i \in 1..Len(tasks) : i \in 1..Len(tasks') /\ tasks'[i] = tasks[i]
        BY <1>5
      <4> QED
        BY <4>3, <4>4 DEF Settled
    <3> QED
      BY <3>1, <3>2
  <2> QED
    BY <1>2, <2>1 DEF NoneLost, Settled, Reaches, Open
<1> QED
  BY <1>8, <1>9, <1>10, <1>11, <1>12, <1>13 DEF RpcInv, RpcTypes

\* A task after the turn of task i: another one, or what has become of i.
Stems(x, m, i, U) == (m # i /\ x = tasks[m]) \/ (m = i /\ x \in U)

\* The tasks after the turn of task i, of which U is left.
Rearranged(i, U) ==
  /\ tasks' \in Seq(Tasks)
  /\ \A k \in 1..Len(tasks') : \E m \in 1..Len(tasks) : Stems(tasks'[k], m, i, U)
  /\ \A k, l \in 1..Len(tasks') : k < l =>
       \E m, n \in 1..Len(tasks) :
         m < n /\ Stems(tasks'[k], m, i, U) /\ Stems(tasks'[l], n, i, U)
  /\ \A m \in 1..Len(tasks) : m # i => \E k \in 1..Len(tasks') : tasks'[k] = tasks[m]
  /\ \A u \in U : \E k \in 1..Len(tasks') : tasks'[k] = u

\* Task i, if it is not astray, writes its event on sockets which it and no
\* earlier one has to reach.
Writes(i, t, W) ==
  /\ given' = [s \in Sockets |-> IF s \in W THEN Append(given[s], t.event) ELSE given[s]]
  /\ \A s \in W : /\ t.event \notin astray /\ Open(s) /\ Reaches(t, s)
                  /\ \A j \in 1..Len(tasks) : (j < i /\ tasks[j].event \notin astray) =>
                       ~Reaches(tasks[j], s)

\* What is left of task i when it waits again: it waits on a client behind the
\* place of t and reaches nothing that was written.
WaitsAgain(u, i, t, W) ==
  /\ u \in Tasks /\ u.event = t.event
  /\ u.on \in authed /\ u.on # 0 /\ u.pos = slot[u.on] /\ Open(u.on)
  /\ t.pos < u.pos
  /\ \A j \in 1..Len(tasks) :
       (j < i /\ t.event \notin astray /\ tasks[j].event \notin astray) => u.pos <= tasks[j].pos
  /\ \A s \in u.dead : Closed(s)
  /\ \A s \in W : ~Reaches(u, s)

(* Task i writes its event on the sockets W, and what is left of it (a     *)
(* member of U, if it waits again) has the others still to reach; the      *)
(* sockets D are closed.                                                   *)
LEMMA TurnKeeps ==
  ASSUME RpcInv, NEW i \in 1..Len(tasks), NEW t, t = tasks[i],
         NEW W \in SUBSET authed, NEW D, NEW U,
         UNCHANGED <<runVars, sockVars, svc, hand, since, pushed, cliVars, faults>>,
         Writes(i, t, W), Rearranged(i, U),
         clients' = clients \ D, authed' = authed \ D,
         astray' = astray \/ astray' = astray \cup {t.event},
         \A s \in D : Closed(s),
         \A s \in authed : (Open(s) /\ Reaches(t, s)) =>
           s \in W \/ t.event \in astray' \/ \E u \in U : Reaches(u, s),
         \A u \in U : WaitsAgain(u, i, t, W)
  PROVE  RpcInv'
<1>0. /\ given' = [s \in Sockets |-> IF s \in W THEN Append(given[s], t.event) ELSE given[s]]
      /\ \A s \in W : /\ t.event \notin astray /\ Open(s) /\ Reaches(t, s)
                      /\ \A j \in 1..Len(tasks) : (j < i /\ tasks[j].event \notin astray) =>
                           ~Reaches(tasks[j], s)
      /\ \A u \in U : /\ u \in Tasks /\ u.event = t.event
                      /\ u.on \in authed /\ u.on # 0 /\ u.pos = slot[u.on] /\ Open(u.on)
                      /\ t.pos < u.pos
                      /\ \A j \in 1..Len(tasks) :
                           (j < i /\ t.event \notin astray /\ tasks[j].event \notin astray) =>
                             u.pos <= tasks[j].pos
                      /\ \A s \in u.dead : Closed(s)
                      /\ \A s \in W : ~Reaches(u, s)
      /\ tasks' \in Seq(Tasks)
      /\ \A k \in 1..Len(tasks') : \E m \in 1..Len(tasks) : Stems(tasks'[k], m, i, U)
      /\ \A k, l \in 1..Len(tasks') : k < l =>
           \E m, n \in 1..Len(tasks) :
             m < n /\ Stems(tasks'[k], m, i, U) /\ Stems(tasks'[l], n, i, U)
      /\ \A m \in 1..Len(tasks) : m # i => \E k \in 1..Len(tasks') : tasks'[k] = tasks[m]
      /\ \A u \in U : \E k \in 1..Len(tasks') : tasks'[k] = u
  BY DEF Writes, WaitsAgain, Rearranged
<1> USE <1>0
<1>1. /\ state \in [Sockets -> {"none", "open", "clean", "cut"}]
      /\ clients \subseteq {x \in Sockets : hand[x] \in Running}
      /\ authed \subseteq {x \in Sockets : hand[x] \in Running}
      /\ given \in [Sockets -> Seq(Nat)]
      /\ \A s \in Sockets : \A k \in 1..Len(given[s]) : given[s][k] \in 1..pushed
      /\ since \in [Sockets -> 0..pushed]
      /\ pushed \in Nat /\ astray \subseteq 1..pushed
      /\ tasks \in Seq(Tasks)
      /\ \A m \in 1..Len(tasks) : tasks[m].event \in 1..pushed
  BY PlansAssumption DEF RpcInv, RpcTypes, SocketTypes, ServerTypes, CastTypes
<1>2. /\ UNCHANGED <<plan, slot, state, full, inbox>>
      /\ \A s : Open(s)' = Open(s) /\ Closed(s)' = Closed(s)
  BY DEF runVars, sockVars, Open, Closed
<1>3. t.event \in 1..pushed /\ t.event \in Nat /\ authed \subseteq Sockets
  BY <1>1
<1>4. \A m \in 1..Len(tasks) : /\ tasks[m] \in Tasks /\ tasks[m].event \in Nat
                               /\ tasks[m].pos \in Nat
  <2>1. \A m \in 1..Len(tasks) : tasks[m] \in Tasks
    BY <1>1
  <2> QED
    BY <2>1 DEF Tasks
<1>5. \A s \in Sockets :
        /\ s \notin W => given'[s] = given[s]
        /\ given[s] \in Seq(Nat) /\ given'[s] \in Seq(Nat) /\ Len(given[s]) \in Nat
        /\ s \in W => /\ Len(given'[s]) = Len(given[s]) + 1
                      /\ given'[s][Len(given[s]) + 1] = t.event
                      /\ \A k \in 1..Len(given[s]) : given'[s][k] = given[s][k]
  <2> TAKE s \in Sockets
  <2>1. given[s] \in Seq(Nat)
    BY <1>1
  <2>2. given'[s] = IF s \in W THEN Append(given[s], t.event) ELSE given[s]
    OBVIOUS
  <2>3. PICK a : a = Append(given[s], t.event)
    OBVIOUS
  <2>4. /\ a \in Seq(Nat) /\ Len(given[s]) \in Nat /\ Len(a) = Len(given[s]) + 1
        /\ \A k \in 1..Len(given[s]) : a[k] = given[s][k]
        /\ a[Len(given[s]) + 1] = t.event
    BY <1>3, <2>1, <2>3, Appended
  <2> QED
    BY <2>1, <2>2, <2>3, <2>4
<1>6. \A s \in authed' : s \in authed /\ s \in Sockets
  BY <1>3
<1>7. SocketTypes' /\ ClientTypes'
  BY <1>2 DEF RpcInv, RpcTypes, SocketTypes, ClientTypes, cliVars
<1>8. ServerTypes'
  BY DEF RpcInv, RpcTypes, ServerTypes
<1>9. CastTypes'
  <2>1. ASSUME NEW k \in 1..Len(tasks') PROVE tasks'[k].event \in 1..pushed
    BY <1>1, <1>3, <2>1 DEF Stems
  <2>2. astray' \subseteq 1..pushed
    BY <1>1, <1>3
  <2>3. given' \in [Sockets -> Seq(Nat)]
    BY <1>5
  <2>4. ASSUME NEW s \in Sockets, NEW k \in 1..Len(given'[s]) PROVE given'[s][k] \in 1..pushed
    <3>1. CASE s \in W
      <4>1. k \in 1..Len(given[s]) \/ k = Len(given[s]) + 1
        BY <1>5, <2>4, <3>1
      <4> QED
        BY <1>1, <1>3, <1>5, <3>1, <4>1
    <3>2. CASE s \notin W
      BY <1>1, <1>5, <2>4, <3>2
    <3> QED
      BY <3>1, <3>2
  <2>5. since' \in [Sockets -> 0..pushed']
    BY <1>1
  <2> QED
    BY <1>2, <2>1, <2>2, <2>3, <2>4, <2>5 DEF RpcInv, RpcTypes, CastTypes
<1>10. SocketsInv'
  <2>1. /\ \A x \in Sockets : made < x => state[x] = "none"
        /\ \A x \in Sockets : state[x] = "none" => hand[x] = "none"
        /\ \A x \in Sockets : (hand[x] = "busy" \/ hand[x] = "answer") => inbox[x] # <<>>
        /\ \A x \in Sockets : (Open(x) /\ Served(x)) => x \in clients
        /\ ~plan.token => clients \subseteq authed
        /\ \A x \in Sockets : (x \notin authed /\ ~Closed(x)) => given[x] = <<>>
    BY DEF RpcInv, SocketsInv
  <2>2. \A x \in Sockets : ~(Open(x) /\ Closed(x))
    BY DEF Open, Closed
  <2>3. \A x \in Sockets : (Open(x) /\ Served(x)) => x \in clients'
    BY <2>1, <2>2
  <2>4. \A x \in Sockets : (x \notin authed' /\ ~Closed(x)) => given'[x] = <<>>
    BY <1>5, <2>1
  <2>5. ~plan.token => clients' \subseteq authed'
    BY <2>1
  <2>6. made' = made
    BY DEF cliVars
  <2>7. \A x \in Sockets : Served(x)' = Served(x)
    BY DEF Served
  <2> QED
    BY <1>2, <2>1, <2>3, <2>4, <2>5, <2>6, <2>7 DEF SocketsInv
<1>11. TaskPlaces'
  <2>1. ASSUME NEW k \in 1..Len(tasks')
        PROVE  /\ tasks'[k].on = 0 => tasks'[k].pos = 0
               /\ tasks'[k].on # 0 =>
                    /\ tasks'[k].on \in Sockets
                    /\ tasks'[k].event \notin astray => tasks'[k].pos = slot[tasks'[k].on]
                    /\ state[tasks'[k].on] # "none"
                    /\ Open(tasks'[k].on) => tasks'[k].on \in authed'
               /\ \A s \in tasks'[k].dead : Closed(s)
    <3>1. \A s \in authed : Open(s) => s \in authed'
      BY DEF Open, Closed
    <3>2. CASE \E m \in 1..Len(tasks) : tasks'[k] = tasks[m]
      <4>1. PICK m \in 1..Len(tasks) : tasks'[k] = tasks[m]
        BY <3>2
      <4>2. /\ tasks[m].on = 0 => tasks[m].pos = 0
            /\ tasks[m].on # 0 =>
                 /\ tasks[m].on \in Sockets
                 /\ tasks[m].event \notin astray => tasks[m].pos = slot[tasks[m].on]
                 /\ state[tasks[m].on] # "none"
                 /\ Open(tasks[m].on) => tasks[m].on \in authed
            /\ \A s \in tasks[m].dead : Closed(s)
        BY DEF RpcInv, TaskPlaces
      <4> QED
        BY <3>1, <4>1, <4>2
    <3>3. CASE tasks'[k] \in U
      <4>1. /\ tasks'[k].on \in authed /\ tasks'[k].on # 0 /\ tasks'[k].pos = slot[tasks'[k].on]
            /\ Open(tasks'[k].on) /\ \A s \in tasks'[k].dead : Closed(s)
        BY <3>3
      <4>2. state[tasks'[k].on] # "none"
        BY <4>1 DEF Open
      <4> QED
        BY <1>3, <3>1, <4>1, <4>2
    <3> QED
      BY <2>1, <3>2, <3>3 DEF Stems
  <2>2. \A k \in 1..Len(tasks') : Open(tasks'[k].on) <=> state'[tasks'[k].on] = "open"
    BY <1>2 DEF Open
  <2>3. astray \subseteq astray'
    OBVIOUS
  <2> QED
    BY <1>2, <2>1, <2>2, <2>3 DEF TaskPlaces, Open, Closed
<1>12. TasksInOrder'
  <2>1. ASSUME NEW k \in 1..Len(tasks'), NEW l \in 1..Len(tasks'), k < l
        PROVE  /\ tasks'[k].event < tasks'[l].event
               /\ (tasks'[k].event \notin astray /\ tasks'[l].event \notin astray) =>
                    tasks'[l].pos <= tasks'[k].pos
    <3>1. PICK m \in 1..Len(tasks), n \in 1..Len(tasks) :
            m < n /\ Stems(tasks'[k], m, i, U) /\ Stems(tasks'[l], n, i, U)
      BY <2>1
    <3>2. /\ tasks[m].event < tasks[n].event
          /\ (tasks[m].event \notin astray /\ tasks[n].event \notin astray) =>
               tasks[n].pos <= tasks[m].pos
      BY <3>1 DEF RpcInv, TasksInOrder
    <3>3. m \in Int /\ n \in Int /\ i \in Int
      OBVIOUS
    <3>4. CASE m # i /\ n # i
      BY <3>1, <3>2, <3>4 DEF Stems
    <3>5. CASE m = i
      <4>1. n # i /\ tasks'[l] = tasks[n] /\ tasks'[k] \in U
        BY <3>1, <3>3, <3>5 DEF Stems
      <4>2. tasks'[k].event = t.event /\ t.pos < tasks'[k].pos /\ tasks'[k] \in Tasks
        BY <4>1
      <4>3. tasks'[k].pos \in Nat
        BY <4>2 DEF Tasks
      <4>4. tasks'[k].event < tasks'[l].event
        BY <3>2, <3>5, <4>1, <4>2
      <4>5. tasks'[l].pos \in Nat /\ t.pos \in Nat
        BY <1>4, <3>5, <4>1
      <4>6. (t.event \notin astray /\ tasks'[l].event \notin astray) => tasks'[l].pos <= t.pos
        BY <3>2, <3>5, <4>1
      <4>7. tasks'[l].pos <= t.pos => tasks'[l].pos <= tasks'[k].pos
        BY <4>2, <4>3, <4>5
      <4> QED
        BY <4>2, <4>4, <4>6, <4>7
    <3>6. CASE n = i
      <4>1. m # i /\ tasks'[k] = tasks[m] /\ tasks'[l] \in U
        BY <3>1, <3>3, <3>6 DEF Stems
      <4>2. /\ tasks'[l].event = t.event
            /\ (tasks[m].event \notin astray /\ t.event \notin astray) =>
                 tasks'[l].pos <= tasks[m].pos
        BY <3>1, <3>6, <4>1
      <4> QED
        BY <3>2, <3>6, <4>1, <4>2
    <3> QED
      BY <3>4, <3>5, <3>6
  <2>2. astray \subseteq astray'
    OBVIOUS
  <2> QED
    BY <2>1, <2>2 DEF TasksInOrder
<1>13. GivenInOrder'
  <2>1. ASSUME NEW s \in authed, Open(s)
        PROVE  /\ Increasing(given'[s])
               /\ \A l \in 1..Len(tasks') :
                    (tasks'[l].event \notin astray /\ Reaches(tasks'[l], s)) =>
                      \A k \in 1..Len(given'[s]) : given'[s][k] < tasks'[l].event
    <3>1. /\ \A k, l \in 1..Len(given[s]) : k < l => given[s][k] < given[s][l]
          /\ \A l \in 1..Len(tasks) : (tasks[l].event \notin astray /\ Reaches(tasks[l], s)) =>
               \A k \in 1..Len(given[s]) : given[s][k] < tasks[l].event
      BY <2>1 DEF RpcInv, GivenInOrder, Increasing
    <3>2. s \in Sockets
      BY <1>3
    <3>3. ASSUME NEW u \in U, Reaches(u, s) PROVE Reaches(t, s)
      <4>1. u \in Tasks /\ t.pos < u.pos /\ u.pos = slot[u.on]
        BY <3>3
      <4>2. u.pos \in Nat /\ t.pos \in Nat /\ slot[s] \in Nat
        BY <1>4, <3>2, <4>1, SlotFacts DEF Tasks, RpcInv, RpcTypes
      <4> QED
        BY <3>3, <4>1, <4>2 DEF Reaches
    <3>4. ASSUME NEW l \in 1..Len(tasks'), tasks'[l].event \notin astray, Reaches(tasks'[l], s)
          PROVE  /\ \A k \in 1..Len(given[s]) : given[s][k] < tasks'[l].event
                 /\ s \in W => t.event < tasks'[l].event
      <4>1. PICK m \in 1..Len(tasks) : Stems(tasks'[l], m, i, U)
        BY <3>4
      <4>2. CASE m # i
        <5>1. tasks'[l] = tasks[m]
          BY <4>1, <4>2 DEF Stems
        <5>2. ASSUME s \in W PROVE t.event < tasks'[l].event
          <6>1. ~(m < i)
            BY <3>4, <5>1, <5>2
          <6>2. i < m
            BY <4>2, <6>1
          <6> QED
            BY <5>1, <6>2 DEF RpcInv, TasksInOrder
        <5> QED
          BY <3>1, <3>4, <5>1, <5>2
      <4>3. CASE m = i
        <5>1. tasks'[l] \in U
          BY <4>1, <4>3 DEF Stems
        <5>2. tasks'[l].event = t.event /\ Reaches(t, s) /\ s \notin W
          BY <3>3, <3>4, <5>1
        <5>3. tasks[i].event \notin astray
          BY <3>4, <5>2
        <5> QED
          BY <3>1, <5>2, <5>3
      <4> QED
        BY <4>2, <4>3
    <3>5. CASE s \in W
      <4>1. \A k \in 1..Len(given[s]) : given[s][k] < t.event
        BY <3>1, <3>5
      <4>2. \A k \in 1..Len(given'[s]) : \/ k \in 1..Len(given[s]) /\ given'[s][k] = given[s][k]
                                         \/ k = Len(given[s]) + 1 /\ given'[s][k] = t.event
        BY <1>5, <3>2, <3>5
      <4>3. Len(given[s]) \in Nat
        BY <1>5, <3>2
      <4>4. ASSUME NEW k \in 1..Len(given'[s]), NEW l \in 1..Len(given'[s]), k < l
            PROVE  given'[s][k] < given'[s][l]
        <5>1. k \in 1..Len(given[s]) /\ given'[s][k] = given[s][k]
          <6>1. Len(given'[s]) = Len(given[s]) + 1
            BY <1>5, <3>2, <3>5
          <6>2. k # Len(given[s]) + 1
            BY <4>3, <4>4, <6>1
          <6> QED
            BY <4>2, <6>2
        <5> QED
          BY <3>1, <4>1, <4>2, <4>4, <5>1
      <4>5. Increasing(given'[s])
        BY <4>4 DEF Increasing
      <4> QED
        BY <3>4, <3>5, <4>2, <4>5
    <3>6. CASE s \notin W
      <4>1. given'[s] = given[s]
        BY <1>5, <3>2, <3>6
      <4> QED
        BY <3>1, <3>4, <4>1 DEF Increasing
    <3> QED
      BY <3>5, <3>6
  <2>2. astray \subseteq astray'
    OBVIOUS
  <2> QED
    BY <1>2, <1>6, <2>1, <2>2 DEF GivenInOrder, Reaches, Open
<1>14. NoneLost'
  <2>1. ASSUME NEW s \in authed, Open(s), NEW e \in (since[s] + 1)..pushed
        PROVE  \/ \E k \in 1..Len(given'[s]) : given'[s][k] = e
               \/ e \in astray'
               \/ \E l \in 1..Len(tasks') : tasks'[l].event = e /\ Reaches(tasks'[l], s)
    <3>1. Settled(s, e) /\ s \in Sockets
      BY <1>3, <2>1 DEF RpcInv, NoneLost
    <3>2. CASE \E k \in 1..Len(given[s]) : given[s][k] = e
      <4>1. PICK k \in 1..Len(given[s]) : given[s][k] = e
        BY <3>2
      <4>2. k \in 1..Len(given'[s]) /\ given'[s][k] = e
        BY <1>5, <3>1, <4>1
      <4> QED
        BY <4>2
    <3>3. CASE e \in astray
      BY <3>3
    <3>4. ASSUME NEW m \in 1..Len(tasks), tasks[m].event = e, Reaches(tasks[m], s), m # i
          PROVE  \E l \in 1..Len(tasks') : tasks'[l].event = e /\ Reaches(tasks'[l], s)
      <4>1. PICK l \in 1..Len(tasks') : tasks'[l] = tasks[m]
        BY <3>4
      <4> QED
        BY <3>4, <4>1
    <3>5. CASE t.event = e /\ Reaches(t, s)
      <4>1. CASE s \in W
        <5>1. Len(given[s]) + 1 \in 1..Len(given'[s])
          BY <1>5, <3>1, <4>1
        <5> QED
          BY <1>5, <3>1, <3>5, <4>1, <5>1
      <4>2. ASSUME NEW u \in U, Reaches(u, s)
            PROVE  \E l \in 1..Len(tasks') : tasks'[l].event = e /\ Reaches(tasks'[l], s)
        <5>1. PICK l \in 1..Len(tasks') : tasks'[l] = u
          BY <4>2
        <5> QED
          BY <3>5, <4>2, <5>1
      <4> QED
        BY <2>1, <3>5, <4>1, <4>2
    <3> QED
      BY <3>1, <3>2, <3>3, <3>4, <3>5 DEF Settled
  <2>2. ASSUME NEW s \in authed', Open(s)', NEW e \in (since'[s] + 1)..pushed'
        PROVE  Settled(s, e)'
    <3>1. s \in authed /\ Open(s) /\ since' = since /\ pushed' = pushed
      BY <1>2, <1>6, <2>2
    <3>2. e \in (since[s] + 1)..pushed
      BY <2>2, <3>1
    <3>3. \/ \E k \in 1..Len(given'[s]) : given'[s][k] = e
          \/ e \in astray'
          \/ \E l \in 1..Len(tasks') : tasks'[l].event = e /\ Reaches(tasks'[l], s)
      BY <2>1, <3>1, <3>2
    <3>4. \A x : Reaches(x, s) => (x.on = s \/ x.pos < slot'[s])
      BY <1>2 DEF Reaches
    <3> HIDE <1>0
    <3> QED
      BY <3>3, <3>4 DEF Settled, Reaches
  <2> QED
    BY <2>2 DEF NoneLost
<1> QED
  BY <1>7, <1>8, <1>9, <1>10, <1>11, <1>12, <1>13, <1>14 DEF RpcInv, RpcTypes

(* When it is the turn of task i, those before it wait behind its place,   *)
(* unless they or it are astray.                                           *)
LEMMA OthersWait ==
  ASSUME RpcInv, NEW i \in 1..Len(tasks), Turn(i), NEW j \in 1..Len(tasks), j < i
  PROVE  LET r == tasks[j].on IN
           /\ r \in authed /\ r \in clients /\ Full(r)
           /\ tasks[j].event \notin astray => tasks[j].pos = slot[r]
           /\ (tasks[i].event \notin astray /\ tasks[j].event \notin astray) =>
                tasks[i].pos < slot[r]
<1>1. PICK r : r = tasks[j].on
  OBVIOUS
<1>2. j \in 1..(i - 1)
  <2>1. tasks \in Seq(Tasks)
    BY DEF RpcInv, RpcTypes, CastTypes
  <2>2. Len(tasks) \in Nat
    BY <2>1
  <2> QED
    BY <2>2
<1>3. r # 0 /\ Full(r) /\ ~Waits(tasks[i])
  <2>1. Waits(tasks[j]) /\ ~Waits(tasks[i])
    BY <1>2 DEF Turn
  <2> QED
    BY <1>1, <2>1 DEF Waits
<1>4. /\ r \in authed /\ r \in Sockets
      /\ tasks[j].event \notin astray => tasks[j].pos = slot[r]
  BY <1>1, <1>3 DEF RpcInv, TaskPlaces, Full
<1>5. r \in clients
  <2>1. authed \subseteq {s \in Sockets : hand[s] \in Running}
    BY DEF RpcInv, RpcTypes, ServerTypes
  <2>2. Served(r) /\ Open(r)
    BY <1>3, <1>4, <2>1 DEF Served, Running, Full
  <2> QED
    BY <1>4, <2>2 DEF RpcInv, SocketsInv
<1>6. ASSUME tasks[i].event \notin astray, tasks[j].event \notin astray
      PROVE  tasks[i].pos < slot[r]
  <2>1. tasks[i].pos \in Nat /\ slot[r] \in Nat \ {0} /\ tasks[i].pos <= slot[r]
    <3>1. tasks \in Seq(Tasks) /\ CastTypes
      BY DEF RpcInv, RpcTypes, CastTypes
    <3>2. tasks[i] \in Tasks
      BY <3>1
    <3>3. tasks[i].pos <= tasks[j].pos
      BY <1>6 DEF RpcInv, TasksInOrder
    <3> QED
      BY <1>4, <1>6, <3>1, <3>2, <3>3, SlotFacts DEF Tasks
  <2>2. tasks[i].pos # slot[r]
    <3>1. SUFFICES ASSUME tasks[i].pos = slot[r] PROVE FALSE
      OBVIOUS
    <3>2. tasks[i].on # 0
      BY <2>1, <3>1 DEF RpcInv, TaskPlaces
    <3>3. tasks[i].on \in Sockets /\ slot[tasks[i].on] = slot[r]
      BY <1>6, <3>1, <3>2 DEF RpcInv, TaskPlaces
    <3>4. tasks[i].on = r
      BY <1>4, <3>3, SlotFacts DEF RpcInv, RpcTypes
    <3> QED
      BY <1>3, <3>2, <3>4 DEF Waits
  <2> QED
    BY <2>1, <2>2
<1> QED
  BY <1>1, <1>3, <1>4, <1>5, <1>6

\* How the turn of task i ends: it waits again, it has finished, or the set has
\* changed.
GoesOn(u, i, t, W) ==
  /\ WaitsAgain(u, i, t, W)
  /\ tasks' = [tasks EXCEPT ![i] = u]
  /\ UNCHANGED <<clients, authed, astray>>
  /\ \A s \in authed : (Open(s) /\ Reaches(t, s)) =>
       s \in W \/ t.event \in astray \/ Reaches(u, s)

Finishes(i, t, W, D) ==
  /\ tasks' = RemoveAt(tasks, i)
  /\ clients' = clients \ D /\ authed' = authed \ D
  /\ UNCHANGED astray
  /\ \A s \in authed : (Open(s) /\ Reaches(t, s)) => s \in W \/ t.event \in astray

Aborts(i, t) ==
  /\ tasks' = RemoveAt(tasks, i)
  /\ UNCHANGED <<clients, authed>>
  /\ astray' = astray \cup {t.event}

(* What the turn of a task does: what it writes it has to reach, what it   *)
(* finds dead is closed, and it waits again on the first full socket.      *)
LEMMA CastTurn ==
  ASSUME RpcInv, NEW i \in 1..Len(tasks), Cast(i), NEW t, t = tasks[i]
  PROVE  \E W \in SUBSET authed, D \in SUBSET Sockets :
           /\ Writes(i, t, W)
           /\ \A s \in D : Closed(s)
           /\ \/ \E u : GoesOn(u, i, t, W)
              \/ Finishes(i, t, W, D)
              \/ Aborts(i, t)
<1> DEFINE size    == IF t.size = -1 THEN Cardinality(clients) ELSE t.size
           changed == Cardinality(clients) # size
           left    == {s \in clients : slot[s] > t.pos /\ (plan.token => s \in authed)}
           stops   == {s \in left : Full(s)}
           at      == CHOOSE s \in stops : \A r \in stops : slot[s] <= slot[r]
           passed  == IF changed THEN {}
                      ELSE {s \in left : \A r \in stops : slot[s] < slot[r]}
           reached == passed \cup (IF t.on = 0 THEN {} ELSE {t.on})
           written == IF t.event \in astray THEN {} ELSE {s \in reached : Open(s)}
           dead    == t.dead \cup {s \in reached : ~Open(s)}
           u       == [t EXCEPT !.pos = slot[at], !.on = at, !.size = size, !.dead = dead]
<1>1. /\ Turn(i)
      /\ given' = [s \in Sockets |-> IF s \in written THEN Append(given[s], t.event) ELSE given[s]]
      /\ IF ~changed /\ stops # {}
         THEN tasks' = [tasks EXCEPT ![i] = u] /\ UNCHANGED <<clients, authed, astray>>
         ELSE /\ tasks' = RemoveAt(tasks, i)
              /\ IF changed
                 THEN astray' = astray \cup {t.event} /\ UNCHANGED <<clients, authed>>
                 ELSE clients' = clients \ dead /\ authed' = authed \ dead /\ UNCHANGED astray
  BY DEF Cast, Written
<1>2. /\ clients \subseteq {s \in Sockets : hand[s] \in Running}
      /\ authed \subseteq {s \in Sockets : hand[s] \in Running}
      /\ state \in [Sockets -> {"none", "open", "clean", "cut"}]
      /\ CastTypes /\ tasks \in Seq(Tasks)
  BY DEF RpcInv, RpcTypes, SocketTypes, ServerTypes, CastTypes
<1>3. /\ t \in Tasks
      /\ t.event \in Nat /\ t.pos \in Nat /\ t.on \in Nat /\ t.size \in Int
      /\ t.dead \subseteq Sockets /\ \A s \in t.dead : Closed(s)
  <2>1. t \in Tasks
    BY <1>2
  <2>2. \A s \in t.dead : Closed(s)
    BY DEF RpcInv, TaskPlaces
  <2> QED
    BY <2>1, <2>2 DEF Tasks
<1>4. \A s \in Sockets : s \in Nat \ {0} /\ slot[s] \in Nat \ {0}
  BY <1>2, SlotFacts
<1>5. t.on # 0 => /\ t.on \in Sockets
                  /\ t.event \notin astray => t.pos = slot[t.on]
                  /\ state[t.on] # "none"
                  /\ Open(t.on) => t.on \in authed
  BY DEF RpcInv, TaskPlaces
<1>6. left \subseteq clients /\ stops \subseteq left /\ passed \subseteq left
  OBVIOUS
<1>7. \A s \in left : /\ s \in Sockets /\ state[s] # "none" /\ t.pos < slot[s]
                      /\ Open(s) => s \in authed
  <2> TAKE s \in left
  <2>1. s \in Sockets /\ hand[s] # "none" /\ s \in clients
    BY <1>2 DEF Running
  <2>2. state[s] # "none"
    BY <2>1 DEF RpcInv, SocketsInv
  <2>3. ~plan.token => clients \subseteq authed
    BY DEF RpcInv, SocketsInv
  <2>4. s \in authed
    BY <2>1, <2>3
  <2>5. t.pos < slot[s]
    BY <1>3, <1>4, <2>1
  <2> QED
    BY <2>1, <2>2, <2>4, <2>5
<1>8. \A s \in reached : /\ s \in Sockets /\ state[s] # "none" /\ Reaches(t, s)
                         /\ Open(s) => s \in authed
                         /\ s \in passed \/ s = t.on
  BY <1>5, <1>6, <1>7 DEF Reaches
<1>9. written \in SUBSET authed
  BY <1>8
<1>10. dead \in SUBSET Sockets /\ \A s \in dead : Closed(s)
  <2>1. \A s \in reached : ~Open(s) => Closed(s)
    BY <1>2, <1>8 DEF Open, Closed
  <2> QED
    BY <1>3, <1>8, <2>1
<1>11. ASSUME NEW j \in 1..Len(tasks), j < i
       PROVE  /\ tasks[j].on \in clients /\ tasks[j].on \in authed /\ Full(tasks[j].on)
              /\ tasks[j].event \notin astray => tasks[j].pos = slot[tasks[j].on]
              /\ slot[tasks[j].on] \in Nat
              /\ (t.event \notin astray /\ tasks[j].event \notin astray) =>
                   t.pos < slot[tasks[j].on] /\ tasks[j].on \in stops
  <2>1. /\ tasks[j].on \in clients /\ tasks[j].on \in authed /\ Full(tasks[j].on)
        /\ tasks[j].event \notin astray => tasks[j].pos = slot[tasks[j].on]
        /\ (t.event \notin astray /\ tasks[j].event \notin astray) =>
             t.pos < slot[tasks[j].on]
    BY <1>1, <1>11, OthersWait
  <2>2. slot[tasks[j].on] \in Nat
    BY <1>2, <1>4, <2>1
  <2>3. t.pos < slot[tasks[j].on] => slot[tasks[j].on] > t.pos
    BY <1>3, <2>2
  <2> QED
    BY <2>1, <2>2, <2>3
<1>16. \A s \in written : s \in reached /\ Open(s) /\ t.event \notin astray
  OBVIOUS
<1>12. ASSUME NEW s \in written, NEW j \in 1..Len(tasks), j < i, tasks[j].event \notin astray
       PROVE  ~Reaches(tasks[j], s)
  <2>1. slot[s] < slot[tasks[j].on]
    <3>1. CASE s \in passed
      BY <1>11, <1>12, <1>16, <3>1
    <3>2. CASE s = t.on
      <4>1. t.on # 0
        BY <1>4, <1>8, <1>12, <1>16, <3>2
      <4> QED
        BY <1>5, <1>11, <1>12, <1>16, <3>2, <4>1
    <3> QED
      BY <1>8, <1>12, <1>16, <3>1, <3>2
  <2>2. slot[s] \in Nat /\ slot[tasks[j].on] \in Nat
    BY <1>4, <1>8, <1>11, <1>12, <1>16
  <2>3. tasks[j].on # s /\ ~(tasks[j].pos < slot[s])
    BY <1>11, <1>12, <2>1, <2>2
  <2> QED
    BY <2>3 DEF Reaches
<1>13. CASE ~changed /\ stops # {}
  <2>1. at \in stops /\ \A r \in stops : slot[at] <= slot[r]
    <3>1. stops \in SUBSET Sockets
      BY <1>6, <1>7
    <3> HIDE DEF stops
    <3> QED
      BY <1>2, <1>13, <3>1, FirstPlace
  <2>2. at \in Sockets /\ at # 0 /\ at \in authed /\ Open(at) /\ t.pos < slot[at] /\ slot[at] \in Nat
    BY <1>4, <1>7, <2>1 DEF Full
  <2>3. size \in Int
    <3>1. Cardinality(clients) \in Nat
      <4>1. clients \in SUBSET Sockets
        BY <1>2
      <4> QED
        BY <4>1, Counted
    <3> QED
      BY <1>3, <3>1
  <2> HIDE DEF at, size, dead
  <2>4. /\ u \in Tasks /\ u.event = t.event /\ u.pos = slot[at] /\ u.on = at /\ u.dead = dead
    <3>1. at \in Nat
      BY <1>4, <2>2
    <3> QED
      BY <1>3, <1>10, <2>2, <2>3, <3>1 DEF Tasks
  <2> HIDE DEF u
  <2>5. \A j \in 1..Len(tasks) :
          (j < i /\ t.event \notin astray /\ tasks[j].event \notin astray) => u.pos <= tasks[j].pos
    BY <1>11, <2>1, <2>4
  <2>6. ASSUME NEW s \in written PROVE ~Reaches(u, s)
    <3>1. slot[s] < slot[at]
      <4>1. CASE s \in passed
        BY <1>13, <2>1, <4>1
      <4>2. CASE s = t.on
        <5>1. t.on # 0
          BY <1>4, <1>8, <1>16, <2>6, <4>2
        <5> QED
          BY <1>5, <1>16, <2>2, <2>6, <4>2, <5>1
      <4> QED
        BY <1>8, <1>16, <2>6, <4>1, <4>2
    <3>2. slot[s] \in Nat
      BY <1>4, <1>8, <1>16, <2>6
    <3>3. at # s /\ ~(slot[at] < slot[s])
      BY <2>2, <3>1, <3>2
    <3> QED
      BY <2>4, <3>3 DEF Reaches
  <2>7. ASSUME NEW s \in authed, Open(s), Reaches(t, s)
        PROVE  s \in written \/ t.event \in astray \/ Reaches(u, s)
    <3>1. CASE s = t.on
      <4>1. s # 0
        BY <1>2, <1>4
      <4> QED
        BY <2>7, <3>1, <4>1
    <3>2. CASE t.pos < slot[s]
      <4>1. s \in clients /\ slot[s] \in Nat /\ s \in Sockets
        <5>1. Served(s) /\ s \in Sockets
          BY <1>2 DEF Served, Running
        <5> QED
          BY <1>4, <2>7, <5>1 DEF RpcInv, SocketsInv
      <4>2. s \in left
        BY <1>3, <2>7, <3>2, <4>1
      <4>3. CASE slot[s] < slot[at]
        <5>1. \A r \in stops : slot[r] \in Nat
          BY <1>4, <1>7
        <5>2. \A r \in stops : slot[s] < slot[r]
          BY <2>1, <2>2, <4>1, <4>3, <5>1
        <5>3. s \in passed
          BY <1>13, <4>2, <5>2
        <5> QED
          BY <2>7, <5>3
      <4>4. CASE slot[s] = slot[at]
        <5>1. s = at
          BY <1>2, <2>2, <4>1, <4>4, SlotFacts
        <5> QED
          BY <2>4, <5>1 DEF Reaches
      <4>5. CASE slot[at] < slot[s]
        BY <2>4, <4>5 DEF Reaches
      <4> QED
        BY <2>2, <4>1, <4>3, <4>4, <4>5
    <3> QED
      BY <2>7, <3>1, <3>2 DEF Reaches
  <2>8. tasks' = [tasks EXCEPT ![i] = u] /\ UNCHANGED <<clients, authed, astray>>
    BY <1>1, <1>13
  <2>9. Writes(i, t, written)
    BY <1>1, <1>8, <1>12, <1>16 DEF Writes
  <2> HIDE DEF written
  <2> QED
    <3>1. WaitsAgain(u, i, t, written)
      BY <1>10, <2>2, <2>4, <2>5, <2>6 DEF WaitsAgain
    <3>2. GoesOn(u, i, t, written)
      BY <2>7, <2>8, <3>1 DEF GoesOn
    <3> QED
      BY <1>9, <1>10, <2>9, <3>2
<1>14. CASE ~changed /\ stops = {}
  <2>1. /\ tasks' = RemoveAt(tasks, i) /\ clients' = clients \ dead /\ authed' = authed \ dead
        /\ astray' = astray
    BY <1>1, <1>14
  <2>2. ASSUME NEW s \in authed, Open(s), Reaches(t, s) PROVE s \in written \/ t.event \in astray
    <3>1. CASE s = t.on
      <4>1. s # 0
        BY <1>2, <1>4
      <4> QED
        BY <2>2, <3>1, <4>1
    <3>2. CASE t.pos < slot[s]
      <4>1. s \in clients /\ slot[s] \in Nat
        <5>1. Served(s) /\ s \in Sockets
          BY <1>2 DEF Served, Running
        <5> QED
          BY <1>4, <2>2, <5>1 DEF RpcInv, SocketsInv
      <4>2. s \in left
        BY <1>3, <2>2, <3>2, <4>1
      <4> QED
        BY <1>14, <2>2, <4>2
    <3> QED
      BY <2>2, <3>1, <3>2 DEF Reaches
  <2>9. Writes(i, t, written)
    BY <1>1, <1>8, <1>12, <1>16 DEF Writes
  <2> HIDE DEF written, dead
  <2> QED
    <3>1. Finishes(i, t, written, dead)
      BY <2>1, <2>2 DEF Finishes
    <3> QED
      BY <1>9, <1>10, <2>9, <3>1
<1>15. CASE changed
  <2>1. /\ tasks' = RemoveAt(tasks, i) /\ UNCHANGED <<clients, authed>>
        /\ astray' = astray \cup {t.event}
    BY <1>1, <1>15
  <2>9. Writes(i, t, written)
    BY <1>1, <1>8, <1>12, <1>16 DEF Writes
  <2> HIDE DEF written, dead
  <2> QED
    <3>1. Aborts(i, t)
      BY <2>1 DEF Aborts
    <3> QED
      BY <1>9, <1>10, <2>9, <3>1
<1> QED
  BY <1>13, <1>14, <1>15

\* One element is gone and the others stand in their order.
WithoutOne(r, q, i) ==
  /\ \A k \in 1..Len(r) : \E m \in 1..Len(q) : m # i /\ r[k] = q[m]
  /\ \A k, l \in 1..Len(r) : k < l =>
       \E m, n \in 1..Len(q) : m < n /\ m # i /\ n # i /\ r[k] = q[m] /\ r[l] = q[n]
  /\ \A m \in 1..Len(q) : m # i => \E k \in 1..Len(r) : r[k] = q[m]

(* What is left of a sequence without its element i.                       *)
LEMMA RemovedTask ==
  ASSUME NEW S, NEW q \in Seq(S), NEW i \in 1..Len(q), NEW r, r = RemoveAt(q, i)
  PROVE  r \in Seq(S) /\ WithoutOne(r, q, i)
<1>1. /\ r \in Seq(S) /\ Len(q) \in Nat /\ Len(r) = Len(q) - 1
      /\ \A k \in 1..Len(r) : r[k] = IF k < i THEN q[k] ELSE q[k + 1]
  BY Removed
<1>2. i \in Nat /\ 1 <= i /\ i <= Len(q)
  BY <1>1
<1>3. PICK from : from = [k \in 1..Len(r) |-> IF k < i THEN k ELSE k + 1]
  OBVIOUS
<1>4. \A k \in 1..Len(r) : /\ from[k] \in 1..Len(q) /\ from[k] # i /\ r[k] = q[from[k]]
  BY <1>1, <1>2, <1>3
<1>5. \A k, l \in 1..Len(r) : k < l => from[k] < from[l]
  BY <1>1, <1>2, <1>3
<1>6. ASSUME NEW m \in 1..Len(q), m # i PROVE \E k \in 1..Len(r) : r[k] = q[m]
  <2>1. CASE m < i
    <3>1. m \in 1..Len(r)
      BY <1>1, <1>2, <2>1
    <3> QED
      BY <1>1, <2>1, <3>1
  <2>2. CASE i < m
    <3>1. m - 1 \in 1..Len(r) /\ ~(m - 1 < i) /\ (m - 1) + 1 = m
      BY <1>1, <1>2, <2>2
    <3> QED
      BY <1>1, <3>1
  <2> QED
    BY <1>2, <1>6, <2>1, <2>2
<1>7. \A k \in 1..Len(r) : \E m \in 1..Len(q) : m # i /\ r[k] = q[m]
  BY <1>4
<1>8. ASSUME NEW k \in 1..Len(r), NEW l \in 1..Len(r), k < l
      PROVE  \E m, n \in 1..Len(q) : m < n /\ m # i /\ n # i /\ r[k] = q[m] /\ r[l] = q[n]
  BY <1>4, <1>5, <1>8
<1> QED
  BY <1>1, <1>6, <1>7, <1>8 DEF WithoutOne

(* A task takes its turn.                                                  *)
LEMMA CastStep ==
  ASSUME RpcInv, NEW i \in 1..Len(tasks), Cast(i)
  PROVE  RpcInv'
<1>1. PICK t : t = tasks[i]
  OBVIOUS
<1>2. PICK W \in SUBSET authed, D \in SUBSET Sockets :
        /\ Writes(i, t, W)
        /\ \A s \in D : Closed(s)
        /\ \/ \E u : GoesOn(u, i, t, W)
           \/ Finishes(i, t, W, D)
           \/ Aborts(i, t)
  BY <1>1, CastTurn
<1>3. UNCHANGED <<runVars, sockVars, svc, hand, since, pushed, cliVars, faults>>
  BY DEF Cast
<1>4. tasks \in Seq(Tasks)
  BY DEF RpcInv, RpcTypes, CastTypes
<1>5. ASSUME tasks' = RemoveAt(tasks, i) PROVE Rearranged(i, {})
  <2>1. tasks' \in Seq(Tasks) /\ WithoutOne(tasks', tasks, i)
    BY <1>4, <1>5, RemovedTask
  <2>2. \A x, m : (m # i /\ x = tasks[m]) => Stems(x, m, i, {})
    BY DEF Stems
  <2>3. \A k \in 1..Len(tasks') : \E m \in 1..Len(tasks) : Stems(tasks'[k], m, i, {})
    BY <2>1, <2>2 DEF WithoutOne
  <2>4. ASSUME NEW k \in 1..Len(tasks'), NEW l \in 1..Len(tasks'), k < l
        PROVE  \E m, n \in 1..Len(tasks) :
                 m < n /\ Stems(tasks'[k], m, i, {}) /\ Stems(tasks'[l], n, i, {})
    <3>1. PICK m \in 1..Len(tasks), n \in 1..Len(tasks) :
            m < n /\ m # i /\ n # i /\ tasks'[k] = tasks[m] /\ tasks'[l] = tasks[n]
      BY <2>1, <2>4 DEF WithoutOne
    <3> QED
      BY <2>2, <3>1
  <2>5. \A m \in 1..Len(tasks) : m # i => \E k \in 1..Len(tasks') : tasks'[k] = tasks[m]
    BY <2>1 DEF WithoutOne
  <2> QED
    BY <2>1, <2>3, <2>4, <2>5 DEF Rearranged
<1>6. PICK N : N = {}
  OBVIOUS
<1>7. CASE Finishes(i, t, W, D)
  <2>1. /\ Rearranged(i, N)
        /\ clients' = clients \ D /\ authed' = authed \ D
        /\ astray' = astray \/ astray' = astray \cup {t.event}
        /\ \A s \in authed : (Open(s) /\ Reaches(t, s)) =>
             s \in W \/ t.event \in astray' \/ \E u \in N : Reaches(u, s)
        /\ \A u \in N : WaitsAgain(u, i, t, W)
    BY <1>5, <1>6, <1>7 DEF Finishes
  <2> QED
    BY <1>1, <1>2, <1>3, <2>1, TurnKeeps
<1>8. CASE Aborts(i, t)
  <2>1. /\ Rearranged(i, N)
        /\ clients' = clients \ N /\ authed' = authed \ N
        /\ astray' = astray \/ astray' = astray \cup {t.event}
        /\ \A s \in N : Closed(s)
        /\ \A s \in authed : (Open(s) /\ Reaches(t, s)) =>
             s \in W \/ t.event \in astray' \/ \E u \in N : Reaches(u, s)
        /\ \A u \in N : WaitsAgain(u, i, t, W)
    BY <1>5, <1>6, <1>8 DEF Aborts
  <2> QED
    BY <1>1, <1>2, <1>3, <2>1, TurnKeeps
<1>9. ASSUME NEW u, GoesOn(u, i, t, W) PROVE RpcInv'
  <2>1. /\ WaitsAgain(u, i, t, W) /\ u \in Tasks
        /\ tasks' = [tasks EXCEPT ![i] = u]
        /\ UNCHANGED <<clients, authed, astray>>
        /\ \A s \in authed : (Open(s) /\ Reaches(t, s)) =>
             s \in W \/ t.event \in astray \/ Reaches(u, s)
    BY <1>9 DEF GoesOn, WaitsAgain
  <2>2. /\ tasks' \in Seq(Tasks) /\ Len(tasks') = Len(tasks) /\ tasks'[i] = u
        /\ \A k \in 1..Len(tasks) : k # i => tasks'[k] = tasks[k]
    BY <1>4, <2>1, Replaced
  <2>3. PICK U : U = {u}
    OBVIOUS
  <2>4. \A k \in 1..Len(tasks') : Stems(tasks'[k], k, i, U)
    BY <2>2, <2>3 DEF Stems
  <2>5. Rearranged(i, U)
    BY <2>2, <2>3, <2>4 DEF Rearranged
  <2>6. /\ clients' = clients \ N /\ authed' = authed \ N
        /\ astray' = astray \/ astray' = astray \cup {t.event}
        /\ \A s \in N : Closed(s)
        /\ \A s \in authed : (Open(s) /\ Reaches(t, s)) =>
             s \in W \/ t.event \in astray' \/ \E x \in U : Reaches(x, s)
        /\ \A x \in U : WaitsAgain(x, i, t, W)
    BY <1>6, <2>1, <2>3
  <2> QED
    BY <1>1, <1>2, <1>3, <2>5, <2>6, TurnKeeps
<1> QED
  BY <1>2, <1>7, <1>8, <1>9

-----------------------------------------------------------------------------
(* The theorems.                                                           *)

(* At the start nobody is connected and nothing was pushed.                *)
LEMMA RpcStarts ==
  ASSUME Init
  PROVE  RpcInv
<1>1. Visitors \in Nat /\ MaxSockets \in Nat /\ Visitors < MaxSockets
  BY SocketsAssumption
<1>2. plan \in Plans /\ slot \in Orders /\ plan.events \in Nat /\ plan.faults \in Nat
  BY PlansAssumption DEF Init
<1>3. SocketTypes
  <2>1. inbox \in [Sockets -> Seq(Requests)]
    <3>1. <<>> \in Seq(Requests)
      OBVIOUS
    <3> QED
      BY <3>1 DEF Init
  <2> QED
    BY <2>1 DEF Init, SocketTypes
<1>4. ServerTypes
  BY DEF Init, ServerTypes
<1>5. tasks = <<>> /\ tasks \in Seq(Tasks) /\ \A i \in 1..Len(tasks) : FALSE
  BY DEF Init
<1>6. \A s \in Sockets : given[s] = <<>> /\ \A k \in 1..Len(given[s]) : FALSE
  <2> TAKE s \in Sockets
  <2>1. given[s] = <<>>
    BY DEF Init
  <2> QED
    BY <2>1
<1>7. CastTypes
  <2>1. given \in [Sockets -> Seq(Nat)]
    <3>1. <<>> \in Seq(Nat)
      OBVIOUS
    <3> QED
      BY <3>1 DEF Init
  <2>2. since \in [Sockets -> 0..pushed] /\ pushed \in 0..plan.events /\ astray \subseteq 1..pushed
    <3>1. pushed = 0 /\ 0 \in 0..0
      BY DEF Init
    <3> QED
      BY <1>2, <3>1 DEF Init
  <2> QED
    BY <1>2, <1>5, <1>6, <2>1, <2>2 DEF CastTypes
<1>8. ClientTypes
  <2>1. ws \in 0..made /\ made \in Visitors..MaxSockets
    BY <1>1 DEF Init
  <2>2. faults \in 0..plan.faults
    BY <1>2 DEF Init
  <2>3. calls \in [Calls -> {"none", "asked", "sent", "done", "failed", "expired"}]
    BY DEF Init
  <2> QED
    BY <2>1, <2>2, <2>3 DEF Init, ClientTypes
<1>9. SocketsInv
  BY <1>6 DEF Init, SocketsInv, Open
<1>10. TaskPlaces /\ TasksInOrder
  BY <1>5 DEF TaskPlaces, TasksInOrder
<1>11. GivenInOrder /\ NoneLost
  BY DEF Init, GivenInOrder, NoneLost
<1> QED
  BY <1>3, <1>4, <1>7, <1>8, <1>9, <1>10, <1>11 DEF RpcInv, RpcTypes

(* Whatever the interface does, the broadcasts keep their places and their *)
(* order, except those that are astray because the set of clients was laid *)
(* out anew under them; what a client that is let in is owed is given, has *)
(* still to be reached by a broadcast under way, or went astray.           *)
THEOREM RpcSafety == Spec => []RpcInv
<1>1. Init => RpcInv
  BY RpcStarts
<1>2. RpcInv /\ [Next]_vars => RpcInv'
  <2> SUFFICES ASSUME RpcInv, [Next]_vars PROVE RpcInv'
    OBVIOUS
  <2>1. CASE ClientStep
    BY <2>1, ClientSteps, DialSendQuit DEF ClientStep
  <2>2. CASE ServerStep
    <3>1. ASSUME NEW i \in 1..Len(tasks), Cast(i) PROVE RpcInv'
      BY <3>1, CastStep
    <3>2. CASE Close
      BY <3>2, ServiceSteps
    <3>3. CASE HandlersOver
      BY <3>3, ServiceSteps
    <3> QED
      BY <2>2, <3>1, <3>2, <3>3, HandlerSteps DEF ServerStep
  <2>3. CASE \E k \in Calls : Ask(k) \/ Expire(k)
    BY <2>3, ClientSteps
  <2>4. ASSUME NEW s \in Sockets,
               \/ Visit(s)
               \/ \E how \in {"auth", "bad auth"} : Apply(s, how)
               \/ Leave(s) \/ Cut(s) \/ FillUp(s) \/ Relieve(s)
        PROVE  RpcInv'
    BY <2>4, NetworkSteps
  <2>5. CASE Push
    BY <2>5, PushStep
  <2>6. CASE Quit
    BY <2>6, DialSendQuit
  <2>7. CASE Signal \/ Start
    BY <2>7, ServiceSteps
  <2>8. CASE Crash \/ Exit
    BY <2>8, DownSteps
  <2>10. ASSUME NEW s \in Sockets, Execute(s) PROVE RpcInv'
    BY <2>10, HandlerSteps
  <2>9. CASE UNCHANGED vars
    <3>1. UNCHANGED <<runVars, sockVars, srvVars, castVars, made, plan, pc, ws, connected, quit,
                      calls, pending, faults>>
      BY <2>9 DEF vars, runVars, sockVars, srvVars, castVars, cliVars
    <3>2. ClientTypes'
      BY <3>1 DEF RpcInv, RpcTypes, ClientTypes
    <3> QED
      BY <3>1, <3>2, ClientKeeps
  <2> QED
    BY <2>1, <2>2, <2>3, <2>4, <2>5, <2>6, <2>7, <2>8, <2>9, <2>10 DEF Next
<1> QED
  BY <1>1, <1>2, PTL DEF Spec

(* Every variable of the interface keeps its type.                         *)
THEOREM RpcTypeCorrect == Spec => []TypeOK
<1>1. RpcInv => TypeOK
  <2> SUFFICES ASSUME RpcInv PROVE TypeOK
    OBVIOUS
  <2>1. SocketTypes /\ ServerTypes /\ ClientTypes
    BY DEF RpcInv, RpcTypes
  <2>2. /\ tasks \in Seq(Tasks) /\ pushed \in 0..plan.events /\ astray \subseteq 1..pushed
        /\ given \in [Sockets -> Seq(Nat)]
        /\ \A s \in Sockets : \A k \in 1..Len(given[s]) : given[s][k] \in 1..pushed
        /\ since \in [Sockets -> 0..pushed]
    BY DEF RpcInv, RpcTypes, CastTypes
  <2>3. \A i \in 1..Len(tasks) : tasks[i] \in Tasks
    BY <2>2
  <2>4. given \in [Sockets -> Seq(1..pushed)]
    <3>1. ASSUME NEW s \in Sockets PROVE given[s] \in Seq(1..pushed)
      <4>1. given[s] \in Seq(Nat) /\ \A k \in 1..Len(given[s]) : given[s][k] \in 1..pushed
        BY <2>2
      <4> QED
        BY <4>1, Narrowed
    <3> QED
      BY <2>2, <3>1
  <2>5. \A s \in Sockets : inbox[s] \in Seq(Requests)
    BY <2>1 DEF SocketTypes
  <2> QED
    BY <2>1, <2>2, <2>3, <2>4, <2>5 DEF TypeOK, SocketTypes, ServerTypes, ClientTypes
<1> QED
  BY <1>1, RpcSafety, PTL

(* A client that is let in gets the events in the order they were pushed,  *)
(* none twice, and each one that was pushed since, unless its broadcast is *)
(* still under way, or ended with an exception, or the set of clients was  *)
(* laid out anew under it, however clients come and leave and whichever of *)
(* them do not read.                                                       *)
THEOREM EveryEventReachesClients == Spec => []EventsReachClients
<1>1. RpcInv => EventsReachClients
  <2> SUFFICES ASSUME RpcInv, NEW s \in authed, Open(s)
               PROVE  /\ Increasing(given[s])
                      /\ \A e \in (since[s] + 1)..pushed :
                           \/ e \in ToSet(given[s])
                           \/ e \in astray
                           \/ \E i \in 1..Len(tasks) : tasks[i].event = e
    BY DEF EventsReachClients
  <2>1. Increasing(given[s])
    BY DEF RpcInv, GivenInOrder
  <2>2. ASSUME NEW e \in (since[s] + 1)..pushed
        PROVE  \/ e \in ToSet(given[s])
               \/ e \in astray
               \/ \E i \in 1..Len(tasks) : tasks[i].event = e
    <3>1. Settled(s, e)
      BY DEF RpcInv, NoneLost
    <3>2. (\E k \in 1..Len(given[s]) : given[s][k] = e) => e \in ToSet(given[s])
      <4>1. s \in Sockets /\ given \in [Sockets -> Seq(Nat)]
        BY DEF RpcInv, RpcTypes, ServerTypes, CastTypes
      <4>2. given[s] \in Seq(Nat)
        BY <4>1
      <4>3. 1..Len(given[s]) = DOMAIN given[s]
        BY <4>2
      <4> QED
        BY <4>3 DEF ToSet
    <3> QED
      BY <3>1, <3>2 DEF Settled
  <2> QED
    BY <2>1, <2>2
<1> QED
  BY <1>1, RpcSafety, PTL

====
