---------------------------- MODULE IncomingProofs ----------------------------
(***************************************************************************)
(* Proofs about Incoming for any streams, servers, stanzas and faults: the *)
(* requests in the queue of the database, what the tables hold by the time *)
(* they are executed, and the order of the messages of servers and of      *)
(* streams in the history and in the user interfaces.                      *)
(***************************************************************************)
EXTENDS Incoming, TLAPS, WellFoundedInduction

(* A set of natural numbers has a least element.                           *)
LEMMA LeastOfNat ==
  ASSUME NEW T \in SUBSET Nat, T # {}
  PROVE  \E x \in T : \A y \in T : x <= y
<1>1. PICK x \in T : \A y \in T : <<y, x>> \notin OpToRel(<, Nat)
  BY NatLessThanWellFounded, WFMin
<1>2. \A y \in T : ~(y < x)
  BY <1>1 DEF OpToRel
<1> QED
  BY <1>2

(* A stanza is a source with a number.                                     *)
LEMMA StanzaFacts ==
  /\ \A m \in Stanzas : /\ m[1] \in Sources /\ m[2] \in 1..Len(Sent[m[1]])
                        /\ m = <<m[1], m[2]>>
  /\ \A s \in Sources : Len(Sent[s]) \in Nat
  /\ \A s \in Sources : \A n \in 1..Len(Sent[s]) : <<s, n>> \in Stanzas
  /\ \A m \in Stanzas : Kind(m) \in Kinds /\ Chat(m) \in Chats
<1>1. \A s \in Sources : Len(Sent[s]) \in Nat /\ Sent[s] \in Seq(Kinds)
  BY SentAssumption
<1>2. \A m \in Stanzas : /\ m[1] \in Sources /\ m[2] \in 1..Len(Sent[m[1]])
                         /\ m = <<m[1], m[2]>>
  BY DEF Stanzas
<1>3. \A s \in Sources : \A n \in 1..Len(Sent[s]) : <<s, n>> \in Stanzas
  BY DEF Stanzas
<1>4. \A m \in Stanzas : Kind(m) \in Kinds
  BY <1>1, <1>2 DEF Kind
<1>5. \A m \in Stanzas : Chat(m) \in Chats
  BY <1>2 DEF Chat, Chats
<1> QED
  BY <1>1, <1>2, <1>3, <1>4, <1>5

-----------------------------------------------------------------------------
(* The invariant.                                                          *)

Types ==
  /\ loop \in [Streams -> {"new", "read", "busy", "ended"}]
  /\ got \in [Streams -> Nat] /\ cut \in [Streams -> Nat] /\ header \in [Streams -> Nat]
  /\ \A s \in Streams : cut[s] <= got[s] /\ got[s] <= 2 * Len(Sent[s])
  /\ \A s \in Streams : loop[s] = "new" => cut[s] = 0
  /\ arrived \in [Servers -> Nat]
  /\ \A s \in Servers : arrived[s] <= Len(Sent[s])
  /\ job \in [Stanzas -> Awaits \cup {"none", "over"}]
  /\ queue \in Seq(Stanzas)
  /\ gone \subseteq Stanzas /\ direct \subseteq Stanzas /\ lost \subseteq Stanzas
  /\ sessions \subseteq Chats /\ chats \subseteq Chats /\ rows \subseteq Stanzas
  /\ kept \in [chats : SUBSET Chats, rows : SUBSET Stanzas]
  /\ born \in Seq(Stanzas) /\ shown \in Seq(Stanzas)
  /\ broken \in BOOLEAN /\ faults \in 0..MaxFaults

\* A handler has one request in the queue, or none.
OneRequestEach ==
  /\ \A i \in 1..Len(queue) : job[queue[i]] \in Awaits
  /\ \A i, j \in 1..Len(queue) : queue[i] = queue[j] => i = j

\* A stanza that is still to come has no handler yet.
ComingIsNew ==
  /\ \A s \in Streams : \A n \in 1..Len(Sent[s]) :
       cut[s] < 2 * n => job[<<s, n>>] = "none"
  /\ \A s \in Servers : \A n \in 1..Len(Sent[s]) :
       arrived[s] < n => job[<<s, n>>] = "none"

\* A handler knows what its statements have done to the tables.
HandlersKnow ==
  /\ kept.rows \subseteq rows /\ kept.chats \subseteq chats
  /\ \A m \in Stanzas : /\ job[m] = "commit" => m \in rows
                        /\ job[m] = "commit chat" => Chat(m) \in chats

\* A chat in memory is in the table, or its row comes before everything that
\* rests on it.
ChatsComeFirst ==
  ~broken =>
    /\ \A c \in sessions :
         c \in chats \/ \E j \in 1..Len(queue) :
                          job[queue[j]] = "save chat" /\ Chat(queue[j]) = c
    /\ \A i \in 1..Len(queue) :
         job[queue[i]] = "save" =>
           \/ Chat(queue[i]) \in chats
           \/ \E j \in 1..(i - 1) :
                job[queue[j]] = "save chat" /\ Chat(queue[j]) = Chat(queue[i])

QueueInv ==
  /\ Types /\ OneRequestEach /\ ComingIsNew /\ HandlersKnow
  /\ PushedIsKept /\ SavedHasChat /\ ChatsComeFirst

\* Only the read loops move.
tables == <<arrived, job, queue, sessions, chats, rows, kept, born, shown,
            direct, broken, lost>>

-----------------------------------------------------------------------------
(* Sequences.                                                              *)

(* What is appended comes last.                                            *)
LEMMA Appended ==
  ASSUME NEW S, NEW q \in Seq(S), NEW x \in S
  PROVE  /\ Append(q, x) \in Seq(S)
         /\ Len(Append(q, x)) = Len(q) + 1
         /\ \A i \in 1..Len(q) : Append(q, x)[i] = q[i]
         /\ Append(q, x)[Len(q) + 1] = x
OBVIOUS

(* The head is taken from the front.                                       *)
LEMMA Shifted ==
  ASSUME NEW S, NEW q \in Seq(S), q # <<>>
  PROVE  /\ Len(q) \in Nat \ {0} /\ Head(q) = q[1] /\ Head(q) \in S
         /\ Tail(q) \in Seq(S) /\ Len(Tail(q)) = Len(q) - 1
         /\ \A i \in 1..(Len(q) - 1) : Tail(q)[i] = q[i + 1]
OBVIOUS

(* The head is put at the end.                                             *)
LEMMA Rotated ==
  ASSUME NEW S, NEW q \in Seq(S), q # <<>>, NEW r, r = Append(Tail(q), q[1])
  PROVE  /\ r \in Seq(S) /\ Len(r) = Len(q) /\ r[Len(q)] = q[1]
         /\ \A i \in 1..(Len(q) - 1) : r[i] = q[i + 1]
<1>1. PICK t \in Seq(S) : t = Tail(q) /\ Len(t) = Len(q) - 1 /\ Len(q) \in Nat
  BY Shifted
<1>2. q[1] \in S
  BY Shifted
<1>3. r = Append(t, q[1])
  BY <1>1
<1>4. /\ r \in Seq(S) /\ Len(r) = Len(t) + 1 /\ r[Len(t) + 1] = q[1]
      /\ \A i \in 1..Len(t) : r[i] = t[i]
  BY <1>1, <1>2, <1>3, Appended
<1>5. \A i \in 1..(Len(q) - 1) : t[i] = q[i + 1]
  BY <1>1, Shifted
<1> QED
  BY <1>1, <1>4, <1>5

(* A place is the last one or lies before it.                              *)
LEMMA LastOrBefore ==
  ASSUME NEW l \in Nat \ {0}, NEW k \in {l, l - 1}, NEW n \in 1..k
  PROVE  /\ n \in 1..(l - 1) \/ (k = l /\ n = l)
         /\ l # l - 1
OBVIOUS

(* The parts of what is committed.                                         *)
LEMMA Committed ==
  \A a, b : [chats |-> a, rows |-> b].chats = a /\ [chats |-> a, rows |-> b].rows = b
OBVIOUS

(* Steps of the read loops that touch no table.                            *)
LEMMA LoopsKeep ==
  ASSUME QueueInv, UNCHANGED tables,
         loop' \in [Streams -> {"new", "read", "busy", "ended"}],
         got' \in [Streams -> Nat], cut' \in [Streams -> Nat],
         header' \in [Streams -> Nat],
         \A s \in Streams : /\ cut'[s] <= got'[s] /\ got'[s] <= 2 * Len(Sent[s])
                            /\ cut[s] <= cut'[s],
         \A s \in Streams : loop'[s] = "new" => cut'[s] = 0,
         gone' \subseteq Stanzas, faults' \in 0..MaxFaults
  PROVE  QueueInv'
<1> USE DEF QueueInv, tables
<1>1. Types'
  BY DEF Types
<1>2. OneRequestEach' /\ HandlersKnow' /\ PushedIsKept' /\ SavedHasChat' /\ ChatsComeFirst'
  BY DEF OneRequestEach, HandlersKnow, PushedIsKept, SavedHasChat, ChatsComeFirst
<1>3. ComingIsNew'
  <2>1. ASSUME NEW s \in Streams, NEW n \in 1..Len(Sent[s]), cut'[s] < 2 * n
        PROVE  cut[s] < 2 * n
    BY <2>1 DEF Types
  <2> QED
    BY <2>1 DEF ComingIsNew
<1> QED
  BY <1>1, <1>2, <1>3

(* A new handler puts its request at the end of the queue.                 *)
LEMMA HandleKeeps ==
  ASSUME QueueInv, NEW m \in Stanzas, Handle(m), job[m] = "none",
         UNCHANGED <<chats, rows, kept, shown, broken, lost>>
  PROVE  /\ OneRequestEach' /\ HandlersKnow' /\ PushedIsKept' /\ SavedHasChat'
         /\ ChatsComeFirst'
         /\ job' \in [Stanzas -> Awaits \cup {"none", "over"}]
         /\ \A x \in Stanzas \ {m} : job'[x] = job[x]
         /\ queue' \in Seq(Stanzas) /\ sessions' \subseteq Chats
         /\ born' \in Seq(Stanzas) /\ direct' \subseteq Stanzas
<1> USE DEF QueueInv
<1>1. Len(queue) \in Nat /\ \A i \in 1..Len(queue) : queue[i] \in Stanzas /\ queue[i] # m
  <2>1. queue \in Seq(Stanzas)
    BY DEF Types
  <2>2. \A i \in 1..Len(queue) : job[queue[i]] # "none"
    BY DEF OneRequestEach, Awaits
  <2>3. Len(queue) \in Nat /\ \A i \in 1..Len(queue) : queue[i] \in Stanzas
    BY <2>1
  <2> QED
    BY <2>2, <2>3
<1>2. /\ queue' = Append(queue, m) /\ queue' \in Seq(Stanzas)
      /\ Len(queue') = Len(queue) + 1
      /\ \A i \in 1..Len(queue) : queue'[i] = queue[i]
      /\ queue'[Len(queue) + 1] = m
  <2>1. queue \in Seq(Stanzas)
    BY DEF Types
  <2>2. queue' = Append(queue, m)
    BY DEF Handle, Asked
  <2> QED
    BY <2>1, <2>2, Appended
<1>3. PICK j :
        /\ j \in {"save", "save chat", "save presence"}
        /\ job' = [job EXCEPT ![m] = j]
        /\ j = "save" => Chat(m) \in sessions
        /\ j = "save chat" => sessions' = sessions \cup {Chat(m)}
        /\ sessions' \in {sessions, sessions \cup {Chat(m)}}
        /\ j # "save chat" => sessions' = sessions
  BY DEF Handle, FirstAwait
<1>4. /\ job' \in [Stanzas -> Awaits \cup {"none", "over"}]
      /\ job'[m] = j /\ \A x \in Stanzas \ {m} : job'[x] = job[x]
  BY <1>3 DEF Types, Awaits
<1>5. OneRequestEach'
  <2>1. \A i \in 1..Len(queue') : job'[queue'[i]] \in Awaits
    <3>1. job'[m] \in Awaits
      BY <1>3, <1>4 DEF Awaits
    <3>2. \A i \in 1..Len(queue) : job'[queue[i]] \in Awaits
      BY <1>1, <1>4 DEF OneRequestEach
    <3> QED
      BY <1>1, <1>2, <3>1, <3>2
  <2>2. \A i, k \in 1..Len(queue') : queue'[i] = queue'[k] => i = k
    BY <1>1, <1>2 DEF OneRequestEach
  <2> QED
    BY <2>1, <2>2 DEF OneRequestEach
<1>6. HandlersKnow' /\ PushedIsKept' /\ SavedHasChat'
  BY <1>3, <1>4 DEF HandlersKnow, PushedIsKept, SavedHasChat
<1>7. ChatsComeFirst'
  <2> SUFFICES ASSUME ~broken PROVE ChatsComeFirst'
    BY DEF ChatsComeFirst
  <2> DEFINE Saves(k, c)    == job[queue[k]] = "save chat" /\ Chat(queue[k]) = c
             SavesNow(k, c) == job'[queue'[k]] = "save chat" /\ Chat(queue'[k]) = c
  <2>1. \A k \in 1..Len(queue) : /\ job'[queue'[k]] = job[queue[k]] /\ queue'[k] = queue[k]
                                 /\ \A c : Saves(k, c) <=> SavesNow(k, c)
    BY <1>1, <1>2, <1>4
  <2>2. j = "save chat" => SavesNow(Len(queue) + 1, Chat(m))
    BY <1>2, <1>4
  <2>3. /\ \A c \in sessions : c \in chats \/ \E k \in 1..Len(queue) : Saves(k, c)
        /\ \A i \in 1..Len(queue) : job[queue[i]] = "save" =>
             Chat(queue[i]) \in chats \/ \E k \in 1..(i - 1) : Saves(k, Chat(queue[i]))
    BY DEF ChatsComeFirst
  <2>4. \A c \in sessions' : c \in sessions \/ SavesNow(Len(queue) + 1, c)
    BY <1>3, <2>2
  <2>5. job'[queue'[Len(queue) + 1]] = "save" =>
          Chat(queue'[Len(queue) + 1]) \in sessions
    BY <1>2, <1>3, <1>4
  <2> HIDE DEF Saves, SavesNow
  <2>6. \A c \in sessions' : c \in chats \/ \E k \in 1..Len(queue') : SavesNow(k, c)
    BY <1>1, <1>2, <2>1, <2>3, <2>4
  <2>7. ASSUME NEW i \in 1..Len(queue'), job'[queue'[i]] = "save"
        PROVE  Chat(queue'[i]) \in chats \/ \E k \in 1..(i - 1) : SavesNow(k, Chat(queue'[i]))
    <3>1. CASE i = Len(queue) + 1
      <4>1. Chat(queue'[i]) \in sessions
        BY <2>5, <2>7, <3>1
      <4> QED
        BY <1>1, <2>1, <2>3, <3>1, <4>1
    <3>2. CASE i \in 1..Len(queue)
      <4>1. Chat(queue[i]) \in chats \/ \E k \in 1..(i - 1) : Saves(k, Chat(queue[i]))
        BY <2>1, <2>3, <2>7, <3>2
      <4>2. \A k \in 1..(i - 1) : k \in 1..Len(queue)
        BY <1>1, <3>2
      <4> QED
        BY <2>1, <3>2, <4>1, <4>2
    <3> QED
      BY <1>1, <1>2, <3>1, <3>2
  <2> QED
    BY <2>6, <2>7 DEF ChatsComeFirst, SavesNow
<1>8. /\ sessions' \subseteq Chats /\ direct' \subseteq Stanzas
      /\ born' \in Seq(Stanzas)
  <2>1. sessions' \subseteq Chats
    BY <1>3, StanzaFacts DEF Types
  <2>2. direct' \subseteq Stanzas
    BY DEF Handle, Types
  <2>3. born' \in Seq(Stanzas)
    <3>1. born \in Seq(Stanzas)
      BY DEF Types
    <3>2. born' = born \/ born' = Append(born, m)
      BY DEF Handle
    <3> QED
      BY <3>1, <3>2, Appended
  <2> QED
    BY <2>1, <2>2, <2>3
<1> QED
  BY <1>2, <1>4, <1>5, <1>6, <1>7, <1>8

(* The await that follows one, and what it says of the one before.         *)
LEMMA AfterFacts ==
  ASSUME NEW j, j \in Awaits
  PROVE  /\ After(j) = "over" \/ After(j) \in Awaits
         /\ After(j) = "save" => j = "commit chat"
         /\ After(j) = "commit" => j = "save"
         /\ After(j) = "commit chat" => j = "save chat"
BY DEF After, Awaits

(* What is left when the first request has gone: the others move up, and   *)
(* the handler of the first may have asked for another.                    *)
LEMMA MovedUp ==
  ASSUME Types, OneRequestEach, queue # <<>>
  PROVE  /\ Len(queue) \in Nat \ {0} /\ Head(queue) = queue[1] /\ queue[1] \in Stanzas
         /\ job[queue[1]] \in Awaits
         /\ Tail(queue) \in Seq(Stanzas) /\ Len(Tail(queue)) = Len(queue) - 1
         /\ \A i \in 1..(Len(queue) - 1) : /\ Tail(queue)[i] = queue[i + 1]
                                           /\ i + 1 \in 1..Len(queue)
                                           /\ queue[i + 1] # queue[1]
<1>1. queue \in Seq(Stanzas)
  BY DEF Types
<1>2. /\ Len(queue) \in Nat \ {0} /\ Head(queue) = queue[1] /\ queue[1] \in Stanzas
      /\ Tail(queue) \in Seq(Stanzas) /\ Len(Tail(queue)) = Len(queue) - 1
      /\ \A i \in 1..(Len(queue) - 1) : Tail(queue)[i] = queue[i + 1]
  BY <1>1, Shifted
<1>3. \A i \in 1..(Len(queue) - 1) : i + 1 \in 1..Len(queue) /\ i + 1 # 1
  BY <1>2
<1>4. 1 \in 1..Len(queue)
  BY <1>2
<1>5. \A i \in 1..(Len(queue) - 1) : queue[i + 1] # queue[1]
  BY <1>3, <1>4 DEF OneRequestEach
<1>6. job[queue[1]] \in Awaits
  BY <1>4 DEF OneRequestEach
<1> QED
  BY <1>2, <1>3, <1>5, <1>6

(* The first request has gone and its handler is over, or has asked again. *)
LEMMA QueueMoves ==
  ASSUME QueueInv, queue # <<>>, NEW j, j = "over" \/ j \in Awaits,
         job' = [job EXCEPT ![queue[1]] = j],
         queue' = IF j = "over" THEN Tail(queue) ELSE Append(Tail(queue), queue[1])
  PROVE  /\ job' \in [Stanzas -> Awaits \cup {"none", "over"}]
         /\ job'[queue[1]] = j
         /\ \A x \in Stanzas \ {queue[1]} : job'[x] = job[x]
         /\ queue' \in Seq(Stanzas)
         /\ Len(queue') = IF j = "over" THEN Len(queue) - 1 ELSE Len(queue)
         /\ \A i \in 1..(Len(queue) - 1) : queue'[i] = queue[i + 1]
         /\ j # "over" => queue'[Len(queue)] = queue[1]
         /\ OneRequestEach'
<1> USE DEF QueueInv
<1>1. /\ Len(queue) \in Nat \ {0} /\ queue[1] \in Stanzas
      /\ Tail(queue) \in Seq(Stanzas) /\ Len(Tail(queue)) = Len(queue) - 1
      /\ \A i \in 1..(Len(queue) - 1) : /\ Tail(queue)[i] = queue[i + 1]
                                        /\ i + 1 \in 1..Len(queue)
                                        /\ queue[i + 1] # queue[1]
  BY MovedUp
<1>2. /\ job' \in [Stanzas -> Awaits \cup {"none", "over"}] /\ job'[queue[1]] = j
      /\ \A x \in Stanzas \ {queue[1]} : job'[x] = job[x]
  BY <1>1 DEF Types
<1>3. /\ queue' \in Seq(Stanzas)
      /\ Len(queue') = IF j = "over" THEN Len(queue) - 1 ELSE Len(queue)
      /\ \A i \in 1..(Len(queue) - 1) : queue'[i] = queue[i + 1]
      /\ j # "over" => queue'[Len(queue)] = queue[1]
  <2>1. CASE j = "over"
    BY <1>1, <2>1
  <2>2. CASE j # "over"
    <3>1. queue' = Append(Tail(queue), queue[1])
      BY <2>2
    <3>2. queue \in Seq(Stanzas)
      BY DEF Types
    <3> QED
      BY <2>2, <3>1, <3>2, Rotated
  <2> QED
    BY <2>1, <2>2
<1> DEFINE again == j # "over"
<1>8. /\ ~again => Len(queue') = Len(queue) - 1
      /\ again => Len(queue') = Len(queue) /\ queue'[Len(queue)] = queue[1]
  BY <1>3
<1> HIDE DEF again
<1>9. ASSUME NEW n \in 1..Len(queue')
      PROVE  n \in 1..(Len(queue) - 1) \/ (again /\ n = Len(queue))
  <2>1. Len(queue) \in Nat \ {0} /\ Len(queue') \in {Len(queue), Len(queue) - 1}
    BY <1>1, <1>8
  <2>2. /\ n \in 1..(Len(queue) - 1) \/ (Len(queue') = Len(queue) /\ n = Len(queue))
        /\ Len(queue) # Len(queue) - 1
    BY <1>9, <2>1, LastOrBefore
  <2>3. Len(queue') = Len(queue) => again
    BY <1>8, <2>2, Zenon
  <2> QED
    BY <2>2, <2>3
<1>4. \A i \in 1..(Len(queue) - 1) : queue[i + 1] \in Stanzas
  <2>1. queue \in Seq(Stanzas)
    BY DEF Types
  <2>2. \A i \in 1..Len(queue) : queue[i] \in Stanzas
    BY <2>1
  <2> QED
    BY <1>1, <2>2
<1>5. \A i \in 1..Len(queue') : job'[queue'[i]] \in Awaits
  <2>1. \A i \in 1..(Len(queue) - 1) : job[queue[i + 1]] \in Awaits
    BY <1>1 DEF OneRequestEach
  <2>2. \A i \in 1..(Len(queue) - 1) : job'[queue'[i]] \in Awaits
    BY <1>1, <1>2, <1>3, <1>4, <2>1
  <2>3. again => j \in Awaits
    BY DEF again
  <2>4. again => job'[queue'[Len(queue)]] \in Awaits
    BY <1>2, <1>8, <2>3
  <2> QED
    BY <1>9, <2>2, <2>4
<1>6. ASSUME NEW i \in 1..Len(queue'), NEW k \in 1..Len(queue'), queue'[i] = queue'[k]
      PROVE  i = k
  <2>2. CASE i \in 1..(Len(queue) - 1) /\ k \in 1..(Len(queue) - 1)
    <3>1. queue[i + 1] = queue[k + 1]
      BY <1>3, <1>6, <2>2
    <3>2. i + 1 = k + 1
      BY <1>1, <2>2, <3>1 DEF OneRequestEach
    <3> QED
      BY <1>1, <2>2, <3>2
  <2>3. CASE i \in 1..(Len(queue) - 1) /\ again /\ k = Len(queue)
    BY <1>1, <1>3, <1>6, <1>8, <2>3
  <2>4. CASE k \in 1..(Len(queue) - 1) /\ again /\ i = Len(queue)
    BY <1>1, <1>3, <1>6, <1>8, <2>4
  <2> QED
    BY <1>9, <2>2, <2>3, <2>4
<1>7. OneRequestEach'
  BY <1>5, <1>6 DEF OneRequestEach
<1> QED
  BY <1>2, <1>3, <1>7

(* A request is executed.                                                  *)
LEMMA ExecuteKeeps ==
  ASSUME QueueInv, Execute
  PROVE  QueueInv'
<1> USE DEF QueueInv
<1>1. PICK m : m = queue[1]
  OBVIOUS
<1>2. PICK j : j = IF m \in gone THEN "over" ELSE After(job[m])
  OBVIOUS
<1>3. /\ queue # <<>> /\ Head(queue) = m /\ m \in Stanzas /\ job[m] \in Awaits
      /\ Len(queue) \in Nat \ {0}
  BY <1>1, MovedUp DEF Execute
<1>4. j = "over" \/ j \in Awaits
  BY <1>2, <1>3, AfterFacts
<1>5. /\ Effect(m)
      /\ job' = [job EXCEPT ![m] = j]
      /\ queue' = IF j = "over" THEN Tail(queue) ELSE Append(Tail(queue), m)
      /\ shown' \in {shown, Append(shown, m)}
      /\ shown' # shown => job[m] = "commit"
      /\ born' \in {born, Append(born, m)}
      /\ loop' \in [Streams -> {"new", "read", "busy", "ended"}]
      /\ \A s \in Streams : loop'[s] = "new" => loop[s] = "new"
      /\ UNCHANGED <<got, cut, header, arrived, gone, sessions, direct, broken,
                     lost, faults>>
  <2>1. /\ loop' \in [Streams -> {"new", "read", "busy", "ended"}]
        /\ \A s \in Streams : loop'[s] = "new" => loop[s] = "new"
    <3>1. loop' = loop \/ Return(m, "read")
      BY <1>3 DEF Execute
    <3>2. loop \in [Streams -> {"new", "read", "busy", "ended"}]
      BY DEF Types
    <3> QED
      BY <3>1, <3>2 DEF Return
  <2>2. job[m] # "over" /\ ("over" \notin Awaits)
    BY <1>3 DEF Awaits
  <2> QED
    BY <1>2, <1>3, <2>1, <2>2 DEF Execute, Asked, Pushes
<1>6. /\ job' \in [Stanzas -> Awaits \cup {"none", "over"}]
      /\ job'[m] = j
      /\ \A x \in Stanzas \ {m} : job'[x] = job[x]
      /\ queue' \in Seq(Stanzas)
      /\ Len(queue') = IF j = "over" THEN Len(queue) - 1 ELSE Len(queue)
      /\ \A i \in 1..(Len(queue) - 1) : queue'[i] = queue[i + 1]
      /\ j # "over" => queue'[Len(queue)] = m
      /\ OneRequestEach'
  BY <1>1, <1>3, <1>4, <1>5, QueueMoves
<1>7. /\ chats' = IF job[m] = "save chat" THEN chats \cup {Chat(m)} ELSE chats
      /\ rows' = IF job[m] = "save" THEN rows \cup {m} ELSE rows
      /\ kept' = kept \/ kept' = [chats |-> chats, rows |-> rows]
      /\ job[m] = "commit" => kept' = [chats |-> chats, rows |-> rows]
  BY <1>5 DEF Effect
<1>14. kept \in [chats : SUBSET Chats, rows : SUBSET Stanzas]
  BY DEF Types
<1>16. chats \subseteq chats' /\ rows \subseteq rows'
  BY <1>7
<1>15. \/ kept' = kept
       \/ kept' = [chats |-> chats, rows |-> rows] /\ kept'.chats = chats /\ kept'.rows = rows
  BY <1>7, Committed, Zenon
<1>8. Types'
  <2>1. born' \in Seq(Stanzas) /\ shown' \in Seq(Stanzas)
    <3>1. born \in Seq(Stanzas) /\ shown \in Seq(Stanzas)
      BY DEF Types
    <3>2. Append(born, m) \in Seq(Stanzas) /\ Append(shown, m) \in Seq(Stanzas)
      BY <1>3, <3>1, Appended
    <3> QED
      BY <1>5, <3>1, <3>2
  <2>2. chats' \subseteq Chats /\ rows' \subseteq Stanzas
    BY <1>3, <1>7, StanzaFacts DEF Types
  <2>3. kept' \in [chats : SUBSET Chats, rows : SUBSET Stanzas]
    <3>1. chats \subseteq Chats /\ rows \subseteq Stanzas
      BY DEF Types
    <3> QED
      BY <1>14, <1>15, <3>1
  <2> QED
    BY <1>5, <1>6, <2>1, <2>2, <2>3 DEF Types
<1>9. ComingIsNew'
  <2>1. \A x \in Stanzas : job[x] = "none" => job'[x] = "none"
    <3>1. job[m] # "none"
      BY <1>3 DEF Awaits
    <3> QED
      BY <1>6, <3>1
  <2>2. Streams \subseteq Sources /\ Servers \subseteq Sources
    BY DEF Sources
  <2> QED
    BY <1>5, <2>1, <2>2, StanzaFacts DEF ComingIsNew
<1>10. HandlersKnow'
  <2>1. kept'.rows \subseteq rows' /\ kept'.chats \subseteq chats'
    BY <1>15, <1>16 DEF HandlersKnow
  <2>2. /\ j = "commit" => job[m] = "save"
        /\ j = "commit chat" => job[m] = "save chat"
    BY <1>2, <1>3, AfterFacts
  <2>3. \A x \in Stanzas \ {m} : /\ job'[x] = "commit" => x \in rows'
                                 /\ job'[x] = "commit chat" => Chat(x) \in chats'
    BY <1>6, <1>7 DEF HandlersKnow
  <2>4. /\ job'[m] = "commit" => m \in rows'
        /\ job'[m] = "commit chat" => Chat(m) \in chats'
    BY <1>6, <1>7, <2>2
  <2> QED
    BY <2>1, <2>3, <2>4 DEF HandlersKnow
<1>11. PushedIsKept'
  <2>1. kept.rows \subseteq kept'.rows /\ (job[m] = "commit" => m \in kept'.rows)
    <3>1. kept.rows \subseteq kept'.rows
      BY <1>15 DEF HandlersKnow
    <3>2. ASSUME job[m] = "commit" PROVE m \in kept'.rows
      <4>1. m \in rows
        BY <1>3, <3>2 DEF HandlersKnow
      <4>2. kept'.rows = rows
        BY <1>7, <3>2
      <4> QED
        BY <4>1, <4>2
    <3> QED
      BY <3>1, <3>2
  <2>2. \A i \in 1..Len(shown) : shown[i] \in kept'.rows
    BY <2>1 DEF PushedIsKept
  <2>3. CASE shown' = shown
    BY <2>2, <2>3 DEF PushedIsKept
  <2>4. CASE shown' # shown
    <3>1. shown' = Append(shown, m) /\ m \in kept'.rows
      BY <1>5, <2>1, <2>4
    <3>2. shown \in Seq(Stanzas)
      BY DEF Types
    <3>3. /\ Len(shown') = Len(shown) + 1 /\ Len(shown) \in Nat
          /\ \A i \in 1..Len(shown) : shown'[i] = shown[i]
          /\ shown'[Len(shown) + 1] = m
      BY <1>3, <3>1, <3>2, Appended
    <3> QED
      BY <2>2, <3>1, <3>3 DEF PushedIsKept
  <2> QED
    BY <2>3, <2>4
<1>12. SavedHasChat'
  <2> SUFFICES ASSUME ~broken PROVE SavedHasChat'
    BY <1>5 DEF SavedHasChat
  <2>1. job[m] = "save" => Chat(m) \in chats
    <3>1. 1 \in 1..Len(queue) /\ 1..(1 - 1) = {}
      BY <1>3
    <3> QED
      BY <1>1, <3>1 DEF ChatsComeFirst
  <2>2. \A x \in rows' : Chat(x) \in chats'
    BY <1>7, <2>1 DEF SavedHasChat
  <2>3. \A x \in kept'.rows : Chat(x) \in kept'.chats
    BY <1>15 DEF SavedHasChat
  <2> QED
    BY <2>2, <2>3 DEF SavedHasChat
<1>13. ChatsComeFirst'
  <2> SUFFICES ASSUME ~broken PROVE ChatsComeFirst'
    BY <1>5 DEF ChatsComeFirst
  <2> DEFINE Saves(k, c)    == job[queue[k]] = "save chat" /\ Chat(queue[k]) = c
             SavesNow(k, c) == job'[queue'[k]] = "save chat" /\ Chat(queue'[k]) = c
             L              == Len(queue)
  <2>1. \A k \in 1..(L - 1) : /\ k + 1 \in 1..L
                              /\ job'[queue'[k]] = job[queue[k + 1]]
                              /\ queue'[k] = queue[k + 1]
                              /\ \A c : Saves(k + 1, c) <=> SavesNow(k, c)
    <3>1. \A k \in 1..(L - 1) : k + 1 \in 1..L /\ queue[k + 1] # m /\ queue'[k] = queue[k + 1]
      BY <1>1, <1>3, <1>6, MovedUp
    <3>2. queue \in Seq(Stanzas)
      BY DEF Types
    <3>3. \A k \in 1..(L - 1) : queue[k + 1] \in Stanzas
      BY <3>1, <3>2
    <3> QED
      BY <1>6, <3>1, <3>3
  <2>2. chats \subseteq chats' /\ \A c : Saves(1, c) => c \in chats'
    BY <1>1, <1>7
  <2>3. /\ \A c \in sessions : c \in chats \/ \E k \in 1..L : Saves(k, c)
        /\ \A i \in 1..L : job[queue[i]] = "save" =>
             Chat(queue[i]) \in chats \/ \E k \in 1..(i - 1) : Saves(k, Chat(queue[i]))
    BY DEF ChatsComeFirst
  <2>4. j = "save" => Chat(m) \in chats
    BY <1>2, <1>3, AfterFacts DEF HandlersKnow
  <2>5. L \in Nat \ {0} /\ (Len(queue') = L - 1 \/ (Len(queue') = L /\ queue'[L] = m /\ job'[queue'[L]] = j))
    BY <1>3, <1>6
  <2> HIDE DEF Saves, SavesNow, L
  <2>6. \A c \in sessions : c \in chats' \/ \E k \in 1..Len(queue') : SavesNow(k, c)
    <3>1. \A k \in 1..L : k = 1 \/ (k - 1 \in 1..(L - 1) /\ (k - 1) + 1 = k)
      BY <2>5
    <3>2. \A k \in 1..(L - 1) : k \in 1..Len(queue')
      BY <2>5
    <3> QED
      BY <2>1, <2>2, <2>3, <3>1, <3>2
  <2>7. ASSUME NEW i \in 1..Len(queue'), job'[queue'[i]] = "save"
        PROVE  Chat(queue'[i]) \in chats' \/ \E k \in 1..(i - 1) : SavesNow(k, Chat(queue'[i]))
    <3>1. CASE i \in 1..(L - 1)
      <4>1. /\ i + 1 \in 1..L /\ (i + 1) - 1 = i /\ job[queue[i + 1]] = "save"
            /\ queue'[i] = queue[i + 1]
        BY <2>1, <2>5, <2>7, <3>1
      <4>2. Chat(queue[i + 1]) \in chats \/ \E k \in 1..i : Saves(k, Chat(queue[i + 1]))
        BY <2>3, <4>1
      <4>3. \A k \in 1..i : k = 1 \/ (/\ k - 1 \in 1..(L - 1) /\ k - 1 \in 1..(i - 1)
                                      /\ (k - 1) + 1 = k)
        BY <2>5, <3>1
      <4> QED
        BY <2>1, <2>2, <4>1, <4>2, <4>3
    <3>2. CASE i = L
      BY <2>2, <2>4, <2>5, <2>7, <3>2
    <3> QED
      BY <2>5, <3>1, <3>2
  <2> QED
    BY <1>5, <2>6, <2>7 DEF ChatsComeFirst, SavesNow
<1> QED
  BY <1>6, <1>8, <1>9, <1>10, <1>11, <1>12, <1>13

(* A failing request ends its handler.                                     *)
LEMMA FailKeeps ==
  ASSUME QueueInv, Fail
  PROVE  QueueInv'
<1> USE DEF QueueInv
<1>1. PICK m : m = queue[1]
  OBVIOUS
<1>2. /\ queue # <<>> /\ Head(queue) = m /\ m \in Stanzas /\ job[m] \in Awaits
  BY <1>1, MovedUp DEF Fail
<1>3. /\ queue' = Tail(queue) /\ job' = [job EXCEPT ![m] = "over"]
      /\ EndByFailure(m) /\ broken' = TRUE /\ faults' \in 0..MaxFaults
      /\ UNCHANGED <<got, cut, header, arrived, gone, sessions, chats, rows, kept,
                     born, shown, direct, lost>>
  <2>1. faults' \in 0..MaxFaults
    BY BoundsAssumption DEF Fail, Fault, Types
  <2> QED
    BY <1>2, <2>1 DEF Fail
<1>4. /\ job' \in [Stanzas -> Awaits \cup {"none", "over"}]
      /\ job'[m] = "over" /\ \A x \in Stanzas \ {m} : job'[x] = job[x]
      /\ queue' \in Seq(Stanzas) /\ OneRequestEach'
  BY <1>1, <1>2, <1>3, QueueMoves
<1>5. Types'
  <2>1. /\ loop' \in [Streams -> {"new", "read", "busy", "ended"}]
        /\ \A s \in Streams : loop'[s] = "new" => loop[s] = "new"
    BY <1>3 DEF EndByFailure, Return, Types
  <2> QED
    BY <1>3, <1>4, <2>1 DEF Types
<1>6. ComingIsNew'
  <2>1. \A x \in Stanzas : job[x] = "none" => job'[x] = "none"
    <3>1. job[m] # "none"
      BY <1>2 DEF Awaits
    <3> QED
      BY <1>4, <3>1
  <2>2. Streams \subseteq Sources /\ Servers \subseteq Sources
    BY DEF Sources
  <2> QED
    BY <1>3, <2>1, <2>2, StanzaFacts DEF ComingIsNew
<1>7. HandlersKnow'
  BY <1>3, <1>4 DEF HandlersKnow
<1>8. PushedIsKept' /\ SavedHasChat' /\ ChatsComeFirst'
  BY <1>3 DEF PushedIsKept, SavedHasChat, ChatsComeFirst
<1> QED
  BY <1>4, <1>5, <1>6, <1>7, <1>8

(* A new process has what was committed.                                   *)
LEMMA RestartKeeps ==
  ASSUME QueueInv, Restart
  PROVE  QueueInv'
<1> USE DEF QueueInv, Restart
<1>1. /\ queue' = <<>> /\ queue' \in Seq(Stanzas) /\ Len(queue') = 0 /\ 1..0 = {}
  OBVIOUS
<1>2. /\ job' \in [Stanzas -> Awaits \cup {"none", "over"}]
      /\ \A m \in Stanzas : /\ job'[m] \notin Awaits
                            /\ job[m] = "none" => job'[m] = "none"
  BY DEF Types, Awaits
<1>3. Types'
  <2>1. /\ loop' \in [Streams -> {"new", "read", "busy", "ended"}]
        /\ \A s \in Streams : loop'[s] = "new" => loop[s] = "new"
    BY DEF Types
  <2>2. lost' \subseteq Stanzas /\ rows' \subseteq Stanzas
        /\ chats' \subseteq Chats /\ sessions' \subseteq Chats
    BY DEF Types
  <2>3. faults' \in 0..MaxFaults
    BY BoundsAssumption DEF Fault, Types
  <2> QED
    BY <1>1, <1>2, <2>1, <2>2, <2>3 DEF Types
<1>4. OneRequestEach'
  BY <1>1 DEF OneRequestEach
<1>5. ComingIsNew'
  <2>1. Streams \subseteq Sources /\ Servers \subseteq Sources
    BY DEF Sources
  <2> QED
    BY <1>2, <2>1, StanzaFacts DEF ComingIsNew
<1>6. HandlersKnow'
  BY <1>2 DEF HandlersKnow, Awaits
<1>7. PushedIsKept' /\ SavedHasChat'
  BY DEF PushedIsKept, SavedHasChat
<1>8. ChatsComeFirst'
  BY <1>1 DEF ChatsComeFirst
<1> QED
  BY <1>3, <1>4, <1>5, <1>6, <1>7, <1>8

(* A stanza that is taken from the buffer is whole and beyond the cut.     *)
LEMMA ExtractedFacts ==
  ASSUME NEW s \in Streams, NEW n \in Extracted(s)
  PROVE  n \in 1..Len(Sent[s]) /\ cut[s] < 2 * n - 1 /\ 2 * n <= got[s]
<1>1. ASSUME NEW kind, Opened(s, kind) # {}
      PROVE  First(Opened(s, kind)) \in Opened(s, kind)
  <2>1. Opened(s, kind) \in SUBSET Nat
    BY DEF Opened
  <2>2. \E x \in Opened(s, kind) : \A y \in Opened(s, kind) : x <= y
    BY <1>1, <2>1, LeastOfNat
  <2> QED
    BY <2>2 DEF First
<1>2. \E kind \in Kinds : n \in Opened(s, kind)
  BY <1>1 DEF Extracted, Found, Kinds
<1> QED
  BY <1>2 DEF Opened, Extracted

(* The read loops, with and without a handler.                             *)
LEMMA StreamKeeps ==
  ASSUME QueueInv, NEW s \in Streams,
         Open(s) \/ (\E n \in Chunks : Read(s, n)) \/ Dispatch(s) \/ EndOfStream(s) \/ Cancel(s)
  PROVE  QueueInv'
<1>1. /\ s \in Sources /\ Len(Sent[s]) \in Nat
      /\ \A x \in Streams : x \in Sources /\ Len(Sent[x]) \in Nat
  BY StanzaFacts DEF Sources
<1>2. /\ loop \in [Streams -> {"new", "read", "busy", "ended"}]
      /\ got \in [Streams -> Nat] /\ cut \in [Streams -> Nat] /\ header \in [Streams -> Nat]
      /\ \A x \in Streams : cut[x] <= got[x] /\ got[x] <= 2 * Len(Sent[x])
      /\ gone \subseteq Stanzas /\ faults \in 0..MaxFaults
  BY DEF QueueInv, Types
<1>8. \A x \in Streams : loop[x] = "new" => cut[x] = 0
  BY DEF QueueInv, Types
<1>3. CASE Open(s)
  <2>1. PICK n \in Swallowed(s) :
          /\ got' = [got EXCEPT ![s] = n] /\ cut' = [cut EXCEPT ![s] = n]
          /\ header' = [header EXCEPT ![s] = n]
    BY <1>3 DEF Open
  <2>2. n \in Nat /\ n <= 2 * Len(Sent[s])
    BY <1>1 DEF Swallowed
  <2>3. cut[s] = 0
    BY <1>3, <1>8 DEF Open
  <2>4. /\ got' \in [Streams -> Nat] /\ cut' \in [Streams -> Nat]
        /\ header' \in [Streams -> Nat]
    BY <1>2, <2>1, <2>2
  <2>5. \A x \in Streams : /\ cut'[x] <= got'[x] /\ got'[x] <= 2 * Len(Sent[x])
                            /\ cut[x] <= cut'[x]
    BY <1>1, <1>2, <2>1, <2>2, <2>3
  <2>6. /\ loop' = [loop EXCEPT ![s] = "read"] /\ UNCHANGED tables
        /\ gone' = gone /\ faults' = faults
    BY <1>3 DEF Open, tables
  <2>7. /\ loop' \in [Streams -> {"new", "read", "busy", "ended"}]
        /\ \A x \in Streams : loop'[x] = "new" => cut'[x] = 0
    BY <1>2, <1>8, <2>1, <2>6
  <2> QED
    BY <1>2, <2>4, <2>5, <2>6, <2>7, LoopsKeep
<1>4. ASSUME NEW n \in Chunks, Read(s, n) PROVE QueueInv'
  <2>1. n \in Nat
    BY BoundsAssumption
  <2>2. got' \in [Streams -> Nat]
    BY <1>2, <1>4, <2>1 DEF Read
  <2>3. \A x \in Streams : cut[x] <= got'[x] /\ got'[x] <= 2 * Len(Sent[x])
    BY <1>1, <1>2, <1>4, <2>1 DEF Read
  <2> QED
    BY <1>2, <1>4, <1>8, <2>2, <2>3, LoopsKeep DEF Read, tables
<1>9. ASSUME loop' = [loop EXCEPT ![s] = "ended"],
             UNCHANGED tables, UNCHANGED <<got, cut, header>>,
             gone' \subseteq Stanzas, faults' \in 0..MaxFaults
      PROVE  QueueInv'
  <2>1. /\ loop' \in [Streams -> {"new", "read", "busy", "ended"}]
        /\ \A x \in Streams : loop'[x] = "new" => cut'[x] = 0
    BY <1>2, <1>8, <1>9
  <2>2. \A x \in Streams : cut[x] <= cut'[x]
    BY <1>2, <1>9
  <2> QED
    BY <1>2, <1>9, <2>1, <2>2, LoopsKeep
<1>5. CASE EndOfStream(s)
  BY <1>2, <1>5, <1>9 DEF EndOfStream, tables
<1>6. CASE Cancel(s)
  <2>1. faults' \in 0..MaxFaults
    BY <1>2, <1>6, BoundsAssumption DEF Cancel, Fault
  <2> QED
    BY <1>2, <1>6, <1>9, <2>1 DEF Cancel, tables
<1>7. CASE Dispatch(s)
  <2>1. PICK n \in Extracted(s) :
          /\ cut' = [cut EXCEPT ![s] = Rest(s, n)]
          /\ IF Kind(<<s, n>>) = "iq"
             THEN UNCHANGED <<loop, job, queue, sessions, born, direct>>
             ELSE /\ loop' = [loop EXCEPT ![s] = "busy"]
                  /\ Handle(<<s, n>>)
    BY <1>7 DEF Dispatch
  <2>2. n \in 1..Len(Sent[s]) /\ cut[s] < 2 * n - 1 /\ 2 * n <= got[s]
    BY ExtractedFacts
  <2>3. /\ cut' \in [Streams -> Nat] /\ cut'[s] = 2 * n
        /\ \A x \in Streams : cut[x] <= cut'[x] /\ cut'[x] <= got[x]
    BY <1>1, <1>2, <2>1, <2>2 DEF Rest
  <2>4. UNCHANGED <<got, header, arrived, gone, chats, rows, kept, shown, broken, lost, faults>>
    BY <1>7 DEF Dispatch
  <2>5. CASE Kind(<<s, n>>) = "iq"
    <3>1. UNCHANGED tables /\ loop' = loop /\ got' = got /\ header' = header
          /\ gone' = gone /\ faults' = faults
      BY <2>1, <2>4, <2>5 DEF tables
    <3>2. \A x \in Streams : loop'[x] = "new" => cut'[x] = 0
      <4>1. loop[s] # "new"
        BY <1>7 DEF Dispatch
      <4>2. \A x \in Streams \ {s} : cut'[x] = cut[x]
        BY <1>2, <2>1
      <4> QED
        BY <1>8, <3>1, <4>1, <4>2
    <3> QED
      BY <1>2, <2>3, <3>1, <3>2, LoopsKeep
  <2>6. CASE Kind(<<s, n>>) # "iq"
    <3>1. PICK m \in Stanzas : m = <<s, n>>
      BY <1>1, <2>2, StanzaFacts
    <3>2. job[m] = "none"
      BY <1>2, <2>2, <3>1 DEF QueueInv, ComingIsNew
    <3>3. /\ OneRequestEach' /\ HandlersKnow' /\ PushedIsKept' /\ SavedHasChat'
          /\ ChatsComeFirst'
          /\ job' \in [Stanzas -> Awaits \cup {"none", "over"}]
          /\ \A x \in Stanzas \ {m} : job'[x] = job[x]
          /\ queue' \in Seq(Stanzas) /\ sessions' \subseteq Chats
          /\ born' \in Seq(Stanzas) /\ direct' \subseteq Stanzas
      <4>1. Handle(m) /\ UNCHANGED <<chats, rows, kept, shown, broken, lost>>
        BY <2>1, <2>4, <2>6, <3>1
      <4> QED
        BY <3>2, <4>1, HandleKeeps
    <3>4. Types'
      <4>1. /\ loop' \in [Streams -> {"new", "read", "busy", "ended"}]
            /\ \A x \in Streams \ {s} : loop'[x] = loop[x] /\ cut'[x] = cut[x]
            /\ loop'[s] # "new"
        BY <1>2, <2>1, <2>6
      <4> QED
        BY <2>3, <2>4, <3>3, <4>1 DEF QueueInv, Types
    <3>5. ComingIsNew'
      <4>1. ASSUME NEW x \in Streams, NEW k \in 1..Len(Sent[x]), cut'[x] < 2 * k
            PROVE  job'[<<x, k>>] = "none"
        <5>1. cut[x] < 2 * k
          BY <1>1, <1>2, <2>3, <4>1
        <5>2. job[<<x, k>>] = "none" /\ <<x, k>> \in Stanzas
          BY <1>1, <4>1, <5>1, StanzaFacts DEF QueueInv, ComingIsNew
        <5>3. <<x, k>> # m
          BY <1>1, <2>2, <2>3, <3>1, <4>1
        <5> QED
          BY <3>3, <5>2, <5>3
      <4>2. ASSUME NEW x \in Servers, NEW k \in 1..Len(Sent[x]), arrived'[x] < k
            PROVE  job'[<<x, k>>] = "none"
        <5>1. job[<<x, k>>] = "none" /\ <<x, k>> \in Stanzas
          BY <2>4, <4>2, StanzaFacts DEF QueueInv, ComingIsNew, Sources
        <5>2. <<x, k>> # m
          BY <3>1, SourcesAssumption
        <5> QED
          BY <3>3, <5>1, <5>2
      <4> QED
        BY <4>1, <4>2 DEF ComingIsNew
    <3> QED
      BY <3>3, <3>4, <3>5 DEF QueueInv
  <2> QED
    BY <2>5, <2>6
<1> QED
  BY <1>3, <1>4, <1>5, <1>6, <1>7

(* A message of a server starts a handler of its own.                      *)
LEMMA ArriveKeeps ==
  ASSUME QueueInv, NEW s \in Servers, Arrive(s)
  PROVE  QueueInv'
<1>1. s \in Sources /\ Len(Sent[s]) \in Nat /\ arrived \in [Servers -> Nat]
  BY StanzaFacts DEF Sources, QueueInv, Types
<1>2. PICK n : n = arrived[s] + 1
  OBVIOUS
<1>3. n \in 1..Len(Sent[s]) /\ arrived[s] < n
  BY <1>1, <1>2 DEF Arrive
<1>4. PICK m \in Stanzas : m = <<s, n>>
  BY <1>1, <1>3, StanzaFacts
<1>5. job[m] = "none"
  BY <1>3, <1>4 DEF QueueInv, ComingIsNew
<1>6. /\ arrived' = [arrived EXCEPT ![s] = n] /\ Handle(m)
      /\ UNCHANGED <<loop, got, cut, header, gone, chats, rows, kept, shown,
                     broken, lost, faults>>
  BY <1>2, <1>4 DEF Arrive
<1>7. /\ OneRequestEach' /\ HandlersKnow' /\ PushedIsKept' /\ SavedHasChat'
      /\ ChatsComeFirst'
      /\ job' \in [Stanzas -> Awaits \cup {"none", "over"}]
      /\ \A x \in Stanzas \ {m} : job'[x] = job[x]
      /\ queue' \in Seq(Stanzas) /\ sessions' \subseteq Chats
      /\ born' \in Seq(Stanzas) /\ direct' \subseteq Stanzas
  <2>1. Handle(m) /\ UNCHANGED <<chats, rows, kept, shown, broken, lost>>
    BY <1>6
  <2> QED
    BY <1>5, <2>1, HandleKeeps
<1>8. Types'
  <2>1. arrived' \in [Servers -> Nat] /\ \A x \in Servers : arrived'[x] <= Len(Sent[x])
    BY <1>1, <1>3, <1>6 DEF QueueInv, Types
  <2> QED
    BY <1>6, <1>7, <2>1 DEF QueueInv, Types
<1>9. ComingIsNew'
  <2>1. ASSUME NEW x \in Streams, NEW k \in 1..Len(Sent[x]), cut'[x] < 2 * k
        PROVE  job'[<<x, k>>] = "none"
    <3>1. job[<<x, k>>] = "none" /\ <<x, k>> \in Stanzas
      BY <1>6, <2>1, StanzaFacts DEF QueueInv, ComingIsNew, Sources
    <3>2. <<x, k>> # m
      BY <1>4, SourcesAssumption
    <3> QED
      BY <1>7, <3>1, <3>2
  <2>2. ASSUME NEW x \in Servers, NEW k \in 1..Len(Sent[x]), arrived'[x] < k
        PROVE  job'[<<x, k>>] = "none"
    <3>1. arrived[x] < k /\ <<x, k>> # m
      BY <1>1, <1>2, <1>3, <1>4, <1>6, <2>2
    <3>2. job[<<x, k>>] = "none" /\ <<x, k>> \in Stanzas
      BY <2>2, <3>1, StanzaFacts DEF QueueInv, ComingIsNew, Sources
    <3> QED
      BY <1>7, <3>1, <3>2
  <2> QED
    BY <2>1, <2>2 DEF ComingIsNew
<1> QED
  BY <1>7, <1>8, <1>9 DEF QueueInv

(* What the queue of the database holds is always in the order the code    *)
(* relies on.                                                              *)
THEOREM QueueSafety == Spec => []QueueInv
<1>1. Init => QueueInv
  <2> SUFFICES ASSUME Init PROVE QueueInv
    OBVIOUS
  <2>1. Types
    <3>1. \A s \in Streams \cup Servers : Len(Sent[s]) \in Nat
      BY StanzaFacts DEF Sources
    <3>2. PICK use \in Uses :
            /\ loop = [s \in Streams |-> IF s \in use THEN "new" ELSE "ended"]
            /\ arrived = [s \in Servers |-> IF s \in use THEN 0 ELSE Len(Sent[s])]
      BY DEF Init
    <3>3. /\ arrived \in [Servers -> Nat]
          /\ \A s \in Servers : arrived[s] <= Len(Sent[s])
      BY <3>1, <3>2
    <3>4. loop \in [Streams -> {"new", "read", "busy", "ended"}]
      BY <3>2
    <3>5. got \in [Streams -> Nat] /\ cut \in [Streams -> Nat] /\ header \in [Streams -> Nat]
      BY DEF Init
    <3>6. \A s \in Streams : cut[s] <= got[s] /\ got[s] <= 2 * Len(Sent[s])
      BY <3>1 DEF Init
    <3>7. queue \in Seq(Stanzas) /\ born \in Seq(Stanzas) /\ shown \in Seq(Stanzas)
      BY DEF Init
    <3>8. faults \in 0..MaxFaults
      BY BoundsAssumption DEF Init
    <3> QED
      BY <3>3, <3>4, <3>5, <3>6, <3>7, <3>8 DEF Init, Types
  <2>2. Len(queue) = 0 /\ Len(shown) = 0 /\ 1..0 = {}
    BY DEF Init
  <2>3. OneRequestEach /\ HandlersKnow
    BY <2>2 DEF Init, OneRequestEach, HandlersKnow
  <2>4. PushedIsKept /\ SavedHasChat /\ ChatsComeFirst
    BY <2>2 DEF Init, PushedIsKept, SavedHasChat, ChatsComeFirst
  <2>5. ComingIsNew
    BY StanzaFacts DEF Init, ComingIsNew, Sources
  <2> QED
    BY <2>1, <2>3, <2>4, <2>5 DEF QueueInv
<1>2. QueueInv /\ [Next]_vars => QueueInv'
  <2> SUFFICES ASSUME QueueInv, [Next]_vars PROVE QueueInv'
    OBVIOUS
  <2>1. CASE UNCHANGED vars
    <3>1. /\ UNCHANGED tables /\ loop' = loop /\ got' = got /\ cut' = cut /\ header' = header
          /\ gone' = gone /\ faults' = faults
      BY <2>1 DEF vars, tables
    <3>2. /\ loop \in [Streams -> {"new", "read", "busy", "ended"}]
          /\ got \in [Streams -> Nat] /\ cut \in [Streams -> Nat]
          /\ header \in [Streams -> Nat]
          /\ \A s \in Streams : cut[s] <= got[s] /\ got[s] <= 2 * Len(Sent[s])
          /\ \A s \in Streams : loop[s] = "new" => cut[s] = 0
          /\ gone \subseteq Stanzas /\ faults \in 0..MaxFaults
      BY DEF QueueInv, Types
    <3>3. \A s \in Streams : cut[s] <= cut[s]
      BY <3>2
    <3> QED
      BY <3>1, <3>2, <3>3, LoopsKeep
  <2> QED
    BY <2>1, StreamKeeps, ArriveKeeps, ExecuteKeeps, FailKeeps, RestartKeeps DEF Next
<1> QED
  BY <1>1, <1>2, PTL DEF Spec

(* Every variable keeps its type.                                          *)
THEOREM TypeCorrect == Spec => []TypeOK
<1>1. QueueInv => TypeOK
  <2> SUFFICES ASSUME QueueInv PROVE TypeOK
    OBVIOUS
  <2>1. \A s \in Servers : arrived[s] \in 0..Len(Sent[s])
    BY StanzaFacts DEF QueueInv, Types, Sources
  <2>2. \A s \in Streams : 0 <= cut[s] /\ cut[s] <= got[s] /\ got[s] <= 2 * Len(Sent[s])
    <3>1. cut \in [Streams -> Nat]
      BY DEF QueueInv, Types
    <3>2. \A s \in Streams : 0 <= cut[s]
      BY <3>1
    <3> QED
      BY <3>2 DEF QueueInv, Types
  <2> QED
    BY <2>1, <2>2 DEF QueueInv, Types, TypeOK
<1> QED
  BY <1>1, QueueSafety, PTL

(* A message that was pushed to a user interface is on disk.               *)
THEOREM PushesAreOnDisk == Spec => []PushedIsKept
<1>1. QueueInv => PushedIsKept
  BY DEF QueueInv
<1> QED
  BY <1>1, QueueSafety, PTL

(* A message of the history is in a chat that will be listed.              *)
THEOREM MessagesHaveChats == Spec => []SavedHasChat
<1>1. QueueInv => SavedHasChat
  BY DEF QueueInv
<1> QED
  BY <1>1, QueueSafety, PTL

-----------------------------------------------------------------------------
(* The order of the server's messages.                                     *)

Born(m) == \E i \in 1..Len(born) : born[i] = m

\* Message a of a server found its chat in memory and comes before b.
Earlier(a, b) ==
  /\ a \in direct \ lost /\ a[1] \in Servers
  /\ b \in Stanzas /\ b[1] = a[1] /\ a[2] < b[2]

\* Who awaits is in the queue, and only handlers of streams are cancelled.
AwaitersQueue ==
  /\ \A m \in Stanzas : job[m] \in Awaits => \E i \in 1..Len(queue) : queue[i] = m
  /\ \A m \in gone : m[1] \in Streams

\* A message has its time stamp before it is saved, and none before it comes.
BornThenSaved ==
  \A m \in Stanzas :
    /\ (m \in rows \/ job[m] = "save" \/ job[m] = "commit") => Born(m)
    /\ Born(m) => job[m] # "none"

\* A message that found its chat in memory is born at once, and its handler
\* ends with the commit.
DirectIsSavedNext ==
  /\ \A m \in direct : Born(m) /\ (job[m] = "save" \/ job[m] = "commit" \/ job[m] = "over")
  /\ ~broken => \A m \in direct \ lost :
                  (m[1] \in Servers /\ job[m] = "over") => m \in kept.rows

\* Such a message is born and saved before later ones, and the request that
\* saves it comes before theirs.
EarlierComesFirst ==
  ~broken =>
    /\ \A a, b : (Earlier(a, b) /\ Born(b)) => Precedes(born, a, b)
    /\ \A a, b : (Earlier(a, b) /\ b \in rows) => a \in rows
    /\ \A j \in 1..Len(queue) : \A a :
         (job[queue[j]] = "save" /\ Earlier(a, queue[j])) =>
           a \in rows \/ \E i \in 1..(j - 1) : queue[i] = a

OrderInv == AwaitersQueue /\ BornThenSaved /\ DirectIsSavedNext /\ EarlierComesFirst

(* What precedes still does when a message is born, and what was born      *)
(* precedes it.                                                            *)
LEMMA BornAppended ==
  ASSUME born \in Seq(Stanzas), NEW m \in Stanzas, born' = Append(born, m)
  PROVE  /\ \A a, b : Precedes(born, a, b) => Precedes(born', a, b)
         /\ \A a : Born(a)' <=> (a = m \/ Born(a))
         /\ \A a : Born(a) => Precedes(born', a, m)
<1>1. /\ Len(born) \in Nat /\ Len(born') = Len(born) + 1 /\ born'[Len(born) + 1] = m
      /\ \A i \in 1..Len(born) : born'[i] = born[i]
  BY Appended
<1>2. \A i \in 1..Len(born) : i \in 1..Len(born')
  BY <1>1
<1>3. Len(born) + 1 \in 1..Len(born') /\ \A i \in 1..Len(born) : i < Len(born) + 1
  BY <1>1
<1>4. \A i \in 1..Len(born') : i \in 1..Len(born) \/ i = Len(born) + 1
  BY <1>1
<1>5. ASSUME NEW a, NEW b, Precedes(born, a, b) PROVE Precedes(born', a, b)
  BY <1>1, <1>2, <1>5 DEF Precedes
<1>6. ASSUME NEW a, Born(a) PROVE Precedes(born', a, m)
  BY <1>1, <1>2, <1>3, <1>6 DEF Precedes, Born
<1>7. ASSUME NEW a PROVE Born(a)' <=> (a = m \/ Born(a))
  BY <1>1, <1>2, <1>3, <1>4 DEF Born
<1> QED
  BY <1>5, <1>6, <1>7

(* Steps that touch neither handlers nor tables.                           *)
LEMMA LoopsKeepOrder ==
  ASSUME QueueInv, OrderInv, UNCHANGED tables, \A m \in gone' : m[1] \in Streams
  PROVE  OrderInv'
BY DEF OrderInv, tables, AwaitersQueue, BornThenSaved, Born, DirectIsSavedNext,
       EarlierComesFirst, Earlier

(* A new handler comes after all that are under way.                       *)
LEMMA HandleKeepsOrder ==
  ASSUME QueueInv, OrderInv, NEW m \in Stanzas, Handle(m), job[m] = "none",
         \A b \in Stanzas : (m[1] \in Servers /\ b[1] = m[1] /\ m[2] < b[2]) => job[b] = "none",
         UNCHANGED <<chats, rows, kept, shown, broken, lost, gone>>
  PROVE  OrderInv'
<1> USE DEF OrderInv
<1>1. queue \in Seq(Stanzas) /\ born \in Seq(Stanzas)
  BY DEF QueueInv, Types
<1>2. PICK j :
        /\ j = "save" \/ j = "save chat" \/ j = "save presence"
        /\ job' = [job EXCEPT ![m] = j]
        /\ j = "save" => born' = Append(born, m)
        /\ j # "save" => born' = born /\ direct' = direct
        /\ direct' = direct \/ direct' = direct \cup {m}
  BY DEF Handle, FirstAwait, MadeBefore
<1>3. job'[m] = j /\ \A x \in Stanzas \ {m} : job'[x] = job[x]
  BY <1>2 DEF QueueInv, Types
<1>4. /\ Len(queue) \in Nat /\ Len(queue') = Len(queue) + 1
      /\ \A i \in 1..Len(queue) : queue'[i] = queue[i]
      /\ queue'[Len(queue) + 1] = m
  <2>1. queue' = Append(queue, m)
    BY DEF Handle, Asked
  <2> QED
    BY <1>1, <2>1, Appended
<1>5. /\ \A a, b : Precedes(born, a, b) => Precedes(born', a, b)
      /\ \A x : Born(x)' <=> (Born(x) \/ (j = "save" /\ x = m))
      /\ j = "save" => \A a : Born(a) => Precedes(born', a, m)
  <2>1. CASE j = "save"
    BY <1>1, <1>2, <2>1, BornAppended
  <2>2. CASE j # "save"
    BY <1>2, <2>2 DEF Born
  <2> QED
    BY <2>1, <2>2
<1>6. m \notin rows /\ ~Born(m) /\ m \notin direct
  <2>1. m \notin rows /\ ~Born(m)
    BY DEF BornThenSaved
  <2> QED
    BY <2>1 DEF DirectIsSavedNext
<1>7. AwaitersQueue'
  <2>1. \A x \in Stanzas : job'[x] \in Awaits =>
          x = m \/ \E i \in 1..Len(queue) : queue[i] = x
    BY <1>3 DEF AwaitersQueue
  <2>2. /\ Len(queue) + 1 \in 1..Len(queue')
        /\ \A i \in 1..Len(queue) : i \in 1..Len(queue')
    BY <1>4
  <2> QED
    BY <1>4, <2>1, <2>2 DEF AwaitersQueue
<1>8. BornThenSaved'
  BY <1>2, <1>3, <1>5, <1>6 DEF BornThenSaved
<1>9. DirectIsSavedNext'
  <2>1. \A x \in direct : x \in Stanzas /\ x # m
    BY <1>6 DEF QueueInv, Types
  <2>2. \A x \in direct' : x \in direct \/ (x = m /\ j = "save")
    BY <1>2
  <2> QED
    BY <1>3, <1>5, <2>1, <2>2 DEF DirectIsSavedNext
<1>10. EarlierComesFirst'
  <2> SUFFICES ASSUME ~broken PROVE EarlierComesFirst'
    BY DEF EarlierComesFirst
  <2>1. \A a, b : Earlier(a, b)' => (Earlier(a, b) \/ (a = m /\ job[b] = "none" /\ b \in Stanzas
                                                   /\ m[2] < b[2]))
    BY <1>2 DEF Earlier
  <2>2. \A b \in Stanzas : job[b] = "none" => b \notin rows /\ ~Born(b)
    BY DEF BornThenSaved
  <2>3. \A b \in Stanzas : m[2] < b[2] => b # m
    BY StanzaFacts
  <2>4. \A a, b : Earlier(a, b) => Born(a)
    BY DEF Earlier, DirectIsSavedNext
  <2>5. ASSUME NEW a, NEW b, Earlier(a, b)', Born(b)' PROVE Precedes(born', a, b)
    <3>1. CASE Earlier(a, b)
      <4>1. Born(b) => Precedes(born, a, b)
        BY <3>1 DEF EarlierComesFirst
      <4> QED
        BY <1>5, <2>4, <2>5, <3>1, <4>1
    <3>2. CASE ~Earlier(a, b)
      BY <1>5, <2>1, <2>2, <2>3, <2>5, <3>2
    <3> QED
      BY <3>1, <3>2
  <2>6. ASSUME NEW a, NEW b, Earlier(a, b)', b \in rows PROVE a \in rows
    BY <2>1, <2>2, <2>6 DEF EarlierComesFirst
  <2>7. ASSUME NEW k \in 1..Len(queue'), NEW a, NEW x, x = queue'[k], job'[x] = "save",
               Earlier(a, x)'
        PROVE  a \in rows \/ \E i \in 1..(k - 1) : queue'[i] = a
    <3>1. CASE k = Len(queue) + 1
      <4>1. x = m /\ Earlier(a, m)
        BY <1>4, <2>1, <2>3, <2>7, <3>1
      <4>2. a \in direct \ lost /\ a[1] \in Servers /\ a \in Stanzas
        BY <4>1 DEF Earlier, QueueInv, Types
      <4>3. a \in rows \/ job[a] = "save"
        BY <4>2 DEF DirectIsSavedNext, QueueInv, HandlersKnow
      <4>4. job[a] = "save" => \E i \in 1..Len(queue) : queue[i] = a
        BY <4>2 DEF AwaitersQueue, Awaits
      <4>5. \A i \in 1..Len(queue) : i \in 1..(k - 1)
        BY <1>4, <3>1
      <4> QED
        BY <1>4, <4>3, <4>4, <4>5
    <3>2. CASE k \in 1..Len(queue)
      <4>1. queue'[k] = queue[k] /\ queue[k] \in Stanzas /\ job[queue[k]] \in Awaits
        BY <1>1, <1>4, <3>2 DEF QueueInv, OneRequestEach
      <4>2. queue[k] # m /\ job[queue[k]] # "none"
        BY <4>1 DEF Awaits
      <4>3. job[queue[k]] = "save" /\ Earlier(a, queue[k])
        <5>1. x = queue[k] /\ x # m /\ job[x] # "none" /\ x \in Stanzas
          BY <2>7, <4>1, <4>2
        <5>2. Earlier(a, x)
          BY <2>1, <2>7, <5>1
        <5> QED
          BY <1>3, <2>7, <5>1, <5>2
      <4>4. a \in rows \/ \E i \in 1..(k - 1) : queue[i] = a
        BY <3>2, <4>3 DEF EarlierComesFirst
      <4>5. \A i \in 1..(k - 1) : i \in 1..Len(queue)
        BY <1>4, <3>2
      <4> QED
        BY <1>4, <4>4, <4>5
    <3>3. k = Len(queue) + 1 \/ k \in 1..Len(queue)
      BY <1>4
    <3> QED
      BY <3>1, <3>2, <3>3
  <2>8. rows' = rows
    OBVIOUS
  <2> QED
    BY <2>5, <2>6, <2>7, <2>8 DEF EarlierComesFirst
<1> QED
  BY <1>7, <1>8, <1>9, <1>10

(* Who comes earlier is born, and saved unless its request is under way.   *)
LEMMA EarlierIsSaved ==
  ASSUME QueueInv, OrderInv, ~broken, NEW a, NEW b, Earlier(a, b)
  PROVE  /\ a \in Stanzas /\ Born(a)
         /\ a \in rows \/ job[a] = "save"
         /\ job[a] = "save" => \E i \in 1..Len(queue) : queue[i] = a
         /\ job[a] \in Awaits => (a \in rows \/ job[a] = "save")
<1>1. a \in direct \ lost /\ a[1] \in Servers /\ a \in Stanzas
  BY DEF Earlier, QueueInv, Types
<1>2. a \in rows \/ job[a] = "save"
  BY <1>1 DEF OrderInv, DirectIsSavedNext, QueueInv, HandlersKnow
<1>3. job[a] = "save" => \E i \in 1..Len(queue) : queue[i] = a
  BY <1>1 DEF OrderInv, AwaitersQueue, Awaits
<1> QED
  BY <1>1, <1>2, <1>3 DEF OrderInv, DirectIsSavedNext

(* A request is executed: the others move up, and its handler comes last.  *)
LEMMA ExecuteKeepsOrder ==
  ASSUME QueueInv, OrderInv, Execute
  PROVE  OrderInv'
<1> USE DEF OrderInv
<1> DEFINE L == Len(queue)
<1>1. PICK m : m = queue[1]
  OBVIOUS
<1>2. PICK j : j = IF m \in gone THEN "over" ELSE After(job[m])
  OBVIOUS
<1>3. /\ queue # <<>> /\ Head(queue) = m /\ m \in Stanzas /\ job[m] \in Awaits
      /\ L \in Nat \ {0}
  BY <1>1, MovedUp DEF QueueInv, Execute
<1>4. j = "over" \/ j \in Awaits
  BY <1>2, <1>3, AfterFacts
<1>5. /\ Effect(m)
      /\ job' = [job EXCEPT ![m] = j]
      /\ queue' = IF j = "over" THEN Tail(queue) ELSE Append(Tail(queue), m)
      /\ born' = IF m \notin gone /\ job[m] = "commit chat" THEN Append(born, m) ELSE born
      /\ UNCHANGED <<gone, direct, broken, lost>>
  <2>1. "over" \notin Awaits
    BY DEF Awaits
  <2> QED
    BY <1>2, <1>3, <2>1 DEF Execute, Asked, MadeBefore
<1>6. /\ job'[m] = j
      /\ \A x \in Stanzas \ {m} : job'[x] = job[x]
      /\ Len(queue') = IF j = "over" THEN L - 1 ELSE L
      /\ \A i \in 1..(L - 1) : queue'[i] = queue[i + 1]
      /\ j # "over" => queue'[L] = m
  BY <1>1, <1>3, <1>4, <1>5, QueueMoves
<1>7. /\ \A i \in 1..(L - 1) : queue[i + 1] \in Stanzas \ {m}
      /\ \A i \in 1..L : i = 1 \/ (i - 1 \in 1..(L - 1) /\ (i - 1) + 1 = i)
      /\ \A i \in 1..(L - 1) : i \in 1..Len(queue') /\ i + 1 \in 1..L
  <2>1. queue \in Seq(Stanzas) /\ \A i \in 1..(L - 1) : queue[i + 1] # m /\ i + 1 \in 1..L
    BY <1>1, <1>3, MovedUp DEF QueueInv, Types
  <2>2. \A i \in 1..L : queue[i] \in Stanzas
    BY <2>1
  <2>3. L - 1 <= Len(queue') /\ Len(queue') \in Nat
    BY <1>3, <1>6
  <2> QED
    BY <1>3, <2>1, <2>2, <2>3
<1>8. /\ rows \subseteq rows'
      /\ \A x : x \in rows' => (x \in rows \/ (x = m /\ job[m] = "save"))
      /\ job[m] = "save" => m \in rows'
      /\ kept.rows \subseteq kept'.rows
      /\ job[m] = "commit" => kept'.rows = rows /\ m \in rows
  <2>1. /\ rows' = IF job[m] = "save" THEN rows \cup {m} ELSE rows
        /\ kept' = kept \/ kept' = [chats |-> chats, rows |-> rows]
        /\ job[m] = "commit" => kept' = [chats |-> chats, rows |-> rows]
    BY <1>5 DEF Effect
  <2>2. [chats |-> chats, rows |-> rows].rows = rows
    BY Committed
  <2>3. kept.rows \subseteq rows /\ (job[m] = "commit" => m \in rows)
    BY <1>3 DEF QueueInv, HandlersKnow
  <2> QED
    BY <2>1, <2>2, <2>3
<1>9. /\ \A a, b : Precedes(born, a, b) => Precedes(born', a, b)
      /\ \A x : Born(x)' <=> (Born(x) \/ (j = "save" /\ x = m))
      /\ j = "save" => \A a : Born(a) => Precedes(born', a, m)
  <2>1. j = "save" <=> (m \notin gone /\ job[m] = "commit chat")
    BY <1>2, <1>3 DEF After, Awaits
  <2>2. born \in Seq(Stanzas)
    BY DEF QueueInv, Types
  <2>3. CASE j = "save"
    <3>1. born' = Append(born, m)
      BY <1>5, <2>1, <2>3
    <3> QED
      BY <1>3, <2>2, <2>3, <3>1, BornAppended
  <2>4. CASE j # "save"
    <3>1. born' = born
      BY <1>5, <2>1, <2>4
    <3> QED
      BY <2>4, <3>1 DEF Born
  <2> QED
    BY <2>3, <2>4
<1> HIDE DEF L
<1>10. AwaitersQueue'
  <2>1. ASSUME NEW x \in Stanzas, job'[x] \in Awaits
        PROVE  \E i \in 1..Len(queue') : queue'[i] = x
    <3>1. CASE x = m
      <4>1. j # "over"
        BY <1>6, <2>1, <3>1 DEF Awaits
      <4>2. L \in 1..Len(queue')
        BY <1>3, <1>6, <4>1
      <4> QED
        BY <1>6, <3>1, <4>1, <4>2
    <3>2. CASE x # m
      <4>1. PICK i \in 1..L : queue[i] = x
        BY <1>6, <2>1, <3>2 DEF AwaitersQueue, L
      <4>2. i # 1
        BY <1>1, <3>2, <4>1
      <4>3. i - 1 \in 1..(L - 1) /\ (i - 1) + 1 = i
        BY <1>7, <4>2
      <4>4. queue'[i - 1] = x /\ i - 1 \in 1..Len(queue')
        BY <1>6, <1>7, <4>1, <4>3
      <4> QED
        BY <4>4
    <3> QED
      BY <3>1, <3>2
  <2> QED
    BY <1>5, <2>1 DEF AwaitersQueue
<1>11. BornThenSaved'
  <2>1. job[m] # "none" /\ j # "none"
    BY <1>3, <1>4 DEF Awaits
  <2>2. j = "commit" => job[m] = "save"
    BY <1>2, <1>3, AfterFacts
  <2>3. \A x \in Stanzas \ {m} :
          /\ (x \in rows' \/ job'[x] = "save" \/ job'[x] = "commit") => Born(x)'
          /\ Born(x)' => job'[x] # "none"
    BY <1>6, <1>8, <1>9 DEF BornThenSaved
  <2>4. (m \in rows' \/ j = "save" \/ j = "commit") => Born(m)'
    BY <1>3, <1>8, <1>9, <2>2 DEF BornThenSaved
  <2> QED
    BY <1>6, <2>1, <2>3, <2>4 DEF BornThenSaved
<1>12. DirectIsSavedNext'
  <2>1. \A x \in direct : x \in Stanzas
    BY DEF QueueInv, Types
  <2>2. m \in direct => /\ job[m] = "save" \/ job[m] = "commit"
                        /\ j = "commit" \/ j = "over"
                        /\ (j = "over" /\ m[1] \in Servers) => job[m] = "commit"
    <3>1. m \in direct => job[m] = "save" \/ job[m] = "commit"
      BY <1>3 DEF DirectIsSavedNext, Awaits
    <3>2. m[1] \in Servers => m \notin gone
      BY SourcesAssumption DEF AwaitersQueue
    <3> QED
      BY <1>2, <3>1, <3>2 DEF After
  <2>3. \A x \in direct : Born(x)' /\ (job'[x] = "save" \/ job'[x] = "commit" \/ job'[x] = "over")
    BY <1>6, <1>9, <2>1, <2>2 DEF DirectIsSavedNext
  <2>4. ~broken => \A x \in direct \ lost :
                     (x[1] \in Servers /\ job'[x] = "over") => x \in kept'.rows
    BY <1>6, <1>8, <2>1, <2>2 DEF DirectIsSavedNext
  <2> QED
    BY <1>5, <2>3, <2>4 DEF DirectIsSavedNext
<1>13. EarlierComesFirst'
  <2> SUFFICES ASSUME ~broken PROVE EarlierComesFirst'
    BY <1>5 DEF EarlierComesFirst
  <2>1. \A a, b : Earlier(a, b)' <=> Earlier(a, b)
    BY <1>5 DEF Earlier
  <2>2. ASSUME NEW a, NEW b, Earlier(a, b)', Born(b)' PROVE Precedes(born', a, b)
    <3>1. Earlier(a, b) /\ Born(a)
      BY <2>1, <2>2, EarlierIsSaved
    <3>2. Born(b) => Precedes(born, a, b)
      BY <3>1 DEF EarlierComesFirst
    <3> QED
      BY <1>9, <2>2, <3>1, <3>2
  <2>3. ASSUME NEW a, NEW b, Earlier(a, b)', b \in rows' PROVE a \in rows'
    <3>1. Earlier(a, b)
      BY <2>1, <2>3
    <3>2. CASE b \in rows
      BY <1>8, <3>1, <3>2 DEF EarlierComesFirst
    <3>3. CASE b = m /\ job[m] = "save"
      <4>1. 1 \in 1..Len(queue) /\ 1..(1 - 1) = {}
        BY <1>3 DEF L
      <4>2. a \in rows
        BY <1>1, <3>1, <3>3, <4>1 DEF EarlierComesFirst
      <4> QED
        BY <1>8, <4>2
    <3> QED
      BY <1>8, <2>3, <3>2, <3>3
  <2>4. ASSUME NEW k \in 1..Len(queue'), NEW a, NEW x, x = queue'[k], job'[x] = "save",
               Earlier(a, x)'
        PROVE  a \in rows' \/ \E i \in 1..(k - 1) : queue'[i] = a
    <3>1. Earlier(a, x)
      BY <2>1, <2>4
    <3>2. /\ a \in Stanzas
          /\ a \in rows \/ job[a] = "save"
          /\ job[a] = "save" => \E i \in 1..L : queue[i] = a
          /\ job[a] \in Awaits => (a \in rows \/ job[a] = "save")
      BY <3>1, EarlierIsSaved DEF L
    <3>3. a = m => a \in rows'
      BY <1>3, <1>8, <3>2
    <3>4. CASE k \in 1..(L - 1)
      <4>1. x = queue[k + 1] /\ x \in Stanzas \ {m} /\ k + 1 \in 1..L /\ (k + 1) - 1 = k
        BY <1>3, <1>6, <1>7, <2>4, <3>4
      <4>2. job[x] = "save"
        BY <1>6, <2>4, <4>1
      <4>3. a \in rows \/ \E i \in 1..k : queue[i] = a
        BY <3>1, <4>1, <4>2 DEF EarlierComesFirst, L
      <4>4. \A i \in 1..k : i = 1 \/ (/\ i - 1 \in 1..(L - 1) /\ i - 1 \in 1..(k - 1)
                                      /\ (i - 1) + 1 = i)
        BY <1>3, <3>4
      <4>5. ASSUME NEW i \in 1..k, queue[i] = a PROVE a \in rows' \/ \E n \in 1..(k - 1) : queue'[n] = a
        <5>1. CASE i = 1
          BY <1>1, <3>3, <4>5, <5>1
        <5>2. CASE i # 1
          <6>1. queue'[i - 1] = a /\ i - 1 \in 1..(k - 1)
            BY <1>6, <4>4, <4>5, <5>2
          <6> QED
            BY <6>1
        <5> QED
          BY <5>1, <5>2
      <4> QED
        BY <1>8, <4>3, <4>5
    <3>5. CASE k = L /\ j # "over"
      <4>1. x = m /\ j = "save"
        BY <1>6, <2>4, <3>5
      <4>2. job[m] = "commit chat"
        BY <1>2, <1>3, <4>1, AfterFacts
      <4>3. ASSUME job[a] = "save" PROVE \E n \in 1..(k - 1) : queue'[n] = a
        <5>1. PICK i \in 1..L : queue[i] = a
          BY <3>2, <4>3
        <5>2. i # 1
          BY <1>1, <4>2, <4>3, <5>1
        <5>3. queue'[i - 1] = a /\ i - 1 \in 1..(k - 1)
          BY <1>6, <1>7, <3>5, <5>1, <5>2
        <5> QED
          BY <5>3
      <4> QED
        BY <1>8, <3>2, <4>3
    <3>6. k \in 1..(L - 1) \/ (k = L /\ j # "over")
      <4> DEFINE again == j # "over"
      <4>1. (~again => Len(queue') = L - 1) /\ (again => Len(queue') = L)
        BY <1>6
      <4> HIDE DEF again
      <4>2. Len(queue') = L \/ Len(queue') = L - 1
        BY <4>1
      <4>3. k \in 1..(L - 1) \/ (Len(queue') = L /\ k = L)
        BY <1>3, <4>2
      <4>4. L # L - 1
        BY <1>3
      <4>5. Len(queue') = L => again
        BY <4>1, <4>4, Zenon
      <4> QED
        BY <4>3, <4>5 DEF again
    <3> QED
      BY <3>4, <3>5, <3>6
  <2> QED
    BY <2>2, <2>3, <2>4 DEF EarlierComesFirst
<1> QED
  BY <1>10, <1>11, <1>12, <1>13

(* A failing request ends its handler, and nothing is promised after it.   *)
LEMMA FailKeepsOrder ==
  ASSUME QueueInv, OrderInv, Fail
  PROVE  OrderInv'
<1> USE DEF OrderInv
<1>1. PICK m : m = queue[1]
  OBVIOUS
<1>2. /\ queue # <<>> /\ Head(queue) = m /\ m \in Stanzas /\ job[m] \in Awaits
      /\ Len(queue) \in Nat \ {0}
  BY <1>1, MovedUp DEF QueueInv, Fail
<1>3. /\ queue' = Tail(queue) /\ job' = [job EXCEPT ![m] = "over"] /\ broken' = TRUE
      /\ UNCHANGED <<gone, rows, kept, born, direct, lost>>
  BY <1>2 DEF Fail
<1>4. /\ job'[m] = "over" /\ \A x \in Stanzas \ {m} : job'[x] = job[x]
      /\ Len(queue') = Len(queue) - 1
      /\ \A i \in 1..(Len(queue) - 1) : queue'[i] = queue[i + 1]
  BY <1>1, <1>2, <1>3, QueueMoves
<1>5. AwaitersQueue'
  <2>1. ASSUME NEW x \in Stanzas, job'[x] \in Awaits
        PROVE  \E i \in 1..Len(queue') : queue'[i] = x
    <3>1. x # m /\ job[x] \in Awaits
      BY <1>4, <2>1 DEF Awaits
    <3>2. PICK i \in 1..Len(queue) : queue[i] = x
      BY <3>1 DEF AwaitersQueue
    <3>3. i # 1
      BY <1>1, <3>1, <3>2
    <3>4. i - 1 \in 1..(Len(queue) - 1) /\ (i - 1) + 1 = i
      BY <1>2, <3>3
    <3> QED
      BY <1>4, <3>2, <3>4
  <2> QED
    BY <1>3, <2>1 DEF AwaitersQueue
<1>6. BornThenSaved'
  <2>1. m \in rows => Born(m)
    BY <1>2 DEF BornThenSaved
  <2> QED
    BY <1>3, <1>4, <2>1 DEF BornThenSaved, Born
<1>7. DirectIsSavedNext'
  <2>1. \A x \in direct : x \in Stanzas
    BY DEF QueueInv, Types
  <2> QED
    BY <1>3, <1>4, <2>1 DEF DirectIsSavedNext, Born
<1>8. EarlierComesFirst'
  BY <1>3 DEF EarlierComesFirst
<1> QED
  BY <1>5, <1>6, <1>7, <1>8

(* A handler that ended with the process is not spoken of any more; those  *)
(* that had come to their end had committed.                               *)
LEMMA RestartKeepsOrder ==
  ASSUME QueueInv, OrderInv, Restart
  PROVE  OrderInv'
<1> USE DEF OrderInv
<1>1. /\ Len(queue') = 0 /\ 1..0 = {}
      /\ rows' = kept.rows /\ kept.rows \subseteq rows
      /\ UNCHANGED <<gone, kept, born, direct, broken>>
      /\ lost' = lost \cup {m \in Stanzas : job[m] \in Awaits}
  <2>1. queue' = <<>> /\ rows' = kept.rows /\ UNCHANGED <<gone, kept, born, direct, broken>>
    BY DEF Restart
  <2>2. lost' = lost \cup {m \in Stanzas : job[m] \in Awaits}
    BY DEF Restart
  <2>3. kept.rows \subseteq rows
    BY DEF QueueInv, HandlersKnow
  <2>4. Len(queue') = 0 /\ 1..0 = {}
    BY <2>1
  <2> QED
    BY <2>1, <2>2, <2>3, <2>4
<1>2. \A m \in Stanzas : job'[m] = IF job[m] \in Awaits THEN "over" ELSE job[m]
  BY DEF Restart
<1>3. \A m \in Stanzas : job'[m] \notin Awaits
  BY <1>2 DEF Awaits
<1>4. AwaitersQueue'
  BY <1>1, <1>3 DEF AwaitersQueue
<1>5. BornThenSaved'
  BY <1>1, <1>2, <1>3 DEF BornThenSaved, Born, Awaits
<1>6. \A m \in direct : m \in Stanzas
  BY DEF QueueInv, Types
<1>7. DirectIsSavedNext'
  <2>1. \A m \in direct : Born(m)' /\ job'[m] = "over"
    BY <1>1, <1>2, <1>6 DEF DirectIsSavedNext, Born, Awaits
  <2>2. \A m \in direct \ lost' : job[m] \notin Awaits
    BY <1>1, <1>6
  <2>3. ~broken => \A m \in direct \ lost' : m[1] \in Servers => m \in kept.rows
    BY <1>1, <2>2 DEF DirectIsSavedNext, Awaits
  <2> QED
    BY <1>1, <2>1, <2>3 DEF DirectIsSavedNext
<1>8. EarlierComesFirst'
  <2> SUFFICES ASSUME ~broken PROVE EarlierComesFirst'
    BY <1>1 DEF EarlierComesFirst
  <2>1. \A a, b : Earlier(a, b)' => (Earlier(a, b) /\ a \in kept.rows)
    <3>1. \A m \in direct \ lost' : m[1] \in Servers => m \in kept.rows
      BY <1>1, <1>6 DEF DirectIsSavedNext, Awaits
    <3> QED
      BY <1>1, <3>1 DEF Earlier
  <2>2. \A a, b : (Earlier(a, b)' /\ Born(b)') => Precedes(born', a, b)
    BY <1>1, <2>1 DEF EarlierComesFirst, Born
  <2>3. \A a, b : (Earlier(a, b)' /\ b \in rows') => a \in rows'
    BY <1>1, <2>1
  <2>4. \A k \in 1..Len(queue') : FALSE
    BY <1>1
  <2> QED
    BY <2>2, <2>3, <2>4 DEF EarlierComesFirst
<1> QED
  BY <1>4, <1>5, <1>7, <1>8

(* What the read loops do has no part in the order of the server's         *)
(* messages.                                                               *)
LEMMA StreamKeepsOrder ==
  ASSUME QueueInv, OrderInv, NEW s \in Streams,
         Open(s) \/ (\E n \in Chunks : Read(s, n)) \/ Dispatch(s) \/ EndOfStream(s) \/ Cancel(s)
  PROVE  OrderInv'
<1>1. \A m \in gone : m[1] \in Streams
  BY DEF OrderInv, AwaitersQueue
<1>2. CASE Open(s) \/ (\E n \in Chunks : Read(s, n)) \/ EndOfStream(s)
  <2>1. UNCHANGED tables /\ gone' = gone
    BY <1>2 DEF Open, Read, EndOfStream, tables
  <2> QED
    BY <1>1, <2>1, LoopsKeepOrder
<1>3. CASE Cancel(s)
  <2>1. UNCHANGED tables /\ gone' = gone \cup {m \in Stanzas : m[1] = s /\ job[m] \in Awaits}
    BY <1>3 DEF Cancel, tables
  <2> QED
    BY <1>1, <2>1, LoopsKeepOrder
<1>4. CASE Dispatch(s)
  <2>1. PICK n \in Extracted(s) :
          IF Kind(<<s, n>>) = "iq"
          THEN UNCHANGED <<loop, job, queue, sessions, born, direct>>
          ELSE Handle(<<s, n>>)
    BY <1>4 DEF Dispatch
  <2>2. UNCHANGED <<arrived, gone, chats, rows, kept, shown, broken, lost>>
    BY <1>4 DEF Dispatch
  <2>3. CASE Kind(<<s, n>>) = "iq"
    <3>1. UNCHANGED tables /\ gone' = gone
      BY <2>1, <2>2, <2>3 DEF tables
    <3> QED
      BY <1>1, <3>1, LoopsKeepOrder
  <2>4. CASE Kind(<<s, n>>) # "iq"
    <3>1. n \in 1..Len(Sent[s]) /\ cut[s] < 2 * n - 1
      BY ExtractedFacts
    <3>2. PICK m \in Stanzas : m = <<s, n>>
      BY <3>1, StanzaFacts DEF Sources
    <3>3. job[m] = "none"
      <4>1. cut[s] < 2 * n
        BY <3>1 DEF QueueInv, Types
      <4> QED
        BY <3>1, <3>2, <4>1 DEF QueueInv, ComingIsNew
    <3>4. m[1] \notin Servers /\ Handle(m)
      BY <2>1, <2>4, <3>2, SourcesAssumption
    <3> QED
      BY <2>2, <3>3, <3>4, HandleKeepsOrder
  <2> QED
    BY <2>3, <2>4
<1> QED
  BY <1>2, <1>3, <1>4

(* The next message of a server comes when none after it has come.         *)
LEMMA ArriveKeepsOrder ==
  ASSUME QueueInv, OrderInv, NEW s \in Servers, Arrive(s)
  PROVE  OrderInv'
<1>1. s \in Sources /\ Len(Sent[s]) \in Nat /\ arrived[s] \in Nat
  BY StanzaFacts DEF Sources, QueueInv, Types
<1>2. PICK n : n = arrived[s] + 1
  OBVIOUS
<1>3. n \in 1..Len(Sent[s]) /\ arrived[s] < n
  BY <1>1, <1>2 DEF Arrive
<1>4. PICK m \in Stanzas : m = <<s, n>>
  BY <1>1, <1>3, StanzaFacts
<1>5. job[m] = "none"
  BY <1>3, <1>4 DEF QueueInv, ComingIsNew
<1>6. ASSUME NEW b \in Stanzas, b[1] = m[1], m[2] < b[2]
      PROVE  job[b] = "none"
  <2>1. b = <<s, b[2]>> /\ b[2] \in 1..Len(Sent[s]) /\ n < b[2]
    BY <1>4, <1>6, StanzaFacts
  <2>2. arrived[s] < b[2]
    BY <1>1, <1>2, <2>1
  <2>3. job[<<s, b[2]>>] = "none"
    BY <2>1, <2>2 DEF QueueInv, ComingIsNew
  <2> QED
    BY <2>1, <2>3
<1>7. Handle(m) /\ UNCHANGED <<chats, rows, kept, shown, broken, lost, gone>>
  BY <1>2, <1>4 DEF Arrive
<1> QED
  BY <1>5, <1>6, <1>7, HandleKeepsOrder

(* What the handlers of the server's messages leave is in the order the    *)
(* server sent, as far as the code sees to it.                             *)
THEOREM OrderSafety == Spec => []OrderInv
<1>1. Init => OrderInv
  <2> SUFFICES ASSUME Init PROVE OrderInv
    OBVIOUS
  <2>1. Len(queue) = 0 /\ Len(born) = 0 /\ 1..0 = {}
    BY DEF Init
  <2>2. \A m \in Stanzas : job[m] = "none" /\ ~Born(m)
    BY <2>1 DEF Init, Born
  <2>3. AwaitersQueue /\ BornThenSaved
    BY <2>2 DEF Init, AwaitersQueue, BornThenSaved, Awaits
  <2>4. DirectIsSavedNext /\ EarlierComesFirst
    BY DEF Init, DirectIsSavedNext, EarlierComesFirst, Earlier
  <2> QED
    BY <2>3, <2>4 DEF OrderInv
<1>2. QueueInv /\ OrderInv /\ [Next]_vars => OrderInv'
  <2> SUFFICES ASSUME QueueInv, OrderInv, [Next]_vars PROVE OrderInv'
    OBVIOUS
  <2>1. CASE UNCHANGED vars
    <3>1. UNCHANGED tables /\ gone' = gone
      BY <2>1 DEF vars, tables
    <3>2. \A m \in gone' : m[1] \in Streams
      BY <3>1 DEF OrderInv, AwaitersQueue
    <3> QED
      BY <3>1, <3>2, LoopsKeepOrder
  <2> QED
    BY <2>1, StreamKeepsOrder, ArriveKeepsOrder, ExecuteKeepsOrder, FailKeepsOrder,
       RestartKeepsOrder DEF Next
<1> QED
  BY <1>1, <1>2, QueueSafety, PTL DEF Spec

(* A message of the server that found its chat in memory, and was not cut  *)
(* off by the end of the process, is saved before every later one of its   *)
(* sender, although their handlers are tasks of their own.                 *)
THEOREM ServerOrder == Spec => []ServerKeepsOrder
<1>1. QueueInv /\ OrderInv => ServerKeepsOrder
  <2> SUFFICES ASSUME QueueInv, OrderInv, ~broken, NEW b \in rows, NEW n \in 1..(b[2] - 1),
                      b[1] \in Servers, <<b[1], n>> \in direct \ lost
               PROVE  <<b[1], n>> \in rows /\ Precedes(born, <<b[1], n>>, b)
    BY DEF ServerKeepsOrder
  <2>1. b \in Stanzas /\ Born(b)
    BY DEF QueueInv, Types, OrderInv, BornThenSaved
  <2>2. n < b[2]
    BY <2>1, StanzaFacts
  <2>3. Earlier(<<b[1], n>>, b)
    BY <2>1, <2>2 DEF Earlier
  <2> QED
    BY <2>1, <2>3 DEF OrderInv, EarlierComesFirst
<1> QED
  BY <1>1, QueueSafety, OrderSafety, PTL

-----------------------------------------------------------------------------
(* What is pushed and what the history shows.                              *)

Saving(m) == job[m] = "save" \/ job[m] = "commit"

\* Of two messages in the queue the first is pushed before the second.
GoesFirst(i, k) ==
  \/ job[queue[i]] = "commit" /\ job[queue[k]] = "save"
  \/ Saving(queue[i]) /\ job[queue[i]] = job[queue[k]] /\ i < k

\* Messages are pushed in the order in which they are born, and none is shown
\* before those that go first.
ShowInv ==
  /\ \A i, k \in 1..Len(queue) : GoesFirst(i, k) => Precedes(born, queue[i], queue[k])
  /\ \A i, k \in 1..Len(shown) : i < k => Precedes(born, shown[i], shown[k])
  /\ \A i \in 1..Len(shown) : \A k \in 1..Len(queue) :
       Saving(queue[k]) => Precedes(born, shown[i], queue[k])

(* What the first request of the queue and the step of its handler change. *)
LEMMA Executed ==
  ASSUME QueueInv, Execute, NEW m, m = queue[1],
         NEW j, j = IF m \in gone THEN "over" ELSE After(job[m])
  PROVE  /\ m \in Stanzas /\ job[m] \in Awaits
         /\ Len(queue) \in Nat \ {0} /\ Len(queue') \in Nat
         /\ j = "over" \/ j \in Awaits
         /\ job'[m] = j /\ \A x \in Stanzas \ {m} : job'[x] = job[x]
         /\ \A i \in 1..(Len(queue) - 1) :
              /\ i + 1 \in 1..Len(queue) /\ i \in 1..Len(queue')
              /\ queue'[i] = queue[i + 1] /\ queue[i + 1] \in Stanzas \ {m}
         /\ \A i \in 1..Len(queue') : \/ i \in 1..(Len(queue) - 1)
                                      \/ i = Len(queue) /\ queue'[i] = m /\ j # "over"
         /\ kept.rows \subseteq kept'.rows
         /\ job[m] = "commit" => kept'.rows = rows /\ m \in rows
         /\ born' = IF j = "save" THEN Append(born, m) ELSE born
         /\ shown' = IF m \notin gone /\ job[m] = "commit" THEN Append(shown, m) ELSE shown
         /\ j = "over" => Return(m, "read")
         /\ j # "over" => loop' = loop
         /\ UNCHANGED <<got, cut, header, gone>>
<1> USE DEF QueueInv
<1>1. /\ queue # <<>> /\ Head(queue) = m /\ m \in Stanzas /\ job[m] \in Awaits
      /\ Len(queue) \in Nat \ {0}
  BY MovedUp DEF Execute
<1>2. j = "over" \/ j \in Awaits
  BY <1>1, AfterFacts
<1>3. "over" \notin Awaits
  BY DEF Awaits
<1>4. /\ Effect(m)
      /\ job' = [job EXCEPT ![m] = j]
      /\ queue' = IF j = "over" THEN Tail(queue) ELSE Append(Tail(queue), m)
      /\ shown' = IF m \notin gone /\ job[m] = "commit" THEN Append(shown, m) ELSE shown
      /\ born' = IF m \notin gone /\ job[m] = "commit chat" THEN Append(born, m) ELSE born
      /\ j = "over" => Return(m, "read")
      /\ j # "over" => loop' = loop
      /\ UNCHANGED <<got, cut, header, gone>>
  BY <1>1, <1>3 DEF Execute, Asked, Pushes, MadeBefore
<1>5. /\ job'[m] = j
      /\ \A x \in Stanzas \ {m} : job'[x] = job[x]
      /\ queue' \in Seq(Stanzas)
      /\ Len(queue') = IF j = "over" THEN Len(queue) - 1 ELSE Len(queue)
      /\ \A i \in 1..(Len(queue) - 1) : queue'[i] = queue[i + 1]
      /\ j # "over" => queue'[Len(queue)] = m
  BY <1>1, <1>2, <1>4, QueueMoves
<1>6. \A i \in 1..(Len(queue) - 1) :
        /\ i + 1 \in 1..Len(queue) /\ i \in 1..Len(queue')
        /\ queue'[i] = queue[i + 1] /\ queue[i + 1] \in Stanzas \ {m}
  <2>1. /\ queue \in Seq(Stanzas)
        /\ \A i \in 1..(Len(queue) - 1) : queue[i + 1] # m /\ i + 1 \in 1..Len(queue)
    BY <1>1, MovedUp DEF Types
  <2>2. \A i \in 1..Len(queue) : queue[i] \in Stanzas
    BY <2>1
  <2>3. Len(queue) - 1 <= Len(queue') /\ Len(queue') \in Nat
    BY <1>1, <1>5
  <2>4. \A i \in 1..(Len(queue) - 1) : i \in 1..Len(queue')
    BY <1>1, <2>3
  <2> QED
    BY <1>5, <2>1, <2>2, <2>4
<1> DEFINE again == j # "over"
<1>7. /\ ~again => Len(queue') = Len(queue) - 1
      /\ again => Len(queue') = Len(queue) /\ queue'[Len(queue)] = m
  BY <1>5
<1> HIDE DEF again
<1>8. ASSUME NEW i \in 1..Len(queue')
      PROVE  i \in 1..(Len(queue) - 1) \/ (i = Len(queue) /\ queue'[i] = m /\ again)
  <2>1. Len(queue) \in Nat \ {0} /\ Len(queue') \in {Len(queue), Len(queue) - 1}
    BY <1>1, <1>7
  <2>2. /\ i \in 1..(Len(queue) - 1) \/ (Len(queue') = Len(queue) /\ i = Len(queue))
        /\ Len(queue) # Len(queue) - 1
    BY <1>8, <2>1, LastOrBefore
  <2>3. Len(queue') = Len(queue) => again
    BY <1>7, <2>2, Zenon
  <2> QED
    BY <1>7, <2>2, <2>3
<1>9. /\ kept.rows \subseteq kept'.rows
      /\ job[m] = "commit" => kept'.rows = rows /\ m \in rows
  <2>1. /\ kept' = kept \/ kept' = [chats |-> chats, rows |-> rows]
        /\ job[m] = "commit" => kept' = [chats |-> chats, rows |-> rows]
    BY <1>4 DEF Effect
  <2>2. [chats |-> chats, rows |-> rows].rows = rows
    BY Committed
  <2>3. kept.rows \subseteq rows /\ (job[m] = "commit" => m \in rows)
    BY <1>1 DEF HandlersKnow
  <2> QED
    BY <2>1, <2>2, <2>3
<1>10. j = "save" <=> (m \notin gone /\ job[m] = "commit chat")
  BY <1>1 DEF After, Awaits
<1>11. born' = IF j = "save" THEN Append(born, m) ELSE born
  BY <1>4, <1>10
<1>12. Len(queue') \in Nat
  BY <1>5
<1> QED
  BY <1>1, <1>2, <1>4, <1>5, <1>6, <1>8, <1>9, <1>11, <1>12 DEF again

(* What precedes still does when the handler of a message has its turn.    *)
LEMMA BornGrows ==
  ASSUME born \in Seq(Stanzas), NEW m \in Stanzas, NEW j,
         born' = IF j = "save" THEN Append(born, m) ELSE born
  PROVE  /\ \A a, b : Precedes(born, a, b) => Precedes(born', a, b)
         /\ \A x : Born(x)' <=> (Born(x) \/ (j = "save" /\ x = m))
         /\ j = "save" => \A a : Born(a) => Precedes(born', a, m)
<1>1. CASE j = "save"
  BY <1>1, BornAppended
<1>2. CASE j # "save"
  BY <1>2 DEF Born
<1> QED
  BY <1>1, <1>2

(* What is born or about to be pushed has its place.                       *)
LEMMA SavingIsBorn ==
  ASSUME QueueInv, OrderInv
  PROVE  /\ \A i \in 1..Len(queue) : queue[i] \in Stanzas /\ (Saving(queue[i]) => Born(queue[i]))
         /\ \A i \in 1..Len(shown) : shown[i] \in Stanzas /\ Born(shown[i])
         /\ Len(queue) \in Nat /\ Len(shown) \in Nat
<1>1. queue \in Seq(Stanzas) /\ shown \in Seq(Stanzas)
  BY DEF QueueInv, Types
<1>2. /\ Len(queue) \in Nat /\ Len(shown) \in Nat
      /\ \A i \in 1..Len(queue) : queue[i] \in Stanzas
      /\ \A i \in 1..Len(shown) : shown[i] \in Stanzas
  BY <1>1
<1>3. \A i \in 1..Len(shown) : shown[i] \in rows
  BY DEF QueueInv, PushedIsKept, HandlersKnow
<1> QED
  BY <1>2, <1>3 DEF OrderInv, BornThenSaved, Saving

(* A new handler is born after all that go first.                          *)
LEMMA HandleKeepsShown ==
  ASSUME QueueInv, OrderInv, ShowInv, NEW m \in Stanzas, Handle(m), job[m] = "none",
         shown' = shown
  PROVE  ShowInv'
<1>1. queue \in Seq(Stanzas) /\ born \in Seq(Stanzas)
  BY DEF QueueInv, Types
<1>2. PICK j :
        /\ j = "save" \/ j = "save chat" \/ j = "save presence"
        /\ job' = [job EXCEPT ![m] = j]
        /\ born' = IF j = "save" THEN Append(born, m) ELSE born
  BY DEF Handle, FirstAwait, MadeBefore
<1>3. job'[m] = j /\ \A x \in Stanzas \ {m} : job'[x] = job[x]
  BY <1>2 DEF QueueInv, Types
<1>4. /\ Len(queue) \in Nat /\ Len(queue') = Len(queue) + 1
      /\ \A i \in 1..Len(queue) : queue'[i] = queue[i]
      /\ queue'[Len(queue) + 1] = m
  <2>1. queue' = Append(queue, m)
    BY DEF Handle, Asked
  <2> QED
    BY <1>1, <2>1, Appended
<1>5. /\ \A a, b : Precedes(born, a, b) => Precedes(born', a, b)
      /\ j = "save" => \A a : Born(a) => Precedes(born', a, m)
  BY <1>1, <1>2, BornGrows
<1>6. \A i \in 1..Len(queue) : /\ queue'[i] \in Stanzas /\ queue'[i] # m
                               /\ job'[queue'[i]] = job[queue[i]]
                               /\ Saving(queue[i]) => Born(queue[i])
  <2>1. \A i \in 1..Len(queue) : job[queue[i]] # "none"
    BY DEF QueueInv, OneRequestEach, Awaits
  <2> QED
    BY <1>3, <1>4, <2>1, SavingIsBorn
<1>7. /\ \A i \in 1..Len(queue') : i \in 1..Len(queue) \/ i = Len(queue) + 1
      /\ \A i \in 1..Len(queue) : i < Len(queue) + 1 /\ ~(Len(queue) + 1 < i)
      /\ ~(Len(queue) + 1 < Len(queue) + 1)
  BY <1>4
<1>8. ASSUME NEW i \in 1..Len(queue'), NEW k \in 1..Len(queue'), GoesFirst(i, k)'
      PROVE  Precedes(born', queue'[i], queue'[k])
  <2>1. CASE i \in 1..Len(queue) /\ k \in 1..Len(queue)
    <3>1. GoesFirst(i, k)
      BY <1>6, <1>8, <2>1 DEF GoesFirst, Saving
    <3>2. Precedes(born, queue[i], queue[k])
      BY <2>1, <3>1 DEF ShowInv
    <3> QED
      BY <1>4, <1>5, <2>1, <3>2
  <2>2. CASE i \in 1..Len(queue) /\ k = Len(queue) + 1
    <3>1. job'[queue'[k]] = j
      BY <1>3, <1>4, <2>2
    <3>2. j = "save" /\ Saving(queue[i])
      BY <1>2, <1>6, <1>8, <2>2, <3>1 DEF GoesFirst, Saving
    <3> QED
      BY <1>4, <1>5, <1>6, <2>2, <3>2
  <2>3. CASE i = Len(queue) + 1
    <3>1. job'[queue'[i]] = j /\ j # "commit"
      BY <1>2, <1>3, <1>4, <2>3
    <3> QED
      BY <1>7, <1>8, <2>3, <3>1 DEF GoesFirst
  <2> QED
    BY <1>7, <2>1, <2>2, <2>3
<1>9. ASSUME NEW i \in 1..Len(shown), NEW k \in 1..Len(queue'), Saving(queue[k])'
      PROVE  Precedes(born', shown[i], queue'[k])
  <2>1. CASE k \in 1..Len(queue)
    BY <1>4, <1>5, <1>6, <1>9, <2>1 DEF ShowInv, Saving
  <2>2. CASE k = Len(queue) + 1
    <3>1. j = "save"
      BY <1>2, <1>3, <1>4, <1>9, <2>2 DEF Saving
    <3> QED
      BY <1>4, <1>5, <2>2, <3>1, SavingIsBorn
  <2> QED
    BY <1>7, <2>1, <2>2
<1>10. \A i, k \in 1..Len(shown) : i < k => Precedes(born', shown[i], shown[k])
  BY <1>5 DEF ShowInv
<1> QED
  BY <1>8, <1>9, <1>10 DEF ShowInv

(* The request that is executed goes first, and asks again after all       *)
(* others.                                                                 *)
LEMMA ExecuteKeepsShown ==
  ASSUME QueueInv, OrderInv, ShowInv, Execute
  PROVE  ShowInv'
<1>1. PICK m : m = queue[1]
  OBVIOUS
<1>2. PICK j : j = IF m \in gone THEN "over" ELSE After(job[m])
  OBVIOUS
<1> DEFINE L == Len(queue)
<1>3. /\ m \in Stanzas /\ job[m] \in Awaits /\ L \in Nat \ {0} /\ Len(queue') \in Nat
      /\ job'[m] = j /\ \A x \in Stanzas \ {m} : job'[x] = job[x]
      /\ \A i \in 1..(L - 1) :
           /\ i + 1 \in 1..L /\ i \in 1..Len(queue')
           /\ queue'[i] = queue[i + 1] /\ queue[i + 1] \in Stanzas \ {m}
      /\ \A i \in 1..Len(queue') : \/ i \in 1..(L - 1)
                                   \/ i = L /\ queue'[i] = m /\ j # "over"
      /\ born' = IF j = "save" THEN Append(born, m) ELSE born
      /\ shown' = IF m \notin gone /\ job[m] = "commit" THEN Append(shown, m) ELSE shown
  BY <1>1, <1>2, Executed
<1>4. /\ \A a, b : Precedes(born, a, b) => Precedes(born', a, b)
      /\ j = "save" => \A a : Born(a) => Precedes(born', a, m)
  <2>1. born \in Seq(Stanzas)
    BY DEF QueueInv, Types
  <2> QED
    BY <1>3, <2>1, BornGrows
<1>12. j = "commit" => job[m] = "save"
  BY <1>2, <1>3, AfterFacts
<1>5. /\ j = "commit" => job[m] = "save"
      /\ 1 \in 1..L /\ \A i \in 1..(L - 1) : 1 < i + 1 /\ ~(L < i) /\ i < L
      /\ \A i, k \in 1..(L - 1) : i < k => i + 1 < k + 1
  BY <1>3, <1>12
<1>6. \A i \in 1..(L - 1) : /\ job'[queue'[i]] = job[queue[i + 1]]
                            /\ Saving(queue[i + 1]) => Born(queue[i + 1])
  BY <1>3, SavingIsBorn
<1>7. \A i, k \in 1..L : GoesFirst(i, k) => Precedes(born, queue[i], queue[k])
  BY DEF ShowInv
<1> HIDE DEF L
<1>8. ASSUME NEW i \in 1..Len(queue'), NEW k \in 1..Len(queue'), GoesFirst(i, k)'
      PROVE  Precedes(born', queue'[i], queue'[k])
  <2>1. CASE i \in 1..(L - 1) /\ k \in 1..(L - 1)
    <3>1. GoesFirst(i + 1, k + 1)
      BY <1>5, <1>6, <1>8, <2>1 DEF GoesFirst, Saving
    <3>2. Precedes(born, queue[i + 1], queue[k + 1])
      BY <1>3, <1>7, <2>1, <3>1
    <3> QED
      BY <1>3, <1>4, <2>1, <3>2
  <2>2. CASE i \in 1..(L - 1) /\ k = L /\ queue'[k] = m
    <3>1. job'[queue'[k]] = j
      BY <1>3, <2>2
    <3>2. CASE j = "save"
      <4>1. Saving(queue[i + 1])
        BY <1>6, <1>8, <2>2, <3>1, <3>2 DEF GoesFirst, Saving
      <4> QED
        BY <1>3, <1>4, <1>6, <2>2, <3>2, <4>1
    <3>3. CASE j = "commit"
      <4>1. job[queue[i + 1]] = "commit" /\ job[m] = "save"
        BY <1>5, <1>6, <1>8, <2>2, <3>1, <3>3 DEF GoesFirst
      <4>2. GoesFirst(i + 1, 1)
        BY <1>1, <4>1 DEF GoesFirst
      <4>3. Precedes(born, queue[i + 1], queue[1])
        BY <1>3, <1>5, <1>7, <2>2, <4>2
      <4> QED
        BY <1>1, <1>3, <1>4, <2>2, <4>3
    <3> QED
      BY <1>8, <3>1, <3>2, <3>3 DEF GoesFirst, Saving
  <2>3. CASE i = L /\ queue'[i] = m /\ k \in 1..(L - 1)
    <3>1. job'[queue'[i]] = j /\ ~(i < k)
      BY <1>3, <1>5, <2>3
    <3>2. j = "commit" /\ job[queue[k + 1]] = "save"
      BY <1>6, <1>8, <2>3, <3>1 DEF GoesFirst
    <3>3. GoesFirst(1, k + 1)
      BY <1>1, <1>5, <2>3, <3>2 DEF GoesFirst, Saving
    <3>4. Precedes(born, queue[1], queue[k + 1])
      BY <1>3, <1>5, <1>7, <2>3, <3>3
    <3> QED
      BY <1>1, <1>3, <1>4, <2>3, <3>4
  <2>4. CASE i = L /\ k = L
    <3>1. ~(i < k) /\ "save" # "commit"
      BY <1>3, <2>4
    <3> QED
      BY <1>8, <2>4, <3>1 DEF GoesFirst
  <2> QED
    BY <1>3, <2>1, <2>2, <2>3, <2>4
<1>9. ASSUME NEW k \in 1..Len(queue'), Saving(queue[k])'
      PROVE  /\ \A i \in 1..Len(shown) : Precedes(born', shown[i], queue'[k])
             /\ (m \notin gone /\ job[m] = "commit") => Precedes(born', m, queue'[k])
  <2>1. CASE k \in 1..(L - 1)
    <3>1. Saving(queue[k + 1])
      BY <1>6, <1>9, <2>1 DEF Saving
    <3>2. \A i \in 1..Len(shown) : Precedes(born, shown[i], queue[k + 1])
      BY <1>3, <2>1, <3>1 DEF ShowInv, L
    <3>3. job[m] = "commit" => Precedes(born, m, queue[k + 1])
      <4>1. job[m] = "commit" => GoesFirst(1, k + 1)
        BY <1>1, <1>5, <2>1, <3>1 DEF GoesFirst, Saving
      <4> QED
        BY <1>1, <1>3, <1>5, <1>7, <2>1, <4>1
    <3> QED
      BY <1>3, <1>4, <2>1, <3>2, <3>3
  <2>2. CASE k = L /\ queue'[k] = m
    <3>1. j = "save" \/ j = "commit"
      BY <1>3, <1>9, <2>2 DEF Saving
    <3>2. ~(m \notin gone /\ job[m] = "commit")
      BY <1>2, <3>1 DEF After
    <3>3. CASE j = "save"
      BY <1>4, <2>2, <3>2, <3>3, SavingIsBorn
    <3>4. CASE j = "commit"
      <4>1. Saving(queue[1]) /\ 1 \in 1..Len(queue)
        BY <1>1, <1>5, <3>4 DEF Saving, L
      <4>2. \A i \in 1..Len(shown) : Precedes(born, shown[i], m)
        BY <1>1, <4>1 DEF ShowInv
      <4> QED
        BY <1>4, <2>2, <3>2, <4>2
    <3> QED
      BY <3>1, <3>3, <3>4
  <2> QED
    BY <1>3, <1>9, <2>1, <2>2
<1>10. CASE shown' = shown
  <2>1. \A i, k \in 1..Len(shown) : i < k => Precedes(born', shown[i], shown[k])
    BY <1>4 DEF ShowInv
  <2> QED
    BY <1>8, <1>9, <1>10, <2>1 DEF ShowInv
<1>11. CASE m \notin gone /\ job[m] = "commit"
  <2>1. shown \in Seq(Stanzas) /\ shown' = Append(shown, m)
    BY <1>3, <1>11 DEF QueueInv, Types
  <2>2. /\ Len(shown') = Len(shown) + 1 /\ Len(shown) \in Nat
        /\ \A i \in 1..Len(shown) : shown'[i] = shown[i]
        /\ shown'[Len(shown) + 1] = m
    BY <1>3, <2>1, Appended
  <2>3. /\ \A i \in 1..Len(shown') : i \in 1..Len(shown) \/ i = Len(shown) + 1
        /\ \A k \in 1..Len(shown') : ~(Len(shown) + 1 < k)
    BY <2>2
  <2>4. \A i \in 1..Len(shown) : Precedes(born, shown[i], m)
    <3>1. Saving(queue[1]) /\ 1 \in 1..Len(queue)
      BY <1>1, <1>5, <1>11 DEF Saving, L
    <3> QED
      BY <1>1, <3>1 DEF ShowInv
  <2>5. ASSUME NEW i \in 1..Len(shown'), NEW k \in 1..Len(shown'), i < k
        PROVE  Precedes(born', shown'[i], shown'[k])
    <3>1. i \in 1..Len(shown)
      BY <2>3, <2>5
    <3>2. k \in 1..Len(shown) => Precedes(born, shown[i], shown[k])
      BY <2>5, <3>1 DEF ShowInv
    <3> QED
      BY <1>4, <2>2, <2>3, <2>4, <3>1, <3>2
  <2>6. \A i \in 1..Len(shown') : \A k \in 1..Len(queue') :
          Saving(queue[k])' => Precedes(born', shown'[i], queue'[k])
    BY <1>9, <1>11, <2>2, <2>3
  <2> QED
    BY <1>8, <2>5, <2>6 DEF ShowInv
<1> QED
  BY <1>3, <1>10, <1>11

(* What is shown is in the history.                                        *)
LEMMA ShownIsListed ==
  ASSUME QueueInv, ShowInv
  PROVE  ShownInHistoryOrder
<1>1. \A i \in 1..Len(shown) : shown[i] \in rows
  BY DEF QueueInv, PushedIsKept, HandlersKnow
<1> QED
  BY <1>1 DEF ShowInv, ShownInHistoryOrder, ListedBefore

-----------------------------------------------------------------------------
(* The messages of a stream.                                               *)

\* A message of a stream that did not come with its header.
Counts(s, n) == Sent[s][n] = "message" /\ header[s] < 2 * n - 1

\* A stream has one handler at a time, which has the stanza taken last.
OneAtATime ==
  \A m \in Stanzas : m[1] \in Streams =>
    /\ m \in gone => loop[m[1]] = "ended"
    /\ (job[m] \in Awaits /\ m \notin gone) =>
         loop[m[1]] = "busy" /\ cut[m[1]] = 2 * m[2]

\* Behind the header the buffer is cut after whole stanzas.
CutBetween ==
  \A s \in Streams : cut[s] = header[s] \/ \E k \in 1..Len(Sent[s]) : cut[s] = 2 * k

\* A loop goes on when the message it took is committed.
TakenIsKept ==
  \A s \in Streams : \A n \in 1..Len(Sent[s]) : Counts(s, n) =>
    /\ 2 * n < cut[s] => <<s, n>> \in kept.rows
    /\ (loop[s] = "read" /\ 2 * n <= cut[s]) => <<s, n>> \in kept.rows

\* The handler of a presence saves no message.
PresenceIsNoMessage ==
  \A m \in Stanzas : (job[m] = "save presence" \/ job[m] = "commit presence") =>
                       Kind(m) # "message"

\* The messages of a stream are born in the order they were sent.
BornAsSent ==
  \A m \in Stanzas : (m[1] \in Streams /\ Born(m)) =>
    \A n \in 1..(m[2] - 1) : Counts(m[1], n) => Precedes(born, <<m[1], n>>, m)

StreamInv ==
  /\ OneAtATime /\ CutBetween /\ TakenIsKept /\ PresenceIsNoMessage /\ BornAsSent

(* What is kept is saved, and what is saved is born and was taken.         *)
LEMMA KeptIsTaken ==
  ASSUME QueueInv, OrderInv
  PROVE  /\ kept.rows \subseteq rows /\ rows \subseteq Stanzas
         /\ \A m \in Stanzas : m \in rows => Born(m)
         /\ \A m \in Stanzas : Born(m) => job[m] # "none"
         /\ \A m \in Stanzas : (m[1] \in Streams /\ job[m] # "none") => 2 * m[2] <= cut[m[1]]
<1>1. ASSUME NEW m \in Stanzas, m[1] \in Streams, job[m] # "none"
      PROVE  2 * m[2] <= cut[m[1]]
  <2>1. m = <<m[1], m[2]>> /\ m[2] \in 1..Len(Sent[m[1]])
    BY StanzaFacts
  <2>2. ~(cut[m[1]] < 2 * m[2])
    BY <1>1, <2>1 DEF QueueInv, ComingIsNew
  <2>3. cut[m[1]] \in Nat /\ 2 * m[2] \in Nat
    BY <1>1, <2>1 DEF QueueInv, Types
  <2> QED
    BY <2>2, <2>3
<1> QED
  BY <1>1 DEF QueueInv, Types, HandlersKnow, OrderInv, BornThenSaved

(* The history of a stream has no gap.                                     *)
LEMMA NoGapFollows ==
  ASSUME QueueInv, OrderInv, StreamInv
  PROVE  StreamHasNoGap
<1> SUFFICES ASSUME NEW m \in rows, m[1] \in Streams, NEW n \in 1..(m[2] - 1),
                    Sent[m[1]][n] = "message", 2 * n - 1 > header[m[1]]
             PROVE  ListedBefore(<<m[1], n>>, m)
  BY DEF StreamHasNoGap
<1>1. m \in Stanzas /\ Born(m) /\ 2 * m[2] <= cut[m[1]]
  BY KeptIsTaken
<1>2. m[2] \in 1..Len(Sent[m[1]]) /\ Len(Sent[m[1]]) \in Nat
  BY <1>1, StanzaFacts
<1>7. header[m[1]] \in Nat /\ cut[m[1]] \in Nat
  BY DEF QueueInv, Types
<1>3. /\ n \in 1..Len(Sent[m[1]]) /\ 2 * n < 2 * m[2]
      /\ header[m[1]] \in Nat /\ cut[m[1]] \in Nat
  BY <1>2, <1>7
<1>4. Counts(m[1], n) /\ 2 * n < cut[m[1]]
  BY <1>1, <1>2, <1>3 DEF Counts
<1>5. <<m[1], n>> \in rows
  BY <1>3, <1>4, KeptIsTaken DEF StreamInv, TakenIsKept
<1>6. Precedes(born, <<m[1], n>>, m)
  BY <1>1, <1>4 DEF StreamInv, BornAsSent
<1> QED
  BY <1>5, <1>6 DEF ListedBefore

(* What was taken before a handler that lives is kept, and so born.        *)
LEMMA TakenBefore ==
  ASSUME QueueInv, OrderInv, StreamInv, NEW s \in Streams, NEW k \in Nat, k <= cut[s],
         NEW n \in 1..Len(Sent[s]), Counts(s, n), 2 * n < k
  PROVE  <<s, n>> \in kept.rows /\ Born(<<s, n>>)
<1>1. cut[s] \in Nat /\ 2 * n \in Nat
  BY DEF QueueInv, Types
<1>2. 2 * n < cut[s]
  BY <1>1
<1>3. <<s, n>> \in kept.rows
  BY <1>2 DEF StreamInv, TakenIsKept
<1> QED
  BY <1>3, KeptIsTaken

(* A message is born after those of its stream that were born before.      *)
LEMMA BornKeepsSent ==
  ASSUME QueueInv, OrderInv, StreamInv, header' = header, NEW m \in Stanzas, NEW j,
         born' = IF j = "save" THEN Append(born, m) ELSE born,
         (j = "save" /\ m[1] \in Streams) =>
           \A n \in 1..(m[2] - 1) : Counts(m[1], n) => Born(<<m[1], n>>)
  PROVE  BornAsSent'
<1>1. /\ \A a, b : Precedes(born, a, b) => Precedes(born', a, b)
      /\ \A x : Born(x)' <=> (Born(x) \/ (j = "save" /\ x = m))
      /\ j = "save" => \A a : Born(a) => Precedes(born', a, m)
  <2>1. born \in Seq(Stanzas)
    BY DEF QueueInv, Types
  <2> QED
    BY <2>1, BornGrows
<1>2. \A s, n : Counts(s, n)' <=> Counts(s, n)
  BY DEF Counts
<1>3. ASSUME NEW x \in Stanzas, x[1] \in Streams, Born(x)',
             NEW n \in 1..(x[2] - 1), Counts(x[1], n)
      PROVE  Precedes(born', <<x[1], n>>, x)
  <2>1. CASE Born(x)
    BY <1>1, <1>3, <2>1 DEF StreamInv, BornAsSent
  <2>2. CASE j = "save" /\ x = m
    BY <1>1, <1>3, <2>2
  <2> QED
    BY <1>1, <1>3, <2>1, <2>2
<1> QED
  BY <1>2, <1>3 DEF BornAsSent

(* The stanza that is taken leaves no message behind.                      *)
LEMMA TakesTheNext ==
  ASSUME QueueInv, StreamInv, NEW s \in Streams, NEW n \in Extracted(s),
         NEW k \in 1..Len(Sent[s]), Counts(s, k), k < n
  PROVE  2 * k <= cut[s]
<1>1. /\ cut[s] \in Nat /\ header[s] \in Nat /\ got[s] \in Nat
      /\ n \in 1..Len(Sent[s]) /\ 2 * n <= got[s]
  BY ExtractedFacts DEF QueueInv, Types
<1>2. SUFFICES ASSUME ~(2 * k <= cut[s]) PROVE FALSE
  OBVIOUS
<1>3. cut[s] < 2 * k - 1
  <2>1. CASE cut[s] = header[s]
    BY <1>1, <2>1 DEF Counts
  <2>2. ASSUME NEW i \in 1..Len(Sent[s]), cut[s] = 2 * i PROVE cut[s] < 2 * k - 1
    BY <1>1, <1>2, <2>2
  <2> QED
    BY <2>1, <2>2 DEF StreamInv, CutBetween
<1>4. k \in Opened(s, "message")
  BY <1>1, <1>3 DEF Opened, Counts
<1>5. First(Opened(s, "message")) <= k
  <2>1. Opened(s, "message") \in SUBSET Nat
    BY DEF Opened
  <2>2. \E x \in Opened(s, "message") : \A y \in Opened(s, "message") : x <= y
    BY <1>4, <2>1, LeastOfNat
  <2> QED
    BY <1>4, <2>2 DEF First
<1>6. n = First(Opened(s, "message"))
  BY <1>4 DEF Extracted, Found
<1> QED
  BY <1>1, <1>5, <1>6

(* The last awaits of a handler, and those of a presence.                  *)
LEMMA AfterPresence ==
  ASSUME NEW j, j \in Awaits
  PROVE  /\ After(j) = "over" => j = "commit" \/ j = "commit presence"
         /\ After(j) # "save presence"
         /\ After(j) = "commit presence" => j = "save presence"
BY DEF After, Awaits

(* A stream has no second handler that lives.                              *)
LEMMA OnlyHandler ==
  ASSUME StreamInv, NEW m \in Stanzas, NEW x \in Stanzas, m[1] \in Streams, x[1] = m[1],
         job[m] \in Awaits, job[x] \in Awaits, x \notin gone
  PROVE  x = m
<1>1. loop[x[1]] = "busy" /\ cut[x[1]] = 2 * x[2]
  BY DEF StreamInv, OneAtATime
<1>2. m \notin gone
  BY <1>1 DEF StreamInv, OneAtATime
<1>3. cut[m[1]] = 2 * m[2]
  BY <1>2 DEF StreamInv, OneAtATime
<1>4. m[2] \in Nat /\ x[2] \in Nat /\ m = <<m[1], m[2]>> /\ x = <<x[1], x[2]>>
  BY StanzaFacts
<1>5. m[2] = x[2]
  BY <1>1, <1>3, <1>4
<1> QED
  BY <1>4, <1>5

(* Steps of the read loops that take no stanza, and streams that end.      *)
LEMMA LoopsKeepStreams ==
  ASSUME StreamInv, UNCHANGED <<job, cut, header, kept, born>>, gone \subseteq gone',
         \A m \in Stanzas : (m \in gone' /\ m \notin gone) => loop'[m[1]] = "ended",
         \A s \in Streams :
           \/ loop'[s] = loop[s]
           \/ /\ loop'[s] = "ended"
              /\ \A m \in Stanzas : (m[1] = s /\ job[m] \in Awaits) => m \in gone'
  PROVE  StreamInv'
<1>1. OneAtATime'
  BY DEF StreamInv, OneAtATime
<1>2. TakenIsKept'
  BY DEF StreamInv, TakenIsKept, Counts
<1>3. CutBetween' /\ PresenceIsNoMessage' /\ BornAsSent'
  BY DEF StreamInv, CutBetween, PresenceIsNoMessage, BornAsSent, Born, Counts
<1> QED
  BY <1>1, <1>2, <1>3 DEF StreamInv

(* A stream that opens has had no handler.                                 *)
LEMMA OpenKeepsStreams ==
  ASSUME QueueInv, OrderInv, StreamInv, NEW s \in Streams, Open(s)
  PROVE  StreamInv'
<1>1. PICK n \in Nat : cut' = [cut EXCEPT ![s] = n] /\ header' = [header EXCEPT ![s] = n]
  <2>1. Len(Sent[s]) \in Nat
    BY StanzaFacts DEF Sources
  <2>2. \A n \in Swallowed(s) : n \in Nat
    BY <2>1 DEF Swallowed
  <2> QED
    BY <2>2 DEF Open
<1>2. /\ loop' = [loop EXCEPT ![s] = "read"] /\ loop[s] = "new"
      /\ UNCHANGED <<job, kept, born, gone>>
  BY DEF Open
<1>3. /\ loop \in [Streams -> {"new", "read", "busy", "ended"}]
      /\ cut \in [Streams -> Nat] /\ header \in [Streams -> Nat] /\ cut[s] = 0
  BY <1>2 DEF QueueInv, Types
<1>4. \A m \in Stanzas : m[1] = s => job[m] = "none" /\ ~Born(m) /\ m \notin gone
  <2>1. ASSUME NEW m \in Stanzas, m[1] = s, job[m] # "none" PROVE FALSE
    <3>1. 2 * m[2] <= cut[s] /\ m[2] \in Nat \ {0}
      BY <2>1, KeptIsTaken, StanzaFacts
    <3> QED
      BY <1>3, <3>1
  <2>2. \A m \in Stanzas : m[1] = s => m \notin gone
    BY <1>2 DEF StreamInv, OneAtATime
  <2> QED
    BY <2>1, <2>2, KeptIsTaken
<1>5. /\ loop'[s] = "read" /\ cut'[s] = n /\ header'[s] = n
      /\ \A x \in Streams \ {s} : loop'[x] = loop[x] /\ cut'[x] = cut[x] /\ header'[x] = header[x]
  BY <1>1, <1>2, <1>3
<1>6. \A x \in Streams \ {s} : \A k : Counts(x, k)' <=> Counts(x, k)
  BY <1>5 DEF Counts
<1>7. OneAtATime'
  BY <1>2, <1>4, <1>5 DEF StreamInv, OneAtATime, Awaits
<1>8. CutBetween'
  BY <1>5 DEF StreamInv, CutBetween
<1>9. TakenIsKept'
  <2>1. ASSUME NEW k \in 1..Len(Sent[s]), Counts(s, k)' PROVE ~(2 * k <= n)
    <3>1. n < 2 * k - 1 /\ k \in Nat
      BY <1>5, <2>1 DEF Counts
    <3> QED
      BY <3>1
  <2>2. \A k \in 1..Len(Sent[s]) : 2 * k < n => 2 * k <= n
    OBVIOUS
  <2> QED
    BY <1>2, <1>5, <1>6, <2>1, <2>2 DEF StreamInv, TakenIsKept
<1>10. PresenceIsNoMessage'
  BY <1>2 DEF StreamInv, PresenceIsNoMessage
<1>11. BornAsSent'
  BY <1>2, <1>4, <1>6 DEF StreamInv, BornAsSent, Born
<1> QED
  BY <1>7, <1>8, <1>9, <1>10, <1>11 DEF StreamInv

(* The handler that starts, and how it starts.                             *)
LEMMA Handled ==
  ASSUME QueueInv, NEW m \in Stanzas, Handle(m)
  PROVE  \E j : /\ j \in Awaits /\ j # "commit presence"
                /\ j = "save presence" => Kind(m) # "message"
                /\ job'[m] = j /\ \A x \in Stanzas \ {m} : job'[x] = job[x]
                /\ born' = IF j = "save" THEN Append(born, m) ELSE born
<1>1. PICK j :
        /\ j = "save" \/ j = "save chat" \/ j = "save presence"
        /\ j = "save presence" => Kind(m) # "message"
        /\ job' = [job EXCEPT ![m] = j]
        /\ born' = IF j = "save" THEN Append(born, m) ELSE born
  BY DEF Handle, FirstAwait, MadeBefore
<1>2. job'[m] = j /\ \A x \in Stanzas \ {m} : job'[x] = job[x]
  BY <1>1 DEF QueueInv, Types
<1>3. j \in Awaits
  BY <1>1 DEF Awaits
<1> QED
  BY <1>1, <1>2, <1>3

(* A read loop takes a stanza and starts its handler.                      *)
LEMMA DispatchKeepsStreams ==
  ASSUME QueueInv, OrderInv, StreamInv, NEW s \in Streams, Dispatch(s)
  PROVE  StreamInv'
<1>1. PICK n \in Extracted(s) :
        /\ cut' = [cut EXCEPT ![s] = 2 * n]
        /\ IF Kind(<<s, n>>) = "iq"
           THEN UNCHANGED <<loop, job, queue, sessions, born, direct>>
           ELSE /\ loop' = [loop EXCEPT ![s] = "busy"]
                /\ Handle(<<s, n>>)
  BY DEF Dispatch, Rest
<1>2. /\ loop[s] = "read" /\ UNCHANGED <<header, gone, kept>>
      /\ s \in Sources
  BY DEF Dispatch, Sources
<1>3. /\ n \in 1..Len(Sent[s]) /\ cut[s] < 2 * n - 1 /\ Len(Sent[s]) \in Nat
      /\ loop \in [Streams -> {"new", "read", "busy", "ended"}]
      /\ cut \in [Streams -> Nat] /\ header \in [Streams -> Nat]
  BY <1>2, ExtractedFacts, StanzaFacts DEF QueueInv, Types
<1>4. PICK m \in Stanzas : m = <<s, n>>
  BY <1>2, <1>3, StanzaFacts
<1>5. cut'[s] = 2 * n /\ \A x \in Streams \ {s} : cut'[x] = cut[x]
  BY <1>1, <1>3
<1>6. \A x, k : Counts(x, k)' <=> Counts(x, k)
  BY <1>2 DEF Counts
<1>7. ASSUME NEW k \in 1..Len(Sent[s]), Counts(s, k), k < n
      PROVE  <<s, k>> \in kept.rows /\ Born(<<s, k>>)
  <2>1. 2 * k <= cut[s]
    BY <1>7, TakesTheNext
  <2>2. <<s, k>> \in kept.rows
    BY <1>2, <1>7, <2>1 DEF StreamInv, TakenIsKept
  <2> QED
    BY <2>2, KeptIsTaken
<1>8. CutBetween'
  BY <1>2, <1>3, <1>5 DEF StreamInv, CutBetween
<1>9. \A k \in 1..Len(Sent[s]) : (2 * k < 2 * n <=> k < n) /\ (2 * k <= 2 * n => (k < n \/ k = n))
  BY <1>3
<1>10. \A x \in Stanzas : (x[1] = s /\ job[x] \in Awaits) => x \in gone
  BY <1>2 DEF StreamInv, OneAtATime
<1>11. CASE Kind(m) = "iq"
  <2>1. UNCHANGED <<loop, job, born>>
    BY <1>1, <1>4, <1>11
  <2>2. OneAtATime'
    BY <1>2, <1>5, <1>10, <2>1 DEF StreamInv, OneAtATime
  <2>3. ~Counts(s, n)
    BY <1>4, <1>11 DEF Counts, Kind
  <2>4. TakenIsKept'
    <3>1. ASSUME NEW k \in 1..Len(Sent[s]), Counts(s, k), 2 * k <= 2 * n
          PROVE  <<s, k>> \in kept.rows
      BY <1>7, <1>9, <2>3, <3>1
    <3>2. \A k \in 1..Len(Sent[s]) : 2 * k < 2 * n => 2 * k <= 2 * n
      BY <1>3
    <3> QED
      BY <1>2, <1>5, <1>6, <2>1, <3>1, <3>2 DEF StreamInv, TakenIsKept
  <2>5. PresenceIsNoMessage' /\ BornAsSent'
    BY <1>6, <2>1 DEF StreamInv, PresenceIsNoMessage, BornAsSent, Born
  <2> QED
    BY <1>8, <2>2, <2>4, <2>5 DEF StreamInv
<1>12. CASE Kind(m) # "iq"
  <2>1. loop' = [loop EXCEPT ![s] = "busy"] /\ Handle(m)
    BY <1>1, <1>4, <1>12
  <2>2. PICK j : /\ j \in Awaits /\ j # "commit presence"
                 /\ j = "save presence" => Kind(m) # "message"
                 /\ job'[m] = j /\ \A x \in Stanzas \ {m} : job'[x] = job[x]
                 /\ born' = IF j = "save" THEN Append(born, m) ELSE born
    BY <2>1, Handled
  <2>3. loop'[s] = "busy" /\ \A x \in Streams \ {s} : loop'[x] = loop[x]
    BY <1>3, <2>1
  <2>4. m \notin gone
    BY <1>2, <1>4 DEF StreamInv, OneAtATime
  <2>5. m[1] = s /\ m[2] = n
    BY <1>4
  <2>6. OneAtATime'
    <3>1. ASSUME NEW x \in Stanzas, x[1] \in Streams, x # m
          PROVE  /\ x \in gone' => loop'[x[1]] = "ended"
                 /\ (job'[x] \in Awaits /\ x \notin gone') =>
                      loop'[x[1]] = "busy" /\ cut'[x[1]] = 2 * x[2]
      <4>1. CASE x[1] = s
        BY <1>2, <1>10, <2>2, <3>1, <4>1 DEF StreamInv, OneAtATime
      <4>2. CASE x[1] # s
        BY <1>2, <1>5, <2>2, <2>3, <3>1, <4>2 DEF StreamInv, OneAtATime
      <4> QED
        BY <4>1, <4>2
    <3>2. loop'[m[1]] = "busy" /\ cut'[m[1]] = 2 * m[2]
      BY <1>5, <2>3, <2>5
    <3> QED
      BY <1>2, <2>4, <3>1, <3>2 DEF OneAtATime
  <2>7. TakenIsKept'
    BY <1>2, <1>5, <1>6, <1>7, <1>9, <2>3 DEF StreamInv, TakenIsKept
  <2>8. PresenceIsNoMessage'
    BY <2>2 DEF StreamInv, PresenceIsNoMessage
  <2>9. BornAsSent'
    <3>1. \A k \in 1..(m[2] - 1) : k \in 1..Len(Sent[s]) /\ k < n
      BY <1>3, <2>5
    <3>2. \A k \in 1..(m[2] - 1) : Counts(m[1], k) => Born(<<m[1], k>>)
      BY <1>7, <2>5, <3>1
    <3> QED
      BY <1>2, <2>2, <3>2, BornKeepsSent
  <2> QED
    BY <1>8, <2>6, <2>7, <2>8, <2>9 DEF StreamInv
<1> QED
  BY <1>11, <1>12

(* A message of a server starts a handler of its own.                      *)
LEMMA ArriveKeepsStreams ==
  ASSUME QueueInv, OrderInv, StreamInv, NEW s \in Servers, Arrive(s)
  PROVE  StreamInv'
<1>1. s \in Sources /\ Len(Sent[s]) \in Nat /\ arrived[s] \in Nat
  BY StanzaFacts DEF Sources, QueueInv, Types
<1>2. PICK m \in Stanzas : m = <<s, arrived[s] + 1>>
  <2>1. arrived[s] + 1 \in 1..Len(Sent[s])
    BY <1>1 DEF Arrive
  <2> QED
    BY <1>1, <2>1, StanzaFacts
<1>3. Handle(m) /\ UNCHANGED <<loop, cut, header, gone, kept>> /\ m[1] \notin Streams
  BY <1>2, SourcesAssumption DEF Arrive
<1>4. PICK j : /\ j \in Awaits /\ j # "commit presence"
               /\ j = "save presence" => Kind(m) # "message"
               /\ job'[m] = j /\ \A x \in Stanzas \ {m} : job'[x] = job[x]
               /\ born' = IF j = "save" THEN Append(born, m) ELSE born
  BY <1>3, Handled
<1>5. OneAtATime'
  BY <1>3, <1>4 DEF StreamInv, OneAtATime
<1>6. CutBetween' /\ TakenIsKept'
  BY <1>3 DEF StreamInv, CutBetween, TakenIsKept, Counts
<1>7. PresenceIsNoMessage'
  BY <1>4 DEF StreamInv, PresenceIsNoMessage
<1>8. BornAsSent'
  BY <1>3, <1>4, BornKeepsSent
<1> QED
  BY <1>5, <1>6, <1>7, <1>8 DEF StreamInv

(* The handler of a stanza ends, and its loop with it or not.              *)
LEMMA ReturnKeeps ==
  ASSUME QueueInv, StreamInv, NEW m \in Stanzas, job[m] \in Awaits,
         NEW l \in {"read", "ended"}, Return(m, l),
         job'[m] = "over", \A x \in Stanzas \ {m} : job'[x] = job[x],
         cut' = cut, gone' = gone
  PROVE  /\ OneAtATime'
         /\ \A s \in Streams : \/ loop'[s] = loop[s]
                               \/ /\ loop'[s] = l /\ m[1] = s /\ loop[s] = "busy"
                                  /\ m \notin gone /\ cut[s] = 2 * m[2]
<1>1. loop \in [Streams -> {"new", "read", "busy", "ended"}]
  BY DEF QueueInv, Types
<1>2. (m[1] \in Streams /\ loop[m[1]] = "busy") => m \notin gone /\ cut[m[1]] = 2 * m[2]
  BY DEF StreamInv, OneAtATime
<1>3. /\ \A s \in Streams \ {m[1]} : loop'[s] = loop[s]
      /\ m[1] \in Streams => loop'[m[1]] = IF loop[m[1]] = "busy" THEN l ELSE loop[m[1]]
  BY <1>1 DEF Return
<1>4. ASSUME NEW x \in Stanzas, x[1] \in Streams, x # m
      PROVE  /\ x \in gone' => loop'[x[1]] = "ended"
             /\ (job'[x] \in Awaits /\ x \notin gone') =>
                  loop'[x[1]] = "busy" /\ cut'[x[1]] = 2 * x[2]
  <2>1. CASE x[1] # m[1]
    BY <1>3, <1>4, <2>1 DEF StreamInv, OneAtATime
  <2>2. CASE x[1] = m[1]
    <3>1. ~(job[x] \in Awaits /\ x \notin gone)
      BY <1>4, <2>2, OnlyHandler
    <3>2. x \in gone => loop'[x[1]] = "ended"
      BY <1>3, <1>4, <2>2 DEF StreamInv, OneAtATime
    <3> QED
      BY <1>4, <3>1, <3>2
  <2> QED
    BY <2>1, <2>2
<1>5. (m[1] \in Streams /\ m \in gone) => loop'[m[1]] = "ended"
  BY <1>3 DEF StreamInv, OneAtATime
<1>6. "over" \notin Awaits
  BY DEF Awaits
<1>7. OneAtATime'
  BY <1>4, <1>5, <1>6 DEF OneAtATime
<1> QED
  BY <1>2, <1>3, <1>7

(* A handler whose last request is executed has committed its message.     *)
LEMMA ExecuteKeepsStreams ==
  ASSUME QueueInv, OrderInv, StreamInv, Execute
  PROVE  StreamInv'
<1>1. PICK m : m = queue[1]
  OBVIOUS
<1>2. PICK j : j = IF m \in gone THEN "over" ELSE After(job[m])
  OBVIOUS
<1>3. /\ m \in Stanzas /\ job[m] \in Awaits
      /\ j = "over" \/ j \in Awaits
      /\ job'[m] = j /\ \A x \in Stanzas \ {m} : job'[x] = job[x]
      /\ kept.rows \subseteq kept'.rows
      /\ job[m] = "commit" => kept'.rows = rows /\ m \in rows
      /\ born' = IF j = "save" THEN Append(born, m) ELSE born
      /\ j = "over" => Return(m, "read")
      /\ j # "over" => loop' = loop
      /\ UNCHANGED <<got, cut, header, gone>>
  BY <1>1, <1>2, Executed
<1>4. \A s, n : Counts(s, n)' <=> Counts(s, n)
  BY <1>3 DEF Counts
<1>5. /\ j # "save presence"
      /\ j = "commit presence" => job[m] = "save presence"
      /\ (j = "over" /\ m \notin gone) => job[m] = "commit" \/ job[m] = "commit presence"
      /\ j # "over" => m \notin gone
  BY <1>2, <1>3, AfterPresence
<1>6. /\ OneAtATime'
      /\ \A s \in Streams : \/ loop'[s] = loop[s]
                            \/ /\ j = "over" /\ m[1] = s
                               /\ m \notin gone /\ cut[s] = 2 * m[2]
  <2>1. CASE j = "over"
    <3>1. "read" \in {"read", "ended"} /\ Return(m, "read") /\ job'[m] = "over"
      BY <1>3, <2>1
    <3> QED
      BY <1>3, <2>1, <3>1, ReturnKeeps
  <2>2. CASE j # "over"
    BY <1>3, <1>5, <2>2 DEF StreamInv, OneAtATime
  <2> QED
    BY <2>1, <2>2
<1>7. CutBetween'
  BY <1>3 DEF StreamInv, CutBetween
<1>8. TakenIsKept'
  <2>1. ASSUME NEW s \in Streams, NEW n \in 1..Len(Sent[s]), Counts(s, n),
               loop'[s] = "read", 2 * n <= cut[s]
        PROVE  <<s, n>> \in kept'.rows
    <3>1. CASE loop'[s] = loop[s]
      BY <1>3, <2>1, <3>1 DEF StreamInv, TakenIsKept
    <3>2. CASE j = "over" /\ m[1] = s /\ m \notin gone /\ cut[s] = 2 * m[2]
      <4>1. m = <<s, m[2]>> /\ m[2] \in Nat
        BY <1>3, <3>2, StanzaFacts
      <4>2. 2 * n < cut[s] \/ n = m[2]
        BY <2>1, <3>2, <4>1
      <4>3. ASSUME n = m[2] PROVE <<s, n>> \in kept'.rows
        <5>1. Kind(m) = "message"
          BY <2>1, <3>2, <4>3 DEF Counts, Kind
        <5>2. job[m] = "commit"
          BY <1>3, <1>5, <3>2, <5>1 DEF StreamInv, PresenceIsNoMessage
        <5> QED
          BY <1>3, <4>1, <4>3, <5>2
      <4>4. 2 * n < cut[s] => <<s, n>> \in kept.rows
        BY <2>1 DEF StreamInv, TakenIsKept
      <4> QED
        BY <1>3, <4>2, <4>3, <4>4
    <3> QED
      BY <1>6, <3>1, <3>2
  <2> QED
    BY <1>3, <1>4, <2>1 DEF StreamInv, TakenIsKept
<1>9. PresenceIsNoMessage'
  BY <1>3, <1>5 DEF StreamInv, PresenceIsNoMessage
<1>10. BornAsSent'
  <2>1. ASSUME m[1] \in Streams, NEW n \in 1..(m[2] - 1), Counts(m[1], n)
        PROVE  Born(<<m[1], n>>)
    <3>1. job[m] # "none"
      BY <1>3 DEF Awaits
    <3>2. 2 * m[2] <= cut[m[1]] /\ m[2] \in 1..Len(Sent[m[1]]) /\ Len(Sent[m[1]]) \in Nat
      BY <1>3, <2>1, <3>1, KeptIsTaken, StanzaFacts
    <3>3. 2 * m[2] \in Nat /\ n \in 1..Len(Sent[m[1]]) /\ 2 * n < 2 * m[2]
      BY <3>2
    <3> QED
      BY <2>1, <3>2, <3>3, TakenBefore
  <2> QED
    BY <1>3, <2>1, BornKeepsSent
<1> QED
  BY <1>6, <1>7, <1>8, <1>9, <1>10 DEF StreamInv

(* A handler that fails ends its loop.                                     *)
LEMMA FailKeepsStreams ==
  ASSUME QueueInv, StreamInv, Fail
  PROVE  StreamInv'
<1>1. PICK m : m = queue[1]
  OBVIOUS
<1>2. /\ queue # <<>> /\ Head(queue) = m /\ m \in Stanzas /\ job[m] \in Awaits
  BY <1>1, MovedUp DEF QueueInv, Fail
<1>3. /\ job' = [job EXCEPT ![m] = "over"] /\ Return(m, "ended")
      /\ UNCHANGED <<got, cut, header, gone, kept, born>>
  BY <1>2 DEF Fail, EndByFailure
<1>4. job'[m] = "over" /\ \A x \in Stanzas \ {m} : job'[x] = job[x]
  BY <1>2, <1>3 DEF QueueInv, Types
<1>5. /\ OneAtATime'
      /\ \A s \in Streams : loop'[s] = loop[s] \/ loop'[s] = "ended"
  <2>1. "ended" \in {"read", "ended"}
    OBVIOUS
  <2> QED
    BY <1>2, <1>3, <1>4, <2>1, ReturnKeeps
<1>6. CutBetween' /\ BornAsSent'
  BY <1>3 DEF StreamInv, CutBetween, BornAsSent, Born, Counts
<1>7. TakenIsKept'
  BY <1>3, <1>5 DEF StreamInv, TakenIsKept, Counts
<1>8. PresenceIsNoMessage'
  BY <1>4 DEF StreamInv, PresenceIsNoMessage
<1> QED
  BY <1>5, <1>6, <1>7, <1>8 DEF StreamInv

(* A new process has no handlers and reads no stream that was open.        *)
LEMMA RestartKeepsStreams ==
  ASSUME QueueInv, StreamInv, Restart
  PROVE  StreamInv'
<1>1. /\ \A s \in Streams : loop'[s] = IF loop[s] = "new" THEN "new" ELSE "ended"
      /\ \A m \in Stanzas : job'[m] = IF job[m] \in Awaits THEN "over" ELSE job[m]
      /\ UNCHANGED <<got, cut, header, gone, kept, born>>
  BY DEF Restart
<1>2. OneAtATime'
  <2>1. \A m \in Stanzas : job'[m] \notin Awaits
    BY <1>1 DEF Awaits
  <2> QED
    BY <1>1, <2>1 DEF StreamInv, OneAtATime
<1>3. CutBetween' /\ BornAsSent'
  BY <1>1 DEF StreamInv, CutBetween, BornAsSent, Born, Counts
<1>4. TakenIsKept'
  BY <1>1 DEF StreamInv, TakenIsKept, Counts
<1>5. PresenceIsNoMessage'
  BY <1>1 DEF StreamInv, PresenceIsNoMessage
<1> QED
  BY <1>2, <1>3, <1>4, <1>5 DEF StreamInv

(* Steps that touch neither the queue nor what was born and shown.         *)
LEMMA LoopsKeepShown ==
  ASSUME ShowInv, UNCHANGED tables
  PROVE  ShowInv'
<1>1. job' = job /\ queue' = queue /\ born' = born /\ shown' = shown
  BY DEF tables
<1>2. \A i, k \in 1..Len(queue) : GoesFirst(i, k)' = GoesFirst(i, k)
  BY <1>1 DEF GoesFirst, Saving
<1>3. \A x : Saving(x)' = Saving(x)
  BY <1>1 DEF Saving
<1>4. \A x, y : Precedes(born, x, y)' = Precedes(born, x, y)
  BY <1>1 DEF Precedes
<1>5. (\A i, k \in 1..Len(queue) : GoesFirst(i, k) => Precedes(born, queue[i], queue[k]))'
  BY <1>1, <1>2, <1>4 DEF ShowInv
<1>6. (\A i, k \in 1..Len(shown) : i < k => Precedes(born, shown[i], shown[k]))'
  BY <1>1, <1>4 DEF ShowInv
<1>7. (\A i \in 1..Len(shown) : \A k \in 1..Len(queue) :
         Saving(queue[k]) => Precedes(born, shown[i], queue[k]))'
  BY <1>1, <1>3, <1>4 DEF ShowInv
<1> QED
  BY <1>5, <1>6, <1>7 DEF ShowInv

(* When a request fails or the process ends, requests are only taken out   *)
(* of the queue.                                                           *)
LEMMA FaultsKeepShown ==
  ASSUME QueueInv, ShowInv, Fail \/ Restart
  PROVE  ShowInv'
<1>1. CASE Fail
  <2>1. PICK m : m = queue[1]
    OBVIOUS
  <2>2. /\ queue # <<>> /\ Head(queue) = m /\ m \in Stanzas /\ job[m] \in Awaits
        /\ Len(queue) \in Nat \ {0}
    BY <1>1, <2>1, MovedUp DEF QueueInv, Fail
  <2>3. /\ queue' = Tail(queue) /\ job' = [job EXCEPT ![m] = "over"]
        /\ born' = born /\ shown' = shown
    BY <1>1, <2>2 DEF Fail
  <2>4. /\ \A x \in Stanzas \ {m} : job'[x] = job[x]
        /\ Len(queue') = Len(queue) - 1
        /\ \A i \in 1..(Len(queue) - 1) : queue'[i] = queue[i + 1]
    BY <2>1, <2>2, <2>3, QueueMoves
  <2>5. \A i \in 1..Len(queue') : /\ i + 1 \in 1..Len(queue)
                                  /\ queue'[i] = queue[i + 1]
                                  /\ job'[queue'[i]] = job[queue[i + 1]]
    <3>1. /\ queue \in Seq(Stanzas)
          /\ \A i \in 1..(Len(queue) - 1) : queue[i + 1] # m /\ i + 1 \in 1..Len(queue)
      BY <2>1, <2>2, MovedUp DEF QueueInv, Types
    <3>2. \A i \in 1..Len(queue) : queue[i] \in Stanzas
      BY <3>1
    <3> QED
      BY <2>4, <3>1, <3>2
  <2>6. \A i, k \in 1..Len(queue') : i < k => i + 1 < k + 1
    BY <2>2, <2>4
  <2>7. ASSUME NEW i \in 1..Len(queue'), NEW k \in 1..Len(queue'), GoesFirst(i, k)'
        PROVE  Precedes(born, queue'[i], queue'[k])
    <3>1. GoesFirst(i + 1, k + 1)
      BY <2>5, <2>6, <2>7 DEF GoesFirst, Saving
    <3> QED
      BY <2>5, <3>1 DEF ShowInv
  <2>8. ASSUME NEW i \in 1..Len(shown), NEW k \in 1..Len(queue'), Saving(queue[k])'
        PROVE  Precedes(born, shown[i], queue'[k])
    <3>1. Saving(queue[k + 1])
      BY <2>5, <2>8 DEF Saving
    <3> QED
      BY <2>5, <3>1 DEF ShowInv
  <2> QED
    BY <2>3, <2>7, <2>8 DEF ShowInv
<1>2. CASE Restart
  <2>1. queue' = <<>> /\ born' = born /\ shown' = shown
    BY <1>2 DEF Restart
  <2>2. \A i \in 1..Len(queue') : FALSE
    BY <2>1
  <2> QED
    BY <2>1, <2>2 DEF ShowInv
<1> QED
  BY <1>1, <1>2

(* The steps of a stream.                                                  *)
LEMMA StreamKeepsStreams ==
  ASSUME QueueInv, OrderInv, StreamInv, ShowInv, NEW s \in Streams,
         Open(s) \/ (\E n \in Chunks : Read(s, n)) \/ Dispatch(s) \/ EndOfStream(s) \/ Cancel(s)
  PROVE  StreamInv' /\ ShowInv'
<1>1. CASE Open(s)
  <2>1. UNCHANGED tables
    BY <1>1 DEF Open, tables
  <2> QED
    BY <1>1, <2>1, OpenKeepsStreams, LoopsKeepShown
<1>2. CASE (\E n \in Chunks : Read(s, n)) \/ EndOfStream(s) \/ Cancel(s)
  <2>1. /\ UNCHANGED tables /\ cut' = cut /\ header' = header
    BY <1>2 DEF Read, EndOfStream, Cancel, tables
  <2>2. loop \in [Streams -> {"new", "read", "busy", "ended"}]
    BY DEF QueueInv, Types
  <2>3. /\ gone \subseteq gone'
        /\ \A m \in Stanzas : (m \in gone' /\ m \notin gone) => loop'[m[1]] = "ended"
        /\ \A x \in Streams :
             \/ loop'[x] = loop[x]
             \/ /\ loop'[x] = "ended"
                /\ \A m \in Stanzas : (m[1] = x /\ job[m] \in Awaits) => m \in gone'
    <3>1. CASE \E n \in Chunks : Read(s, n)
      BY <3>1 DEF Read
    <3>2. CASE EndOfStream(s)
      <4>1. \A m \in Stanzas : (m[1] = s /\ job[m] \in Awaits) => m \in gone
        BY <3>2 DEF EndOfStream, StreamInv, OneAtATime
      <4> QED
        BY <2>2, <3>2, <4>1 DEF EndOfStream
    <3>3. CASE Cancel(s)
      BY <2>2, <3>3 DEF Cancel
    <3> QED
      BY <1>2, <3>1, <3>2, <3>3
  <2>4. UNCHANGED <<job, kept, born>>
    BY <2>1 DEF tables
  <2> QED
    BY <2>1, <2>3, <2>4, LoopsKeepStreams, LoopsKeepShown
<1>3. CASE Dispatch(s)
  <2>1. PICK n \in Extracted(s) :
          IF Kind(<<s, n>>) = "iq"
          THEN UNCHANGED <<loop, job, queue, sessions, born, direct>>
          ELSE Handle(<<s, n>>)
    BY <1>3 DEF Dispatch
  <2>2. UNCHANGED <<arrived, gone, chats, rows, kept, shown, broken, lost>>
    BY <1>3 DEF Dispatch
  <2>3. ShowInv'
    <3>1. CASE Kind(<<s, n>>) = "iq"
      <4>1. UNCHANGED tables
        BY <2>1, <2>2, <3>1 DEF tables
      <4> QED
        BY <4>1, LoopsKeepShown
    <3>2. CASE Kind(<<s, n>>) # "iq"
      <4>1. n \in 1..Len(Sent[s]) /\ cut[s] < 2 * n
        <5>1. n \in 1..Len(Sent[s]) /\ cut[s] < 2 * n - 1
          BY ExtractedFacts
        <5>2. cut[s] \in Nat
          BY DEF QueueInv, Types
        <5> QED
          BY <5>1, <5>2
      <4>2. PICK m \in Stanzas : m = <<s, n>>
        BY <4>1, StanzaFacts DEF Sources
      <4>3. job[m] = "none"
        BY <4>1, <4>2 DEF QueueInv, ComingIsNew
      <4>4. Handle(m)
        BY <2>1, <3>2, <4>2
      <4> QED
        BY <2>2, <4>3, <4>4, HandleKeepsShown
    <3> QED
      BY <3>1, <3>2
  <2> QED
    BY <1>3, <2>3, DispatchKeepsStreams
<1> QED
  BY <1>1, <1>2, <1>3

\* What IncomingProofs knows of the database, the order of births, the streams
\* and what was shown.
HistoryInv == QueueInv /\ OrderInv /\ StreamInv /\ ShowInv

(* The streams and the user interfaces are served in order, whatever       *)
(* fails, is cancelled or restarted.                                       *)
THEOREM HistorySafety == Spec => []HistoryInv
<1>1. Init => StreamInv /\ ShowInv
  <2> SUFFICES ASSUME Init PROVE StreamInv /\ ShowInv
    OBVIOUS
  <2>1. /\ \A i \in 1..Len(queue) : FALSE
        /\ \A i \in 1..Len(shown) : FALSE
        /\ \A i \in 1..Len(born) : FALSE
    BY DEF Init
  <2>2. ShowInv
    BY <2>1 DEF ShowInv
  <2>3. OneAtATime /\ CutBetween /\ PresenceIsNoMessage /\ BornAsSent
    BY <2>1 DEF Init, OneAtATime, CutBetween, PresenceIsNoMessage, BornAsSent, Born, Awaits
  <2>4. TakenIsKept
    <3>1. \A s \in Streams : cut[s] = 0
      BY DEF Init
    <3>2. \A n \in Nat \ {0} : ~(2 * n <= 0) /\ ~(2 * n < 0)
      OBVIOUS
    <3>3. \A s \in Streams : \A n \in 1..Len(Sent[s]) : n \in Nat \ {0}
      OBVIOUS
    <3> QED
      BY <3>1, <3>2, <3>3 DEF TakenIsKept
  <2> QED
    BY <2>2, <2>3, <2>4 DEF StreamInv
<1>2. QueueInv /\ OrderInv /\ StreamInv /\ ShowInv /\ [Next]_vars => StreamInv' /\ ShowInv'
  <2> SUFFICES ASSUME QueueInv, OrderInv, StreamInv, ShowInv, [Next]_vars
               PROVE  StreamInv' /\ ShowInv'
    OBVIOUS
  <2>1. CASE UNCHANGED vars
    <3>1. /\ UNCHANGED tables /\ UNCHANGED <<job, cut, header, kept, born>>
          /\ gone' = gone /\ loop' = loop
      BY <2>1 DEF vars, tables
    <3> QED
      BY <3>1, LoopsKeepStreams, LoopsKeepShown
  <2>2. ASSUME NEW s \in Servers, Arrive(s) PROVE StreamInv' /\ ShowInv'
    <3>1. s \in Sources /\ Len(Sent[s]) \in Nat /\ arrived[s] \in Nat
      BY StanzaFacts DEF Sources, QueueInv, Types
    <3>2. arrived[s] + 1 \in 1..Len(Sent[s]) /\ arrived[s] < arrived[s] + 1
      BY <2>2, <3>1 DEF Arrive
    <3>3. PICK m \in Stanzas : m = <<s, arrived[s] + 1>>
      BY <3>1, <3>2, StanzaFacts
    <3>4. job[m] = "none" /\ Handle(m) /\ shown' = shown
      BY <2>2, <3>2, <3>3 DEF Arrive, QueueInv, ComingIsNew
    <3> QED
      BY <2>2, <3>4, ArriveKeepsStreams, HandleKeepsShown
  <2> QED
    BY <2>1, <2>2, StreamKeepsStreams, ExecuteKeepsStreams, ExecuteKeepsShown,
       FailKeepsStreams, RestartKeepsStreams, FaultsKeepShown DEF Next
<1> QED
  BY <1>1, <1>2, QueueSafety, OrderSafety, PTL DEF Spec, HistoryInv

(* A message of a direct stream is in the history only if every message    *)
(* the peer sent before it is there too, with an earlier time stamp.       *)
THEOREM StreamsHaveNoGap == Spec => []StreamHasNoGap
<1>1. HistoryInv => StreamHasNoGap
  BY NoGapFollows DEF HistoryInv
<1> QED
  BY <1>1, HistorySafety, PTL

(* What was pushed to the user interfaces, and what they read from the     *)
(* history later, have one order.                                          *)
THEOREM ShownAsInHistory == Spec => []ShownInHistoryOrder
<1>1. HistoryInv => ShownInHistoryOrder
  BY ShownIsListed DEF HistoryInv
<1> QED
  BY <1>1, HistorySafety, PTL

=============================================================================
