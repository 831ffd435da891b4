------------------------------- MODULE Incoming -------------------------------
(***************************************************************************)
(* The way of a message from the network into the history: the bytes of a  *)
(* direct stream and its read loop (transports/direct_p2p.py), the         *)
(* messages of the XMPP server (transports/xmpp_server.py), the handlers   *)
(* of the session manager (session.py), the tables of persistence.py and   *)
(* the events pushed to the user interfaces.                               *)
(*                                                                         *)
(* A direct stream is a row of tags: stanza n is its opening tag at place  *)
(* 2n-1 and its closing tag at place 2n; TCP hands over any number of tags *)
(* at a time.  A tag that is cut in two is one that has not come yet.  The *)
(* read loop awaits the handler of a stanza before it takes the next one;  *)
(* for the messages of the server every handler is a task of its own.      *)
(*                                                                         *)
(* aiosqlite executes statements and commits in the order they are asked   *)
(* for, one connection for all; a handler goes on when its own is done.    *)
(*                                                                         *)
(* Left out: the text of stanzas, a buffer over 65536 bytes, and who the   *)
(* sender of a stanza is taken for (ChatOf says into which chat it goes).  *)
(***************************************************************************)
EXTENDS Integers, Sequences, FiniteSets

CONSTANTS
  Streams,    \* direct streams, opened by peers or by the transport
  Servers,    \* sessions with an XMPP server
  Sent,       \* per source, the kinds of the stanzas it sends, in order
  ChatOf,     \* per source, the chat of its sender
  Chunks,     \* how many tags a read may return (bound)
  Uses,       \* the sets of sources that are there together
  MaxFaults   \* failing statements, cancelled streams and crashes (bound)

Sources == Streams \cup Servers
Kinds   == {"message", "presence", "iq"}

ASSUME SourcesAssumption == Streams \cap Servers = {}
ASSUME SentAssumption == Sent \in [Sources -> Seq(Kinds)]
ASSUME UsesAssumption == Uses \subseteq SUBSET Sources
ASSUME BoundsAssumption == MaxFaults \in Nat /\ Chunks \subseteq Nat \ {0}

\* Stanza n of source s.
Stanzas == UNION {{<<s, n>> : n \in 1..Len(Sent[s])} : s \in Sources}
Kind(m) == Sent[m[1]][m[2]]
Chat(m) == ChatOf[m[1]]
Chats   == {ChatOf[s] : s \in Sources}

VARIABLES
  loop,     \* of each stream: no read loop yet, reading, in a handler, ended
  got,      \* tags of each stream read so far
  cut,      \* tags no longer in the buffer of the read loop
  header,   \* history: tags that came with the header of the stream
  arrived,  \* messages each server has handed over
  job,      \* what the handler of each stanza awaits
  queue,    \* what aiosqlite has been asked for
  gone,     \* stanzas whose handler was cancelled while it awaited
  sessions, \* _sessions
  chats,    \* table chats as the connection sees it
  rows,     \* table messages as the connection sees it
  kept,     \* what is committed: [chats, rows]
  born,     \* history: messages in the order of their time stamps
  shown,    \* history: messages pushed as message.received, in that order
  direct,   \* history: messages whose handler found their chat in memory
  broken,   \* history: a statement failed
  lost,     \* history: stanzas whose handler ended with the process
  faults    \* faults so far

vars == <<loop, got, cut, header, arrived, job, queue, gone, sessions, chats,
          rows, kept, born, shown, direct, broken, lost, faults>>

\* The awaits of a handler, in the order of the code.
Awaits == {"save chat", "commit chat", "save", "commit", "save presence",
           "commit presence"}

TypeOK ==
  /\ loop \in [Streams -> {"new", "read", "busy", "ended"}]
  /\ \A s \in Streams : 0 <= cut[s] /\ cut[s] <= got[s] /\ got[s] <= 2 * Len(Sent[s])
  /\ header \in [Streams -> Nat]
  /\ \A s \in Servers : arrived[s] \in 0..Len(Sent[s])
  /\ job \in [Stanzas -> Awaits \cup {"none", "over"}]
  /\ queue \in Seq(Stanzas)
  /\ gone \subseteq Stanzas
  /\ sessions \subseteq Chats
  /\ chats \subseteq Chats
  /\ rows \subseteq Stanzas
  /\ kept \in [chats : SUBSET Chats, rows : SUBSET Stanzas]
  /\ born \in Seq(Stanzas)
  /\ shown \in Seq(Stanzas)
  /\ direct \subseteq Stanzas
  /\ broken \in BOOLEAN
  /\ lost \subseteq Stanzas
  /\ faults \in 0..MaxFaults

Init ==
  /\ \E use \in Uses :
       /\ loop = [s \in Streams |-> IF s \in use THEN "new" ELSE "ended"]
       /\ arrived = [s \in Servers |-> IF s \in use THEN 0 ELSE Len(Sent[s])]
  /\ got = [s \in Streams |-> 0]
  /\ cut = [s \in Streams |-> 0]
  /\ header = [s \in Streams |-> 0]
  /\ job = [m \in Stanzas |-> "none"]
  /\ queue = <<>>
  /\ gone = {}
  /\ sessions = {} /\ chats = {} /\ rows = {}
  /\ kept = [chats |-> {}, rows |-> {}]
  /\ born = <<>> /\ shown = <<>>
  /\ direct = {}
  /\ broken = FALSE
  /\ lost = {}
  /\ faults = 0

Fault == faults < MaxFaults /\ faults' = faults + 1

-----------------------------------------------------------------------------
(* Bytes and stanzas.                                                      *)

\* The stanzas of a kind whose opening tag is in the buffer.
Opened(s, kind) ==
  {n \in 1..Len(Sent[s]) :
     Sent[s][n] = kind /\ cut[s] < 2 * n - 1 /\ 2 * n - 1 <= got[s]}

First(S) == CHOOSE n \in S : \A k \in S : n <= k

\* _extract_stanza looks for a message first, then for a presence, then for
\* an iq; the first kind it finds an opening tag of decides.
Found(s) ==
  IF Opened(s, "message") # {} THEN {First(Opened(s, "message"))}
  ELSE IF Opened(s, "presence") # {} THEN {First(Opened(s, "presence"))}
  ELSE IF Opened(s, "iq") # {} THEN {First(Opened(s, "iq"))}
  ELSE {}

ExtractedAtEnd(s) == {n \in Found(s) : 2 * n = got[s]}

\* The stanza it returns, if its closing tag has come too.
Extracted(s) == {n \in Found(s) : 2 * n <= got[s]}

SkipsOne(s, n) == 2 * n + 1

\* What follows the stanza stays in the buffer, what precedes it does not.
Rest(s, n) == 2 * n

\* What _read_stream_open has read beyond the header is not given back: the
\* peer may have sent stanzas in the same segment, be it the one that dials
\* and does not wait for our header, or the one that answers ours.
Swallowed(s) == 0..(2 * Len(Sent[s]))

\* The header has been read and the read loop starts.
Open(s) ==
  /\ loop[s] = "new"
  /\ loop' = [loop EXCEPT ![s] = "read"]
  /\ \E n \in Swallowed(s) :
       /\ got' = [got EXCEPT ![s] = n]
       /\ cut' = [cut EXCEPT ![s] = n]
       /\ header' = [header EXCEPT ![s] = n]
  /\ UNCHANGED <<arrived, job, queue, gone, sessions, chats, rows, kept, born,
                 shown, direct, broken, lost, faults>>

\* reader.read(): some tags more; only when the buffer has no whole stanza.
Read(s, n) ==
  /\ loop[s] = "read"
  /\ Extracted(s) = {}
  /\ got[s] + n <= 2 * Len(Sent[s])
  /\ got' = [got EXCEPT ![s] = @ + n]
  /\ UNCHANGED <<loop, cut, header, arrived, job, queue, gone, sessions, chats,
                 rows, kept, born, shown, direct, broken, lost, faults>>

\* The peer ends the stream.
EndOfStream(s) ==
  /\ loop[s] = "read"
  /\ Extracted(s) = {}
  /\ got[s] = 2 * Len(Sent[s])
  /\ loop' = [loop EXCEPT ![s] = "ended"]
  /\ UNCHANGED <<got, cut, header, arrived, job, queue, gone, sessions, chats,
                 rows, kept, born, shown, direct, broken, lost, faults>>

-----------------------------------------------------------------------------
(* Handlers.                                                               *)

InFront(q, m) == <<m>> \o q

\* aiosqlite runs what it is asked for in one thread, first come first served.
Asked(q, m) == Append(q, m)

NeverSavesChat(known) == "save"

\* A message of a chat that is not in memory has its chat saved first.
FirstAwait(known) == IF known THEN "save" ELSE "save chat"

MadeOnArrival(j, known) == j = FirstAwait(known)

\* The message, with its time stamp, is made just before it is saved.
MadeBefore(j, known) == j = "save"

\* _handle_incoming_message and _handle_presence up to their first await.
Handle(m) ==
  LET known == Chat(m) \in sessions
      first == FirstAwait(known)
  IN /\ queue' = Asked(queue, m)
     /\ IF Kind(m) = "message"
        THEN /\ sessions' = sessions \cup {Chat(m)}
             /\ job' = [job EXCEPT ![m] = first]
             /\ born' = IF MadeBefore(first, known) THEN Append(born, m) ELSE born
             /\ direct' = IF known THEN direct \cup {m} ELSE direct
        ELSE /\ job' = [job EXCEPT ![m] = "save presence"]
             /\ UNCHANGED <<sessions, born, direct>>

\* The read loop takes a stanza and awaits its handler; an iq has none.
Dispatch(s) ==
  /\ loop[s] = "read"
  /\ \E n \in Extracted(s) :
       /\ cut' = [cut EXCEPT ![s] = Rest(s, n)]
       /\ IF Kind(<<s, n>>) = "iq"
          THEN UNCHANGED <<loop, job, queue, sessions, born, direct>>
          ELSE /\ loop' = [loop EXCEPT ![s] = "busy"]
               /\ Handle(<<s, n>>)
  /\ UNCHANGED <<got, header, arrived, gone, chats, rows, kept, shown, broken,
                 lost, faults>>

\* slixmpp starts a task for the next stanza of the server.
Arrive(s) ==
  /\ arrived[s] < Len(Sent[s])
  /\ arrived' = [arrived EXCEPT ![s] = @ + 1]
  /\ Handle(<<s, arrived[s] + 1>>)
  /\ UNCHANGED <<loop, got, cut, header, gone, chats, rows, kept, shown,
                 broken, lost, faults>>

\* A handler ends; its read loop goes on.
Return(m, l) == loop' = IF m[1] \in Streams /\ loop[m[1]] = "busy"
                        THEN [loop EXCEPT ![m[1]] = l] ELSE loop

\* The first request of the queue has its effect on the tables.
Effect(m) ==
  /\ chats' = IF job[m] = "save chat" THEN chats \cup {Chat(m)} ELSE chats
  /\ rows'  = IF job[m] = "save" THEN rows \cup {m} ELSE rows
  /\ kept'  = IF job[m] \in {"commit", "commit chat", "commit presence"}
              THEN [chats |-> chats, rows |-> rows] ELSE kept

PushOnSave(m) == job[m] = "save"

\* The message.received event follows the commit of the message.
Pushes(m) == job[m] = "commit"

\* The await that follows one.
After(j) ==
  CASE j = "save chat" -> "commit chat"
    [] j = "commit chat" -> "save"
    [] j = "save" -> "commit"
    [] j = "save presence" -> "commit presence"
    [] OTHER -> "over"

\* aiosqlite executes the first request, and its handler goes on to the next
\* await, unless it was cancelled meanwhile.
Execute ==
  /\ queue # <<>>
  /\ LET m == Head(queue) IN
       /\ Effect(m)
       /\ IF m \in gone \/ After(job[m]) = "over"
          THEN /\ queue' = Tail(queue)
               /\ job' = [job EXCEPT ![m] = "over"]
               /\ Return(m, "read")
          ELSE /\ queue' = Asked(Tail(queue), m)
               /\ job' = [job EXCEPT ![m] = After(job[m])]
               /\ UNCHANGED loop
       /\ born' = IF m \notin gone /\ job[m] = "commit chat" /\ MadeBefore("save", FALSE)
                  THEN Append(born, m) ELSE born
       /\ shown' = IF m \notin gone /\ Pushes(m) THEN Append(shown, m) ELSE shown
  /\ UNCHANGED <<got, cut, header, arrived, gone, sessions, direct, broken,
                 lost, faults>>

GoOnAfterFailure(m) == Return(m, "read")

\* The exception of a handler ends the read loop it was called from.
EndByFailure(m) == Return(m, "ended")

\* The first request fails.
Fail ==
  /\ queue # <<>>
  /\ Fault
  /\ queue' = Tail(queue)
  /\ job' = [job EXCEPT ![Head(queue)] = "over"]
  /\ EndByFailure(Head(queue))
  /\ broken' = TRUE
  /\ UNCHANGED <<got, cut, header, arrived, gone, sessions, chats, rows, kept,
                 born, shown, direct, lost>>

\* disconnect(), reconnect() or shutdown() cancels the read loop of a stream;
\* what its handler has asked aiosqlite for is executed all the same.
Cancel(s) ==
  /\ loop[s] \in {"read", "busy"}
  /\ Fault
  /\ loop' = [loop EXCEPT ![s] = "ended"]
  /\ gone' = gone \cup {m \in Stanzas : m[1] = s /\ job[m] \in Awaits}
  /\ UNCHANGED <<got, cut, header, arrived, job, queue, sessions, chats, rows,
                 kept, born, shown, direct, broken, lost>>

\* The process ends (or shutdown() closes the database), and a new one reads
\* the chats that were committed.
Restart ==
  /\ Fault
  /\ loop' = [s \in Streams |-> IF loop[s] = "new" THEN "new" ELSE "ended"]
  /\ job' = [m \in Stanzas |-> IF job[m] \in Awaits THEN "over" ELSE job[m]]
  /\ queue' = <<>>
  /\ sessions' = kept.chats
  /\ chats' = kept.chats
  /\ rows' = kept.rows
  /\ lost' = lost \cup {m \in Stanzas : job[m] \in Awaits}
  /\ UNCHANGED <<got, cut, header, arrived, gone, kept, born, shown, direct,
                 broken>>

Next ==
  \/ \E s \in Streams :
       \/ Open(s)
       \/ \E n \in Chunks : Read(s, n)
       \/ Dispatch(s)
       \/ EndOfStream(s)
       \/ Cancel(s)
  \/ \E s \in Servers : Arrive(s)
  \/ Execute
  \/ Fail
  \/ Restart

Fairness ==
  /\ \A s \in Streams : WF_vars(Open(s)) /\ WF_vars(Dispatch(s))
  /\ \A s \in Streams : WF_vars(\E n \in Chunks : Read(s, n))
  /\ \A s \in Servers : WF_vars(Arrive(s))
  /\ WF_vars(Execute)

Spec == Init /\ [][Next]_vars
LiveSpec == Spec /\ Fairness

Precedes(seq, a, b) ==
  \E i, j \in 1..Len(seq) : i < j /\ seq[i] = a /\ seq[j] = b

\* get_history returns the messages of the table in the order of their time
\* stamps: a and b are both there, and a comes before b.
ListedBefore(a, b) == {a, b} \subseteq rows /\ Precedes(born, a, b)

-----------------------------------------------------------------------------
(* Properties                                                              *)

\* However TCP cuts a stream into pieces and whatever fails, is cancelled or
\* restarted: a message of a direct stream is in the history only if every
\* message the peer sent before it on the stream is there too, with an earlier
\* time stamp.  Those that came with the header of the stream are lost.
StreamHasNoGap ==
  \A m \in rows :
    m[1] \in Streams =>
      \A n \in 1..(m[2] - 1) :
        (Sent[m[1]][n] = "message" /\ 2 * n - 1 > header[m[1]]) =>
          ListedBefore(<<m[1], n>>, m)

\* The handlers of the server's messages run side by side.  A message that
\* found its chat in memory, and was not cut off by the end of the process, is
\* saved before every later one of its sender (a
\* message that had to save the chat first may be overtaken).
ServerKeepsOrder ==
  ~broken =>
    \A b \in rows :
      \A n \in 1..(b[2] - 1) :
        (b[1] \in Servers /\ <<b[1], n>> \in direct \ lost) =>
          <<b[1], n>> \in rows /\ Precedes(born, <<b[1], n>>, b)

\* A message a user interface was told of is on disk: no crash takes it away.
PushedIsKept == \A i \in 1..Len(shown) : shown[i] \in kept.rows

\* User interfaces append what is pushed, and order what they read from the
\* history by time stamp: over all sources and handlers both are one order.
ShownInHistoryOrder ==
  \A i, j \in 1..Len(shown) : i < j => ListedBefore(shown[i], shown[j])

\* Unless a statement failed, every message in the history is in a chat that a
\* new process will list, in what the connection sees and in what is committed,
\* although it may be another handler that saves the chat.
SavedHasChat ==
  ~broken => /\ \A m \in rows : Chat(m) \in chats
             /\ \A m \in kept.rows : Chat(m) \in kept.chats

Unused(s) == IF s \in Servers THEN arrived[s] = Len(Sent[s]) /\ job[<<s, 1>>] = "none"
             ELSE loop[s] = "ended" /\ got[s] = 0

\* The opening tag of the message came with the header of its stream.
CameWithHeader(m) == m[1] \in Streams /\ 2 * m[2] - 1 <= header[m[1]]

\* Without faults every message of a peer or a server is shown in the end, but
\* for those that came with the header of their stream.
EveryMessageIsShown ==
  \A m \in Stanzas :
    Kind(m) = "message" =>
      <>(\/ faults > 0 \/ Unused(m[1]) \/ CameWithHeader(m)
         \/ \E i \in 1..Len(shown) : shown[i] = m)
=============================================================================
