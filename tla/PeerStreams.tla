---------------------------- MODULE PeerStreams ----------------------------
(***************************************************************************)
(* DirectP2PTransport (transports/direct_p2p.py): the TLS listener, the    *)
(* streams dialled to peers and accepted from them, their read loops, and  *)
(* the table _peers through which send_message finds the stream of a peer. *)
(*                                                                         *)
(* asyncio.Lock guards the changes of _peers.  Only disconnect() awaits    *)
(* while it holds the lock, so the lock is modelled by that coroutine; all *)
(* other critical sections are one step.  A free lock is taken without a   *)
(* suspension, a lock that is held or waited for is queued for: a stream   *)
(* is read from before it is in the table for as long as it queues.        *)
(*                                                                         *)
(* Left out: what is said on a stream (a message is handed to the session  *)
(* manager, a presence likewise), certificates and the text of errors.     *)
(***************************************************************************)
EXTENDS Integers, FiniteSets

CONSTANTS
  Peer,        \* JIDs that have an endpoint
  MaxStreams,  \* connections ever attempted, in both directions (bound)
  Caller       \* coroutines in connect_peer at the same time (bound)

ASSUME StreamsAssumption == MaxStreams \in Nat

Stream == 1..MaxStreams

VARIABLES
  server,     \* _server: none, listening, or closed and waited for
  state,      \* _state
  st,         \* where each stream is
  peer,       \* the peer of each stream
  inbound,    \* the streams the listener accepted
  gone,       \* external: streams whose remote end was closed
  peers,      \* _peers: the stream registered for each peer, 0 for none
  dial,       \* the stream each caller is establishing, 0 for none
  waiting,    \* the open streams whose coroutine queues to register them
  disc        \* where disconnect() is; it holds the lock in "peers"

vars == <<server, state, st, peer, inbound, gone, peers, dial, waiting, disc>>

(* dialing: open_connection; greeting: our stream header is sent; header:  *)
(* waiting for the remote's; up: the read loop runs; ending: it has left   *)
(* its loop and is to take the lock.                                       *)
StreamPc == {"unborn", "dialing", "greeting", "header", "up", "ending",
             "closed"}

TypeOK ==
  /\ server \in {"none", "listening", "closing"}
  /\ state \in {"disconnected", "connected", "error"}
  /\ st \in [Stream -> StreamPc]
  /\ peer \in [Stream -> Peer]
  /\ inbound \in SUBSET Stream
  /\ gone \in SUBSET Stream
  /\ peers \in [Peer -> 0..MaxStreams]
  /\ dial \in [Caller -> 0..MaxStreams]
  /\ waiting \in SUBSET Stream
  /\ disc \in {"idle", "peers", "server", "done"}

Init ==
  /\ server = "none" /\ state = "disconnected"
  /\ st = [s \in Stream |-> "unborn"]
  /\ peer \in [Stream -> Peer]
  /\ inbound = {} /\ gone = {}
  /\ peers = [p \in Peer |-> 0]
  /\ dial = [t \in Caller |-> 0]
  /\ waiting = {}
  /\ disc = "idle"

-----------------------------------------------------------------------------

SetStream(s, l) == st' = [st EXCEPT ![s] = l]

IsFresh(s) == st[s] = "unborn" /\ \A r \in 1..(s - 1) : st[r] # "unborn"

Unlocked == disc # "peers"

(* The reading of stream s starts.  Its coroutine, which caller t awaits   *)
(* or the listener started, has only then to take the lock for the entry.  *)
Opens(s) ==
  /\ SetStream(s, "up")
  /\ IF Unlocked /\ waiting = {}
       THEN /\ peers' = [peers EXCEPT ![peer[s]] = s]
            /\ dial' = [t \in Caller |-> IF dial[t] = s THEN 0 ELSE dial[t]]
            /\ UNCHANGED waiting
       ELSE waiting' = waiting \cup {s} /\ UNCHANGED <<peers, dial>>

(* A queued coroutine gets the lock, if need be after disconnect() has     *)
(* cleared the table; its stream may have ended by then.                   *)
Registers(s) ==
  /\ s \in waiting /\ Unlocked
  /\ waiting' = waiting \ {s}
  /\ peers' = [peers EXCEPT ![peer[s]] = s]
  /\ dial' = [t \in Caller |-> IF dial[t] = s THEN 0 ELSE dial[t]]
  /\ UNCHANGED <<server, state, st, peer, inbound, gone, disc>>

(* connect(): the listener.                                                *)
Listen ==
  /\ server = "none" /\ disc = "idle"
  /\ server' = "listening" /\ state' = "connected"
  /\ UNCHANGED <<st, peer, inbound, gone, peers, dial, waiting, disc>>

-----------------------------------------------------------------------------
(* connect_peer, for chat.start, chat.send_message, a drain or             *)
(* send_message of the transport.  A registered stream is taken as it is   *)
(* unless it is closing, which it does when the remote end is closed.      *)

Dial(t, s) ==
  /\ dial[t] = 0 /\ server # "none"
  /\ IsFresh(s)
  /\ peers[peer[s]] \in gone \cup {0}
  /\ SetStream(s, "dialing")
  /\ dial' = [dial EXCEPT ![t] = s]
  /\ UNCHANGED <<server, state, peer, inbound, gone, peers, waiting, disc>>

DialReturns(t) ==
  /\ dial[t] # 0 /\ st[dial[t]] = "dialing"
  /\ SetStream(dial[t], "greeting")
  /\ UNCHANGED <<server, state, peer, inbound, gone, peers, dial, waiting, disc>>

(* open_connection raises or takes 15 seconds: the state of the whole      *)
(* transport changes, and nothing but a new listener changes it back.      *)
DialFails(t) ==
  /\ dial[t] # 0 /\ st[dial[t]] = "dialing"
  /\ SetStream(dial[t], "closed")
  /\ state' = "error"
  /\ dial' = [dial EXCEPT ![t] = 0]
  /\ UNCHANGED <<server, peer, inbound, gone, peers, waiting, disc>>

(* The fingerprint does not match, or the stream breaks before it is open. *)
DialRefused(t) ==
  /\ dial[t] # 0 /\ st[dial[t]] \in {"dialing", "greeting"}
  /\ SetStream(dial[t], "closed")
  /\ dial' = [dial EXCEPT ![t] = 0]
  /\ UNCHANGED <<server, state, peer, inbound, gone, peers, waiting, disc>>

(* The remote's header, or the end of its stream, which is not told apart. *)
Greeted(t) ==
  /\ dial[t] # 0 /\ st[dial[t]] = "greeting"
  /\ Opens(dial[t])
  /\ UNCHANGED <<server, state, peer, inbound, gone, disc>>

-----------------------------------------------------------------------------
(* _connection_handler and _handle_inbound                                 *)

Accept(s) ==
  /\ server = "listening" /\ IsFresh(s)
  /\ SetStream(s, "header")
  /\ inbound' = inbound \cup {s}
  /\ UNCHANGED <<server, state, peer, gone, peers, dial, waiting, disc>>

(* Mutant: the JID is registered in place of its stream.                  *)
InboundRegistersJid(s) ==
  /\ st[s] = "header" /\ Unlocked
  /\ SetStream(s, "up")
  /\ peers' = [peers EXCEPT ![peer[s]] = peer[s]]
  /\ UNCHANGED <<server, state, peer, inbound, gone, dial, waiting, disc>>

InboundOpens(s) ==
  /\ st[s] = "header"
  /\ Opens(s)
  /\ UNCHANGED <<server, state, peer, inbound, gone, disc>>

(* A mismatch of fingerprints or an exception closes the connection; no    *)
(* stream header or no JID drops the last reference to it, which does too. *)
InboundRefused(s) ==
  /\ st[s] = "header"
  /\ SetStream(s, "closed")
  /\ UNCHANGED <<server, state, peer, inbound, gone, peers, dial, waiting, disc>>

(* External: the remote end of a stream is closed.                         *)
RemoteCloses(s) ==
  /\ s \notin gone /\ gone' = gone \cup {s}
  /\ \/ st[s] \in {"greeting", "up"} /\ UNCHANGED st
     \/ st[s] = "header" /\ SetStream(s, "closed")
  /\ UNCHANGED <<server, state, peer, inbound, peers, dial, waiting, disc>>

-----------------------------------------------------------------------------
(* _read_loop                                                              *)

(* The remote end is closed, or the handler of a stanza raises.            *)
ReadEnds(s) ==
  /\ st[s] = "up"
  /\ SetStream(s, "ending")
  /\ UNCHANGED <<server, state, peer, inbound, gone, peers, dial, waiting, disc>>

(* Mutant: the loop closes its stream and leaves the table alone.          *)
LeavesNoPop(s) ==
  /\ st[s] = "ending" /\ Unlocked
  /\ SetStream(s, "closed")
  /\ UNCHANGED <<server, state, peer, inbound, gone, peers, dial, waiting, disc>>

(* Mutant: the loop ends only where its stream is still the registered one.*)
LeavesIfRegistered(s) ==
  /\ st[s] = "ending" /\ Unlocked /\ peers[peer[s]] = s
  /\ peers' = [peers EXCEPT ![peer[s]] = 0]
  /\ SetStream(s, "closed")
  /\ UNCHANGED <<server, state, peer, inbound, gone, dial, waiting, disc>>

(* finally: whatever is registered for the peer by now is dropped, and the *)
(* loop's own stream is closed.  The loop asked for the lock after the     *)
(* coroutine that started it.  _close_peer cancels the loop that calls it, *)
(* which so ends at its next suspension, with the stream closing: unless   *)
(* that is in drain(), before close(), for a remote end that reads nothing.*)
Leaves(s) ==
  /\ st[s] = "ending" /\ Unlocked /\ s \notin waiting
  /\ peers' = [peers EXCEPT ![peer[s]] = 0]
  /\ SetStream(s, "closed")
  /\ UNCHANGED <<server, state, peer, inbound, gone, dial, waiting, disc>>

-----------------------------------------------------------------------------
(* disconnect()                                                            *)

DisconnectBegins ==
  /\ disc = "idle" /\ server = "listening"
  /\ disc' = "peers"
  /\ UNCHANGED <<server, state, st, peer, inbound, gone, peers, dial, waiting>>

(* Every registered stream is closed and its read loop cancelled, which    *)
(* asks for the lock or, if it did already, gives up its request; the      *)
(* table is cleared, the lock is released and the listener is closed.      *)
DisconnectPeers ==
  /\ disc = "peers"
  /\ st' = [s \in Stream |->
               IF peers[peer[s]] # s THEN st[s]
               ELSE IF st[s] = "ending" THEN "closed" ELSE "ending"]
  /\ peers' = [p \in Peer |-> 0]
  /\ server' = "closing" /\ disc' = "server"
  /\ UNCHANGED <<state, peer, inbound, gone, dial, waiting>>

(* Server.wait_closed() (Python 3.12) returns when no connection that the  *)
(* listener accepted is left.                                              *)
DisconnectEnds ==
  /\ disc = "server" /\ \A s \in inbound : st[s] = "closed"
  /\ server' = "none" /\ state' = "disconnected" /\ disc' = "done"
  /\ UNCHANGED <<st, peer, inbound, gone, peers, dial, waiting>>

Next ==
  \/ Listen
  \/ \E t \in Caller : \/ \E s \in Stream : Dial(t, s)
                       \/ DialReturns(t) \/ DialFails(t) \/ DialRefused(t)
                       \/ Greeted(t)
  \/ \E s \in Stream : \/ Accept(s) \/ InboundOpens(s) \/ InboundRefused(s)
                       \/ RemoteCloses(s) \/ ReadEnds(s) \/ Leaves(s)
                       \/ Registers(s)
  \/ DisconnectBegins \/ DisconnectPeers \/ DisconnectEnds

Spec == Init /\ [][Next]_vars

-----------------------------------------------------------------------------
(* Safety                                                                  *)

(* A stream through which send_message would write still has its read loop *)
(* running or about to remove it: what the peer answers is not lost, and a *)
(* closed stream never stays in the table.  So also for a stream that gets *)
(* its entry late, when disconnect() held the lock and cleared the table.  *)
RegisteredIsRead ==
  \A p \in Peer : peers[p] # 0 =>
    st[peers[p]] \in {"up", "ending"} /\ peer[peers[p]] = p

-----------------------------------------------------------------------------
(* Liveness                                                                *)

(* The event loop resumes every coroutine whose await is over: a read loop *)
(* whose peer has closed its end, or which may take the lock.  Nothing is  *)
(* assumed of the peers, nor of the time disconnect() holds the lock.      *)
Fairness ==
  \A s \in Stream : /\ WF_vars(Leaves(s)) /\ WF_vars(Registers(s))
                    /\ WF_vars(s \in gone /\ ReadEnds(s))

LiveSpec == Spec /\ Fairness

(* A stream whose remote end is closed leaves, whatever streams of the     *)
(* same peer overlap with it: no connection and no read loop is leaked.    *)
(* Only disconnect() can hold it up, while it writes to the other peers.   *)
EndedStreamLeaves ==
  \A s \in Stream :
    st[s] = "up" /\ s \in gone ~> st[s] = "closed" \/ disc = "peers"

(* For the end of disconnect(): all peers read what is written to them,    *)
(* so that it gets its goodbyes written, and it resumes when it can.       *)
ShutdownSpec ==
  LiveSpec /\ WF_vars(DisconnectPeers) /\ WF_vars(DisconnectEnds)

(* "Gracefully stops the service": disconnect() comes to its end.          *)
DisconnectTerminates == disc = "peers" ~> disc = "done"
=============================================================================
