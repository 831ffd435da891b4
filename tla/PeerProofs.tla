----------------------------- MODULE PeerProofs -----------------------------
(***************************************************************************)
(* What holds of PeerStreams for any peers, streams and callers: its types *)
(* and that the table of peers names only streams with a read loop.        *)
(***************************************************************************)
EXTENDS PeerStreams, TLAPS

(* A stream moves alone.                                                   *)
LEMMA SetStreamEffect ==
  ASSUME st \in [Stream -> StreamPc], NEW s \in Stream, NEW l \in StreamPc,
         SetStream(s, l)
  PROVE  /\ st' \in [Stream -> StreamPc]
         /\ \A r \in Stream : st'[r] = IF r = s THEN l ELSE st[r]
  BY DEF SetStream

(* An entry of _peers changes alone.                                       *)
LEMMA PeersEffect ==
  ASSUME peers \in [Peer -> 0..MaxStreams], NEW p \in Peer,
         NEW s \in 0..MaxStreams, peers' = [peers EXCEPT ![p] = s]
  PROVE  /\ peers' \in [Peer -> 0..MaxStreams]
         /\ \A q \in Peer : peers'[q] = IF q = p THEN s ELSE peers[q]
  OBVIOUS

(* A stream that still queues for its entry is read, or its loop is over   *)
(* and queues behind it; it is not in the table.                           *)
WaitingIsRead ==
  \A s \in waiting : st[s] \in {"up", "ending"} /\ peers[peer[s]] # s

(* What every step preserves: a stream is closed only once it has had its  *)
(* entry, whenever that is.                                                *)
Inv == TypeOK /\ RegisteredIsRead /\ WaitingIsRead

(* Types, and that each entry of _peers is a stream of that peer whose read *)
(* loop runs or is about to remove the entry.                              *)
THEOREM Safety == Spec => []Inv
<1> USE StreamsAssumption DEF Inv, TypeOK, Stream, RegisteredIsRead, WaitingIsRead
<1>1. Init => Inv
  BY DEF Init, StreamPc
<1>2. Inv /\ [Next]_vars => Inv'
  <2> SUFFICES ASSUME Inv, [Next]_vars PROVE Inv'
    OBVIOUS
  <2>1. CASE Listen
    BY <2>1 DEF Listen
  <2>2. ASSUME NEW t \in Caller, NEW s \in Stream, Dial(t, s) PROVE Inv'
    <3>1. "dialing" \in StreamPc /\ SetStream(s, "dialing")
      BY <2>2 DEF Dial, StreamPc
    <3>2. st' \in [Stream -> StreamPc]
      BY <3>1, SetStreamEffect
    <3>3. \A r \in Stream : st'[r] = IF r = s THEN "dialing" ELSE st[r]
      BY <3>1, SetStreamEffect
    <3>4. st[s] = "unborn"
      BY <2>2 DEF Dial, IsFresh
    <3>5. QED
      BY <2>2, <3>2, <3>3, <3>4 DEF Dial
  <2>3. ASSUME NEW t \in Caller, dial[t] # 0, NEW l \in StreamPc,
               st[dial[t]] \in {"dialing", "greeting"},
               SetStream(dial[t], l), peers' = peers, peer' = peer, waiting' = waiting
        PROVE  st' \in [Stream -> StreamPc] /\ RegisteredIsRead' /\ WaitingIsRead'
    <3>1. dial[t] \in Stream
      BY <2>3
    <3>2. st' \in [Stream -> StreamPc]
      BY <2>3, <3>1, SetStreamEffect
    <3>3. \A r \in Stream : st'[r] = IF r = dial[t] THEN l ELSE st[r]
      BY <2>3, <3>1, SetStreamEffect
    <3>4. dial[t] \notin waiting /\ \A p \in Peer : peers[p] # dial[t]
      <4>1. st[dial[t]] # "up" /\ st[dial[t]] # "ending"
        BY <2>3
      <4>2. \A p \in Peer : peers[p] # 0 => st[peers[p]] = "up" \/ st[peers[p]] = "ending"
        OBVIOUS
      <4>3. QED
        BY <2>3, <4>1, <4>2
    <3>5. RegisteredIsRead' /\ WaitingIsRead'
      BY <2>3, <3>1, <3>3, <3>4
    <3>6. QED
      BY <3>2, <3>5
  <2>4. ASSUME NEW t \in Caller, DialReturns(t) PROVE Inv'
    BY <2>3, <2>4 DEF DialReturns, StreamPc
  <2>5. ASSUME NEW t \in Caller, DialFails(t) PROVE Inv'
    <3>1. st' \in [Stream -> StreamPc] /\ RegisteredIsRead' /\ WaitingIsRead'
      BY <2>3, <2>5 DEF DialFails, StreamPc
    <3>2. QED
      BY <2>5, <3>1 DEF DialFails
  <2>6. ASSUME NEW t \in Caller, DialRefused(t) PROVE Inv'
    <3>1. st' \in [Stream -> StreamPc] /\ RegisteredIsRead' /\ WaitingIsRead'
      BY <2>3, <2>6 DEF DialRefused, StreamPc
    <3>2. QED
      BY <2>6, <3>1 DEF DialRefused
  (* A stream comes up, and is registered or queues for it.                *)
  <2>7. ASSUME NEW s \in Stream, Opens(s), peer' = peer,
               st[s] \in {"greeting", "header"}
        PROVE  /\ st' \in [Stream -> StreamPc]
               /\ peers' \in [Peer -> 0..MaxStreams]
               /\ dial' \in [Caller -> 0..MaxStreams]
               /\ waiting' \in SUBSET Stream
               /\ RegisteredIsRead' /\ WaitingIsRead'
    <3>1. "up" \in StreamPc /\ SetStream(s, "up")
      BY <2>7 DEF StreamPc, Opens
    <3>2. st' \in [Stream -> StreamPc]
      BY <3>1, SetStreamEffect
    <3>3. \A r \in Stream : st'[r] = IF r = s THEN "up" ELSE st[r]
      BY <3>1, SetStreamEffect
    <3>4. s \notin waiting /\ \A p \in Peer : peers[p] # s
      <4>1. st[s] # "up" /\ st[s] # "ending" /\ s # 0
        BY <2>7
      <4>2. \A p \in Peer : peers[p] # 0 => st[peers[p]] = "up" \/ st[peers[p]] = "ending"
        OBVIOUS
      <4>3. QED
        BY <4>1, <4>2
    <3>5. CASE Unlocked /\ waiting = {}
      <4>1. /\ peers' \in [Peer -> 0..MaxStreams]
            /\ \A q \in Peer : peers'[q] = IF q = peer[s] THEN s ELSE peers[q]
        BY <2>7, <3>5, PeersEffect DEF Opens
      <4>2. waiting' = {} /\ dial' \in [Caller -> 0..MaxStreams]
        BY <2>7, <3>5 DEF Opens
      <4>3. QED
        BY <2>7, <3>2, <3>3, <4>1, <4>2
    <3>6. CASE ~(Unlocked /\ waiting = {})
      <4>1. waiting' = waiting \cup {s} /\ peers' = peers /\ dial' = dial
        BY <2>7, <3>6 DEF Opens
      <4>2. QED
        BY <2>7, <3>2, <3>3, <3>4, <4>1
    <3>7. QED
      BY <3>5, <3>6
  <2>8. ASSUME NEW t \in Caller, Greeted(t) PROVE Inv'
    <3>1. dial[t] \in Stream
      BY <2>8 DEF Greeted
    <3>2. /\ st' \in [Stream -> StreamPc]
          /\ peers' \in [Peer -> 0..MaxStreams]
          /\ dial' \in [Caller -> 0..MaxStreams]
          /\ waiting' \in SUBSET Stream
          /\ RegisteredIsRead' /\ WaitingIsRead'
      BY <2>7, <2>8, <3>1 DEF Greeted
    <3>3. QED
      BY <2>8, <3>2 DEF Greeted
  <2>9. ASSUME NEW s \in Stream, InboundOpens(s) PROVE Inv'
    BY <2>7, <2>9 DEF InboundOpens
  (* A stream that is not up moves to a place where it is not up.          *)
  <2>10. ASSUME NEW s \in Stream, NEW l \in StreamPc,
                SetStream(s, l), peers' = peers, peer' = peer, waiting' = waiting,
                \/ st[s] \in {"unborn", "header"}
                \/ st[s] = "up" /\ l = "ending"
         PROVE  st' \in [Stream -> StreamPc] /\ RegisteredIsRead' /\ WaitingIsRead'
    <3>1. st' \in [Stream -> StreamPc]
      BY <2>10, SetStreamEffect
    <3>2. \A r \in Stream : st'[r] = IF r = s THEN l ELSE st[r]
      BY <2>10, SetStreamEffect
    <3>3. QED
      BY <2>10, <3>1, <3>2
  <2>11. ASSUME NEW s \in Stream, Accept(s) PROVE Inv'
    BY <2>10, <2>11 DEF Accept, IsFresh, StreamPc
  <2>12. ASSUME NEW s \in Stream, InboundRefused(s) PROVE Inv'
    BY <2>10, <2>12 DEF InboundRefused, StreamPc
  <2>13. ASSUME NEW s \in Stream, RemoteCloses(s) PROVE Inv'
    <3>1. CASE UNCHANGED st
      BY <2>13, <3>1 DEF RemoteCloses
    <3>2. CASE st[s] = "header" /\ SetStream(s, "closed")
      <4>1. /\ "closed" \in StreamPc
            /\ peers' = peers /\ peer' = peer /\ waiting' = waiting
        BY <2>13 DEF RemoteCloses, StreamPc
      <4>2. st' \in [Stream -> StreamPc] /\ RegisteredIsRead' /\ WaitingIsRead'
        BY <2>10, <3>2, <4>1
      <4>3. QED
        BY <2>13, <4>2 DEF RemoteCloses
    <3>3. QED
      BY <2>13, <3>1, <3>2 DEF RemoteCloses
  <2>14. ASSUME NEW s \in Stream, ReadEnds(s) PROVE Inv'
    BY <2>10, <2>14 DEF ReadEnds, StreamPc
  <2>15. ASSUME NEW s \in Stream, Leaves(s) PROVE Inv'
    <3>1. "closed" \in StreamPc /\ SetStream(s, "closed")
      BY <2>15 DEF Leaves, StreamPc
    <3>2. st' \in [Stream -> StreamPc]
      BY <3>1, SetStreamEffect
    <3>3. \A r \in Stream : st'[r] = IF r = s THEN "closed" ELSE st[r]
      BY <3>1, SetStreamEffect
    <3>4. /\ peers' \in [Peer -> 0..MaxStreams]
          /\ \A q \in Peer : peers'[q] = IF q = peer[s] THEN 0 ELSE peers[q]
      BY <2>15, PeersEffect DEF Leaves
    <3>5. s \notin waiting /\ waiting' = waiting
      BY <2>15 DEF Leaves
    <3>6. QED
      BY <2>15, <3>2, <3>3, <3>4, <3>5 DEF Leaves
  <2>21. ASSUME NEW s \in Stream, Registers(s) PROVE Inv'
    <3>1. /\ peers' \in [Peer -> 0..MaxStreams]
          /\ \A q \in Peer : peers'[q] = IF q = peer[s] THEN s ELSE peers[q]
      BY <2>21, PeersEffect DEF Registers
    <3>2. dial' \in [Caller -> 0..MaxStreams]
      BY <2>21 DEF Registers
    <3>3. QED
      BY <2>21, <3>1, <3>2 DEF Registers
  <2>16. CASE DisconnectBegins
    BY <2>16 DEF DisconnectBegins
  <2>17. CASE DisconnectPeers
    BY <2>17 DEF DisconnectPeers, StreamPc
  <2>18. CASE DisconnectEnds
    BY <2>18 DEF DisconnectEnds
  <2>19. CASE UNCHANGED vars
    BY <2>19 DEF vars
  <2>20. QED
    BY <2>1, <2>2, <2>4, <2>5, <2>6, <2>8, <2>9, <2>11, <2>12, <2>13, <2>14,
       <2>15, <2>16, <2>17, <2>18, <2>19, <2>21 DEF Next
<1>3. QED
  BY <1>1, <1>2, PTL DEF Spec

(* Each variable of the transport stays in its type.                       *)
THEOREM TypeCorrect == Spec => []TypeOK
  BY Safety, PTL DEF Inv

(* send_message never finds a stream nobody reads.                         *)
THEOREM TableIsLive == Spec => []RegisteredIsRead
  BY Safety, PTL DEF Inv


=============================================================================
