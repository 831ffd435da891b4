-------------------------- MODULE AddressBookProofs --------------------------
(***************************************************************************)
(* Proofs about the address book and its synchronisation for any contacts, *)
(* files, clients, updates and budgets: the queue of pending updates, what *)
(* the files hold, the versions told, and what the peers see of them.      *)
(***************************************************************************)
EXTENDS AddressBookSync, TLAPS, WellFoundedInduction

-----------------------------------------------------------------------------
(* The files, and what load() makes of them.                               *)

(* A set of natural numbers has a least element.                           *)
LEMMA LeastOfNat ==
  ASSUME NEW T \in SUBSET Nat, T # {}
  PROVE  \E x \in T : \A y \in T : x <= y
<1>1. PICK x \in T : \A y \in T : <<y, x>> \notin OpToRel(<, Nat)
  BY NatLessThanWellFounded, WFMin
<1>2. \A y \in T : ~(y < x)
  BY <1>1 DEF OpToRel
<1> QED
  BY <1>2

(* A contact that some file holds is read from the first that holds it.    *)
LEMMA MergedIsFirst ==
  ASSUME NEW fs, NEW i \in Ids, Holders(fs, i) # {}
  PROVE  \E f \in Holders(fs, i) :
           /\ \A g \in Holders(fs, i) : f <= g
           /\ Merged(fs)[i] = fs[f].rows[i]
<1> DEFINE H == Holders(fs, i)
           c == CHOOSE f \in H : \A g \in H : f <= g
<1>1. H \in SUBSET Nat
  BY BoundsAssumption DEF Holders, Files
<1>2. \E f \in H : \A g \in H : f <= g
  BY <1>1, LeastOfNat
<1>3. c \in H /\ \A g \in H : c <= g
  BY <1>2
<1>4. Merged(fs)[i] = fs[c].rows[i]
  BY DEF Merged
<1> QED
  BY <1>3, <1>4

(* load() misses a contact only if no file holds it.                       *)
LEMMA MergedNone ==
  ASSUME NEW fs, NEW i \in Ids
  PROVE  Merged(fs)[i] = None <=> Holders(fs, i) = {}
<1>1. CASE Holders(fs, i) = {}
  BY <1>1 DEF Merged
<1>2. CASE Holders(fs, i) # {}
  <2>1. PICK f \in Holders(fs, i) : Merged(fs)[i] = fs[f].rows[i]
    BY <1>2, MergedIsFirst
  <2> QED
    BY <1>2, <2>1 DEF Holders
<1> QED
  BY <1>1, <1>2

(* The primary file comes first.                                           *)
LEMMA MergedPrimary ==
  ASSUME NEW fs, NEW i \in Ids, fs[0].rows[i] # None
  PROVE  Merged(fs)[i] = fs[0].rows[i]
<1>1. 0 \in Holders(fs, i)
  BY BoundsAssumption DEF Holders, Files
<1>2. PICK f \in Holders(fs, i) :
        f <= 0 /\ Merged(fs)[i] = fs[f].rows[i]
  BY <1>1, MergedIsFirst
<1>3. f = 0
  BY <1>2, BoundsAssumption DEF Holders, Files
<1> QED
  BY <1>2, <1>3

(* load() depends on nothing but the rows.                                 *)
LEMMA MergedSame ==
  ASSUME NEW fs, NEW gs, \A f \in Files : fs[f].rows = gs[f].rows
  PROVE  Merged(fs) = Merged(gs)
<1>1. \A i \in Ids : Holders(fs, i) = Holders(gs, i)
  BY DEF Holders
<1>2. ASSUME NEW i \in Ids PROVE Merged(fs)[i] = Merged(gs)[i]
  <2>1. CASE Holders(fs, i) = {}
    BY <2>1, <1>1 DEF Merged
  <2>2. CASE Holders(fs, i) # {}
    <3>1. PICK f \in Holders(fs, i) :
            /\ \A g \in Holders(fs, i) : f <= g
            /\ Merged(fs)[i] = fs[f].rows[i]
      BY <2>2, MergedIsFirst
    <3>2. PICK f2 \in Holders(gs, i) :
            /\ \A g \in Holders(gs, i) : f2 <= g
            /\ Merged(gs)[i] = gs[f2].rows[i]
      BY <2>2, <1>1, MergedIsFirst
    <3>3. f \in Int /\ f2 \in Int /\ f \in Files
      BY BoundsAssumption DEF Holders, Files
    <3>4. f <= f2 /\ f2 <= f
      BY <1>1, <3>1, <3>2
    <3>5. f = f2
      BY <3>3, <3>4
    <3> QED
      BY <3>1, <3>2, <3>3, <3>5
  <2> QED
    BY <2>1, <2>2
<1> QED
  BY <1>2 DEF Merged

(* A file that is no list has no rows.                                     *)
LEMMA FileFacts ==
  ASSUME NEW f \in File
  PROVE  f.rows \in Book /\ (f.kind # "list" => f.rows = Empty)
<1>1. Empty \in Book
  BY DEF Empty, Book
<1> QED
  BY <1>1 DEF File, ListFile, Bare

LEMMA MakesFiles ==
  /\ \A b \in Book : ListFile(b) \in File
  /\ \A k \in {"absent", "malformed", "object"} : Bare(k) \in File
  /\ Empty \in Book
BY DEF File, Empty, Book

(* What load() reads is a book, and the files it leaves read the same.     *)
LEMMA LoadKeeps ==
  ASSUME NEW fs \in [Files -> File]
  PROVE  /\ Merged(fs) \in Book
         /\ AfterLoad(fs) \in [Files -> File]
         /\ Merged(AfterLoad(fs)) = Merged(fs)
<1>1. ASSUME NEW i \in Ids PROVE Merged(fs)[i] \in Stamp \cup {None}
  <2>1. CASE Holders(fs, i) = {}
    BY <2>1, MergedNone
  <2>2. CASE Holders(fs, i) # {}
    <3>1. PICK f \in Holders(fs, i) : Merged(fs)[i] = fs[f].rows[i]
      BY <2>2, MergedIsFirst
    <3>2. fs[f].rows \in Book
      BY FileFacts DEF Holders
    <3> QED
      BY <3>1, <3>2 DEF Book
  <2> QED
    BY <2>1, <2>2
<1>2. Merged(fs) \in Book
  BY <1>1 DEF Merged, Book
<1>3. AfterLoad(fs) \in [Files -> File]
  BY MakesFiles DEF AfterLoad
<1>4. ASSUME NEW f \in Files PROVE AfterLoad(fs)[f].rows = fs[f].rows
  <2>1. fs[f].kind # "list" => fs[f].rows = Empty
    BY FileFacts
  <2>2. Bare("absent").rows = Empty /\ ListFile(Empty).rows = Empty
    BY DEF Bare, ListFile
  <2>3. AfterLoad(fs)[f] = fs[f] \/ (/\ fs[f].kind \in {"malformed", "absent"}
                                    /\ AfterLoad(fs)[f].rows = Empty)
    BY <2>2 DEF AfterLoad
  <2> QED
    BY <2>1, <2>3
<1>5. Merged(AfterLoad(fs)) = Merged(fs)
  BY <1>4, MergedSame
<1> QED
  BY <1>2, <1>3, <1>5

-----------------------------------------------------------------------------
(* The queue of pending updates.                                           *)

QueueTypes ==
  /\ call \in [Clients -> {Idle, Casting} \cup Decisions]
  /\ arrival \in [Updates -> {"sent", "insert", "commit", "push", "over"}]
  /\ live \subseteq Updates /\ disk \subseteq Updates
  /\ noticed \subseteq Updates /\ taken \subseteq Updates
  /\ answered \subseteq Updates

\* Nothing is under way in a process that does not run, and the next one
\* finds what was committed.
DownIsQuiet ==
  ~running => /\ live = disk
              /\ \A k \in Clients : call[k] = Idle
              /\ \A u \in Updates : arrival[u] \in {"sent", "over"}

\* The row of an update that is not yet in the table is nowhere, and nobody
\* who decides on it is past the lookup.
UnsavedIsNowhere ==
  \A u \in Updates : arrival[u] \in {"sent", "insert"} =>
    /\ u \notin live \cup disk \cup answered
    /\ \A k \in Clients :
         (call[k] \in Decisions /\ call[k].update = u) => call[k].at = "get"

\* A decision past its delete statement has no row any more, and what it
\* decides on is taken as soon as it has run.
DecisionsKnow ==
  \A k \in Clients : call[k] \in Decisions =>
    /\ call[k].at = "commit" => call[k].update \in taken \ live
    /\ (call[k].at = "delete" /\ call[k].op = "apply") => call[k].update \in taken

\* A saved update stays in the table until somebody takes it, before its
\* commit in the table of the connection, after it in the committed one too.
SavedIsKept ==
  \A u \in Updates :
    /\ arrival[u] \in {"commit", "push"} => u \in live \cup taken
    /\ arrival[u] = "push" => u \in disk \cup taken

QueueInv ==
  /\ QueueTypes /\ DownIsQuiet /\ UnsavedIsNowhere /\ DecisionsKnow
  /\ SavedIsKept /\ NoticedIsKept /\ DecidedIsGone

queueVars == <<arrival, live, disk, noticed, taken, answered>>

\* A request begins or ends that decides nothing.
CallsApart ==
  /\ call' \in [Clients -> {Idle, Casting} \cup Decisions]
  /\ \A k \in Clients : call'[k] = call[k] \/ call'[k] \in {Idle, Casting}
  /\ running \/ call' = call

LEMMA KindsApart ==
  /\ Idle \notin Decisions /\ Casting \notin Decisions /\ Idle # Casting
  /\ \A op \in {"apply", "reject"}, u \in Updates,
        at \in {"get", "run", "delete", "commit"} :
       /\ Decision(op, u, at) \in Decisions
       /\ Decision(op, u, at).op = op
       /\ Decision(op, u, at).update = u
       /\ Decision(op, u, at).at = at
<1>1. Idle.op = "idle" /\ Casting.op = "casting"
  BY DEF Idle, Casting
<1>2. \A d \in Decisions : d.op \in {"apply", "reject"}
  BY DEF Decisions
<1> QED
  BY <1>1, <1>2 DEF Decisions, Decision

(* Requests that decide nothing leave the queue alone.                     *)
LEMMA QueueApart ==
  ASSUME QueueInv, UNCHANGED queueVars, running' = running, CallsApart
  PROVE  QueueInv'
<1> USE KindsApart DEF QueueInv, queueVars, CallsApart
<1>1. QueueTypes'
  BY DEF QueueTypes
<1>2. DownIsQuiet'
  BY DEF DownIsQuiet
<1>3. UnsavedIsNowhere'
  BY DEF UnsavedIsNowhere
<1>4. DecisionsKnow'
  BY DEF DecisionsKnow
<1>5. SavedIsKept' /\ NoticedIsKept' /\ DecidedIsGone'
  BY DEF SavedIsKept, NoticedIsKept, DecidedIsGone
<1> QED
  BY <1>1, <1>2, <1>3, <1>4, <1>5

(* The end of the process leaves what was committed.                       *)
LEMMA QueueEnds ==
  ASSUME NEW h, QueueInv, EndedIn(h),
         UNCHANGED <<disk, noticed, taken, answered>>
  PROVE  QueueInv'
<1> USE KindsApart DEF QueueInv, EndedIn
<1>1. QueueTypes'
  BY DEF QueueTypes
<1>2. DownIsQuiet'
  BY DEF DownIsQuiet
<1>3. UnsavedIsNowhere'
  <2>1. \A u \in Updates : arrival'[u] \in {"sent", "insert"} => arrival[u] = "sent"
    BY DEF QueueTypes
  <2>2. \A k \in Clients : call'[k] \notin Decisions
    OBVIOUS
  <2> QED
    BY <2>1, <2>2 DEF UnsavedIsNowhere
<1>4. DecisionsKnow'
  BY DEF DecisionsKnow
<1>5. SavedIsKept' /\ NoticedIsKept' /\ DecidedIsGone'
  BY DEF SavedIsKept, NoticedIsKept, DecidedIsGone
<1> QED
  BY <1>1, <1>2, <1>3, <1>4, <1>5

(* A mutation of the book ends the process or leaves it running.           *)
LEMMA MutationRuns ==
  ASSUME NEW i, NEW how \in Outcomes, Put(i, how) \/ Remove(i, how), how # "dies"
  PROVE  running' = running
BY DEF Put, Remove, Persist

(* So does an update that is applied, and a refused one changes nothing.   *)
LEMMA ApplyRuns ==
  ASSUME NEW u, NEW how \in Outcomes, ApplyPayload(u, how), how # "dies"
  PROVE  running' = running
BY MutationRuns DEF ApplyPayload, bookVars, coreVars

(* The part of a mutation outside the book keeps the queue.                *)
LEMMA ChangeKeepsQueue ==
  ASSUME QueueInv, NEW k \in Clients, NEW i, NEW how \in Outcomes,
         NEW b \in BOOLEAN, Ready(k), Change(k, i, how, b),
         how # "dies" => running' = running
  PROVE  QueueInv'
<1>1. CASE how = "dies"
  BY <1>1, QueueEnds DEF Change, Ended
<1>2. CASE how # "dies"
  <2>1. CallsApart
    BY <1>2 DEF CallsApart, Change, Ready, WhileCasting, QueueInv, QueueTypes
  <2> QED
    BY <1>2, <2>1, QueueApart DEF Change, queueVars
<1> QED
  BY <1>1, <1>2

(* A step of a connection keeps the queue.                                 *)
LEMMA ClientKeepsQueue ==
  ASSUME QueueInv, NEW k \in Clients, ClientStep(k)
  PROVE  QueueInv'
<1> USE KindsApart
<1>1. ASSUME NEW i \in Ids, NEW how \in Outcomes,
             PutContact(k, i, how) \/ RemoveContact(k, i, how) \/ ApplyDiscovered(k, i, how)
      PROVE  QueueInv'
  <2>1. how # "dies" => running' = running
    BY <1>1, MutationRuns DEF PutContact, RemoveContact, ApplyDiscovered
  <2> QED
    BY <1>1, <2>1, ChangeKeepsQueue DEF PutContact, RemoveContact, ApplyDiscovered
<1>2. ASSUME NEW how \in Outcomes, ReloadBook(k, how) PROVE QueueInv'
  <2>1. CallsApart /\ UNCHANGED queueVars /\ running' = running
    BY <1>2 DEF ReloadBook, Reload, CallsApart, queueVars, QueueInv, QueueTypes
  <2> QED
    BY <2>1, QueueApart
<1>10. ASSUME NEW f \in Files, ReloadBreaks(k, f) PROVE QueueInv'
  <2>1. CallsApart /\ UNCHANGED queueVars /\ running' = running
    BY <1>10 DEF ReloadBreaks, ReloadRaises, CallsApart, queueVars, QueueInv, QueueTypes
  <2> QED
    BY <2>1, QueueApart
<1>3. ASSUME SyncNow(k) PROVE QueueInv'
  <2>1. CallsApart /\ UNCHANGED queueVars /\ running' = running
    BY <1>3 DEF SyncNow, Ready, CallsApart, queueVars, coreVars, QueueInv, QueueTypes
  <2> QED
    BY <2>1, QueueApart
<1>4. ASSUME NEW t \in Settings, Configure(k, t) PROVE QueueInv'
  <2>1. CallsApart /\ UNCHANGED queueVars /\ running' = running
    BY <1>4 DEF Configure, CallsApart, queueVars, coreVars, QueueInv, QueueTypes
  <2> QED
    BY <2>1, QueueApart
<1>5. ASSUME NEW u \in Updates, NEW op \in {"apply", "reject"}, Decide(k, u, op)
      PROVE  QueueInv'
  <2> USE <1>5 DEF QueueInv, Decide, Ready, bookVars, coreVars
  <2>1. QueueTypes' /\ DownIsQuiet'
    BY DEF QueueTypes, DownIsQuiet
  <2>2. UnsavedIsNowhere' /\ DecisionsKnow'
    BY DEF QueueTypes, UnsavedIsNowhere, DecisionsKnow
  <2>3. SavedIsKept' /\ NoticedIsKept' /\ DecidedIsGone'
    BY DEF SavedIsKept, NoticedIsKept, DecidedIsGone
  <2> QED
    BY <2>1, <2>2, <2>3
<1>6. ASSUME GetPending(k) PROVE QueueInv'
  <2> USE <1>6 DEF QueueInv, GetPending, AfterGet, bookVars, coreVars
  <2>1. call[k].op \in {"apply", "reject"} /\ call[k].update \in Updates /\ running
    BY DEF Decisions, DownIsQuiet
  <2>2. QueueTypes' /\ DownIsQuiet'
    BY <2>1 DEF QueueTypes, DownIsQuiet
  <2>3. UnsavedIsNowhere'
    BY <2>1 DEF QueueTypes, UnsavedIsNowhere
  <2>4. DecisionsKnow'
    BY <2>1 DEF QueueTypes, DecisionsKnow
  <2>5. SavedIsKept' /\ NoticedIsKept' /\ DecidedIsGone'
    BY DEF SavedIsKept, NoticedIsKept, DecidedIsGone
  <2> QED
    BY <2>2, <2>3, <2>4, <2>5
<1>7. ASSUME NEW how \in Outcomes, RunPending(k, how) PROVE QueueInv'
  <2>1. CASE how = "dies"
    BY <1>7, <2>1, QueueEnds DEF RunPending, Ended
  <2>2. CASE how # "dies"
    <3> USE <1>7, <2>2 DEF QueueInv, RunPending
    <3>1. call[k].update \in Updates /\ running
      BY DEF Decisions, DownIsQuiet
    <3>2. running' = running
      BY ApplyRuns
    <3>3. QueueTypes' /\ DownIsQuiet'
      BY <3>1, <3>2 DEF QueueTypes, DownIsQuiet
    <3>4. UnsavedIsNowhere'
      BY <3>1 DEF QueueTypes, UnsavedIsNowhere
    <3>5. DecisionsKnow'
      BY <3>1 DEF QueueTypes, DecisionsKnow
    <3>6. SavedIsKept' /\ NoticedIsKept' /\ DecidedIsGone'
      BY <3>2 DEF SavedIsKept, NoticedIsKept, DecidedIsGone
    <3> QED
      BY <3>3, <3>4, <3>5, <3>6
  <2> QED
    BY <2>1, <2>2
<1>8. ASSUME DeletePending(k) PROVE QueueInv'
  <2> USE <1>8 DEF QueueInv, DeletePending, bookVars, coreVars
  <2>1. call[k].op \in {"apply", "reject"} /\ call[k].update \in Updates /\ running
    BY DEF Decisions, DownIsQuiet
  <2>2. call[k].update \in taken'
    BY <2>1 DEF DecisionsKnow
  <2>3. QueueTypes' /\ DownIsQuiet'
    BY <2>1 DEF QueueTypes, DownIsQuiet
  <2>4. UnsavedIsNowhere'
    BY <2>1 DEF QueueTypes, UnsavedIsNowhere
  <2>5. DecisionsKnow'
    BY <2>1, <2>2 DEF QueueTypes, DecisionsKnow
  <2>6. SavedIsKept' /\ NoticedIsKept' /\ DecidedIsGone'
    BY <2>2 DEF SavedIsKept, NoticedIsKept, DecidedIsGone
  <2> QED
    BY <2>3, <2>4, <2>5, <2>6
<1>9. ASSUME CommitDelete(k) PROVE QueueInv'
  <2> USE <1>9 DEF QueueInv, CommitDelete, bookVars, coreVars
  <2>1. call[k].update \in Updates /\ running /\ call[k].update \in taken \ live
    BY DEF Decisions, DownIsQuiet, DecisionsKnow
  <2>2. QueueTypes' /\ DownIsQuiet'
    BY <2>1 DEF QueueTypes, DownIsQuiet
  <2>3. UnsavedIsNowhere'
    BY <2>1 DEF QueueTypes, UnsavedIsNowhere
  <2>4. DecisionsKnow'
    BY DEF QueueTypes, DecisionsKnow
  <2>5. SavedIsKept' /\ NoticedIsKept' /\ DecidedIsGone'
    BY <2>1 DEF SavedIsKept, NoticedIsKept, DecidedIsGone
  <2> QED
    BY <2>2, <2>3, <2>4, <2>5
<1> QED
  BY <1>1, <1>2, <1>3, <1>4, <1>5, <1>6, <1>7, <1>8, <1>9, <1>10 DEF ClientStep

(* A step of the handler of an update keeps the queue.                     *)
LEMMA UpdateKeepsQueue ==
  ASSUME QueueInv, NEW u \in Updates, UpdateStep(u)
  PROVE  QueueInv'
<1> USE DEF QueueInv, bookVars, coreVars
<1>1. CASE Drop(u) \/ KeepInbound(u)
  <2> USE <1>1 DEF Drop, KeepInbound
  <2>1. QueueTypes' /\ DownIsQuiet'
    BY DEF QueueTypes, DownIsQuiet
  <2>2. UnsavedIsNowhere' /\ DecisionsKnow'
    BY DEF QueueTypes, UnsavedIsNowhere, DecisionsKnow
  <2>3. SavedIsKept' /\ NoticedIsKept' /\ DecidedIsGone'
    BY DEF QueueTypes, SavedIsKept, NoticedIsKept, DecidedIsGone
  <2> QED
    BY <2>1, <2>2, <2>3
<1>2. ASSUME NEW how \in Outcomes, ApplyInbound(u, how) PROVE QueueInv'
  <2>1. CASE how = "dies"
    BY <1>2, <2>1, QueueEnds DEF ApplyInbound
  <2>2. CASE how # "dies"
    <3> USE <1>2, <2>2 DEF ApplyInbound
    <3>1. running' = running
      BY ApplyRuns
    <3>2. QueueTypes' /\ DownIsQuiet'
      BY <3>1 DEF QueueTypes, DownIsQuiet
    <3>3. UnsavedIsNowhere' /\ DecisionsKnow'
      BY DEF QueueTypes, UnsavedIsNowhere, DecisionsKnow
    <3>4. SavedIsKept' /\ NoticedIsKept' /\ DecidedIsGone'
      BY <3>1 DEF QueueTypes, SavedIsKept, NoticedIsKept, DecidedIsGone
    <3> QED
      BY <3>2, <3>3, <3>4
  <2> QED
    BY <2>1, <2>2
<1>3. CASE InsertPending(u)
  <2> USE <1>3 DEF InsertPending
  <2>1. running /\ u \notin answered
    BY DEF DownIsQuiet, UnsavedIsNowhere
  <2>2. QueueTypes' /\ DownIsQuiet'
    BY <2>1 DEF QueueTypes, DownIsQuiet
  <2>3. UnsavedIsNowhere'
    BY DEF QueueTypes, UnsavedIsNowhere
  <2>4. DecisionsKnow'
    BY DEF DecisionsKnow, UnsavedIsNowhere
  <2>5. SavedIsKept' /\ NoticedIsKept' /\ DecidedIsGone'
    BY <2>1 DEF QueueTypes, SavedIsKept, NoticedIsKept, DecidedIsGone
  <2> QED
    BY <2>2, <2>3, <2>4, <2>5
<1>4. CASE CommitPending(u)
  <2> USE <1>4 DEF CommitPending
  <2>1. running
    BY DEF DownIsQuiet
  <2>2. QueueTypes' /\ DownIsQuiet'
    BY <2>1 DEF QueueTypes, DownIsQuiet
  <2>3. UnsavedIsNowhere' /\ DecisionsKnow'
    BY DEF QueueTypes, UnsavedIsNowhere, DecisionsKnow
  <2>4. SavedIsKept' /\ NoticedIsKept' /\ DecidedIsGone'
    BY <2>1 DEF QueueTypes, SavedIsKept, NoticedIsKept, DecidedIsGone
  <2> QED
    BY <2>2, <2>3, <2>4
<1>5. CASE PushPending(u)
  <2> USE <1>5 DEF PushPending
  <2>1. running /\ u \in (live \cup taken) \cap (disk \cup taken)
    BY DEF DownIsQuiet, SavedIsKept
  <2>2. QueueTypes' /\ DownIsQuiet'
    BY <2>1 DEF QueueTypes, DownIsQuiet
  <2>3. UnsavedIsNowhere' /\ DecisionsKnow'
    BY DEF QueueTypes, UnsavedIsNowhere, DecisionsKnow
  <2>4. SavedIsKept' /\ NoticedIsKept' /\ DecidedIsGone'
    BY <2>1 DEF QueueTypes, SavedIsKept, NoticedIsKept, DecidedIsGone
  <2> QED
    BY <2>2, <2>3, <2>4
<1> QED
  BY <1>1, <1>2, <1>3, <1>4, <1>5 DEF UpdateStep

(* The process, the broadcasts and the files keep the queue.               *)
LEMMA OthersKeepQueue ==
  ASSUME QueueInv, ProcessStep \/ (\E c \in casts : CastStep(c)) \/ UNCHANGED vars
  PROVE  QueueInv'
<1> USE KindsApart
<1>1. ASSUME NEW how \in Outcomes, Start(how) PROVE QueueInv'
  <2> USE <1>1 DEF QueueInv, Start, Startup
  <2>1. QueueTypes' /\ DownIsQuiet'
    BY DEF QueueTypes, DownIsQuiet
  <2>2. UnsavedIsNowhere' /\ DecisionsKnow'
    BY DEF UnsavedIsNowhere, DecisionsKnow
  <2>3. SavedIsKept' /\ NoticedIsKept' /\ DecidedIsGone'
    BY DEF DownIsQuiet, SavedIsKept, NoticedIsKept, DecidedIsGone
  <2> QED
    BY <2>1, <2>2, <2>3
<1>2. CASE Die
  BY <1>2, QueueEnds DEF Die, Ended
<1>3. ASSUME NEW f \in Files, EditFile(f) PROVE QueueInv'
  <2>1. running' = running
    BY <1>3 DEF EditFile, EditOf, Edit
  <2>2. CallsApart /\ UNCHANGED queueVars
    BY <1>3 DEF EditFile, syncVars, CallsApart, queueVars, QueueInv, QueueTypes
  <2> QED
    BY <2>1, <2>2, QueueApart
<1>4. ASSUME NEW c \in casts, CastStep(c) PROVE QueueInv'
  <2>1. CallsApart /\ UNCHANGED queueVars /\ running' = running
    BY <1>4 DEF CastStep, CastEnds, Tell, bookVars, coreVars, CallsApart,
                queueVars, QueueInv, QueueTypes
  <2> QED
    BY <2>1, QueueApart
<1>5. CASE UNCHANGED vars
  <2>1. CallsApart /\ UNCHANGED queueVars /\ running' = running
    BY <1>5 DEF vars, syncVars, bookVars, coreVars, CallsApart, queueVars,
                QueueInv, QueueTypes
  <2> QED
    BY <2>1, QueueApart
<1> QED
  BY <1>1, <1>2, <1>3, <1>4, <1>5 DEF ProcessStep

(* What handlers and requests know of the queue of pending updates holds   *)
(* always.                                                                 *)
THEOREM QueueSafety == Spec => []QueueInv
<1>1. Init => QueueInv
  BY KindsApart DEF Init, QueueInv, QueueTypes, DownIsQuiet, UnsavedIsNowhere,
     DecisionsKnow, SavedIsKept, NoticedIsKept, DecidedIsGone
<1>2. QueueInv /\ [Next]_vars => QueueInv'
  BY ClientKeepsQueue, UpdateKeepsQueue, OthersKeepQueue DEF Next
<1> QED
  BY <1>1, <1>2, PTL DEF Spec

(* No update the user interfaces were told of is lost.                     *)
THEOREM PendingIsKept == Spec => []NoticedIsKept
<1>1. QueueInv => NoticedIsKept
  BY DEF QueueInv
<1> QED
  BY <1>1, QueueSafety, PTL

(* An update whose decision was answered does not come back.               *)
THEOREM DecisionIsFinal == Spec => []DecidedIsGone
<1>1. QueueInv => DecidedIsGone
  BY DEF QueueInv
<1> QED
  BY <1>1, QueueSafety, PTL

-----------------------------------------------------------------------------
(* The book, its files and its versions.                                   *)

\* The steps of the book: whatever the callers do, one of these or none.
BookStep ==
  \/ UNCHANGED coreVars /\ left' \in Budget
  \/ \E i \in Ids, how \in Outcomes : running /\ (Put(i, how) \/ Remove(i, how))
  \/ \E how \in Outcomes : Reload(how) \/ Startup(how)
  \/ \E f \in Files : ReloadRaises(f)
  \/ Stop
  \/ \E f \in Files : edited = {} /\ EditOf(f)

\* Memory has what was promised, also while the primary file could not be
\* written for the sake of another contact, or has dropped it in a reload that
\* failed.
MemoryAnswers ==
  running => \A i \in Ids : claim[i] # Void => book[i] = claim[i] \/ i \in lost

\* The versions told lie below the one the meta file names, which is that of
\* the running process.
Ledger ==
  ~metaLost =>
    /\ \A s, t \in told : s.version = t.version => s.hash = t.hash
    /\ meta = None => told = {} /\ ~running
    /\ meta # None => \A t \in told :
                        /\ t.version <= meta.version
                        /\ t.version = meta.version => t.hash = meta.hash
    /\ running => meta = [version |-> version, hash |-> hash]

\* The hash is that of memory, and was when it was told, unless something has
\* failed since.
HashIsFresh ==
  /\ running /\ ~failed => hash = book
  /\ \A t \in told : t.fresh => t.hash = t.rows

BookInv ==
  /\ BookTypeOK /\ AnsweredIsOnDisk /\ MemoryAnswers /\ FilesAgree
  /\ Ledger /\ HashIsFresh

(* Every step of the callers is one of the book or none.                   *)
LEMMA BookNext ==
  ASSUME QueueInv, BookTypeOK, [Next]_vars
  PROVE  BookStep
<1> USE DEF bookVars
<1>1. ASSUME NEW k \in Clients, ClientStep(k) PROVE BookStep
  <2>1. ASSUME NEW i \in Ids, NEW how \in Outcomes,
               PutContact(k, i, how) \/ RemoveContact(k, i, how) \/ ApplyDiscovered(k, i, how)
        PROVE  BookStep
    BY <2>1 DEF PutContact, RemoveContact, ApplyDiscovered, Ready, BookStep
  <2>2. ASSUME NEW how \in Outcomes, ReloadBook(k, how) PROVE BookStep
    BY <2>2 DEF ReloadBook, BookStep
  <2>8. ASSUME NEW f \in Files, ReloadBreaks(k, f) PROVE BookStep
    BY <2>8 DEF ReloadBreaks, BookStep
  <2>3. ASSUME NEW t \in Settings, SyncNow(k) \/ Configure(k, t) PROVE BookStep
    <3>1. UNCHANGED coreVars /\ Request
      BY <2>3 DEF SyncNow, Configure
    <3>2. left' \in Budget
      BY <3>1 DEF Request, BookTypeOK, Budget
    <3> QED
      BY <3>1, <3>2 DEF BookStep
  <2>4. ASSUME SyncNow(k) PROVE BookStep
    <3>1. UNCHANGED coreVars /\ Request
      BY <2>4 DEF SyncNow
    <3>2. left' \in Budget
      BY <3>1 DEF Request, BookTypeOK, Budget
    <3> QED
      BY <3>1, <3>2 DEF BookStep
  <2>5. ASSUME NEW how \in Outcomes, RunPending(k, how) PROVE BookStep
    <3>1. running
      BY <2>5, KindsApart DEF RunPending, QueueInv, DownIsQuiet
    <3>2. Content[call[k].update].id \in Ids
      BY <2>5, ContentAssumption DEF RunPending, Decisions
    <3> QED
      BY <2>5, <3>1, <3>2 DEF RunPending, ApplyPayload, BookStep, BookTypeOK
  <2>6. CASE GetPending(k) \/ DeletePending(k) \/ CommitDelete(k)
    BY <2>6 DEF GetPending, DeletePending, CommitDelete, BookStep, BookTypeOK
  <2>7. ASSUME NEW u \in Updates, NEW op \in {"apply", "reject"}, Decide(k, u, op)
        PROVE  BookStep
    BY <2>7 DEF Decide, BookStep, BookTypeOK
  <2> QED
    BY <1>1, <2>1, <2>2, <2>3, <2>4, <2>5, <2>6, <2>7, <2>8 DEF ClientStep
<1>2. ASSUME NEW u \in Updates, UpdateStep(u) PROVE BookStep
  <2>1. ASSUME NEW how \in Outcomes, ApplyInbound(u, how) PROVE BookStep
    <3>1. Content[u].id \in Ids
      BY ContentAssumption
    <3> QED
      BY <2>1, <3>1 DEF ApplyInbound, ApplyPayload, BookStep, BookTypeOK
  <2> QED
    BY <1>2, <2>1 DEF UpdateStep, Drop, KeepInbound, InsertPending,
       CommitPending, PushPending, BookStep, BookTypeOK
<1>3. ASSUME NEW c \in casts, CastStep(c) PROVE BookStep
  BY <1>3 DEF CastStep, CastEnds, Tell, BookStep, BookTypeOK
<1>4. CASE ProcessStep
  BY <1>4 DEF ProcessStep, Start, Die, EditFile, BookStep
<1>5. CASE UNCHANGED vars
  BY <1>5 DEF vars, BookStep, BookTypeOK
<1> QED
  BY <1>1, <1>2, <1>3, <1>4, <1>5 DEF Next

(* A telling has the version, hash and contacts of its moment.             *)
LEMMA TellingFacts ==
  ASSUME BookTypeOK, version' \in Nat, hash' \in Book, book' \in Book,
         failed' \in BOOLEAN, Told
  PROVE  /\ told' \in SUBSET Telling
         /\ \A t \in told' :
              \/ t \in told
              \/ /\ t.version = version' /\ t.hash = hash' /\ t.rows = book'
                 /\ running' /\ (t.fresh => ~failed')
         /\ ~running' => told' = told
<1>1. Present' = [version |-> version', hash |-> hash', rows |-> book', fresh |-> ~failed']
  BY DEF Present
<1>2. Present' \in Telling
  BY <1>1 DEF Telling
<1>3. /\ Present'.version = version' /\ Present'.hash = hash'
      /\ Present'.rows = book' /\ Present'.fresh = ~failed'
  BY <1>1
<1> QED
  BY <1>2, <1>3 DEF Told, BookTypeOK

(* So the hash told is that of the contacts if the present one is.         *)
LEMMA FreshIsTold ==
  ASSUME BookTypeOK, HashIsFresh, version' \in Nat, hash' \in Book, book' \in Book,
         failed' \in BOOLEAN, Told, running' /\ ~failed' => hash' = book'
  PROVE  HashIsFresh'
BY TellingFacts DEF HashIsFresh

(* What load() finds after the book b has been written to the primary      *)
(* file: b, and beside it what the fragments hold.                         *)
LEMMA MergedAfterWrite ==
  ASSUME NEW b, NEW fs, fs[0] = ListFile(b),
         \A f \in Files \ {0} : fs[f] = files[f]
  PROVE  \A j \in Ids :
           /\ b[j] # None => Merged(fs)[j] = b[j]
           /\ (b[j] = None /\ ~InFragment(j)) => Merged(fs)[j] = None
           /\ (b[j] = None /\ Merged(files)[j] = None) => Merged(fs)[j] = None
<1>1. fs[0].rows = b
  BY DEF ListFile
<1>2. ASSUME NEW j \in Ids
      PROVE  /\ b[j] # None => Merged(fs)[j] = b[j]
             /\ (b[j] = None /\ ~InFragment(j)) => Merged(fs)[j] = None
             /\ (b[j] = None /\ Merged(files)[j] = None) => Merged(fs)[j] = None
  <2>1. b[j] # None => Merged(fs)[j] = b[j]
    BY <1>1, MergedPrimary
  <2>2. b[j] = None => Holders(fs, j) = Holders(files, j) \ {0}
    BY <1>1 DEF Holders
  <2>3. ~InFragment(j) => Holders(files, j) \ {0} = {}
    BY DEF InFragment, Holders
  <2>4. Merged(files)[j] = None => Holders(files, j) = {}
    BY MergedNone
  <2>5. Holders(fs, j) = {} => Merged(fs)[j] = None
    BY MergedNone
  <2> QED
    BY <2>1, <2>2, <2>3, <2>4, <2>5
<1> QED
  BY <1>2

(* A mutation of the book keeps what is known of it.                       *)
LEMMA PersistKeeps ==
  ASSUME BookInv, running, NEW i \in Ids, NEW how \in Outcomes, NEW b \in Book,
         \A j \in Ids \ {i} : b[j] = book[j],
         Persist(b, i, how), clock' \in Stamp
  PROVE  BookInv'
<1> USE DEF BookInv, Outcomes
<1>1. 0 \in Files
  BY BoundsAssumption DEF Files
<1>2. PICK fs : fs = [files EXCEPT ![0] = ListFile(b)]
  OBVIOUS
<1>3. /\ fs \in [Files -> File]
      /\ \A f \in Files \ {0} : fs[f] = files[f]
      /\ \A j \in Ids :
           /\ b[j] # None => Merged(fs)[j] = b[j]
           /\ (b[j] = None /\ ~InFragment(j)) => Merged(fs)[j] = None
           /\ (b[j] = None /\ Merged(files)[j] = None) => Merged(fs)[j] = None
  <2>1. files \in [Files -> File] /\ ListFile(b) \in File
    BY MakesFiles DEF BookTypeOK
  <2>2. /\ fs \in [Files -> File] /\ fs[0] = ListFile(b)
        /\ \A f \in Files \ {0} : fs[f] = files[f]
    BY <1>1, <1>2, <2>1
  <2> QED
    BY <2>2, MergedAfterWrite
<1>4. files' = IF how = "primaryFails" THEN files ELSE fs
  BY <1>2 DEF Persist, Written
<1>5. /\ running' = (how # "dies")
      /\ how # "dies" => book' = b
  BY DEF Persist, Forget
<1>6. left' \in Budget
  <2>1. left \in Budget /\ left.changes > 0 /\ (how = "done" \/ left.faults > 0)
    BY DEF Persist, Within, BookTypeOK
  <2>2. Spend(how) \in Budget /\ Spend(how).changes > 0
    BY <2>1 DEF Spend, Budget
  <2>3. left' = [Spend(how) EXCEPT !.changes = @ - 1]
    BY DEF Persist
  <2> QED
    BY <2>2, <2>3 DEF Budget
<1>7. claim' \in [Ids -> Stamp \cup {None, Void}]
  <2>1. claim \in [Ids -> Stamp \cup {None, Void}] /\ b \in [Ids -> Stamp \cup {None}]
    BY DEF BookTypeOK, Book
  <2> QED
    BY <2>1 DEF Persist
<1>8. meta' \in Meta \cup {None}
  BY DEF Persist, SavedMeta, Meta, BookTypeOK
<1>9. book' \in Book /\ hash' \in Book /\ version' \in Nat
  <2>1. Empty \in Book /\ hash \in Book /\ version \in Nat
    BY MakesFiles DEF BookTypeOK
  <2>2. CASE how = "dies"
    BY <2>1, <2>2 DEF Persist, Forget
  <2>3. CASE how # "dies"
    BY <2>1, <2>3 DEF Persist
  <2> QED
    BY <2>2, <2>3
<1>15. edited' \in SUBSET Files /\ failed' \in BOOLEAN /\ metaLost' \in BOOLEAN
  BY DEF Persist, BookTypeOK
<1>16. lost' \in SUBSET Ids /\ (running' => lost' = IF how = "primaryFails" THEN lost ELSE {})
  <2>1. CASE how = "dies"
    BY <1>5, <2>1 DEF Persist, Forget
  <2>2. CASE how # "dies"
    BY <2>2 DEF Persist, BookTypeOK
  <2> QED
    BY <2>1, <2>2
<1>17. Told
  BY DEF Persist
<1>18. HashIsFresh'
  <2>1. running' /\ ~failed' => hash' = book'
    BY <1>5 DEF Persist
  <2> QED
    BY <1>9, <1>15, <1>17, <2>1, FreshIsTold
<1>10. BookTypeOK'
  <2>1. told' \in SUBSET Telling
    BY <1>9, <1>15, <1>17, TellingFacts
  <2>2. edited' \in SUBSET Files /\ failed' \in BOOLEAN /\ metaLost' \in BOOLEAN
    BY <1>15
  <2>3. files' \in [Files -> File] /\ running' \in BOOLEAN
    BY <1>3, <1>4, <1>5 DEF BookTypeOK
  <2> QED
    BY <1>6, <1>7, <1>8, <1>9, <1>16, <2>1, <2>2, <2>3 DEF BookTypeOK
<1>11. ASSUME NEW j \in Ids, claim'[j] # Void
       PROVE  /\ Merged(files')[j] = claim'[j]
              /\ running' => book'[j] = claim'[j] \/ j \in lost'
  <2>1. CASE j = i
    <3>1. how = "done" /\ claim'[i] = b[i] /\ ~(b[i] = None /\ InFragment(i))
      BY <1>11, <2>1 DEF Persist, BookTypeOK
    <3>2. Merged(fs)[i] = b[i]
      BY <1>3, <3>1
    <3> QED
      BY <2>1, <3>1, <3>2, <1>4, <1>5
  <2>2. CASE j # i
    <3>1. claim'[j] = claim[j] /\ (how = "primaryFails" \/ j \notin lost)
      BY <1>11, <2>2 DEF Persist
    <3>2. Merged(files)[j] = claim[j] /\ (b[j] = claim[j] \/ j \in lost)
      BY <1>11, <2>2, <3>1 DEF AnsweredIsOnDisk, MemoryAnswers
    <3>3. CASE how = "primaryFails"
      <4>1. files' = files /\ book' = b /\ lost' = lost
        BY <1>4, <1>5, <1>16, <3>3
      <4> QED
        BY <3>1, <3>2, <4>1
    <3>4. CASE how # "primaryFails"
      <4>1. b[j] = claim[j] /\ files' = fs
        BY <1>4, <3>1, <3>2, <3>4
      <4>2. Merged(fs)[j] = claim[j]
        BY <1>3, <3>2, <4>1
      <4> QED
        BY <1>5, <3>1, <4>1, <4>2
    <3> QED
      BY <3>3, <3>4
  <2> QED
    BY <2>1, <2>2
<1>12. AnsweredIsOnDisk' /\ MemoryAnswers'
  BY <1>11 DEF AnsweredIsOnDisk, MemoryAnswers
<1>13. FilesAgree'
  <2> SUFFICES ASSUME running', ~failed', edited' = {}
               PROVE  FilesAgree'
    BY DEF FilesAgree
  <2>1. how = "done"
    BY DEF Persist
  <2>2. book' = b /\ hash' = b /\ meta' = [version |-> version', hash |-> hash']
    BY <2>1 DEF Persist, SavedMeta
  <2>3. files' = fs
    BY <1>4, <2>1
  <2>4. ASSUME NEW j \in Ids, book'[j] # None PROVE Merged(files')[j] = book'[j]
    BY <1>3, <2>2, <2>3, <2>4
  <2>5. ASSUME NEW j \in Ids, book'[j] = None, Merged(files')[j] # None
        PROVE  InFragment(j)'
    <3>1. InFragment(j)
      BY <1>3, <2>2, <2>3, <2>5
    <3>2. \A f \in Files \ {0} : files'[f] = files[f]
      BY <1>3, <2>3
    <3> QED
      BY <3>1, <3>2 DEF InFragment
  <2> QED
    BY <2>2, <2>4, <2>5 DEF FilesAgree
<1>14. Ledger'
  <2> SUFFICES ASSUME ~metaLost' PROVE Ledger'
    BY DEF Ledger
  <2>1. ~metaLost /\ how # "metaFails" /\ meta = [version |-> version, hash |-> hash]
    BY DEF Persist, Ledger
  <2>2. /\ version \in Nat /\ meta # None
        /\ \A t \in told : t.version \in Nat
    BY <2>1, NoneAssumption DEF BookTypeOK, Ledger, Telling
  <2>3. \A t \in told : t.version <= version /\ (t.version = version => t.hash = hash)
    BY <2>1, <2>2 DEF Ledger
  <2>4. CASE how = "done"
    <3>1. /\ version' = version + 1 /\ hash' = b /\ running'
          /\ meta' = [version |-> version + 1, hash |-> b]
          /\ \A t \in told' : t \in told \/ (t.version = version + 1 /\ t.hash = b)
      <4>1. /\ version' = version + 1 /\ hash' = b /\ running'
            /\ meta' = [version |-> version + 1, hash |-> b]
        BY <2>4 DEF Persist, SavedMeta
      <4> QED
        BY <1>9, <1>15, <1>17, <4>1, TellingFacts
    <3>2. \A t \in told : t.version < version + 1
      BY <2>2, <2>3
    <3>3. meta'.version = version + 1 /\ meta'.hash = b
      BY <3>1
    <3>4. meta' # None
      <4>1. [version |-> version + 1, hash |-> b] \in Meta
        BY <2>2 DEF Meta
      <4> QED
        BY <3>1, <4>1, NoneAssumption
    <3> QED
      BY <2>1, <2>2, <2>3, <3>1, <3>2, <3>3, <3>4 DEF Ledger
  <2>5. CASE how = "primaryFails"
    <3>1. /\ version' = version /\ hash' = hash /\ running' /\ meta' = meta
          /\ \A t \in told' : t \in told \/ (t.version = version /\ t.hash = hash)
      <4>1. version' = version /\ hash' = hash /\ running' /\ meta' = meta
        BY <2>5 DEF Persist
      <4> QED
        BY <1>9, <1>15, <1>17, <4>1, TellingFacts
    <3> QED
      BY <2>1, <2>2, <2>3, <3>1 DEF Ledger
  <2>6. CASE how = "dies"
    <3>1. ~running' /\ meta' = meta /\ told' = told
      BY <2>6 DEF Persist, Forget, Told
    <3> QED
      BY <2>1, <2>2, <2>3, <3>1 DEF Ledger
  <2> QED
    BY <2>1, <2>4, <2>5, <2>6
<1> QED
  BY <1>10, <1>12, <1>13, <1>14, <1>18

(* A mutation of a client or of a peer.                                    *)
LEMMA MutationKeeps ==
  ASSUME BookInv, running, NEW i \in Ids, NEW how \in Outcomes,
         Put(i, how) \/ Remove(i, how)
  PROVE  BookInv'
<1> USE DEF BookInv
<1>1. book \in Book /\ clock \in Stamp
  BY DEF BookTypeOK
<1>2. CASE Put(i, how)
  <2>1. clock + 1 \in Stamp
    BY <1>1, <1>2, BoundsAssumption DEF Put, Stamp
  <2>2. [book EXCEPT ![i] = clock + 1] \in Book
    BY <1>1, <2>1 DEF Book
  <2>3. \A j \in Ids \ {i} : [book EXCEPT ![i] = clock + 1][j] = book[j]
    BY <1>1 DEF Book
  <2> QED
    BY <1>2, <2>1, <2>2, <2>3, PersistKeeps DEF Put
<1>3. CASE Remove(i, how)
  <2>1. [book EXCEPT ![i] = None] \in Book
    BY <1>1 DEF Book
  <2>2. \A j \in Ids \ {i} : [book EXCEPT ![i] = None][j] = book[j]
    BY <1>1 DEF Book
  <2> QED
    BY <1>1, <1>3, <2>1, <2>2, PersistKeeps DEF Remove
<1> QED
  BY <1>2, <1>3

(* The version after load() is that of the meta file when the contents are *)
(* those it names, and a new one otherwise.                                *)
LEMMA LoadedVersion ==
  ASSUME BookTypeOK, Ledger, ~metaLost, NEW b \in Book, NEW v \in Nat,
         meta = None => v = 0
  PROVE  /\ LoadVersion(b, v) \in Nat
         /\ \A t \in told : /\ t.version <= LoadVersion(b, v)
                            /\ t.version = LoadVersion(b, v) => t.hash = b
<1>1. CASE meta = None
  BY <1>1 DEF Ledger, LoadVersion
<1>2. CASE meta # None
  <2>1. meta \in Meta /\ meta.version \in Nat
    BY <1>2 DEF BookTypeOK, Meta
  <2>2. \A t \in told : /\ t.version \in Nat /\ t.version <= meta.version
                        /\ t.version = meta.version => t.hash = meta.hash
    BY <1>2 DEF Ledger, BookTypeOK, Telling
  <2> QED
    BY <1>2, <2>1, <2>2 DEF LoadVersion
<1> QED
  BY <1>1, <1>2

(* reload() keeps what is known of the book.                               *)
LEMMA ReloadKeeps ==
  ASSUME BookInv, NEW how \in Outcomes, Reload(how)
  PROVE  BookInv'
<1> DEFINE b == Merged(files)
           v == LoadVersion(b, version)
<1>1. /\ b \in Book /\ files' \in [Files -> File] /\ Merged(files') = b
      /\ version \in Nat
  BY LoadKeeps DEF BookInv, BookTypeOK, Reload
<1>2. v \in Nat
  BY <1>1 DEF BookInv, BookTypeOK, LoadVersion, Meta
<1>3. /\ book' = b /\ hash' = b /\ version' = v /\ running' /\ running
      /\ claim' = claim /\ lost' = {} /\ Told
      /\ failed' = (how # "done") /\ edited' = {} /\ clock' = clock
      /\ metaLost' = (metaLost \/ how = "metaFails")
      /\ how \in {"done", "metaFails"}
  BY DEF Reload
<1>4. meta' = IF how = "done" THEN [version |-> v, hash |-> b] ELSE meta
  BY DEF Reload
<1>5. BookTypeOK'
  <2>1. left' \in Budget
    BY DEF Reload, Within, Spend, BookInv, BookTypeOK, Budget
  <2>2. meta' \in Meta \cup {None}
    BY <1>1, <1>2, <1>4 DEF BookInv, BookTypeOK, Meta
  <2>3. told' \in SUBSET Telling
    BY <1>1, <1>2, <1>3, TellingFacts DEF BookInv
  <2> HIDE DEF b, v
  <2> QED
    BY <1>1, <1>2, <1>3, <2>1, <2>2, <2>3 DEF BookInv, BookTypeOK
<1>9. HashIsFresh'
  BY <1>1, <1>2, <1>3, FreshIsTold DEF BookInv
<1>10. \A t \in told' : t \in told \/ (t.version = v /\ t.hash = b)
  BY <1>1, <1>2, <1>3, TellingFacts DEF BookInv
<1> HIDE DEF v
<1>6. AnsweredIsOnDisk' /\ MemoryAnswers'
  BY <1>1, <1>3 DEF BookInv, AnsweredIsOnDisk, MemoryAnswers
<1>7. FilesAgree'
  BY <1>1, <1>3, <1>4 DEF FilesAgree
<1>8. Ledger'
  <2> SUFFICES ASSUME ~metaLost' PROVE Ledger'
    BY DEF Ledger
  <2>1. ~metaLost /\ how = "done" /\ meta # None
    BY <1>3 DEF BookInv, Ledger
  <2>2. \A t \in told : t.version <= v /\ (t.version = v => t.hash = b)
    BY <1>1, <2>1, LoadedVersion DEF BookInv, v
  <2>3. meta' = [version |-> v, hash |-> b] /\ meta' # None
    <3>1. [version |-> v, hash |-> b] \in Meta
      BY <1>1, <1>2 DEF Meta
    <3> QED
      BY <1>4, <2>1, <3>1, NoneAssumption
  <2>4. meta'.version = v /\ meta'.hash = b
    BY <2>3
  <2> HIDE DEF b
  <2> QED
    BY <1>2, <1>3, <1>10, <2>1, <2>2, <2>3, <2>4 DEF BookInv, Ledger
<1> QED
  BY <1>5, <1>6, <1>7, <1>8, <1>9 DEF BookInv

(* A reload that raises leaves files that read the same, and a memory of   *)
(* the first of them.                                                      *)
LEMMA LoadedBeforeKeeps ==
  ASSUME files \in [Files -> File], NEW f \in Files
  PROVE  /\ LoadedBefore(f) \in [Files -> File]
         /\ Merged(LoadedBefore(f)) = Merged(files)
         /\ Merged(ReadBefore(f)) \in Book
<1>1. AfterLoad(files) \in [Files -> File]
  BY LoadKeeps
<1>2. \A g \in Files : AfterLoad(files)[g].rows = files[g].rows
  <2> SUFFICES ASSUME NEW g \in Files PROVE AfterLoad(files)[g].rows = files[g].rows
    OBVIOUS
  <2>1. files[g].kind # "list" => files[g].rows = Empty
    BY FileFacts
  <2>2. Bare("absent").rows = Empty /\ ListFile(Empty).rows = Empty
    BY DEF Bare, ListFile
  <2>3. AfterLoad(files)[g] = files[g] \/ (/\ files[g].kind \in {"malformed", "absent"}
                                          /\ AfterLoad(files)[g].rows = Empty)
    BY <2>2 DEF AfterLoad
  <2> QED
    BY <2>1, <2>3
<1>3. LoadedBefore(f) \in [Files -> File]
  BY <1>1 DEF LoadedBefore
<1>4. \A g \in Files : LoadedBefore(f)[g].rows = files[g].rows
  BY <1>2 DEF LoadedBefore
<1>5. ReadBefore(f) \in [Files -> File]
  BY MakesFiles DEF ReadBefore
<1> QED
  BY <1>3, <1>4, <1>5, MergedSame, LoadKeeps

(* It keeps what is known of the book.                                     *)
LEMMA RaiseKeeps ==
  ASSUME BookInv, NEW f \in Files, ReloadRaises(f)
  PROVE  BookInv'
<1>1. files \in [Files -> File]
  BY DEF BookInv, BookTypeOK
<1>2. files' \in [Files -> File] /\ Merged(files') = Merged(files) /\ book' \in Book
  BY <1>1, LoadedBeforeKeeps DEF ReloadRaises
<1>3. /\ lost' = {i \in Ids : book'[i] # Merged(files)[i]} /\ failed' = TRUE
      /\ running /\ Told
      /\ UNCHANGED <<meta, running, hash, version, clock, edited, metaLost, claim>>
  BY DEF ReloadRaises
<1>4. hash' \in Book /\ version' \in Nat
  BY <1>3 DEF BookInv, BookTypeOK
<1>5. BookTypeOK'
  <2>1. left' \in Budget
    BY DEF ReloadRaises, BookInv, BookTypeOK, Budget
  <2>2. told' \in SUBSET Telling
    BY <1>2, <1>3, <1>4, TellingFacts DEF BookInv
  <2>3. lost' \in SUBSET Ids
    BY <1>3
  <2> QED
    BY <1>2, <1>3, <2>1, <2>2, <2>3 DEF BookInv, BookTypeOK
<1>6. AnsweredIsOnDisk' /\ MemoryAnswers'
  BY <1>2, <1>3 DEF BookInv, AnsweredIsOnDisk, MemoryAnswers
<1>7. FilesAgree' /\ HashIsFresh'
  BY <1>2, <1>3, <1>4, FreshIsTold DEF BookInv, FilesAgree
<1>8. Ledger'
  <2>1. \A t \in told' : t \in told \/ (t.version = version /\ t.hash = hash)
    BY <1>2, <1>3, <1>4, TellingFacts DEF BookInv
  <2>2. SUFFICES ASSUME ~metaLost PROVE Ledger'
    BY <1>3 DEF Ledger
  <2>3. /\ meta = [version |-> version, hash |-> hash] /\ meta # None
        /\ \A t \in told : t.version <= version /\ (t.version = version => t.hash = hash)
        /\ \A s, t \in told : s.version = t.version => s.hash = t.hash
    BY <1>3, <2>2 DEF BookInv, Ledger
  <2>4. version \in Nat /\ meta.version = version /\ meta.hash = hash
    BY <2>3 DEF BookInv, BookTypeOK
  <2> QED
    BY <1>3, <2>1, <2>3, <2>4 DEF Ledger
<1> QED
  BY <1>5, <1>6, <1>7, <1>8 DEF BookInv

(* process_startup leaves the contacts the files had, or the bundled ones. *)
LEMMA StartFilesKeep ==
  ASSUME files \in [Files -> File]
  PROVE  /\ StartFiles \in [Files -> File]
         /\ ~Imports => Merged(StartFiles) = Merged(files)
         /\ \A j \in Ids : (Imports /\ Shipped[j] = None) =>
              Merged(StartFiles)[j] = None /\ Merged(files)[j] = None
<1>1. CASE ~Imports
  BY <1>1, LoadKeeps DEF StartFiles
<1>2. CASE Imports
  <2> DEFINE gs == AfterLoad(files)
             fs == [gs EXCEPT ![0] = ListFile(Shipped)]
  <2>1. gs \in [Files -> File] /\ Merged(gs) = Empty
    BY <1>2, LoadKeeps DEF Imports
  <2>2. fs \in [Files -> File]
    BY <2>1, MakesFiles, ShippedAssumption
  <2>3. 0 \in Files
    BY BoundsAssumption DEF Files
  <2> HIDE DEF gs
  <2>4. fs[0].rows = Shipped /\ \A f \in Files \ {0} : fs[f] = gs[f]
    BY <2>1, <2>3 DEF ListFile
  <2> HIDE DEF fs
  <2>5. ASSUME NEW j \in Ids, Shipped[j] = None
        PROVE  Merged(fs)[j] = None /\ Merged(files)[j] = None
    <3>1. Merged(gs)[j] = None /\ Merged(files)[j] = None
      BY <1>2, <2>1 DEF Imports, Empty
    <3>2. Holders(gs, j) = {}
      BY <3>1, MergedNone
    <3>3. Holders(fs, j) = {}
      BY <2>4, <2>5, <3>2 DEF Holders
    <3> QED
      BY <3>1, <3>3, MergedNone
  <2>6. StartFiles = AfterLoad(fs)
    BY <1>2 DEF StartFiles, fs, gs
  <2> QED
    BY <1>2, <2>2, <2>5, <2>6, LoadKeeps
<1> QED
  BY <1>1, <1>2

(* A start of the service keeps what is known of the book.                 *)
LEMMA StartupKeeps ==
  ASSUME BookInv, NEW how \in Outcomes, Startup(how)
  PROVE  BookInv'
<1> DEFINE b == Merged(StartFiles)
           v == LoadVersion(b, 0)
<1>1. files \in [Files -> File]
  BY DEF BookInv, BookTypeOK
<1>2. StartFiles \in [Files -> File] /\ b \in Book
  BY <1>1, StartFilesKeep, LoadKeeps
<1>3. v \in Nat
  BY DEF BookInv, BookTypeOK, LoadVersion, Meta
<1>4. \/ /\ how = "done" /\ files' = StartFiles
         /\ book' = b /\ hash' = b /\ version' = v /\ running'
         /\ meta' = [version |-> v, hash |-> b]
         /\ edited' = {} /\ failed' = FALSE
      \/ /\ how = "dies"
         /\ files' \in {LoadedBefore(f) : f \in Files} \cup {AfterLoad(files), StartFiles}
         /\ UNCHANGED <<meta, running, book, hash, version, edited, failed, told>>
         /\ ~running'
  BY DEF Startup, Told
<1>5. /\ claim' = [i \in Ids |-> IF Imports /\ Shipped[i] # None THEN Void ELSE claim[i]]
      /\ clock' = clock /\ metaLost' = metaLost /\ lost' = lost /\ Told
  BY DEF Startup
<1> HIDE DEF v, b
<1>11. /\ version' \in Nat /\ hash' \in Book /\ book' \in Book /\ failed' \in BOOLEAN
       /\ running' => failed' = FALSE /\ version' = v /\ hash' = b /\ book' = b
  BY <1>2, <1>3, <1>4 DEF BookInv, BookTypeOK
<1>12. HashIsFresh'
  BY <1>5, <1>11, FreshIsTold DEF BookInv
<1>6. BookTypeOK'
  <2>1. left' \in Budget
    BY DEF Startup, Within, Spend, BookInv, BookTypeOK, Budget
  <2>2. meta' \in Meta \cup {None}
    BY <1>2, <1>3, <1>4 DEF BookInv, BookTypeOK, Meta
  <2>3. told' \in SUBSET Telling
    BY <1>5, <1>11, TellingFacts DEF BookInv
  <2>4. files' \in [Files -> File]
    BY <1>1, <1>2, <1>4, LoadKeeps, LoadedBeforeKeeps
  <2>5. claim' \in [Ids -> Stamp \cup {None, Void}]
    BY <1>5 DEF BookInv, BookTypeOK
  <2> QED
    BY <1>2, <1>3, <1>4, <1>5, <2>1, <2>2, <2>3, <2>4, <2>5 DEF BookInv, BookTypeOK
<1>7. ASSUME NEW j \in Ids, claim'[j] # Void
      PROVE  /\ Merged(files')[j] = claim'[j]
             /\ how = "done" => b[j] = claim'[j]
  <2>1. claim'[j] = claim[j] /\ ~(Imports /\ Shipped[j] # None)
    BY <1>5, <1>7
  <2>2. Merged(files)[j] = claim[j]
    BY <1>7, <2>1 DEF BookInv, AnsweredIsOnDisk
  <2>3. Merged(StartFiles)[j] = claim[j]
    BY <1>1, <2>1, <2>2, StartFilesKeep
  <2>4. /\ Merged(AfterLoad(files))[j] = claim[j]
        /\ \A f \in Files : Merged(LoadedBefore(f))[j] = claim[j]
    BY <1>1, <2>2, LoadKeeps, LoadedBeforeKeeps
  <2> QED
    BY <1>4, <2>1, <2>3, <2>4 DEF b
<1>8. AnsweredIsOnDisk' /\ MemoryAnswers'
  BY <1>4, <1>7 DEF AnsweredIsOnDisk, MemoryAnswers
<1>9. FilesAgree'
  BY <1>4 DEF FilesAgree, b
<1>10. Ledger'
  <2> SUFFICES ASSUME ~metaLost' PROVE Ledger'
    BY DEF Ledger
  <2>1. CASE how = "done"
    <3>1. \A t \in told : t.version <= v /\ (t.version = v => t.hash = b)
      BY <1>2, <1>5, LoadedVersion DEF BookInv, v
    <3>2. meta' = [version |-> v, hash |-> b] /\ meta' # None
      <4>1. [version |-> v, hash |-> b] \in Meta
        BY <1>2, <1>3 DEF Meta
      <4> QED
        BY <1>4, <2>1, <4>1, NoneAssumption
    <3>3. meta'.version = v /\ meta'.hash = b
      BY <3>2
    <3>4. \A t \in told' : t \in told \/ (t.version = v /\ t.hash = b)
      BY <1>5, <1>11, TellingFacts DEF BookInv
    <3> QED
      BY <1>3, <1>4, <1>5, <2>1, <3>1, <3>2, <3>3, <3>4 DEF BookInv, Ledger
  <2>2. CASE how # "done"
    BY <1>4, <1>5, <2>2 DEF BookInv, Ledger
  <2> QED
    BY <2>1, <2>2
<1> QED
  BY <1>6, <1>8, <1>9, <1>10, <1>12 DEF BookInv

(* The end of the process, an edit of a file, and the steps that leave the *)
(* book alone.                                                             *)
LEMMA RestKeeps ==
  ASSUME BookInv, \/ UNCHANGED coreVars /\ left' \in Budget
                  \/ Stop
                  \/ \E f \in Files : EditOf(f)
  PROVE  BookInv'
<1>1. CASE UNCHANGED coreVars /\ left' \in Budget
  BY <1>1 DEF coreVars, BookInv, BookTypeOK, AnsweredIsOnDisk, MemoryAnswers,
              FilesAgree, InFragment, Ledger, HashIsFresh
<1>2. CASE Stop
  <2> USE <1>2 DEF Stop, Forget, BookInv
  <2>1. left' \in Budget
    BY DEF Within, Spend, BookTypeOK, Budget
  <2>2. BookTypeOK'
    BY <2>1, MakesFiles DEF BookTypeOK
  <2>3. AnsweredIsOnDisk' /\ MemoryAnswers' /\ FilesAgree'
    BY DEF AnsweredIsOnDisk, MemoryAnswers, FilesAgree
  <2>4. Ledger' /\ HashIsFresh'
    BY DEF Ledger, HashIsFresh
  <2> QED
    BY <2>2, <2>3, <2>4
<1>3. ASSUME NEW f \in Files, EditOf(f) PROVE BookInv'
  <2>1. PICK new \in File : Edit(f, new) /\ clock' \in Stamp
    <3>1. files[f] \in File /\ clock \in Stamp
      BY DEF BookInv, BookTypeOK
    <3>2. files[f].rows \in Book
      BY <3>1, FileFacts
    <3>3. ASSUME NEW i \in Ids, clock < MaxStamp, clock' = clock + 1
          PROVE  clock' \in Stamp /\ ListFile([files[f].rows EXCEPT ![i] = clock + 1]) \in File
      <4>1. clock + 1 \in Stamp
        BY <3>1, <3>3, BoundsAssumption DEF Stamp
      <4> QED
        BY <3>2, <3>3, <4>1, MakesFiles DEF Book
    <3>4. ASSUME NEW i \in Ids
          PROVE  ListFile([files[f].rows EXCEPT ![i] = None]) \in File
      <4>1. [files[f].rows EXCEPT ![i] = None] \in Book
        BY <3>2 DEF Book
      <4> QED
        BY <4>1, MakesFiles
    <3>5. {Bare("malformed"), Bare("object"), ListFile(Shipped)} \subseteq File
      BY MakesFiles, ShippedAssumption
    <3> QED
      BY <1>3, <3>1, <3>3, <3>4, <3>5 DEF EditOf
  <2>2. left' \in Budget
    BY <2>1 DEF Edit, BookInv, BookTypeOK, Budget
  <2>3. claim' \in [Ids -> Stamp \cup {None, Void}]
    BY <2>1 DEF Edit, BookInv, BookTypeOK
  <2>4. files' \in [Files -> File]
    BY <2>1 DEF Edit, BookInv, BookTypeOK
  <2>5. BookTypeOK'
    BY <2>1, <2>2, <2>3, <2>4 DEF Edit, BookInv, BookTypeOK
  <2>6. \A i \in Ids : claim'[i] # Void =>
          claim'[i] = claim[i] /\ Merged(files')[i] = Merged(files)[i]
    BY <2>1 DEF Edit
  <2>7. AnsweredIsOnDisk' /\ MemoryAnswers'
    BY <2>1, <2>6 DEF Edit, BookInv, AnsweredIsOnDisk, MemoryAnswers
  <2>8. FilesAgree' /\ Ledger' /\ HashIsFresh'
    BY <2>1 DEF Edit, BookInv, FilesAgree, Ledger, HashIsFresh
  <2> QED
    BY <2>5, <2>7, <2>8 DEF BookInv
<1> QED
  BY <1>1, <1>2, <1>3

(* Memory, files and versions agree as far as they must, always.           *)
THEOREM BookSafety == Spec => []BookInv
<1>1. Init => BookInv
  <2> SUFFICES ASSUME Init PROVE BookInv
    OBVIOUS
  <2>1. files \in [Files -> File] /\ left \in Budget
    BY CasesAssumption DEF Init
  <2>2. clock \in Stamp
    BY BoundsAssumption DEF Init, Stamp
  <2>3. BookTypeOK
    BY <2>1, <2>2, MakesFiles DEF Init, BookTypeOK
  <2>4. AnsweredIsOnDisk /\ MemoryAnswers /\ FilesAgree /\ Ledger /\ HashIsFresh
    BY DEF Init, AnsweredIsOnDisk, MemoryAnswers, FilesAgree, Ledger, HashIsFresh
  <2> QED
    BY <2>3, <2>4 DEF BookInv
<1>2. QueueInv /\ BookInv /\ [Next]_vars => BookInv'
  <2> SUFFICES ASSUME QueueInv, BookInv, [Next]_vars PROVE BookInv'
    OBVIOUS
  <2>1. BookStep
    BY BookNext DEF BookInv
  <2> QED
    BY <2>1, MutationKeeps, ReloadKeeps, RaiseKeeps, StartupKeeps, RestKeeps DEF BookStep
<1> QED
  BY <1>1, <1>2, QueueSafety, PTL DEF Spec

(* A version names one hash, and one contents to those who are told it     *)
(* when nothing has just failed; none told lies ahead.                     *)
THEOREM VersionsAreHonest == Spec => []VersionNamesContent
<1>1. BookInv => VersionNamesContent
  <2> SUFFICES ASSUME BookInv, ~metaLost PROVE VersionNamesContent
    BY DEF VersionNamesContent
  <2>1. running => \A s \in told : s.version <= version
    <3> SUFFICES ASSUME running PROVE \A s \in told : s.version <= version
      OBVIOUS
    <3>1. meta = [version |-> version, hash |-> hash] /\ meta # None
      BY DEF BookInv, Ledger
    <3> QED
      BY <3>1 DEF BookInv, Ledger
  <2> QED
    BY <2>1 DEF BookInv, Ledger, HashIsFresh, VersionNamesContent
<1> QED
  BY <1>1, BookSafety, PTL

(* Once every write has succeeded memory and disk agree.                   *)
THEOREM FilesAreMemory == Spec => []FilesAgree
<1>1. BookInv => FilesAgree
  BY DEF BookInv
<1> QED
  BY <1>1, BookSafety, PTL

(* What an answered mutation left of a contact is what the files say.      *)
THEOREM MutationsLast == Spec => []AnsweredIsOnDisk
<1>1. BookInv => AnsweredIsOnDisk
  BY DEF BookInv
<1> QED
  BY <1>1, BookSafety, PTL

-----------------------------------------------------------------------------
(* What the peers are told.                                                *)

CastTypes ==
  /\ setting \in Settings /\ initial \in Settings
  /\ casts \subseteq Casts
  /\ seen \in [Ids -> [Clients -> Nat]]

\* A connection has at most one payload on its way, and waits for it.
OneCastEach ==
  /\ \A c \in casts : call[c.by] = Casting /\ \A d \in casts : d.by = c.by => d = c
  /\ ~running => casts = {}

\* No peer has seen a version that is not recorded, or that lies ahead of a
\* payload the same connection has on its way.
SeenIsBehind ==
  ~metaLost =>
    /\ \A c \in casts : meta # None /\ c.version <= meta.version
    /\ \A p \in Ids, k \in Clients :
         /\ meta = None => seen[p][k] = 0
         /\ meta # None => seen[p][k] <= meta.version
         /\ \A c \in casts : c.by = k => seen[p][k] <= c.version

CastInv == CastTypes /\ OneCastEach /\ SeenIsBehind

\* The meta file is kept, or written with a version that is not lower.
MetaGrows ==
  \/ meta' = meta
  \/ /\ meta' \in Meta
     /\ meta # None => meta.version <= meta'.version

(* The version of the meta file never goes back, and once it could not be  *)
(* written that stays known.                                               *)
LEMMA MetaNeverBack ==
  ASSUME BookInv, BookInv', BookStep, ~metaLost'
  PROVE  ~metaLost /\ MetaGrows
<1> USE DEF BookInv, MetaGrows
<1>1. \/ meta' = meta
      \/ /\ meta' = [version |-> version', hash |-> hash'] /\ running'
         /\ version' = version + 1 /\ running
      \/ \E b \in Book : /\ version' = LoadVersion(b, version) /\ running
                         /\ meta' = [version |-> version', hash |-> b]
      \/ \E b \in Book : /\ version' = LoadVersion(b, 0)
                         /\ meta' = [version |-> version', hash |-> b]
  <2>1. ASSUME NEW i \in Ids, NEW how \in Outcomes, running, Put(i, how) \/ Remove(i, how)
        PROVE  \/ meta' = meta
               \/ /\ meta' = [version |-> version', hash |-> hash'] /\ running'
                  /\ version' = version + 1 /\ running
    BY <2>1 DEF Put, Remove, Persist, SavedMeta
  <2>2. Merged(files) \in Book /\ Merged(StartFiles) \in Book
    BY LoadKeeps, StartFilesKeep DEF BookTypeOK
  <2>3. ASSUME NEW how \in Outcomes, Reload(how)
        PROVE  meta' = meta \/ \E b \in Book :
                 /\ version' = LoadVersion(b, version) /\ running
                 /\ meta' = [version |-> version', hash |-> b]
    BY <2>2, <2>3 DEF Reload
  <2>4. ASSUME NEW how \in Outcomes, Startup(how)
        PROVE  meta' = meta \/ \E b \in Book :
                 /\ version' = LoadVersion(b, 0)
                 /\ meta' = [version |-> version', hash |-> b]
    BY <2>2, <2>4 DEF Startup
  <2>5. CASE UNCHANGED coreVars \/ Stop \/ \E f \in Files : EditOf(f) \/ ReloadRaises(f)
    BY <2>5 DEF coreVars, Stop, EditOf, Edit, ReloadRaises
  <2> QED
    BY <2>1, <2>3, <2>4, <2>5 DEF BookStep
<1>2. ~metaLost
  BY DEF BookStep, coreVars, Put, Remove, Persist, Reload, ReloadRaises, Startup,
         Stop, EditOf, Edit
<1>3. meta \in Meta \cup {None} /\ meta' \in Meta \cup {None}
  BY DEF BookTypeOK
<1>4. version \in Nat /\ (meta # None => meta.version \in Nat)
  BY <1>3 DEF BookTypeOK, Meta
<1>5. CASE /\ meta' = [version |-> version', hash |-> hash'] /\ running'
           /\ version' = version + 1 /\ running
  <2>1. meta' \in Meta /\ meta'.version = version + 1
    BY <1>4, <1>5 DEF BookTypeOK, Meta
  <2>2. meta.version = version
    BY <1>2, <1>5 DEF Ledger
  <2> QED
    BY <1>2, <1>4, <2>1, <2>2
<1>6. ASSUME NEW b \in Book, NEW v \in Nat, version' = LoadVersion(b, v),
             meta' = [version |-> version', hash |-> b]
      PROVE  MetaGrows
  <2>1. meta # None => LoadVersion(b, v) >= meta.version
    BY <1>4 DEF LoadVersion
  <2>2. meta'.version = LoadVersion(b, v) /\ LoadVersion(b, v) \in Nat
    BY <1>4, <1>6 DEF LoadVersion
  <2>3. meta' \in Meta
    BY <1>6, <2>2 DEF Meta
  <2> QED
    BY <1>4, <2>1, <2>2, <2>3
<1> QED
  BY <1>1, <1>2, <1>4, <1>5, <1>6

(* Steps that tell no peer and put no payload on its way.                  *)
LEMMA CastsApart ==
  ASSUME BookInv, BookInv', BookStep, CastInv, casts' = {} \/ casts' = casts,
         \A k \in Clients : call[k] = Casting => (casts' = {} \/ call'[k] = Casting),
         ~running' => casts' = {},
         setting' \in Settings, initial' = initial, seen' = seen
  PROVE  CastInv'
<1> USE DEF CastInv
<1>1. CastTypes'
  BY DEF CastTypes
<1>2. OneCastEach'
  BY DEF OneCastEach, CastTypes, Casts
<1>3. SeenIsBehind'
  <2> SUFFICES ASSUME ~metaLost' PROVE SeenIsBehind'
    BY DEF SeenIsBehind
  <2>1. ~metaLost /\ MetaGrows
    BY MetaNeverBack
  <2>2. \A c \in casts : c.version \in Nat
    BY DEF CastTypes, Casts
  <2>3. \A p \in Ids, k \in Clients : seen[p][k] \in Nat
    BY DEF CastTypes
  <2>4. meta # None => meta.version \in Nat
    BY DEF BookInv, BookTypeOK, Meta
  <2>5. meta' # None => meta'.version \in Nat
    BY DEF BookInv, BookTypeOK, Meta
  <2>6. meta # None => meta' # None /\ meta.version <= meta'.version
    BY <2>1, <2>4, NoneAssumption DEF MetaGrows
  <2> QED
    BY <2>1, <2>2, <2>3, <2>4, <2>5, <2>6 DEF SeenIsBehind
<1> QED
  BY <1>1, <1>2, <1>3

(* A payload leaves a connection that had none on its way.                 *)
LEMMA CastBegins ==
  ASSUME BookInv, BookInv', BookStep, CastInv, running', NEW k \in Clients, call[k] = Idle,
         NEW m \in BOOLEAN, NEW t \in SUBSET Ids,
         call \in [Clients -> {Idle, Casting} \cup Decisions],
         call' = [call EXCEPT ![k] = Casting],
         casts' = casts \cup {Cast(k, m, version', t)},
         setting' = setting, initial' = initial, seen' = seen
  PROVE  CastInv'
<1> USE KindsApart DEF CastInv
<1> DEFINE n == Cast(k, m, version', t)
<1>1. version' \in Nat
  BY DEF BookInv, BookTypeOK
<1>2. n \in Casts /\ n.by = k /\ n.version = version'
  BY <1>1 DEF Casts, Cast
<1> HIDE DEF n
<1>3. casts' = casts \cup {n}
  BY DEF n
<1>4. \A c \in casts : c \in Casts /\ c.by \in Clients /\ c.by # k /\ c.version \in Nat
  BY DEF OneCastEach, CastTypes, Casts
<1>5. CastTypes'
  BY <1>2, <1>3 DEF CastTypes
<1>6. OneCastEach'
  BY <1>2, <1>3, <1>4 DEF OneCastEach
<1>7. SeenIsBehind'
  <2> SUFFICES ASSUME ~metaLost' PROVE SeenIsBehind'
    BY DEF SeenIsBehind
  <2>1. ~metaLost /\ MetaGrows
    BY MetaNeverBack
  <2>2. \A p \in Ids, j \in Clients : seen[p][j] \in Nat
    BY DEF CastTypes
  <2>3. meta # None => meta.version \in Nat
    BY DEF BookInv, BookTypeOK, Meta
  <2>4. meta' # None /\ meta'.version = version'
    BY DEF BookInv, Ledger
  <2>5. meta # None => meta.version <= meta'.version
    BY <2>1, <2>3 DEF MetaGrows
  <2>6. \A p \in Ids, j \in Clients : seen[p][j] <= meta'.version
    BY <1>1, <2>1, <2>2, <2>3, <2>4, <2>5 DEF SeenIsBehind
  <2>7. \A c \in casts : c.version <= meta'.version
    BY <1>1, <1>4, <2>1, <2>3, <2>4, <2>5 DEF SeenIsBehind
  <2> QED
    BY <1>1, <1>2, <1>3, <1>4, <2>1, <2>4, <2>6, <2>7 DEF SeenIsBehind
<1> QED
  BY <1>5, <1>6, <1>7

(* One peer is told, or the broadcast ends.                                *)
LEMMA CastStepKeeps ==
  ASSUME QueueInv, BookInv, CastInv, NEW c \in casts, CastStep(c)
  PROVE  CastInv' /\ (~metaLost => \A p \in Ids, k \in Clients : seen[p][k] <= seen'[p][k])
<1> USE KindsApart DEF CastInv, bookVars, coreVars
<1>1. c \in Casts /\ c.by \in Clients /\ c.version \in Nat /\ c.todo \in SUBSET Ids
  BY DEF CastTypes, Casts
<1>2. \A p \in Ids, k \in Clients : seen[p][k] \in Nat
  BY DEF CastTypes
<1>3. CASE CastEnds(c)
  <2> USE <1>3 DEF CastEnds
  <2>1. CastTypes' /\ SeenIsBehind'
    BY DEF CastTypes, SeenIsBehind
  <2>2. OneCastEach'
    BY <1>1 DEF OneCastEach, QueueInv, QueueTypes
  <2> QED
    BY <1>2, <2>1, <2>2
<1>4. ASSUME NEW arrives \in BOOLEAN, Tell(c, arrives)
      PROVE  CastInv' /\ (~metaLost => \A p \in Ids, k \in Clients : seen[p][k] <= seen'[p][k])
  <2> DEFINE n == [c EXCEPT !.todo = IF c.must /\ ~arrives THEN {} ELSE @ \ {NextPeer(c)}]
  <2>1. n \in Casts /\ n.by = c.by /\ n.version = c.version
    BY <1>1 DEF Casts
  <2>2. casts' = (casts \ {c}) \cup {n} /\ UNCHANGED <<coreVars, setting, initial, call>>
    BY <1>4 DEF Tell
  <2> HIDE DEF n
  <2>3. seen' \in [Ids -> [Clients -> Nat]]
    BY <1>1, <1>4 DEF Tell, CastTypes
  <2>4. \A p \in Ids, k \in Clients :
          seen'[p][k] = seen[p][k] \/ (k = c.by /\ seen'[p][k] = c.version)
    BY <1>1, <1>4 DEF Tell, CastTypes
  <2>5. CastTypes'
    BY <2>1, <2>2, <2>3 DEF CastTypes
  <2>6. \A d \in casts : d.by = c.by => d = c
    BY DEF OneCastEach
  <2>7. OneCastEach'
    <3>1. running
      BY <1>4 DEF Tell
    <3> QED
      BY <2>1, <2>2, <2>6, <3>1 DEF OneCastEach
  <2>8. ASSUME ~metaLost
        PROVE  /\ \A p \in Ids, k \in Clients : seen[p][k] <= seen'[p][k]
               /\ SeenIsBehind'
    <3>1. /\ meta # None /\ c.version <= meta.version
          /\ \A p \in Ids, k \in Clients : /\ seen[p][k] <= meta.version
                                           /\ k = c.by => seen[p][k] <= c.version
      BY <2>8 DEF SeenIsBehind
    <3>2. \A p \in Ids, k \in Clients : seen[p][k] <= seen'[p][k] /\ seen'[p][k] <= meta.version
      BY <1>1, <1>2, <2>4, <3>1
    <3>3. \A p \in Ids : seen'[p][c.by] <= c.version
      BY <1>1, <1>2, <2>4, <3>1
    <3>4. \A p \in Ids, k \in Clients : \A d \in casts \ {c} :
            d.by = k => seen'[p][k] <= d.version
      BY <2>4, <2>6, <2>8 DEF SeenIsBehind
    <3>5. \A d \in casts : d.version <= meta.version
      BY <2>8 DEF SeenIsBehind
    <3> QED
      BY <2>1, <2>2, <3>1, <3>2, <3>3, <3>4, <3>5 DEF SeenIsBehind
  <2>9. metaLost => SeenIsBehind'
    BY <2>2 DEF SeenIsBehind
  <2> QED
    BY <2>5, <2>7, <2>8, <2>9
<1> QED
  BY <1>3, <1>4 DEF CastStep

(* Steps that broadcast nothing.                                           *)
LEMMA OtherStepsKeepCasts ==
  ASSUME QueueInv, BookInv, BookInv', BookStep, CastInv,
         \/ \E u \in Updates : UpdateStep(u)
         \/ ProcessStep
         \/ UNCHANGED vars
         \/ \E k \in Clients :
              \/ \E how \in Outcomes : ReloadBook(k, how) \/ RunPending(k, how)
              \/ \E f \in Files : ReloadBreaks(k, f)
              \/ \E s \in Settings : Configure(k, s)
              \/ \E u \in Updates, op \in {"apply", "reject"} : Decide(k, u, op)
              \/ GetPending(k) \/ DeletePending(k) \/ CommitDelete(k)
  PROVE  CastInv' /\ seen' = seen
<1> USE KindsApart
<1>1. setting \in Settings /\ initial \in Settings
  BY DEF CastInv, CastTypes
<1>2. ~running => casts = {}
  BY DEF CastInv, OneCastEach
<1>3. ASSUME NEW u \in Updates, UpdateStep(u) PROVE CastInv' /\ seen' = seen
  <2>1. ASSUME NEW how \in Outcomes, ApplyInbound(u, how) PROVE CastInv' /\ seen' = seen
    <3>1. CASE how = "dies"
      BY <1>1, <2>1, <3>1, CastsApart DEF ApplyInbound, EndedIn
    <3>2. CASE how # "dies"
      <4>1. running' = running
        BY <2>1, <3>2, ApplyRuns DEF ApplyInbound
      <4> QED
        BY <1>1, <2>1, <3>2, <4>1, CastsApart DEF ApplyInbound
    <3> QED
      BY <3>1, <3>2
  <2>2. CASE Drop(u) \/ KeepInbound(u) \/ InsertPending(u) \/ CommitPending(u) \/ PushPending(u)
    <3>1. UNCHANGED <<running, setting, call, casts, initial, seen>>
      BY <2>2 DEF Drop, KeepInbound, InsertPending, CommitPending, PushPending,
                  bookVars, coreVars
    <3> QED
      BY <1>1, <1>2, <3>1, CastsApart
  <2> QED
    BY <1>3, <2>1, <2>2 DEF UpdateStep
<1>4. CASE ProcessStep
  <2>1. ASSUME NEW how \in Outcomes, Start(how) PROVE CastInv' /\ seen' = seen
    <3>1. casts = {} /\ UNCHANGED <<casts, initial, seen>> /\ setting' = initial
      BY <1>2, <2>1 DEF Start, Startup
    <3> QED
      BY <1>1, <3>1, CastsApart
  <2>2. CASE Die
    BY <1>1, <2>2, CastsApart DEF Die, Ended, EndedIn
  <2>3. ASSUME NEW f \in Files, EditFile(f) PROVE CastInv' /\ seen' = seen
    <3>1. UNCHANGED <<running, setting, call, casts, initial, seen>>
      BY <2>3 DEF EditFile, EditOf, Edit, syncVars
    <3> QED
      BY <1>1, <1>2, <3>1, CastsApart
  <2> QED
    BY <1>4, <2>1, <2>2, <2>3 DEF ProcessStep
<1>5. CASE UNCHANGED vars
  <2>1. UNCHANGED <<running, setting, call, casts, initial, seen>>
    BY <1>5 DEF vars, bookVars, coreVars, syncVars
  <2> QED
    BY <1>1, <1>2, <2>1, CastsApart
<1>6. ASSUME NEW k \in Clients PROVE
        /\ \A how \in Outcomes : ReloadBook(k, how) => CastInv' /\ seen' = seen
        /\ \A f \in Files : ReloadBreaks(k, f) => CastInv' /\ seen' = seen
        /\ \A s \in Settings : Configure(k, s) => CastInv' /\ seen' = seen
  <2>3. ASSUME NEW f \in Files, ReloadBreaks(k, f) PROVE CastInv' /\ seen' = seen
    <3>1. UNCHANGED <<running, setting, call, casts, initial, seen>>
      BY <2>3 DEF ReloadBreaks, ReloadRaises
    <3> QED
      BY <1>1, <1>2, <3>1, CastsApart
  <2>1. ASSUME NEW how \in Outcomes, ReloadBook(k, how) PROVE CastInv' /\ seen' = seen
    <3>1. UNCHANGED <<running, setting, call, casts, initial, seen>>
      BY <2>1 DEF ReloadBook, Reload
    <3> QED
      BY <1>1, <1>2, <3>1, CastsApart
  <2>2. ASSUME NEW s \in Settings, Configure(k, s) PROVE CastInv' /\ seen' = seen
    <3>1. UNCHANGED <<running, call, casts, initial, seen>> /\ setting' = s
      BY <2>2 DEF Configure, coreVars
    <3> QED
      BY <1>2, <3>1, CastsApart
  <2> QED
    BY <2>1, <2>2, <2>3
<1>7. ASSUME NEW k \in Clients, NEW how \in Outcomes, RunPending(k, how)
      PROVE  CastInv' /\ seen' = seen
  <2>1. CASE how = "dies"
    BY <1>1, <1>7, <2>1, CastsApart DEF RunPending, Ended, EndedIn
  <2>2. CASE how # "dies"
    <3>1. running' = running
      BY <1>7, <2>2, ApplyRuns DEF RunPending
    <3>2. \A j \in Clients : call[j] = Casting => call'[j] = Casting
      BY <1>7, <2>2 DEF RunPending, QueueInv, QueueTypes
    <3> QED
      BY <1>1, <1>2, <1>7, <2>2, <3>1, <3>2, CastsApart DEF RunPending
  <2> QED
    BY <2>1, <2>2
<1>8. ASSUME NEW k \in Clients,
             \/ \E u \in Updates, op \in {"apply", "reject"} : Decide(k, u, op)
             \/ GetPending(k) \/ DeletePending(k) \/ CommitDelete(k)
      PROVE  CastInv' /\ seen' = seen
  <2>1. UNCHANGED <<running, setting, casts, initial, seen>>
    BY <1>8 DEF Decide, GetPending, DeletePending, CommitDelete, bookVars, coreVars
  <2>2. \A j \in Clients : call[j] = Casting => call'[j] = Casting
    BY <1>8 DEF Decide, Ready, GetPending, DeletePending, CommitDelete, QueueInv, QueueTypes
  <2> QED
    BY <1>1, <1>2, <2>1, <2>2, CastsApart
<1> QED
  BY <1>3, <1>4, <1>5, <1>6, <1>7, <1>8

(* Requests that broadcast.                                                *)
LEMMA BroadcastsKeepCasts ==
  ASSUME QueueInv, BookInv, BookInv', BookStep, CastInv, NEW k \in Clients,
         \/ SyncNow(k)
         \/ \E i \in Ids, how \in Outcomes :
              PutContact(k, i, how) \/ RemoveContact(k, i, how) \/ ApplyDiscovered(k, i, how)
  PROVE  CastInv' /\ seen' = seen
<1> USE KindsApart
<1>1. /\ setting \in Settings /\ initial \in Settings
      /\ call \in [Clients -> {Idle, Casting} \cup Decisions]
  BY DEF CastInv, CastTypes, QueueInv, QueueTypes
<1>2. CASE SyncNow(k)
  <2> DEFINE t == {p \in Ids : book[p] # None}
  <2>1. /\ casts' = casts \cup {Cast(k, TRUE, version', t)}
        /\ call' = [call EXCEPT ![k] = Casting]
        /\ running' /\ call[k] = Idle /\ UNCHANGED <<setting, initial, seen>>
    BY <1>2 DEF SyncNow, Ready, coreVars
  <2>2. t \in SUBSET Ids
    OBVIOUS
  <2> HIDE DEF t
  <2> QED
    BY <1>1, <2>1, <2>2, CastBegins
<1>3. ASSUME NEW i \in Ids, NEW how \in Outcomes,
             PutContact(k, i, how) \/ RemoveContact(k, i, how) \/ ApplyDiscovered(k, i, how)
      PROVE  CastInv' /\ seen' = seen
  <2>1. PICK b \in BOOLEAN : Change(k, i, how, b)
    BY <1>3 DEF PutContact, RemoveContact, ApplyDiscovered
  <2>2. running /\ call[k] = Idle
    BY <1>3 DEF PutContact, RemoveContact, ApplyDiscovered, Ready
  <2>3. how # "dies" => running'
    BY <1>3, <2>2, MutationRuns DEF PutContact, RemoveContact, ApplyDiscovered
  <2>4. UNCHANGED <<setting, initial, seen>>
    BY <2>1 DEF Change
  <2>5. CASE how = "dies"
    BY <1>1, <2>1, <2>4, <2>5, CastsApart DEF Change, Ended, EndedIn
  <2>6. CASE how # "dies" /\ UNCHANGED <<casts, call>>
    BY <1>1, <2>3, <2>4, <2>6, CastsApart
  <2>7. CASE /\ how # "dies"
             /\ casts' = casts \cup {Cast(k, FALSE, version', Others(i))}
             /\ call' = [call EXCEPT ![k] = Casting]
    <3>1. Others(i) \in SUBSET Ids
      BY DEF Others
    <3>2. PICK t \in SUBSET Ids : casts' = casts \cup {Cast(k, FALSE, version', t)}
      BY <2>7, <3>1
    <3> QED
      BY <1>1, <2>2, <2>3, <2>4, <2>7, <3>2, CastBegins
  <2> QED
    BY <2>1, <2>5, <2>6, <2>7 DEF Change, WhileCasting
<1> QED
  BY <1>2, <1>3

(* What peers are told is behind what is recorded.                         *)
THEOREM CastSafety == Spec => [](QueueInv /\ BookInv /\ CastInv)
<1>1. Init => CastInv
  <2> SUFFICES ASSUME Init PROVE CastInv
    OBVIOUS
  <2>1. setting \in Settings /\ initial \in Settings
    BY CasesAssumption DEF Init
  <2> QED
    BY <2>1 DEF Init, CastInv, CastTypes, OneCastEach, SeenIsBehind
<1>2. QueueInv /\ BookInv /\ BookInv' /\ CastInv /\ [Next]_vars => CastInv'
  <2> SUFFICES ASSUME QueueInv, BookInv, BookInv', CastInv, [Next]_vars PROVE CastInv'
    OBVIOUS
  <2>1. BookStep
    BY BookNext DEF BookInv
  <2> QED
    BY <2>1, CastStepKeeps, OtherStepsKeepCasts, BroadcastsKeepCasts DEF Next, ClientStep
<1> QED
  BY <1>1, <1>2, QueueSafety, BookSafety, PTL DEF Spec

(* Every variable keeps its type.                                          *)
THEOREM TypeCorrect == Spec => []TypeOK
<1>1. QueueInv /\ BookInv /\ CastInv => TypeOK
  BY DEF QueueInv, QueueTypes, BookInv, CastInv, CastTypes, TypeOK
<1> QED
  BY <1>1, CastSafety, PTL

(* A peer learns the changes of one connection in the order of versions.   *)
THEOREM VersionsArriveInOrder == Spec => PerClientOrder
<1> DEFINE A == ~metaLost' => \A p \in Ids, k \in Clients : seen[p][k] <= seen'[p][k]
<1>1. QueueInv /\ BookInv /\ BookInv' /\ CastInv /\ [Next]_vars => [A]_vars
  <2> SUFFICES ASSUME QueueInv, BookInv, BookInv', CastInv, [Next]_vars, ~metaLost'
               PROVE  \A p \in Ids, k \in Clients : seen[p][k] <= seen'[p][k]
    OBVIOUS
  <2>1. BookStep
    BY BookNext DEF BookInv
  <2>2. ~metaLost
    BY <2>1, MetaNeverBack
  <2>3. \A p \in Ids, k \in Clients : seen[p][k] \in Nat
    BY DEF CastInv, CastTypes
  <2>4. CASE \E c \in casts : CastStep(c)
    BY <2>2, <2>4, CastStepKeeps
  <2>5. CASE ~\E c \in casts : CastStep(c)
    <3>1. seen' = seen
      BY <2>1, <2>5, OtherStepsKeepCasts, BroadcastsKeepCasts DEF Next, ClientStep
    <3> QED
      BY <2>3, <3>1
  <2> QED
    BY <2>4, <2>5
<1> QED
  BY <1>1, CastSafety, PTL DEF Spec, PerClientOrder

=============================================================================
