----------------------------- MODULE AddressBook -----------------------------
(***************************************************************************)
(* AddressBookManager (connection_service/addressbook.py): the contacts in *)
(* memory, the primary file, the fragment files, the meta file, and the    *)
(* version and content hash the user interfaces are told.                  *)
(*                                                                         *)
(* Every method runs without an await, so a method is one step; its writes *)
(* may fail or the process may die between two of them.  This module has   *)
(* the state and the methods; AddressBookSync has the callers.             *)
(*                                                                         *)
(* A contact is the stamp of the mutation that made it (updated_at), a     *)
(* hash is the book it was computed from.  Left out: warnings, invalid     *)
(* rows of a file, which load skips, and the .bad files.                   *)
(***************************************************************************)
EXTENDS Integers, FiniteSets

CONSTANTS
  Ids,         \* contact ids
  MaxStamp,    \* contacts made by mutations and by edits (bound)
  NFragments,  \* files in addressbook.d, in the order of their names
  Shipped,     \* the bundled book
  None,        \* no contact with this id
  Void         \* history: nothing is promised of this id

ASSUME IdsAssumption == Ids \subseteq Nat
ASSUME BoundsAssumption == MaxStamp \in Nat /\ NFragments \in Nat

Stamp == 0..MaxStamp
Book  == [Ids -> Stamp \cup {None}]
Empty == [i \in Ids |-> None]
Files == 0..NFragments  \* 0 is the primary file

ASSUME ShippedAssumption == Shipped \in Book

VARIABLES
  files,    \* disk: addressbook.json and the fragments
  meta,     \* disk: the meta file, None when there is none
  running,  \* the service is up
  book,     \* _contacts
  hash,     \* _content_hash
  version,  \* _version
  clock,    \* stamps given out
  edited,   \* files edited by hand since the service last read or wrote them
  failed,   \* history: a write or a reload failed since memory and disk last met
  lost,     \* history: contacts a reload that failed had dropped from memory
  metaLost, \* history: the meta file was ever not written although the
            \* service went on with the version it should hold
  told,     \* history: what was told of the book: version, hash, the contacts
            \* of that moment, and whether nothing had failed since
  claim,    \* history: per id, what the last answered mutation left there
  left      \* how much may still happen (bound): changes of the book, edits
            \* of files, failures, sync_now and enable_sync requests

coreVars == <<files, meta, running, book, hash, version, clock, edited,
              failed, lost, metaLost, told, claim>>
bookVars == <<coreVars, left>>

ListFile(b) == [kind |-> "list", rows |-> b]
Bare(k)     == [kind |-> k, rows |-> Empty]

File == {ListFile(b) : b \in Book} \cup
        {Bare(k) : k \in {"absent", "malformed", "object"}}
Meta == [version : Nat, hash : Book]
Telling == [version : Nat, hash : Book, rows : Book, fresh : BOOLEAN]

ASSUME NoneAssumption ==
  None \notin Nat \cup Meta /\ Void \notin Nat /\ Void # None

Budget == [changes : Nat, edits : Nat, faults : Nat, requests : Nat]

BookTypeOK ==
  /\ files \in [Files -> File]
  /\ meta \in Meta \cup {None}
  /\ running \in BOOLEAN
  /\ book \in Book
  /\ hash \in Book
  /\ version \in Nat
  /\ clock \in Stamp
  /\ edited \in SUBSET Files
  /\ failed \in BOOLEAN
  /\ lost \in SUBSET Ids
  /\ metaLost \in BOOLEAN
  /\ told \in SUBSET Telling
  /\ claim \in [Ids -> Stamp \cup {None, Void}]
  /\ left \in Budget

-----------------------------------------------------------------------------
(* Reading the files.                                                      *)

\* The files that hold contact i.
Holders(fs, i) == {f \in Files : fs[f].rows[i] # None}

\* load(): the primary file first, then the fragments by name; a second
\* contact with an id is skipped.
Merged(fs) ==
  [i \in Ids |->
     IF Holders(fs, i) = {} THEN None
     ELSE fs[CHOOSE f \in Holders(fs, i) :
               \A g \in Holders(fs, i) : f <= g].rows[i]]

\* load() moves a malformed file away and creates a primary that is absent.
AfterLoad(fs) ==
  [f \in Files |->
     IF fs[f].kind = "malformed" THEN Bare("absent")
     ELSE IF f = 0 /\ fs[f].kind = "absent" THEN ListFile(Empty)
     ELSE fs[f]]

\* load() clears memory first.  It quarantines what is no JSON, but an OSError
\* or bytes that are no UTF-8 end it at file f, with the files before f read.
LoadedBefore(f) == [g \in Files |-> IF g < f THEN AfterLoad(files)[g] ELSE files[g]]
ReadBefore(f)   == [g \in Files |-> IF g < f THEN files[g] ELSE Bare("absent")]

StoredVersion(b, v) == IF meta = None THEN v ELSE meta.version

\* _load_meta, for a book b just read and a version v in memory.
LoadVersion(b, v) ==
  IF meta = None THEN v
  ELSE IF meta.hash # b THEN meta.version + 1
  ELSE meta.version

\* process_startup imports the bundled book into an empty one, then loads
\* again.
Imports == Merged(files) = Empty /\ Shipped # Empty

StartFiles ==
  IF Imports
  THEN AfterLoad([AfterLoad(files) EXCEPT ![0] = ListFile(Shipped)])
  ELSE AfterLoad(files)

-----------------------------------------------------------------------------
(* The methods that change the book.                                       *)

\* What becomes of a method: all of it, an OSError of the write of the
\* primary file or of the meta file, or the process dies between the two.
Outcomes == {"done", "primaryFails", "metaFails", "dies"}

\* What addressbook.list hands out after a method: the contacts, with the
\* version and the hash that addressbook.updated has told too.
Present == [version |-> version, hash |-> hash, rows |-> book, fresh |-> ~failed]
Told    == told' = IF running' THEN told \cup {Present'} ELSE told

\* A failure uses up one of the allowed faults.
Within(how) == how = "done" \/ left.faults > 0
Spend(how)  == [left EXCEPT !.faults = IF how = "done" THEN @ ELSE @ - 1]

\* A process that ends forgets what it had in memory.
Forget ==
  /\ book' = Empty /\ hash' = Empty /\ version' = 0
  /\ running' = FALSE /\ lost' = {}

\* Whether a fragment file still holds a contact that is removed.
InFragment(i) == \E f \in Files \ {0} : files[f].rows[i] # None

WrittenBefore(b) == book

\* _persist writes the contacts as the method has left them in memory.
Written(b) == b

MetaBeforeHash(b) == [version |-> version + 1, hash |-> hash]

\* _save_meta comes after the new hash and the new version.
SavedMeta(b) == [version |-> version + 1, hash |-> b]

\* add, update or remove of contact i, which leaves book b in memory, then
\* _persist: the whole of memory goes to the primary file, contacts of
\* fragments included, and none that a failed reload has dropped.
Persist(b, i, how) ==
  /\ left.changes > 0 /\ Within(how)
  /\ left' = [Spend(how) EXCEPT !.changes = @ - 1]
  /\ files' = IF how = "primaryFails" THEN files
              ELSE [files EXCEPT ![0] = ListFile(Written(b))]
  /\ meta' = IF how = "done" THEN SavedMeta(b) ELSE meta
  /\ IF how = "dies" THEN Forget
     ELSE /\ book' = b
          /\ hash' = IF how = "primaryFails" THEN hash ELSE b
          /\ version' = IF how = "primaryFails" THEN version ELSE version + 1
          /\ lost' = IF how = "primaryFails" THEN lost ELSE {}
          /\ UNCHANGED running
  /\ edited' = IF how = "primaryFails" THEN edited ELSE edited \ {0}
  /\ failed' = (how # "done")
  /\ metaLost' = (metaLost \/ how = "metaFails")
  /\ claim' = [j \in Ids |->
                 IF j = i
                 THEN IF how # "done" \/ (b[i] = None /\ InFragment(i)) THEN Void
                      ELSE b[i]
                 ELSE IF how # "primaryFails" /\ j \in lost THEN Void
                 ELSE claim[j]]
  /\ Told

\* add() of an id that is free and update() of one that is taken put a
\* contact with a new stamp there.
Put(i, how) ==
  /\ clock < MaxStamp
  /\ clock' = clock + 1
  /\ Persist([book EXCEPT ![i] = clock + 1], i, how)

Remove(i, how) ==
  /\ book[i] # None
  /\ Persist([book EXCEPT ![i] = None], i, how)
  /\ UNCHANGED clock

\* reload(): load, write of the meta file, notification.
Reload(how) ==
  /\ running
  /\ how \in {"done", "metaFails"} /\ Within(how)
  /\ left' = Spend(how)
  /\ files' = AfterLoad(files)
  /\ book' = Merged(files)
  /\ hash' = Merged(files)
  /\ version' = LoadVersion(Merged(files), version)
  /\ meta' = IF how = "done"
             THEN [version |-> LoadVersion(Merged(files), version),
                   hash |-> Merged(files)]
             ELSE meta
  /\ edited' = {}
  /\ failed' = (how # "done")
  /\ lost' = {}
  /\ metaLost' = (metaLost \/ how = "metaFails")
  /\ UNCHANGED <<running, clock, claim>>
  /\ Told

\* reload() whose load() raises at file f: the request is answered with an
\* error and the service goes on with the contacts of the files before f,
\* under the old version and hash.
ReloadRaises(f) ==
  /\ running
  /\ f = 0 \/ files[f].kind # "absent"
  /\ left.faults > 0
  /\ left' = [left EXCEPT !.faults = @ - 1]
  /\ files' = LoadedBefore(f)
  /\ book' = Merged(ReadBefore(f))
  /\ failed' = TRUE
  /\ lost' = {i \in Ids : book'[i] # Merged(files)[i]}
  /\ UNCHANGED <<meta, running, hash, version, clock, edited, metaLost, claim>>
  /\ Told

\* process_startup of a new process.  It may end in the middle, for one
\* because a file cannot be read: with the files as a part of the first load,
\* all of it or the second load leaves them, and the meta file not written.
\* The import brings contacts back that had been removed.
Startup(how) ==
  /\ ~running
  /\ Within(how)
  /\ left' = Spend(how)
  /\ \/ /\ how = "done"
        /\ files' = StartFiles
        /\ book' = Merged(StartFiles)
        /\ hash' = Merged(StartFiles)
        /\ version' = LoadVersion(Merged(StartFiles), 0)
        /\ meta' = [version |-> version', hash |-> hash']
        /\ running' = TRUE
        /\ edited' = {}
        /\ failed' = FALSE
     \/ /\ how = "dies"
        /\ files' \in {LoadedBefore(f) : f \in Files} \cup {AfterLoad(files), StartFiles}
        /\ files' # files
        /\ UNCHANGED <<meta, running, book, hash, version, edited, failed>>
  /\ claim' = [i \in Ids |-> IF Imports /\ Shipped[i] # None THEN Void ELSE claim[i]]
  /\ UNCHANGED <<clock, lost, metaLost>>
  /\ Told

\* The process ends between two methods.
Stop ==
  /\ running
  /\ Within("dies")
  /\ left' = Spend("dies")
  /\ Forget
  /\ UNCHANGED <<files, meta, clock, edited, failed, metaLost, told, claim>>

\* External: somebody edits a file.  A promise about a contact ends when an
\* edit changes what the files say of it.
Edit(f, new) ==
  /\ new # files[f]
  /\ left.edits > 0
  /\ left' = [left EXCEPT !.edits = @ - 1]
  /\ files' = [files EXCEPT ![f] = new]
  /\ edited' = edited \cup {f}
  /\ claim' = [i \in Ids |-> IF Merged(files')[i] = Merged(files)[i]
                             THEN claim[i] ELSE Void]
  /\ UNCHANGED <<meta, running, book, hash, version, failed, lost, metaLost,
                 told>>

\* The edits: a contact is put or dropped, the file is broken, the file
\* holds a JSON value that is no list, the file is as shipped again.
EditOf(f) ==
  \/ \E i \in Ids :
        /\ clock < MaxStamp
        /\ clock' = clock + 1
        /\ Edit(f, ListFile([files[f].rows EXCEPT ![i] = clock + 1]))
  \/ \E i \in Ids :
        /\ Edit(f, ListFile([files[f].rows EXCEPT ![i] = None]))
        /\ UNCHANGED clock
  \/ \E new \in {Bare("malformed"), Bare("object"), ListFile(Shipped)} :
        /\ Edit(f, new)
        /\ UNCHANGED clock

-----------------------------------------------------------------------------
(* Properties                                                              *)

\* As long as the meta file could be written, two user interfaces, or two
\* peers of a sync, that were told the same version were told the same hash,
\* over reloads, edits of the files by hand, crashes between the two writes
\* and restarts.  They were shown the same contacts too, unless a write of the
\* primary file or a reload had just failed: memory is then ahead of its
\* version, or behind it.  No version told lies ahead of the present one.
\* (This is about answers whose contacts and version were read at once: the
\* list awaits the presences between, and where a change comes then, it gives
\* the older contacts under the newer version.)
VersionNamesContent ==
  ~metaLost =>
    /\ \A s, t \in told : s.version = t.version =>
         /\ s.hash = t.hash
         /\ s.fresh /\ t.fresh => s.rows = t.rows
    /\ running => \A s \in told : s.version <= version

\* Once the last write and reload have succeeded and nobody has edited a file,
\* memory and disk agree: the hash is that of the contacts, the meta file holds
\* it with the version, every contact of memory is what a load would read, and
\* what a load would read besides comes from a fragment file.
FilesAgree ==
  (running /\ ~failed /\ edited = {}) =>
    /\ hash = book
    /\ meta = [version |-> version, hash |-> hash]
    /\ \A i \in Ids : book[i] # None => Merged(files)[i] = book[i]
    /\ \A i \in Ids : (book[i] = None /\ Merged(files)[i] # None) => InFragment(i)

\* What a mutation that was answered left of a contact is what the files say,
\* at every moment: after later mutations of other contacts, failing writes,
\* reloads, crashes and restarts.  It ends with an edit of the files, with a
\* later mutation of the contact, with the import of the bundled book, and
\* with the first write after a reload that failed before it had read the
\* contact again, but not if another reload or a restart comes first.
AnsweredIsOnDisk ==
  \A i \in Ids : claim[i] # Void => Merged(files)[i] = claim[i]
=============================================================================
