---------------------------- MODULE MCAddressBook ----------------------------
(* Instances of AddressBookSync for TLC.                                   *)
EXTENDS AddressBookSync, TLC

CONSTANTS k1, k2, u1, u2

Symmetry == Permutations(Clients)

\* Contact 1 is in the bundled book, contact 2 in a fragment.
ShippedBook == [i \in Ids |-> IF i = 1 THEN 0 ELSE None]
FragmentRows == [i \in Ids |-> IF i = 2 THEN 0 ELSE None]

\* Contact 1 sends an update of contact 2; contact 2 removes contact 1.
PeerContent == [u \in Updates |->
  IF u = u1 THEN [action |-> "update", id |-> 2, from |-> 1]
  ELSE [action |-> "remove", id |-> 1, from |-> 2]]

Manual == [enabled |-> TRUE, auto |-> FALSE]
Auto   == [enabled |-> TRUE, auto |-> TRUE]
Off    == [enabled |-> FALSE, auto |-> FALSE]
AllSettings == {Manual, Auto, Off}

\* A new installation with one fragment, whose files are edited and written.
FilesCase(changes, edits, faults) ==
  [files |-> [f \in Files |-> IF f = 0 THEN Bare("absent") ELSE ListFile(FragmentRows)],
   setting |-> Off, sent |-> {},
   budget |-> [changes |-> changes, edits |-> edits, faults |-> faults, requests |-> 0]]

\* A book of two contacts, which clients and peers change together.
SyncCase(s, updates, changes, requests) ==
  [files |-> [f \in Files |-> IF f = 0 THEN ListFile([i \in Ids |-> 0])
                              ELSE Bare("absent")],
   setting |-> s, sent |-> updates,
   budget |-> [changes |-> changes, edits |-> 0, faults |-> 1,
              requests |-> requests]]

BookCases == {FilesCase(2, 0, 2), FilesCase(2, 1, 1), FilesCase(1, 2, 1),
              SyncCase(Manual, {u1}, 2, 0), SyncCase(Manual, {u1, u2}, 1, 0),
              SyncCase(Auto, {u1}, 1, 2)}
=============================================================================
