------------------------------ MODULE Journal ------------------------------
(***************************************************************************)
(* FileJournal, the append-only file under the fabric, as operators on a   *)
(* journal value:                                                          *)
(*                                                                         *)
(*   entries  what the file holds after its header, in file order          *)
(*   valid    valid_prefix_bytes, as a number of entries                   *)
(*   synced   how many entries are on stable storage                       *)
(*   header   the epoch in the file's header                               *)
(*   stored   the header epoch on stable storage                           *)
(*                                                                         *)
(* An entry is a record, a record whose checksum fails while its length    *)
(* field is intact ("bad"), one whose length field is damaged ("unsized"), *)
(* or the beginning of a record ("torn").  Sizes are in units: an epoch    *)
(* record, the shortest, has one and every other entry two.                *)
(***************************************************************************)
EXTENDS Naturals, Sequences, FiniteSets

CONSTANTS
  MaxSize,      \* max_file_bytes
  TornWrites    \* whether a crash may leave the beginning of a record behind

ASSUME JournalAssumption == MaxSize \in Nat /\ TornWrites \in BOOLEAN

Bad     == [type |-> "bad"]
Unsized == [type |-> "unsized"]
Torn    == [type |-> "torn"]

Damaged(entry) == entry \in {Bad, Unsized, Torn}

Size(entries) == Len(entries) + Cardinality({i \in DOMAIN entries : entries[i].type # "epoch"})

\* Whether append() accepts a record.
Fits(j, record) == Size(Append(j.entries, record)) <= MaxSize

\* Mutant: the valid prefix is left where open() found it.
append_behind_prefix(j, record) == [j EXCEPT !.entries = Append(@, record)]

\* The record goes behind whatever the file holds, and the valid prefix is taken
\* to end with it.
append(j, record) ==
  [j EXCEPT !.entries = Append(@, record), !.valid = Len(j.entries) + 1]

\* A sync that succeeds also covers what earlier, failed syncs left behind.
sync(j) == [j EXCEPT !.synced = Len(j.entries), !.stored = j.header]

write_header(j, epoch) == [j EXCEPT !.header = epoch]

truncate_to_valid_prefix(j) ==
  IF j.valid = Len(j.entries) THEN j
  ELSE sync([j EXCEPT !.entries = SubSeq(@, 1, j.valid)])

\* A synced temporary file with the old header replaces the journal.
rewrite(j, records) ==
  [entries |-> records, valid |-> Len(records), synced |-> Len(records),
   header |-> j.header, stored |-> j.header]

\* What open() can report: all entries are usable, or those before the first
\* damaged one, or the file is refused because a well-formed record follows the
\* damaged one.  open() looks for that record where the stored length says.  A
\* length that cannot be trusted is out of range, runs past the end of the file,
\* or leads to bytes that may or may not pass for a record.
open(j) ==
  LET damaged == {i \in DOMAIN j.entries : Damaged(j.entries[i])}
      first   == CHOOSE i \in damaged : \A k \in damaged : i <= k
      refused == [ok |-> FALSE, valid |-> first - 1]
      prefix  == [ok |-> TRUE, valid |-> first - 1]
  IN IF damaged = {} THEN {[ok |-> TRUE, valid |-> Len(j.entries)]}
     ELSE IF first = Len(j.entries) THEN {prefix}
     ELSE IF j.entries[first] \in {Torn, Unsized} THEN {prefix, refused}
     ELSE IF Damaged(j.entries[first + 1]) THEN {prefix} ELSE {refused}

\* The journals a crash can leave: what was synced survives, what was written
\* after it survives up to some point, the header is the old or the new one.
Survivors(j) ==
  LET kept == {SubSeq(j.entries, 1, n) : n \in j.synced..Len(j.entries)}
      torn == {Append(SubSeq(j.entries, 1, n), Torn) : n \in j.synced..(Len(j.entries) - 1)}
  IN {[entries |-> entries, valid |-> Len(entries), synced |-> Len(entries),
       header |-> epoch, stored |-> epoch] :
        entries \in kept \cup (IF TornWrites THEN torn ELSE {}), epoch \in {j.header, j.stored}}
=============================================================================
