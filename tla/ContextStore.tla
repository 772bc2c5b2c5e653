------------------------------ MODULE ContextStore ------------------------------
(***************************************************************************)
(* The admin context of a pack (src/context.rs).  The writer keeps one     *)
(* entry per record, which refers to an interned tuple of parents;         *)
(* finish() sorts the entries, drops all but the first of a record, and    *)
(* writes the tuples, the entries and a manifest.  A reader checks the     *)
(* counts against the manifest and finds an entry by binary search.        *)
(*                                                                         *)
(* A missing id is stored as u64::MAX.  Flags and the assignment method    *)
(* travel with an entry unchanged and are left out.                        *)
(***************************************************************************)
EXTENDS Naturals, Sequences, Functions

CONSTANTS
  RecordIds,      \* ids of records
  Parents,        \* the fields of an AdminContextTuple
  Tuples,         \* tuples a build may hand over
  Postcodes,      \* postcode records, or None
  MissingId,      \* MISSING_ID, u64::MAX
  AddLimit,       \* bound: calls of add_record_context
  None,
  Error           \* a lookup that fails

ASSUME IdsAssumption ==
  /\ MissingId \in Nat
  /\ RecordIds \subseteq 0..MissingId - 1
  /\ Postcodes \subseteq RecordIds \cup {None}
  /\ Tuples \subseteq [Parents -> RecordIds \cup {None}]
ASSUME LimitAssumption == AddLimit \in Nat /\ AddLimit <= MissingId
ASSUME NoneAssumption == None \notin Nat /\ None \notin [tuples : Nat, contexts : Nat]

VARIABLES
  stage,          \* where the build is
  adds,           \* calls so far
  tuples,         \* admin_tuples
  tupleIds,       \* admin_tuple_ids
  contexts,       \* record_contexts
  disk,           \* the three files
  reader,         \* "closed", or what a lookup is doing
  asked,          \* record asked for
  low, high,      \* bounds of the binary search
  answer          \* {} or the one answer

writer == <<tuples, tupleIds, contexts>>
lookup == <<reader, asked, low, high, answer>>
vars == <<stage, adds, writer, disk, lookup>>

-----------------------------------------------------------------------------
(* What is stored *)

(* encode_optional_id, decode_optional_id *)
Encode(id) == IF id = None THEN MissingId ELSE id
Decode(id) == IF id = MissingId THEN None ELSE id

StoredTuple(tuple) == [parent \in Parents |-> Encode(tuple[parent])]
ReadTuple(stored)  == [parent \in Parents |-> Decode(stored[parent])]

StoredEntry(entry) ==
  [record |-> entry.record, tuple |-> Encode(entry.tuple),
   postcode |-> Encode(entry.postcode)]

(* A counted file says how many entries it holds, and holds them.           *)
NoFile == [count |-> 0, entries |-> <<>>, whole |-> FALSE]
File(entries) == [count |-> Len(entries), entries |-> entries, whole |-> TRUE]

-----------------------------------------------------------------------------
(* Writing *)

Init ==
  /\ stage = "adding"
  /\ adds = 0
  /\ tuples = <<>>
  /\ tupleIds = <<>>
  /\ contexts = <<>>
  /\ disk = [tuples |-> NoFile, contexts |-> NoFile, manifest |-> None]
  /\ reader = "closed"
  /\ asked = None
  /\ low = 0 /\ high = 0
  /\ answer = {}

IsEmpty(tuple) == \A parent \in Parents : tuple[parent] = None

Intern(tuple) ==
  /\ tuples' = IF tuple \in DOMAIN tupleIds THEN tuples ELSE Append(tuples, tuple)
  /\ tupleIds' = [known \in DOMAIN tupleIds \cup {tuple} |->
                    IF known \in DOMAIN tupleIds THEN tupleIds[known] ELSE Len(tuples)]

Entry(record, id, postcode) == [record |-> record, tuple |-> id, postcode |-> postcode]

(* A context of nothing is not kept; one of a postcode alone has no tuple.  *)
AddRecordContext(record, tuple, postcode) ==
  /\ stage = "adding"
  /\ adds < AddLimit
  /\ adds' = adds + 1
  /\ \/ /\ IsEmpty(tuple) /\ postcode = None
        /\ UNCHANGED writer
     \/ /\ IsEmpty(tuple) /\ postcode # None
        /\ contexts' = Append(contexts, Entry(record, None, postcode))
        /\ UNCHANGED <<tuples, tupleIds>>
     \/ /\ ~ IsEmpty(tuple)
        /\ Intern(tuple)
        /\ contexts' = Append(contexts, Entry(record, tupleIds'[tuple], postcode))
  /\ UNCHANGED <<stage, disk, lookup>>

(* sort_by_key is stable and dedup_by_key keeps the first of a run.         *)
IsFirst(i) == \A j \in 1..i - 1 : contexts[j].record # contexts[i].record

(* Mutant of Firsts: the last context of a record is kept. *)
Lasts ==
  {contexts[i] : i \in {i \in 1..Len(contexts) :
     \A j \in i + 1..Len(contexts) : contexts[j].record # contexts[i].record}}

Firsts == {contexts[i] : i \in {i \in 1..Len(contexts) : IsFirst(i)}}

SortEntries ==
  /\ stage = "adding"
  /\ contexts' \in {s \in UNION {[1..n -> Firsts] : n \in 0..AddLimit} :
                      /\ Range(s) = Firsts
                      /\ \A i, j \in 1..Len(s) : i < j => s[i].record < s[j].record}
  /\ stage' = "tuples"
  /\ UNCHANGED <<adds, tuples, tupleIds, disk, lookup>>

WriteTuples ==
  /\ stage = "tuples"
  /\ disk' = [disk EXCEPT !.tuples = File([i \in 1..Len(tuples) |-> StoredTuple(tuples[i])])]
  /\ stage' = "contexts"
  /\ UNCHANGED <<adds, writer, lookup>>

WriteContexts ==
  /\ stage = "contexts"
  /\ disk' = [disk EXCEPT !.contexts =
                File([i \in 1..Len(contexts) |-> StoredEntry(contexts[i])])]
  /\ stage' = "manifest"
  /\ UNCHANGED <<adds, writer, lookup>>

(* Mutant of WriteManifest: contexts are counted as they were added. *)
WriteManifestOfAdds ==
  /\ stage = "manifest"
  /\ disk' = [disk EXCEPT !.manifest = [tuples |-> Len(tuples), contexts |-> adds]]
  /\ stage' = "finished"
  /\ UNCHANGED <<adds, writer, lookup>>

WriteManifest ==
  /\ stage = "manifest"
  /\ disk' = [disk EXCEPT !.manifest =
                [tuples |-> Len(tuples), contexts |-> Len(contexts)]]
  /\ stage' = "finished"
  /\ UNCHANGED <<adds, writer, lookup>>

(* An error or a kill: the file being written is left cut short.            *)
Stop ==
  /\ stage \notin {"finished", "stopped"}
  /\ stage' = "stopped"
  /\ \/ UNCHANGED disk
     \/ /\ stage = "tuples"
        /\ disk' = [disk EXCEPT !.tuples.count = Len(tuples)]
     \/ /\ stage = "contexts"
        /\ disk' = [disk EXCEPT !.contexts.count = Len(contexts)]
  /\ UNCHANGED <<adds, writer, lookup>>

-----------------------------------------------------------------------------
(* Reading *)

(* open: the manifest parses, files have the length their count tells and   *)
(* the count the manifest tells.                                            *)
Opens ==
  /\ disk.manifest # None
  /\ disk.tuples.whole /\ disk.contexts.whole
  /\ disk.tuples.count = disk.manifest.tuples
  /\ disk.contexts.count = disk.manifest.contexts

Open ==
  /\ reader = "closed"
  /\ Opens
  /\ reader' = "idle"
  /\ UNCHANGED <<stage, adds, writer, disk, asked, low, high, answer>>

(* record_context, find_record_context *)
Ask(record) ==
  /\ reader = "idle"
  /\ asked' = record
  /\ answer' = {}
  /\ low' = 0 /\ high' = disk.contexts.count
  /\ reader' = "searching"
  /\ UNCHANGED <<stage, adds, writer, disk>>

Mid == low + (high - low) \div 2
MidEntry == disk.contexts.entries[Mid + 1]

Narrow ==
  /\ reader = "searching"
  /\ low < high
  /\ \/ MidEntry.record < asked /\ low' = Mid + 1 /\ UNCHANGED high
     \/ MidEntry.record > asked /\ high' = Mid /\ UNCHANGED low
  /\ UNCHANGED <<stage, adds, writer, disk, reader, asked, answer>>

(* A tuple id beyond the file would be an error.                            *)
Resolved(stored) ==
  LET id == Decode(stored.tuple)
  IN [admin |-> IF id = None THEN None
                ELSE IF id < disk.tuples.count THEN ReadTuple(disk.tuples.entries[id + 1])
                ELSE Error,
      postcode |-> Decode(stored.postcode)]

Find ==
  /\ reader = "searching"
  /\ low < high
  /\ MidEntry.record = asked
  /\ answer' = {Resolved(MidEntry)}
  /\ reader' = "idle"
  /\ UNCHANGED <<stage, adds, writer, disk, asked, low, high>>

Miss ==
  /\ reader = "searching"
  /\ low >= high
  /\ answer' = {None}
  /\ reader' = "idle"
  /\ UNCHANGED <<stage, adds, writer, disk, asked, low, high>>

-----------------------------------------------------------------------------
Next ==
  \/ \E record \in RecordIds, tuple \in Tuples, postcode \in Postcodes :
       AddRecordContext(record, tuple, postcode)
  \/ SortEntries \/ WriteTuples \/ WriteContexts \/ WriteManifest \/ Stop
  \/ Open \/ (\E record \in RecordIds : Ask(record)) \/ Narrow \/ Find \/ Miss

Spec == Init /\ [][Next]_vars

-----------------------------------------------------------------------------
(* Properties *)

Ids     == 0..MissingId - 1
Option(S) == S \cup {None}
Entries == [record : RecordIds, tuple : Option(Ids), postcode : Option(RecordIds)]
StoredEntries == [record : RecordIds, tuple : Nat, postcode : Nat]
StoredTuples  == [Parents -> Nat]

(* Each variable holds a value of its kind; search bounds stay in the file. *)
TypeOK ==
  /\ stage \in {"adding", "tuples", "contexts", "manifest", "finished", "stopped"}
  /\ adds \in 0..AddLimit
  /\ tuples \in Seq(Tuples)
  /\ tupleIds \in [DOMAIN tupleIds -> Nat]
  /\ contexts \in Seq(Entries)
  /\ disk = [tuples |-> disk.tuples, contexts |-> disk.contexts,
             manifest |-> disk.manifest]
  /\ disk.tuples \in [count : Nat, entries : Seq(StoredTuples), whole : BOOLEAN]
  /\ disk.contexts \in [count : Nat, entries : Seq(StoredEntries), whole : BOOLEAN]
  /\ disk.manifest \in Option([tuples : Nat, contexts : Nat])
  /\ reader \in {"closed", "idle", "searching"}
  /\ asked \in Option(RecordIds)
  /\ low \in Nat /\ high \in Nat
  /\ reader = "searching" => low <= high /\ high <= Len(disk.contexts.entries)

(* admin_tuples and admin_tuple_ids agree: every tuple is stored once, and  *)
(* every entry refers to a tuple that is there.                             *)
TuplesInterned ==
  /\ IsInjective(tuples)
  /\ DOMAIN tupleIds = Range(tuples)
  /\ \A i \in 1..Len(tuples) : tupleIds[tuples[i]] = i - 1 /\ ~ IsEmpty(tuples[i])
  /\ \A i \in 1..Len(contexts) :
       LET entry == contexts[i]
       IN IF entry.tuple = None THEN entry.postcode # None ELSE entry.tuple < Len(tuples)

(* What finish() leaves can be opened: the counts of the manifest are those *)
(* of the files, whatever was dropped between adding and writing.           *)
FinishedOpens == disk.manifest # None => Opens

(* The writer and the reader keep the promise of ContextTable: a reader is  *)
(* told exactly the first context added to the record it asks for, however  *)
(* tuples were shared, entries sorted and dropped, and ids encoded; and it  *)
(* sees nothing of a build that did not finish.                             *)
Meaning(entry) ==
  [admin |-> IF entry.tuple = None THEN None ELSE tuples[entry.tuple + 1],
   postcode |-> entry.postcode]

Table ==
  {[record |-> contexts[i].record, context |-> Meaning(contexts[i])] :
     i \in {i \in 1..Len(contexts) : IsFirst(i)}}

Promise == INSTANCE ContextTable WITH
  Contexts  <- [admin : Option(Tuples), postcode : Option(RecordIds)],
  published <- disk.manifest # None,
  table     <- Table

ImplementsTable == Promise!Spec
=============================================================================
