-------------------------- MODULE ContextStoreProofs --------------------------
(***************************************************************************)
(* Proofs about ContextStore: for any records, tuples and bound, the       *)
(* interned, sorted and encoded contexts are the table they promise to be. *)
(***************************************************************************)
EXTENDS ContextStore, TLAPS

-----------------------------------------------------------------------------
(* The inductive invariant *)

(* Tuples are no more than calls, so their ids are below MISSING_ID.        *)
Counted == Len(tuples) <= adds

(* Every record added is in the table.                                      *)
Covered ==
  \A i \in 1..Len(contexts) : \E entry \in Table : entry.record = contexts[i].record

Sorted == \A i, j \in 1..Len(contexts) : i < j => contexts[i].record < contexts[j].record

(* What is on disk, file by file.                                           *)
DiskInv ==
  /\ stage \in {"tuples", "contexts", "manifest", "finished"} => Sorted
  /\ stage \in {"contexts", "manifest", "finished"} =>
       disk.tuples = File([i \in 1..Len(tuples) |-> StoredTuple(tuples[i])])
  /\ stage \in {"manifest", "finished"} =>
       disk.contexts = File([i \in 1..Len(contexts) |-> StoredEntry(contexts[i])])
  /\ IF stage = "finished"
     THEN disk.manifest = [tuples |-> Len(tuples), contexts |-> Len(contexts)]
     ELSE disk.manifest = None

(* The entry looked for is between the bounds, if there is one.             *)
LookupInv ==
  /\ reader # "closed" => stage = "finished"
  /\ reader = "closed" => asked = None /\ answer = {}
  /\ reader = "searching" =>
       /\ asked \in RecordIds /\ answer = {}
       /\ \A i \in 1..low : contexts[i].record < asked
       /\ \A i \in high + 1..Len(contexts) : asked < contexts[i].record

StoreInv == TypeOK /\ TuplesInterned /\ Counted /\ Covered /\ DiskInv /\ LookupInv

-----------------------------------------------------------------------------
(* Encoding *)

LEMMA ElementOf ==
  ASSUME NEW S, NEW s \in Seq(S), NEW i \in 1..Len(s)
  PROVE  s[i] \in S
OBVIOUS

(* An id below MISSING_ID, or none, is read back as it was.                 *)
LEMMA DecodeEncode ==
  ASSUME NEW id \in Option(Ids)
  PROVE  Decode(Encode(id)) = id /\ Encode(id) \in Nat
BY IdsAssumption, NoneAssumption DEF Decode, Encode, Option, Ids

LEMMA RecordIdsAreIds == RecordIds \subseteq Ids /\ RecordIds \subseteq Nat
BY IdsAssumption DEF Ids

LEMMA TupleReadBack ==
  ASSUME NEW tuple \in Tuples
  PROVE  ReadTuple(StoredTuple(tuple)) = tuple /\ StoredTuple(tuple) \in StoredTuples
<1>1. tuple \in [Parents -> Option(RecordIds)]
  BY IdsAssumption DEF Option
<1>2. \A parent \in Parents :
        Decode(Encode(tuple[parent])) = tuple[parent] /\ Encode(tuple[parent]) \in Nat
  BY <1>1, DecodeEncode, RecordIdsAreIds DEF Option
<1>3. ReadTuple(StoredTuple(tuple)) = [parent \in Parents |-> tuple[parent]]
  BY <1>2 DEF ReadTuple, StoredTuple
<1> QED
  BY <1>1, <1>2, <1>3 DEF StoredTuple, StoredTuples

LEMMA EntryTypes ==
  ASSUME NEW entry \in Entries
  PROVE  /\ entry.record \in RecordIds /\ entry.record \in Nat
         /\ entry.tuple \in Option(Ids) /\ entry.postcode \in Option(Ids)
         /\ StoredEntry(entry) \in StoredEntries
         /\ StoredEntry(entry).record = entry.record
         /\ Decode(StoredEntry(entry).tuple) = entry.tuple
         /\ Decode(StoredEntry(entry).postcode) = entry.postcode
<1>1. /\ entry.record \in RecordIds /\ entry.tuple \in Option(Ids)
      /\ entry.postcode \in Option(Ids)
  BY RecordIdsAreIds DEF Entries, Option
<1>2. /\ Decode(Encode(entry.tuple)) = entry.tuple /\ Encode(entry.tuple) \in Nat
      /\ Decode(Encode(entry.postcode)) = entry.postcode /\ Encode(entry.postcode) \in Nat
  BY <1>1, DecodeEncode
<1> QED
  BY <1>1, <1>2, RecordIdsAreIds DEF StoredEntry, StoredEntries

-----------------------------------------------------------------------------
(* The table *)

(* A first entry of a record is in the table.                               *)
LEMMA InTable ==
  ASSUME NEW i \in 1..Len(contexts), IsFirst(i)
  PROVE  [record |-> contexts[i].record, context |-> Meaning(contexts[i])] \in Table
BY DEF Table

(* When the entries are sorted, each is the first of its record.            *)
LEMMA SortedAreFirst ==
  ASSUME contexts \in Seq(Entries), Sorted, NEW i \in 1..Len(contexts)
  PROVE  IsFirst(i)
<1> SUFFICES ASSUME NEW j \in 1..i - 1 PROVE contexts[j].record # contexts[i].record
  BY DEF IsFirst
<1>1. j \in 1..Len(contexts) /\ j < i
  OBVIOUS
<1>2. contexts[j].record < contexts[i].record
  BY <1>1 DEF Sorted
<1>3. contexts[j].record \in Nat /\ contexts[i].record \in Nat
  BY <1>1, ElementOf, EntryTypes
<1> QED
  BY <1>2, <1>3

(* One more entry joins the table if its record is new to it.               *)
LEMMA Appended ==
  ASSUME TypeOK, TuplesInterned, Covered, NEW entry \in Entries,
         contexts' = Append(contexts, entry),
         \A i \in 1..Len(tuples) : tuples'[i] = tuples[i]
  PROVE  /\ Covered'
         /\ Table' = IF \E e \in Table : e.record = entry.record THEN Table
                     ELSE Table \cup {[record |-> entry.record, context |-> Meaning(entry)']}
<1>0. PICK n : n = Len(contexts)
  OBVIOUS
<1> DEFINE Row(i) == [record |-> contexts[i].record, context |-> Meaning(contexts[i])]
<1>1. /\ contexts \in Seq(Entries) /\ n \in Nat /\ Len(contexts') = n + 1
      /\ \A i \in 1..n : contexts'[i] = contexts[i]
      /\ contexts'[n + 1] = entry
      /\ 1..Len(contexts') = (1..n) \cup {n + 1}
  BY <1>0 DEF TypeOK
<1>2. ASSUME NEW i \in 1..n PROVE Meaning(contexts[i])' = Meaning(contexts[i])
  <2>1. contexts'[i] = contexts[i] /\ contexts[i] \in Entries
    BY <1>0, <1>1, ElementOf
  <2>2. contexts[i].tuple # None =>
          contexts[i].tuple \in Nat /\ contexts[i].tuple < Len(tuples)
    BY <1>0, <2>1, EntryTypes DEF TuplesInterned, Option, Ids
  <2>3. Len(tuples) \in Nat
    BY DEF TypeOK
  <2>4. contexts[i].tuple # None =>
          tuples'[contexts[i].tuple + 1] = tuples[contexts[i].tuple + 1]
    BY <2>2, <2>3
  <2> QED
    BY <2>1, <2>4 DEF Meaning
<1>3. ASSUME NEW i \in 1..n PROVE IsFirst(i)' <=> IsFirst(i)
  <2>1. i \in 1..n /\ \A j \in 1..i - 1 : j \in 1..n
    BY <1>1
  <2> QED
    BY <1>1, <2>1 DEF IsFirst
<1>4. IsFirst(n + 1)' <=> \A j \in 1..n : contexts[j].record # entry.record
  <2>1. 1..(n + 1) - 1 = 1..n
    BY <1>1
  <2> QED
    BY <1>1, <2>1 DEF IsFirst
<1>5. (\A j \in 1..n : contexts[j].record # entry.record)
        <=> ~ \E e \in Table : e.record = entry.record
  <2>1. ASSUME NEW j \in 1..n, contexts[j].record = entry.record
        PROVE  \E e \in Table : e.record = entry.record
    BY <1>0, <2>1 DEF Covered
  <2>2. ASSUME NEW e \in Table, e.record = entry.record
        PROVE  \E j \in 1..n : contexts[j].record = entry.record
    BY <1>0, <2>2 DEF Table
  <2> QED
    BY <2>1, <2>2
<1>6. Table' = {Row(i)' : i \in {i \in 1..Len(contexts') : IsFirst(i)'}}
  BY DEF Table
<1>7. \A i \in 1..n : Row(i)' = Row(i)
  BY <1>1, <1>2
<1>8. Row(n + 1)' = [record |-> entry.record, context |-> Meaning(entry)']
  BY <1>1 DEF Meaning
<1>9. Table = {Row(i) : i \in {i \in 1..n : IsFirst(i)}}
  BY <1>0 DEF Table
<1> HIDE DEF Row
<1>10. ASSUME \E e \in Table : e.record = entry.record PROVE Table' = Table
  <2>1. {i \in 1..Len(contexts') : IsFirst(i)'} = {i \in 1..n : IsFirst(i)}
    BY <1>1, <1>3, <1>4, <1>5, <1>10
  <2> QED
    BY <1>6, <1>7, <1>9, <2>1
<1>11. ASSUME ~ \E e \in Table : e.record = entry.record
       PROVE  Table' = Table \cup {[record |-> entry.record, context |-> Meaning(entry)']}
  <2>1. {i \in 1..Len(contexts') : IsFirst(i)'} = {i \in 1..n : IsFirst(i)} \cup {n + 1}
    BY <1>1, <1>3, <1>4, <1>5, <1>11
  <2> QED
    BY <1>6, <1>7, <1>8, <1>9, <2>1
<1>12. Table' = IF \E e \in Table : e.record = entry.record THEN Table
                ELSE Table \cup {[record |-> entry.record, context |-> Meaning(entry)']}
  BY <1>10, <1>11
<1>13. Covered'
  <2>1. \A i \in 1..n : \E e \in Table : e.record = contexts[i].record
    BY <1>0 DEF Covered
  <2>2. Table \subseteq Table' /\ \E e \in Table' : e.record = entry.record
    <3>1. CASE \E e \in Table : e.record = entry.record
      BY <1>10, <3>1
    <3>2. CASE ~ \E e \in Table : e.record = entry.record
      <4> DEFINE new == [record |-> entry.record, context |-> Meaning(entry)']
      <4>1. new.record = entry.record
        OBVIOUS
      <4>2. Table \subseteq Table' /\ new \in Table'
        BY <1>11, <3>2
      <4> HIDE DEF new
      <4> QED
        BY <4>1, <4>2
    <3> QED
      BY <3>1, <3>2
  <2>3. ASSUME NEW i \in 1..Len(contexts')
        PROVE  \E e \in Table' : e.record = contexts'[i].record
    <3>1. CASE i \in 1..n
      BY <1>1, <2>1, <2>2, <3>1
    <3>2. CASE i = n + 1
      BY <1>1, <2>2, <3>2
    <3> QED
      BY <1>1, <3>1, <3>2
  <2> QED
    BY <2>3 DEF Covered
<1> QED
  BY <1>12, <1>13
-----------------------------------------------------------------------------
(* Writing *)

LEMMA InitHolds == Init => StoreInv
<1> SUFFICES ASSUME Init PROVE StoreInv
  OBVIOUS
<1> USE DEF Init
<1>1. TypeOK
  BY LimitAssumption DEF TypeOK, NoFile, Option
<1>2. TuplesInterned /\ Counted /\ Covered
  BY DEF TuplesInterned, Counted, Covered, IsInjective, Range
<1>3. DiskInv /\ LookupInv
  BY DEF DiskInv, LookupInv
<1> QED
  BY <1>1, <1>2, <1>3 DEF StoreInv

(* Interning keeps tuples apart and gives the tuple its id.                 *)
LEMMA Interning ==
  ASSUME StoreInv, NEW tuple \in Tuples, ~ IsEmpty(tuple), Intern(tuple)
  PROVE  /\ tuples' \in Seq(Tuples) /\ Len(tuples') \in Nat
         /\ Len(tuples) <= Len(tuples') /\ Len(tuples') <= Len(tuples) + 1
         /\ \A i \in 1..Len(tuples) : tuples'[i] = tuples[i]
         /\ tupleIds' \in [DOMAIN tupleIds' -> Nat]
         /\ IsInjective(tuples') /\ DOMAIN tupleIds' = Range(tuples')
         /\ \A i \in 1..Len(tuples') :
              tupleIds'[tuples'[i]] = i - 1 /\ ~ IsEmpty(tuples'[i])
         /\ tupleIds'[tuple] \in Nat /\ tupleIds'[tuple] < Len(tuples')
         /\ tuples'[tupleIds'[tuple] + 1] = tuple
<1>1. /\ tuples \in Seq(Tuples) /\ Len(tuples) \in Nat
      /\ tupleIds \in [DOMAIN tupleIds -> Nat]
      /\ DOMAIN tupleIds = Range(tuples) /\ DOMAIN tuples = 1..Len(tuples)
      /\ \A i \in 1..Len(tuples) : tupleIds[tuples[i]] = i - 1 /\ ~ IsEmpty(tuples[i])
      /\ \A i, j \in 1..Len(tuples) : tuples[i] = tuples[j] => i = j
  BY DEF StoreInv, TypeOK, TuplesInterned, IsInjective
<1>2. CASE tuple \in DOMAIN tupleIds
  <2>1. tuples' = tuples /\ tupleIds' = tupleIds
    BY <1>1, <1>2 DEF Intern
  <2>2. PICK i \in 1..Len(tuples) : tuples[i] = tuple
    BY <1>1, <1>2 DEF Range
  <2>3. tupleIds[tuple] = i - 1 /\ i - 1 \in Nat /\ i - 1 < Len(tuples) /\ (i - 1) + 1 = i
    BY <1>1, <2>2
  <2> QED
    BY <1>1, <2>1, <2>2, <2>3 DEF IsInjective
<1>3. CASE tuple \notin DOMAIN tupleIds
  <2>1. tuples' = Append(tuples, tuple)
    BY <1>3 DEF Intern
  <2>2. /\ DOMAIN tupleIds' = DOMAIN tupleIds \cup {tuple} /\ tupleIds'[tuple] = Len(tuples)
        /\ \A known \in DOMAIN tupleIds : tupleIds'[known] = tupleIds[known]
    BY <1>3 DEF Intern
  <2>3. /\ tuples' \in Seq(Tuples) /\ Len(tuples') = Len(tuples) + 1
        /\ DOMAIN tuples' = 1..Len(tuples')
        /\ 1..Len(tuples') = (1..Len(tuples)) \cup {Len(tuples) + 1}
        /\ \A i \in 1..Len(tuples) : tuples'[i] = tuples[i]
        /\ tuples'[Len(tuples) + 1] = tuple
    BY <1>1, <2>1
  <2>4. \A i \in 1..Len(tuples) : tuples[i] # tuple /\ tuples[i] \in DOMAIN tupleIds
    BY <1>1, <1>3 DEF Range
  <2>5. \A i, j \in 1..Len(tuples') : tuples'[i] = tuples'[j] => i = j
    BY <1>1, <2>3, <2>4
  <2>6. Range(tuples') = Range(tuples) \cup {tuple}
    BY <1>1, <2>3 DEF Range
  <2>7. \A i \in 1..Len(tuples') :
          tupleIds'[tuples'[i]] = i - 1 /\ ~ IsEmpty(tuples'[i])
    <3>1. ASSUME NEW i \in 1..Len(tuples)
          PROVE  tupleIds'[tuples'[i]] = i - 1 /\ ~ IsEmpty(tuples'[i])
      BY <1>1, <2>2, <2>3, <2>4
    <3>2. tupleIds'[tuples'[Len(tuples) + 1]] = (Len(tuples) + 1) - 1
      BY <1>1, <2>2, <2>3
    <3> QED
      BY <2>3, <3>1, <3>2
  <2>8. tupleIds' \in [DOMAIN tupleIds' -> Nat]
    BY <1>1, <1>3, <2>2 DEF Intern
  <2> QED
    BY <1>1, <2>2, <2>3, <2>5, <2>6, <2>7, <2>8 DEF IsInjective
<1> QED
  BY <1>2, <1>3

(* What a call of add_record_context does to the table: nothing, or it adds *)
(* the context of a record that had none.                                   *)
Added(record, tuple, postcode) ==
  LET entry == [record |-> record,
                context |-> [admin |-> IF IsEmpty(tuple) THEN None ELSE tuple,
                             postcode |-> postcode]]
  IN \/ Table' = Table
     \/ /\ \A e \in Table : e.record # record
        /\ Table' = Table \cup {entry}

LEMMA AddKeeps ==
  ASSUME StoreInv, NEW record \in RecordIds, NEW tuple \in Tuples,
         NEW postcode \in Postcodes, AddRecordContext(record, tuple, postcode)
  PROVE  StoreInv' /\ Added(record, tuple, postcode)
<1> USE DEF lookup
<1>1. /\ stage = "adding" /\ UNCHANGED <<stage, disk, reader, asked, low, high, answer>>
      /\ adds \in Nat /\ adds < AddLimit /\ adds' = adds + 1
      /\ postcode \in Option(RecordIds)
      /\ contexts \in Seq(Entries) /\ tuples \in Seq(Tuples)
      /\ Len(tuples) \in Nat /\ Len(contexts) \in Nat
      /\ AddLimit \in Nat /\ AddLimit <= MissingId /\ MissingId \in Nat
  BY IdsAssumption, LimitAssumption DEF AddRecordContext, StoreInv, TypeOK, Option
<1>2. DiskInv' /\ LookupInv'
  BY <1>1 DEF StoreInv, DiskInv, LookupInv
<1>3. CASE IsEmpty(tuple) /\ postcode = None
  <2>1. UNCHANGED <<tuples, tupleIds, contexts>>
    BY <1>3 DEF AddRecordContext, writer
  <2>2. TypeOK'
    BY <1>1, <2>1 DEF StoreInv, TypeOK
  <2>3. Table' = Table
    BY <2>1 DEF Table, IsFirst, Meaning
  <2>4. TuplesInterned' /\ Covered' /\ Counted'
    BY <1>1, <2>1, <2>3 DEF StoreInv, TuplesInterned, Covered, Counted, IsEmpty, Range,
       IsInjective
  <2> QED
    BY <1>2, <2>2, <2>3, <2>4 DEF StoreInv, Added
<1>4. CASE IsEmpty(tuple) /\ postcode # None
  <2> DEFINE entry == Entry(record, None, postcode)
  <2>1. UNCHANGED <<tuples, tupleIds>> /\ contexts' = Append(contexts, entry)
    BY <1>4 DEF AddRecordContext
  <2>2. entry \in Entries /\ entry.record = record
        /\ entry.tuple = None /\ entry.postcode = postcode
    BY <1>1 DEF Entry, Entries, Option
  <2> HIDE DEF entry
  <2>3. contexts' \in Seq(Entries) /\ Len(contexts') = Len(contexts) + 1
        /\ \A i \in 1..Len(contexts') : contexts'[i] = entry
             \/ (i \in 1..Len(contexts) /\ contexts'[i] = contexts[i])
    BY <1>1, <2>1, <2>2
  <2>4. TypeOK'
    BY <1>1, <2>1, <2>3 DEF StoreInv, TypeOK
  <2>5. TuplesInterned'
    <3>1. \A i \in 1..Len(contexts') :
            IF contexts'[i].tuple = None THEN contexts'[i].postcode # None
            ELSE contexts'[i].tuple < Len(tuples)
      BY <1>4, <2>2, <2>3 DEF StoreInv, TuplesInterned
    <3> QED
      BY <2>1, <3>1 DEF StoreInv, TuplesInterned, IsEmpty, Range, IsInjective
  <2>6. Counted'
    BY <1>1, <2>1, <2>3 DEF StoreInv, Counted
  <2>7. Meaning(entry)' = [admin |-> None, postcode |-> postcode]
    BY <2>2 DEF Meaning, entry, Entry
  <2>8. Covered' /\ Table' = IF \E e \in Table : e.record = record THEN Table
                 ELSE Table \cup {[record |-> record, context |-> Meaning(entry)']}
    BY <2>1, <2>2, Appended DEF StoreInv
  <2>9. Added(record, tuple, postcode)
    BY <1>4, <2>7, <2>8 DEF Added
  <2> QED
    BY <1>2, <2>4, <2>5, <2>6, <2>8, <2>9 DEF StoreInv
<1>5. CASE ~ IsEmpty(tuple)
  <2>1. PICK id : id = tupleIds'[tuple]
    OBVIOUS
  <2> DEFINE entry == Entry(record, id, postcode)
  <2>2. Intern(tuple) /\ contexts' = Append(contexts, entry)
    BY <1>5, <2>1 DEF AddRecordContext
  <2>3. /\ tuples' \in Seq(Tuples) /\ Len(tuples') \in Nat
        /\ Len(tuples) <= Len(tuples') /\ Len(tuples') <= Len(tuples) + 1
        /\ \A i \in 1..Len(tuples) : tuples'[i] = tuples[i]
        /\ tupleIds' \in [DOMAIN tupleIds' -> Nat]
        /\ IsInjective(tuples') /\ DOMAIN tupleIds' = Range(tuples')
        /\ \A i \in 1..Len(tuples') :
             tupleIds'[tuples'[i]] = i - 1 /\ ~ IsEmpty(tuples'[i])
        /\ id \in Nat /\ id < Len(tuples') /\ tuples'[id + 1] = tuple
    BY <1>5, <2>1, <2>2, Interning
  <2>4. Counted /\ id \in Ids /\ id # None
    BY <1>1, <2>3, NoneAssumption DEF StoreInv, Counted, Ids
  <2>5. entry \in Entries /\ entry.record = record
        /\ entry.tuple = id /\ entry.postcode = postcode
    BY <1>1, <2>4 DEF Entry, Entries, Option
  <2> HIDE DEF entry
  <2>6. contexts' \in Seq(Entries) /\ Len(contexts') = Len(contexts) + 1
        /\ \A i \in 1..Len(contexts') : contexts'[i] = entry
             \/ (i \in 1..Len(contexts) /\ contexts'[i] = contexts[i])
    BY <1>1, <2>2, <2>5
  <2>7. TypeOK'
    BY <1>1, <2>3, <2>6 DEF StoreInv, TypeOK
  <2>8. TuplesInterned'
    <3>1. ASSUME NEW i \in 1..Len(contexts')
          PROVE  IF contexts'[i].tuple = None THEN contexts'[i].postcode # None
                 ELSE contexts'[i].tuple < Len(tuples')
      <4>1. CASE contexts'[i] = entry
        BY <2>3, <2>4, <2>5, <4>1
      <4>2. CASE i \in 1..Len(contexts) /\ contexts'[i] = contexts[i]
        <5>1. contexts[i].tuple \in Option(Ids)
          BY <1>1, <4>2, ElementOf, EntryTypes
        <5> QED
          BY <1>1, <2>3, <4>2, <5>1 DEF StoreInv, TuplesInterned, Option, Ids
      <4> QED
        BY <2>6, <4>1, <4>2
    <3>2. \A i \in 1..Len(tuples') : tupleIds'[tuples'[i]] = i - 1 /\ ~ IsEmpty(tuples[i])'
      BY <2>3 DEF IsEmpty
    <3> QED
      BY <2>3, <3>1, <3>2 DEF TuplesInterned, Range, IsInjective
  <2>9. Counted'
    BY <1>1, <2>3, <2>4, <2>6 DEF Counted
  <2>10. Meaning(entry)' = [admin |-> tuple, postcode |-> postcode]
    BY <2>3, <2>4, <2>5 DEF Meaning, entry, Entry
  <2>11. Covered' /\ Table' = IF \E e \in Table : e.record = record THEN Table
                  ELSE Table \cup {[record |-> record, context |-> Meaning(entry)']}
    BY <2>2, <2>3, <2>5, Appended DEF StoreInv
  <2>12. Added(record, tuple, postcode)
    BY <1>5, <2>10, <2>11 DEF Added
  <2> QED
    BY <1>2, <2>7, <2>8, <2>9, <2>11, <2>12 DEF StoreInv
<1> QED
  BY <1>3, <1>4, <1>5

(* Sorting and dropping the entries leaves the table as it was.             *)
LEMMA SortKeeps ==
  ASSUME StoreInv, SortEntries
  PROVE  StoreInv' /\ Table' = Table
<1> USE DEF lookup
<1>1. PICK m \in 0..AddLimit : contexts' \in [1..m -> Firsts]
  BY DEF SortEntries
<1>2. /\ stage = "adding" /\ stage' = "tuples"
      /\ UNCHANGED <<adds, tuples, tupleIds, disk, reader, asked, low, high, answer>>
      /\ Range(contexts') = Firsts
      /\ \A i, j \in 1..Len(contexts') : i < j => contexts'[i].record < contexts'[j].record
  BY DEF SortEntries
<1>3. contexts \in Seq(Entries) /\ AddLimit \in Nat
  BY LimitAssumption DEF StoreInv, TypeOK
<1>4. Firsts \subseteq Entries
  <2> SUFFICES ASSUME NEW i \in 1..Len(contexts) PROVE contexts[i] \in Entries
    BY DEF Firsts
  <2> QED
    BY <1>3, ElementOf
<1>5. contexts' \in Seq(Entries) /\ Len(contexts') = m /\ DOMAIN contexts' = 1..m
  BY <1>1, <1>4
<1>6. Sorted'
  BY <1>2 DEF Sorted
<1>7. \A i \in 1..Len(contexts') : IsFirst(i)'
  <2> SUFFICES ASSUME NEW i \in 1..Len(contexts'), NEW j \in 1..i - 1
               PROVE  contexts'[j].record # contexts'[i].record
    BY DEF IsFirst
  <2>1. j \in 1..Len(contexts') /\ i \in 1..Len(contexts') /\ j < i
    BY <1>5
  <2>2. contexts'[j].record < contexts'[i].record
    BY <1>2, <2>1
  <2>3. contexts'[j] \in Entries /\ contexts'[i] \in Entries
    BY <1>5, <2>1
  <2> QED
    BY <2>2, <2>3, EntryTypes
<1>8. \A entry : Meaning(entry)' = Meaning(entry)
  BY <1>2 DEF Meaning
<1>9. Table = {[record |-> entry.record, context |-> Meaning(entry)] : entry \in Firsts}
  BY DEF Table, Firsts
<1>10. Table' = {[record |-> entry.record, context |-> Meaning(entry)] : entry \in Range(contexts')}
  <2>1. Table' = {[record |-> contexts'[i].record, context |-> Meaning(contexts[i])'] :
                    i \in {i \in 1..Len(contexts') : IsFirst(i)'}}
    BY DEF Table
  <2>2. \A i \in 1..Len(contexts') : Meaning(contexts[i])' = Meaning(contexts'[i])
    BY <1>2 DEF Meaning
  <2> QED
    BY <1>5, <1>7, <2>1, <2>2 DEF Range
<1>11. Table' = Table
  BY <1>2, <1>9, <1>10
<1>12. Covered'
  <2> SUFFICES ASSUME NEW i \in 1..Len(contexts')
               PROVE  \E entry \in Table' : entry.record = contexts'[i].record
    BY DEF Covered
  <2>1. contexts'[i] \in Range(contexts')
    BY <1>5 DEF Range
  <2> DEFINE row == [record |-> contexts'[i].record, context |-> Meaning(contexts'[i])]
  <2>2. row \in Table' /\ row.record = contexts'[i].record
    BY <1>10, <2>1
  <2> HIDE DEF row
  <2> QED
    BY <2>2
<1>13. TuplesInterned'
  <2>1. ASSUME NEW i \in 1..Len(contexts')
        PROVE  IF contexts'[i].tuple = None THEN contexts'[i].postcode # None
               ELSE contexts'[i].tuple < Len(tuples)
    <3>1. contexts'[i] \in Firsts
      BY <1>1, <1>5
    <3>2. PICK k \in 1..Len(contexts) : contexts'[i] = contexts[k]
      BY <3>1 DEF Firsts
    <3> QED
      BY <3>2 DEF StoreInv, TuplesInterned
  <2> QED
    BY <1>2, <2>1 DEF StoreInv, TuplesInterned, IsEmpty, Range, IsInjective
<1>14. Counted'
  BY <1>2 DEF StoreInv, Counted
<1>15. TypeOK'
  BY <1>2, <1>5 DEF StoreInv, TypeOK
<1>16. DiskInv' /\ LookupInv'
  BY <1>2, <1>6 DEF StoreInv, DiskInv, LookupInv
<1> QED
  BY <1>11, <1>12, <1>13, <1>14, <1>15, <1>16 DEF StoreInv

(* Where the writer's memory is left alone, so is the table.                *)
LEMMA Frame ==
  ASSUME StoreInv, UNCHANGED <<tuples, tupleIds, contexts>>
  PROVE  TuplesInterned' /\ Covered' /\ Table' = Table
<1>1. Table' = Table
  BY DEF Table, IsFirst, Meaning
<1> QED
  BY <1>1 DEF StoreInv, TuplesInterned, Covered, IsEmpty, Range, IsInjective

LEMMA WriteTuplesKeeps ==
  ASSUME StoreInv, WriteTuples
  PROVE  StoreInv' /\ Table' = Table /\ UNCHANGED <<disk.manifest, asked, answer>>
<1> USE DEF lookup, writer
<1> DEFINE stored == [i \in 1..Len(tuples) |-> StoredTuple(tuples[i])]
<1>1. /\ stage = "tuples" /\ stage' = "contexts"
      /\ UNCHANGED <<adds, tuples, tupleIds, contexts, reader, asked, low, high, answer>>
      /\ disk' = [disk EXCEPT !.tuples = File(stored)]
  BY DEF WriteTuples
<1>2. /\ disk = [tuples |-> disk.tuples, contexts |-> disk.contexts, manifest |-> disk.manifest]
      /\ tuples \in Seq(Tuples) /\ Len(tuples) \in Nat
  BY DEF StoreInv, TypeOK
<1>3. /\ disk'.tuples = File(stored) /\ disk'.contexts = disk.contexts
      /\ disk'.manifest = disk.manifest
      /\ disk' = [tuples |-> disk'.tuples, contexts |-> disk'.contexts,
                  manifest |-> disk'.manifest]
  BY <1>1, <1>2, Zenon
<1>4. \A i \in 1..Len(tuples) : StoredTuple(tuples[i]) \in StoredTuples
  BY <1>2, ElementOf, TupleReadBack
<1>5. stored \in Seq(StoredTuples) /\ Len(stored) = Len(tuples)
  BY <1>2, <1>4
<1> HIDE DEF stored
<1>6. File(stored) \in [count : Nat, entries : Seq(StoredTuples), whole : BOOLEAN]
  BY <1>2, <1>5 DEF File
<1>7. TypeOK'
  BY <1>1, <1>3, <1>6 DEF StoreInv, TypeOK
<1>8. TuplesInterned' /\ Covered' /\ Table' = Table
  BY <1>1, Frame
<1>9. Counted' /\ LookupInv'
  BY <1>1 DEF StoreInv, Counted, LookupInv
<1>10. DiskInv'
  BY <1>1, <1>3 DEF StoreInv, DiskInv, stored, Sorted
<1> QED
  BY <1>1, <1>3, <1>7, <1>8, <1>9, <1>10 DEF StoreInv

LEMMA WriteContextsKeeps ==
  ASSUME StoreInv, WriteContexts
  PROVE  StoreInv' /\ Table' = Table /\ UNCHANGED <<disk.manifest, asked, answer>>
<1> USE DEF lookup, writer
<1> DEFINE stored == [i \in 1..Len(contexts) |-> StoredEntry(contexts[i])]
<1>1. /\ stage = "contexts" /\ stage' = "manifest"
      /\ UNCHANGED <<adds, tuples, tupleIds, contexts, reader, asked, low, high, answer>>
      /\ disk' = [disk EXCEPT !.contexts = File(stored)]
  BY DEF WriteContexts
<1>2. /\ disk = [tuples |-> disk.tuples, contexts |-> disk.contexts, manifest |-> disk.manifest]
      /\ contexts \in Seq(Entries) /\ Len(contexts) \in Nat
  BY DEF StoreInv, TypeOK
<1>3. /\ disk'.tuples = disk.tuples /\ disk'.contexts = File(stored)
      /\ disk'.manifest = disk.manifest
      /\ disk' = [tuples |-> disk'.tuples, contexts |-> disk'.contexts,
                  manifest |-> disk'.manifest]
  BY <1>1, <1>2, Zenon
<1>4. \A i \in 1..Len(contexts) : StoredEntry(contexts[i]) \in StoredEntries
  BY <1>2, ElementOf, EntryTypes
<1>5. stored \in Seq(StoredEntries) /\ Len(stored) = Len(contexts)
  BY <1>2, <1>4
<1> HIDE DEF stored
<1>6. File(stored) \in [count : Nat, entries : Seq(StoredEntries), whole : BOOLEAN]
  BY <1>2, <1>5 DEF File
<1>7. reader # "searching"
  BY <1>1 DEF StoreInv, TypeOK, LookupInv
<1>8. TypeOK'
  BY <1>1, <1>3, <1>6, <1>7 DEF StoreInv, TypeOK
<1>9. TuplesInterned' /\ Covered' /\ Table' = Table
  BY <1>1, Frame
<1>10. Counted' /\ LookupInv'
  BY <1>1, <1>7 DEF StoreInv, Counted, LookupInv
<1>11. DiskInv'
  BY <1>1, <1>3 DEF StoreInv, DiskInv, stored, Sorted
<1> QED
  BY <1>1, <1>3, <1>8, <1>9, <1>10, <1>11 DEF StoreInv

LEMMA WriteManifestKeeps ==
  ASSUME StoreInv, WriteManifest
  PROVE  /\ StoreInv' /\ Table' = Table /\ UNCHANGED <<asked, answer>>
         /\ disk'.manifest # None
<1> USE DEF lookup, writer
<1> DEFINE manifest == [tuples |-> Len(tuples), contexts |-> Len(contexts)]
<1>1. /\ stage = "manifest" /\ stage' = "finished"
      /\ UNCHANGED <<adds, tuples, tupleIds, contexts, reader, asked, low, high, answer>>
      /\ disk' = [disk EXCEPT !.manifest = manifest]
  BY DEF WriteManifest
<1>2. /\ disk = [tuples |-> disk.tuples, contexts |-> disk.contexts, manifest |-> disk.manifest]
      /\ Len(tuples) \in Nat /\ Len(contexts) \in Nat
  BY DEF StoreInv, TypeOK
<1>3. /\ manifest \in [tuples : Nat, contexts : Nat]
      /\ manifest = [tuples |-> Len(tuples), contexts |-> Len(contexts)]
  BY <1>2
<1> HIDE DEF manifest
<1>4. /\ disk'.tuples = disk.tuples /\ disk'.contexts = disk.contexts
      /\ disk'.manifest = manifest
      /\ disk' = [tuples |-> disk'.tuples, contexts |-> disk'.contexts,
                  manifest |-> disk'.manifest]
  BY <1>1, <1>2, Zenon
<1>5. TypeOK'
  BY <1>1, <1>3, <1>4 DEF StoreInv, TypeOK, Option
<1>6. TuplesInterned' /\ Covered' /\ Table' = Table
  BY <1>1, Frame
<1>7. Counted' /\ LookupInv'
  BY <1>1 DEF StoreInv, Counted, LookupInv
<1>8. DiskInv'
  BY <1>1, <1>3, <1>4 DEF StoreInv, DiskInv, Sorted
<1>9. disk'.manifest # None
  BY <1>3, <1>4, NoneAssumption
<1> QED
  BY <1>1, <1>5, <1>6, <1>7, <1>8, <1>9 DEF StoreInv

LEMMA StopKeeps ==
  ASSUME StoreInv, Stop
  PROVE  StoreInv' /\ Table' = Table /\ UNCHANGED <<disk.manifest, asked, answer>>
<1> USE DEF lookup, writer
<1>1. /\ stage # "finished" /\ stage' = "stopped"
      /\ UNCHANGED <<adds, tuples, tupleIds, contexts, reader, asked, low, high, answer>>
  BY DEF Stop
<1>2. /\ disk = [tuples |-> disk.tuples, contexts |-> disk.contexts, manifest |-> disk.manifest]
      /\ disk.tuples \in [count : Nat, entries : Seq(StoredTuples), whole : BOOLEAN]
      /\ disk.contexts \in [count : Nat, entries : Seq(StoredEntries), whole : BOOLEAN]
      /\ Len(tuples) \in Nat /\ Len(contexts) \in Nat
  BY DEF StoreInv, TypeOK
<1>3. /\ disk' = [tuples |-> disk'.tuples, contexts |-> disk'.contexts,
                  manifest |-> disk'.manifest]
      /\ disk'.manifest = disk.manifest
      /\ disk'.tuples \in [count : Nat, entries : Seq(StoredTuples), whole : BOOLEAN]
      /\ disk'.contexts \in [count : Nat, entries : Seq(StoredEntries), whole : BOOLEAN]
  <2>1. CASE UNCHANGED disk
    BY <1>2, <2>1
  <2>2. CASE disk' = [disk EXCEPT !.tuples.count = Len(tuples)]
    BY <1>2, <2>2
  <2>3. CASE disk' = [disk EXCEPT !.contexts.count = Len(contexts)]
    BY <1>2, <2>3
  <2> QED
    BY <2>1, <2>2, <2>3 DEF Stop
<1>4. reader # "searching" /\ reader = "closed"
  BY <1>1 DEF StoreInv, TypeOK, LookupInv
<1>5. TypeOK'
  BY <1>1, <1>3, <1>4 DEF StoreInv, TypeOK
<1>6. TuplesInterned' /\ Covered' /\ Table' = Table
  BY <1>1, Frame
<1>7. Counted' /\ LookupInv'
  BY <1>1, <1>4 DEF StoreInv, Counted, LookupInv
<1>8. DiskInv'
  BY <1>1, <1>3 DEF StoreInv, DiskInv
<1> QED
  BY <1>1, <1>3, <1>5, <1>6, <1>7, <1>8 DEF StoreInv

-----------------------------------------------------------------------------
(* Reading *)

(* What the files of a finished build say.                                  *)
LEMMA FinishedFiles ==
  ASSUME StoreInv, stage = "finished"
  PROVE  /\ Sorted
         /\ disk.contexts = File([i \in 1..Len(contexts) |-> StoredEntry(contexts[i])])
         /\ disk.contexts.count = Len(contexts)
         /\ Len(disk.contexts.entries) = Len(contexts)
         /\ \A i \in 1..Len(contexts) : disk.contexts.entries[i] = StoredEntry(contexts[i])
         /\ disk.tuples.count = Len(tuples)
         /\ \A i \in 1..Len(tuples) : ReadTuple(disk.tuples.entries[i]) = tuples[i]
         /\ disk.manifest # None /\ Opens
<1>1. /\ Sorted
      /\ disk.tuples = File([i \in 1..Len(tuples) |-> StoredTuple(tuples[i])])
      /\ disk.contexts = File([i \in 1..Len(contexts) |-> StoredEntry(contexts[i])])
      /\ disk.manifest = [tuples |-> Len(tuples), contexts |-> Len(contexts)]
      /\ tuples \in Seq(Tuples) /\ Len(tuples) \in Nat /\ Len(contexts) \in Nat
  BY DEF StoreInv, TypeOK, DiskInv
<1>2. /\ disk.contexts.entries = [i \in 1..Len(contexts) |-> StoredEntry(contexts[i])]
      /\ disk.contexts.count = Len(contexts) /\ disk.contexts.whole
  BY <1>1 DEF File
<1>3. /\ disk.tuples.entries = [i \in 1..Len(tuples) |-> StoredTuple(tuples[i])]
      /\ disk.tuples.count = Len(tuples) /\ disk.tuples.whole
  BY <1>1 DEF File
<1>4. Len(disk.contexts.entries) = Len(contexts)
  BY <1>1, <1>2
<1>5. \A i \in 1..Len(tuples) : ReadTuple(disk.tuples.entries[i]) = tuples[i]
  BY <1>1, <1>3, ElementOf, TupleReadBack
<1>6. disk.manifest # None
  <2>1. disk.manifest \in [tuples : Nat, contexts : Nat]
    BY <1>1
  <2> QED
    BY <2>1, NoneAssumption
<1>7. Opens
  BY <1>1, <1>2, <1>3, <1>6 DEF Opens
<1> QED
  BY <1>1, <1>2, <1>3, <1>4, <1>5, <1>6, <1>7

(* A step of the reader keeps all but the lookup.                           *)
LEMMA ReaderFrame ==
  ASSUME StoreInv, UNCHANGED <<stage, adds, writer, disk>>
  PROVE  TuplesInterned' /\ Covered' /\ Counted' /\ DiskInv' /\ Table' = Table
<1>1. UNCHANGED <<tuples, tupleIds, contexts>>
  BY DEF writer
<1> QED
  BY <1>1, Frame DEF StoreInv, Counted, DiskInv, Sorted

LEMMA OpenKeeps ==
  ASSUME StoreInv, Open
  PROVE  StoreInv' /\ Table' = Table /\ UNCHANGED <<disk, asked, answer>>
<1>1. /\ UNCHANGED <<stage, adds, tuples, tupleIds, contexts, disk, asked, low, high, answer>>
      /\ reader' = "idle" /\ disk.manifest # None
  BY DEF Open, Opens, writer
<1>2. TuplesInterned' /\ Covered' /\ Counted' /\ DiskInv' /\ Table' = Table
  BY <1>1, ReaderFrame DEF writer
<1>3. stage = "finished"
  BY <1>1 DEF StoreInv, DiskInv
<1>4. TypeOK' /\ LookupInv'
  BY <1>1, <1>3 DEF StoreInv, TypeOK, LookupInv
<1> QED
  BY <1>1, <1>2, <1>4 DEF StoreInv

LEMMA AskKeeps ==
  ASSUME StoreInv, NEW record \in RecordIds, Ask(record)
  PROVE  /\ StoreInv' /\ Table' = Table /\ UNCHANGED disk
         /\ disk.manifest # None /\ asked' = record /\ answer' = {}
<1>1. /\ UNCHANGED <<stage, adds, tuples, tupleIds, contexts, disk>>
      /\ reader = "idle" /\ reader' = "searching" /\ asked' = record /\ answer' = {}
      /\ low' = 0 /\ high' = disk.contexts.count
  BY DEF Ask, writer
<1>2. TuplesInterned' /\ Covered' /\ Counted' /\ DiskInv' /\ Table' = Table
  BY <1>1, ReaderFrame DEF writer
<1>3. stage = "finished"
  BY <1>1 DEF StoreInv, LookupInv
<1>4. /\ disk.contexts.count = Len(contexts) /\ Len(disk.contexts.entries) = Len(contexts)
      /\ Len(contexts) \in Nat /\ disk.manifest # None
  BY <1>3, FinishedFiles DEF StoreInv, TypeOK
<1>5. TypeOK'
  BY <1>1, <1>4 DEF StoreInv, TypeOK, Option
<1>6. LookupInv'
  BY <1>1, <1>3, <1>4 DEF LookupInv
<1> QED
  BY <1>1, <1>2, <1>4, <1>5, <1>6 DEF StoreInv

(* The entry in the middle is one of those added.                           *)
LEMMA Middle ==
  ASSUME StoreInv, reader = "searching", low < high
  PROVE  /\ Mid \in Nat /\ low <= Mid /\ Mid < high /\ Mid + 1 \in 1..Len(contexts)
         /\ contexts[Mid + 1] \in Entries
         /\ MidEntry = StoredEntry(contexts[Mid + 1])
         /\ MidEntry.record = contexts[Mid + 1].record /\ MidEntry.record \in Nat
<1>1. /\ low \in Nat /\ high \in Nat /\ high <= Len(disk.contexts.entries)
      /\ contexts \in Seq(Entries) /\ Len(contexts) \in Nat /\ stage = "finished"
  BY DEF StoreInv, TypeOK, LookupInv
<1>2. /\ Len(disk.contexts.entries) = Len(contexts)
      /\ \A i \in 1..Len(contexts) : disk.contexts.entries[i] = StoredEntry(contexts[i])
  BY <1>1, FinishedFiles
<1>3. Mid \in Nat /\ low <= Mid /\ Mid < high
  BY <1>1 DEF Mid
<1>4. Mid + 1 \in 1..Len(contexts)
  BY <1>1, <1>2, <1>3
<1>5. contexts[Mid + 1] \in Entries
  BY <1>1, <1>4, ElementOf
<1>6. MidEntry = StoredEntry(contexts[Mid + 1])
  BY <1>2, <1>4 DEF MidEntry
<1> QED
  BY <1>3, <1>4, <1>5, <1>6, EntryTypes

LEMMA NarrowKeeps ==
  ASSUME StoreInv, Narrow
  PROVE  StoreInv' /\ Table' = Table /\ UNCHANGED <<disk, asked, answer>>
<1>1. /\ UNCHANGED <<stage, adds, tuples, tupleIds, contexts, disk, reader, asked, answer>>
      /\ reader = "searching" /\ low < high
      /\ \/ MidEntry.record < asked /\ low' = Mid + 1 /\ UNCHANGED high
         \/ MidEntry.record > asked /\ high' = Mid /\ UNCHANGED low
  BY DEF Narrow, writer
<1>2. TuplesInterned' /\ Covered' /\ Counted' /\ DiskInv' /\ Table' = Table
  BY <1>1, ReaderFrame DEF writer
<1>3. /\ Mid \in Nat /\ low <= Mid /\ Mid < high /\ Mid + 1 \in 1..Len(contexts)
      /\ MidEntry.record = contexts[Mid + 1].record /\ MidEntry.record \in Nat
  BY <1>1, Middle
<1>4. /\ low \in Nat /\ high \in Nat /\ asked \in Nat /\ stage = "finished"
      /\ contexts \in Seq(Entries) /\ Len(contexts) \in Nat
      /\ \A i \in 1..low : contexts[i].record < asked
      /\ \A i \in high + 1..Len(contexts) : asked < contexts[i].record
  BY <1>1, RecordIdsAreIds DEF StoreInv, TypeOK, LookupInv
<1>5. Sorted
  BY <1>4, FinishedFiles
<1>6. \A i \in 1..Len(contexts) : contexts[i].record \in Nat
  BY <1>4, ElementOf, EntryTypes
<1>7. /\ \A i \in 1..low' : contexts[i].record < asked
      /\ \A i \in high' + 1..Len(contexts) : asked < contexts[i].record
      /\ low' \in Nat /\ high' \in Nat /\ low' <= high' /\ high' <= high
  <2>1. CASE MidEntry.record < asked /\ low' = Mid + 1 /\ UNCHANGED high
    <3>1. ASSUME NEW i \in 1..low' PROVE contexts[i].record < asked
      <4>1. i \in 1..Len(contexts) /\ i <= Mid + 1
        BY <1>3, <2>1
      <4>2. CASE i = Mid + 1
        BY <1>3, <2>1, <4>2
      <4>3. CASE i < Mid + 1
        <5>1. contexts[i].record < contexts[Mid + 1].record
          BY <1>3, <1>5, <4>1, <4>3 DEF Sorted
        <5> QED
          BY <1>3, <1>4, <1>6, <2>1, <4>1, <5>1
      <4> QED
        BY <1>3, <4>1, <4>2, <4>3
    <3> QED
      BY <1>3, <1>4, <2>1, <3>1
  <2>2. CASE MidEntry.record > asked /\ high' = Mid /\ UNCHANGED low
    <3>1. ASSUME NEW i \in high' + 1..Len(contexts) PROVE asked < contexts[i].record
      <4>1. i \in 1..Len(contexts) /\ i >= Mid + 1
        BY <1>3, <1>4, <2>2
      <4>2. CASE i = Mid + 1
        BY <1>3, <1>4, <2>2, <4>2
      <4>3. CASE i > Mid + 1
        <5>1. contexts[Mid + 1].record < contexts[i].record
          BY <1>3, <1>5, <4>1, <4>3 DEF Sorted
        <5> QED
          BY <1>3, <1>4, <1>6, <2>2, <4>1, <5>1
      <4> QED
        BY <1>3, <4>1, <4>2, <4>3
    <3> QED
      BY <1>3, <1>4, <2>2, <3>1
  <2> QED
    BY <1>1, <2>1, <2>2
<1>8. TypeOK'
  BY <1>1, <1>7 DEF StoreInv, TypeOK
<1>9. LookupInv'
  BY <1>1, <1>7 DEF StoreInv, LookupInv
<1> QED
  BY <1>1, <1>2, <1>8, <1>9 DEF StoreInv

(* A stored entry is read back as it was meant.                             *)
LEMMA ReadBack ==
  ASSUME StoreInv, stage = "finished", NEW i \in 1..Len(contexts)
  PROVE  Resolved(StoredEntry(contexts[i])) = Meaning(contexts[i])
<1> DEFINE stored == StoredEntry(contexts[i])
           id == contexts[i].tuple
<1>1. contexts[i] \in Entries
  BY ElementOf DEF StoreInv, TypeOK
<1>2. /\ Decode(stored.tuple) = id /\ Decode(stored.postcode) = contexts[i].postcode
      /\ id \in Option(Ids)
  BY <1>1, EntryTypes
<1>3. id # None => id \in Nat /\ id < Len(tuples) /\ id + 1 \in 1..Len(tuples)
  BY <1>2 DEF StoreInv, TuplesInterned, Option, Ids, TypeOK
<1>4. /\ disk.tuples.count = Len(tuples)
      /\ \A k \in 1..Len(tuples) : ReadTuple(disk.tuples.entries[k]) = tuples[k]
  BY FinishedFiles
<1> HIDE DEF stored, id
<1>5. Resolved(stored).admin = IF id = None THEN None ELSE tuples[id + 1]
  <2>1. CASE id = None
    BY <1>2, <2>1 DEF Resolved
  <2>2. CASE id # None
    BY <1>2, <1>3, <1>4, <2>2 DEF Resolved
  <2> QED
    BY <2>1, <2>2
<1>6. Resolved(stored) = [admin |-> IF id = None THEN None ELSE tuples[id + 1],
                          postcode |-> contexts[i].postcode]
  BY <1>2, <1>5 DEF Resolved
<1> QED
  BY <1>6 DEF Meaning, stored, id

LEMMA FindKeeps ==
  ASSUME StoreInv, Find
  PROVE  /\ StoreInv' /\ Table' = Table /\ UNCHANGED <<disk, asked>>
         /\ asked # None /\ answer = {} /\ answer' = Promise!ContextOf(asked)
<1>1. /\ UNCHANGED <<stage, adds, tuples, tupleIds, contexts, disk, asked, low, high>>
      /\ reader = "searching" /\ low < high /\ reader' = "idle"
      /\ MidEntry.record = asked /\ answer' = {Resolved(MidEntry)}
  BY DEF Find, writer
<1>2. TuplesInterned' /\ Covered' /\ Counted' /\ DiskInv' /\ Table' = Table
  BY <1>1, ReaderFrame DEF writer
<1>3. /\ Mid + 1 \in 1..Len(contexts) /\ MidEntry = StoredEntry(contexts[Mid + 1])
      /\ MidEntry.record = contexts[Mid + 1].record
  BY <1>1, Middle
<1>4. /\ asked \in RecordIds /\ answer = {} /\ stage = "finished"
      /\ contexts \in Seq(Entries)
  BY <1>1 DEF StoreInv, TypeOK, LookupInv
<1>5. TypeOK' /\ LookupInv'
  BY <1>1, <1>4 DEF StoreInv, TypeOK, LookupInv
<1>6. Sorted
  BY <1>4, FinishedFiles
<1> DEFINE row == [record |-> contexts[Mid + 1].record, context |-> Meaning(contexts[Mid + 1])]
<1>7. row \in Table /\ row.record = asked /\ row.context = Resolved(MidEntry)
  BY <1>1, <1>3, <1>4, <1>6, SortedAreFirst, InTable, ReadBack
<1>8. ASSUME NEW entry \in Table, entry.record = asked PROVE entry = row
  <2>1. PICK i \in 1..Len(contexts) :
          entry = [record |-> contexts[i].record, context |-> Meaning(contexts[i])]
    BY DEF Table
  <2>2. contexts[i].record = contexts[Mid + 1].record
    BY <1>1, <1>3, <1>8, <2>1
  <2>3. contexts[i].record \in Nat
    BY <1>4, ElementOf, EntryTypes
  <2>4. i = Mid + 1
    BY <1>3, <1>6, <2>2, <2>3 DEF Sorted
  <2> QED
    BY <2>1, <2>4
<1> HIDE DEF row
<1>9. {entry \in Table : entry.record = asked} = {row}
  BY <1>7, <1>8
<1>10. Promise!ContextOf(asked) = {Resolved(MidEntry)}
  BY <1>7, <1>9 DEF Promise!ContextOf
<1>11. asked # None
  BY <1>4, RecordIdsAreIds, NoneAssumption
<1> QED
  BY <1>1, <1>2, <1>4, <1>5, <1>10, <1>11 DEF StoreInv

LEMMA MissKeeps ==
  ASSUME StoreInv, Miss
  PROVE  /\ StoreInv' /\ Table' = Table /\ UNCHANGED <<disk, asked>>
         /\ asked # None /\ answer = {} /\ answer' = Promise!ContextOf(asked)
<1>1. /\ UNCHANGED <<stage, adds, tuples, tupleIds, contexts, disk, asked, low, high>>
      /\ reader = "searching" /\ low >= high /\ reader' = "idle" /\ answer' = {None}
  BY DEF Miss, writer
<1>2. TuplesInterned' /\ Covered' /\ Counted' /\ DiskInv' /\ Table' = Table
  BY <1>1, ReaderFrame DEF writer
<1>3. /\ asked \in RecordIds /\ answer = {} /\ stage = "finished"
      /\ low \in Nat /\ high \in Nat /\ low = high
      /\ contexts \in Seq(Entries) /\ Len(contexts) \in Nat
      /\ \A i \in 1..low : contexts[i].record < asked
      /\ \A i \in high + 1..Len(contexts) : asked < contexts[i].record
  BY <1>1 DEF StoreInv, TypeOK, LookupInv
<1>4. TypeOK' /\ LookupInv'
  BY <1>1, <1>3 DEF StoreInv, TypeOK, LookupInv
<1>5. ASSUME NEW i \in 1..Len(contexts) PROVE contexts[i].record # asked
  <2>1. i \in 1..low \/ i \in high + 1..Len(contexts)
    BY <1>3
  <2>2. contexts[i].record \in Nat /\ asked \in Nat
    BY <1>3, ElementOf, EntryTypes, RecordIdsAreIds
  <2> QED
    BY <1>3, <2>1, <2>2
<1>6. \A entry \in Table : entry.record # asked
  BY <1>5 DEF Table
<1>7. Promise!ContextOf(asked) = {None}
  BY <1>6 DEF Promise!ContextOf
<1>8. asked # None
  BY <1>3, RecordIdsAreIds, NoneAssumption
<1> QED
  BY <1>1, <1>2, <1>3, <1>4, <1>7, <1>8 DEF StoreInv

-----------------------------------------------------------------------------
(* Theorems *)

(* The invariant the others follow from: what is in memory and on disk, and *)
(* between which entries the search is.                                     *)
THEOREM StoreInvariant == Spec => []StoreInv
<1>1. Init => StoreInv
  BY InitHolds
<1>2. StoreInv /\ [Next]_vars => StoreInv'
  <2> SUFFICES ASSUME StoreInv, [Next]_vars PROVE StoreInv'
    OBVIOUS
  <2>1. ASSUME NEW record \in RecordIds, NEW tuple \in Tuples, NEW postcode \in Postcodes,
               AddRecordContext(record, tuple, postcode)
        PROVE  StoreInv'
    BY <2>1, AddKeeps
  <2>2. CASE SortEntries
    BY <2>2, SortKeeps
  <2>3. CASE WriteTuples
    BY <2>3, WriteTuplesKeeps
  <2>4. CASE WriteContexts
    BY <2>4, WriteContextsKeeps
  <2>5. CASE WriteManifest
    BY <2>5, WriteManifestKeeps
  <2>6. CASE Stop
    BY <2>6, StopKeeps
  <2>7. CASE Open
    BY <2>7, OpenKeeps
  <2>8. ASSUME NEW record \in RecordIds, Ask(record) PROVE StoreInv'
    BY <2>8, AskKeeps
  <2>9. CASE Narrow
    BY <2>9, NarrowKeeps
  <2>10. CASE Find
    BY <2>10, FindKeeps
  <2>11. CASE Miss
    BY <2>11, MissKeeps
  <2>12. CASE UNCHANGED vars
    <3>1. UNCHANGED <<stage, adds, writer, disk, reader, asked, low, high, answer>>
      BY <2>12 DEF vars, lookup
    <3>2. TuplesInterned' /\ Covered' /\ Counted' /\ DiskInv'
      BY <3>1, ReaderFrame
    <3>3. TypeOK' /\ LookupInv'
      BY <3>1 DEF StoreInv, TypeOK, LookupInv, writer
    <3> QED
      BY <3>2, <3>3 DEF StoreInv
  <2> QED
    BY <2>1, <2>2, <2>3, <2>4, <2>5, <2>6, <2>7, <2>8, <2>9, <2>10, <2>11, <2>12 DEF Next
<1> QED
  BY <1>1, <1>2, PTL DEF Spec

(* Values stay of their kind, and the search stays inside the file          *)
(* (find_record_context).                                                   *)
THEOREM TypeCorrect == Spec => []TypeOK
<1>1. StoreInv => TypeOK
  BY DEF StoreInv
<1> QED
  BY <1>1, StoreInvariant, PTL

(* Each tuple is stored once, and entries refer to tuples that are there    *)
(* (add_record_context).                                                    *)
THEOREM TuplesCorrect == Spec => []TuplesInterned
<1>1. StoreInv => TuplesInterned
  BY DEF StoreInv
<1> QED
  BY <1>1, StoreInvariant, PTL

(* A build that finished can be opened (finish, open).                      *)
THEOREM OpensCorrect == Spec => []FinishedOpens
<1>1. StoreInv => FinishedOpens
  <2> SUFFICES ASSUME StoreInv, disk.manifest # None PROVE Opens
    BY DEF FinishedOpens
  <2>1. stage = "finished"
    BY DEF StoreInv, DiskInv
  <2> QED
    BY <2>1, FinishedFiles
<1> QED
  BY <1>1, StoreInvariant, PTL

(* Where table, manifest, question and answer are left alone, so is the     *)
(* promise.                                                                 *)
LEMMA PromiseStutters ==
  ASSUME Table' = Table, UNCHANGED <<disk.manifest, asked, answer>>
  PROVE  UNCHANGED Promise!vars
<1>1. (disk.manifest # None)' = (disk.manifest # None)
  OBVIOUS
<1> QED
  BY <1>1 DEF Promise!vars

LEMMA AddImplements ==
  ASSUME StoreInv, NEW record \in RecordIds, NEW tuple \in Tuples, NEW postcode \in Postcodes,
         AddRecordContext(record, tuple, postcode)
  PROVE  [Promise!Next]_(Promise!vars)
<1>1. stage = "adding" /\ UNCHANGED <<disk, asked, answer>>
  BY DEF AddRecordContext, lookup
<1>2. disk.manifest = None
  BY <1>1 DEF StoreInv, DiskInv
<1>3. Added(record, tuple, postcode)
  BY AddKeeps
<1> DEFINE context == [admin |-> IF IsEmpty(tuple) THEN None ELSE tuple, postcode |-> postcode]
<1>4. context \in [admin : Option(Tuples), postcode : Option(RecordIds)]
  BY IdsAssumption DEF Option
<1>5. CASE Table' = Table
  BY <1>1, <1>5, PromiseStutters
<1>6. CASE /\ \A e \in Table : e.record # record
           /\ Table' = Table \cup {[record |-> record, context |-> context]}
  <2>1. (disk.manifest # None)' = (disk.manifest # None)
    BY <1>1
  <2> HIDE DEF context
  <2>2. Promise!Add(record, context)
    BY <1>1, <1>2, <1>6, <2>1 DEF Promise!Add
  <2> QED
    BY <1>4, <2>2 DEF Promise!Next
<1> QED
  BY <1>3, <1>5, <1>6 DEF Added

LEMMA StepImplements ==
  ASSUME StoreInv, [Next]_vars
  PROVE  [Promise!Next]_(Promise!vars)
<1>1. ASSUME NEW record \in RecordIds, NEW tuple \in Tuples, NEW postcode \in Postcodes,
             AddRecordContext(record, tuple, postcode)
      PROVE  [Promise!Next]_(Promise!vars)
  BY <1>1, AddImplements
<1>2. CASE SortEntries
  <2>1. UNCHANGED <<disk.manifest, asked, answer>>
    BY <1>2 DEF SortEntries, lookup
  <2> QED
    BY <1>2, <2>1, SortKeeps, PromiseStutters
<1>3. CASE WriteTuples
  BY <1>3, WriteTuplesKeeps, PromiseStutters
<1>4. CASE WriteContexts
  BY <1>4, WriteContextsKeeps, PromiseStutters
<1>5. CASE WriteManifest
  <2>1. Table' = Table /\ UNCHANGED <<asked, answer>> /\ disk'.manifest # None
    BY <1>5, WriteManifestKeeps
  <2>2. (disk.manifest # None)' = TRUE
    BY <2>1
  <2>3. Promise!Publish
    BY <2>1, <2>2 DEF Promise!Publish
  <2> QED
    BY <2>3 DEF Promise!Next
<1>6. CASE Stop
  BY <1>6, StopKeeps, PromiseStutters
<1>7. CASE Open
  BY <1>7, OpenKeeps, PromiseStutters
<1>8. ASSUME NEW record \in RecordIds, Ask(record)
      PROVE  [Promise!Next]_(Promise!vars)
  <2>1. /\ Table' = Table /\ UNCHANGED disk
        /\ disk.manifest # None /\ asked' = record /\ answer' = {}
    BY <1>8, AskKeeps
  <2>2. (disk.manifest # None)' = (disk.manifest # None)
    BY <2>1
  <2>3. Promise!Ask(record)
    BY <2>1, <2>2 DEF Promise!Ask
  <2> QED
    BY <2>3 DEF Promise!Next
<1>9. CASE Narrow
  BY <1>9, NarrowKeeps, PromiseStutters
<1>10. CASE Find \/ Miss
  <2>1. /\ Table' = Table /\ UNCHANGED <<disk, asked>>
        /\ asked # None /\ answer = {} /\ answer' = Promise!ContextOf(asked)
    BY <1>10, FindKeeps, MissKeeps
  <2>2. (disk.manifest # None)' = (disk.manifest # None)
    BY <2>1
  <2>3. Promise!Reply
    BY <2>1, <2>2 DEF Promise!Reply
  <2> QED
    BY <2>3 DEF Promise!Next
<1>11. CASE UNCHANGED vars
  <2>1. UNCHANGED <<tuples, contexts, disk, asked, answer>>
    BY <1>11 DEF vars, writer, lookup
  <2>2. Table' = Table
    BY <2>1 DEF Table, IsFirst, Meaning
  <2> QED
    BY <2>1, <2>2, PromiseStutters
<1> QED
  BY <1>1, <1>2, <1>3, <1>4, <1>5, <1>6, <1>7, <1>8, <1>9, <1>10, <1>11 DEF Next

(* Readers of the interned, sorted, encoded files are told what a table     *)
(* filled in one step per record would tell them: the first context added   *)
(* to the record (AdminContextTable, PackContextWriter).                    *)
THEOREM StoreImplementsTable == Spec => ImplementsTable
<1>1. Init => Promise!Init
  <2> SUFFICES ASSUME Init PROVE Promise!Init
    OBVIOUS
  <2>1. (disk.manifest # None) = FALSE /\ Table = {} /\ asked = None /\ answer = {}
    BY DEF Init, Table
  <2> QED
    BY <2>1 DEF Promise!Init
<1>2. StoreInv /\ [Next]_vars => [Promise!Next]_(Promise!vars)
  BY StepImplements
<1> QED
  BY <1>1, <1>2, StoreInvariant, PTL DEF Spec, ImplementsTable, Promise!Spec
=============================================================================
