--------------------------- MODULE PackWriterProofs ---------------------------
(***************************************************************************)
(* Proofs about PackWriter, for every set of layers, batch size and bound, *)
(* and about TextQuery, the documents its text index holds, for every set  *)
(* of records and every text that is typed.                                *)
(*                                                                         *)
(* The safety properties of the pack directory follow from an invariant    *)
(* with one conjunct per table the writer keeps (rows, documents, spatial  *)
(* entries, boundaries, contexts, rejections, layer counts) and one for    *)
(* the files (DiskInv): once a manifest is there, the memory of the build  *)
(* that wrote it is settled, and each file is gone or holds that memory.   *)
(*                                                                         *)
(* The two properties of a query follow from what the recursive functions  *)
(* of TextQuery compute, step by step: the words read of a prefix begin    *)
(* the words of the text (TypedBegins), each part of a subject is in it    *)
(* token by token (SubjectIs), and the word begun last is among the        *)
(* expansions of what is typed of it (Reaches).                            *)
(***************************************************************************)
EXTENDS PackWriter, TextQuery, FiniteSetTheorems, SequenceTheorems, NaturalsInduction,
        WellFoundedInduction, TLAPS

-----------------------------------------------------------------------------
(* Tables *)

(* Extending a table of n rows gives a table of n + 1 rows.                 *)
LEMMA ExtendType ==
  ASSUME NEW S, NEW n \in Nat, NEW table \in [0..n - 1 -> S], NEW row \in S
  PROVE  Extend(table, n, row) \in [0..(n + 1) - 1 -> S]
BY DEF Extend

(* The rows a table had keep their place when it is extended.               *)
LEMMA ExtendOld ==
  ASSUME NEW n \in Nat, NEW table, NEW row, NEW i \in 0..n - 1
  PROVE  Extend(table, n, row)[i] = table[i]
BY DEF Extend

(* The new row of an extended table has number n.                           *)
LEMMA ExtendNew ==
  ASSUME NEW n \in Nat, NEW table, NEW row
  PROVE  Extend(table, n, row)[n] = row
BY DEF Extend

(* The empty table has no rows, of whatever kind.                           *)
LEMMA EmptyTableType ==
  ASSUME NEW S
  PROVE  EmptyTable \in [0..0 - 1 -> S]
BY DEF EmptyTable

-----------------------------------------------------------------------------
(* Type correctness *)

(* Type correctness holds before the first build.                           *)
LEMMA InitTypeOK == Init => TypeOK
<1> SUFFICES ASSUME Init PROVE TypeOK
  OBVIOUS
<1>1. ArchiveTypeOK /\ RejectionTypeOK
  BY EmptyTableType DEF Init, ArchiveTypeOK, RejectionTypeOK
<1>2. BoundaryTypeOK /\ ContextTypeOK
  BY DEF Init, EmptyTable, BoundaryTypeOK, ContextTypeOK
<1>3. WriterTypeOK
  BY LayersAssumption DEF Init, WriterTypeOK, NoRecord, Layers, Stopped
<1>4. RecordTypeOK /\ TextTypeOK /\ SpatialTypeOK /\ DiskTypeOK
  BY DEF Init, RecordTypeOK, TextTypeOK, SpatialTypeOK, DiskTypeOK, EmptyDisk
<1>5. QED
  BY <1>1, <1>2, <1>3, <1>4 DEF TypeOK

(* A part of the state that a step leaves alone keeps its type.             *)
LEMMA TypeFrame ==
  ASSUME TypeOK
  PROVE  /\ UNCHANGED <<rows, archiveCount>> => ArchiveTypeOK'
         /\ UNCHANGED <<recordCount, layerCounts>> => RecordTypeOK'
         /\ UNCHANGED <<pending, documents, documentCount>> => TextTypeOK'
         /\ UNCHANGED spatial => SpatialTypeOK'
         /\ UNCHANGED <<derived, boundaries>> => BoundaryTypeOK'
         /\ UNCHANGED contexts => ContextTypeOK'
         /\ UNCHANGED <<chunks, chunkCount, offsets, rejectionCount>>
              => RejectionTypeOK'
         /\ UNCHANGED disk => DiskTypeOK'
<1>1. UNCHANGED <<rows, archiveCount>> => ArchiveTypeOK'
  BY DEF TypeOK, ArchiveTypeOK
<1>2. UNCHANGED <<recordCount, layerCounts>> => RecordTypeOK'
  BY DEF TypeOK, RecordTypeOK
<1>3. UNCHANGED <<pending, documents, documentCount>> => TextTypeOK'
  BY DEF TypeOK, TextTypeOK
<1>4. UNCHANGED spatial => SpatialTypeOK'
  BY DEF TypeOK, SpatialTypeOK
<1>5. UNCHANGED <<derived, boundaries>> => BoundaryTypeOK'
  BY DEF TypeOK, BoundaryTypeOK
<1>6. UNCHANGED contexts => ContextTypeOK'
  BY DEF TypeOK, ContextTypeOK
<1>7. UNCHANGED <<chunks, chunkCount, offsets, rejectionCount>> => RejectionTypeOK'
  BY DEF TypeOK, RejectionTypeOK
<1>8. UNCHANGED disk => DiskTypeOK'
  BY DEF TypeOK, DiskTypeOK
<1>9. QED
  BY <1>1, <1>2, <1>3, <1>4, <1>5, <1>6, <1>7, <1>8

(* A step that only rewrites files keeps their names.                       *)
LEMMA DiskFrame ==
  ASSUME DiskTypeOK, NEW file, NEW content, disk' = [disk EXCEPT ![file] = content]
  PROVE  DiskTypeOK'
BY DEF DiskTypeOK

(* Between accept_record and the context of the record there is a record,   *)
(* and between a chunk and its offset there is a chunk.                     *)
Positions ==
  /\ pc = "context" => recordCount > 0
  /\ pc = "reject_offset" => chunkCount > 0

(* Every step keeps type correctness, one part of it at a time.             *)
LEMMA StepTypeOK == TypeOK /\ Positions /\ Next => TypeOK'
<1> SUFFICES ASSUME TypeOK, Positions, Next PROVE TypeOK'
  OBVIOUS
<1>a. WriterTypeOK'
  <2>1. pc' \in {"clear"} \cup Building \cup Stopped
    BY DEF TypeOK, WriterTypeOK, Building, WriteSteps, FinishSteps, Stopped, Next,
       StartBuild, RemoveFile, CreateFiles, BeginRecord, WriteArchive, AddDocument,
       FlushBatch, AddSpatial, AcceptRecord, WriteContext, NextStage, WriteChunk,
       WriteOffset, BeginFinish, FinishRejections, FinishRecords, FinishFlush,
       FinishCommit, FinishSpatial, FinishContext, WriteManifest, Fail
  <2>2. stage' \in {"derived", "boundary", "emit"} /\ builds' \in Nat
    BY DEF TypeOK, WriterTypeOK, Next, memory,
       StartBuild, RemoveFile, CreateFiles, BeginRecord, WriteArchive, AddDocument,
       FlushBatch, AddSpatial, AcceptRecord, WriteContext, NextStage, WriteChunk,
       WriteOffset, BeginFinish, FinishRejections, FinishRecords, FinishFlush,
       FinishCommit, FinishSpatial, FinishContext, WriteManifest, Fail
  <2>3. cur' = cur \/ cur' = NoRecord
           \/ \E layer \in Layers, located \in BOOLEAN :
                 cur' = [layer |-> layer, located |-> located]
    BY DEF Next, memory,
       StartBuild, RemoveFile, CreateFiles, BeginRecord, WriteArchive, AddDocument,
       FlushBatch, AddSpatial, AcceptRecord, WriteContext, NextStage, WriteChunk,
       WriteOffset, BeginFinish, FinishRejections, FinishRecords, FinishFlush,
       FinishCommit, FinishSpatial, FinishContext, WriteManifest, Fail
  <2>4. NoRecord \in [layer : Layers, located : BOOLEAN]
    BY LayersAssumption DEF NoRecord, Layers
  <2>5. cur' \in [layer : Layers, located : BOOLEAN]
    BY <2>3, <2>4 DEF TypeOK, WriterTypeOK
  <2>6. QED
    BY <2>1, <2>2, <2>5 DEF WriterTypeOK
<1>1. CASE StartBuild
  BY <1>1, <1>a, TypeFrame DEF StartBuild, memory, TypeOK
<1>2. ASSUME NEW file \in Files, RemoveFile(file) PROVE TypeOK'
  <2>1. DiskTypeOK'
    BY <1>2, DiskFrame DEF RemoveFile, TypeOK
  <2>2. QED
    BY <1>2, <1>a, <2>1, TypeFrame DEF RemoveFile, memory, TypeOK
<1>3. CASE CreateFiles
  <2>1. ArchiveTypeOK' /\ RejectionTypeOK'
    BY <1>3, EmptyTableType DEF CreateFiles, ArchiveTypeOK, RejectionTypeOK
  <2>2. BoundaryTypeOK' /\ ContextTypeOK'
    BY <1>3 DEF CreateFiles, EmptyTable, BoundaryTypeOK, ContextTypeOK
  <2>3. RecordTypeOK' /\ TextTypeOK' /\ SpatialTypeOK'
    BY <1>3 DEF CreateFiles, RecordTypeOK, TextTypeOK, SpatialTypeOK
  <2>4. DiskTypeOK'
    BY <1>3 DEF CreateFiles, DiskTypeOK, EmptyDisk, TypeOK
  <2>5. QED
    BY <1>a, <2>1, <2>2, <2>3, <2>4 DEF TypeOK
<1>4. ASSUME NEW layer \in Layers, NEW located \in BOOLEAN, BeginRecord(layer, located)
      PROVE  TypeOK'
  BY <1>4, <1>a, TypeFrame DEF BeginRecord, TypeOK
<1>5. CASE WriteArchive
  <2>1. ArchiveTypeOK'
    BY <1>5, ExtendType DEF WriteArchive, ArchiveTypeOK, TypeOK, WriterTypeOK
  <2>2. QED
    BY <1>5, <1>a, <2>1, TypeFrame DEF WriteArchive, TypeOK
<1>6. CASE AddDocument
  <2>1. Entry(recordCount, cur.layer) \in Entries
    BY DEF Entry, Entries, TypeOK, RecordTypeOK, WriterTypeOK
  <2>2. TextTypeOK'
    BY <1>6, <2>1 DEF AddDocument, TextTypeOK, TypeOK
  <2>3. QED
    BY <1>6, <1>a, <2>2, TypeFrame DEF AddDocument, TypeOK
<1>7. CASE FlushBatch \/ FinishFlush
  <2>1. Documents(pending) \subseteq Entries
    BY DEF Documents, TypeOK, TextTypeOK
  <2>2. TextTypeOK'
    <3>1. /\ pending' = <<>> /\ documents' = documents \cup Documents(pending)
          /\ documentCount' = documentCount
      BY <1>7 DEF FlushBatch, FinishFlush
    <3>2. <<>> \in Seq(Entries)
      OBVIOUS
    <3>3. QED
      BY <2>1, <3>1, <3>2 DEF TextTypeOK, TypeOK
  <2>3. QED
    BY <1>7, <1>a, <2>2, TypeFrame DEF FlushBatch, FinishFlush, TypeOK
<1>8. CASE AddSpatial
  <2>1. Entry(recordCount, cur.layer) \in Entries
    BY DEF Entry, Entries, TypeOK, RecordTypeOK, WriterTypeOK
  <2>2. SpatialTypeOK'
    BY <1>8, <2>1 DEF AddSpatial, SpatialTypeOK, TypeOK
  <2>3. QED
    BY <1>8, <1>a, <2>2, TypeFrame DEF AddSpatial, TypeOK
<1>9. ASSUME NEW inferred \in derived \cup {NoId}, AcceptRecord(inferred)
      PROVE  TypeOK'
  <2>1. BoundaryTypeOK'
    BY <1>9 DEF AcceptRecord, BoundaryTypeOK, TypeOK, RecordTypeOK
  <2>2. RecordTypeOK'
    <3>1. /\ recordCount' = recordCount + 1
          /\ layerCounts' = [layerCounts EXCEPT ![cur.layer] = @ + 1]
      BY <1>9 DEF AcceptRecord
    <3>2. cur.layer \in Layers
      BY DEF TypeOK, WriterTypeOK
    <3>3. recordCount \in Nat /\ layerCounts \in [Layers -> Nat]
      BY DEF TypeOK, RecordTypeOK
    <3>4. layerCounts' \in [Layers -> Nat]
      BY <3>1, <3>2, <3>3
    <3>5. QED
      BY <3>1, <3>3, <3>4 DEF RecordTypeOK
  <2>3. QED
    BY <1>9, <1>a, <2>1, <2>2, TypeFrame DEF AcceptRecord, TypeOK
<1>10. ASSUME NEW chosen \in [AdminLayers -> DOMAIN boundaries \cup {NoId}],
              WriteContext(chosen)
       PROVE  TypeOK'
  <2>1. chosen \in Tuples
    BY DEF Tuples, TypeOK, BoundaryTypeOK
  <2>2. chosen["region"] # NoId => boundaries[chosen["region"]] \in Nat \cup {NoId}
    BY LayersAssumption DEF TypeOK, BoundaryTypeOK
  <2>3. ContextTuple(chosen) \in Tuples
    BY <2>1, <2>2 DEF ContextTuple, Tuples
  <2>4. recordCount - 1 \in Nat
    BY <1>10 DEF WriteContext, Positions, TypeOK, RecordTypeOK
  <2>5. ContextTypeOK'
    BY <1>10, <2>3, <2>4 DEF WriteContext, ContextTypeOK, TypeOK
  <2>6. QED
    BY <1>10, <1>a, <2>5, TypeFrame DEF WriteContext, TypeOK
<1>11. CASE NextStage
  BY <1>11, <1>a, TypeFrame DEF NextStage, TypeOK
<1>12. ASSUME NEW hint \in Hints, WriteChunk(hint) PROVE TypeOK'
  <2>1. RejectionTypeOK'
    <3>1. /\ chunks' = Extend(chunks, chunkCount, hint) /\ chunkCount' = chunkCount + 1
          /\ UNCHANGED <<offsets, rejectionCount>>
      BY <1>12 DEF WriteChunk
    <3>2. RejectionTypeOK
      BY DEF TypeOK
    <3>3. chunks' \in [0..chunkCount' - 1 -> Hints]
      BY <3>1, <3>2, ExtendType DEF RejectionTypeOK
    <3>4. QED
      BY <3>1, <3>2, <3>3 DEF RejectionTypeOK
  <2>2. QED
    BY <1>12, <1>a, <2>1, TypeFrame DEF WriteChunk, TypeOK
<1>13. CASE WriteOffset
  <2>1. [chunk |-> chunkCount - 1, hint |-> chunks[chunkCount - 1]]
          \in [chunk : Nat, hint : Hints]
    BY <1>13 DEF WriteOffset, Positions, RejectionTypeOK, TypeOK
  <2>2. RejectionTypeOK'
    <3> DEFINE entry == [chunk |-> chunkCount - 1, hint |-> chunks[chunkCount - 1]]
    <3>1. /\ offsets' = Extend(offsets, rejectionCount, entry)
          /\ rejectionCount' = rejectionCount + 1
          /\ UNCHANGED <<chunks, chunkCount>>
      BY <1>13 DEF WriteOffset
    <3>2. RejectionTypeOK
      BY DEF TypeOK
    <3> HIDE DEF entry
    <3>3. entry \in [chunk : Nat, hint : Hints]
      BY <2>1 DEF entry
    <3>4. offsets' \in [0..rejectionCount' - 1 -> [chunk : Nat, hint : Hints]]
      BY <3>1, <3>2, <3>3, ExtendType DEF RejectionTypeOK
    <3>5. QED
      BY <3>1, <3>2, <3>4 DEF RejectionTypeOK
  <2>3. QED
    BY <1>13, <1>a, <2>2, TypeFrame DEF WriteOffset, TypeOK
<1>14. CASE BeginFinish \/ Fail
  BY <1>14, <1>a, TypeFrame DEF BeginFinish, Fail, memory, TypeOK
<1>15. CASE \/ FinishRejections \/ FinishRecords \/ FinishCommit
            \/ FinishSpatial \/ FinishContext \/ WriteManifest
  <2>1. DiskTypeOK'
    BY <1>15, DiskFrame DEF FinishRejections, FinishRecords, FinishCommit,
       FinishSpatial, FinishContext, WriteManifest, TypeOK
  <2>2. UNCHANGED memory
    BY <1>15 DEF FinishRejections, FinishRecords, FinishCommit,
       FinishSpatial, FinishContext, WriteManifest
  <2>3. QED
    BY <1>a, <2>1, <2>2, TypeFrame DEF memory, TypeOK
<1>16. QED
  BY <1>1, <1>2, <1>3, <1>4, <1>5, <1>6, <1>7, <1>8, <1>9, <1>10, <1>11, <1>12,
     <1>13, <1>14, <1>15 DEF Next

-----------------------------------------------------------------------------
(* The steps in groups *)

(* Steps after which nobody is building, and the steps of finish.           *)
OutsideStep == StartBuild \/ (\E file \in Files : RemoveFile(file)) \/ Fail
FinishStep ==
  \/ BeginFinish
  \/ FinishRejections
  \/ FinishRecords
  \/ FinishFlush
  \/ FinishCommit
  \/ FinishSpatial
  \/ FinishContext
  \/ WriteManifest

(* A step outside a build leaves the memory of the writer alone.            *)
LEMMA OutsideFrame ==
  ASSUME OutsideStep
  PROVE  pc' \notin Building /\ UNCHANGED memory
BY DEF OutsideStep, StartBuild, RemoveFile, Fail, Building, WriteSteps, FinishSteps

(* A step of finish changes neither the tables nor the counters.            *)
LEMMA FinishFrame ==
  ASSUME FinishStep
  PROVE  /\ pc \in {"ready"} \cup FinishSteps
         /\ pc' \in FinishSteps \cup {"published"}
         /\ UNCHANGED <<stage, cur, rows, archiveCount, recordCount, layerCounts,
                        documentCount, spatial, contexts, derived, boundaries,
                        chunks, chunkCount, offsets, rejectionCount>>
BY DEF FinishStep, BeginFinish, FinishRejections, FinishRecords, FinishFlush,
       FinishCommit, FinishSpatial, FinishContext, WriteManifest, FinishSteps, memory

(* The steps, with those outside a build and those of finish grouped.       *)
LEMMA NextCases ==
  ASSUME Next
  PROVE  \/ OutsideStep
         \/ CreateFiles
         \/ \E layer \in Layers, located \in BOOLEAN : BeginRecord(layer, located)
         \/ WriteArchive
         \/ AddDocument
         \/ FlushBatch
         \/ AddSpatial
         \/ \E inferred \in derived \cup {NoId} : AcceptRecord(inferred)
         \/ \E chosen \in [AdminLayers -> DOMAIN boundaries \cup {NoId}] :
              WriteContext(chosen)
         \/ NextStage
         \/ \E hint \in Hints : WriteChunk(hint)
         \/ WriteOffset
         \/ FinishStep
BY DEF Next, OutsideStep, FinishStep

-----------------------------------------------------------------------------
(* The archive is ahead of record_count only while a record is indexed *)

(* The archive stays in step with record_count.                             *)
LEMMA StepRows == TypeOK /\ RowsInv /\ Next => RowsInv'
<1> SUFFICES ASSUME TypeOK, RowsInv, Next PROVE RowsInv'
  OBVIOUS
<1>0. archiveCount \in Nat /\ recordCount \in Nat
  BY DEF TypeOK, ArchiveTypeOK, RecordTypeOK
<1> USE <1>0 DEF Building, WriteSteps, FinishSteps, Indexing
<1>1. CASE OutsideStep
  BY <1>1, OutsideFrame DEF RowsInv, memory
<1>2. CASE CreateFiles
  BY <1>2 DEF RowsInv, CreateFiles
<1>3. CASE \E layer \in Layers, located \in BOOLEAN : BeginRecord(layer, located)
  BY <1>3 DEF RowsInv, BeginRecord
<1>4. CASE WriteArchive
  <2>1. archiveCount = recordCount
    BY <1>4 DEF WriteArchive, RowsInv
  <2>2. rows'[archiveCount] = cur.layer
    BY <1>4, ExtendNew DEF WriteArchive
  <2>3. QED
    BY <1>4, <2>1, <2>2 DEF WriteArchive, RowsInv
<1>5. CASE AddDocument \/ FlushBatch \/ AddSpatial
  BY <1>5 DEF RowsInv, AddDocument, FlushBatch, AddSpatial
<1>6. CASE \E inferred \in derived \cup {NoId} : AcceptRecord(inferred)
  BY <1>6 DEF RowsInv, AcceptRecord
<1>7. CASE \E chosen \in [AdminLayers -> DOMAIN boundaries \cup {NoId}] :
             WriteContext(chosen)
  BY <1>7 DEF RowsInv, WriteContext
<1>8. CASE NextStage \/ WriteOffset \/ \E hint \in Hints : WriteChunk(hint)
  BY <1>8 DEF RowsInv, NextStage, WriteOffset, WriteChunk
<1>9. CASE FinishStep
  BY <1>9, FinishFrame DEF RowsInv
<1>10. QED
  BY <1>1, <1>2, <1>3, <1>4, <1>5, <1>6, <1>7, <1>8, <1>9, NextCases

(* Rows already in the archive are never rewritten by the build.            *)
LEMMA RowsKept ==
  ASSUME TypeOK, Next, ~ CreateFiles, NEW i \in 0..archiveCount - 1
  PROVE  rows'[i] = rows[i] /\ archiveCount' >= archiveCount
<1>0. archiveCount \in Nat
  BY DEF TypeOK, ArchiveTypeOK
<1>1. CASE WriteArchive
  <2>1. rows' = Extend(rows, archiveCount, cur.layer) /\ archiveCount' = archiveCount + 1
    BY <1>1 DEF WriteArchive
  <2>2. Extend(rows, archiveCount, cur.layer)[i] = rows[i]
    BY <1>0, ExtendOld
  <2>3. QED
    BY <1>0, <2>1, <2>2
<1>2. CASE UNCHANGED <<rows, archiveCount>>
  BY <1>0, <1>2
<1>3. CASE OutsideStep
  BY <1>2, <1>3, OutsideFrame DEF memory
<1>4. CASE FinishStep
  BY <1>2, <1>4, FinishFrame
<1>5. CASE ~ OutsideStep /\ ~ FinishStep /\ ~ WriteArchive
  <2>1. UNCHANGED <<rows, archiveCount>>
    BY <1>5, NextCases DEF BeginRecord, AddDocument, FlushBatch, AddSpatial,
       AcceptRecord, WriteContext, NextStage, WriteOffset, WriteChunk
  <2>2. QED
    BY <1>2, <2>1
<1>6. QED
  BY <1>1, <1>3, <1>4, <1>5

-----------------------------------------------------------------------------
(* The text documents, pending ones included, are the first archive rows *)

(* An empty batch has no documents.                                         *)
LEMMA NoDocuments == Documents(<<>>) = {}
BY DEF Documents

(* Adding a document to a batch adds it to the set of documents.            *)
LEMMA AppendedDocuments ==
  ASSUME NEW S, NEW batch \in Seq(S), NEW doc \in S
  PROVE  Documents(Append(batch, doc)) = Documents(batch) \cup {doc}
<1>1. /\ Len(Append(batch, doc)) = Len(batch) + 1
      /\ Len(batch) \in Nat
      /\ \A i \in 1..Len(batch) : Append(batch, doc)[i] = batch[i]
      /\ Append(batch, doc)[Len(batch) + 1] = doc
  OBVIOUS
<1>2. Documents(Append(batch, doc)) \subseteq Documents(batch) \cup {doc}
  BY <1>1 DEF Documents
<1>3. \A i \in 1..Len(batch) : batch[i] \in Documents(Append(batch, doc))
  <2> SUFFICES ASSUME NEW i \in 1..Len(batch)
               PROVE  batch[i] \in Documents(Append(batch, doc))
    OBVIOUS
  <2>1. i \in 1..Len(Append(batch, doc)) /\ Append(batch, doc)[i] = batch[i]
    BY <1>1
  <2>2. QED
    BY <2>1 DEF Documents
<1>4. doc \in Documents(Append(batch, doc))
  <2>1. Len(batch) + 1 \in 1..Len(Append(batch, doc))
    BY <1>1
  <2>2. QED
    BY <1>1, <2>1 DEF Documents
<1>5. QED
  BY <1>2, <1>3, <1>4 DEF Documents

(* The entries of the first n rows of a table.                              *)
FirstRows(table, n) == {Entry(i, table[i]) : i \in 0..n - 1}

(* Rows already written are never rewritten within a build.                 *)
LEMMA FirstRowsKept ==
  ASSUME TypeOK, Next, ~ CreateFiles, NEW n \in Nat, n <= archiveCount
  PROVE  FirstRows(rows', n) = FirstRows(rows, n)
<1>1. \A i \in 0..n - 1 : rows'[i] = rows[i]
  BY RowsKept DEF TypeOK, ArchiveTypeOK
<1>2. QED
  BY <1>1 DEF FirstRows

(* One row more adds one entry.                                             *)
LEMMA FirstRowsExtended ==
  ASSUME NEW table, NEW n \in Nat
  PROVE  FirstRows(table, n + 1) = FirstRows(table, n) \cup {Entry(n, table[n])}
<1>1. 0..(n + 1) - 1 = 0..n - 1 \cup {n}
  OBVIOUS
<1>2. QED
  BY <1>1 DEF FirstRows

(* The text documents stay the first rows of the archive.                   *)
LEMMA StepText == TypeOK /\ RowsInv /\ TextInv /\ Next => TextInv'
<1> SUFFICES ASSUME TypeOK, RowsInv, TextInv, Next PROVE TextInv'
  OBVIOUS
<1>0. /\ archiveCount \in Nat /\ recordCount \in Nat /\ documentCount \in Nat
      /\ pending \in Seq(Entries)
  BY DEF TypeOK, ArchiveTypeOK, RecordTypeOK, TextTypeOK
<1>1. /\ documents \cup Documents(pending) = FirstRows(rows, documentCount)
      /\ documentCount \in {recordCount, recordCount + 1}
      /\ documentCount <= archiveCount
      /\ pc \in Building =>
           (documentCount = recordCount + 1 <=> pc \in Indexing \ {"text"})
      /\ pc \in {"finish_commit", "finish_spatial", "finish_context",
                 "finish_manifest"} => pending = <<>>
  BY DEF TextInv, FirstRows
<1>2. CASE OutsideStep
  <2>1. /\ UNCHANGED <<documents, pending, documentCount, recordCount, archiveCount>>
        /\ UNCHANGED rows
        /\ pc' \notin Building
    BY <1>2, OutsideFrame DEF memory
  <2>2. QED
    BY <1>1, <2>1 DEF TextInv, FirstRows, Building, FinishSteps
<1>3. CASE CreateFiles
  <2>1. /\ documents' = {} /\ pending' = <<>> /\ documentCount' = 0
        /\ recordCount' = 0 /\ archiveCount' = 0 /\ pc' = "ready"
    BY <1>3 DEF CreateFiles
  <2>2. FirstRows(rows', 0) = {}
    BY DEF FirstRows
  <2>3. documents' \cup Documents(pending') = FirstRows(rows', documentCount')
    BY <2>1, <2>2, NoDocuments
  <2>4. QED
    BY <2>1, <2>3 DEF TextInv, FirstRows, Indexing
<1>4. CASE ~ CreateFiles /\ ~ OutsideStep
  <2>1. FirstRows(rows', documentCount) = FirstRows(rows, documentCount)
    BY <1>0, <1>1, <1>4, FirstRowsKept
  <2>2. CASE AddDocument
    <3>1. /\ pc = "text" /\ pc' \in {"flush", "spatial"}
          /\ pending' = Append(pending, Entry(recordCount, cur.layer))
          /\ documentCount' = documentCount + 1
          /\ UNCHANGED <<cur, rows, archiveCount, recordCount, documents>>
      BY <2>2 DEF AddDocument
    <3>2. archiveCount = recordCount + 1 /\ rows[recordCount] = cur.layer
      BY <3>1 DEF RowsInv, Building, WriteSteps, Indexing
    <3>3. documentCount = recordCount
      BY <1>1, <3>1 DEF Building, WriteSteps, Indexing
    <3>4. Entry(recordCount, cur.layer) \in Entries
      BY DEF Entry, Entries, TypeOK, RecordTypeOK, WriterTypeOK
    <3>5. Documents(pending') = Documents(pending) \cup {Entry(recordCount, cur.layer)}
      BY <1>0, <3>1, <3>4, AppendedDocuments
    <3>6. FirstRows(rows', documentCount')
            = FirstRows(rows, documentCount) \cup {Entry(recordCount, cur.layer)}
      BY <1>0, <3>1, <3>2, <3>3, FirstRowsExtended
    <3>7. documents' \cup Documents(pending') = FirstRows(rows', documentCount')
      BY <1>1, <3>1, <3>5, <3>6
    <3>8. /\ documentCount' = recordCount' + 1 /\ documentCount' = archiveCount'
          /\ pc' \in {"flush", "spatial"}
      BY <3>1, <3>2, <3>3
    <3>9. documentCount' <= archiveCount'
      BY <1>0, <3>1, <3>8
    <3>10. QED
      BY <3>7, <3>8, <3>9 DEF TextInv, FirstRows, Indexing
  <2>3. CASE FlushBatch \/ FinishFlush
    <3>1. /\ documents' = documents \cup Documents(pending) /\ pending' = <<>>
          /\ UNCHANGED <<rows, archiveCount, recordCount, documentCount>>
          /\ \/ pc = "flush" /\ pc' = "spatial"
             \/ pc = "finish_flush" /\ pc' = "finish_commit"
      BY <2>3 DEF FlushBatch, FinishFlush
    <3>2. documents' \cup Documents(pending') = FirstRows(rows', documentCount')
      BY <1>1, <3>1, NoDocuments
    <3>3. QED
      BY <1>1, <3>1, <3>2
         DEF TextInv, FirstRows, Building, WriteSteps, FinishSteps, Indexing
  <2>4. CASE ~ AddDocument /\ ~ FlushBatch /\ ~ FinishFlush
    <3>1. UNCHANGED <<documents, pending, documentCount>>
      BY <1>4, <2>4 DEF Next, OutsideStep, BeginRecord, WriteArchive, AddSpatial,
         AcceptRecord, WriteContext, NextStage, WriteChunk, WriteOffset, BeginFinish,
         FinishRejections, FinishRecords, FinishCommit, FinishSpatial,
         FinishContext, WriteManifest, memory
    <3>2. documents' \cup Documents(pending') = FirstRows(rows', documentCount')
      BY <1>1, <2>1, <3>1
    <3>3. /\ documentCount' \in {recordCount', recordCount' + 1}
          /\ documentCount' <= archiveCount'
          /\ pc' \in Building =>
               (documentCount' = recordCount' + 1 <=> pc' \in Indexing \ {"text"})
          /\ pc' \in {"finish_commit", "finish_spatial", "finish_context",
                      "finish_manifest"} => pending' = <<>>
      BY <1>0, <1>1, <1>4, <2>4, <3>1 DEF Next, OutsideStep, BeginRecord,
         WriteArchive, AddSpatial, AcceptRecord, WriteContext, NextStage, WriteChunk,
         WriteOffset, BeginFinish, FinishRejections, FinishRecords, FinishCommit,
         FinishSpatial, FinishContext, WriteManifest, memory, RowsInv, Building,
         WriteSteps, FinishSteps, Indexing
    <3>4. QED
      BY <3>2, <3>3 DEF TextInv, FirstRows
  <2>5. QED
    BY <2>2, <2>3, <2>4
<1>5. QED
  BY <1>2, <1>3, <1>4

-----------------------------------------------------------------------------
(* Spatial entries name archive rows of their layer *)

(* Every spatial entry keeps naming a row of its own layer.                 *)
LEMMA StepSpatial == TypeOK /\ RowsInv /\ SpatialInv /\ Next => SpatialInv'
<1> SUFFICES ASSUME TypeOK, RowsInv, SpatialInv, Next, NEW hit \in spatial'
             PROVE  hit.id < archiveCount' /\ hit.layer = rows'[hit.id]
  BY DEF SpatialInv
<1>0. archiveCount \in Nat /\ recordCount \in Nat /\ spatial \in SUBSET Entries
  BY DEF TypeOK, ArchiveTypeOK, RecordTypeOK, SpatialTypeOK
<1>1. CASE CreateFiles
  BY <1>1 DEF CreateFiles
<1>2. CASE ~ CreateFiles /\ hit \in spatial
  <2>1. hit.id \in Nat /\ hit.id < archiveCount /\ hit.layer = rows[hit.id]
    BY <1>0, <1>2 DEF SpatialInv, Entries
  <2>2. hit.id \in 0..archiveCount - 1
    BY <1>0, <2>1
  <2>3. rows'[hit.id] = rows[hit.id] /\ archiveCount' >= archiveCount
    BY <1>2, <2>2, RowsKept
  <2>4. archiveCount' \in Nat
    BY <1>0, <1>2 DEF Next, StartBuild, RemoveFile, BeginRecord, WriteArchive,
       AddDocument, FlushBatch, AddSpatial, AcceptRecord, WriteContext, NextStage,
       WriteChunk, WriteOffset, BeginFinish, FinishRejections, FinishRecords,
       FinishFlush, FinishCommit, FinishSpatial, FinishContext, WriteManifest,
       Fail, memory
  <2>5. QED
    BY <1>0, <2>1, <2>3, <2>4
<1>3. CASE ~ CreateFiles /\ hit \notin spatial
  <2>1. spatial' # spatial
    BY <1>3
  <2>2. AddSpatial
    BY <1>3, <2>1 DEF Next, StartBuild, RemoveFile, BeginRecord, WriteArchive,
       AddDocument, FlushBatch, AcceptRecord, WriteContext, NextStage,
       WriteChunk, WriteOffset, BeginFinish, FinishRejections, FinishRecords,
       FinishFlush, FinishCommit, FinishSpatial, FinishContext, WriteManifest,
       Fail, memory
  <2>3. /\ hit = Entry(recordCount, cur.layer) /\ pc = "spatial"
        /\ UNCHANGED <<rows, archiveCount>>
    BY <1>3, <2>2 DEF AddSpatial
  <2>4. archiveCount = recordCount + 1 /\ rows[recordCount] = cur.layer
    BY <2>3 DEF RowsInv, Building, WriteSteps, Indexing
  <2>5. QED
    BY <1>0, <2>3, <2>4 DEF Entry
<1>4. QED
  BY <1>1, <1>2, <1>3

-----------------------------------------------------------------------------
(* Derived countries and boundaries are earlier records *)

(* Derived countries and boundaries stay earlier rows of their layer.       *)
LEMMA StepBoundary ==
  TypeOK /\ RowsInv /\ BoundaryInv /\ Next => BoundaryInv'
<1> SUFFICES ASSUME TypeOK, RowsInv, BoundaryInv, Next PROVE BoundaryInv'
  OBVIOUS
<1>0. /\ archiveCount \in Nat /\ recordCount \in Nat
      /\ derived \in SUBSET Nat /\ DOMAIN boundaries \subseteq Nat
      /\ archiveCount \in {recordCount, recordCount + 1}
  BY DEF TypeOK, ArchiveTypeOK, RecordTypeOK, BoundaryTypeOK, RowsInv
<1>1. CASE CreateFiles
  BY <1>1 DEF CreateFiles, BoundaryInv, EmptyTable, WriteSteps
<1>2. CASE ~ CreateFiles /\ UNCHANGED <<recordCount, derived, boundaries>>
  <2>1. \A id \in derived' : id < recordCount' /\ rows'[id] = "country"
    <3> SUFFICES ASSUME NEW id \in derived
                 PROVE  id < recordCount /\ rows'[id] = "country"
      BY <1>2
    <3>1. id \in Nat /\ id < recordCount /\ rows[id] = "country"
      BY <1>0 DEF BoundaryInv
    <3>2. id \in 0..archiveCount - 1
      BY <1>0, <3>1
    <3>3. QED
      BY <1>2, <3>1, <3>2, RowsKept
  <2>2. \A id \in DOMAIN boundaries' :
          id < recordCount' /\ boundaries'[id] \in derived' \cup {NoId}
    BY <1>2 DEF BoundaryInv
  <2>3. /\ stage' = "derived" /\ pc' \in WriteSteps => cur'.layer = "country"
        /\ pc' = "context" => pc = "context"
    BY <1>0, <1>2 DEF Next, StartBuild, RemoveFile, BeginRecord, WriteArchive,
       AddDocument, FlushBatch, AddSpatial, AcceptRecord, WriteContext, NextStage,
       WriteChunk, WriteOffset, BeginFinish, FinishRejections, FinishRecords,
       FinishFlush, FinishCommit, FinishSpatial, FinishContext, WriteManifest,
       Fail, memory, BoundaryInv, WriteSteps, LayersOfStage
  <2>4. QED
    BY <1>2, <2>1, <2>2, <2>3 DEF BoundaryInv
<1>3. ASSUME NEW inferred \in derived \cup {NoId}, AcceptRecord(inferred)
      PROVE  BoundaryInv'
  <2>1. /\ pc = "accept" /\ recordCount' = recordCount + 1
        /\ inferred \in derived \cup {NoId}
        /\ derived' = IF stage = "derived" THEN derived \cup {recordCount} ELSE derived
        /\ boundaries' =
              IF stage = "boundary"
              THEN [id \in DOMAIN boundaries \cup {recordCount} |->
                     IF id = recordCount THEN inferred ELSE boundaries[id]]
              ELSE boundaries
        /\ pc' = IF stage = "emit" THEN "context" ELSE "ready"
        /\ UNCHANGED <<stage, cur, rows, archiveCount>>
    BY <1>3 DEF AcceptRecord
  <2>2. rows[recordCount] = cur.layer
    BY <2>1 DEF RowsInv, Building, WriteSteps, Indexing
  <2>3. stage = "derived" => cur.layer = "country"
    BY <2>1 DEF BoundaryInv, WriteSteps
  <2>4. \A id \in derived' : id < recordCount' /\ rows'[id] = "country"
    BY <1>0, <2>1, <2>2, <2>3 DEF BoundaryInv
  <2>5. \A id \in DOMAIN boundaries' :
          id < recordCount' /\ boundaries'[id] \in derived' \cup {NoId}
    BY <1>0, <2>1 DEF BoundaryInv
  <2>6. pc' = "context" => derived' = derived /\ boundaries' = boundaries
    BY <2>1
  <2>7. recordCount' - 1 = recordCount /\ recordCount' > 0
    BY <1>0, <2>1
  <2>8. recordCount \notin derived \cup DOMAIN boundaries
    BY <1>0 DEF BoundaryInv
  <2>9. pc' \notin WriteSteps \ {"context"} /\ (pc' = "context" => stage' # "derived")
    BY <2>1 DEF WriteSteps
  <2>10. QED
    BY <2>4, <2>5, <2>6, <2>7, <2>8, <2>9 DEF BoundaryInv
<1>4. QED
  <2>1. \/ CreateFiles
        \/ UNCHANGED <<recordCount, derived, boundaries>>
        \/ \E inferred \in derived \cup {NoId} : AcceptRecord(inferred)
    BY DEF Next, StartBuild, RemoveFile, BeginRecord, WriteArchive,
       AddDocument, FlushBatch, AddSpatial, WriteContext, NextStage,
       WriteChunk, WriteOffset, BeginFinish, FinishRejections, FinishRecords,
       FinishFlush, FinishCommit, FinishSpatial, FinishContext, WriteManifest,
       Fail, memory
  <2>2. QED
    BY <1>1, <1>2, <1>3, <2>1

-----------------------------------------------------------------------------
(* Contexts name earlier parents of their slot's layer *)

(* A parent chosen by the boundary index is an earlier record of the layer, *)
(* the region's inferred country included.                                  *)
LEMMA ChosenParents ==
  ASSUME TypeOK, BoundaryInv, NEW chosen \in [AdminLayers -> DOMAIN boundaries \cup {NoId}],
         \A layer \in AdminLayers : chosen[layer] \in Candidates(layer) \cup {NoId},
         NEW layer \in AdminLayers,
         ContextTuple(chosen)[layer] # NoId
  PROVE  LET parent == ContextTuple(chosen)[layer]
         IN /\ parent \in derived \cup DOMAIN boundaries
            /\ rows[parent] = layer
<1>1. CASE ContextTuple(chosen)[layer] = chosen[layer]
  BY <1>1 DEF Candidates
<1>2. CASE ContextTuple(chosen)[layer] # chosen[layer]
  <2>1. /\ layer = "country" /\ chosen["region"] # NoId
        /\ ContextTuple(chosen)[layer] = boundaries[chosen["region"]]
    BY <1>2 DEF ContextTuple
  <2>2. chosen["region"] \in DOMAIN boundaries
    BY <2>1, LayersAssumption
  <2>3. boundaries[chosen["region"]] \in derived
    BY <2>1, <2>2 DEF BoundaryInv
  <2>4. QED
    BY <2>1, <2>3 DEF BoundaryInv
<1>3. QED
  BY <1>1, <1>2

(* Every context keeps naming earlier rows of the right layers.             *)
LEMMA StepContext ==
  TypeOK /\ RowsInv /\ BoundaryInv /\ ContextInv /\ Next => ContextInv'
<1> SUFFICES ASSUME TypeOK, RowsInv, BoundaryInv, ContextInv, Next PROVE ContextInv'
  OBVIOUS
<1>0. /\ archiveCount \in Nat /\ recordCount \in Nat
      /\ derived \in SUBSET Nat /\ DOMAIN boundaries \subseteq Nat
      /\ DOMAIN contexts \subseteq Nat /\ contexts \in [DOMAIN contexts -> Tuples]
      /\ archiveCount \in {recordCount, recordCount + 1}
  BY DEF TypeOK, ArchiveTypeOK, RecordTypeOK, BoundaryTypeOK, ContextTypeOK, RowsInv
<1>1. CASE CreateFiles
  BY <1>1 DEF CreateFiles, ContextInv, EmptyTable
<1>2. ASSUME ~ CreateFiles, NEW id \in DOMAIN contexts,
             contexts'[id] = contexts[id],
             recordCount' \in {recordCount, recordCount + 1}
      PROVE  /\ id < recordCount'
             /\ \A layer \in AdminLayers :
                  contexts'[id][layer] # NoId =>
                    contexts'[id][layer] < id /\ rows'[contexts'[id][layer]] = layer
  <2>1. id < recordCount' /\ id < recordCount /\ id \in Nat
    BY <1>0, <1>2 DEF ContextInv
  <2>2. ASSUME NEW layer \in AdminLayers, contexts[id][layer] # NoId
        PROVE  contexts[id][layer] < id /\ rows'[contexts[id][layer]] = layer
    <3>1. contexts[id][layer] < id /\ rows[contexts[id][layer]] = layer
      BY <2>2 DEF ContextInv
    <3>2. contexts[id][layer] \in Nat
      BY <1>0, <2>2 DEF Tuples
    <3>3. contexts[id][layer] \in 0..archiveCount - 1
      BY <1>0, <2>1, <3>1, <3>2
    <3>4. QED
      BY <1>2, <3>1, <3>3, RowsKept
  <2>3. QED
    BY <1>2, <2>1, <2>2
<1>3. CASE ~ CreateFiles /\ UNCHANGED contexts
  <2>1. recordCount' \in {recordCount, recordCount + 1}
    BY <1>3 DEF Next, StartBuild, RemoveFile, BeginRecord, WriteArchive,
       AddDocument, FlushBatch, AddSpatial, AcceptRecord, WriteContext, NextStage,
       WriteChunk, WriteOffset, BeginFinish, FinishRejections, FinishRecords,
       FinishFlush, FinishCommit, FinishSpatial, FinishContext, WriteManifest,
       Fail, memory
  <2>2. QED
    BY <1>2, <1>3, <2>1 DEF ContextInv
<1>4. ASSUME NEW chosen \in [AdminLayers -> DOMAIN boundaries \cup {NoId}],
             WriteContext(chosen), contexts' # contexts
      PROVE  ContextInv'
  <2> DEFINE new   == recordCount - 1
             tuple == ContextTuple(chosen)
  <2>1. /\ pc = "context"
        /\ \A layer \in AdminLayers : chosen[layer] \in Candidates(layer) \cup {NoId}
        /\ contexts' = [i \in DOMAIN contexts \cup {new} |->
                          IF i = new THEN tuple ELSE contexts[i]]
        /\ new \notin DOMAIN contexts
        /\ UNCHANGED <<rows, archiveCount, recordCount>>
    BY <1>4 DEF WriteContext
  <2>2. ~ CreateFiles
    BY <2>1 DEF CreateFiles
  <2>3. new \in Nat /\ new < recordCount /\ new \notin derived \cup DOMAIN boundaries
    BY <1>0, <2>1 DEF BoundaryInv
  <2> HIDE DEF new, tuple
  <2>4. ASSUME NEW layer \in AdminLayers, tuple[layer] # NoId
        PROVE  tuple[layer] < new /\ rows[tuple[layer]] = layer
    <3>1. /\ tuple[layer] \in derived \cup DOMAIN boundaries
          /\ rows[tuple[layer]] = layer
      BY <2>1, <2>4, ChosenParents DEF tuple
    <3>2. tuple[layer] \in Nat /\ tuple[layer] < recordCount
      BY <1>0, <3>1 DEF BoundaryInv
    <3>3. tuple[layer] # new
      BY <2>3, <3>1
    <3>4. QED
      BY <1>0, <2>3, <3>1, <3>2, <3>3 DEF new
  <2>5. \A id \in DOMAIN contexts : contexts'[id] = contexts[id]
    BY <2>1
  <2>6. contexts'[new] = tuple /\ DOMAIN contexts' = DOMAIN contexts \cup {new}
    BY <2>1
  <2>7. QED
    BY <1>2, <2>1, <2>2, <2>3, <2>4, <2>5, <2>6 DEF ContextInv
<1>5. QED
  <2>1. \/ CreateFiles
        \/ UNCHANGED contexts
        \/ \E chosen \in [AdminLayers -> DOMAIN boundaries \cup {NoId}] :
             WriteContext(chosen)
    BY DEF Next, StartBuild, RemoveFile, BeginRecord, WriteArchive,
       AddDocument, FlushBatch, AddSpatial, AcceptRecord, NextStage,
       WriteChunk, WriteOffset, BeginFinish, FinishRejections, FinishRecords,
       FinishFlush, FinishCommit, FinishSpatial, FinishContext, WriteManifest,
       Fail, memory
  <2>2. QED
    BY <1>1, <1>3, <1>4, <2>1

-----------------------------------------------------------------------------
(* Rejection rows and chunks are numbered alike *)

(* Offsets and chunks of rejections stay in step.                           *)
LEMMA StepRejection == TypeOK /\ RejectionInv /\ Next => RejectionInv'
<1> SUFFICES ASSUME TypeOK, RejectionInv, Next PROVE RejectionInv'
  OBVIOUS
<1>0. /\ chunkCount \in Nat /\ rejectionCount \in Nat
      /\ chunkCount \in {rejectionCount, rejectionCount + 1}
  BY DEF TypeOK, RejectionTypeOK, RejectionInv
<1>1. CASE CreateFiles
  BY <1>1 DEF CreateFiles, RejectionInv
<1>2. ASSUME NEW hint \in Hints, WriteChunk(hint) PROVE RejectionInv'
  <2>1. /\ pc = "ready" /\ pc' = "reject_offset"
        /\ chunks' = Extend(chunks, chunkCount, hint)
        /\ chunkCount' = chunkCount + 1
        /\ UNCHANGED <<offsets, rejectionCount>>
    BY <1>2 DEF WriteChunk
  <2>2. chunkCount = rejectionCount
    BY <1>0, <2>1 DEF RejectionInv, Building
  <2>3. \A row \in 0..rejectionCount - 1 : Extend(chunks, chunkCount, hint)[row] = chunks[row]
    BY <1>0, <2>2, ExtendOld
  <2>4. QED
    BY <1>0, <2>1, <2>2, <2>3 DEF RejectionInv
<1>3. CASE WriteOffset
  <2> DEFINE entry == [chunk |-> chunkCount - 1, hint |-> chunks[chunkCount - 1]]
  <2>1. /\ pc = "reject_offset" /\ pc' = "ready"
        /\ offsets' = Extend(offsets, rejectionCount, entry)
        /\ rejectionCount' = rejectionCount + 1
        /\ UNCHANGED <<chunks, chunkCount>>
    BY <1>3 DEF WriteOffset
  <2>2. chunkCount = rejectionCount + 1
    BY <1>0, <2>1 DEF RejectionInv, Building, WriteSteps
  <2>3. entry = [chunk |-> rejectionCount, hint |-> chunks[rejectionCount]]
    BY <1>0, <2>2
  <2> HIDE DEF entry
  <2>4. \A row \in 0..rejectionCount - 1 :
          Extend(offsets, rejectionCount, entry)[row] = offsets[row]
    BY <1>0, ExtendOld
  <2>5. Extend(offsets, rejectionCount, entry)[rejectionCount] = entry
    BY <1>0, ExtendNew
  <2>6. \A row \in 0..rejectionCount' - 1 :
          offsets'[row] = [chunk |-> row, hint |-> chunks'[row]]
    <3> SUFFICES ASSUME NEW row \in 0..rejectionCount' - 1
                 PROVE  offsets'[row] = [chunk |-> row, hint |-> chunks[row]]
      BY <2>1
    <3>1. CASE row = rejectionCount
      BY <2>1, <2>3, <2>5, <3>1
    <3>2. CASE row # rejectionCount
      <4>1. row \in 0..rejectionCount - 1
        BY <1>0, <2>1, <3>2
      <4>2. offsets'[row] = offsets[row]
        BY <2>1, <2>4, <4>1
      <4>3. QED
        BY <4>1, <4>2 DEF RejectionInv
    <3>3. QED
      BY <3>1, <3>2
  <2>7. QED
    BY <1>0, <2>1, <2>2, <2>6 DEF RejectionInv
<1>4. CASE UNCHANGED <<chunks, chunkCount, offsets, rejectionCount>>
           /\ (pc' \in Building => pc \in Building \ {"reject_offset"}
                                   /\ pc' # "reject_offset")
  BY <1>0, <1>4 DEF RejectionInv
<1>5. QED
  <2>1. \/ CreateFiles \/ WriteOffset
        \/ \E hint \in Hints : WriteChunk(hint)
        \/ UNCHANGED <<chunks, chunkCount, offsets, rejectionCount>>
           /\ (pc' \in Building => pc \in Building \ {"reject_offset"}
                                   /\ pc' # "reject_offset")
    BY DEF Next, StartBuild, RemoveFile, BeginRecord, WriteArchive,
       AddDocument, FlushBatch, AddSpatial, AcceptRecord, WriteContext, NextStage,
       BeginFinish, FinishRejections, FinishRecords,
       FinishFlush, FinishCommit, FinishSpatial, FinishContext, WriteManifest,
       Fail, memory, Building, WriteSteps, FinishSteps
  <2>2. QED
    BY <1>1, <1>2, <1>3, <1>4, <2>1

-----------------------------------------------------------------------------
(* layer_counts counts the rows up to record_count *)

RowsOfLayer(table, n, layer) == {i \in 0..n - 1 : table[i] = layer}

(* The rows of a layer can be counted.                                      *)
LEMMA RowsOfLayerFinite ==
  ASSUME NEW table, NEW n \in Nat, NEW layer
  PROVE  IsFiniteSet(RowsOfLayer(table, n, layer))
<1>1. IsFiniteSet(0..n - 1)
  BY FS_Interval
<1>2. RowsOfLayer(table, n, layer) \subseteq 0..n - 1
  BY DEF RowsOfLayer
<1>3. QED
  BY <1>1, <1>2, FS_Subset

(* One more row adds one to the count of its own layer and to no other.     *)
LEMMA CountOneMore ==
  ASSUME NEW table, NEW n \in Nat, NEW layer
  PROVE  Cardinality(RowsOfLayer(table, n + 1, layer))
           = IF table[n] = layer THEN Cardinality(RowsOfLayer(table, n, layer)) + 1
                                 ELSE Cardinality(RowsOfLayer(table, n, layer))
<1>1. 0..(n + 1) - 1 = 0..n - 1 \cup {n} /\ n \notin 0..n - 1
  OBVIOUS
<1>2. CASE table[n] = layer
  <2>1. RowsOfLayer(table, n + 1, layer) = RowsOfLayer(table, n, layer) \cup {n}
    BY <1>1, <1>2 DEF RowsOfLayer
  <2>2. n \notin RowsOfLayer(table, n, layer)
    BY <1>1 DEF RowsOfLayer
  <2>3. QED
    BY <1>2, <2>1, <2>2, RowsOfLayerFinite, FS_AddElement
<1>3. CASE table[n] # layer
  <2>1. RowsOfLayer(table, n + 1, layer) = RowsOfLayer(table, n, layer)
    BY <1>1, <1>3 DEF RowsOfLayer
  <2>2. QED
    BY <1>3, <2>1
<1>4. QED
  BY <1>2, <1>3

(* layer_counts keeps counting the rows of each layer.                      *)
LEMMA StepCounts == TypeOK /\ RowsInv /\ CountsInv /\ Next => CountsInv'
<1> SUFFICES ASSUME TypeOK, RowsInv, CountsInv, Next, NEW layer \in Layers
             PROVE  layerCounts'[layer]
                      = Cardinality(RowsOfLayer(rows', recordCount', layer))
  BY DEF CountsInv, RowsOfLayer
<1>0. /\ archiveCount \in Nat /\ recordCount \in Nat
      /\ archiveCount \in {recordCount, recordCount + 1}
      /\ layerCounts \in [Layers -> Nat]
      /\ layerCounts[layer] = Cardinality(RowsOfLayer(rows, recordCount, layer))
  BY DEF TypeOK, ArchiveTypeOK, RecordTypeOK, RowsInv, CountsInv, RowsOfLayer
<1>1. CASE CreateFiles
  <2>1. /\ layerCounts'[layer] = 0 /\ recordCount' = 0
    BY <1>1 DEF CreateFiles
  <2>2. RowsOfLayer(rows', recordCount', layer) = {}
    BY <2>1 DEF RowsOfLayer
  <2>3. QED
    BY <2>1, <2>2, FS_EmptySet
<1>2. ASSUME ~ CreateFiles
      PROVE  RowsOfLayer(rows', recordCount, layer) = RowsOfLayer(rows, recordCount, layer)
  <2>1. \A i \in 0..recordCount - 1 : rows'[i] = rows[i]
    BY <1>0, <1>2, RowsKept
  <2>2. QED
    BY <2>1 DEF RowsOfLayer
<1>3. CASE ~ CreateFiles /\ UNCHANGED <<recordCount, layerCounts>>
  BY <1>0, <1>2, <1>3
<1>4. ASSUME NEW inferred \in derived \cup {NoId}, AcceptRecord(inferred)
      PROVE  layerCounts'[layer] = Cardinality(RowsOfLayer(rows', recordCount', layer))
  <2>1. /\ pc = "accept" /\ recordCount' = recordCount + 1 /\ rows' = rows
        /\ layerCounts' = [layerCounts EXCEPT ![cur.layer] = @ + 1]
    BY <1>4 DEF AcceptRecord
  <2>2. rows[recordCount] = cur.layer
    BY <2>1 DEF RowsInv, Building, WriteSteps, Indexing
  <2>3. layerCounts'[layer] = IF layer = cur.layer THEN layerCounts[layer] + 1
                                                   ELSE layerCounts[layer]
    BY <1>0, <2>1
  <2>4. QED
    BY <1>0, <2>1, <2>2, <2>3, CountOneMore
<1>5. QED
  <2>1. \/ CreateFiles
        \/ UNCHANGED <<recordCount, layerCounts>>
        \/ \E inferred \in derived \cup {NoId} : AcceptRecord(inferred)
    BY DEF Next, StartBuild, RemoveFile, BeginRecord, WriteArchive,
       AddDocument, FlushBatch, AddSpatial, WriteContext, NextStage,
       WriteChunk, WriteOffset, BeginFinish, FinishRejections, FinishRecords,
       FinishFlush, FinishCommit, FinishSpatial, FinishContext, WriteManifest,
       Fail, memory
  <2>2. QED
    BY <1>1, <1>3, <1>4, <2>1

-----------------------------------------------------------------------------
(* The files of a published pack are what the writer had in memory *)

(* What finish writes only depends on the writer's memory.                  *)
LEMMA FinalFrame ==
  UNCHANGED <<rows, archiveCount, recordCount, layerCounts, documents,
              documentCount, spatial, contexts, chunks, chunkCount, offsets,
              rejectionCount>> => Final' = Final
BY DEF Final

(* A finish step writes one file, with what is in memory.                   *)
Writes(file) ==
  /\ disk' = [disk EXCEPT ![file] = Final[file]]
  /\ UNCHANGED memory

(* The files keep holding what finish wrote, or go.                         *)
LEMMA StepDisk ==
  TypeOK /\ RowsInv /\ TextInv /\ RejectionInv /\ DiskInv /\ Next => DiskInv'
<1> SUFFICES ASSUME TypeOK, RowsInv, TextInv, RejectionInv, DiskInv, Next
             PROVE  DiskInv'
  OBVIOUS
<1>0. disk = [file \in Files |-> disk[file]]
  BY DEF TypeOK, DiskTypeOK
<1>1. CASE OutsideStep
  <2>1. /\ pc' \notin Building /\ UNCHANGED memory
        /\ \/ disk' = disk
           \/ \E file \in Files : disk' = [disk EXCEPT ![file] = Missing]
    BY <1>1, OutsideFrame DEF OutsideStep, StartBuild, RemoveFile, Fail
  <2>2. Final' = Final /\ Settled' = Settled
    BY <2>1 DEF memory, Final, Settled
  <2>3. \A file \in Files : disk'[file] \in {disk[file], Missing}
    BY <1>0, <2>1
  <2>4. disk'["manifest"] # Missing => disk["manifest"] # Missing
    BY <2>3 DEF Files
  <2>5. disk'["manifest"] # Missing =>
          Settled' /\ \A file \in Files : disk'[file] \in {Missing, Final'[file]}
    BY <2>2, <2>3, <2>4 DEF DiskInv
  <2>6. \A file \in Files : ~ Filled(file)'
    BY <2>1 DEF Filled, Building, FinishSteps
  <2>7. QED
    BY <2>1, <2>5, <2>6 DEF DiskInv
<1>2. CASE CreateFiles
  <2>1. disk'["manifest"] = Missing /\ pc' = "ready"
    BY <1>2 DEF CreateFiles, EmptyDisk, Files
  <2>2. \A file \in Files : ~ Filled(file)'
    BY <2>1 DEF Filled, FinishSteps
  <2>3. QED
    BY <2>1, <2>2 DEF DiskInv
<1>3. CASE ~ CreateFiles /\ ~ OutsideStep /\ ~ FinishStep
  <2>1. UNCHANGED disk /\ pc \in Building /\ pc' \in Building \ FinishSteps
    BY <1>3 DEF Next, OutsideStep, FinishStep, BeginRecord, WriteArchive,
       AddDocument, FlushBatch, AddSpatial, AcceptRecord, WriteContext, NextStage,
       WriteChunk, WriteOffset, Building, WriteSteps, FinishSteps
  <2>2. \A file \in Files : ~ Filled(file)'
    BY <2>1 DEF Filled, FinishSteps
  <2>3. QED
    BY <2>1, <2>2 DEF DiskInv
<1>4. CASE BeginFinish
  <2>1. /\ pc = "ready" /\ pc' = "finish_rejections" /\ UNCHANGED disk
    BY <1>4 DEF BeginFinish
  <2>2. \A file \in Files : ~ Filled(file)'
    BY <2>1 DEF Filled, FinishSteps
  <2>3. QED
    BY <2>1, <2>2 DEF DiskInv, Building
<1>5. CASE FinishFlush
  <2>1. /\ pc = "finish_flush" /\ pc' = "finish_commit" /\ UNCHANGED disk
        /\ UNCHANGED <<rows, archiveCount, recordCount, layerCounts, documentCount,
                       spatial, contexts, chunks, chunkCount, offsets,
                       rejectionCount>>
    BY <1>5 DEF FinishFlush
  <2>2. disk["manifest"] = Missing
    BY <2>1 DEF DiskInv, Building, FinishSteps
  <2>3. \A file \in Files : Filled(file)' => file \in {"rejections", "records"} /\ Filled(file)
    BY <2>1 DEF Filled, FinishSteps
  <2>4. \A file \in {"rejections", "records"} : Final'[file] = Final[file]
    BY <2>1 DEF Final
  <2>5. QED
    BY <2>1, <2>2, <2>3, <2>4 DEF DiskInv
<1>6. ASSUME NEW file \in Files \ {"manifest"}, Writes(file),
             pc \in Building, pc' \in Building,
             \A other \in Files : Filled(other)' => Filled(other) \/ other = file
      PROVE  DiskInv'
  <2>1. Final' = Final
    BY <1>6 DEF Writes, memory, Final
  <2>2. /\ disk'[file] = Final[file]
        /\ \A other \in Files \ {file} : disk'[other] = disk[other]
    BY <1>0, <1>6 DEF Writes
  <2>3. disk'["manifest"] = Missing
    BY <1>6, <2>2 DEF DiskInv, Files
  <2>4. \A other \in Files : Filled(other)' => disk'[other] = Final'[other]
    BY <1>6, <2>1, <2>2 DEF DiskInv
  <2>5. QED
    BY <2>3, <2>4 DEF DiskInv
<1>7. CASE FinishRejections
  <2>1. Writes("rejections") /\ pc = "finish_rejections" /\ pc' = "finish_records"
    BY <1>7 DEF FinishRejections, Writes, Final
  <2>2. \A other \in Files : Filled(other)' => Filled(other) \/ other = "rejections"
    BY <2>1 DEF Filled, FinishSteps
  <2>3. QED
    BY <1>6, <2>1, <2>2 DEF Building, FinishSteps, Files
<1>8. CASE FinishRecords
  <2>1. Writes("records") /\ pc = "finish_records" /\ pc' = "finish_flush"
    BY <1>8 DEF FinishRecords, Writes, Final
  <2>2. \A other \in Files : Filled(other)' => Filled(other) \/ other = "records"
    BY <2>1 DEF Filled, FinishSteps
  <2>3. QED
    BY <1>6, <2>1, <2>2 DEF Building, FinishSteps, Files
<1>9. CASE FinishCommit
  <2>1. Writes("text") /\ pc = "finish_commit" /\ pc' = "finish_spatial"
    BY <1>9 DEF FinishCommit, Writes, Final
  <2>2. \A other \in Files : Filled(other)' => Filled(other) \/ other = "text"
    BY <2>1 DEF Filled, FinishSteps
  <2>3. QED
    BY <1>6, <2>1, <2>2 DEF Building, FinishSteps, Files
<1>10. CASE FinishSpatial
  <2>1. Writes("spatial") /\ pc = "finish_spatial" /\ pc' = "finish_context"
    BY <1>10 DEF FinishSpatial, Writes, Final
  <2>2. \A other \in Files : Filled(other)' => Filled(other) \/ other = "spatial"
    BY <2>1 DEF Filled, FinishSteps
  <2>3. QED
    BY <1>6, <2>1, <2>2 DEF Building, FinishSteps, Files
<1>11. CASE FinishContext
  <2>1. Writes("context") /\ pc = "finish_context" /\ pc' = "finish_manifest"
    BY <1>11 DEF FinishContext, Writes, Final
  <2>2. \A other \in Files : Filled(other)' => Filled(other) \/ other = "context"
    BY <2>1 DEF Filled, FinishSteps
  <2>3. QED
    BY <1>6, <2>1, <2>2 DEF Building, FinishSteps, Files
<1>12. CASE WriteManifest
  <2>1. Writes("manifest") /\ pc = "finish_manifest" /\ pc' = "published"
    BY <1>12 DEF WriteManifest, Writes, Final
  <2>2. Settled
    BY <2>1 DEF Settled, RowsInv, TextInv, RejectionInv, Building, FinishSteps, Indexing
  <2>3. Final' = Final /\ Settled' = Settled
    BY <2>1 DEF Writes, memory, Final, Settled
  <2>4. \A file \in Files \ {"manifest"} : disk[file] = Final[file]
    BY <2>1 DEF DiskInv, Filled, FinishSteps, Files
  <2>5. \A file \in Files : disk'[file] = Final[file]
    BY <1>0, <2>1, <2>4 DEF Writes
  <2>6. \A file \in Files : ~ Filled(file)'
    BY <2>1 DEF Filled, FinishSteps
  <2>7. QED
    BY <2>1, <2>2, <2>3, <2>5, <2>6 DEF DiskInv, Building, WriteSteps, FinishSteps
<1>13. QED
  BY <1>1, <1>2, <1>3, <1>4, <1>5, <1>7, <1>8, <1>9, <1>10, <1>11, <1>12
     DEF FinishStep

-----------------------------------------------------------------------------
(* The invariant *)

(* The numberings agree before the first build.                             *)
LEMMA InitAgrees == Init => NumberingsAgree
<1> SUFFICES ASSUME Init PROVE NumberingsAgree
  OBVIOUS
<1>1. TypeOK
  BY InitTypeOK
<1>2. RowsInv /\ RejectionInv /\ SpatialInv
  BY DEF Init, RowsInv, RejectionInv, SpatialInv, Building, WriteSteps, FinishSteps
<1>3. TextInv
  <2>1. Documents(<<>>) = {} /\ {Entry(i, rows[i]) : i \in 0..0 - 1} = {}
    BY NoDocuments
  <2>2. QED
    BY <2>1 DEF Init, TextInv, Building, WriteSteps, FinishSteps
<1>4. BoundaryInv /\ ContextInv
  BY DEF Init, BoundaryInv, ContextInv, EmptyTable, WriteSteps
<1>5. CountsInv
  <2>1. \A layer \in Layers : {i \in 0..0 - 1 : rows[i] = layer} = {}
    OBVIOUS
  <2>2. QED
    BY <2>1, FS_EmptySet DEF Init, CountsInv
<1>6. DiskInv
  BY DEF Init, DiskInv, Filled, EmptyDisk, Files, Building, WriteSteps, FinishSteps
<1>7. QED
  BY <1>1, <1>2, <1>3, <1>4, <1>5, <1>6 DEF NumberingsAgree

(* Every step keeps the numberings in agreement.                            *)
LEMMA StepAgrees == NumberingsAgree /\ [Next]_vars => NumberingsAgree'
<1> SUFFICES ASSUME NumberingsAgree, [Next]_vars PROVE NumberingsAgree'
  OBVIOUS
<1>1. CASE Next
  <2>1. Positions
    BY DEF NumberingsAgree, Positions, BoundaryInv, RejectionInv, TypeOK,
       RejectionTypeOK, Building, WriteSteps
  <2>2. TypeOK'
    BY <1>1, <2>1, StepTypeOK DEF NumberingsAgree
  <2>3. RowsInv' /\ TextInv' /\ SpatialInv' /\ BoundaryInv'
    BY <1>1, StepRows, StepText, StepSpatial, StepBoundary DEF NumberingsAgree
  <2>4. ContextInv' /\ RejectionInv' /\ CountsInv' /\ DiskInv'
    BY <1>1, StepContext, StepRejection, StepCounts, StepDisk DEF NumberingsAgree
  <2>5. QED
    BY <2>2, <2>3, <2>4 DEF NumberingsAgree
<1>2. CASE UNCHANGED vars
  <2>1. TypeOK'
    <3>1. WriterTypeOK'
      BY <1>2 DEF vars, NumberingsAgree, TypeOK, WriterTypeOK
    <3>2. QED
      BY <1>2, <3>1, TypeFrame DEF vars, NumberingsAgree, TypeOK
  <2>2. RowsInv' /\ TextInv' /\ SpatialInv'
    BY <1>2 DEF vars, NumberingsAgree, RowsInv, TextInv, SpatialInv
  <2>3. BoundaryInv' /\ ContextInv'
    BY <1>2 DEF vars, NumberingsAgree, BoundaryInv, ContextInv
  <2>4. RejectionInv' /\ CountsInv'
    BY <1>2 DEF vars, NumberingsAgree, RejectionInv, CountsInv
  <2>5. DiskInv'
    <3>1. Final' = Final /\ Settled' = Settled /\ disk' = disk /\ pc' = pc
      BY <1>2 DEF vars, Final, Settled
    <3>2. \A file \in Files : Filled(file)' <=> Filled(file)
      BY <3>1 DEF Filled
    <3>3. QED
      BY <3>1, <3>2 DEF NumberingsAgree, DiskInv
  <2>6. QED
    BY <2>1, <2>2, <2>3, <2>4, <2>5 DEF NumberingsAgree
<1>3. QED
  BY <1>1, <1>2

(* In every behaviour of the writer, failed builds included, its counters   *)
(* and tables number the records alike and the files of a published pack    *)
(* hold what was in memory when its manifest was written.                   *)
THEOREM NumberingsAgreeAlways == Spec => []NumberingsAgree
BY InitAgrees, StepAgrees, PTL DEF Spec

(* Every variable keeps its type.                                           *)
THEOREM TypeCorrect == Spec => []TypeOK
<1>1. NumberingsAgree => TypeOK
  BY DEF NumberingsAgree
<1>2. QED
  BY <1>1, NumberingsAgreeAlways, PTL

-----------------------------------------------------------------------------
(* The promises to readers *)

(* What a reader who opens the pack finds in each file.                     *)
LEMMA Published ==
  ASSUME NumberingsAgree, disk["manifest"] # Missing
  PROVE  /\ Settled
         /\ disk["manifest"] = Final["manifest"]
         /\ disk["records"] # Missing => disk["records"] = Final["records"]
         /\ disk["text"] # Missing => disk["text"] = documents
         /\ disk["spatial"] # Missing => disk["spatial"] = spatial
         /\ disk["context"] # Missing => disk["context"] = contexts
         /\ disk["rejections"] # Missing => disk["rejections"] = Final["rejections"]
BY DEF NumberingsAgree, DiskInv, Files, Final

(* A pack that opens holds the settled memory of the build that wrote it.   *)
LEMMA OpenedRecords ==
  ASSUME NumberingsAgree, PackOpens
  PROVE  /\ Settled
         /\ disk["records"].count = recordCount
         /\ disk["records"].rows = rows
         /\ disk["manifest"].layerCounts = layerCounts
         /\ disk["context"] = contexts
         /\ recordCount \in Nat
BY Published DEF PackOpens, Final, Settled, NumberingsAgree, TypeOK, RecordTypeOK

(* A record id found in the text index resolves, in any directory the       *)
(* searcher opens, to a row of the layer it was filed under, and every row  *)
(* is found (TantivyTextIndexWriter, PackTextSearcher::hydrate_top_docs).   *)
THEOREM SearchHitsCorrect == Spec => []SearchHitsNameTheirRecord
<1>1. NumberingsAgree => SearchHitsNameTheirRecord
  <2> SUFFICES ASSUME NumberingsAgree, SearcherOpens
               PROVE  /\ \A doc \in disk["text"] : IsRow(doc.id, doc.layer)
                      /\ \A id \in 0..disk["records"].count - 1 :
                           \E doc \in disk["text"] : doc.id = id
    BY DEF SearchHitsNameTheirRecord
  <2>1. disk["text"] = documents
    BY Published DEF SearcherOpens, PackOpens
  <2>2. documents = {Entry(i, rows[i]) : i \in 0..recordCount - 1}
    <3>1. documents \cup Documents(<<>>) = {Entry(i, rows[i]) : i \in 0..recordCount - 1}
      BY OpenedRecords DEF SearcherOpens, Settled, NumberingsAgree, TextInv
    <3>2. QED
      BY <3>1, NoDocuments
  <2>3. \A i : Entry(i, rows[i]).id = i /\ Entry(i, rows[i]).layer = rows[i]
    BY DEF Entry
  <2>4. QED
    BY <2>1, <2>2, <2>3, OpenedRecords DEF SearcherOpens, IsRow
<1>2. QED
  BY <1>1, NumberingsAgreeAlways, PTL

(* The reverse geocoder decodes the row a spatial entry names as the layer  *)
(* it searched (PackSpatialIndexWriter, PackReverseGeocoder).               *)
THEOREM SpatialHitsCorrect == Spec => []SpatialHitsNameTheirRecord
<1>1. NumberingsAgree => SpatialHitsNameTheirRecord
  <2> SUFFICES ASSUME NumberingsAgree, ReverseOpens, NEW hit \in disk["spatial"]
               PROVE  IsRow(hit.id, hit.layer)
    BY DEF SpatialHitsNameTheirRecord
  <2>1. hit \in spatial
    BY Published DEF ReverseOpens, PackOpens
  <2>2. hit.id \in Nat
    BY <2>1 DEF NumberingsAgree, TypeOK, SpatialTypeOK, Entries
  <2>3. hit.id < recordCount /\ hit.layer = rows[hit.id]
    BY <2>1, OpenedRecords DEF ReverseOpens, Settled, NumberingsAgree, SpatialInv
  <2>4. QED
    BY <2>2, <2>3, OpenedRecords DEF ReverseOpens, IsRow
<1>2. QED
  BY <1>1, NumberingsAgreeAlways, PTL

(* Both indices of a published pack lead to the rows they were built from. *)
THEOREM HitsCorrect == Spec => []HitsNameTheirRecord
BY SearchHitsCorrect, SpatialHitsCorrect, PTL DEF HitsNameTheirRecord

(* A context's parents are earlier records of their slot's layer, so that   *)
(* following parents ends (BoundaryContextRecordWriter, PackContextWriter). *)
THEOREM ContextsCorrect == Spec => []ContextNamesEarlierParents
<1>1. NumberingsAgree => ContextNamesEarlierParents
  <2> SUFFICES ASSUME NumberingsAgree, PackOpens, NEW id \in DOMAIN disk["context"]
               PROVE  /\ id \in 0..disk["records"].count - 1
                      /\ \A layer \in AdminLayers :
                           LET parent == disk["context"][id][layer]
                           IN parent # NoId => IsRow(parent, layer) /\ parent < id
    BY DEF ContextNamesEarlierParents
  <2>1. id \in DOMAIN contexts /\ disk["context"] = contexts
    BY OpenedRecords
  <2>2. id \in Nat /\ id < recordCount /\ recordCount \in Nat
    BY <2>1, OpenedRecords DEF NumberingsAgree, ContextInv, TypeOK, ContextTypeOK
  <2>3. ASSUME NEW layer \in AdminLayers, contexts[id][layer] # NoId
        PROVE  IsRow(contexts[id][layer], layer) /\ contexts[id][layer] < id
    <3>1. contexts[id][layer] < id /\ rows[contexts[id][layer]] = layer
      BY <2>1, <2>3 DEF NumberingsAgree, ContextInv
    <3>2. contexts[id][layer] \in Nat
      BY <2>1, <2>3 DEF NumberingsAgree, TypeOK, ContextTypeOK, Tuples
    <3>3. contexts[id][layer] \in 0..recordCount - 1
      BY <2>2, <3>1, <3>2
    <3>4. QED
      BY <3>1, <3>3, OpenedRecords DEF IsRow
  <2>4. QED
    BY <2>1, <2>2, <2>3, OpenedRecords
<1>2. QED
  BY <1>1, NumberingsAgreeAlways, PTL

(* Every announced rejection row has an offset entry, and it names that     *)
(* rejection's own chunk (write_rejection, read_rejection).                 *)
THEOREM RejectionsCorrect == Spec => []RejectionRowsReadable
<1>1. NumberingsAgree => RejectionRowsReadable
  <2> SUFFICES ASSUME NumberingsAgree, disk["manifest"] # Missing,
                      disk["rejections"] # Missing
               PROVE  RejectionRowsReadable
    BY DEF RejectionRowsReadable
  <2>1. /\ disk["rejections"].count = rejectionCount
        /\ disk["rejections"].offsets = offsets
        /\ disk["rejections"].chunks = chunks
        /\ disk["manifest"].rejections = rejectionCount
        /\ chunkCount = rejectionCount
    <3>1. Final["rejections"] = [count |-> rejectionCount, offsets |-> offsets,
                                 chunks |-> chunks]
      BY DEF Final
    <3>2. Final["manifest"].rejections = rejectionCount
      BY DEF Final
    <3>3. QED
      BY <3>1, <3>2, Published DEF Settled
  <2>2. \A row \in 0..rejectionCount - 1 :
          /\ row \in DOMAIN chunks
          /\ offsets[row] = [chunk |-> row, hint |-> chunks[row]]
    <3>1. DOMAIN chunks = 0..rejectionCount - 1
      BY <2>1 DEF NumberingsAgree, TypeOK, RejectionTypeOK
    <3>2. QED
      BY <3>1 DEF NumberingsAgree, RejectionInv
  <2>3. \A row \in 0..rejectionCount - 1 :
          offsets[row].chunk = row /\ offsets[row].hint = chunks[row]
    <3> SUFFICES ASSUME NEW row \in 0..rejectionCount - 1
                 PROVE  offsets[row].chunk = row /\ offsets[row].hint = chunks[row]
      OBVIOUS
    <3>1. offsets[row] = [chunk |-> row, hint |-> chunks[row]]
      BY <2>2
    <3>2. QED
      BY <3>1
  <2>4. ASSUME NEW table, table.count = rejectionCount, table.offsets = offsets,
               table.chunks = chunks
        PROVE  \A row \in 0..table.count - 1 :
                 /\ table.offsets[row].chunk \in DOMAIN table.chunks
                 /\ table.chunks[table.offsets[row].chunk] = table.offsets[row].hint
    <3> SUFFICES ASSUME NEW row \in 0..rejectionCount - 1
                 PROVE  /\ offsets[row].chunk \in DOMAIN chunks
                        /\ chunks[offsets[row].chunk] = offsets[row].hint
      BY <2>4
    <3>1. /\ row \in DOMAIN chunks
          /\ offsets[row].chunk = row /\ offsets[row].hint = chunks[row]
      BY <2>2, <2>3
    <3>2. QED
      BY <3>1, Zenon
  <2>5. ASSUME NEW table, table.count = rejectionCount, table.offsets = offsets
        PROVE  \A r1, r2 \in 0..table.count - 1 :
                 table.offsets[r1].chunk = table.offsets[r2].chunk => r1 = r2
    BY <2>3, <2>5
  <2>6. QED
    BY <2>1, <2>4, <2>5, Zenon DEF RejectionRowsReadable
<1>2. QED
  BY <1>1, NumberingsAgreeAlways, PTL

(* The manifest's layer counts are the numbers of rows of each layer        *)
(* (PackWriter::accept_record, RecordsArchiveWriter).                       *)
THEOREM LayerCountsCorrect == Spec => []LayerCountsExact
<1>1. NumberingsAgree => LayerCountsExact
  BY OpenedRecords DEF LayerCountsExact, NumberingsAgree, CountsInv
<1>2. QED
  BY <1>1, NumberingsAgreeAlways, PTL

(* While a manifest is there, no step rewrites or adds a file: the SAFETY   *)
(* comments of the memory-mapped readers may rely on it.                    *)
THEOREM PublishedFilesImmutable == Spec => ImmutableOncePublished
<1>1. NumberingsAgree /\ [Next]_vars =>
        [disk["manifest"] # Missing =>
           \A file \in Files : disk'[file] \in {disk[file], Missing}]_vars
  <2> SUFFICES ASSUME NumberingsAgree, Next, disk["manifest"] # Missing,
                      NEW file \in Files
               PROVE  disk'[file] \in {disk[file], Missing}
    OBVIOUS
  <2>1. pc \notin Building /\ disk # EmptyDisk
    BY DEF NumberingsAgree, DiskInv, EmptyDisk, Files
  <2>2. \/ disk' = disk
        \/ \E other \in Files : disk' = [disk EXCEPT ![other] = Missing]
    BY <2>1 DEF Next, StartBuild, RemoveFile, CreateFiles, BeginRecord, WriteArchive,
       AddDocument, FlushBatch, AddSpatial, AcceptRecord, WriteContext, NextStage,
       WriteChunk, WriteOffset, BeginFinish, FinishRejections, FinishRecords,
       FinishFlush, FinishCommit, FinishSpatial, FinishContext, WriteManifest,
       Fail, Building, WriteSteps, FinishSteps
  <2>3. disk = [f \in Files |-> disk[f]]
    BY DEF NumberingsAgree, TypeOK, DiskTypeOK
  <2>4. QED
    BY <2>2, <2>3
<1>2. QED
  BY <1>1, NumberingsAgreeAlways, PTL DEF Spec, ImmutableOncePublished

-----------------------------------------------------------------------------
(* The writer implements the log *)

(* The abstract log extends tables as the writer does.                      *)
LEMMA LogExtend ==
  ASSUME NEW table, NEW n, NEW row
  PROVE  Log!Extend(table, n, row) = Extend(table, n, row)
BY DEF Log!Extend, Extend

(* While nobody has published, readers see no pack.                         *)
LEMMA NothingVisible ==
  ASSUME disk["manifest"] = Missing
  PROVE  LogVisible = NoPack
BY DEF LogVisible, Complete, Files

(* In a complete pack the readers see the log of the build that wrote it.   *)
LogShown == LogVisible = [records |-> LogRecords, rejections |-> LogHints]

(* A complete directory shows the reader the whole log.                     *)
LEMMA CompleteVisible == NumberingsAgree /\ Complete => LogShown
<1> SUFFICES ASSUME NumberingsAgree, Complete PROVE LogShown
  OBVIOUS
<1>1. /\ disk["manifest"] # Missing /\ disk["records"] # Missing
      /\ disk["rejections"] # Missing
  BY DEF Complete, Files
<1>2. /\ Settled
      /\ disk["records"].rows = rows
      /\ disk["rejections"] = [count |-> rejectionCount, offsets |-> offsets,
                               chunks |-> chunks]
  BY <1>1, Published DEF Final
<1>3. /\ rows \in [0..recordCount - 1 -> Layers]
      /\ chunks \in [0..rejectionCount - 1 -> Hints]
  BY <1>2 DEF Settled, NumberingsAgree, TypeOK, ArchiveTypeOK, RejectionTypeOK
<1>4. disk["records"].rows = LogRecords
  BY <1>2, <1>3 DEF LogRecords
<1>5. \A r \in 0..rejectionCount - 1 :
        chunks[offsets[r].chunk] = offsets[r].hint
  <2> SUFFICES ASSUME NEW r \in 0..rejectionCount - 1
               PROVE  chunks[offsets[r].chunk] = offsets[r].hint
    OBVIOUS
  <2>1. offsets[r] = [chunk |-> r, hint |-> chunks[r]]
    BY DEF NumberingsAgree, RejectionInv
  <2>2. offsets[r].chunk = r /\ offsets[r].hint = chunks[r]
    BY <2>1
  <2>3. QED
    BY <2>2, Zenon
<1>6. [r \in 0..disk["rejections"].count - 1 |->
         disk["rejections"].chunks[disk["rejections"].offsets[r].chunk]] = LogHints
  <2>1. /\ disk["rejections"].count = rejectionCount
        /\ disk["rejections"].offsets = offsets
        /\ disk["rejections"].chunks = chunks
    BY <1>2
  <2>2. [r \in 0..rejectionCount - 1 |-> chunks[offsets[r].chunk]] = LogHints
    BY <1>5 DEF LogHints
  <2>3. QED
    BY <2>1, <2>2, Zenon
<1>7. QED
  BY <1>4, <1>6, Zenon DEF LogVisible, LogShown

(* The same holds after a step.                                             *)
LEMMA CompleteVisibleNext == NumberingsAgree' /\ Complete' => LogShown'
BY CompleteVisible, PTL

(* The initial states of the writer are initial states of the log.          *)
LEMMA InitImplements == Init => Log!Init
<1> SUFFICES ASSUME Init PROVE Log!Init
  OBVIOUS
<1>1. LogStatus = "idle" /\ recordCount = 0 /\ rejectionCount = 0
  BY DEF Init, LogStatus, Building, WriteSteps, FinishSteps
<1>2. LogRecords = EmptyTable /\ LogHints = EmptyTable
  BY <1>1 DEF LogRecords, LogHints, EmptyTable
<1>3. LogVisible = NoPack
  BY NothingVisible DEF Init, EmptyDisk, Files
<1>4. QED
  BY <1>1, <1>2, <1>3 DEF Log!Init, Log!EmptyTable, EmptyTable

LogVars == <<LogStatus, recordCount, LogRecords, rejectionCount, LogHints, LogVisible>>

(* A step that leaves the counted rows and offsets alone leaves the log.    *)
LEMMA LogFrame ==
  ASSUME TypeOK, RowsInv, Next, ~ CreateFiles,
         UNCHANGED <<recordCount, rejectionCount, offsets>>
  PROVE  UNCHANGED <<recordCount, LogRecords, rejectionCount, LogHints>>
<1>1. recordCount \in Nat /\ archiveCount \in Nat /\ archiveCount >= recordCount
  BY DEF TypeOK, RecordTypeOK, ArchiveTypeOK, RowsInv
<1>2. \A i \in 0..recordCount - 1 : rows'[i] = rows[i]
  BY <1>1, RowsKept
<1>3. LogRecords' = LogRecords
  BY <1>2 DEF LogRecords
<1>4. LogHints' = LogHints
  BY DEF LogHints
<1>5. QED
  BY <1>3, <1>4

(* Every step of the writer is a step of the log or a stutter.              *)
LEMMA StepImplements ==
  NumberingsAgree /\ NumberingsAgree' /\ [Next]_vars => [Log!Next]_LogVars
<1> SUFFICES ASSUME NumberingsAgree, NumberingsAgree', [Next]_vars
             PROVE  Log!Next \/ UNCHANGED LogVars
  BY DEF LogVars
<1>0. /\ TypeOK /\ RowsInv /\ DiskInv
      /\ recordCount \in Nat /\ rejectionCount \in Nat
      /\ archiveCount \in {recordCount, recordCount + 1}
      /\ chunkCount \in {rejectionCount, rejectionCount + 1}
  BY DEF NumberingsAgree, TypeOK, RecordTypeOK, RejectionTypeOK, RowsInv, RejectionInv
<1>1. CASE UNCHANGED vars
  BY <1>1 DEF vars, LogVars, LogStatus, LogRecords, LogHints, LogVisible, Complete
<1>2. CASE StartBuild
  <2>1. pc \in Stopped /\ pc' = "clear" /\ UNCHANGED <<memory, disk>>
    BY <1>2 DEF StartBuild
  <2>2. UNCHANGED <<recordCount, LogRecords, rejectionCount, LogHints, LogVisible>>
    BY <2>1 DEF memory, LogRecords, LogHints, LogVisible, Complete
  <2>3. LogStatus = "idle" /\ LogStatus' = "idle"
    BY <2>1 DEF LogStatus, Stopped, Building, WriteSteps, FinishSteps
  <2>4. QED
    BY <2>2, <2>3 DEF LogVars
<1>3. ASSUME NEW file \in Files, RemoveFile(file)
      PROVE  Log!Next
  <2>1. pc = "clear" /\ pc' = "clear" /\ UNCHANGED memory
        /\ disk' = [disk EXCEPT ![file] = Missing]
    BY <1>3 DEF RemoveFile
  <2>2. UNCHANGED <<recordCount, LogRecords, rejectionCount, LogHints>>
    BY <2>1 DEF memory, LogRecords, LogHints
  <2>3. LogStatus = "idle" /\ LogStatus' = "idle"
    BY <2>1 DEF LogStatus, Building, WriteSteps, FinishSteps
  <2>4. disk'[file] = Missing
    BY <1>0, <2>1 DEF TypeOK, DiskTypeOK
  <2>5. LogVisible' = NoPack
    BY <2>4 DEF LogVisible, Complete
  <2>6. QED
    BY <2>2, <2>3, <2>5 DEF Log!Next, Log!Withdraw
<1>4. CASE CreateFiles
  <2>1. /\ pc = "clear" /\ pc' = "ready" /\ recordCount' = 0 /\ rejectionCount' = 0
        /\ disk["manifest"] = Missing /\ disk'["manifest"] = Missing
    BY <1>4 DEF CreateFiles, EmptyDisk, Files
  <2>2. LogStatus = "idle" /\ LogStatus' = "open"
    BY <2>1 DEF LogStatus, Building, WriteSteps, FinishSteps
  <2>3. LogVisible = NoPack
    BY <2>1, NothingVisible
  <2>4. LogVisible' = NoPack
    BY <2>1 DEF LogVisible, Complete, Files
  <2>5. LogRecords' = EmptyTable /\ LogHints' = EmptyTable
    BY <2>1 DEF LogRecords, LogHints, EmptyTable
  <2>6. QED
    BY <2>1, <2>2, <2>3, <2>4, <2>5
       DEF Log!Next, Log!Begin, Log!EmptyTable, EmptyTable
(* The steps of a build before its last: readers see no pack.               *)
<1>5. ASSUME Next, pc \in Building, pc' \in Building
      PROVE  /\ LogStatus = "open" /\ LogStatus' = "open"
             /\ LogVisible = NoPack /\ LogVisible' = NoPack
             /\ ~ CreateFiles
  <2>1. disk["manifest"] = Missing /\ disk'["manifest"] = Missing
    BY <1>5 DEF NumberingsAgree, DiskInv
  <2>2. LogVisible = NoPack
    BY <2>1, NothingVisible
  <2>3. LogVisible' = NoPack
    BY <2>1 DEF LogVisible, Complete, Files
  <2>4. ~ CreateFiles
    BY <1>5 DEF CreateFiles, Building, WriteSteps, FinishSteps
  <2>5. QED
    BY <1>5, <2>2, <2>3, <2>4 DEF LogStatus
<1>6. ASSUME NEW inferred \in derived \cup {NoId}, AcceptRecord(inferred)
      PROVE  Log!Next
  <2>1. /\ pc = "accept" /\ recordCount' = recordCount + 1
        /\ pc' \in {"context", "ready"}
        /\ UNCHANGED <<rows, archiveCount, rejectionCount, offsets, cur>>
    BY <1>6 DEF AcceptRecord
  <2>2. pc \in Building /\ pc' \in Building /\ Next
    BY <1>6, <2>1 DEF Building, WriteSteps, FinishSteps, Next
  <2>3. /\ LogStatus = "open" /\ LogStatus' = "open"
        /\ LogVisible = NoPack /\ LogVisible' = NoPack
    BY <1>5, <2>2
  <2>4. rows[recordCount] = cur.layer
    BY <1>0, <2>1 DEF RowsInv, Building, WriteSteps, Indexing
  <2>5. LogRecords' = Extend(LogRecords, recordCount, cur.layer)
    BY <1>0, <2>1, <2>4 DEF LogRecords, Extend
  <2>6. LogHints' = LogHints
    BY <2>1 DEF LogHints
  <2>7. cur.layer \in Layers
    BY <1>0 DEF TypeOK, WriterTypeOK
  <2>8. Log!Accept
    BY <2>1, <2>3, <2>5, <2>6, <2>7, LogExtend DEF Log!Accept
  <2>9. QED
    BY <2>8 DEF Log!Next
<1>7. CASE WriteOffset
  <2> DEFINE entry == [chunk |-> chunkCount - 1, hint |-> chunks[chunkCount - 1]]
  <2>1. /\ pc = "reject_offset" /\ pc' = "ready"
        /\ offsets' = Extend(offsets, rejectionCount, entry)
        /\ rejectionCount' = rejectionCount + 1
        /\ UNCHANGED <<rows, recordCount, chunks>>
    BY <1>7 DEF WriteOffset
  <2>2. pc \in Building /\ pc' \in Building /\ Next
    BY <1>7, <2>1 DEF Building, WriteSteps, FinishSteps, Next
  <2>3. /\ LogStatus = "open" /\ LogStatus' = "open"
        /\ LogVisible = NoPack /\ LogVisible' = NoPack
    BY <1>5, <2>2
  <2>4. chunkCount = rejectionCount + 1
    BY <1>0, <2>1 DEF NumberingsAgree, RejectionInv, Building, WriteSteps
  <2>5. entry.hint = chunks[rejectionCount] /\ chunks[rejectionCount] \in Hints
    BY <1>0, <2>4 DEF TypeOK, RejectionTypeOK
  <2> HIDE DEF entry
  <2>6. \A r \in 0..rejectionCount - 1 : offsets'[r] = offsets[r]
    BY <1>0, <2>1, ExtendOld
  <2>7. offsets'[rejectionCount] = entry
    BY <1>0, <2>1, ExtendNew
  <2>8. LogHints' = Extend(LogHints, rejectionCount, chunks[rejectionCount])
    <3>1. LogHints' = [r \in 0..rejectionCount |-> offsets'[r].hint]
      BY <1>0, <2>1 DEF LogHints
    <3>2. \A r \in 0..rejectionCount :
            offsets'[r].hint = IF r = rejectionCount THEN chunks[rejectionCount]
                                                     ELSE LogHints[r]
      <4> SUFFICES ASSUME NEW r \in 0..rejectionCount
                   PROVE  offsets'[r].hint = IF r = rejectionCount
                                             THEN chunks[rejectionCount]
                                             ELSE LogHints[r]
        OBVIOUS
      <4>1. CASE r = rejectionCount
        BY <2>5, <2>7, <4>1
      <4>2. CASE r # rejectionCount
        <5>1. r \in 0..rejectionCount - 1
          BY <1>0, <4>2
        <5>2. LogHints[r] = offsets[r].hint
          BY <5>1 DEF LogHints
        <5>3. QED
          BY <2>6, <4>2, <5>1, <5>2
      <4>3. QED
        BY <4>1, <4>2
    <3>3. QED
      BY <3>1, <3>2 DEF Extend
  <2>9. LogRecords' = LogRecords
    BY <2>1 DEF LogRecords
  <2>10. Log!Reject
    BY <2>1, <2>3, <2>5, <2>8, <2>9, LogExtend DEF Log!Reject
  <2>11. QED
    BY <2>10 DEF Log!Next
<1>8. CASE WriteManifest
  <2>1. /\ pc = "finish_manifest" /\ pc' = "published"
        /\ UNCHANGED memory
    BY <1>8 DEF WriteManifest
  <2>2. LogStatus = "open" /\ LogStatus' = "idle"
    BY <2>1 DEF LogStatus, Building, WriteSteps, FinishSteps
  <2>3. UNCHANGED <<recordCount, LogRecords, rejectionCount, LogHints>>
    BY <2>1 DEF memory, LogRecords, LogHints
  <2>4. CASE Complete'
    <3>1. LogVisible' = [records |-> LogRecords', rejections |-> LogHints']
      BY <2>4, CompleteVisibleNext DEF LogShown
    <3>2. Log!Publish
      BY <2>2, <2>3, <3>1 DEF Log!Publish
    <3>3. QED
      BY <3>2 DEF Log!Next
  <2>5. CASE ~ Complete'
    <3>1. disk["manifest"] = Missing
      BY <1>0, <2>1 DEF DiskInv, Building, FinishSteps
    <3>2. LogVisible = NoPack
      BY <3>1, NothingVisible
    <3>3. LogVisible' = NoPack
      BY <2>5 DEF LogVisible
    <3>4. Log!Abandon
      BY <2>2, <2>3, <3>2, <3>3 DEF Log!Abandon
    <3>5. QED
      BY <3>4 DEF Log!Next
  <2>6. QED
    BY <2>4, <2>5
<1>9. CASE Fail
  <2>1. /\ pc \in {"clear"} \cup Building /\ pc' = "failed"
        /\ UNCHANGED <<memory, disk>>
    BY <1>9 DEF Fail
  <2>2. UNCHANGED <<recordCount, LogRecords, rejectionCount, LogHints, LogVisible>>
    BY <2>1 DEF memory, LogRecords, LogHints, LogVisible, Complete
  <2>3. LogStatus' = "idle" /\ LogStatus \in {"idle", "open"}
    BY <2>1 DEF LogStatus, Building, WriteSteps, FinishSteps
  <2>4. QED
    BY <2>2, <2>3 DEF LogVars, Log!Next, Log!Abandon
<1>10. CASE Next /\ ~ StartBuild /\ ~ (\E file \in Files : RemoveFile(file))
            /\ ~ CreateFiles /\ ~ WriteOffset /\ ~ WriteManifest /\ ~ Fail
            /\ ~ (\E inferred \in derived \cup {NoId} : AcceptRecord(inferred))
  <2>1. /\ pc \in Building /\ pc' \in Building
        /\ UNCHANGED <<recordCount, rejectionCount, offsets>>
    BY <1>10 DEF Next, BeginRecord, WriteArchive, AddDocument, FlushBatch,
       AddSpatial, WriteContext, NextStage, WriteChunk, BeginFinish,
       FinishRejections, FinishRecords, FinishFlush, FinishCommit, FinishSpatial,
       FinishContext, memory, Building, WriteSteps, FinishSteps
  <2>2. UNCHANGED <<LogStatus, LogVisible>>
    BY <1>5, <1>10, <2>1
  <2>3. UNCHANGED <<recordCount, LogRecords, rejectionCount, LogHints>>
    BY <1>0, <1>10, <2>1, LogFrame
  <2>4. QED
    BY <2>2, <2>3 DEF LogVars
<1>11. QED
  BY <1>1, <1>2, <1>3, <1>4, <1>6, <1>7, <1>8, <1>9, <1>10

(* Files written one after another by a build that can fail or be killed    *)
(* anywhere look to readers like a log published in one step (PackWriter,   *)
(* PackReader::open).                                                       *)
THEOREM WriterImplementsLog == Spec => ImplementsLog
<1>1. Init => Log!Init
  BY InitImplements
<1>2. NumberingsAgree /\ NumberingsAgree' /\ [Next]_vars => [Log!Next]_(Log!vars)
  BY StepImplements DEF LogVars, Log!vars
<1>3. QED
  BY <1>1, <1>2, NumberingsAgreeAlways, PTL DEF Spec, ImplementsLog, Log!Spec

-----------------------------------------------------------------------------
(* Functions that go on from step to step *)

(* What holds of 0 and is handed on up to N holds up to N.                  *)
LEMMA UpTo ==
  ASSUME NEW N \in Nat, NEW S, 0 \in S, \A n \in S \cap (0..N - 1) : n + 1 \in S
  PROVE  0..N \subseteq S
<1> SUFFICES ASSUME NEW m \in 0..N, m \notin S PROVE FALSE
  OBVIOUS
<1> DEFINE Below == {p \in Nat \X Nat : p[1] < p[2]}
           T == {n \in 0..N : n \notin S}
<1>1. IsWellFoundedOn(Below, Nat)
  BY NatLessThanWellFounded, Zenon DEF OpToRel
<1>2. T \subseteq Nat /\ m \in T
  OBVIOUS
<1>3. PICK least \in T : \A other \in T : ~ (<<other, least>> \in Below)
  <2> HIDE DEF T, Below
  <2> QED
    BY <1>1, <1>2, WFMin
<1>4. least \in 0..N /\ least # 0 /\ least \notin S
  BY <1>3
<1>5. <<least - 1, least>> \in Below
  BY <1>4
<1>6. least - 1 \notin T /\ least - 1 \in 0..N - 1
  BY <1>3, <1>4, <1>5
<1>7. least - 1 \in S \cap (0..N - 1) /\ (least - 1) + 1 = least
  BY <1>4, <1>6
<1> QED
  BY <1>4, <1>7

(* A walk of N steps through D from base, each given by a function.          *)
Walk(f, N, base, step) ==
  f = [n \in 0..N |-> IF n = 0 THEN base ELSE step[<<n, f[n - 1]>>]]

(* There is such a walk.                                                    *)
LEMMA WalkExists ==
  ASSUME NEW N \in Nat, NEW D, NEW base \in D, NEW step \in [(1..N) \X D -> D]
  PROVE  \E f \in [0..N -> D] : Walk(f, N, base, step)
<1> DEFINE T == {m \in 0..N : \E f \in [0..m -> D] : Walk(f, m, base, step)}
<1>1. 0 \in T
  <2> DEFINE f == [n \in 0..0 |-> base]
  <2>1. f \in [0..0 -> D] /\ Walk(f, 0, base, step)
    BY DEF Walk
  <2> HIDE DEF f
  <2> QED
    BY <2>1
<1>2. ASSUME NEW m \in T \cap (0..N - 1) PROVE m + 1 \in T
  <2>1. PICK f \in [0..m -> D] : Walk(f, m, base, step)
    OBVIOUS
  <2> DEFINE next == step[<<m + 1, f[m]>>]
             g == [n \in 0..m + 1 |-> IF n = m + 1 THEN next ELSE f[n]]
  <2>2. next \in D
    OBVIOUS
  <2>3. g \in [0..m + 1 -> D]
    BY <2>2
  <2>4. ASSUME NEW n \in 0..m + 1
        PROVE  g[n] = IF n = 0 THEN base ELSE step[<<n, g[n - 1]>>]
    <3>1. CASE n = m + 1
      <4>1. m \in 0..m + 1 /\ m + 1 \in 0..m + 1 /\ m + 1 # 0 /\ m # m + 1 /\ (m + 1) - 1 = m
        OBVIOUS
      <4>2. g[m + 1] = next /\ g[m] = f[m]
        BY <4>1
      <4> HIDE DEF g
      <4> QED
        BY <3>1, <4>1, <4>2
    <3>2. CASE n # m + 1
      <4>1. n \in 0..m /\ g[n] = f[n] /\ (n # 0 => g[n - 1] = f[n - 1])
        BY <3>2
      <4>2. f[n] = IF n = 0 THEN base ELSE step[<<n, f[n - 1]>>]
        BY <2>1, <4>1 DEF Walk
      <4> QED
        BY <4>1, <4>2
    <3> QED
      BY <3>1, <3>2
  <2> HIDE DEF g
  <2>5. Walk(g, m + 1, base, step)
    BY <2>3, <2>4 DEF Walk
  <2> QED
    BY <2>3, <2>5
<1>3. 0..N \subseteq T
  <2> HIDE DEF T
  <2> QED
    BY <1>1, <1>2, UpTo
<1> QED
  BY <1>3

-----------------------------------------------------------------------------
(* Words *)

Phrases == Seq(Seq(Alphanumeric))

(* Going on with a word changes the last one only.                          *)
LEMMA LongerIs ==
  ASSUME NEW words \in Phrases, NEW c \in Alphanumeric, Len(words) > 0
  PROVE  /\ Longer(words, c) \in Phrases /\ Len(Longer(words, c)) = Len(words)
         /\ \A j \in 1..Len(words) :
              Longer(words, c)[j] = IF j = Len(words) THEN Append(words[j], c) ELSE words[j]
<1> DEFINE k == Len(words)
<1>1. k \in 1..k /\ words[k] \in Seq(Alphanumeric)
  BY LenProperties, ElementOfSeq DEF Phrases
<1>2. Append(words[k], c) \in Seq(Alphanumeric)
  BY <1>1, AppendProperties
<1>3. Longer(words, c) = [words EXCEPT ![k] = Append(words[k], c)]
  BY DEF Longer
<1> QED
  BY <1>1, <1>2, <1>3, ExceptSeq DEF Phrases

(* Reading a character gives a phrase again, as long as there is a word to  *)
(* go on with.                                                              *)
LEMMA ReadIs ==
  ASSUME NEW t \in Texts, NEW n \in 1..Len(t), NEW words \in Phrases,
         n > 1 /\ t[n - 1] \in Alphanumeric => Len(words) > 0
  PROVE  /\ Read(words, t, n) \in Phrases
         /\ t[n] \in Alphanumeric => Len(Read(words, t, n)) > 0
<1>1. CASE t[n] \notin Alphanumeric
  BY <1>1 DEF Read
<1>2. CASE t[n] \in Alphanumeric /\ n > 1 /\ t[n - 1] \in Alphanumeric
  BY <1>2, LongerIs DEF Read
<1>3. CASE t[n] \in Alphanumeric /\ ~(n > 1 /\ t[n - 1] \in Alphanumeric)
  <2>1. Read(words, t, n) = Append(words, <<t[n]>>)
    BY <1>3 DEF Read
  <2>2. <<t[n]>> \in Seq(Alphanumeric) /\ Len(words) \in Nat
    BY <1>3, LenProperties DEF Phrases
  <2> QED
    BY <2>1, <2>2, AppendProperties DEF Phrases
<1> QED
  BY <1>1, <1>2, <1>3

(* The words of a text, character by character.                             *)
Reading(w, t) ==
  /\ w \in [0..Len(t) -> Phrases] /\ w[0] = <<>>
  /\ \A n \in 1..Len(t) : w[n] = Read(w[n - 1], t, n)
  /\ \A n \in 1..Len(t) : t[n] \in Alphanumeric => Len(w[n]) > 0

(* Words is what such a reading ends with.                                  *)
LEMMA ReadingExists ==
  ASSUME NEW t \in Texts
  PROVE  \E w : Reading(w, t) /\ Words(t) = w[Len(t)]
<1> DEFINE N == Len(t)
           Goes(p) == p[1] > 1 /\ t[p[1] - 1] \in Alphanumeric => Len(p[2]) > 0
           step == [p \in (1..N) \X Phrases |->
                      IF Goes(p) THEN Read(p[2], t, p[1]) ELSE <<>>]
<1>1. N \in Nat /\ <<>> \in Phrases
  BY LenProperties, EmptySeq DEF Texts, Phrases
<1>2. step \in [(1..N) \X Phrases -> Phrases]
  BY <1>1, ReadIs
<1>3. PICK w \in [0..N -> Phrases] : Walk(w, N, <<>>, step)
  <2> HIDE DEF step, N
  <2> QED
    BY <1>1, <1>2, WalkExists
<1>4. \A n \in 0..N : w[n] = IF n = 0 THEN <<>> ELSE step[<<n, w[n - 1]>>]
  <2> HIDE DEF step, N
  <2> QED
    BY <1>3 DEF Walk
<1>5. ASSUME NEW n \in 1..N, Goes(<<n, w[n - 1]>>)
      PROVE  /\ w[n] = Read(w[n - 1], t, n)
             /\ t[n] \in Alphanumeric => Len(w[n]) > 0
  <2>1. n \in 0..N /\ n # 0 /\ n - 1 \in 0..N /\ w[n - 1] \in Phrases
    BY <1>1
  <2>2. w[n] = Read(w[n - 1], t, n)
    BY <1>4, <1>5, <2>1
  <2> QED
    BY <1>5, <2>1, <2>2, ReadIs
<1> DEFINE T == {m \in 0..N : m # 0 /\ t[m] \in Alphanumeric => Len(w[m]) > 0}
<1>6. 0 \in T
  BY <1>1
<1>7. ASSUME NEW m \in T \cap (0..N - 1) PROVE m + 1 \in T
  <2>1. m + 1 \in 1..N /\ (m + 1) - 1 = m /\ (m + 1 > 1 => m # 0)
    BY <1>1
  <2>2. Goes(<<m + 1, w[m]>>)
    BY <2>1
  <2> QED
    BY <1>5, <2>1, <2>2
<1>8. 0..N \subseteq T
  <2> HIDE DEF T, N
  <2> QED
    BY <1>1, <1>6, <1>7, UpTo
<1>9. ASSUME NEW n \in 1..N
      PROVE  w[n] = Read(w[n - 1], t, n) /\ (t[n] \in Alphanumeric => Len(w[n]) > 0)
  <2>1. n - 1 \in T /\ (n > 1 => n - 1 # 0)
    BY <1>8
  <2>2. Goes(<<n, w[n - 1]>>)
    BY <2>1
  <2> QED
    BY <1>5, <2>2
<1>10. Reading(w, t)
  <2>1. w[0] = <<>>
    <3>1. 0 \in 0..N
      BY <1>1
    <3> QED
      BY <1>4, <3>1
  <2> QED
    BY <1>9, <2>1 DEF Reading
<1> DEFINE Recurs(f) == f = [n \in 0..N |-> IF n = 0 THEN <<>> ELSE Read(f[n - 1], t, n)]
           f == CHOOSE f : Recurs(f)
<1>11. Recurs(w)
  <2>1. w = [n \in 0..N |-> w[n]]
    OBVIOUS
  <2>2. ASSUME NEW n \in 0..N
        PROVE  w[n] = IF n = 0 THEN <<>> ELSE Read(w[n - 1], t, n)
    <3>1. 0 \in 0..N /\ (n # 0 => n \in 1..N)
      BY <1>1
    <3> QED
      BY <1>4, <1>9, <3>1
  <2> HIDE DEF N
  <2> QED
    BY <2>1, <2>2
<1>12. Recurs(f)
  <2> HIDE DEF Recurs
  <2> QED
    BY <1>11
<1>13. Words(t) = f[N]
  BY DEF Words
<1> HIDE DEF f
<1> DEFINE U == {m \in 0..N : f[m] = w[m]}
<1>14. 0 \in U
  <2>1. 0 \in 0..N
    BY <1>1
  <2> QED
    BY <1>4, <1>12, <2>1
<1>15. ASSUME NEW m \in U \cap (0..N - 1) PROVE m + 1 \in U
  <2>1. m + 1 \in 1..N /\ m + 1 \in 0..N /\ m + 1 # 0 /\ (m + 1) - 1 = m
    BY <1>1
  <2>2. f[m + 1] = Read(f[m], t, m + 1)
    <3> HIDE DEF N
    <3> QED
      BY <1>12, <2>1
  <2>3. w[m + 1] = Read(w[m], t, m + 1)
    BY <1>9, <2>1
  <2> QED
    BY <2>1, <2>2, <2>3
<1>16. N \in U
  <2> HIDE DEF U, N
  <2>1. 0..N \subseteq U
    BY <1>1, <1>14, <1>15, UpTo
  <2> QED
    BY <1>1, <2>1
<1> QED
  BY <1>10, <1>13, <1>16

(* A text that begins another has, as its words, what was read of the other *)
(* up to there.                                                             *)
LEMMA WordsOfBeginning ==
  ASSUME NEW t \in Texts, NEW s \in Texts, NEW w, Reading(w, t),
         Len(s) <= Len(t), \A i \in 1..Len(s) : s[i] = t[i]
  PROVE  Words(s) = w[Len(s)]
<1>1. PICK v : Reading(v, s) /\ Words(s) = v[Len(s)]
  BY ReadingExists
<1> DEFINE N == Len(s)
           U == {m \in 0..N : v[m] = w[m]}
<1>2. N \in Nat /\ Len(t) \in Nat
  BY LenProperties DEF Texts
<1>3. 0 \in U
  BY <1>1, <1>2 DEF Reading
<1>4. ASSUME NEW m \in U \cap (0..N - 1) PROVE m + 1 \in U
  <2> DEFINE n == m + 1
  <2>1. n \in 1..N /\ n \in 1..Len(t) /\ n \in 0..N /\ n - 1 = m /\ (n > 1 => n - 1 \in 1..N)
    BY <1>2
  <2>2. v[n] = Read(v[m], s, n) /\ w[n] = Read(w[m], t, n)
    BY <1>1, <2>1 DEF Reading
  <2>3. s[n] = t[n] /\ (n > 1 => s[n - 1] = t[n - 1])
    BY <2>1
  <2>4. v[m] = w[m]
    OBVIOUS
  <2> HIDE DEF n
  <2>5. Read(v[m], s, n) = Read(w[m], t, n)
    BY <2>3, <2>4 DEF Read
  <2> QED
    BY <2>1, <2>2, <2>5 DEF n
<1>5. N \in U
  <2> HIDE DEF U, N
  <2>1. 0..N \subseteq U
    BY <1>2, <1>3, <1>4, UpTo
  <2> QED
    BY <1>2, <2>1
<1> QED
  BY <1>1, <1>5

(* Words are sequences of letters and digits.                               *)
LEMMA WordsType ==
  ASSUME NEW t \in Texts
  PROVE  Words(t) \in Phrases
<1>1. PICK w : Reading(w, t) /\ Words(t) = w[Len(t)]
  BY ReadingExists
<1> QED
  BY <1>1, LenProperties DEF Reading, Texts

-----------------------------------------------------------------------------
(* What is typed so far begins what is meant *)

(* A prefix, character by character.                                        *)
LEMMA PrefixMeans ==
  ASSUME NEW S, NEW p \in Seq(S), NEW s \in Seq(S)
  PROVE  IsPrefix(p, s) <=> (Len(p) <= Len(s) /\ \A i \in 1..Len(p) : p[i] = s[i])
<1>1. Len(p) \in Nat /\ Len(s) \in Nat
  BY LenProperties
<1>2. SubSeq(p, 1, Len(p)) = p
  BY SubSeqFull
<1>3. ASSUME Len(p) <= Len(s)
      PROVE  /\ SubSeq(s, 1, Len(p)) \in Seq(S) /\ Len(SubSeq(s, 1, Len(p))) = Len(p)
             /\ \A i \in 1..Len(p) : SubSeq(s, 1, Len(p))[i] = s[i]
  <2>1. \A i \in 1..Len(p) : s[i] \in S
    BY <1>1, <1>3, ElementOfSeq
  <2> QED
    BY <1>1, <2>1, SubSeqProperties
<1>4. ASSUME Len(p) <= Len(s), \A i \in 1..Len(p) : p[i] = s[i]
      PROVE  p = SubSeq(s, 1, Len(p))
  BY <1>3, <1>4, SeqEqual
<1> QED
  BY <1>2, <1>3, <1>4 DEF IsPrefix

Begins(tokens, words) ==
  /\ Len(tokens) <= Len(words)
  /\ \A j \in 1..Len(tokens) :
       IF j < Len(tokens) THEN words[j] = tokens[j] ELSE IsPrefix(tokens[j], words[j])

(* A phrase begins itself.                                                  *)
LEMMA BeginsItself ==
  ASSUME NEW words \in Phrases
  PROVE  Begins(words, words)
<1>1. Len(words) \in Nat /\ \A j \in 1..Len(words) : words[j] \in Seq(Alphanumeric)
  BY LenProperties, ElementOfSeq DEF Phrases
<1>2. \A j \in 1..Len(words) : IsPrefix(words[j], words[j])
  BY <1>1, PrefixMeans, LenProperties
<1> QED
  BY <1>1, <1>2 DEF Begins

(* Reading on keeps a beginning one.                                        *)
LEMMA BeginsOnward ==
  ASSUME NEW t \in Texts, NEW n \in 1..Len(t), NEW words \in Phrases,
         n > 1 /\ t[n - 1] \in Alphanumeric => Len(words) > 0,
         NEW tokens \in Phrases, Begins(tokens, words)
  PROVE  Begins(tokens, Read(words, t, n))
<1>1. /\ Len(words) \in Nat /\ Len(tokens) \in Nat
      /\ \A j \in 1..Len(words) : words[j] \in Seq(Alphanumeric)
      /\ \A j \in 1..Len(tokens) : tokens[j] \in Seq(Alphanumeric)
  BY LenProperties, ElementOfSeq DEF Phrases
<1>2. CASE t[n] \notin Alphanumeric
  BY <1>2 DEF Read
<1>3. CASE t[n] \in Alphanumeric /\ n > 1 /\ t[n - 1] \in Alphanumeric
  <2> DEFINE longer == Longer(words, t[n])
  <2>1. Read(words, t, n) = longer
    BY <1>3 DEF Read
  <2>2. /\ Len(longer) = Len(words)
        /\ \A j \in 1..Len(words) :
             longer[j] = IF j = Len(words) THEN Append(words[j], t[n]) ELSE words[j]
    BY <1>3, LongerIs
  <2> HIDE DEF longer
  <2>3. ASSUME NEW j \in 1..Len(tokens)
        PROVE  IF j < Len(tokens) THEN longer[j] = tokens[j] ELSE IsPrefix(tokens[j], longer[j])
    <3>1. j \in 1..Len(words) /\ (j < Len(tokens) => j # Len(words))
      BY <1>1 DEF Begins
    <3>2. CASE j # Len(words)
      BY <2>2, <3>1, <3>2 DEF Begins
    <3>3. CASE j = Len(words)
      <4>1. ~(j < Len(tokens)) /\ IsPrefix(tokens[j], words[j])
        BY <3>1, <3>3 DEF Begins
      <4>2. tokens[j] \in Seq(Alphanumeric) /\ words[j] \in Seq(Alphanumeric)
        BY <1>1, <3>1
      <4>3. longer[j] = Append(words[j], t[n])
        BY <2>2, <3>1, <3>3
      <4>4. /\ longer[j] \in Seq(Alphanumeric) /\ Len(longer[j]) = Len(words[j]) + 1
            /\ \A i \in 1..Len(words[j]) : longer[j][i] = words[j][i]
        BY <1>3, <4>2, <4>3, AppendProperties
      <4>5. Len(tokens[j]) \in Nat /\ Len(words[j]) \in Nat
        BY <4>2, LenProperties
      <4>6. /\ Len(tokens[j]) <= Len(words[j])
            /\ \A i \in 1..Len(tokens[j]) : tokens[j][i] = words[j][i]
        BY <4>1, <4>2, PrefixMeans
      <4>7. /\ Len(tokens[j]) <= Len(longer[j])
            /\ \A i \in 1..Len(tokens[j]) : tokens[j][i] = longer[j][i]
        BY <4>4, <4>5, <4>6
      <4>8. IsPrefix(tokens[j], longer[j])
        BY <4>2, <4>4, <4>7, PrefixMeans
      <4> QED
        BY <4>1, <4>8
    <3> QED
      BY <3>2, <3>3
  <2> QED
    BY <2>1, <2>2, <2>3 DEF Begins
<1>4. CASE t[n] \in Alphanumeric /\ ~(n > 1 /\ t[n - 1] \in Alphanumeric)
  <2> DEFINE more == Append(words, <<t[n]>>)
  <2>1. Read(words, t, n) = more
    BY <1>4 DEF Read
  <2>2. <<t[n]>> \in Seq(Alphanumeric)
    BY <1>4
  <2>3. Len(more) = Len(words) + 1 /\ \A j \in 1..Len(words) : more[j] = words[j]
    BY <2>2, AppendProperties DEF Phrases
  <2> HIDE DEF more
  <2>4. Len(tokens) <= Len(more) /\ \A j \in 1..Len(tokens) : more[j] = words[j]
    BY <1>1, <2>3 DEF Begins
  <2> QED
    BY <2>1, <2>4 DEF Begins
<1> QED
  BY <1>2, <1>3, <1>4

(* What is read first begins all there is to read.                          *)
LEMMA ReadingGrows ==
  ASSUME NEW t \in Texts, NEW w, Reading(w, t), NEW m \in 0..Len(t)
  PROVE  Begins(w[m], Words(t))
<1> DEFINE N == Len(t)
           T == {n \in 0..N : n >= m => Begins(w[m], w[n])}
<1>1. N \in Nat /\ m \in 0..N
  BY LenProperties DEF Texts
<1>2. \A n \in 0..N : w[n] \in Phrases
  BY DEF Reading
<1>3. Begins(w[m], w[m])
  BY <1>1, <1>2, BeginsItself
<1>4. 0 \in T
  BY <1>1, <1>3
<1>5. ASSUME NEW k \in T \cap (0..N - 1) PROVE k + 1 \in T
  <2> DEFINE n == k + 1
  <2>1. n \in 1..N /\ n \in 0..N /\ k \in 0..N /\ n - 1 = k /\ (n > 1 => k \in 1..N)
    BY <1>1
  <2>2. w[n] = Read(w[k], t, n) /\ (n > 1 /\ t[n - 1] \in Alphanumeric => Len(w[k]) > 0)
    BY <2>1 DEF Reading
  <2>3. CASE n = m
    BY <1>3, <2>1, <2>3
  <2>4. CASE n # m /\ n >= m
    <3>1. k >= m
      BY <1>1, <2>1, <2>4
    <3>2. Begins(w[m], w[k])
      BY <3>1
    <3>3. Begins(w[m], w[n])
      BY <1>1, <1>2, <2>1, <2>2, <3>2, BeginsOnward
    <3> QED
      BY <2>1, <3>3
  <2>5. CASE ~(n >= m)
    BY <2>1, <2>5
  <2> QED
    BY <2>3, <2>4, <2>5
<1>6. N \in T
  <2> HIDE DEF T, N
  <2>1. 0..N \subseteq T
    BY <1>1, <1>4, <1>5, UpTo
  <2> QED
    BY <1>1, <2>1
<1>7. \A i \in 1..Len(t) : t[i] = t[i]
  OBVIOUS
<1>8. Words(t) = w[N]
  BY <1>1, <1>7, WordsOfBeginning
<1> QED
  BY <1>1, <1>6, <1>8

(* The words of what is typed begin the words of the text.                  *)
LEMMA TypedBegins ==
  ASSUME NEW t \in Texts, NEW s \in Texts, Len(s) <= Len(t), \A i \in 1..Len(s) : s[i] = t[i]
  PROVE  Begins(Words(s), Words(t))
<1>1. PICK w : Reading(w, t)
  BY ReadingExists
<1>2. Len(s) \in 0..Len(t)
  BY LenProperties DEF Texts
<1> QED
  BY <1>1, <1>2, WordsOfBeginning, ReadingGrows

-----------------------------------------------------------------------------
(* Words of two texts with a blank between them *)

(* The last word of two phrases is the last of the second.                  *)
LEMMA LongerAfter ==
  ASSUME NEW x \in Phrases, NEW y \in Phrases, Len(y) > 0, NEW c \in Alphanumeric
  PROVE  Longer(x \o y, c) = x \o Longer(y, c)
<1> DEFINE a == Longer(x \o y, c)
           z == Longer(y, c)
           b == x \o z
<1>1. Len(x) \in Nat /\ Len(y) \in Nat
  BY LenProperties DEF Phrases
<1>2. /\ x \o y \in Phrases /\ Len(x \o y) = Len(x) + Len(y)
      /\ \A i \in 1..Len(x) + Len(y) :
           (x \o y)[i] = IF i <= Len(x) THEN x[i] ELSE y[i - Len(x)]
  BY ConcatProperties DEF Phrases
<1>3. /\ a \in Phrases /\ Len(a) = Len(x) + Len(y)
      /\ \A i \in 1..Len(x) + Len(y) :
           a[i] = IF i = Len(x) + Len(y) THEN Append((x \o y)[i], c) ELSE (x \o y)[i]
  <2> DEFINE xy == x \o y
  <2> HIDE DEF xy
  <2>1. xy \in Phrases /\ Len(xy) = Len(x) + Len(y) /\ Len(xy) > 0
    BY <1>1, <1>2 DEF xy
  <2>2. /\ Longer(xy, c) \in Phrases /\ Len(Longer(xy, c)) = Len(xy)
        /\ \A i \in 1..Len(xy) :
             Longer(xy, c)[i] = IF i = Len(xy) THEN Append(xy[i], c) ELSE xy[i]
    BY <2>1, LongerIs
  <2> QED
    BY <2>1, <2>2 DEF xy
<1>4. /\ z \in Phrases /\ Len(z) = Len(y)
      /\ \A j \in 1..Len(y) : z[j] = IF j = Len(y) THEN Append(y[j], c) ELSE y[j]
  BY LongerIs
<1> HIDE DEF z, a
<1>5. /\ b \in Phrases /\ Len(b) = Len(x) + Len(y)
      /\ \A i \in 1..Len(x) + Len(y) :
           b[i] = IF i <= Len(x) THEN x[i] ELSE z[i - Len(x)]
  <2>1. /\ b \in Phrases /\ Len(b) = Len(x) + Len(z)
        /\ \A i \in 1..Len(x) + Len(z) :
             b[i] = IF i <= Len(x) THEN x[i] ELSE z[i - Len(x)]
    BY <1>4, ConcatProperties DEF Phrases
  <2> HIDE DEF b
  <2> QED
    BY <1>4, <2>1
<1> HIDE DEF b
<1>6. ASSUME NEW i \in 1..Len(x) + Len(y) PROVE a[i] = b[i]
  <2>1. CASE i <= Len(x)
    <3>1. i # Len(x) + Len(y)
      BY <1>1, <2>1
    <3> QED
      BY <1>2, <1>3, <1>5, <2>1, <3>1
  <2>2. CASE ~(i <= Len(x))
    <3> DEFINE j == i - Len(x)
    <3>1. j \in 1..Len(y) /\ (j = Len(y) <=> i = Len(x) + Len(y))
      BY <1>1, <2>2
    <3>2. (x \o y)[i] = y[j] /\ b[i] = z[j]
      BY <1>2, <1>5, <2>2
    <3> HIDE DEF j
    <3> QED
      BY <1>3, <1>4, <3>1, <3>2
  <2> QED
    BY <2>1, <2>2
<1>7. a = b
  BY <1>3, <1>5, <1>6, SeqEqual DEF Phrases
<1> QED
  BY <1>7 DEF a, b, z

(* A word after two phrases is a word after the second.                     *)
LEMMA AppendAfterWords ==
  ASSUME NEW x \in Phrases, NEW y \in Phrases, NEW e \in Seq(Alphanumeric)
  PROVE  Append(x \o y, e) = x \o Append(y, e)
<1> DEFINE S == Seq(Alphanumeric)
<1>1. x \in Seq(S) /\ y \in Seq(S) /\ e \in S
  BY DEF Phrases
<1> HIDE DEF S
<1>2. <<e>> \in Seq(S) /\ x \o y \in Seq(S)
  <2>1. <<e>> \in Seq(S)
    BY <1>1
  <2> QED
    BY <1>1, <2>1, ConcatProperties
<1>3. Append(x \o y, e) = (x \o y) \o <<e>>
  BY <1>1, <1>2, AppendIsConcat
<1>4. Append(y, e) = y \o <<e>>
  BY <1>1, AppendIsConcat
<1>5. (x \o y) \o <<e>> = x \o (y \o <<e>>)
  BY <1>1, <1>2, ConcatAssociative
<1> QED
  BY <1>3, <1>4, <1>5

(* Whoever has read x goes on as if from the start, after a blank.          *)
LEMMA WordsTogether ==
  ASSUME NEW a \in Texts, NEW b \in Texts
  PROVE  /\ a \o <<Space>> \o b \in Texts
         /\ Words(a \o <<Space>> \o b) = Words(a) \o Words(b)
<1> DEFINE t == a \o <<Space>> \o b
           A == Len(a) + 1
           B == Len(b)
           x == Words(a)
<1>1. /\ Len(a) \in Nat /\ B \in Nat /\ x \in Phrases
      /\ Space \notin Alphanumeric
  BY LenProperties, WordsType, CharactersAssumption DEF Texts
<1>2. /\ a \o <<Space>> \in Texts /\ Len(a \o <<Space>>) = A
      /\ \A i \in 1..A : (a \o <<Space>>)[i] = IF i <= Len(a) THEN a[i] ELSE Space
  <2>1. <<Space>> \in Texts /\ Len(<<Space>>) = 1 /\ <<Space>>[1] = Space
    BY DEF Texts
  <2>2. /\ a \o <<Space>> \in Texts /\ Len(a \o <<Space>>) = A
        /\ \A i \in 1..A : (a \o <<Space>>)[i] = IF i <= Len(a) THEN a[i] ELSE <<Space>>[i - Len(a)]
    BY <2>1, ConcatProperties DEF Texts
  <2>3. \A i \in 1..A : ~(i <= Len(a)) => i - Len(a) = 1
    BY <1>1
  <2> QED
    BY <2>1, <2>2, <2>3
<1>3. /\ t \in Texts /\ Len(t) = A + B
      /\ \A i \in 1..A + B : t[i] = IF i <= A THEN (a \o <<Space>>)[i] ELSE b[i - A]
  BY <1>2, ConcatProperties DEF Texts
<1> HIDE DEF t
<1>4. /\ \A i \in 1..Len(a) : a[i] = t[i]
      /\ t[A] = Space
      /\ \A k \in 1..B : t[A + k] = b[k]
  <2>1. ASSUME NEW i \in 1..Len(a) PROVE a[i] = t[i]
    <3>1. i \in 1..A + B /\ i \in 1..A /\ i <= A
      BY <1>1
    <3> QED
      BY <1>2, <1>3, <3>1
  <2>2. t[A] = Space
    <3>1. A \in 1..A + B /\ A \in 1..A /\ A <= A /\ ~(A <= Len(a))
      BY <1>1
    <3> QED
      BY <1>2, <1>3, <3>1
  <2>3. ASSUME NEW k \in 1..B PROVE t[A + k] = b[k]
    <3>1. A + k \in 1..A + B /\ ~(A + k <= A) /\ (A + k) - A = k
      BY <1>1
    <3> QED
      BY <1>3, <3>1
  <2> QED
    BY <2>1, <2>2, <2>3
<1>5. PICK w : Reading(w, t) /\ Words(t) = w[Len(t)]
  BY <1>3, ReadingExists
<1>6. PICK v : Reading(v, b) /\ Words(b) = v[B]
  BY ReadingExists
<1>7. w[A] = x
  <2>1. w[Len(a)] = x
    BY <1>1, <1>3, <1>4, <1>5, WordsOfBeginning
  <2>2. A \in 1..Len(t) /\ A - 1 = Len(a)
    BY <1>1, <1>3
  <2>3. w[A] = Read(w[A - 1], t, A)
    BY <1>5, <2>2 DEF Reading
  <2> QED
    BY <1>1, <1>4, <2>1, <2>2, <2>3 DEF Read
<1> DEFINE T == {k \in 0..B : w[A + k] = x \o v[k]}
<1>8. 0 \in T
  <2>1. v[0] = <<>> /\ x \o <<>> = x
    BY <1>1, <1>6, ConcatEmptySeq DEF Reading, Phrases
  <2>2. 0 \in 0..B /\ A + 0 = A
    BY <1>1
  <2> QED
    BY <1>7, <2>1, <2>2
<1>9. ASSUME NEW m \in T \cap (0..B - 1) PROVE m + 1 \in T
  <2> DEFINE k == m + 1
             n == A + k
             y == v[m]
  <2>1. /\ k \in 1..B /\ k \in 0..B /\ k - 1 = m /\ m \in 0..B
        /\ n \in 1..Len(t) /\ n > 1 /\ n - 1 = A + m
        /\ (k > 1 => m \in 1..B) /\ (~(k > 1) => m = 0) /\ (m = 0 => ~(k > 1))
    BY <1>1, <1>3
  <2>2. w[n] = Read(w[n - 1], t, n) /\ v[k] = Read(y, b, k)
    BY <1>5, <1>6, <2>1 DEF Reading
  <2>3. w[n - 1] = x \o y
    BY <2>1
  <2>4. y \in Phrases /\ (k > 1 /\ b[k - 1] \in Alphanumeric => Len(y) > 0)
    BY <1>6, <2>1 DEF Reading
  <2>5. t[n] = b[k] /\ (k > 1 => t[n - 1] = b[k - 1]) /\ (~(k > 1) => t[n - 1] = Space)
    <3>1. A + 0 = A
      BY <1>1
    <3> QED
      BY <1>4, <2>1, <3>1
  <2> HIDE DEF k, n, y
  <2>6. w[n] = x \o v[k]
    <3>1. CASE b[k] \notin Alphanumeric
      BY <2>2, <2>3, <2>5, <3>1 DEF Read
    <3>2. CASE b[k] \in Alphanumeric /\ k > 1 /\ b[k - 1] \in Alphanumeric
      <4>1. Read(w[n - 1], t, n) = Longer(x \o y, b[k]) /\ Read(y, b, k) = Longer(y, b[k])
        BY <2>1, <2>3, <2>5, <3>2 DEF Read
      <4> QED
        BY <1>1, <2>2, <2>4, <3>2, <4>1, LongerAfter
    <3>3. CASE b[k] \in Alphanumeric /\ ~(k > 1 /\ b[k - 1] \in Alphanumeric)
      <4>1. Read(w[n - 1], t, n) = Append(x \o y, <<b[k]>>) /\ Read(y, b, k) = Append(y, <<b[k]>>)
        BY <1>1, <2>1, <2>3, <2>5, <3>3 DEF Read
      <4> DEFINE e == <<b[k]>>
      <4>2. e \in Seq(Alphanumeric)
        BY <3>3
      <4> HIDE DEF x, e
      <4>3. Append(x \o y, e) = x \o Append(y, e)
        BY <1>1, <2>4, <4>2, AppendAfterWords
      <4> QED
        BY <2>2, <4>1, <4>3 DEF e
    <3> QED
      BY <3>1, <3>2, <3>3
  <2> QED
    BY <2>1, <2>6 DEF n, k
<1>10. B \in T
  <2> HIDE DEF T, B
  <2>1. 0..B \subseteq T
    BY <1>1, <1>8, <1>9, UpTo
  <2> QED
    BY <1>1, <2>1
<1>11. Words(t) = x \o Words(b)
  BY <1>3, <1>5, <1>6, <1>10
<1> QED
  BY <1>3, <1>11 DEF t

(* Letters and digits alone are one word.                                   *)
LEMMA OneWord ==
  ASSUME NEW t \in Seq(Alphanumeric), t # <<>>
  PROVE  t \in Texts /\ Words(t) = <<t>>
<1> DEFINE N == Len(t)
<1>1. N \in Nat /\ N > 0 /\ \A i \in 1..N : t[i] \in Alphanumeric
  BY LenProperties, EmptySeq, ElementOfSeq
<1>2. t \in Texts
  BY SeqMonotonic DEF Texts
<1>3. PICK w : Reading(w, t) /\ Words(t) = w[N]
  BY <1>2, ReadingExists
<1> DEFINE T == {n \in 0..N : n > 0 => /\ Len(w[n]) = 1 /\ Len(w[n][1]) = n
                                       /\ \A i \in 1..n : w[n][1][i] = t[i]}
<1>4. 0 \in T
  BY <1>1
<1>5. ASSUME NEW m \in T \cap (0..N - 1) PROVE m + 1 \in T
  <2> DEFINE n == m + 1
  <2>1. n \in 1..N /\ n \in 0..N /\ n - 1 = m /\ m \in 0..N /\ (n > 1 <=> m > 0)
        /\ (m > 0 => m \in 1..N) /\ (~(m > 0) => m = 0) /\ n > 0
    BY <1>1
  <2>2. w[n] = Read(w[m], t, n) /\ w[m] \in Phrases /\ t[n] \in Alphanumeric
    BY <1>1, <1>3, <2>1 DEF Reading
  <2>3. CASE m > 0
    <3> DEFINE word == w[m][1]
    <3>1. w[n] = Longer(w[m], t[n]) /\ Len(w[m]) = 1
      BY <1>1, <2>1, <2>2, <2>3 DEF Read
    <3>2. Len(w[n]) = 1 /\ w[n][1] = Append(word, t[n])
      <4> DEFINE x == w[m]
      <4>1. x \in Phrases /\ Len(x) > 0 /\ 1 \in 1..Len(x) /\ Len(x) = 1
        BY <2>2, <3>1
      <4> HIDE DEF x
      <4>2. Len(Longer(x, t[n])) = 1 /\ Longer(x, t[n])[1] = Append(x[1], t[n])
        BY <2>2, <4>1, LongerIs
      <4> QED
        BY <3>1, <4>2 DEF x
    <3>3. word \in Seq(Alphanumeric) /\ Len(word) = m /\ \A i \in 1..m : word[i] = t[i]
      <4>1. word \in Seq(Alphanumeric)
        BY <2>2, <3>1, ElementOfSeq DEF Phrases
      <4> QED
        BY <2>3, <4>1
    <3> HIDE DEF word
    <3>4. /\ Len(w[n][1]) = m + 1 /\ w[n][1][m + 1] = t[n]
          /\ \A i \in 1..m : w[n][1][i] = t[i]
      BY <2>2, <3>2, <3>3, AppendProperties
    <3>5. \A i \in 1..n : i \in 1..m \/ i = m + 1
      BY <2>1
    <3> QED
      BY <2>1, <3>2, <3>4, <3>5
  <2>4. CASE m = 0
    <3>1. w[m] = <<>>
      BY <1>3, <2>4 DEF Reading
    <3>2. w[n] = <<<<t[n]>>>>
      BY <2>1, <2>2, <2>4, <3>1 DEF Read
    <3>3. n = 1
      BY <2>4
    <3>4. Len(w[n]) = 1 /\ w[n][1] = <<t[n]>> /\ Len(w[n][1]) = n /\ w[n][1][1] = t[n]
      BY <3>2, <3>3
    <3>5. \A i \in 1..n : i = n /\ i = 1
      BY <3>3
    <3>6. \A i \in 1..n : w[n][1][i] = t[i]
      BY <3>4, <3>5
    <3> QED
      BY <2>1, <3>4, <3>6
  <2> QED
    BY <2>1, <2>3, <2>4
<1>6. N \in T
  <2> HIDE DEF T, N
  <2>1. 0..N \subseteq T
    BY <1>1, <1>4, <1>5, UpTo
  <2> QED
    BY <1>1, <2>1
<1>7. w[N] \in Phrases /\ Len(w[N]) = 1 /\ Len(w[N][1]) = N /\ \A i \in 1..N : w[N][1][i] = t[i]
  BY <1>1, <1>3, <1>6 DEF Reading
<1>8. w[N][1] \in Seq(Alphanumeric)
  BY <1>7, ElementOfSeq DEF Phrases
<1>9. w[N][1] = t
  BY <1>7, <1>8, SeqEqual
<1>10. w[N] = <<w[N][1]>>
  BY <1>7 DEF Phrases
<1> QED
  BY <1>2, <1>3, <1>9, <1>10

-----------------------------------------------------------------------------
(* Parts put together *)

(* FlattenSeq, part by part.                                                *)
LEMMA FlattenSteps ==
  ASSUME NEW S, NEW parts \in Seq(Seq(S))
  PROVE  \E g \in [0..Len(parts) -> Seq(S)] :
           /\ g[0] = <<>>
           /\ \A n \in 1..Len(parts) : g[n] = g[n - 1] \o parts[n]
           /\ FlattenSeq(parts) = g[Len(parts)]
<1> DEFINE N == Len(parts)
           D == Seq(S)
           step == [p \in (1..N) \X D |-> p[2] \o parts[p[1]]]
<1>1. N \in Nat /\ <<>> \in D /\ \A n \in 1..N : parts[n] \in D
  BY LenProperties, EmptySeq, ElementOfSeq
<1>2. step \in [(1..N) \X D -> D]
  BY <1>1, ConcatProperties
<1>3. PICK g \in [0..N -> D] : Walk(g, N, <<>>, step)
  <2> HIDE DEF step, N, D
  <2> QED
    BY <1>1, <1>2, WalkExists
<1>4. g[0] = <<>> /\ \A n \in 1..N : g[n] = g[n - 1] \o parts[n]
  <2>1. \A n \in 0..N : g[n] = IF n = 0 THEN <<>> ELSE step[<<n, g[n - 1]>>]
    <3> HIDE DEF step, N, D
    <3> QED
      BY <1>3 DEF Walk
  <2>2. 0 \in 0..N /\ \A n \in 1..N : n \in 0..N /\ n # 0 /\ n - 1 \in 0..N
    BY <1>1
  <2>3. \A n \in 1..N : g[n - 1] \in D
    BY <2>2
  <2> HIDE DEF N, D
  <2> QED
    BY <2>1, <2>2, <2>3
<1> HIDE DEF step
<1>5. FlattenSeq(parts) = g[N]
  <2>1. CASE N = 0
    BY <1>4, <2>1, EmptySeq DEF FlattenSeq
  <2>2. CASE N # 0
    <3> DEFINE Flat(f) == f = [i \in 1..N |-> IF i = 1 THEN parts[i] ELSE f[i - 1] \o parts[i]]
               f == CHOOSE f : Flat(f)
               h == [i \in 1..N |-> g[i]]
    <3>1. ASSUME NEW i \in 1..N PROVE h[i] = IF i = 1 THEN parts[i] ELSE h[i - 1] \o parts[i]
      <4>1. CASE i = 1
        <5>1. g[1] = <<>> \o parts[1] /\ parts[1] \in D
          <6>1. 1 \in 1..N /\ 1 - 1 = 0
            BY <4>1
          <6> HIDE DEF N, D
          <6> QED
            BY <1>1, <1>4, <6>1
        <5>2. <<>> \o parts[1] = parts[1]
          BY <5>1, ConcatEmptySeq
        <5> QED
          BY <4>1, <5>1, <5>2
      <4>2. CASE i # 1
        <5>1. i - 1 \in 1..N
          BY <1>1, <4>2
        <5> QED
          BY <1>4, <4>2, <5>1
      <4> QED
        BY <4>1, <4>2
    <3>2. Flat(h)
      <4>1. h = [i \in 1..N |-> h[i]]
        OBVIOUS
      <4> HIDE DEF h, N
      <4> QED
        BY <3>1, <4>1
    <3>3. Flat(f)
      <4> HIDE DEF Flat
      <4> QED
        BY <3>2
    <3>4. FlattenSeq(parts) = f[N]
      BY <2>2 DEF FlattenSeq
    <3> HIDE DEF f
    <3> DEFINE U == {m \in 0..N : m > 0 => f[m] = g[m]}
    <3>5. 0 \in U
      BY <1>1
    <3>6. ASSUME NEW m \in U \cap (0..N - 1) PROVE m + 1 \in U
      <4> DEFINE n == m + 1
      <4>1. n \in 1..N /\ n \in 0..N /\ n - 1 = m /\ (n # 1 => m > 0 /\ m \in 1..N)
        BY <1>1
      <4>2. f[n] = IF n = 1 THEN parts[n] ELSE f[n - 1] \o parts[n]
        <5> HIDE DEF n, N
        <5> QED
          BY <3>3, <4>1
      <4>3. g[n] = h[n] /\ g[n] = IF n = 1 THEN parts[n] ELSE g[n - 1] \o parts[n]
        <5>1. h[n] = IF n = 1 THEN parts[n] ELSE h[n - 1] \o parts[n]
          BY <3>1, <4>1
        <5> QED
          BY <4>1, <5>1
      <4>4. n # 1 => f[m] = g[m]
        BY <4>1
      <4> QED
        BY <4>1, <4>2, <4>3, <4>4
    <3>7. N \in U
      <4> HIDE DEF U, N
      <4>1. 0..N \subseteq U
        BY <1>1, <3>5, <3>6, UpTo
      <4> QED
        BY <1>1, <4>1
    <3> QED
      BY <1>1, <2>2, <3>4, <3>7
  <2> QED
    BY <2>1, <2>2
<1> QED
  BY <1>4, <1>5

(* A part is in the whole from some place on.                               *)
Within(part, whole) ==
  \E i \in 0..Len(whole) - Len(part) : \A j \in 1..Len(part) : whole[i + j] = part[j]

(* What is put together keeps its parts.                                    *)
LEMMA WithinLonger ==
  ASSUME NEW S, NEW x \in Seq(S), NEW y \in Seq(S)
  PROVE  Within(y, x \o y) /\ \A p \in Seq(S) : Within(p, x) => Within(p, x \o y)
<1> DEFINE z == x \o y
<1>1. /\ Len(x) \in Nat /\ Len(y) \in Nat /\ Len(z) = Len(x) + Len(y)
      /\ \A i \in 1..Len(x) + Len(y) : z[i] = IF i <= Len(x) THEN x[i] ELSE y[i - Len(x)]
  BY LenProperties, ConcatProperties
<1> HIDE DEF z
<1>2. Within(y, z)
  <2>1. Len(x) \in 0..Len(z) - Len(y)
    BY <1>1
  <2>2. ASSUME NEW j \in 1..Len(y) PROVE z[Len(x) + j] = y[j]
    <3>1. /\ Len(x) + j \in 1..Len(x) + Len(y) /\ ~(Len(x) + j <= Len(x))
          /\ (Len(x) + j) - Len(x) = j
      BY <1>1
    <3> QED
      BY <1>1, <3>1
  <2> QED
    BY <2>1, <2>2 DEF Within
<1>3. ASSUME NEW p \in Seq(S), Within(p, x) PROVE Within(p, z)
  <2>1. Len(p) \in Nat
    BY LenProperties
  <2>2. PICK i \in 0..Len(x) - Len(p) : \A j \in 1..Len(p) : x[i + j] = p[j]
    BY <1>3 DEF Within
  <2>3. i \in 0..Len(z) - Len(p)
    BY <1>1, <2>1
  <2>4. ASSUME NEW j \in 1..Len(p) PROVE z[i + j] = p[j]
    <3>1. i + j \in 1..Len(x) + Len(y) /\ i + j <= Len(x)
      BY <1>1, <2>1
    <3> QED
      BY <1>1, <2>2, <3>1
  <2> QED
    BY <2>3, <2>4 DEF Within
<1> QED
  BY <1>2, <1>3 DEF z

(* All the parts are in the whole, and nothing else.                        *)
LEMMA FlattenIs ==
  ASSUME NEW S, NEW parts \in Seq(Seq(S))
  PROVE  /\ FlattenSeq(parts) \in Seq(S)
         /\ Range(FlattenSeq(parts)) = UNION {Range(p) : p \in Range(parts)}
         /\ \A p \in Range(parts) : Within(p, FlattenSeq(parts))
<1> DEFINE N == Len(parts)
<1>1. /\ N \in Nat /\ \A n \in 1..N : parts[n] \in Seq(S)
      /\ Range(parts) = {parts[n] : n \in 1..N}
  BY LenProperties, ElementOfSeq, RangeEquality
<1>2. PICK g \in [0..N -> Seq(S)] :
        /\ g[0] = <<>>
        /\ \A n \in 1..N : g[n] = g[n - 1] \o parts[n]
        /\ FlattenSeq(parts) = g[N]
  BY FlattenSteps
<1> DEFINE T == {n \in 0..N : /\ Range(g[n]) = UNION {Range(parts[k]) : k \in 1..n}
                              /\ \A k \in 1..n : Within(parts[k], g[n])}
<1>3. 0 \in T
  <2>1. Range(g[0]) = {}
    BY <1>2 DEF Range
  <2>2. 0 \in 0..N /\ \A k \in 1..0 : FALSE
    BY <1>1
  <2> QED
    BY <2>1, <2>2
<1>4. ASSUME NEW m \in T \cap (0..N - 1) PROVE m + 1 \in T
  <2> DEFINE n == m + 1
  <2>1. n \in 1..N /\ n \in 0..N /\ n - 1 = m /\ m \in 0..N /\ 1..n = 1..m \cup {n}
    BY <1>1
  <2>2. g[n] = g[m] \o parts[n] /\ g[m] \in Seq(S) /\ parts[n] \in Seq(S)
    BY <1>1, <1>2, <2>1
  <2>3. Range(g[n]) = Range(g[m]) \cup Range(parts[n])
    BY <2>2, RangeConcatenation
  <2>4. Within(parts[n], g[n]) /\ \A k \in 1..m : Within(parts[k], g[n])
    <3>1. \A k \in 1..m : parts[k] \in Seq(S) /\ Within(parts[k], g[m])
      BY <1>1, <2>1
    <3> QED
      BY <2>2, <3>1, WithinLonger
  <2>5. UNION {Range(parts[k]) : k \in 1..n}
          = (UNION {Range(parts[k]) : k \in 1..m}) \cup Range(parts[n])
    BY <2>1
  <2>6. Range(g[m]) = UNION {Range(parts[k]) : k \in 1..m}
    OBVIOUS
  <2>7. \A k \in 1..n : Within(parts[k], g[n])
    BY <2>1, <2>4
  <2>8. Range(g[n]) = UNION {Range(parts[k]) : k \in 1..n}
    BY <2>3, <2>5, <2>6
  <2> HIDE DEF n
  <2> QED
    BY <2>1, <2>7, <2>8 DEF n
<1>5. N \in T
  <2> HIDE DEF T, N
  <2>1. 0..N \subseteq T
    BY <1>1, <1>3, <1>4, UpTo
  <2> QED
    BY <1>1, <2>1
<1>6. UNION {Range(parts[k]) : k \in 1..N} = UNION {Range(p) : p \in Range(parts)}
  BY <1>1
<1> QED
  BY <1>1, <1>2, <1>5, <1>6

(* A part is kept once, if it has words.                                    *)
LEMMA WithPartIs ==
  ASSUME NEW S, NEW kept \in Seq(S), NEW p \in S
  PROVE  WithPart(kept, p) \in Seq(S) /\ Range(WithPart(kept, p)) = Range(kept) \cup ({p} \ {<<>>})
<1>1. CASE p = <<>> \/ p \in Range(kept)
  BY <1>1 DEF WithPart
<1>2. CASE ~(p = <<>> \/ p \in Range(kept))
  <2>1. WithPart(kept, p) = Append(kept, p) /\ Append(kept, p) = kept \o <<p>>
    BY <1>2, AppendIsConcat DEF WithPart
  <2>2. <<p>> \in Seq(S) /\ Range(<<p>>) = {p}
    BY DEF Range
  <2>3. kept \o <<p>> \in Seq(S) /\ Range(kept \o <<p>>) = Range(kept) \cup Range(<<p>>)
    BY <2>2, ConcatProperties, RangeConcatenation
  <2> QED
    BY <1>2, <2>1, <2>2, <2>3
<1> QED
  BY <1>1, <1>2

(* Only repetitions and parts without words are dropped.                   *)
LEMMA UniqueIs ==
  ASSUME NEW S, NEW parts \in Seq(S)
  PROVE  UniqueParts(parts) \in Seq(S) /\ Range(UniqueParts(parts)) = Range(parts) \ {<<>>}
<1> DEFINE N == Len(parts)
           D == Seq(S)
           step == [p \in (1..N) \X D |-> WithPart(p[2], parts[p[1]])]
<1>1. /\ N \in Nat /\ <<>> \in D /\ \A n \in 1..N : parts[n] \in S
      /\ Range(parts) = {parts[n] : n \in 1..N}
  BY LenProperties, EmptySeq, ElementOfSeq, RangeEquality
<1>2. step \in [(1..N) \X D -> D]
  BY <1>1, WithPartIs
<1>3. PICK g \in [0..N -> D] : Walk(g, N, <<>>, step)
  <2> HIDE DEF step, N, D
  <2> QED
    BY <1>1, <1>2, WalkExists
<1> DEFINE Recurs(f) == f = [n \in 0..N |-> IF n = 0 THEN <<>> ELSE WithPart(f[n - 1], parts[n])]
           f == CHOOSE f : Recurs(f)
<1>4. Recurs(g)
  <2>1. \A n \in 0..N : g[n] = IF n = 0 THEN <<>> ELSE step[<<n, g[n - 1]>>]
    <3> HIDE DEF step, N, D
    <3> QED
      BY <1>3 DEF Walk
  <2>2. ASSUME NEW n \in 0..N PROVE g[n] = IF n = 0 THEN <<>> ELSE WithPart(g[n - 1], parts[n])
    <3>1. n # 0 => n \in 1..N /\ n - 1 \in 0..N
      BY <1>1
    <3>2. n # 0 => g[n - 1] \in D
      BY <3>1
    <3> HIDE DEF N, D
    <3> QED
      BY <2>1, <3>1, <3>2
  <2>3. g = [n \in 0..N |-> g[n]]
    OBVIOUS
  <2> HIDE DEF N
  <2> QED
    BY <2>2, <2>3
<1>5. Recurs(f)
  <2> HIDE DEF Recurs
  <2> QED
    BY <1>4
<1>6. UniqueParts(parts) = f[N]
  BY DEF UniqueParts
<1> HIDE DEF f
<1>7. f[0] = <<>> /\ \A n \in 1..N : f[n] = WithPart(f[n - 1], parts[n])
  <2>1. 0 \in 0..N /\ \A n \in 1..N : n \in 0..N /\ n # 0
    BY <1>1
  <2> HIDE DEF N
  <2> QED
    BY <1>5, <2>1
<1> DEFINE T == {n \in 0..N : f[n] \in D /\ Range(f[n]) = {parts[k] : k \in 1..n} \ {<<>>}}
<1>8. 0 \in T
  <2>1. Range(f[0]) = {}
    BY <1>7 DEF Range
  <2>2. 0 \in 0..N /\ \A k \in 1..0 : FALSE
    BY <1>1
  <2> QED
    BY <1>1, <1>7, <2>1, <2>2
<1>9. ASSUME NEW m \in T \cap (0..N - 1) PROVE m + 1 \in T
  <2> DEFINE n == m + 1
  <2>1. n \in 1..N /\ n \in 0..N /\ n - 1 = m /\ 1..n = 1..m \cup {n}
    BY <1>1
  <2>2. f[n] = WithPart(f[m], parts[n]) /\ f[m] \in D /\ parts[n] \in S
    BY <1>1, <1>7, <2>1
  <2>3. f[n] \in D /\ Range(f[n]) = Range(f[m]) \cup ({parts[n]} \ {<<>>})
    <3> DEFINE kept == f[m]
               p == parts[n]
    <3>1. kept \in Seq(S) /\ p \in S /\ f[n] = WithPart(kept, p)
      BY <2>2
    <3> HIDE DEF n, kept, p
    <3>2. WithPart(kept, p) \in Seq(S) /\ Range(WithPart(kept, p)) = Range(kept) \cup ({p} \ {<<>>})
      BY <3>1, WithPartIs
    <3> QED
      BY <3>1, <3>2 DEF kept, p
  <2>4. Range(f[m]) = {parts[k] : k \in 1..m} \ {<<>>}
    OBVIOUS
  <2>5. {parts[k] : k \in 1..n} = {parts[k] : k \in 1..m} \cup {parts[n]}
    BY <2>1
  <2> HIDE DEF n, D
  <2> QED
    BY <2>1, <2>3, <2>4, <2>5 DEF n
<1>10. N \in T
  <2> HIDE DEF T, N
  <2>1. 0..N \subseteq T
    BY <1>1, <1>8, <1>9, UpTo
  <2> QED
    BY <1>1, <2>1
<1> QED
  BY <1>1, <1>6, <1>10

-----------------------------------------------------------------------------
(* Tokens *)

(* What a field holds: short words, and places left empty.                  *)
Token == {word \in Seq(Alphanumeric) : Len(word) < TokenLimit} \cup {None}

(* Only long words leave their place empty.                                 *)
LEMMA KeptIs ==
  /\ \A word \in Seq(Alphanumeric) : Kept(word) \in Token
  /\ \A word \in Token \ {None} : word \in Seq(Alphanumeric) /\ Kept(word) = word
BY DEF Kept, Token

(* Parts of one element each, put together.                                 *)
LEMMA Singles ==
  ASSUME NEW S, NEW e \in Seq(S), NEW parts, parts = [n \in 1..Len(e) |-> <<e[n]>>]
  PROVE  FlattenSeq(parts) = e
<1> DEFINE N == Len(e)
<1>1. N \in Nat /\ \A n \in 1..N : e[n] \in S
  BY LenProperties, ElementOfSeq
<1>2. /\ parts \in Seq(Seq(S)) /\ Len(parts) = N
      /\ \A n \in 1..N : parts[n] = <<e[n]>> /\ <<e[n]>> \in Seq(S)
  <2>1. \A n \in 1..N : parts[n] = <<e[n]>> /\ <<e[n]>> \in Seq(S)
    BY <1>1
  <2>2. parts \in [1..N -> Seq(S)]
    BY <2>1
  <2>3. parts \in Seq(Seq(S))
    BY <1>1, <2>2, SeqDef
  <2>4. DOMAIN parts = 1..Len(parts) /\ Len(parts) \in Nat
    BY <2>3, LenProperties
  <2>5. 1..Len(parts) = 1..N
    BY <2>2, <2>4
  <2>6. Len(parts) = N
    BY <1>1, <2>4, <2>5
  <2> QED
    BY <2>1, <2>3, <2>6
<1>3. PICK g \in [0..N -> Seq(S)] :
        /\ g[0] = <<>>
        /\ \A n \in 1..N : g[n] = g[n - 1] \o parts[n]
        /\ FlattenSeq(parts) = g[N]
  <2>1. \E g \in [0..Len(parts) -> Seq(S)] :
           /\ g[0] = <<>>
           /\ \A n \in 1..Len(parts) : g[n] = g[n - 1] \o parts[n]
           /\ FlattenSeq(parts) = g[Len(parts)]
    BY <1>2, FlattenSteps
  <2> HIDE DEF N
  <2> QED
    BY <1>2, <2>1, Zenon
<1> DEFINE T == {n \in 0..N : Len(g[n]) = n /\ \A k \in 1..n : g[n][k] = e[k]}
<1>4. 0 \in T
  <2>1. Len(g[0]) = 0
    BY <1>3, EmptySeq
  <2>2. 0 \in 0..N /\ \A k \in 1..0 : FALSE
    BY <1>1
  <2> QED
    BY <2>1, <2>2
<1>5. ASSUME NEW m \in T \cap (0..N - 1) PROVE m + 1 \in T
  <2> DEFINE n == m + 1
             x == g[m]
             y == <<e[n]>>
  <2>1. n \in 1..N /\ n \in 0..N /\ n - 1 = m /\ m \in 0..N
    BY <1>1
  <2>2. g[n] = x \o y /\ x \in Seq(S) /\ y \in Seq(S)
    BY <1>2, <1>3, <2>1
  <2>3. Len(x) = m /\ Len(y) = 1 /\ y[1] = e[n] /\ \A k \in 1..m : x[k] = e[k]
    OBVIOUS
  <2> HIDE DEF n, x, y
  <2>4. /\ Len(g[n]) = Len(x) + Len(y)
        /\ \A i \in 1..Len(x) + Len(y) : g[n][i] = IF i <= Len(x) THEN x[i] ELSE y[i - Len(x)]
    BY <2>2, ConcatProperties
  <2>5. Len(g[n]) = n /\ \A i \in 1..n : g[n][i] = IF i <= m THEN x[i] ELSE y[i - m]
    BY <2>3, <2>4 DEF n
  <2>6. ASSUME NEW k \in 1..n PROVE g[n][k] = e[k]
    <3>1. k \in 1..m \/ (k = n /\ k - m = 1 /\ ~(k <= m))
      BY <2>1
    <3> QED
      BY <2>3, <2>5, <3>1
  <2> QED
    BY <2>1, <2>5, <2>6 DEF n
<1>6. N \in T
  <2> HIDE DEF T, N
  <2>1. 0..N \subseteq T
    BY <1>1, <1>4, <1>5, UpTo
  <2> QED
    BY <1>1, <2>1
<1> QED
  BY <1>1, <1>3, <1>6, SeqEqual

(* Lower case leaves every character but one as it is.                      *)
LEMMA FoldedIs ==
  ASSUME NEW t \in Texts
  PROVE  Folded(t) \in Texts /\ (Dotted \notin Range(t) => Folded(t) = t)
<1> DEFINE C == Alphanumeric \cup Others \cup {Space}
           two == <<Plain, Dot>>
           parts == [n \in 1..Len(t) |-> IF t[n] = Dotted THEN two ELSE <<t[n]>>]
<1>1. /\ t \in Seq(C) /\ Len(t) \in Nat /\ \A n \in 1..Len(t) : t[n] \in C
      /\ Range(t) = {t[n] : n \in 1..Len(t)} /\ Texts = Seq(C)
  <2>1. t \in Seq(C) /\ Texts = Seq(C)
    BY DEF Texts
  <2> HIDE DEF C
  <2> QED
    BY <2>1, LenProperties, ElementOfSeq, RangeEquality
<1>2. Plain \in C /\ Dot \in C
  BY CharactersAssumption DEF Alphanumeric
<1>3. Folded(t) = FlattenSeq(parts)
  BY DEF Folded
<1> HIDE DEF C
<1>4. two \in Seq(C)
  BY <1>2
<1> HIDE DEF two
<1>5. parts \in [1..Len(t) -> Seq(C)]
  BY <1>1, <1>4
<1>6. parts \in Seq(Seq(C))
  BY <1>1, <1>5, SeqDef
<1>7. ASSUME Dotted \notin Range(t) PROVE parts = [n \in 1..Len(t) |-> <<t[n]>>]
  BY <1>1, <1>7
<1> HIDE DEF parts
<1>8. FlattenSeq(parts) \in Seq(C)
  BY <1>6, FlattenIs
<1>9. Dotted \notin Range(t) => FlattenSeq(parts) = t
  BY <1>1, <1>7, Singles
<1> QED
  BY <1>1, <1>3, <1>8, <1>9

(* A word the tokenizer leaves alone, but for its length.                   *)
LEMMA TokensOfWordIs ==
  ASSUME NEW word \in Seq(Alphanumeric)
  PROVE  /\ TokensOfWord(word) \in Seq(Token)
         /\ word # <<>> /\ Dotted \notin Range(word) => TokensOfWord(word) = <<Kept(word)>>
<1> DEFINE tokens == Words(Folded(word))
           kept == [n \in 1..Len(tokens) |-> Kept(tokens[n])]
<1>1. word \in Texts
  BY SeqMonotonic DEF Texts
<1>2. tokens \in Phrases
  BY <1>1, FoldedIs, WordsType
<1>3. TokensOfWord(word) = kept
  BY DEF TokensOfWord
<1>4. ASSUME word # <<>>, Dotted \notin Range(word) PROVE tokens = <<word>>
  BY <1>1, <1>4, FoldedIs, OneWord
<1> HIDE DEF tokens
<1>5. Len(tokens) \in Nat /\ \A n \in 1..Len(tokens) : tokens[n] \in Seq(Alphanumeric)
  BY <1>2, LenProperties, ElementOfSeq DEF Phrases
<1>6. kept \in [1..Len(tokens) -> Token]
  BY <1>5, KeptIs
<1>7. kept \in Seq(Token)
  BY <1>5, <1>6, SeqDef
<1>8. ASSUME word # <<>>, Dotted \notin Range(word) PROVE kept = <<Kept(word)>>
  <2>1. Len(tokens) = 1 /\ tokens[1] = word
    BY <1>4, <1>8
  <2>2. kept \in [1..1 -> Token] /\ kept[1] = Kept(word)
    BY <1>6, <2>1
  <2> HIDE DEF kept
  <2> QED
    BY <2>2
<1> QED
  BY <1>3, <1>7, <1>8

(* Words that the tokenizer leaves alone, but for their length.             *)
Undotted(words) == \A n \in 1..Len(words) : words[n] # <<>> /\ Dotted \notin Range(words[n])

(* Each of them has its place.                                              *)
LEMMA TokensAre ==
  ASSUME NEW words \in Phrases
  PROVE  /\ Tokens(words) \in Seq(Token)
         /\ Undotted(words) =>
              /\ Len(Tokens(words)) = Len(words)
              /\ \A n \in 1..Len(words) : Tokens(words)[n] = Kept(words[n])
<1> DEFINE N == Len(words)
           parts == [n \in 1..N |-> TokensOfWord(words[n])]
           kept == [n \in 1..N |-> Kept(words[n])]
<1>1. N \in Nat /\ \A n \in 1..N : words[n] \in Seq(Alphanumeric)
  BY LenProperties, ElementOfSeq DEF Phrases
<1>2. Tokens(words) = FlattenSeq(parts)
  BY DEF Tokens
<1>3. parts \in [1..N -> Seq(Token)] /\ kept \in [1..N -> Token]
  BY <1>1, TokensOfWordIs, KeptIs
<1>4. parts \in Seq(Seq(Token)) /\ kept \in Seq(Token)
  <2> HIDE DEF parts, kept, N
  <2> QED
    BY <1>1, <1>3, SeqDef
<1>5. Len(kept) = N
  <2>1. DOMAIN kept = 1..N /\ DOMAIN kept = 1..Len(kept) /\ Len(kept) \in Nat
    BY <1>3, <1>4, LenProperties
  <2> HIDE DEF kept, N
  <2> QED
    BY <1>1, <2>1
<1>6. ASSUME Undotted(words) PROVE parts = [n \in 1..Len(kept) |-> <<kept[n]>>]
  <2>1. \A n \in 1..N : TokensOfWord(words[n]) = <<kept[n]>>
    BY <1>1, <1>6, TokensOfWordIs DEF Undotted
  <2> QED
    BY <1>5, <2>1
<1> HIDE DEF parts
<1>7. Undotted(words) => FlattenSeq(parts) = kept
  <2> HIDE DEF kept
  <2> QED
    BY <1>4, <1>6, Singles
<1> QED
  BY <1>2, <1>4, <1>5, <1>7, FlattenIs

(* A field holds the tokens of each of its parts one after another, and     *)
(* nothing else.                                                            *)
LEMMA FieldIs ==
  ASSUME NEW parts \in Seq(Phrases)
  PROVE  /\ Field(parts) \in Seq(Token)
         /\ Range(Field(parts)) = UNION {Range(Tokens(p)) : p \in Range(parts) \ {<<>>}}
         /\ \A p \in Range(parts) : p # <<>> => Within(Tokens(p), Field(parts))
<1> DEFINE unique == UniqueParts(parts)
           N == Len(unique)
           all == [n \in 1..N |-> Tokens(unique[n])]
<1>1. unique \in Seq(Phrases) /\ Range(unique) = Range(parts) \ {<<>>}
  BY UniqueIs
<1>2. Field(parts) = FlattenSeq(all)
  BY DEF Field
<1> HIDE DEF unique
<1>3. N \in Nat /\ Range(unique) = {unique[n] : n \in 1..N} /\ \A n \in 1..N : unique[n] \in Phrases
  BY <1>1, LenProperties, ElementOfSeq, RangeEquality
<1>4. all \in [1..N -> Seq(Token)]
  BY <1>3, TokensAre
<1>5. all \in Seq(Seq(Token))
  BY <1>3, <1>4, SeqDef
<1>6. Range(all) = {Tokens(p) : p \in Range(unique)}
  <2>1. Range(all) = {all[n] : n \in 1..N}
    BY <1>4 DEF Range
  <2> QED
    BY <1>3, <2>1
<1> HIDE DEF all
<1>7. /\ FlattenSeq(all) \in Seq(Token)
      /\ Range(FlattenSeq(all)) = UNION {Range(q) : q \in Range(all)}
      /\ \A q \in Range(all) : Within(q, FlattenSeq(all))
  BY <1>5, FlattenIs
<1>8. UNION {Range(q) : q \in Range(all)} = UNION {Range(Tokens(p)) : p \in Range(unique)}
  BY <1>6
<1> QED
  BY <1>1, <1>2, <1>6, <1>7, <1>8

(* Every word has letters, and no others than its text.                     *)
LEMMA WordsUndotted ==
  ASSUME NEW t \in Texts, Dotted \notin Range(t)
  PROVE  Undotted(Words(t))
<1>1. PICK w : Reading(w, t) /\ Words(t) = w[Len(t)]
  BY ReadingExists
<1> DEFINE N == Len(t)
           T == {n \in 0..N : Undotted(w[n])}
<1>2. N \in Nat /\ \A n \in 1..N : t[n] # Dotted
  <2>1. Len(t) \in Nat /\ Range(t) = {t[n] : n \in 1..Len(t)}
    BY LenProperties, RangeEquality DEF Texts
  <2> QED
    BY <2>1
<1>3. 0 \in T
  <2>1. w[0] = <<>> /\ Len(w[0]) = 0
    BY <1>1 DEF Reading
  <2> QED
    BY <1>2, <2>1 DEF Undotted
<1>4. ASSUME NEW m \in T \cap (0..N - 1) PROVE m + 1 \in T
  <2> DEFINE n == m + 1
             x == w[m]
             c == t[n]
  <2>1. n \in 1..N /\ n \in 0..N /\ n - 1 = m /\ m \in 0..N /\ (n > 1 => m \in 1..N)
    BY <1>2
  <2>2. w[n] = Read(x, t, n) /\ x \in Phrases /\ c # Dotted /\ Undotted(x)
        /\ (n > 1 /\ t[n - 1] \in Alphanumeric => Len(x) > 0)
    BY <1>1, <1>2, <2>1 DEF Reading
  <2> HIDE DEF n, x
  <2>3. Len(x) \in Nat /\ \A j \in 1..Len(x) : x[j] \in Seq(Alphanumeric)
    BY <2>2, LenProperties, ElementOfSeq DEF Phrases
  <2>4. ASSUME c \in Alphanumeric PROVE <<c>> # <<>> /\ Dotted \notin Range(<<c>>) /\ <<c>> \in Seq(Alphanumeric)
    BY <2>2, <2>4 DEF Range
  <2>5. ASSUME c \notin Alphanumeric PROVE Undotted(w[n])
    <3>1. Read(x, t, n) = x
      BY <2>5 DEF Read
    <3> QED
      BY <2>2, <3>1
  <2>6. ASSUME c \in Alphanumeric, n > 1 /\ t[n - 1] \in Alphanumeric
        PROVE  Undotted(w[n])
    <3> HIDE DEF c
    <3>1. w[n] = Longer(x, c)
      BY <2>2, <2>6 DEF Read, c
    <3>2. /\ Len(w[n]) = Len(x)
          /\ \A j \in 1..Len(x) : w[n][j] = IF j = Len(x) THEN Append(x[j], c) ELSE x[j]
      BY <2>2, <2>6, <3>1, LongerIs
    <3>3. ASSUME NEW j \in 1..Len(x) PROVE w[n][j] # <<>> /\ Dotted \notin Range(w[n][j])
      <4> DEFINE word == x[j]
                 more == <<c>>
      <4>1. word \in Seq(Alphanumeric) /\ word # <<>> /\ Dotted \notin Range(word)
        BY <2>2, <2>3 DEF Undotted
      <4>2. more \in Seq(Alphanumeric) /\ Range(more) = {c} /\ Append(word, c) = word \o more
        BY <2>6, <4>1, AppendIsConcat DEF Range
      <4> HIDE DEF word, more
      <4>3. /\ Range(word \o more) = Range(word) \cup Range(more)
            /\ Len(word \o more) = Len(word) + Len(more)
        BY <4>1, <4>2, RangeConcatenation, ConcatProperties
      <4>4. Append(word, c) # <<>>
        <5>1. Len(Append(word, c)) = Len(word) + 1 /\ Len(word) \in Nat
          BY <2>6, <4>1, AppendProperties, LenProperties
        <5> QED
          BY <5>1
      <4>5. Dotted \notin Range(Append(word, c))
        BY <2>2, <4>1, <4>2, <4>3 DEF c
      <4>6. w[n][j] = Append(word, c) \/ w[n][j] = word
        BY <3>2 DEF word
      <4> QED
        BY <4>1, <4>4, <4>5, <4>6
    <3> QED
      BY <3>2, <3>3 DEF Undotted
  <2>7. ASSUME c \in Alphanumeric, ~(n > 1 /\ t[n - 1] \in Alphanumeric)
        PROVE  Undotted(w[n])
    <3> DEFINE word == <<c>>
    <3>1. w[n] = Append(x, word)
      BY <2>2, <2>7 DEF Read
    <3>2. word # <<>> /\ Dotted \notin Range(word) /\ word \in Seq(Alphanumeric)
      BY <2>4, <2>7
    <3> HIDE DEF word
    <3>3. /\ Len(w[n]) = Len(x) + 1 /\ w[n][Len(x) + 1] = word
          /\ \A j \in 1..Len(x) : w[n][j] = x[j]
      BY <2>2, <3>1, <3>2, AppendProperties DEF Phrases
    <3>4. \A j \in 1..Len(x) + 1 : j \in 1..Len(x) \/ j = Len(x) + 1
      BY <2>3
    <3> QED
      BY <2>2, <3>2, <3>3, <3>4 DEF Undotted
  <2>8. Undotted(w[n])
    <3> HIDE DEF c
    <3> QED
      BY <2>5, <2>6, <2>7
  <2>9. n \in T
    <3> HIDE DEF N
    <3> QED
      BY <2>1, <2>8
  <2> QED
    BY <2>9 DEF n
<1>5. N \in T
  <2> HIDE DEF T, N
  <2>1. 0..N \subseteq T
    BY <1>2, <1>3, <1>4, UpTo
  <2> QED
    BY <1>2, <2>1
<1> QED
  BY <1>1, <1>5

-----------------------------------------------------------------------------
(* Records and their documents *)

(* An absent text has no words.                                             *)
LEMMA WordsOfType ==
  ASSUME NEW t \in Texts \cup {None}
  PROVE  WordsOf(t) \in Phrases /\ (t # None => WordsOf(t) = Words(t))
BY WordsType, EmptySeq DEF WordsOf, Phrases

(* Words without their blanks are letters and digits.                       *)
LEMMA JoinedType ==
  ASSUME NEW words \in Phrases
  PROVE  FlattenSeq(words) \in Seq(Alphanumeric) /\ FlattenSeq(words) \in Texts
<1>1. FlattenSeq(words) \in Seq(Alphanumeric)
  BY FlattenIs DEF Phrases
<1> QED
  BY <1>1, SeqMonotonic DEF Texts

(* A postcode is a part as it is written, and without its blanks.           *)
LEMMA PostcodePartsAre ==
  ASSUME NEW t \in Texts \cup {None}
  PROVE  /\ PostcodeParts(t) \in Seq(Phrases)
         /\ Range(PostcodeParts(t)) =
              {WordsOf(t)} \cup (IF Len(WordsOf(t)) > 1 THEN {<<FlattenSeq(WordsOf(t))>>} ELSE {})
<1> DEFINE words == WordsOf(t)
           joined == <<FlattenSeq(words)>>
           more == IF Len(words) > 1 THEN <<joined>> ELSE <<>>
<1>1. words \in Phrases
  BY WordsOfType
<1> HIDE DEF words
<1>2. joined \in Phrases
  BY <1>1, JoinedType DEF Phrases
<1> HIDE DEF joined
<1> DEFINE first == <<words>>
<1>3. first \in Seq(Phrases) /\ Range(first) = {words}
  BY <1>1 DEF Range
<1>4. more \in Seq(Phrases) /\ Range(more) = IF Len(words) > 1 THEN {joined} ELSE {}
  BY <1>2 DEF Range
<1> HIDE DEF first, more
<1>5. first \o more \in Seq(Phrases) /\ Range(first \o more) = {words} \cup Range(more)
  BY <1>3, <1>4, ConcatProperties, RangeConcatenation
<1>6. PostcodeParts(t) = first \o more
  BY DEF PostcodeParts, words, first, more, joined
<1> QED
  BY <1>4, <1>5, <1>6 DEF words, joined

(* The parts of a subject, by layer.                                        *)
LEMMA SubjectPartsAre ==
  ASSUME NEW r \in Records
  PROVE  /\ SubjectParts(r) \in Seq(Phrases)
         /\ Range(SubjectParts(r)) =
              CASE r.layer = "address"       -> {WordsOf(r.name)} \cup Range(PostcodeParts(r.postcode))
                [] r.layer = "postcode"      -> Range(PostcodeParts(r.postcode))
                [] r.layer = "interpolation" -> {}
                [] OTHER                     -> {WordsOf(r.name)}
<1> DEFINE a == <<WordsOf(r.name)>>
           b == PostcodeParts(r.postcode)
<1>1. WordsOf(r.name) \in Phrases /\ b \in Seq(Phrases)
  BY RecordsAssumption, WordsOfType, PostcodePartsAre
<1>2. a \in Seq(Phrases) /\ Range(a) = {WordsOf(r.name)} /\ <<>> \in Seq(Phrases) /\ Range(<<>>) = {}
  BY <1>1 DEF Range
<1> HIDE DEF a, b
<1>3. a \o b \in Seq(Phrases) /\ Range(a \o b) = Range(a) \cup Range(b)
  BY <1>1, <1>2, ConcatProperties, RangeConcatenation
<1>4. SubjectParts(r) = CASE r.layer = "address"       -> a \o b
                          [] r.layer = "postcode"      -> b
                          [] r.layer = "interpolation" -> <<>>
                          [] OTHER                     -> a
  BY DEF SubjectParts, a, b
<1>5. CASE r.layer = "address"
  BY <1>2, <1>3, <1>4, <1>5 DEF b
<1>6. CASE r.layer = "postcode"
  BY <1>1, <1>4, <1>6 DEF b
<1>7. CASE r.layer = "interpolation"
  BY <1>2, <1>4, <1>7
<1>8. CASE r.layer \notin {"address", "postcode", "interpolation"}
  BY <1>2, <1>4, <1>8
<1> QED
  BY <1>5, <1>6, <1>7, <1>8

(* The parts of a content.                                                  *)
LEMMA ContentPartsAre ==
  ASSUME NEW r \in Records
  PROVE  /\ ContentParts(r) \in Seq(Phrases)
         /\ Range(ContentParts(r)) =
              {WordsOf(r.number), WordsOf(r.name)}
              \cup (IF r.layer = "interpolation" THEN {WordsOf(r.postcode)}
                    ELSE Range(PostcodeParts(r.postcode)))
<1> DEFINE a == <<WordsOf(r.number), WordsOf(r.name)>>
           b == IF r.layer = "interpolation" THEN <<WordsOf(r.postcode)>>
                ELSE PostcodeParts(r.postcode)
<1>1. /\ WordsOf(r.number) \in Phrases /\ WordsOf(r.name) \in Phrases
      /\ WordsOf(r.postcode) \in Phrases /\ PostcodeParts(r.postcode) \in Seq(Phrases)
  BY RecordsAssumption, WordsOfType, PostcodePartsAre
<1>2. a \in Seq(Phrases) /\ Range(a) = {WordsOf(r.number), WordsOf(r.name)}
  BY <1>1 DEF Range
<1>3. /\ b \in Seq(Phrases)
      /\ Range(b) = IF r.layer = "interpolation" THEN {WordsOf(r.postcode)}
                    ELSE Range(PostcodeParts(r.postcode))
  BY <1>1 DEF Range
<1>4. ContentParts(r) = a \o b
  BY DEF ContentParts
<1> HIDE DEF a, b
<1>5. a \o b \in Seq(Phrases) /\ Range(a \o b) = Range(a) \cup Range(b)
  BY <1>2, <1>3, ConcatProperties, RangeConcatenation
<1> QED
  BY <1>2, <1>3, <1>4, <1>5

(* The subject holds the tokens of each of its parts one after another, and *)
(* none that is not in the content.                                         *)
LEMMA SubjectIs ==
  ASSUME NEW r \in Records
  PROVE  /\ Subject(r) \in Seq(Token)
         /\ Range(Subject(r)) \subseteq Content(r)
         /\ \A p \in Range(SubjectParts(r)) : p # <<>> => Within(Tokens(p), Subject(r))
<1>1. SubjectParts(r) \in Seq(Phrases) /\ ContentParts(r) \in Seq(Phrases)
  BY SubjectPartsAre, ContentPartsAre
<1>2. Range(SubjectParts(r)) \subseteq Range(ContentParts(r))
  BY SubjectPartsAre, ContentPartsAre
<1>3. /\ Subject(r) \in Seq(Token)
      /\ Range(Subject(r)) = UNION {Range(Tokens(p)) : p \in Range(SubjectParts(r)) \ {<<>>}}
      /\ \A p \in Range(SubjectParts(r)) : p # <<>> => Within(Tokens(p), Subject(r))
  BY <1>1, FieldIs DEF Subject
<1>4. Content(r) = UNION {Range(Tokens(p)) : p \in Range(ContentParts(r)) \ {<<>>}}
  BY <1>1, FieldIs DEF Content
<1> QED
  BY <1>2, <1>3, <1>4

-----------------------------------------------------------------------------
(* What a prefix stands for *)

(* The image of a finite set is finite.                                     *)
LEMMA FiniteImage ==
  ASSUME NEW S, IsFiniteSet(S), NEW f, f = [x \in S |-> f[x]]
  PROVE  IsFiniteSet({f[x] : x \in S})
<1> DEFINE T == {f[x] : x \in S}
<1>1. f \in [S -> T] /\ \A y \in T : \E x \in S : f[x] = y
  OBVIOUS
<1>2. f \in Surjection(S, T)
  BY <1>1 DEF Surjection
<1> QED
  BY <1>2, FS_Surjection

(* There are so many words and no more.                                     *)
LEMMA VocabularyIs ==
  IsFiniteSet(Vocabulary) /\ Vocabulary \subseteq Token \ {None}
<1> DEFINE ranges == [r \in Records |-> Range(Subject(r))]
           all == {ranges[r] : r \in Records}
<1>1. Vocabulary = (UNION all) \ {None}
  BY DEF Vocabulary
<1>2. ASSUME NEW r \in Records PROVE IsFiniteSet(ranges[r]) /\ ranges[r] \subseteq Token
  <2> DEFINE subject == Subject(r)
             T == {subject[i] : i \in 1..Len(subject)}
  <2>1. subject \in Seq(Token)
    BY SubjectIs
  <2>2. ranges[r] = Range(subject)
    OBVIOUS
  <2> HIDE DEF subject, ranges
  <2>3. /\ Len(subject) \in Nat /\ Range(subject) = T /\ subject \in [1..Len(subject) -> Token]
    BY <2>1, LenProperties, RangeEquality
  <2>4. IsFiniteSet(1..Len(subject)) /\ subject = [i \in 1..Len(subject) |-> subject[i]]
    <3>1. 1 \in Int /\ Len(subject) \in Int
      BY <2>3
    <3>2. IsFiniteSet(1..Len(subject))
      BY <3>1, FS_Interval
    <3> QED
      BY <2>3, <3>2
  <2>5. IsFiniteSet(T)
    BY <2>4, FiniteImage
  <2>6. T \subseteq Token
    BY <2>3
  <2> QED
    BY <2>2, <2>3, <2>5, <2>6
<1>3. ranges = [r \in Records |-> ranges[r]]
  OBVIOUS
<1> HIDE DEF ranges
<1>4. IsFiniteSet(all)
  BY <1>3, FiniteImage, RecordsAssumption
<1>5. IsFiniteSet(UNION all)
  BY <1>2, <1>4, FS_UNION
<1>6. UNION all \subseteq Token
  BY <1>2
<1> DEFINE words == UNION all
           none == {None}
<1>7. words \subseteq Token /\ IsFiniteSet(words)
  BY <1>5, <1>6
<1>8. Vocabulary = words \ none
  BY <1>1
<1> HIDE DEF words, none
<1>9. IsFiniteSet(words \ none)
  BY <1>7, FS_Difference
<1> QED
  BY <1>7, <1>8, <1>9 DEF none

(* The words of a subject are in the dictionary.                            *)
LEMMA InVocabulary ==
  ASSUME NEW r \in Records, NEW word \in Range(Subject(r)), word # None
  PROVE  word \in Vocabulary
BY DEF Vocabulary

(* No word precedes itself.                                                 *)
LEMMA NotBeforeItself ==
  ASSUME NEW v \in Seq(Alphanumeric)
  PROVE  ~Precedes(v, v)
<1>1. ASSUME NEW i \in 1..Len(v) PROVE Rank[v[i]] \in Nat
  BY ElementOfSeq, CharactersAssumption
<1> QED
  BY <1>1 DEF Precedes

(* No completion precedes its prefix.                                       *)
LEMMA PrefixFirst ==
  ASSUME NEW v \in Seq(Alphanumeric), NEW w \in Seq(Alphanumeric), IsPrefix(w, v)
  PROVE  ~Precedes(v, w)
<1>1. Len(v) \in Nat /\ Len(w) \in Nat
  BY LenProperties
<1>2. Len(w) <= Len(v) /\ \A i \in 1..Len(w) : w[i] = v[i]
  BY PrefixMeans
<1>3. ASSUME IsPrefix(v, w) PROVE v = w
  <2>1. Len(v) <= Len(w)
    BY <1>3, PrefixMeans
  <2>2. Len(v) = Len(w)
    BY <1>1, <1>2, <2>1
  <2> QED
    BY <1>2, <2>2, SeqEqual
<1>4. ASSUME NEW i \in 1..Len(v), i <= Len(w) PROVE ~(Rank[v[i]] < Rank[w[i]])
  <2>1. i \in 1..Len(w) /\ v[i] \in Alphanumeric
    BY <1>1, <1>4, ElementOfSeq
  <2>2. Rank[v[i]] \in Nat /\ w[i] = v[i]
    BY <1>2, <2>1, CharactersAssumption
  <2> QED
    BY <2>2
<1> QED
  BY <1>3, <1>4 DEF Precedes

(* A complete word is among its expansions; any completion is, when there   *)
(* are no more completions than expansions.                                 *)
LEMMA Reaches ==
  ASSUME NEW w \in Seq(Alphanumeric), NEW word \in Completions(w),
         word = w \/ Cardinality(Completions(w)) <= MaxExpansions
  PROVE  word \in Expansions(w)
<1> DEFINE C == Completions(w)
           before == {v \in C : Precedes(v, word)}
<1>1. IsFiniteSet(C)
  <2>1. C \in SUBSET Vocabulary
    BY DEF Completions
  <2> QED
    BY <2>1, VocabularyIs, FS_Subset
<1>2. \A v \in C : v \in Seq(Alphanumeric) /\ IsPrefix(w, v)
  BY VocabularyIs, KeptIs DEF Completions
<1>3. word \in Expansions(w) <=> Cardinality(before) < MaxExpansions
  BY DEF Expansions
<1>4. word \in C /\ MaxExpansions \in Nat /\ MaxExpansions > 0
  BY LimitsAssumption
<1> HIDE DEF C
<1>5. CASE word = w
  <2>1. before = {}
    BY <1>2, <1>5, PrefixFirst
  <2>2. Cardinality(before) = 0
    BY <2>1, FS_EmptySet
  <2> QED
    BY <1>3, <1>4, <2>2
<1>6. CASE Cardinality(C) <= MaxExpansions
  <2>1. before \in SUBSET (C \ {word})
    BY <1>2, <1>4, NotBeforeItself
  <2>2. IsFiniteSet(C \ {word}) /\ Cardinality(C \ {word}) = Cardinality(C) - 1
    BY <1>1, <1>4, FS_RemoveElement
  <2> DEFINE others == C \ {word}
  <2> HIDE DEF before, others
  <2>3. IsFiniteSet(before) /\ Cardinality(before) <= Cardinality(others)
    BY <2>1, <2>2, FS_Subset DEF others
  <2>4. Cardinality(before) \in Nat /\ Cardinality(C) \in Nat
    BY <1>1, <2>3, FS_CardinalityType
  <2>5. Cardinality(before) < MaxExpansions
    BY <1>4, <1>6, <2>2, <2>3, <2>4 DEF others
  <2> QED
    BY <1>3, <2>5 DEF before
<1> QED
  BY <1>4, <1>5, <1>6 DEF C

-----------------------------------------------------------------------------
(* Search finds what is suggested *)

(* One record, one text: what is suggested is found.                        *)
LEMMA Finds ==
  ASSUME NEW r \in Records, NEW t \in Texts,
         Suggested(r, t), Last(Words(t)) \in Range(Subject(r))
  PROVE  Found(r, t)
<1> DEFINE words == Words(t)
           number == NumberOf(words)
           tokens == SubjectTokens(words)
           subject == Subject(r)
           N == Len(words)
<1>1. words \in Phrases /\ subject \in Seq(Token) /\ Range(subject) \subseteq Content(r)
  BY WordsType, SubjectIs
<1>2. /\ number # None => AddressNumber(r) = <<number>>
      /\ tokens # <<>> /\ PhrasePrefix(tokens, subject)
      /\ words[N] \in Range(subject)
  BY DEF Suggested, Last
<1>3. /\ number # None => N > 1 /\ number = words[1]
      /\ tokens = IF number = None THEN words ELSE Tail(words)
  BY DEF NumberOf, SubjectTokens
<1> HIDE DEF words, number, tokens, subject
<1>4. /\ N \in Nat /\ Len(subject) \in Nat /\ Range(subject) = {subject[i] : i \in 1..Len(subject)}
      /\ Range(words) = {words[j] : j \in 1..N}
      /\ \A j \in 1..N : words[j] \in Seq(Alphanumeric)
  BY <1>1, LenProperties, RangeEquality, ElementOfSeq DEF Phrases
<1>5. PICK i \in 0..Len(subject) - Len(tokens) : \A j \in 1..Len(tokens) :
        IF j < Len(tokens) THEN subject[i + j] = tokens[j]
        ELSE subject[i + j] \in Expansions(tokens[j])
  BY <1>2 DEF PhrasePrefix
<1>6. ASSUME NEW j \in 1..Len(tokens), j < Len(tokens), Len(tokens) \in Nat
      PROVE  tokens[j] \in Range(subject)
  <2>1. i + j \in 1..Len(subject) /\ subject[i + j] = tokens[j]
    BY <1>4, <1>5, <1>6
  <2> QED
    BY <1>4, <2>1
<1>7. ASSUME NEW j \in 1..N
      PROVE  words[j] \in Range(subject) \/ <<words[j]>> = AddressNumber(r)
  <2>1. CASE j = N
    BY <1>2, <2>1
  <2>2. CASE number = None /\ j # N
    <3>1. tokens = words /\ j < N
      BY <1>3, <1>4, <2>2
    <3> QED
      BY <1>4, <1>6, <3>1
  <2>3. CASE number # None /\ j = 1
    BY <1>2, <1>3, <2>3
  <2>4. CASE number # None /\ j # N /\ j # 1
    <3>1. tokens = Tail(words) /\ words # <<>>
      BY <1>3, <2>4
    <3>2. Len(tokens) = N - 1 /\ \A k \in 1..Len(tokens) : tokens[k] = words[k + 1]
      BY <1>1, <3>1, HeadTailProperties DEF Phrases
    <3>3. j - 1 \in 1..Len(tokens) /\ j - 1 < Len(tokens) /\ (j - 1) + 1 = j /\ Len(tokens) \in Nat
      BY <1>4, <2>4, <3>2
    <3>4. tokens[j - 1] = words[j]
      BY <3>2, <3>3
    <3> QED
      BY <1>6, <3>3, <3>4
  <2> QED
    BY <2>1, <2>2, <2>3, <2>4
<1>8. ASSUME NEW j \in 1..N, words[j] \in Range(subject)
      PROVE  Kept(words[j]) = words[j] /\ words[j] \in Content(r)
  <2>1. words[j] \in Token
    BY <1>1, <1>8, RangeOfSeq
  <2>2. words[j] # None
    <3>1. words[j] \in Texts
      BY <1>4, SeqMonotonic DEF Texts
    <3> QED
      BY <3>1, CharactersAssumption
  <2> QED
    BY <1>1, <1>8, <2>1, <2>2, KeptIs
<1>9. \A word \in Range(words) :
         \/ Kept(word) = word /\ word \in Content(r)
         \/ <<word>> = AddressNumber(r)
  BY <1>4, <1>7, <1>8
<1> QED
  BY <1>9 DEF Found, words

-----------------------------------------------------------------------------
(* What is typed suggests its record *)

(* Nothing typed is no word.                                                *)
LEMMA NothingRead ==
  Words(<<>>) = <<>> /\ Len(FlattenSeq(<<>>)) = 0
<1>1. <<>> \in Texts /\ Len(<<>>) = 0
  BY EmptySeq DEF Texts
<1>2. Words(<<>>) = <<>>
  BY <1>1, ReadingExists DEF Reading
<1>3. FlattenSeq(<<>>) = <<>>
  BY <1>1 DEF FlattenSeq
<1> QED
  BY <1>1, <1>2, <1>3

(* The first letter or digit of a text is that of its first word.           *)
LEMMA FirstCharacter ==
  ASSUME NEW t \in Texts, t # <<>>, t[1] \in Alphanumeric
  PROVE  Len(Words(t)) >= 1 /\ Words(t)[1][1] = t[1]
<1>1. Len(t) \in Nat /\ 1 \in 1..Len(t) /\ 1 \in 0..Len(t) /\ 1 - 1 = 0
  BY LenProperties, EmptySeq DEF Texts
<1>2. PICK w : Reading(w, t)
  BY ReadingExists
<1>3. w[1] = <<<<t[1]>>>>
  <2>1. w[1] = Read(<<>>, t, 1)
    BY <1>1, <1>2 DEF Reading
  <2>2. ~(1 > 1)
    OBVIOUS
  <2> QED
    BY <2>1, <2>2 DEF Read
<1>4. Begins(w[1], Words(t))
  BY <1>1, <1>2, ReadingGrows
<1> DEFINE first == <<t[1]>>
           word == Words(t)[1]
<1>5. Len(Words(t)) >= 1 /\ IsPrefix(first, word)
  BY <1>3, <1>4 DEF Begins
<1>6. word \in Seq(Alphanumeric) /\ first \in Seq(Alphanumeric) /\ Len(first) = 1 /\ first[1] = t[1]
  <2>1. Words(t) \in Phrases /\ 1 \in 1..Len(Words(t))
    BY <1>5, WordsType, LenProperties DEF Phrases
  <2> QED
    BY <2>1, ElementOfSeq DEF Phrases
<1> HIDE DEF first, word
<1>7. \A i \in 1..Len(first) : first[i] = word[i]
  BY <1>5, <1>6, PrefixMeans
<1>8. 1 \in 1..Len(first)
  BY <1>6
<1> QED
  BY <1>5, <1>6, <1>7, <1>8 DEF word

(* The words of a part are kept as far as they are begun, and the last one  *)
(* begun can be told from the others.                                       *)
Reached(tokens, part) ==
  /\ \A n \in 1..Len(tokens) : Len(part[n]) < TokenLimit
  /\ \/ Last(tokens) = part[Len(tokens)]
     \/ Cardinality(Completions(Last(tokens))) <= MaxExpansions

(* Words that begin a part of the subject are a phrase of it.               *)
LEMMA PhraseOfPart ==
  ASSUME NEW r \in Records, NEW part \in Range(SubjectParts(r)), Undotted(part),
         NEW tokens \in Phrases, Begins(tokens, part), tokens # <<>>, Reached(tokens, part)
  PROVE  PhrasePrefix(tokens, Subject(r))
<1> DEFINE subject == Subject(r)
           kept == Tokens(part)
           N == Len(tokens)
<1>1. part \in Phrases
  BY SubjectPartsAre, RangeOfSeq
<1>2. N \in Nat /\ N > 0 /\ Len(part) \in Nat /\ N <= Len(part)
  BY <1>1, LenProperties, EmptySeq DEF Phrases, Begins
<1>3. part # <<>>
  BY <1>2
<1>4. Within(kept, subject) /\ Len(subject) \in Nat /\ subject \in Seq(Token)
  BY <1>3, SubjectIs, LenProperties
<1>5. Len(kept) = Len(part) /\ \A j \in 1..Len(part) : kept[j] = Kept(part[j])
  BY <1>1, TokensAre
<1> HIDE DEF subject, kept
<1>6. PICK i \in 0..Len(subject) - Len(part) : \A j \in 1..Len(part) : subject[i + j] = kept[j]
  BY <1>4, <1>5 DEF Within
<1>7. i \in 0..Len(subject) - N
  BY <1>2, <1>4
<1>8. ASSUME NEW j \in 1..N
      PROVE  /\ subject[i + j] = part[j] /\ part[j] \in Seq(Alphanumeric)
             /\ tokens[j] \in Seq(Alphanumeric) /\ part[j] \in Vocabulary
  <2>1. j \in 1..Len(part) /\ i + j \in 1..Len(subject)
    BY <1>2, <1>4
  <2>2. part[j] \in Seq(Alphanumeric) /\ tokens[j] \in Seq(Alphanumeric)
    BY <1>1, <2>1, ElementOfSeq DEF Phrases
  <2>3. Kept(part[j]) = part[j]
    BY DEF Reached, Kept
  <2>4. subject[i + j] = part[j]
    BY <1>5, <1>6, <2>1, <2>3
  <2>5. part[j] # None
    <3>1. part[j] \in Texts
      BY <2>2, SeqMonotonic DEF Texts
    <3> QED
      BY <3>1, CharactersAssumption
  <2>6. part[j] \in Range(subject)
    <3>1. Range(subject) = {subject[k] : k \in 1..Len(subject)}
      BY <1>4, RangeEquality
    <3> QED
      BY <2>1, <2>4, <3>1
  <2>7. part[j] \in Vocabulary
    BY <2>5, <2>6, InVocabulary DEF subject
  <2> QED
    BY <2>2, <2>4, <2>7
<1>9. ASSUME NEW j \in 1..N
      PROVE  IF j < N THEN subject[i + j] = tokens[j] ELSE subject[i + j] \in Expansions(tokens[j])
  <2>1. CASE j < N
    BY <1>8, <2>1 DEF Begins
  <2>2. CASE ~(j < N)
    <3>1. j = N /\ Last(tokens) = tokens[j]
      BY <1>2, <2>2 DEF Last
    <3>2. IsPrefix(tokens[j], part[j])
      BY <2>2 DEF Begins
    <3>3. part[j] \in Completions(tokens[j])
      BY <1>8, <3>2 DEF Completions
    <3>4. part[j] = tokens[j] \/ Cardinality(Completions(tokens[j])) <= MaxExpansions
      BY <3>1 DEF Reached
    <3>5. part[j] \in Expansions(tokens[j])
      BY <1>8, <3>3, <3>4, Reaches
    <3> QED
      BY <1>8, <2>2, <3>5
  <2> QED
    BY <2>1, <2>2
<1>10. PhrasePrefix(tokens, subject)
  BY <1>7, <1>9 DEF PhrasePrefix
<1> QED
  BY <1>10 DEF subject

(* The tokenizer leaves the letters of a query as they are.                 *)
LEMMA JoinedFolded ==
  ASSUME NEW words \in Phrases, Undotted(words)
  PROVE  Folded(FlattenSeq(words)) = FlattenSeq(words)
<1>1. /\ FlattenSeq(words) \in Texts
      /\ Range(FlattenSeq(words)) = UNION {Range(p) : p \in Range(words)}
  BY JoinedType, FlattenIs DEF Phrases
<1>2. Range(words) = {words[n] : n \in 1..Len(words)}
  BY RangeEquality DEF Phrases
<1>3. Dotted \notin Range(FlattenSeq(words))
  BY <1>1, <1>2 DEF Undotted
<1> QED
  BY <1>1, <1>3, FoldedIs

(* A phrase of one word.                                                    *)
LEMMA OnlyWord ==
  ASSUME NEW words \in Phrases, Len(words) = 1
  PROVE  words[1] \in Seq(Alphanumeric) /\ words = <<words[1]>>
<1>1. 1 \in 1..Len(words)
  OBVIOUS
<1>2. words[1] \in Seq(Alphanumeric)
  BY <1>1, ElementOfSeq DEF Phrases
<1>3. words = <<words[1]>>
  BY DEF Phrases
<1> QED
  BY <1>2, <1>3

(* With or without its blanks, a postcode is a part of the subject.         *)
LEMMA SpellingIsPart ==
  ASSUME NEW postcode \in Texts, NEW form \in Spellings(postcode), Words(form) # <<>>
  PROVE  Words(form) \in Range(PostcodeParts(postcode))
<1> DEFINE words == Words(postcode)
           joined == FlattenSeq(words)
<1>1. /\ words \in Phrases /\ WordsOf(postcode) = words
      /\ Range(PostcodeParts(postcode)) =
           {words} \cup (IF Len(words) > 1 THEN {<<joined>>} ELSE {})
  BY CharactersAssumption, WordsOfType, PostcodePartsAre
<1>2. form \in {postcode, joined}
  BY CharactersAssumption DEF Spellings
<1>3. CASE form = postcode
  BY <1>1, <1>3
<1>4. CASE form = joined
  <2>1. joined # <<>>
    BY <1>4, NothingRead
  <2>2. Words(form) = <<joined>>
    BY <1>1, <1>4, <2>1, JoinedType, OneWord
  <2>3. CASE Len(words) > 1
    BY <1>1, <2>2, <2>3
  <2>4. CASE ~(Len(words) > 1)
    <3> DEFINE N == Len(words)
    <3>1. N \in Nat /\ (words # <<>> => N # 0) /\ words \in Seq(Seq(Alphanumeric))
      BY <1>1, LenProperties, EmptySeq DEF Phrases
    <3>2. PICK g \in [0..N -> Seq(Alphanumeric)] :
            /\ g[0] = <<>>
            /\ \A n \in 1..N : g[n] = g[n - 1] \o words[n]
            /\ joined = g[N]
      <4> HIDE DEF words
      <4> QED
        BY <3>1, FlattenSteps
    <3>3. N = 1
      BY <2>1, <2>4, <3>1, <3>2
    <3>4. words[1] \in Seq(Alphanumeric)
      BY <1>1, <3>3, OnlyWord
    <3>5. joined = <<>> \o words[1]
      <4>1. 1 \in 1..N /\ 1 - 1 = 0
        BY <3>3
      <4> HIDE DEF N, words, joined
      <4> QED
        BY <3>2, <3>3, <4>1
    <3>6. joined = words[1]
      BY <3>4, <3>5, ConcatEmptySeq
    <3>7. words = <<words[1]>>
      BY <1>1, <3>3, OnlyWord
    <3> QED
      BY <1>1, <2>2, <3>6, <3>7
  <2> QED
    BY <2>3, <2>4
<1> QED
  BY <1>2, <1>3, <1>4

(* An address typed by its number and its street.                           *)
LEMMA SuggestsAddress ==
  ASSUME NEW r \in Records, r.layer = "address", PlainNumber(r.number),
         NEW t \in Texts, Begins(Words(t), Words(Name(r))),
         Len(Words(t)) > 1, Len(FlattenSeq(Words(t))) >= 3,
         Undotted(Words(t)), Undotted(Words(Name(r))), Reached(Words(t), Words(Name(r)))
  PROVE  Suggested(r, t)
<1> DEFINE words == Words(t)
           a == Words(r.number)
           b == Words(r.name)
           tokens == Tail(words)
<1>1. r.number \in Texts /\ r.name \in Texts /\ r.number # None /\ r.name # None
  BY RecordsAssumption
<1>2. words \in Phrases /\ a \in Phrases /\ b \in Phrases
  BY <1>1, WordsType
<1>3. Words(Name(r)) = a \o b
  BY <1>1, WordsTogether DEF Name
<1>4. Len(a) = 1 /\ r.number[1] \in Alphanumeric /\ r.number[1] \in Digits
  BY DEF PlainNumber, Alphanumeric
<1>5. a[1][1] \in Digits
  <2>1. r.number # <<>>
    BY <1>4, NothingRead, EmptySeq
  <2> QED
    BY <1>1, <1>4, <2>1, FirstCharacter
<1>6. WordsOf(r.number) = a /\ WordsOf(r.name) = b
  BY <1>1, WordsOfType
<1>7. b \in Range(SubjectParts(r))
  BY <1>6, SubjectPartsAre
<1>8. /\ Begins(words, a \o b) /\ Len(words) > 1
      /\ Undotted(a \o b) /\ Reached(words, a \o b)
  BY <1>3
<1>9. Len(Folded(FlattenSeq(words))) >= MinAutocompleteQueryChars
  BY <1>2, JoinedFolded DEF MinAutocompleteQueryChars
<1>10. AddressNumber(r) = a
  BY <1>6 DEF AddressNumber
<1> HIDE DEF words, a, b
<1>11. /\ Len(words) \in Nat /\ Len(b) \in Nat /\ Len(a \o b) = 1 + Len(b)
       /\ \A i \in 1..1 + Len(b) : (a \o b)[i] = IF i <= 1 THEN a[i] ELSE b[i - 1]
  <2>1. /\ Len(words) \in Nat /\ Len(b) \in Nat /\ Len(a \o b) = Len(a) + Len(b)
        /\ \A i \in 1..Len(a) + Len(b) : (a \o b)[i] = IF i <= Len(a) THEN a[i] ELSE b[i - Len(a)]
    BY <1>2, LenProperties, ConcatProperties DEF Phrases
  <2> QED
    BY <1>4, <2>1
<1>12. words[1] = a[1]
  <2>1. 1 \in 1..Len(words) /\ 1 < Len(words)
    BY <1>8, <1>11
  <2>2. (a \o b)[1] = words[1]
    BY <1>8, <2>1 DEF Begins
  <2>3. 1 \in 1..1 + Len(b) /\ 1 <= 1
    BY <1>11
  <2> QED
    BY <1>11, <2>2, <2>3
<1>13. a = <<words[1]>> /\ words[1] # None
  <2>1. a[1] \in Seq(Alphanumeric) /\ a = <<a[1]>>
    BY <1>2, <1>4, OnlyWord
  <2>2. a[1] \in Texts
    BY <2>1, SeqMonotonic DEF Texts
  <2> QED
    BY <1>12, <2>1, <2>2, CharactersAssumption
<1>14. NumberOf(words) = words[1] /\ SubjectTokens(words) = tokens
  <2>1. NumberOf(words) = words[1]
    BY <1>5, <1>8, <1>12 DEF NumberOf, StartsWithDigit
  <2> QED
    BY <1>13, <2>1 DEF SubjectTokens
<1>15. /\ tokens \in Phrases /\ Len(tokens) = Len(words) - 1 /\ tokens # <<>>
       /\ \A j \in 1..Len(tokens) : tokens[j] = words[j + 1]
  <2>1. words # <<>>
    BY <1>8
  <2>2. /\ tokens \in Phrases /\ Len(tokens) = Len(words) - 1
        /\ \A j \in 1..Len(tokens) : tokens[j] = words[j + 1]
    BY <1>2, <2>1, HeadTailProperties DEF Phrases
  <2>3. Len(tokens) # 0
    BY <1>8, <1>11, <2>2
  <2> HIDE DEF tokens
  <2> QED
    BY <2>2, <2>3
<1> HIDE DEF tokens
<1>16. Begins(tokens, b)
  <2>1. Len(tokens) <= Len(b)
    BY <1>8, <1>11, <1>15 DEF Begins
  <2>2. ASSUME NEW j \in 1..Len(tokens)
        PROVE  IF j < Len(tokens) THEN b[j] = tokens[j] ELSE IsPrefix(tokens[j], b[j])
    <3>1. /\ j + 1 \in 1..Len(words) /\ (j < Len(tokens) <=> j + 1 < Len(words))
          /\ j + 1 \in 1..1 + Len(b) /\ ~(j + 1 <= 1) /\ (j + 1) - 1 = j
      BY <1>11, <1>15, <2>1
    <3>2. (a \o b)[j + 1] = b[j] /\ tokens[j] = words[j + 1]
      BY <1>11, <1>15, <3>1
    <3>3. IF j + 1 < Len(words) THEN (a \o b)[j + 1] = words[j + 1]
          ELSE IsPrefix(words[j + 1], (a \o b)[j + 1])
      BY <1>8, <3>1 DEF Begins
    <3> QED
      BY <3>1, <3>2, <3>3
  <2> QED
    BY <2>1, <2>2 DEF Begins
<1>17. Undotted(b)
  <2>1. ASSUME NEW j \in 1..Len(b) PROVE b[j] # <<>> /\ Dotted \notin Range(b[j])
    <3>1. j + 1 \in 1..1 + Len(b) /\ ~(j + 1 <= 1) /\ (j + 1) - 1 = j
      BY <1>11
    <3>2. j + 1 \in 1..Len(a \o b) /\ (a \o b)[j + 1] = b[j]
      BY <1>11, <3>1
    <3> QED
      BY <1>8, <3>2 DEF Undotted
  <2> QED
    BY <2>1 DEF Undotted
<1>18. Reached(tokens, b)
  <2>1. Len(tokens) \in Nat /\ Len(tokens) <= Len(b) /\ Len(words) = Len(tokens) + 1 /\ Len(tokens) > 0
    BY <1>8, <1>11, <1>15 DEF Begins
  <2>2. ASSUME NEW j \in 1..Len(tokens)
        PROVE  j + 1 \in 1..Len(words) /\ (a \o b)[j + 1] = b[j]
    <3>1. j + 1 \in 1..1 + Len(b) /\ ~(j + 1 <= 1) /\ (j + 1) - 1 = j /\ j + 1 \in 1..Len(words)
      BY <1>11, <2>1
    <3> QED
      BY <1>11, <3>1
  <2>3. \A j \in 1..Len(tokens) : Len(b[j]) < TokenLimit
    BY <1>8, <2>2 DEF Reached
  <2>4. Last(tokens) = Last(words) /\ b[Len(tokens)] = (a \o b)[Len(words)]
    <3>1. Len(tokens) \in 1..Len(tokens)
      BY <2>1
    <3> QED
      BY <1>15, <2>1, <2>2, <3>1 DEF Last
  <2> QED
    BY <1>8, <2>3, <2>4 DEF Reached
<1>19. PhrasePrefix(tokens, Subject(r))
  BY <1>7, <1>15, <1>16, <1>17, <1>18, PhraseOfPart
<1> QED
  BY <1>9, <1>10, <1>13, <1>14, <1>15, <1>19 DEF Suggested, words

(* Anything else, as long as it does not look like an address.              *)
LEMMA SuggestsName ==
  ASSUME NEW r \in Records, r.layer # "interpolation", NEW form \in Forms(r),
         ~(r.layer = "address" /\ form = Name(r)),
         NEW t \in Texts, Begins(Words(t), Words(form)),
         ~(Len(Words(t)) > 1 /\ StartsWithDigit(Words(t)[1])),
         Len(FlattenSeq(Words(t))) >= 3,
         Undotted(Words(t)), Undotted(Words(form)), Reached(Words(t), Words(form))
  PROVE  Suggested(r, t)
<1> DEFINE words == Words(t)
<1>1. words \in Phrases /\ words # <<>>
  BY WordsType, NothingRead
<1>2. Words(form) # <<>>
  <2>1. Len(words) \in Nat /\ Len(words) > 0
    BY <1>1, LenProperties, EmptySeq DEF Phrases
  <2>2. Len(words) <= Len(Words(form))
    BY DEF Begins
  <2> QED
    BY <2>1, <2>2
<1>3. Words(form) \in Range(SubjectParts(r))
  <2>1. CASE form \in Spellings(r.postcode)
    <3>1. r.postcode \in Texts /\ r.layer \in {"address", "postcode"}
      BY <2>1, RecordsAssumption DEF Spellings
    <3>2. Words(form) \in Range(PostcodeParts(r.postcode))
      BY <1>2, <2>1, <3>1, SpellingIsPart
    <3>3. CASE r.layer = "address"
      BY <3>2, <3>3, SubjectPartsAre
    <3>4. CASE r.layer = "postcode"
      BY <3>2, <3>4, SubjectPartsAre
    <3> QED
      BY <3>1, <3>3, <3>4
  <2>2. CASE form \notin Spellings(r.postcode)
    <3>1. r.layer # "postcode" /\ form = Name(r) /\ r.layer # "address"
      BY <2>2 DEF Forms
    <3>2. form = r.name /\ r.name \in Texts /\ r.name # None
      BY <3>1, RecordsAssumption DEF Name
    <3>3. WordsOf(r.name) = Words(form)
      BY <3>2, WordsOfType
    <3> QED
      BY <3>1, <3>3, SubjectPartsAre
  <2> QED
    BY <2>1, <2>2
<1>4. NumberOf(words) = None
  BY DEF NumberOf
<1>5. SubjectTokens(words) = words
  BY <1>4 DEF SubjectTokens
<1>6. Len(Folded(FlattenSeq(words))) >= MinAutocompleteQueryChars
  BY <1>1, JoinedFolded DEF MinAutocompleteQueryChars
<1>7. PhrasePrefix(words, Subject(r))
  BY <1>1, <1>3, PhraseOfPart
<1> QED
  BY <1>1, <1>4, <1>5, <1>6, <1>7 DEF Suggested

-----------------------------------------------------------------------------
(* Typing *)

(* What a record is called is a text.                                       *)
LEMMA FormsAreTexts ==
  ASSUME NEW r \in Records
  PROVE  Forms(r) \subseteq Texts
<1>1. Spellings(r.postcode) \subseteq Texts
  <2>1. CASE r.postcode = None
    BY <2>1 DEF Spellings
  <2>2. CASE r.postcode # None
    <3>1. r.postcode \in Texts
      BY <2>2, RecordsAssumption
    <3> QED
      BY <2>2, <3>1, WordsType, JoinedType DEF Spellings
  <2> QED
    BY <2>1, <2>2
<1>2. ASSUME r.layer # "postcode" PROVE Name(r) \in Texts
  <2>1. r.name \in Texts /\ (r.layer = "address" => r.number \in Texts)
    BY <1>2, RecordsAssumption
  <2> QED
    BY <2>1, WordsTogether DEF Name
<1> QED
  BY <1>1, <1>2 DEF Forms

(* What is typed begins what is meant.                                      *)
TypedInv ==
  /\ record \in Records /\ text \in Texts /\ typed \in Texts
  /\ Len(typed) <= Len(text)
  /\ \A i \in 1..Len(typed) : typed[i] = text[i]

(* The invariant holds of every keystroke.                                  *)
LEMMA TypedHolds == QuerySpec => []TypedInv
<1>1. QueryInit => TypedInv
  <2> SUFFICES ASSUME QueryInit PROVE TypedInv
    OBVIOUS
  <2>1. record \in Records /\ text \in Texts /\ typed = <<>>
    BY FormsAreTexts DEF QueryInit
  <2>2. typed \in Texts /\ Len(typed) = 0 /\ Len(text) \in Nat
    BY <2>1, EmptySeq, LenProperties DEF Texts
  <2> QED
    BY <2>1, <2>2 DEF TypedInv
<1>2. TypedInv /\ [QueryNext]_queryVars => TypedInv'
  <2> SUFFICES ASSUME TypedInv, [QueryNext]_queryVars PROVE TypedInv'
    OBVIOUS
  <2>1. CASE Type
    <3> DEFINE n == Len(typed) + 1
    <3>1. /\ record' = record /\ text' = text /\ typed' = Append(typed, text[n])
          /\ Len(typed) < Len(text)
      BY <2>1 DEF Type
    <3>2. /\ Len(typed) \in Nat /\ Len(text) \in Nat /\ n \in 1..Len(text)
          /\ \A i \in 1..n : i \in 1..Len(typed) \/ i = n
      BY <3>1, LenProperties DEF TypedInv, Texts
    <3>3. text[n] \in Alphanumeric \cup Others \cup {Space}
      BY <3>2, ElementOfSeq DEF TypedInv, Texts
    <3>4. /\ typed' \in Texts /\ Len(typed') = n /\ typed'[n] = text[n]
          /\ \A i \in 1..Len(typed) : typed'[i] = typed[i]
      BY <3>1, <3>3, AppendProperties DEF TypedInv, Texts
    <3> QED
      BY <3>1, <3>2, <3>4 DEF TypedInv
  <2>2. CASE UNCHANGED queryVars
    BY <2>2 DEF TypedInv, queryVars
  <2> QED
    BY <2>1, <2>2 DEF QueryNext
<1> QED
  BY <1>1, <1>2, PTL DEF QuerySpec

(* Whoever types what a record is called, or its postcode with or without   *)
(* its blanks, is shown the record from the third character on              *)
(* (build_autocomplete_query finds it by the document the index keeps), as  *)
(* long as the index keeps the words and all that the last one can become   *)
(* fits the expansions of a prefix.                                         *)
THEOREM TypingSuggests == QuerySpec => []SuggestedWhileTyping
<1>1. TypedInv => SuggestedWhileTyping
  <2> SUFFICES ASSUME TypedInv, record.layer # "interpolation", text \in Forms(record),
                      Len(FlattenSeq(Typed)) >= 3,
                      IF record.layer = "address" /\ text = Name(record)
                      THEN PlainNumber(record.number) /\ Len(Typed) > 1
                      ELSE ~(Len(Typed) > 1 /\ StartsWithDigit(Typed[1])),
                      TokenizedAlike, WithinReach
               PROVE  Suggested(record, typed)
    BY DEF SuggestedWhileTyping
  <2>1. /\ record \in Records /\ typed \in Texts /\ text \in Texts
        /\ Begins(Words(typed), Words(text))
    BY TypedBegins DEF TypedInv
  <2>2. Reached(Words(typed), Words(text))
    BY DEF Reached, TokenizedAlike, WithinReach, Typed
  <2>3. Undotted(Words(typed)) /\ Undotted(Words(text))
    <3>1. /\ Range(typed) = {typed[i] : i \in 1..Len(typed)}
          /\ Range(text) = {text[i] : i \in 1..Len(text)}
          /\ Len(typed) \in Nat /\ Len(text) \in Nat
      BY <2>1, RangeEquality, LenProperties DEF Texts
    <3>2. Dotted \notin Range(typed) /\ Dotted \notin Range(text)
      BY <3>1 DEF TokenizedAlike, TypedInv
    <3> QED
      BY <2>1, <3>2, WordsUndotted
  <2>4. CASE record.layer = "address" /\ text = Name(record)
    BY <2>1, <2>2, <2>3, <2>4, SuggestsAddress DEF Typed
  <2>5. CASE ~(record.layer = "address" /\ text = Name(record))
    BY <2>1, <2>2, <2>3, <2>5, SuggestsName DEF Typed
  <2> QED
    BY <2>4, <2>5
<1> QED
  BY <1>1, TypedHolds, PTL

(* Sent as a search, a query whose last word is complete finds what it      *)
(* suggested: build_query looks wherever autocomplete did.                  *)
THEOREM SearchAgrees == QuerySpec => []SearchFindsSuggested
<1>1. TypedInv => SearchFindsSuggested
  BY Finds DEF TypedInv, SearchFindsSuggested, Typed
<1> QED
  BY <1>1, TypedHolds, PTL
=============================================================================
