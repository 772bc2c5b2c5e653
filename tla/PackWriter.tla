------------------------------ MODULE PackWriter ------------------------------
(***************************************************************************)
(* One build of a pack directory: PackWriter (src/pack.rs) driven by       *)
(* build_osm_pack and the boundary-context wrapper (src/builder/osm.rs,    *)
(* src/builder/osm/boundary.rs).                                           *)
(*                                                                         *)
(* Every accepted record is written to four places that number it          *)
(* separately: the records archive (its own row counter), the text index   *)
(* (batched documents), the spatial index (in memory until finish) and the *)
(* boundary context.  PackWriter passes its own record_count as the id and *)
(* drops the row number the archive returns, so the four agree only        *)
(* because of the order of the calls and because every error ends the      *)
(* build.  The manifest, written last, is what makes a pack exist for      *)
(* PackReader::open.                                                       *)
(*                                                                         *)
(* A build can fail or be killed between any two steps; the next build     *)
(* removes the directory, entry by entry, in an order the file system      *)
(* chooses.                                                                *)
(***************************************************************************)
EXTENDS Naturals, FiniteSets, Sequences

CONSTANTS
  AdminLayers,    \* layers of boundary records, "country" and "region" among them
  LeafLayers,     \* the other record layers (address, street, postcode, ...)
  BatchSize,      \* TEXT_INDEX_BATCH_SIZE
  MaxRecords,     \* bound: records written by one build
  MaxRejections,  \* bound: rejections written by one build
  MaxBuilds,      \* bound: builds into the same directory
  NoId,           \* an absent record id
  Missing,        \* an absent file
  NoPack          \* no complete pack in the directory

ASSUME LayersAssumption ==
  /\ {"country", "region"} \subseteq AdminLayers
  /\ AdminLayers \cap LeafLayers = {}
ASSUME BatchAssumption == BatchSize \in Nat \ {0}
ASSUME BoundsAssumption ==
  MaxRecords \in Nat /\ MaxRejections \in Nat /\ MaxBuilds \in Nat
ASSUME SentinelAssumption == NoId \notin Nat

VARIABLES
  pc,             \* where the writer is
  stage,          \* "derived", "boundary" or "emit": who is calling it
  cur,            \* the record being written
  rows,           \* records archive: row -> layer kind
  archiveCount,   \* RecordsArchiveWriter.record_count
  recordCount,    \* PackWriter.record_count
  layerCounts,    \* PackWriter.layer_counts
  pending,        \* text documents waiting for a full batch
  documents,      \* text documents handed to the index writer
  documentCount,  \* TantivyTextIndexWriter.document_count
  spatial,        \* PackSpatialIndexWriter.points and .segments
  contexts,       \* PackContextWriter: record id -> admin context tuple
  derived,        \* ids of derived country records
  boundaries,     \* BoundaryIndex: boundary record id -> inferred country id
  chunks,         \* rejections.bin: chunk number -> layer hint
  chunkCount,     \* chunks in rejections.bin
  offsets,        \* rejection_offsets.bin: row -> chunk number and layer code
  rejectionCount, \* PackWriter.rejection_count
  disk,           \* what each file of the pack holds for a reader
  builds          \* builds started (bounded by MaxBuilds)

memory == <<stage, cur, rows, archiveCount, recordCount, layerCounts, pending,
            documents, documentCount, spatial, contexts, derived, boundaries,
            chunks, chunkCount, offsets, rejectionCount>>
vars == <<pc, stage, cur, rows, archiveCount, recordCount, layerCounts, pending,
          documents, documentCount, spatial, contexts, derived, boundaries,
          chunks, chunkCount, offsets, rejectionCount, disk, builds>>

-----------------------------------------------------------------------------
(* Values *)

Layers == AdminLayers \cup LeafLayers
Hints  == Layers \cup {"none"}

Entry(id, layer) == [id |-> id, layer |-> layer]

(* Append a row to a table of n rows, numbered from 0. *)
Extend(table, n, row) == [i \in 0..n |-> IF i = n THEN row ELSE table[i]]
EmptyTable == [i \in {} |-> 0]

NoTuple == [layer \in AdminLayers |-> NoId]
NoRecord == [layer |-> "country", located |-> FALSE]

Files == {"manifest", "records", "text", "spatial", "context", "rejections"}
EmptyDisk == [file \in Files |-> Missing]

Documents(batch) == {batch[i] : i \in 1..Len(batch)}

(* The steps between two writes, inside a write, and of finish. *)
WriteSteps  == {"archive", "text", "flush", "spatial", "accept", "context",
                "reject_offset"}
FinishSteps == {"finish_rejections", "finish_records", "finish_flush",
                "finish_commit", "finish_spatial", "finish_context",
                "finish_manifest"}
Building    == {"ready"} \cup WriteSteps \cup FinishSteps
Stopped     == {"published", "failed"}

-----------------------------------------------------------------------------
(* Creating the pack directory: PackWriter::create *)

Init ==
  /\ pc = "failed"
  /\ stage = "derived"
  /\ cur = NoRecord
  /\ rows = EmptyTable
  /\ archiveCount = 0
  /\ recordCount = 0
  /\ layerCounts = [layer \in Layers |-> 0]
  /\ pending = <<>>
  /\ documents = {}
  /\ documentCount = 0
  /\ spatial = {}
  /\ contexts = EmptyTable
  /\ derived = {}
  /\ boundaries = EmptyTable
  /\ chunks = EmptyTable
  /\ chunkCount = 0
  /\ offsets = EmptyTable
  /\ rejectionCount = 0
  /\ disk = EmptyDisk
  /\ builds = 0

(* A build command starts on a directory that may hold an earlier pack. *)
StartBuild ==
  /\ pc \in Stopped
  /\ builds < MaxBuilds
  /\ pc' = "clear"
  /\ builds' = builds + 1
  /\ UNCHANGED <<memory, disk>>

(* remove_dir_all takes the entries one by one, in no particular order. *)
RemoveFile(file) ==
  /\ pc = "clear"
  /\ disk[file] # Missing
  /\ disk' = [disk EXCEPT ![file] = Missing]
  /\ UNCHANGED <<pc, memory, builds>>

(* Mutant of CreateFiles: files are truncated in place, nothing is removed. *)
CreateFilesInPlace ==
  /\ pc = "clear"
  /\ disk' = [disk EXCEPT !["records"] = [count |-> 0, rows |-> EmptyTable],
                          !["text"]    = {}]
  /\ pc' = "ready"
  /\ UNCHANGED <<memory, builds>>

(* The archive and rejection headers say zero rows until finish. *)
CreateFiles ==
  /\ pc = "clear"
  /\ disk = EmptyDisk
  /\ disk' = [disk EXCEPT !["records"]    = [count |-> 0, rows |-> EmptyTable],
                          !["rejections"] = [count |-> 0, offsets |-> EmptyTable,
                                             chunks |-> EmptyTable],
                          !["text"]       = {}]
  /\ pc' = "ready"
  /\ stage' = "derived"
  /\ cur' = NoRecord
  /\ rows' = EmptyTable
  /\ archiveCount' = 0
  /\ recordCount' = 0
  /\ layerCounts' = [layer \in Layers |-> 0]
  /\ pending' = <<>>
  /\ documents' = {}
  /\ documentCount' = 0
  /\ spatial' = {}
  /\ contexts' = EmptyTable
  /\ derived' = {}
  /\ boundaries' = EmptyTable
  /\ chunks' = EmptyTable
  /\ chunkCount' = 0
  /\ offsets' = EmptyTable
  /\ rejectionCount' = 0
  /\ UNCHANGED builds

-----------------------------------------------------------------------------
(* Writing a record *)

(* The layer a caller of the current stage writes: derived countries first, *)
(* then the boundary records, then every kind of record.                    *)
LayersOfStage ==
  {layer \in Layers : /\ stage = "derived"  => layer = "country"
                      /\ stage = "boundary" => layer \in AdminLayers}

BeginRecord(layer, located) ==
  /\ pc = "ready"
  /\ recordCount < MaxRecords
  /\ layer \in LayersOfStage
  /\ cur' = [layer |-> layer, located |-> located]
  /\ pc' = "archive"
  /\ UNCHANGED <<stage, rows, archiveCount, recordCount, layerCounts, pending,
                 documents, documentCount, spatial, contexts, derived,
                 boundaries, chunks, chunkCount, offsets, rejectionCount, disk,
                 builds>>

(* RecordsArchiveWriter::push_entry: the row is numbered by the archive. *)
WriteArchive ==
  /\ pc = "archive"
  /\ rows' = Extend(rows, archiveCount, cur.layer)
  /\ archiveCount' = archiveCount + 1
  /\ pc' = "text"
  /\ UNCHANGED <<stage, cur, recordCount, layerCounts, pending, documents,
                 documentCount, spatial, contexts, derived, boundaries, chunks,
                 chunkCount, offsets, rejectionCount, disk, builds>>

(* TantivyTextIndexWriter::add_projection: the document carries the id that *)
(* PackWriter read from record_count before the archive row was pushed.     *)
AddDocument ==
  /\ pc = "text"
  /\ pending' = Append(pending, Entry(recordCount, cur.layer))
  /\ documentCount' = documentCount + 1
  /\ pc' = IF Len(pending) + 1 >= BatchSize THEN "flush" ELSE "spatial"
  /\ UNCHANGED <<stage, cur, rows, archiveCount, recordCount, layerCounts,
                 documents, spatial, contexts, derived, boundaries, chunks,
                 chunkCount, offsets, rejectionCount, disk, builds>>

(* The full batch goes to the index writer. *)
FlushBatch ==
  /\ pc = "flush"
  /\ documents' = documents \cup Documents(pending)
  /\ pending' = <<>>
  /\ pc' = "spatial"
  /\ UNCHANGED <<stage, cur, rows, archiveCount, recordCount, layerCounts,
                 documentCount, spatial, contexts, derived, boundaries, chunks,
                 chunkCount, offsets, rejectionCount, disk, builds>>

(* Mutant of AddSpatial: every entry is filed under the first layer written. *)
AddSpatialStaleLayer ==
  /\ pc = "spatial"
  /\ spatial' = IF cur.located
                THEN spatial \cup {Entry(recordCount, rows[0])}
                ELSE spatial
  /\ pc' = "accept"
  /\ UNCHANGED <<stage, cur, rows, archiveCount, recordCount, layerCounts,
                 pending, documents, documentCount, contexts, derived,
                 boundaries, chunks, chunkCount, offsets, rejectionCount, disk,
                 builds>>

(* A record without usable geometry leaves no spatial entry. *)
AddSpatial ==
  /\ pc = "spatial"
  /\ spatial' = IF cur.located
                THEN spatial \cup {Entry(recordCount, cur.layer)}
                ELSE spatial
  /\ pc' = "accept"
  /\ UNCHANGED <<stage, cur, rows, archiveCount, recordCount, layerCounts,
                 pending, documents, documentCount, contexts, derived,
                 boundaries, chunks, chunkCount, offsets, rejectionCount, disk,
                 builds>>

(* PackWriter::accept_record; the id returned to the caller is the count    *)
(* before the increment.  A derived country goes into the code table, a     *)
(* boundary into the boundary index with the country inferred for it (only  *)
(* a region has one), and any other record on to its context.               *)
AcceptRecord(inferred) ==
  /\ pc = "accept"
  /\ inferred \in (IF stage = "boundary" /\ cur.layer = "region"
                   THEN derived \cup {NoId}
                   ELSE {NoId})
  /\ recordCount' = recordCount + 1
  /\ layerCounts' = [layerCounts EXCEPT ![cur.layer] = @ + 1]
  /\ derived' = IF stage = "derived" THEN derived \cup {recordCount} ELSE derived
  /\ boundaries' =
       IF stage = "boundary"
       THEN [id \in DOMAIN boundaries \cup {recordCount} |->
               IF id = recordCount THEN inferred ELSE boundaries[id]]
       ELSE boundaries
  /\ pc' = IF stage = "emit" THEN "context" ELSE "ready"
  /\ UNCHANGED <<stage, cur, rows, archiveCount, pending, documents,
                 documentCount, spatial, contexts, chunks, chunkCount, offsets,
                 rejectionCount, disk, builds>>

(* BoundaryIndex::context_for_point, geometry abstracted to the boundary    *)
(* chosen in each layer: the region's inferred country fills an empty       *)
(* country slot.                                                            *)
Candidates(layer) == {id \in DOMAIN boundaries : rows[id] = layer}

ContextTuple(chosen) ==
  IF chosen["country"] = NoId /\ chosen["region"] # NoId
  THEN [chosen EXCEPT !["country"] = boundaries[chosen["region"]]]
  ELSE chosen

(* Mutant of WriteContext: the id is record_count after the increment. *)
WriteContextNextId(chosen) ==
  /\ pc = "context"
  /\ \A layer \in AdminLayers : chosen[layer] \in Candidates(layer) \cup {NoId}
  /\ LET tuple == ContextTuple(chosen)
     IN contexts' = IF tuple = NoTuple
                    THEN contexts
                    ELSE [i \in DOMAIN contexts \cup {recordCount} |->
                            IF i = recordCount THEN tuple ELSE contexts[i]]
  /\ pc' = "ready"
  /\ UNCHANGED <<stage, cur, rows, archiveCount, recordCount, layerCounts,
                 pending, documents, documentCount, spatial, derived,
                 boundaries, chunks, chunkCount, offsets, rejectionCount, disk,
                 builds>>

(* BoundaryContextRecordWriter::write_context and add_record_context: an    *)
(* empty tuple stores nothing, and the first context of a record wins.      *)
WriteContext(chosen) ==
  /\ pc = "context"
  /\ \A layer \in AdminLayers : chosen[layer] \in Candidates(layer) \cup {NoId}
  /\ LET id    == recordCount - 1
         tuple == ContextTuple(chosen)
     IN contexts' = IF tuple = NoTuple \/ id \in DOMAIN contexts
                    THEN contexts
                    ELSE [i \in DOMAIN contexts \cup {id} |->
                            IF i = id THEN tuple ELSE contexts[i]]
  /\ pc' = "ready"
  /\ UNCHANGED <<stage, cur, rows, archiveCount, recordCount, layerCounts,
                 pending, documents, documentCount, spatial, derived,
                 boundaries, chunks, chunkCount, offsets, rejectionCount, disk,
                 builds>>

(* build_osm_pack: the boundary index is complete before emission starts. *)
NextStage ==
  /\ pc = "ready"
  /\ stage # "emit"
  /\ stage' = IF stage = "derived" THEN "boundary" ELSE "emit"
  /\ UNCHANGED <<pc, cur, rows, archiveCount, recordCount, layerCounts, pending,
                 documents, documentCount, spatial, contexts, derived,
                 boundaries, chunks, chunkCount, offsets, rejectionCount, disk,
                 builds>>

-----------------------------------------------------------------------------
(* Writing a rejection *)

(* The chunk goes to the end of rejections.bin. *)
WriteChunk(hint) ==
  /\ pc = "ready"
  /\ stage = "emit"
  /\ rejectionCount < MaxRejections
  /\ chunks' = Extend(chunks, chunkCount, hint)
  /\ chunkCount' = chunkCount + 1
  /\ pc' = "reject_offset"
  /\ UNCHANGED <<stage, cur, rows, archiveCount, recordCount, layerCounts,
                 pending, documents, documentCount, spatial, contexts, derived,
                 boundaries, offsets, rejectionCount, disk, builds>>

(* Mutant of WriteOffset: the position in rejections.bin is taken once.    *)
WriteOffsetTakenOnce ==
  /\ pc = "reject_offset"
  /\ offsets' = Extend(offsets, rejectionCount,
                       [chunk |-> 0, hint |-> chunks[chunkCount - 1]])
  /\ rejectionCount' = rejectionCount + 1
  /\ pc' = "ready"
  /\ UNCHANGED <<stage, cur, rows, archiveCount, recordCount, layerCounts,
                 pending, documents, documentCount, spatial, contexts, derived,
                 boundaries, chunks, chunkCount, disk, builds>>

(* The offset entry of row rejection_count names the chunk just written. *)
WriteOffset ==
  /\ pc = "reject_offset"
  /\ offsets' = Extend(offsets, rejectionCount,
                       [chunk |-> chunkCount - 1, hint |-> chunks[chunkCount - 1]])
  /\ rejectionCount' = rejectionCount + 1
  /\ pc' = "ready"
  /\ UNCHANGED <<stage, cur, rows, archiveCount, recordCount, layerCounts,
                 pending, documents, documentCount, spatial, contexts, derived,
                 boundaries, chunks, chunkCount, disk, builds>>

-----------------------------------------------------------------------------
(* PackWriter::finish, in its order *)

BeginFinish ==
  /\ pc = "ready"
  /\ stage = "emit"
  /\ pc' = "finish_rejections"
  /\ UNCHANGED <<memory, disk, builds>>

(* The rejection files are unbuffered: only their header was missing. *)
FinishRejections ==
  /\ pc = "finish_rejections"
  /\ disk' = [disk EXCEPT !["rejections"] = [count |-> rejectionCount,
                                             offsets |-> offsets,
                                             chunks |-> chunks]]
  /\ pc' = "finish_records"
  /\ UNCHANGED <<memory, builds>>

(* RecordsArchiveWriter::finish backfills its own row count. *)
FinishRecords ==
  /\ pc = "finish_records"
  /\ disk' = [disk EXCEPT !["records"] = [count |-> archiveCount, rows |-> rows]]
  /\ pc' = "finish_flush"
  /\ UNCHANGED <<memory, builds>>

FinishFlush ==
  /\ pc = "finish_flush"
  /\ documents' = documents \cup Documents(pending)
  /\ pending' = <<>>
  /\ pc' = "finish_commit"
  /\ UNCHANGED <<stage, cur, rows, archiveCount, recordCount, layerCounts,
                 documentCount, spatial, contexts, derived, boundaries, chunks,
                 chunkCount, offsets, rejectionCount, disk, builds>>

(* Only documents handed to the index writer are committed. *)
FinishCommit ==
  /\ pc = "finish_commit"
  /\ disk' = [disk EXCEPT !["text"] = documents]
  /\ pc' = "finish_spatial"
  /\ UNCHANGED <<memory, builds>>

FinishSpatial ==
  /\ pc = "finish_spatial"
  /\ disk' = [disk EXCEPT !["spatial"] = spatial]
  /\ pc' = "finish_context"
  /\ UNCHANGED <<memory, builds>>

FinishContext ==
  /\ pc = "finish_context"
  /\ disk' = [disk EXCEPT !["context"] = contexts]
  /\ pc' = "finish_manifest"
  /\ UNCHANGED <<memory, builds>>

(* The manifest counts come from PackWriter, not from the files. *)
WriteManifest ==
  /\ pc = "finish_manifest"
  /\ disk' = [disk EXCEPT !["manifest"] = [records     |-> recordCount,
                                           rejections  |-> rejectionCount,
                                           documents   |-> documentCount,
                                           layerCounts |-> layerCounts]]
  /\ pc' = "published"
  /\ UNCHANGED <<memory, builds>>

(* Mutant of Fail: an error while indexing a record is logged and skipped. *)
FailSkipped ==
  /\ pc \in {"text", "spatial"}
  /\ pc' = "ready"
  /\ UNCHANGED <<memory, disk, builds>>

(* Every step can return an error, which ends the build, or the process can *)
(* be killed before it: the files stay as they are.                         *)
Fail ==
  /\ pc \in {"clear"} \cup Building
  /\ pc' = "failed"
  /\ UNCHANGED <<memory, disk, builds>>

-----------------------------------------------------------------------------
Next ==
  \/ StartBuild
  \/ \E file \in Files : RemoveFile(file)
  \/ CreateFiles
  \/ \E layer \in Layers, located \in BOOLEAN : BeginRecord(layer, located)
  \/ WriteArchive
  \/ AddDocument
  \/ FlushBatch
  \/ AddSpatial
  \/ \E inferred \in derived \cup {NoId} : AcceptRecord(inferred)
  \/ \E chosen \in [AdminLayers -> DOMAIN boundaries \cup {NoId}] :
        WriteContext(chosen)
  \/ NextStage
  \/ \E hint \in Hints : WriteChunk(hint)
  \/ WriteOffset
  \/ BeginFinish
  \/ FinishRejections
  \/ FinishRecords
  \/ FinishFlush
  \/ FinishCommit
  \/ FinishSpatial
  \/ FinishContext
  \/ WriteManifest
  \/ Fail

Spec == Init /\ [][Next]_vars

-----------------------------------------------------------------------------
(* What a reader of the directory sees *)

(* PackReader::open, PackTextSearcher::open and PackReverseGeocoder::open:  *)
(* which files they need and the one cross-check they make.                 *)
PackOpens ==
  /\ disk["manifest"] # Missing
  /\ disk["records"] # Missing
  /\ disk["records"].count = disk["manifest"].records
  /\ disk["context"] # Missing
SearcherOpens == PackOpens /\ disk["text"] # Missing
ReverseOpens  == PackOpens /\ disk["spatial"] # Missing

(* The row of the opened archive a record id resolves to. *)
IsRow(id, layer) ==
  /\ id \in 0..disk["records"].count - 1
  /\ disk["records"].rows[id] = layer

-----------------------------------------------------------------------------
(* Properties *)

(* Each variable holds a value of its kind, and the tables are numbered     *)
(* from 0 without holes.                                                    *)
Tuples  == [AdminLayers -> Nat \cup {NoId}]
Entries == [id : Nat, layer : Layers]

WriterTypeOK ==
  /\ pc \in {"clear"} \cup Building \cup Stopped
  /\ stage \in {"derived", "boundary", "emit"}
  /\ cur \in [layer : Layers, located : BOOLEAN]
  /\ builds \in Nat
ArchiveTypeOK == archiveCount \in Nat /\ rows \in [0..archiveCount - 1 -> Layers]
RecordTypeOK  == recordCount \in Nat /\ layerCounts \in [Layers -> Nat]
TextTypeOK ==
  /\ pending \in Seq(Entries)
  /\ documents \in SUBSET Entries
  /\ documentCount \in Nat
SpatialTypeOK == spatial \in SUBSET Entries
BoundaryTypeOK ==
  /\ derived \in SUBSET Nat
  /\ DOMAIN boundaries \subseteq Nat
  /\ boundaries \in [DOMAIN boundaries -> Nat \cup {NoId}]
ContextTypeOK ==
  DOMAIN contexts \subseteq Nat /\ contexts \in [DOMAIN contexts -> Tuples]
RejectionTypeOK ==
  /\ chunkCount \in Nat /\ chunks \in [0..chunkCount - 1 -> Hints]
  /\ rejectionCount \in Nat
  /\ offsets \in [0..rejectionCount - 1 -> [chunk : Nat, hint : Hints]]
DiskTypeOK == disk = [file \in Files |-> disk[file]]

TypeOK ==
  /\ WriterTypeOK
  /\ ArchiveTypeOK
  /\ RecordTypeOK
  /\ TextTypeOK
  /\ SpatialTypeOK
  /\ BoundaryTypeOK
  /\ ContextTypeOK
  /\ RejectionTypeOK
  /\ DiskTypeOK

(* PackTextSearcher::hydrate_top_docs reads the archive row whose number    *)
(* the text document carries.  In every directory the searcher opens, that  *)
(* row exists and is of the layer the document was filed under, and no      *)
(* record is missing from the text index: the batches, the archive and      *)
(* PackWriter number records alike although none of them checks.            *)
SearchHitsNameTheirRecord ==
  SearcherOpens =>
    /\ \A doc \in disk["text"] : IsRow(doc.id, doc.layer)
    /\ \A id \in 0..disk["records"].count - 1 :
         \E doc \in disk["text"] : doc.id = id

(* The reverse geocoder reads the archive row a spatial entry names and     *)
(* decodes it as the layer the entry was searched under.                    *)
SpatialHitsNameTheirRecord ==
  ReverseOpens => \A hit \in disk["spatial"] : IsRow(hit.id, hit.layer)

(* Whatever index finds a record, its id leads to that record's row. *)
HitsNameTheirRecord == SearchHitsNameTheirRecord /\ SpatialHitsNameTheirRecord

(* Context enrichment follows the parent ids of a record's tuple.  Every    *)
(* context belongs to an existing record, and the record in a tuple's slot  *)
(* is of that slot's layer and was written before the record: a parent is   *)
(* never the record itself, so following parents ends.                      *)
ContextNamesEarlierParents ==
  PackOpens =>
    \A id \in DOMAIN disk["context"] :
      /\ id \in 0..disk["records"].count - 1
      /\ \A layer \in AdminLayers :
           LET parent == disk["context"][id][layer]
           IN parent # NoId => IsRow(parent, layer) /\ parent < id

(* read_rejection(row) follows the row's offset into rejections.bin.  Where *)
(* the manifest announces rejections, every announced row has an offset     *)
(* entry and the chunk it names is that rejection's own.                    *)
RejectionRowsReadable ==
  disk["manifest"] # Missing /\ disk["rejections"] # Missing =>
    LET table == disk["rejections"]
    IN /\ table.count = disk["manifest"].rejections
       /\ \A row \in 0..table.count - 1 :
            /\ table.offsets[row].chunk \in DOMAIN table.chunks
            /\ table.chunks[table.offsets[row].chunk] = table.offsets[row].hint
       /\ \A r1, r2 \in 0..table.count - 1 :
            table.offsets[r1].chunk = table.offsets[r2].chunk => r1 = r2

(* The manifest's layer counts, kept by accept_record while rows are        *)
(* written by the archive, count exactly the archive's rows of each layer.  *)
LayerCountsExact ==
  PackOpens =>
    \A layer \in Layers :
      disk["manifest"].layerCounts[layer]
        = Cardinality({id \in 0..disk["records"].count - 1 :
                         disk["records"].rows[id] = layer})

(* "pack files are immutable once built" (src/records_store.rs,             *)
(* src/context.rs, src/spatial_index.rs): while a manifest is there, a file *)
(* of the pack is never added or rewritten; it can only be removed.         *)
ImmutableOncePublished ==
  [][disk["manifest"] # Missing =>
       \A file \in Files : disk'[file] \in {disk[file], Missing}]_vars

-----------------------------------------------------------------------------
(* The inductive invariant *)

Indexing == {"text", "flush", "spatial", "accept"}

(* The archive is ahead of record_count only while the record is indexed.   *)
RowsInv ==
  /\ archiveCount \in {recordCount, recordCount + 1}
  /\ archiveCount = recordCount + 1 => rows[recordCount] = cur.layer
  /\ pc \in Building => (archiveCount = recordCount + 1 <=> pc \in Indexing)

(* The text documents, pending ones included, are the first archive rows.   *)
TextInv ==
  /\ documents \cup Documents(pending)
       = {Entry(i, rows[i]) : i \in 0..documentCount - 1}
  /\ documentCount \in {recordCount, recordCount + 1}
  /\ documentCount <= archiveCount
  /\ pc \in Building =>
       (documentCount = recordCount + 1 <=> pc \in Indexing \ {"text"})
  /\ pc \in {"finish_commit", "finish_spatial", "finish_context",
             "finish_manifest"} => pending = <<>>

SpatialInv == \A hit \in spatial : hit.id < archiveCount /\ hit.layer = rows[hit.id]

(* Derived countries and boundaries are earlier records, and a record whose *)
(* context is being written is neither.                                     *)
BoundaryInv ==
  /\ \A id \in derived : id < recordCount /\ rows[id] = "country"
  /\ \A id \in DOMAIN boundaries :
       id < recordCount /\ boundaries[id] \in derived \cup {NoId}
  /\ stage = "derived" /\ pc \in WriteSteps => cur.layer = "country"
  /\ pc = "context" =>
       /\ recordCount > 0
       /\ recordCount - 1 \notin derived \cup DOMAIN boundaries

ContextInv ==
  \A id \in DOMAIN contexts :
    /\ id < recordCount
    /\ \A layer \in AdminLayers :
         contexts[id][layer] # NoId =>
           contexts[id][layer] < id /\ rows[contexts[id][layer]] = layer

RejectionInv ==
  /\ chunkCount \in {rejectionCount, rejectionCount + 1}
  /\ pc \in Building =>
       (chunkCount = rejectionCount + 1 <=> pc = "reject_offset")
  /\ \A row \in 0..rejectionCount - 1 :
       offsets[row] = [chunk |-> row, hint |-> chunks[row]]

CountsInv ==
  \A layer \in Layers :
    layerCounts[layer]
      = Cardinality({i \in 0..recordCount - 1 : rows[i] = layer})

(* What finish writes to each file, and the steps after it has done so.     *)
Final ==
  [manifest   |-> [records     |-> recordCount,
                   rejections  |-> rejectionCount,
                   documents   |-> documentCount,
                   layerCounts |-> layerCounts],
   records    |-> [count |-> archiveCount, rows |-> rows],
   text       |-> documents,
   spatial    |-> spatial,
   context    |-> contexts,
   rejections |-> [count |-> rejectionCount, offsets |-> offsets,
                   chunks |-> chunks]]

Filled(file) ==
  \/ file = "rejections" /\ pc \in FinishSteps \ {"finish_rejections"}
  \/ file = "records" /\ pc \in FinishSteps \ {"finish_rejections",
                                               "finish_records"}
  \/ file = "text" /\ pc \in {"finish_spatial", "finish_context",
                             "finish_manifest"}
  \/ file = "spatial" /\ pc \in {"finish_context", "finish_manifest"}
  \/ file = "context" /\ pc = "finish_manifest"

Settled ==
  /\ archiveCount = recordCount
  /\ documentCount = recordCount
  /\ pending = <<>>
  /\ chunkCount = rejectionCount

(* While a manifest is there, the memory of the build that wrote it is      *)
(* settled, and every file is gone or holds that memory.                    *)
DiskInv ==
  /\ pc \in Building => disk["manifest"] = Missing
  /\ \A file \in Files : Filled(file) => disk[file] = Final[file]
  /\ disk["manifest"] # Missing =>
       /\ Settled
       /\ \A file \in Files : disk[file] \in {Missing, Final[file]}

(* The four numberings of a record agree after every step of every build,   *)
(* failed ones included, and the files of a published pack are what the     *)
(* writer had in memory: PackWriter's record_count, the archive's own row   *)
(* counter, the batches of documents and the boundary index.                *)
NumberingsAgree ==
  /\ TypeOK
  /\ RowsInv
  /\ TextInv
  /\ SpatialInv
  /\ BoundaryInv
  /\ ContextInv
  /\ RejectionInv
  /\ CountsInv
  /\ DiskInv

-----------------------------------------------------------------------------
(* Refinement of PackLog *)

Complete == \A file \in Files : disk[file] # Missing

LogStatus  == IF pc \in Building THEN "open" ELSE "idle"
LogRecords == [i \in 0..recordCount - 1 |-> rows[i]]
LogHints   == [r \in 0..rejectionCount - 1 |-> offsets[r].hint]
LogVisible ==
  IF Complete
  THEN [records    |-> disk["records"].rows,
        rejections |-> [r \in 0..disk["rejections"].count - 1 |->
                          disk["rejections"].chunks[
                            disk["rejections"].offsets[r].chunk]]]
  ELSE NoPack

Log == INSTANCE PackLog WITH
         status  <- LogStatus,
         count   <- recordCount,
         log     <- LogRecords,
         rejects <- rejectionCount,
         hints   <- LogHints,
         visible <- LogVisible

(* A directory of files written one after another, by a build that can stop *)
(* anywhere, looks to a reader like a log published in one step.            *)
ImplementsLog == Log!Spec
=============================================================================
