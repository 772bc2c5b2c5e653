# open-geocode in TLA+

Models, model checks and machine-checked proofs for open-geocode, an offline
geocoder. `builder` turns an OpenStreetMap extract into a *pack*, a directory
of files; `serve` maps a pack into memory and answers search, autocomplete and
reverse queries over HTTP; `demo/` is a web page that uses those queries.

Every definition follows the source. `PROJECT.json` maps each definition to the
lines it stands for, lists the runs, a mutated definition for each property
(a plausible bug that the property catches), the hazards the code is exposed
to, and the theorems. Line numbers below are those of the mapped commit.

## 1. The system

### Components

| Component | Source | State it keeps | Operations |
|---|---|---|---|
| Build driver | `src/builder/osm.rs` | phase of the build | `build_osm_pack`: create the pack, discover, resolve geometry, write derived countries, boundaries, all other records, finish |
| Pack writer | `src/pack.rs` | `record_count`, `layer_counts`, `rejection_count`, the writers below | `create`, `write_*`, `write_rejection`, `finish` |
| Records archive | `src/records_archive.rs`, `src/records_store.rs` | own row counter, blob/string/geometry lengths, four buffered files | `push_entry`, `finish`; mapped read-only by the reader |
| Text index | `src/text_index.rs` | batch of pending documents, document count, Tantivy writer | `add_*`, `flush`, `commit` (+ forced merge) |
| Spatial index | `src/spatial_index.rs` | points and segments per layer until `finish`, then a cell directory | `add_*`, `finish`, candidate queries |
| Admin context | `src/context.rs` | interned parent tuples per record | `add_record_context`, `finish`, lookup |
| Boundary context | `src/builder/osm/boundary.rs` | code table of derived countries, index of boundary records | stitch rings, write boundary records, context of a point |
| Interpolation | `src/builder/osm/interpolation.rs`, `src/reverse.rs` | none across ways | ranges from a way's anchors; a number from a position |
| Discovery | `src/builder/osm/collector.rs`, `geometry.rs`, `pbf.rs` | per-block accumulators, merged; positions asked for | parallel map and reduce over the extract, two more passes |
| Normalization | `src/builder/osm/{address,street,place,postcode,tags}.rs` | postcode accumulator | records from tags |
| Text search | `src/search.rs` | pack reader, Tantivy reader | `search`, `autocomplete`, hydration |
| Reverse geocoder | `src/reverse.rs` | pack reader, spatial reader | cascade address, interpolation, street, context |
| Runtime | `src/runtime.rs`, `src/http/*` | the two readers, a ready flag | GET handlers, problem documents, health |
| Demo map | `demo/app.js` | current requests, timer, list, panel, markers | clicks, typing, clear, select |
| Demo locator | `demo/store-locator.js` | the same for its own page | address query, selection, clear |
| Build report | `src/builder/report.rs` | counters and samples | accept, reject, audit, triage of each candidate |
| Benches, CLI | `src/bench.rs`, `src/main.rs` | none | measuring, arguments |

### How they interact

The driver owns one `PackWriter` and calls it from one thread. A record goes, in
this order, to the archive (a row), the text index (a document in a batch), the
spatial index (entries, if it has geometry), `accept_record` (the counters) and,
through the boundary wrapper, to the context. Each store numbers records itself
or takes the number from `record_count`; nothing compares the numbers during the
build. `finish` fills the files one after another and writes `manifest.json`
last. Readers (`PackReader::open`) start from the manifest and make one
cross-check, the number of archive rows. After that, record ids from the text
index, the spatial index and the context are used as row numbers.

A build reads the extract three times: for candidates, for the member ways of
boundary relations, for the positions of the nodes the first two passes asked
for. A candidate is judged in up to three places (the scan, the writer of its
kind, the walk over its anchors), and each of them tells the report.

A server opens the pack twice, once for search and once for reverse geocoding,
and keeps its files mapped. Nothing tells it of a rebuild, except that the
Tantivy reader follows commits in the directory by itself.

The demo talks to the runtime with `fetch`, one current request per purpose,
aborted by the next.

### What is hard here

* four numberings of one thing, kept equal by call order alone;
* a build that can stop between any two files, in a directory that may hold an
  earlier pack, removed entry by entry;
* a directory merged from two sorted lists and read by binary search, through
  ids computed in parallel chunks;
* arithmetic in the reverse geocoder that relies on checks made by the builder,
  months earlier, in another module;
* one context filled from three lists, by precedence, through four stages, with
  `seen` made anew for each list;
* a scan decoded and joined by a pool of threads in any order, whose result must
  not show it;
* a report kept by hand beside every write, some counters before the row, some
  after it, and for the scan's rejections several stages earlier;
* rings grown from unordered, undirected pieces, always by the first that fits;
* boundaries out of an R-tree in an order of its own, one of which must win;
* a rebuild, or a power loss, under a server that holds some files and follows
  others;
* two halves of a text index, what is written and what is asked, that must take
  a text apart alike;
* browser events, timers, answers and aborted continuations in any order.

`PROJECT.json` "hazards" lists each of these, and others, at its line.

### What makes each component correct

* *Pack writer and its stores*: in any directory a reader opens, every id in
  every store names the right row; counts are exact; an interrupted build is
  never a pack.
* *Context*: parents exist, have the right layer, and precede their children;
  a lookup tells the first context a record was given.
* *Spatial index*: a query through the directory answers what a scan would.
* *Rejections*: row *n* leads to the *n*-th rejection.
* *Interpolation*: an accepted range only ever yields house numbers of that
  range, in the order of its line; no contradicted street; every pair decided.
* *Reverse geocoder*: the best match there is, each field of its context from
  the first source that has one, and evidence for exactly those fields.
* *Discovery*: the result is that of reading the file from front to back.
* *Build*: every feature becomes a row or a rejection, once; nothing is lost for
  want of a node the file has; the report and the postcodes count the pack.
* *Boundaries*: rings run along member ways only, and disjoint cycles are all
  found; the choice at a point does not depend on the index; the country agrees
  with the boundaries.
* *Runtime*: mapped files never change; what is ready serves one whole pack.
* *Text search*: whoever types what a record is called is led to it, within the
  limits of the index, and search finds what was suggested.
* *Demo*: what is shown in the end belongs to the last action, and no result of
  an earlier one before; spinners stop.

## 2. Modules

| Module | Models | Notes |
|---|---|---|
| `PackLog` | what a build promises | abstract: an ordered log that becomes visible in one step, or not at all |
| `PackWriter` | one build after another into a directory | `src/pack.rs` with the driver and the four stores; refines `PackLog` |
| `MCPackWriter` | instance | layers country, region, address |
| `PackWriterProofs` | proofs about `PackWriter` and, last, about the documents and queries of `TextQuery` | seven theorems, one of them the inductive invariant, and two |
| `RecordsStore` | the four files of the records archive, byte offset by byte offset, and their reader | `src/records_archive.rs`, `src/records_store.rs` |
| `MCRecordsStore` | instance | three kinds of record, two of one width |
| `RecordsStoreProofs` | proofs about `RecordsStore` | four theorems |
| `CellDirectory` | the spatial index: its cell directory and the queries through it | `src/spatial_index.rs` |
| `MCCellDirectory` | instance | four cells, lists of up to four points and three segments |
| `CellDirectoryProofs` | proofs about `CellDirectory` | three theorems and their inductive invariant |
| `ContextTable` | what the admin context promises | abstract: a table from records to contexts, visible all at once |
| `ContextStore` | interned tuples, entries, the files and lookups of the admin context | `src/context.rs`; refines `ContextTable` |
| `MCContextStore` | instance | three records, two tuples that share a parent |
| `ContextStoreProofs` | proofs about `ContextStore` | four theorems and their inductive invariant |
| `Interpolation` | builder's walk over a way, reverse geocoder's estimate | |
| `MCInterpolation` | instance | every short way, 3-bit numbers |
| `ReverseCascade` | one reverse query: the match, its context and evidence | `src/reverse.rs` |
| `MCReverseCascade` | instance | nine records with repeats, blanks and one parent of the wrong kind |
| `ReverseCascadeProofs` | proofs about the answers of `ReverseCascade` and the house numbers of `Interpolation` they may have | four and seven theorems and their inductive invariants |
| `OsmTags` | the questions the builder asks of an element's tags | `tags.rs` and the predicates of `address.rs`, `street.rs`, `place.rs`, `boundary.rs` |
| `BuilderReport` | the report as a value: what accepting and rejecting a candidate add to it | `src/builder/report.rs` |
| `Discovery` | the first pass: element to chunk, chunks folded and joined, sorted | `src/builder/osm/collector.rs` |
| `BoundaryRecords` | which countries are derived, in which order | `boundary.rs` 406-461 |
| `OsmBuild` | the whole build, from the scan to the last street | `src/builder/osm.rs` with the writers of each kind; extends `Discovery` and `BoundaryRecords` |
| `MCOsmBuild` | instance | files of one block with up to three nodes, two ways, two relations; files of three and four blocks |
| `OsmBuildProofs` | proofs about what a build makes of the extract | one theorem about the scan of `Discovery`, four about whole builds, and their inductive invariants |
| `BoundaryRings` | `stitch_rings`, one turn of a loop an action | `boundary.rs` 623-679 |
| `BoundaryContext` | from a relation's ways to the context of a point: rings, records, index, choice | `boundary.rs` 231-304, 350-404, 484-560, 737-817; extends `BoundaryRings` and `BoundaryRecords` |
| `MCBoundaryContext` | instance | a square and a triangle in pieces; nine boundaries with ties |
| `BoundaryContextProofs` | proofs about `BoundaryContext`, its rings and its choice | four theorems and three inductive invariants |
| `PackServing` | a builder and a server on one directory, and power loss | `src/pack.rs`, `src/runtime.rs`, `src/search.rs`, the readers' `open` |
| `MCPackServing` | instance | three builds, segments in different orders |
| `PackServingProofs` | proofs about `PackServing` and, last, about the server's clients `DemoReverse` and `DemoSearch` | six theorems |
| `TextQuery` | a record's document and the queries that should meet it | `src/text_index.rs`, `src/search.rs` |
| `MCTextQuery` | instance | records of five layers over five characters |
| `BrowserFetch` | life of a `fetch` with an `AbortController` | external: modelled from its use |
| `DemoReverse` | reverse geocoding on the map | `demo/app.js` 282-393, 463-470 |
| `DemoSearch` | search and autocomplete on the map | `demo/app.js` 83-260, 426-482 |

### PackWriter

A record being written moves `pc` through `archive`, `text`, (`flush`),
`spatial`, `accept` and, when the boundary wrapper is the caller, `context`: one
action for each call that changes a store, so that an error (`Fail`) or a kill
can fall between any two. `rows`/`archiveCount` are the archive,
`pending`/`documents`/`documentCount` the text index, `spatial` the spatial
index, `contexts` the context writer, `derived` and `boundaries` the tables the
boundary code keeps. A row is abstracted to its layer, the only part of it
another store repeats. Geometry is abstracted to the choice it leads to: whether
a record has usable geometry (`located`), which country is inferred for a region
(`inferred`), which boundary of each layer contains a point (`chosen`); each is
any value the code could come to. `stage` is the order of the driver: derived
countries, boundary records, everything else.

`disk` says what each file holds *for a reader*: the archive header says zero
rows until `finish` backfills it, the text index is empty until its commit, the
rejection header is backfilled likewise. `StartBuild` may happen on a directory
that holds an earlier pack; `RemoveFile` removes entries in any order, and
`CreateFiles` waits until none is left.

`PackOpens`, `SearcherOpens`, `ReverseOpens` are the checks of the readers'
`open`; the safety properties are about what they would then read.

### RecordsStore

`PackWriter` sees a row of the archive as its layer; `RecordsStore` opens the
row up. A record is a kind, its text fields and its line. `BeginRecord`,
`PushText` (per field, `SkipText`, `ShareText` or `AppendText`: `opt_*`,
a hit of the intern table, `push_text`), `PushLine` (`encode_geometry`) and
`PushEntry` follow a `write_*` function; a text longer than its 16-bit length or
an offset beyond the packed word is an error after the arenas have grown, so
those steps have no continuation but `Stop`. `FinishDirectory` and `FinishArena`
are `finish()` in its order. `Stop` is any error or kill: each buffered file has
any prefix on disk, and the whole of it once flushed. A file's header counts as
one unit, a coordinate as one number; one action is one call, so a buffer is
never cut inside the 16 bytes of the header that `finish` backfills.

`Opens`, `EntryReads`, `Reads` and `Decode` are the reader: they use `stored`
and `header`, what is on disk, and the words, entries and arenas only where
`stored` says they are.

### CellDirectory

One behaviour builds one of the two directories (fine cells with points and
segments, coarse cells with context points only) and asks it one query.
`SortPairs` is `build_point_pairs`, `build_segment_pairs` (ids counted per
chunk) and the sort; `PickCell`, `TakePoint`, `TakeSegment`, `EndCell` are the
turns of the loops of `build_cell_directory`. `NextCell` takes the next cell of
the query's disk, `NarrowSearch`, `CellFound`, `CellAbsent` are one comparison
of `find_cell`, `VisitRef` one turn of the loop over a cell's references,
`Answer` the sort and `truncate`. The three queries differ in their filter, in
the directory they ask, and in the set of segments seen; `query` says which is
meant. The cell of a point, the cells of a segment, the disk and the distances
are inputs: any outcome of the floating-point geometry. A build whose ids do not
fit fails in `SortPairs`, which is then not enabled. `PackWriter` sees the
same entries only as pairs of an id and a layer.

### ContextStore

`AddRecordContext` is one call of `add_record_context`: nothing is kept of an
empty context, a tuple is interned (`tuples`, `tupleIds`), the entry appended.
`finish` is `SortEntries` (stable sort and dedup: one entry per record, its
first), `WriteTuples`, `WriteContexts`, `WriteManifest`; `Stop` is an error or a
kill, which leaves the file being written with a count it does not hold
(`whole`) and no manifest. `Opens` is `open` with its checks of lengths and
counts; `Ask`, `Narrow`, `Find`, `Miss` are the binary search, one comparison an
action; `Resolved` follows the tuple id. Ids are stored through `Encode`, which
takes `MissingId` for none. The format, schema and magic numbers, the assignment
method and the flags are left out.

`ContextTable` knows none of this: it is a set of record and context pairs.
`PackWriter` decides which contexts are added and in which order; it refers to
what this module stores only by record and parents.

### Interpolation

One behaviour is one way: `RejectWay` for the checks on the whole way,
`StartPairs`, then `WritePair` or `RejectPair` for each two neighbouring numeric
nodes, `Finish`. Names are taken in normalized form. `EstimatedNumber` is
`estimated_number` of the reverse geocoder with its u32 arithmetic
(`Wrap`, modulo `NumberLimit`), positions on the line being multiples of
`1/Scale`; it is applied to the records the builder wrote.

### ReverseCascade

`stage` is where `reverse` is: looking for an address, an interpolation or a
street (`FindAddress`, `NoAddress`, `TryEstimate`, ...), in one of the two loops
over records (`parents` is `enrich_record_context`, `nearby` is
`enrich_context`), or done. `VisitRecord` is one turn of either loop, with its
test of `seen` and `apply_context_record`; `EndParents` leaves the first loop,
applies the match's own fields unless it is a street, and starts the second;
`Answer` builds the response. `Fail` is any `?` on the way. `context`, `evidence`
and `seen` are the code's variables of these names (`evidence` is
`context_record_ids`). What the spatial index answers is an input (`query`), as
are the records (`Archive`) and the parents stored for each
(`BoundaryContext`): whether a candidate is a record of the layer asked for is
decided by the archive, as in the code. Labels and positions are left out.

`Sources` states the order of precedence without any of this: the list of
everything that may give a field. The properties compare the answer with it.

### OsmTags, BuilderReport and Discovery

Tags are a function from keys to values; `CleanTags` drops the blank ones when
an element is read, so afterwards a key that is there has a value. A report is
one bag of counter names and the first samples of each bucket (`SampleCap`);
`AcceptAddress`, `AcceptPlace`, ... and `RejectWithContext` are the report's
methods, every counter they touch included.

`CollectElement` turns an element into a chunk, by its kind; a way can be a
boundary, a street and an address at once. `MapBlock` decodes a block,
`JoinPartials` joins two chunks, either on the left: the pool promises no order.
`FinishScan` sorts the lists and starts the report (`DiscoveryResult`). The sort
keeps equal keys in the order they were joined in, so the result is independent
of it only because keys are unique: a rejection's key holds its issue, and one
way can be rejected as a street and as an address. Ids are integers and unique
within a type (`FilesAssumption`), as in any extract.

### OsmBuild and BoundaryRecords

`stage` is where `build_osm_pack` and `emit_normalized_records` are, `at` the
items of the stage's list that are done; one action is one round of a loop
(`Loops`, `Emit`), for an interpolation way one pair of anchors (`DecidePair`).
`ResolveBoundaryWays` and `ResolveNodeLocations` are the second and the third
pass. `BuildBoundaries` takes any subset of the candidates that have the
nodes they need, since an area is floating-point geometry; `WriteInterpolation`
and `RejectInterpolation` leave open what becomes of a pair, which
`Interpolation` decides. Postcodes and country codes are numbers, to have an
order (`CodesAssumption`).
`rows` and `rejectionRows` are what is handed to the pack writer, in order;
`reported` is auxiliary. An I/O error ends the build wherever it falls: that is
`PackWriter`'s subject.

What the model says of the code beyond its properties: a boundary relation
without usable members, and a boundary without an area, are dropped without a
row or a rejection, so `EveryFeatureDecided` says nothing of boundaries. The branch
of the code for a complete way without a centroid, and the second check of an
address's tags in `write_candidate`, are never taken.

### BoundaryRings

`Retain`, `StartRing`, `CloseRing`, `JoinSegment`, `DropRing` are the turns of
the two loops; `segments` is the vector with its `swap_remove` and `pop`, whose
order decides which piece is tried first. `DisjointRingsFound` is about members
that cut disjoint simple cycles, `RingsFollowMembers` about any. Rings
that touch at a node can come out as one ring that touches itself, by the order
of their pieces; `DisjointRingsFound` says nothing of those.

### BoundaryContext

`Stitch` is the steps of `BoundaryRings` for the outer members of one relation;
`WriteBoundaries` adds the relation to the other boundaries of the build, if it
has a ring (and an area, which is left open), derives countries and makes the
index. `Ask` takes any subset of the index as the boundaries around a point and
any names the record's own address may give; `Locate` returns them one by one in
any order, `Assign` chooses. Boundaries are in the order of the scan's lists,
ways before relations and each by id. The admin level follows from the layer, so
its comparison in `compare_boundary` never decides, and it is left out. A name
stands for its normalized form.

### PackServing

A coarser build than `PackWriter`'s, with what matters to someone who holds the
files: each name leads to a file (an inode), `RemoveFile` takes the name away but
not the file, and creating over a name that is there would truncate it. `Open`
follows `serve`: search first, then reverse, each from its own reading of the
manifest. Every open compares lengths with a header, except that of the two
arenas. `Reload` lets the Tantivy reader follow the directory at any time;
`Search` and `Hydrate` are the two searchers of one search. `EndBuild` is the
end, a failure or a kill at any step, `Exit` the same for the server. `PowerLoss`
cuts short any of the files that are never synced; it is assumed that a file is
never longer than what was written of it, that a file synced stays, and that a
directory's removals do not come back after later writes.

`quiet` limits two of the properties to a server that opened while no build
began and nothing was removed. Without it they fail, as the code intends:
nothing reopens the records when a rebuild replaces them, so a running server
has to be restarted after an update of its pack, before which hits of the new
index are looked up in the old records. `MappedFilesKeep` needs no such limit:
it is what the `unsafe` blocks assume ("immutable after build"). Putting
a new directory in place by a rename is, for the server, a rebuild whose
steps all come at once.

### TextQuery

A text is a sequence of characters; `Words` and `Folded` are
`normalize_index_text`: where words begin and end, and what `to_lowercase` makes
of the one letter (U+0130, `Dotted`) whose lower case is two characters. A
record's document is its subject (for autocomplete), its content, its label, its
number and its postcode; `Suggested` and `Found` are the two queries.

The index and autocomplete do not take a text apart in the same way. The fields
of the index go through Tantivy's default tokenizer (`Tokens`), which cuts a
normalized word again where `Folded` left a mark in it, and drops tokens of
`TokenLimit` characters (in the code 40 bytes) or more, leaving their place
empty (`Kept`). Autocomplete makes a term of each normalized word as it is, and
of the last one a prefix, which stands for the first `MaxExpansions` (1024)
words of the dictionary that begin with it (`Expansions`). The dictionary is
that of one segment, as `commit` leaves it after its merge.

The text typed is what a record is called or one of its postcode's spellings,
one character after another. `SuggestedWhileTyping` names its own exceptions,
which are the code's. Two are limits of the index: while the last word typed has
more completions than a prefix stands for, and is not yet the whole word, a
record may be gone (`WithinReach`: "king s" in a large pack); and a word the
tokenizer cuts or drops suggests nothing (`TokenizedAlike`). Two are about
numbers: a first word with a digit before another word is taken as a house
number, so a street such as "1st Avenue" is not suggested once its second word
is begun; and an address needs a number of one word.

### DemoReverse and DemoSearch

Browser tasks (user events, the timer, network answers) are actions; the
continuation of an aborted request is a microtask, so no task runs while one is
outstanding (`TaskMayRun`). `abort()` rejects the promise the request waits on:
if that is `fetch`, the handler returns at its `AbortError` test; if it is
`response.json()`, the code's `.catch(() => ({}))` swallows the error and the
handler goes on with an empty payload (`ResumeReverseBody`): it brings up the panel with
its own click's position and "No address found" or "Address unavailable", after
a newer click and after a clear alike. `LastClickDecides` says what bounds that:
no marker, line or address comes with it, and the last click's own outcome takes
its place. `cleared` and
`chosen` are history variables that only say what the user last did.

## 3. Runs

| Run | Shows | Bounds |
|---|---|---|
| `pack_writer` | numberings agree in memory and on disk, over failed, killed and repeated builds; a published pack never changes; the writer implements `PackLog` | 2 builds, 3 records, 2 rejections, batches of 2, layers country, region, address; 8636735 states |
| `records_store` | after every error and kill, a row that decodes is the record written as that row; a finished archive decodes whole | 3 rows, 6 records of 3 kinds, texts up to 3 characters, lengths up to 2, offsets below 4 |
| `cell_directory` | the merge of the pairs is exact for both directories; a query answers what a scan of its disk would; the loops end | 4 cells, 3 layers, 15 inputs of up to 4 points and 3 segments, chunks of 2, ids up to 2, 5 disks, limits 0, 1, 2, every distance of 3 |
| `context_store` | a lookup tells the first context added to the record, whatever was shared, sorted, dropped and encoded; a finished context opens, a stopped build shows nothing | 3 records, 3 tuples of 2 parents (one empty), 2 postcode choices, 3 calls, `MISSING_ID` = 3 |
| `interpolation` | accepted ranges are sound for every estimate; every pair decided once; streets not contradicted | numbers below 8, every way of up to 3 nodes and some of 4, 7 rules, 7 positions; every assignment of street and place to 2 or 3 anchors |
| `reverse_cascade` | the answer is of the best kind and names its record; fields come from the first source that gives one; evidence is exact | 9 records, 4 addresses, 3 lists of interpolations, 3 streets, 46 lists of up to 3 records nearby |
| `demo_reverse` | markers, line and any address named are the last click's, none after a clear, whatever aborted continuations do; a last click not cleared ends, and the panel then shows it | 4 clicks |
| `demo_search` | the list, its markers and the restored text belong to the last query; the spinner is honest and stops | 2 queries, 3 requests |
| `osm_build` | the scan is that of reading from front to back; every feature ends as one row or one rejection; none is unresolved while the file has its nodes; report and postcodes count the pack | 1536 files: every shape of a way (7 tags, 4 lists of nodes) against 3 nodes and 2 relations that are there, tagged or missing, and 24 files of 3 or 4 blocks; 2 samples per bucket; 42652 states |
| `boundaries` | rings run along members, disjoint cycles are all found; the choice ignores the R-tree's order, the country agrees with the boundaries | a square and a triangle in up to 5 pieces, in every order and direction, and 5 other lists of ways; every list of up to 5 of 9 boundaries, every subset of them around the point, in every order, 4 addresses; 1250357 states |
| `pack_serving` | nothing mapped changes; a server that got ready between rebuilds serves one pack; a hit is the record found | 3 builds of 2 or 3 records, segments cut differently, builds and server killed and power lost at any step; 620150 states |
| `text_query` | a record is suggested at every keystroke of its name or postcode at which the last word is complete or within the expansions of its prefix; search finds what is suggested | records of 5 layers, 20 names of 3 characters and 6 others, with words the tokenizer drops and letters it cuts at, 5 house numbers, 3 postcodes; tokens below 4 characters, 3 expansions; 687652 states |

Why the bounds are enough. *pack_writer*: three records give a derived country,
a boundary that uses it and a record whose context names both; batches of two
make one full batch, one partial batch and one flush in `finish`; the second
build meets every state the first can leave; two rejections have two rows and
two stretches of bytes to confuse. *interpolation*: three bits hold
ranges that end at the largest number, where a rounded-up step would wrap, and
steps that do not divide their range. Three anchors make two pairs that share
one. *records_store*: three rows reach the offset limit with entries of the wider
kind and stay below it with the others; one record's text is too long, one
text is shared by all three kinds, one is shared within a record.
*cell_directory*: the lists of points and of segments run out in either order,
share cells and leave cells empty; the third segment is in a second chunk; one
list of points exceeds the ids; disks hold absent cells and cells out of order;
`PairLimit` only bounds the sequences TLC enumerates. *context_store*: three
calls give a record two contexts with another record between them, a tuple used
twice, and a file long enough for the search to go both ways; the largest record
and tuple id are one below `MISSING_ID`. *reverse_cascade*: parents repeat among
themselves and nearby, one is blank and one is a street, two localities compete,
and a candidate may be of another kind than the index says. The proofs remove these
bounds. *osm_build*: a file has features that
compete for a node's tags, a way that is a boundary, a street and an address, an
extract cut through a way's nodes, and more rejections of a bucket than samples.
*boundaries*: two cycles can be confused by the first that touches, five pieces
are enough for each kind of join on both; two countries, four regions and three
localities tie in area, name and code. *pack_serving*: the third build finds
files of the first two; two builds with as many rows pass the row count check.
*text_query*: three characters are the shortest query answered, and also the
longest word the tokenizer keeps; three expansions are fewer than the
completions of some prefixes and enough for others.
*demo*: an answer can be late by more than
one request with three requests; four clicks show nothing new.

Deadlock is off where a run really ends: a way is finished, a text typed, or the
bounded clicks, requests or builds are used up and everything was answered. It
is checked in `osm_build`, `boundaries` and `pack_serving`: no build sticks before its
end.

### Fairness

`DemoReverse` and `DemoSearch` assume weak fairness of each request's answer and
continuation: a browser runs its microtasks, and a fetch ends in an answer or an
error (a timeout of the connection included). Nothing is assumed of the user: no
click, key or clear need ever happen. The timer has no fairness because no
property needs it. `CellDirectory` assumes weak fairness of `Step`, every
step but the arrival of a query: a build and a query are loops of one thread,
which end (`LoopsEnd`) if that thread runs. The other modules have only safety
properties.

## 4. Proofs

TLAPS checks every leaf, with no assumption beyond those on the constants
(`LayersAssumption`, `BatchAssumption`, `BoundsAssumption`, `SentinelAssumption`
in `PackWriter`; `KindsAssumption`, `RecordsAssumption`, `LimitsAssumption` in
`RecordsStore`; `CellsAssumption`, `LayersAssumption`, `InputsAssumption`,
`NumbersAssumption`, `DisksAssumption` in `CellDirectory`: cells are numbers, and
a disk lists a cell once; `IdsAssumption`, `LimitAssumption`,
`NoneAssumption` in `ContextStore`: ids and the number of calls stay below
`MISSING_ID`, which is 2^64 - 1; `ArchiveAssumption`, `BoundaryAssumption`,
`QueriesAssumption`, `NoneAssumption` in `ReverseCascade`: the shapes of a
record, of its stored parents and of the candidates, with `None` apart from all
values; `WaysAssumption`, `NumbersAssumption` in `Interpolation`;
`FilesAssumption` in `Discovery`: a file is a list of lists of elements, which
differ in type or id; `PairAssumption`, `CodesAssumption`, `AbsentAssumption` in
`OsmBuild`: a pair of anchors is never without a line, codes are numbers, an
absent value is no issue and no layer;
`MembersAssumption` in `BoundaryRings`: members are lists of nodes;
`BuildsAssumption` in `BoundaryContext`: the boundaries of a build differ in
their sources, and areas, names and codes are numbers; `NoneAssumption`
there, in `BrowserFetch` and in `ReverseCascade`: `None` is no value;
`BuildsAssumption`, `AbsentAssumption`, `SegmentsAssumption` in `PackServing`:
the documents of a build's segments are its records; `ClicksAssumption`,
`RunsAssumption` in the demo's modules: the bounds are numbers;
`CharactersAssumption`, `LimitsAssumption`, `RecordsAssumption` in `TextQuery`: a
blank is no letter, the letters and digits have an order, `Dotted` is a letter
and the mark in its lower case is none, the two limits are numbers, a pack has
finitely many records and a record has the fields of its struct in `record.rs`, so an address has a
number and a street or place, a postcode its code, and a street or place no
postcode).

Type correctness and four other facts hold by theorem only, without a run of
their own: the numbering of a build's stores (`NumberingsAgreeAlways`), its layer
counts (`LayerCountsCorrect`), the entries of an archive that opens
(`EntriesCorrect`) and the interned tuples (`TuplesCorrect`).

**PackWriter.** The safety properties speak about files that a reader opens; none
is inductive. The inductive invariant is `NumberingsAgree`: types (`TypeOK`), and
one part per store saying how far it may be ahead of `record_count` at each step
(`RowsInv`: the archive by one row between the push and `accept_record`;
`TextInv`: the pending and handed-over documents are exactly the first rows;
`SpatialInv`, `BoundaryInv`, `ContextInv`: ids are earlier rows of the stated
layer; `RejectionInv`, `CountsInv`), and `DiskInv`: a file that `finish` has
passed holds the memory of the build, and while a manifest is there every file
is gone or final. `Init` and every action preserve it (`NumberingsAgreeAlways`);
each property of the readers follows from it. `PublishedFilesImmutable` and
`WriterImplementsLog` are proved of steps, from the same invariant: the mapping
shows a pack when all files are there, counts accepted records by
`record_count`, and every action is a step of `PackLog` or a stutter. Steps of a
record before `accept_record` are stutters, so a record abandoned halfway never
was.

**RecordsStore.** The inductive invariant `StoreInv` says of every row written
that its word packs the kind of its record and the offset where its entry is,
that entries lie end to end, that the entry's spans hold the record's texts and
line in the arenas, and of every interned span that it holds its text. Arenas
only grow, so a span that holds its text does so for ever (`AppendHolds`); the
word splits again because offsets stay below the limit (`PackedWord`). Two more
parts are about the files: until `finish` has backfilled it, the header says no
rows and no bytes, and afterwards it says what was written, so two equal lengths
(`Opens`) leave an empty archive or the whole of the directory and the blob
(`OpenedRows`). Decoding correctly (`DecodingCorrect`) follows, even with arenas
cut short: a span inside the file holds its text, one beyond is refused.

**CellDirectory.** The invariant `CellInv` has two halves. `BuildInv`: the
references are the ids of the pairs merged so far (`RefsOf`), every entry's range
is exactly its cell's run of the sorted pairs (`EntriesInv`), and between two
turns of the loop each merged pair's cell has its entry while every other pair's
cell lies beyond all entries (`MergeInv`; inside a turn, beyond or at the
current cell). Without the last part a later cell could get a second entry. At
the end every pair is merged, so `DirectoryExact` follows (`RunHolds`,
`PairsOfCells`). `QueryInv`: the candidates are exactly the accepted ids met so
far, each once, and `seen` is what was met (`CandidatesInv`); entries below `low`
are smaller and entries from `high` on are larger than the cell looked for
(`SearchInv`), so an exhausted search means nothing is in that cell
(`AbsentCell`). Points are met once because each is in one cell and a disk lists
a cell once; segments because of `seen` (`NextRef`). When the disk is exhausted
the candidates are the matches (`CandidatesMatch`), and the first of them in
order are the nearest (`FirstsAreNearest`).

**ContextStore.** The invariant `StoreInv` keeps the memory of the writer sound
(`TuplesInterned`: the map is the inverse of the vector; `Covered`: every record
added is in the table), says what each file holds once its stage has passed
(`DiskInv`), and that entries outside the search bounds are smaller or larger
than the record asked for (`LookupInv`). The refinement maps the table to the
first entry of each record with its tuple looked up. Adding either leaves it as
it was or adds one row (`Appended`): interning never moves a tuple an older
entry refers to (`Interning`). Sorting and dropping leave it as it was
(`SortKeeps`), and after it every entry is a first (`SortedAreFirst`), so the
entry found is the only row of its record (`FindKeeps`) and an exhausted search
means there is none (`MissKeeps`). An id is read back as written because it is
below `MISSING_ID` (`DecodeEncode`); for tuple ids this needs that there are no
more tuples than calls (`Counted`).

**ReverseCascade.** The properties speak about an answer; the invariant
`CascadeInv` says the same of every step, with `Done` for how many of the
`Sources` have been asked. `FilledInv`: each field has the value of the first of
them that gives one, and the evidence is the records among them that were first
for a field. `LoopInv` says what the code's `seen` is good for: it contains the
evidence, so no record is evidence twice, and it holds only records of sources
already asked, so to skip one changes nothing (`NothingNew`) although `seen`
forgets at the second loop what the first visited in vain. `Current` is the
arithmetic of the lists: the record a loop is at is the next source, for every
kind of match. `OneMore` then shows that filling the gaps with the next source
changes the context exactly if that source is the first for a field.
`MatchInv` records what was ruled out before a kind was chosen; `PrimaryInv`
that the first evidence is the first record to tell anything, so `context_only`
names the right one.

**Interpolation.** The invariant says that each range written came from two
neighbouring nodes with an accepted pair (`BuilderInvariant`). `AcceptedIsValid`
draws from `validate_range` that the range is a whole number of steps.
`EstimateIsExact` then computes the estimate: with `end = start + k * step`, the
rounded index is at most `k`, so nothing wraps, and the estimate is
`start + index * step`. `EstimatesCorrect`, and `LineCorrect` and
`EstimatesMonotone`, which make `EstimatesFollow`, are drawn from it, for every width of the integers, every scale and every set of ways.

The way and both anchors of an accepted range have at most one street, and at
most one place, between them: three values of which any two that are given agree
are one (`AgreedIsOne`); the range takes its own from among them
(`AddressCorrect`). `PairsDecided` needs an invariant of
the loop (`OutcomesInv`): the pairs up to the node where it stands have one
outcome each, those beyond have none. Pairs never overlap, since each reaches
to the next numeric node (`PairsAreApart`); the loop ends at the last such node.

**Discovery.** `ScanOrder` holds for every file, any number of blocks, and every
order in which blocks are taken and partial results joined. The invariant
(`ScanInv`): the blocks that are read are shared out among the partial results
(`Partitioned`), and the chunk of each *gathers* its blocks' elements
(`Gathers`): it has the entries, counts, tags and required nodes of each of
them once, in whatever order. A chunk and a join keep that, left or right
(`GathersBoth`), as long as the sets of elements are disjoint; that two blocks
have no element in common follows from the unique ids (`Flattened`). It remains
that two chunks that gather the same elements give the same result
(`SameGathered`). No two entries of a list have the same key: an element has at
most one entry of each list, and its rejections differ in the rank of their
issue (`ElementKeyed`), so keys tell elements apart (`KeysApart`). Sorting then
puts every entry at a place that depends on the set of entries only
(`SortedByPlace`), and everything drawn from the sorted lists, the report with
its samples included, is the same.

**OsmBuild.** Four theorems about whole builds, for every file, any order of the
blocks and every choice the model leaves open. They share `BuildInv` (the scan's
invariant, sequences that stay sequences, the positions kept are the required
nodes of the file) and what the scan lists of an element: `NodeIs`, `WayIs` and
`RelationIs` say for each type of element which entries and rejections it has,
and `FoundIs` that after the scan each list has the entries of all elements,
sorted, each once. A build is then a walk over these lists.

- `UnresolvedAreMissing`. `ResolvedInv` says it of every row and rejection so
  far. A way that is listed has asked for all its nodes (`WayStubsAre`), so when
  one of them has no position the file does not have it (`ResolvedWays`); member
  ways of relations come into it through the boundaries that have an area
  (`CandidateIs`).
- `PostcodesAreCounted`. `PostcodeInv`: the accumulator has the codes of the
  address rows, each with the number of rows that have it (`Grouped`), and after
  `n` postcode rows the `n` lowest codes have theirs. A set of numbers has a
  member of each rank and not two (`RanksTaken`), so each turn finds its code,
  and the codes are finished when the turns are.
- `ReportIsThePack`. `ReportInv`: at every step after the scan the accepted
  counters are the rows; and of each issue, the rows of rejections written plus
  the scan's rows still waiting are as many as are reported plus the scan's rows
  written, since the scan reports its rejections long before it writes them.
- `FeaturesAreDecided`. `DecidedInv` counts, for every source, what was decided
  about it: what the scan refused, and one decision for each of its entries
  whose turn has come (`ItemDecided`); for an interpolation way one or more,
  since a pair is decided without the turn ending (`PairDecided`). A boundary
  row of the same element decides nothing of the three (`RowIgnored`). At the
  end all turns have come (`TurnsAre`), and an element with a place, a highway
  or an address has exactly one entry or one refusal for it (`NodeRefusalIs`,
  `WayEntriesAre`): that holds by the branches of the scan, that none is lost or
  decided twice in between by the invariant.

Two assumptions on constants are used: codes are numbers, so that they have an
order (`CodesAssumption`), and the value for an absent tag is no issue and no
layer (`AbsentAssumption`).

**BoundaryContext, rings.** `RingsFollow` holds of whole builds, for every list
of member ways. The invariant (`Paths`) says of everything the loop holds,
segments, the growing ring, finished rings, that it is a path on the members: a
list of nodes whose neighbours are neighbours in some member. `JoinedPath` shows
for each of the four ways to join that the shared node is kept once and no edge
is new; it rests on `JointPath`, the edges of two paths put end to end.

`RingsAreTheCycles` is about members that cut up disjoint cycles. Their edges
make a graph in which every node has two edges (`CutsAreRegular`), and the loop
only shares them out anew (`Shares`): all it holds are trails, which use no edge
twice, no edge is in two of them and none is lost. Where the growing ring ends,
the other edge of that node must be held by something; a trail that runs through
a node has both edges of it (`BothEdges`), so it can only be a segment that ends
there, and the loop finds one to join: no ring is dropped (`NoDrop`). At the end
all edges are in rings, and rings that share a node share its edges
(`SharedNode`), so they are the cycles.

**BoundaryContext, choice.** `ContextInv` says that the assignment is made of
exactly the boundaries around the point, in the order they were found. What is
chosen does not depend on that order because `compare_boundary` leaves no tie:
two boundaries of a build differ in a part of the key, at the latest in their
source (`KeysDiffer`), and a set of keys has one that is below all others
(`LeastKey`, `ChosenIsLeast`); it is the one the property prefers
(`BelowIsPreferred`). `CountryIsRight` follows a chosen region to the record
that was derived for its code, which is derived only where no country of the
build has that code (`DerivedAreNeeded`, `AcceptedEntries`).

**PackServing.** The invariant has two halves. The directory's
(`DirectoryInv`) does not depend on the server: a file carries the number of the
build that made it, all files in the directory are of one build
(`FilesOfOneBuild`), those of the build at work are what its steps so far have
made them (`BuildOnItsWay`), and a whole manifest means that the records are
synced and the text index is merged (`ManifestComesLast`). The server's
(`ServerInv`) rests on it: what is mapped was whole and is of a build that will
not write to it again (`MappedInv`, from which `MappedFilesAreKept`); in quiet,
all that was opened so far is of the pack whose manifest was seen, and that pack
still is in the directory (`OnePack`, from which `OnePackIsServed`). A hit names
a document by its place in a segment; a quiet server reads one segment
(`QuietSegments`), in which places are the row numbers, also when a reload came
between the two searchers (`QueryInv`, from which `AnswersAreTheirRecords`).

**DemoReverse and DemoSearch.** Each property has one reason: of all requests ever
sent only the latest can still be answered. The others have ended or were aborted
(`ClickInv`, `RunInv`). An aborted click whose body was being read goes on with
nothing in its hands: it shows its coordinates, but neither an address nor a
marker of its own. Unless cleared it is older than the last click
(`AbortedClick`), which is still being fetched, so its outcome comes after.
After a clear no request can be answered at all. The theorems hold for any
number of clicks and requests.

**TextQuery.** `TypingSuggests` and `SearchAgrees` hold of any finite pack, of
texts of any length, and for any two limits. The state invariant is small (`TypedInv`: what is typed
begins the text); the work is in what the recursive functions of the module
compute. Each is shown to be the end of a walk that exists (`WalkExists`), and
what holds of a walk's first step and is handed on holds of its last (`UpTo`), so
no induction theorem with an operator parameter is needed. Of a text's words:
those read so far begin all of them (`ReadingGrows`), hence those of what is
typed begin those of the text (`TypedBegins`); a blank between two texts keeps
their words apart (`WordsTogether`: an address's number and its street); a
postcode without its blanks is one word (`OneWord`). Of a document: dropping
empty and repeated parts loses no word (`UniqueIs`), and putting the parts
together keeps the tokens of each in their order and place (`TokensAre`,
`FieldIs`), so whatever begins a part is a phrase of the subject
(`PhraseOfPart`). A word below the limit without the letter that is cut is its
own token (`Undotted`, `WordsUndotted`). What a prefix stands for contains the
word meant (`Reaches`) because either all completions are expanded, or it is the
prefix itself, which the dictionary has before all that it begins
(`PrefixFirst`). That the subject's words are in the content (`SubjectIs`) is
all that search needs to agree with autocomplete.

**Only model-checked**: the liveness properties (`LastClickSettles`,
`SpinnerStops`, `LoopsEnd`), since the prover handles neither fairness nor
ENABLED.

## 5. Where code and comments differ

Three statements of the repository that the models show not to hold, and one that
a user would make of it. Each is a definition that no run checks; a configuration
that names it as an invariant gives the trace.

1. `DemoReverse!CoordsStayShown`. `demo/app.js:325-326` says the clicked coordinates
   "stay shown for the whole lifetime of the result". A click that aborts an
   earlier request while its body is being read lets that request's handler go
   on with `{}` (`demo/app.js:308`): the panel shows the earlier coordinates and
   "No address found" until the new answer comes. A clear in the same moment
   hides the panel, and the handler shows it again, with the coordinates of the
   click that was cleared and "No address found" (or "Address unavailable", if
   the response was an error), until the next click or clear; `LastClickDecides` says
   what can not come with it.
2. `DemoSearch!ChosenListReopens`. `demo/app.js:129-130` says the first press of the clear
   button after selecting a result re-opens the list. `selectResult`
   (`demo/app.js:426`) leaves the debounce timer and the request alone; a timer
   armed before the choice empties the list, and the button clears instead.
3. `TextQuery!TwoCharactersSuggest`. The page sends a query from its second
   character on (`demo/app.js:93`) and asks for "at least 2 characters"
   (`demo/app.js:100`); autocomplete answers nothing below three (`search.rs:112`).
4. `TextQuery!WholeNameSuggests`. Whoever types a street's name to its end should
   see it suggested. A name with the letter U+0130 ("İstanbul Street") never is:
   `normalize_index_text` (`text_index.rs:582-586`) makes an "i" and a combining
   dot of it, the default tokenizer of the index (`text_index.rs:409`) cuts the
   word at the dot, and autocomplete asks for the uncut word
   (`search.rs:267-275`). Nor is a name with a word of 40 bytes or more, which
   the tokenizer drops. Search finds the first, by the name it keeps as it is
   written; a search for the second finds nothing either, unless it leaves the
   long word out.

## 6. Plan

Done: the pack and its stores, their readers and the reverse geocoder
(`PackWriter`, `RecordsStore`, `CellDirectory`, `ContextStore`, `Interpolation`,
`ReverseCascade`); the demo's map; the build from the extract (`OsmTags`,
`BuilderReport`, `Discovery`, `OsmBuild`); boundaries (`BoundaryRings`,
`BoundaryRecords`, `BoundaryContext`); rebuilds under a server (`PackServing`);
text search (`TextQuery`).

Left: nothing of the plan. Every safety property a run checks is a theorem; the
liveness properties stay with the runs.

## 7. Not modelled

* H3 cells, distances, projections, areas and point-in-polygon tests:
  floating-point geometry, out of a model checker's reach; where a decision
  depends on them the models take any outcome.
* Ranking, limits on the number of hits, the layer filter, the syntax of Tantivy's query
  parser (a query with its operators is a query in its language), and Tantivy
  itself beyond commits, merges and reloads.
* The texts of labels, names and ids, and the average position of a postcode.
* HTTP parameter checks, problem documents, request ids, routes: stateless per
  request.
* Timings, throughput and byte sizes in the report, progress bars, benches and
  the command line: no state a pack depends on.
* The demo's shared code (map construction, icons, zoom) and its store locator,
  an example page that handles timer, requests and list as the map does.
