------------------------------ MODULE PackServing ------------------------------
(***************************************************************************)
(* A pack directory shared by a builder and a server.  The builder         *)
(* (PackWriter::create and finish in src/pack.rs) removes what is there    *)
(* and writes its files anew; the server (serve in src/runtime.rs) opens   *)
(* the pack twice, for search and for reverse geocoding, keeps the files   *)
(* mapped, and answers from them.  Only the text index follows the         *)
(* directory: its Tantivy reader reloads when a commit appears.            *)
(*                                                                         *)
(* A file, as the system knows it, is a number (an inode): a name in the   *)
(* directory leads to one, a mapping keeps one that was removed, and to    *)
(* create a file under a name that exists truncates the one it leads to.   *)
(* "records" is the directory and the blob of the archive, "arenas" its    *)
(* other two files, "context" and "spatial" the files of these indexes.    *)
(***************************************************************************)
EXTENDS Naturals, Sequences, SequencesExt, FiniteSets

CONSTANTS
  MaxBuilds,   \* bound: builds into the directory
  Segments,    \* build -> the segments its text index is committed with, each
               \* the list of its records; the records are 1..n
  Absent,      \* no such file
  Nothing      \* no reader, query or answer

ASSUME BuildsAssumption == MaxBuilds \in Nat
ASSUME AbsentAssumption == Absent \notin 1..MaxBuilds

Files == {"records", "arenas", "text", "spatial", "context", "manifest"}

VARIABLES
  entries,   \* the directory: name -> file, or Absent
  content,   \* name -> file -> [build, state]
  phase,     \* the builder: "idle", "removing" or "writing"
  builds,    \* builds begun
  written,   \* steps of BuildSteps that are done
  opening,   \* the server: "down", the open it is at, or "ready"
  mapped,    \* open -> file it got and what that held: [file, build, state]
  reader,    \* what the Tantivy reader has loaded: [build, state]
  query,     \* a search before hydration: [asked, address], or Nothing
  answer,    \* its answer: [asked, given], or Nothing
  quiet      \* auxiliary: no build begun, nothing removed since the server
             \* began to open

directory == <<entries, content>>
builder   == <<phase, builds, written>>
server    == <<opening, mapped, reader, query, answer, quiet>>
vars      == <<directory, builder, server>>

-----------------------------------------------------------------------------
(* The builder *)

(* Mutant of BuildSteps: the manifest comes before the text index. *)
BuildStepsManifestEarly ==
  <<<<"records", "growing">>, <<"arenas", "growing">>, <<"text", "empty">>,
    <<"records", "whole">>, <<"arenas", "whole">>,
    <<"spatial", "growing">>, <<"spatial", "whole">>,
    <<"context", "growing">>, <<"context", "whole">>,
    <<"manifest", "growing">>, <<"manifest", "whole">>,
    <<"text", "committed">>, <<"text", "merged">>>>

(* Mutant of BuildSteps: the text index is merged when all else is done.    *)
BuildStepsMergeLast ==
  <<<<"records", "growing">>, <<"arenas", "growing">>, <<"text", "empty">>,
    <<"records", "whole">>, <<"arenas", "whole">>, <<"text", "committed">>,
    <<"spatial", "growing">>, <<"spatial", "whole">>,
    <<"context", "growing">>, <<"context", "whole">>,
    <<"manifest", "growing">>, <<"manifest", "whole">>, <<"text", "merged">>>>

(* create, then finish: what becomes of which file, in this order.  A file  *)
(* that is not whole yet has a header that does not fit its length.         *)
BuildSteps ==
  <<<<"records", "growing">>, <<"arenas", "growing">>, <<"text", "empty">>,
    <<"records", "whole">>, <<"arenas", "whole">>,
    <<"text", "committed">>, <<"text", "merged">>,
    <<"spatial", "growing">>, <<"spatial", "whole">>,
    <<"context", "growing">>, <<"context", "whole">>,
    <<"manifest", "growing">>, <<"manifest", "whole">>>>

StartBuild ==
  /\ phase = "idle" /\ builds < MaxBuilds
  /\ phase' = "removing"
  /\ builds' = builds + 1
  /\ written' = 0
  /\ quiet' = FALSE
  /\ UNCHANGED <<directory, opening, mapped, reader, query, answer>>

(* fs::remove_dir_all, in the order of the file system. *)
RemoveFile(name) ==
  /\ phase = "removing" /\ entries[name] # Absent
  /\ entries' = [entries EXCEPT ![name] = Absent]
  /\ quiet' = FALSE
  /\ UNCHANGED <<content, builder, opening, mapped, reader, query, answer>>

(* Mutant of AllRemoved: the new files are created over the old ones. *)
AllRemovedOrNot == TRUE

AllRemoved == \A name \in Files : entries[name] = Absent

BeginWriting ==
  /\ phase = "removing" /\ AllRemoved
  /\ phase' = "writing"
  /\ UNCHANGED <<directory, builds, written, server>>

BuildStep ==
  /\ phase = "writing" /\ written < Len(BuildSteps)
  /\ LET name  == BuildSteps[written + 1][1]
         state == BuildSteps[written + 1][2]
         file  == IF entries[name] = Absent THEN builds ELSE entries[name]
     IN /\ entries' = [entries EXCEPT ![name] = file]
        /\ content' = [content EXCEPT ![name][file] =
                         [build |-> builds, state |-> state]]
  /\ written' = written + 1
  /\ UNCHANGED <<phase, builds, server>>

(* The build is over: finished, failed, or killed. *)
EndBuild ==
  /\ phase # "idle"
  /\ phase' = "idle"
  /\ UNCHANGED <<directory, builds, written, server>>

-----------------------------------------------------------------------------
(* The text index, external: a reader holds the segments of one commit *)

Snapshot == content["text"][entries["text"]]

Merged(build) == FoldLeft(\o, <<>>, Segments[build])

(* The documents of a build are its records, which are numbered from one.   *)
ASSUME SegmentsAssumption ==
  \A build \in 1..MaxBuilds : \A d \in DOMAIN Merged(build) :
    Merged(build)[d] \in 1..Len(Merged(build))

SegmentsOf(snapshot) ==
  CASE snapshot.state = "empty"     -> <<>>
    [] snapshot.state = "committed" -> Segments[snapshot.build]
    [] snapshot.state = "merged"    -> <<Merged(snapshot.build)>>

(* The reader notices a commit in the directory, some time after it. *)
Reload ==
  /\ reader # Nothing /\ entries["text"] # Absent
  /\ reader' = Snapshot
  /\ UNCHANGED <<directory, builder, opening, mapped, query, answer, quiet>>

-----------------------------------------------------------------------------
(* The server opens the pack, once for search and once for reverse          *)
(* geocoding; a failure anywhere ends it.                                   *)

Opens == <<"search manifest", "search records", "search context", "search text",
           "reverse manifest", "reverse records", "reverse context",
           "reverse spatial", "ready">>

After(open) == Opens[1 + CHOOSE i \in DOMAIN Opens : Opens[i] = open]

Start ==
  /\ opening = "down"
  /\ opening' = Opens[1]
  /\ quiet' = TRUE
  /\ UNCHANGED <<directory, builder, mapped, reader, query, answer>>

There(name) == entries[name] # Absent
Held(name)  == content[name][entries[name]]
IsWhole(name) == There(name) /\ Held(name).state = "whole"
Rows(build) == Len(Merged(build))

(* The file an open maps; "arenas" is mapped along with "records".          *)
NameOf(open) ==
  CASE open \in {"search manifest", "reverse manifest"} -> "manifest"
    [] open \in {"search records", "reverse records"}   -> "records"
    [] open \in {"search arenas", "reverse arenas"}     -> "arenas"
    [] open \in {"search context", "reverse context"}   -> "context"
    [] open = "reverse spatial"                         -> "spatial"

Mapping(name) ==
  [file |-> entries[name], build |-> Held(name).build, state |-> Held(name).state]

Got(opens) ==
  /\ mapped' = [open \in opens \cup DOMAIN mapped |->
                  IF open \in opens THEN Mapping(NameOf(open)) ELSE mapped[open]]
  /\ UNCHANGED reader

(* The manifest is parsed; all further checks compare with what it says.    *)
OpenManifest(open) ==
  /\ opening = open /\ IsWhole("manifest")
  /\ Got({open})

(* RecordsStore::open checks the length of the directory and of the blob,   *)
(* PackReader::open the number of rows.                                     *)
OpenRecords(open, arenas, manifest) ==
  /\ opening = open /\ IsWhole("records") /\ There("arenas")
  /\ Rows(Held("records").build) = Rows(mapped[manifest].build)
  /\ Got({open, arenas})

OpenIndex(open, name) ==
  /\ opening = open /\ IsWhole(name)
  /\ Got({open})

OpenText ==
  /\ opening = "search text" /\ There("text")
  /\ reader' = Snapshot
  /\ UNCHANGED mapped

(* PackTextSearcher::open, then PackReverseGeocoder::open. *)
CanOpen ==
  \/ OpenManifest("search manifest")
  \/ OpenRecords("search records", "search arenas", "search manifest")
  \/ OpenIndex("search context", "context")
  \/ OpenText
  \/ OpenManifest("reverse manifest")
  \/ OpenRecords("reverse records", "reverse arenas", "reverse manifest")
  \/ OpenIndex("reverse context", "context")
  \/ OpenIndex("reverse spatial", "spatial")

Open ==
  /\ CanOpen
  /\ opening' = After(opening)
  /\ UNCHANGED <<directory, builder, query, answer, quiet>>

(* An open fails, or the server is stopped. *)
Exit ==
  /\ opening # "down"
  /\ opening' = "down"
  /\ mapped' = <<>> /\ reader' = Nothing /\ query' = Nothing /\ answer' = Nothing
  /\ quiet' = TRUE
  /\ UNCHANGED <<directory, builder>>

-----------------------------------------------------------------------------
(* A search *)

(* The first searcher finds a document, known by its place in a segment. *)
Search ==
  /\ opening = "ready" /\ query = Nothing
  /\ \E s \in DOMAIN SegmentsOf(reader) : \E d \in DOMAIN SegmentsOf(reader)[s] :
       query' = [asked   |-> <<reader.build, SegmentsOf(reader)[s][d]>>,
                 address |-> <<s, d>>]
  /\ answer' = Nothing
  /\ UNCHANGED <<directory, builder, opening, mapped, reader, quiet>>

(* hydrate_top_docs takes a searcher of its own, reads the record id at     *)
(* that place and the record from the mapped archive; where either is not   *)
(* there, the request fails (Nothing).                                      *)
Hydrate ==
  /\ query # Nothing
  /\ LET segments == SegmentsOf(reader)
         at       == query.address
         archive  == mapped["search records"].build
         found    == IF at[1] \in DOMAIN segments /\ at[2] \in DOMAIN segments[at[1]]
                     THEN segments[at[1]][at[2]] ELSE 0
     IN answer' = [asked |-> query.asked,
                   given |-> IF found \in 1..Rows(archive) THEN <<archive, found>>
                             ELSE Nothing]
  /\ query' = Nothing
  /\ UNCHANGED <<directory, builder, opening, mapped, reader, quiet>>

-----------------------------------------------------------------------------
(* A power loss ends both.  What was not synced may be cut short: the       *)
(* records are synced by finish, the text index by Tantivy, the rest never. *)
(* A file is not longer than what was written of it, and removals last.     *)

Unsynced == {"spatial", "context", "manifest"}

PowerLoss(lost) ==
  /\ \A name \in lost : There(name)
  /\ content' = [name \in Files |->
                   IF name \in lost
                   THEN [content[name] EXCEPT ![entries[name]].state = "short"]
                   ELSE content[name]]
  /\ phase' = "idle" /\ opening' = "down"
  /\ mapped' = <<>> /\ reader' = Nothing /\ query' = Nothing /\ answer' = Nothing
  /\ quiet' = TRUE
  /\ UNCHANGED <<entries, builds, written>>

-----------------------------------------------------------------------------
Init ==
  /\ entries = [name \in Files |-> Absent]
  /\ content = [name \in Files |->
                  [file \in 1..MaxBuilds |-> [build |-> file, state |-> "growing"]]]
  /\ phase = "idle" /\ builds = 0 /\ written = 0
  /\ opening = "down" /\ mapped = <<>> /\ reader = Nothing
  /\ query = Nothing /\ answer = Nothing /\ quiet = TRUE

Next ==
  \/ StartBuild \/ (\E name \in Files : RemoveFile(name))
  \/ BeginWriting \/ BuildStep \/ EndBuild
  \/ Start \/ Open \/ Exit
  \/ Reload \/ Search \/ Hydrate
  \/ \E lost \in SUBSET Unsynced : PowerLoss(lost)

Spec == Init /\ [][Next]_vars

-----------------------------------------------------------------------------
(* Properties *)

(* What a server has mapped stays what it was, whatever builds do to the    *)
(* directory, before and after the server is ready: no file is written or   *)
(* truncated under a mapping.  (The arenas have no length to check and may  *)
(* be mapped while they still grow.)  The readers' unsafe blocks rely on    *)
(* this: "immutable after build".                                           *)
MappedFilesKeep ==
  \A open \in DOMAIN mapped :
    LET now == content[NameOf(open)][mapped[open].file]
    IN /\ now.build = mapped[open].build
       /\ mapped[open].state # now.state =>
            mapped[open].state = "growing" /\ NameOf(open) = "arenas"

(* A server that gets ready while no build begins or removes anything       *)
(* serves one pack, all of it: both readers, all files and the text index   *)
(* are of one build and complete, whatever earlier builds left when they    *)
(* failed or were killed or the power went, and even while the builder is   *)
(* still at work.  The manifest is looked at first, twice, and written last. *)
ReadyServesOnePack ==
  opening = "ready" /\ quiet =>
    \E build \in 1..MaxBuilds :
      /\ \A open \in DOMAIN mapped :
           LET now == mapped[open] IN now.build = build /\ now.state = "whole"
      /\ reader = [build |-> build, state |-> "merged"]

(* Under the same condition the answer to a search is the record of the     *)
(* document that was found, although hydration takes a second searcher and  *)
(* the reader may reload in between.                                        *)
HitsNameTheirRecord ==
  answer # Nothing /\ quiet => answer.given = answer.asked
=============================================================================
