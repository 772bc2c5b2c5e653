--------------------------- MODULE PackServingProofs ---------------------------
(***************************************************************************)
(* Proofs about PackServing: for any number of builds and any segments,    *)
(* what a server has mapped is never written again, and a server that got  *)
(* ready while nothing was begun or removed answers from one whole pack.   *)
(*                                                                         *)
(* The argument: a file carries the number of the build that made it, all  *)
(* files in the directory are of one build, and the manifest is whole only *)
(* when that build has done its last step.                                 *)
(*                                                                         *)
(* The last two sections are about the server's clients, the two halves of *)
(* the demo map (DemoReverse and DemoSearch): of their requests, only the  *)
(* latest can still be answered.                                           *)
(***************************************************************************)
EXTENDS PackServing, DemoReverse, DemoSearch, TLAPS

-----------------------------------------------------------------------------
(* The steps of a build *)

Steps == 13

(* A file is there once its first step is done. *)
MadeAt(name) ==
  CASE name = "records" -> 1 [] name = "arenas"  -> 2  [] name = "text" -> 3
    [] name = "spatial" -> 8 [] name = "context" -> 10 [] name = "manifest" -> 12
Made(name, n) == n >= MadeAt(name)

(* The step that completes a file; the text index has two. *)
WholeAt(name) ==
  CASE name = "records" -> 4 [] name = "arenas"  -> 5  [] name = "text" -> 7
    [] name = "spatial" -> 9 [] name = "context" -> 11 [] name = "manifest" -> 13

(* What the steps up to n have made of a file. *)
StateAt(name, n) ==
  IF name = "text"
  THEN IF n < 3 THEN "growing" ELSE IF n < 6 THEN "empty"
       ELSE IF n < 7 THEN "committed" ELSE "merged"
  ELSE IF n < WholeAt(name) THEN "growing" ELSE "whole"

(* A step makes one file what it is to be after it and leaves the others;   *)
(* no file but the text index has a step after it is whole.                 *)
LEMMA BuildStepsProgress ==
  ASSUME NEW n \in 0..Steps - 1
  PROVE  LET name == BuildSteps[n + 1][1]
         IN /\ name \in Files
            /\ BuildSteps[n + 1][2] = StateAt(name, n + 1)
            /\ Made(name, n + 1)
            /\ name # "text" => StateAt(name, n) = "growing"
            /\ \A other \in Files \ {name} :
                 /\ StateAt(other, n + 1) = StateAt(other, n)
                 /\ Made(other, n + 1) <=> Made(other, n)
<1> USE DEF BuildSteps, Files, StateAt, WholeAt, Made, MadeAt, Steps
<1>1. CASE n = 0
  BY <1>1
<1>2. CASE n = 1
  BY <1>2
<1>3. CASE n = 2
  BY <1>3
<1>4. CASE n = 3
  BY <1>4
<1>5. CASE n = 4
  BY <1>5
<1>6. CASE n = 5
  BY <1>6
<1>7. CASE n = 6
  BY <1>7
<1>8. CASE n = 7
  BY <1>8
<1>9. CASE n = 8
  BY <1>9
<1>10. CASE n = 9
  BY <1>10
<1>11. CASE n = 10
  BY <1>11
<1>12. CASE n = 11
  BY <1>12
<1>13. CASE n = 12
  BY <1>13
<1> HIDE DEF BuildSteps, Files, StateAt, WholeAt, Made, MadeAt
<1> QED
  BY <1>1, <1>2, <1>3, <1>4, <1>5, <1>6, <1>7, <1>8, <1>9, <1>10, <1>11, <1>12, <1>13

LEMMA StepsAreAll == Len(BuildSteps) = Steps
BY DEF BuildSteps, Steps

-----------------------------------------------------------------------------
(* The invariant of the directory *)

Numbers == 1..MaxBuilds
States == {"growing", "whole", "empty", "committed", "merged", "short"}

DirectoryType ==
  /\ entries \in [Files -> Numbers \cup {Absent}]
  /\ content \in [Files -> [Numbers -> [build : Numbers, state : States]]]
  /\ phase \in {"idle", "removing", "writing"}
  /\ builds \in 0..MaxBuilds
  /\ written \in 0..Steps

(* A file has the number of its build; those in the directory are of one    *)
(* build, and those of builds to come are untouched.                        *)
FilesOfOneBuild ==
  /\ \A name \in Files : \A f \in Numbers : content[name][f].build = f
  /\ \A name \in Files : entries[name] # Absent => entries[name] \in 1..builds
  /\ \A name, other \in Files :
       entries[name] # Absent /\ entries[other] # Absent => entries[name] = entries[other]
  /\ \A name \in Files : \A f \in Numbers :
       f > builds => content[name][f].state = "growing"

(* While a build is at work, its files are what its steps so far made them. *)
BuildOnItsWay ==
  /\ phase = "removing" =>
       written = 0 /\ builds \in Numbers /\ \A name \in Files : content[name][builds].state = "growing"
  /\ phase = "writing" =>
       /\ builds \in Numbers
       /\ \A name \in Files :
            /\ content[name][builds].state = StateAt(name, written)
            /\ entries[name] = IF Made(name, written) THEN builds ELSE Absent

(* The manifest is whole only when all that is not lost with it is whole:   *)
(* the records are synced, the text index is merged, and both came before.  *)
ManifestComesLast ==
  \A f \in Numbers :
    content["manifest"][f].state = "whole" =>
      /\ content["records"][f].state = "whole"
      /\ content["arenas"][f].state = "whole"
      /\ content["text"][f].state = "merged"

(* The files of the records are never cut short. *)
RecordsKeep ==
  \A f \in Numbers : \A name \in {"records", "arenas"} :
    content[name][f].state \in {"growing", "whole"}

DirectoryInv ==
  DirectoryType /\ FilesOfOneBuild /\ BuildOnItsWay /\ ManifestComesLast /\ RecordsKeep

-----------------------------------------------------------------------------
(* The invariant of the server *)

Mappings == {"search manifest", "reverse manifest", "search records",
             "reverse records", "search arenas", "reverse arenas",
             "search context", "reverse context", "reverse spatial"}

BeforeText == {"down", "search manifest", "search records", "search context",
               "search text"}
AfterText  == {"reverse manifest", "reverse records", "reverse context",
               "reverse spatial", "ready"}

ServerType == opening \in BeforeText \cup AfterText

(* What is mapped was whole and still is; arenas may have been growing. *)
Kept(name, held) ==
  /\ held.file \in Numbers
  /\ held.build = held.file
  /\ \/ held.state = "whole" /\ content[name][held.file].state = "whole"
     \/ held.state = "growing" /\ name = "arenas"

MappedInv ==
  \A open \in DOMAIN mapped : open \in Mappings /\ Kept(NameOf(open), mapped[open])

OpensInOrder ==
  /\ opening \in {"down", "search manifest"} => DOMAIN mapped = {}
  /\ opening \notin {"down", "search manifest", "search records"} =>
       "search records" \in DOMAIN mapped
  /\ opening # "ready" => query = Nothing /\ answer = Nothing

(* Once a quiet server has seen the manifest, the directory keeps the pack  *)
(* that it opens.                                                           *)
Pack == entries["manifest"]

OnePack ==
  quiet /\ opening \notin {"down", "search manifest"} =>
    /\ Pack # Absent
    /\ content["manifest"][Pack].state = "whole"
    /\ \A open \in DOMAIN mapped :
         mapped[open].build = Pack /\ mapped[open].state = "whole"
    /\ opening \in AfterText => reader = [build |-> Pack, state |-> "merged"]

(* A query knows its document by its place in the merged index. *)
QueryInv ==
  /\ quiet /\ opening = "ready" /\ query # Nothing =>
       /\ query.address[1] = 1
       /\ query.address[2] \in DOMAIN Merged(Pack)
       /\ query.asked = <<Pack, Merged(Pack)[query.address[2]]>>
  /\ quiet /\ answer # Nothing => answer.given = answer.asked

ServerInv == ServerType /\ MappedInv /\ OpensInOrder /\ OnePack /\ QueryInv

Inv == DirectoryInv /\ ServerInv

-----------------------------------------------------------------------------
(* The directory *)

LEMMA InitDirectory == Init => DirectoryInv
<1> SUFFICES ASSUME Init PROVE DirectoryInv
  OBVIOUS
<1>1. DirectoryType
  BY BuildsAssumption DEF Init, DirectoryType, Numbers, States, Steps
<1>2. FilesOfOneBuild
  BY DEF Init, FilesOfOneBuild, Numbers
<1>3. BuildOnItsWay
  BY DEF Init, BuildOnItsWay
<1>4. ManifestComesLast /\ RecordsKeep
  BY DEF Init, ManifestComesLast, RecordsKeep, Numbers, Files
<1> QED
  BY <1>1, <1>2, <1>3, <1>4 DEF DirectoryInv

LEMMA StartBuildDirectory == DirectoryInv /\ StartBuild => DirectoryInv'
<1> SUFFICES ASSUME DirectoryInv, StartBuild PROVE DirectoryInv'
  OBVIOUS
<1>1. /\ entries' = entries /\ content' = content
      /\ phase' = "removing" /\ builds' = builds + 1 /\ written' = 0
      /\ builds \in 0..MaxBuilds /\ builds < MaxBuilds
  BY DEF StartBuild, directory, DirectoryInv, DirectoryType
<1>2. builds' \in Numbers
  BY <1>1, BuildsAssumption DEF Numbers
<1>3. DirectoryType'
  BY <1>1, <1>2 DEF DirectoryInv, DirectoryType, Numbers, Steps
<1>4. FilesOfOneBuild'
  BY <1>1, BuildsAssumption DEF DirectoryInv, FilesOfOneBuild, Numbers
<1>5. BuildOnItsWay'
  BY <1>1, <1>2, BuildsAssumption DEF DirectoryInv, FilesOfOneBuild, BuildOnItsWay
<1>6. ManifestComesLast' /\ RecordsKeep'
  BY <1>1 DEF DirectoryInv, ManifestComesLast, RecordsKeep
<1> QED
  BY <1>3, <1>4, <1>5, <1>6 DEF DirectoryInv

LEMMA RemoveFileDirectory ==
  ASSUME DirectoryInv, NEW name \in Files, RemoveFile(name)
  PROVE  DirectoryInv'
<1>1. /\ entries' = [entries EXCEPT ![name] = Absent] /\ content' = content
      /\ phase = "removing" /\ phase' = phase /\ builds' = builds /\ written' = written
  BY DEF RemoveFile, builder
<1>2. DirectoryType'
  BY <1>1 DEF DirectoryInv, DirectoryType
<1>3. FilesOfOneBuild'
  BY <1>1 DEF DirectoryInv, DirectoryType, FilesOfOneBuild
<1>4. BuildOnItsWay'
  BY <1>1 DEF DirectoryInv, BuildOnItsWay
<1>5. ManifestComesLast' /\ RecordsKeep'
  BY <1>1 DEF DirectoryInv, ManifestComesLast, RecordsKeep
<1> QED
  BY <1>2, <1>3, <1>4, <1>5 DEF DirectoryInv

LEMMA BeginWritingDirectory == DirectoryInv /\ BeginWriting => DirectoryInv'
<1> SUFFICES ASSUME DirectoryInv, BeginWriting PROVE DirectoryInv'
  OBVIOUS
<1>1. /\ entries' = entries /\ content' = content /\ phase = "removing"
      /\ phase' = "writing" /\ builds' = builds /\ written' = written
      /\ \A name \in Files : entries[name] = Absent
  BY DEF BeginWriting, directory, AllRemoved
<1>2. \A name \in Files : StateAt(name, 0) = "growing" /\ ~Made(name, 0)
  <2> SUFFICES ASSUME NEW name \in Files
               PROVE  StateAt(name, 0) = "growing" /\ ~Made(name, 0)
    OBVIOUS
  <2>1. StateAt(name, 0) = "growing"
    BY DEF Files, StateAt, WholeAt
  <2>2. ~Made(name, 0)
    BY DEF Files, Made, MadeAt
  <2> QED
    BY <2>1, <2>2
<1>3. DirectoryType'
  BY <1>1 DEF DirectoryInv, DirectoryType
<1>4. FilesOfOneBuild'
  BY <1>1 DEF DirectoryInv, FilesOfOneBuild
<1>5. BuildOnItsWay'
  BY <1>1, <1>2 DEF DirectoryInv, BuildOnItsWay
<1>6. ManifestComesLast' /\ RecordsKeep'
  BY <1>1 DEF DirectoryInv, ManifestComesLast, RecordsKeep
<1> QED
  BY <1>3, <1>4, <1>5, <1>6 DEF DirectoryInv

(* What BuildStep does: one file of the build at work gets its next state,  *)
(* and unless it is the text index it was growing until now.                *)
LEMMA BuildStepEffect ==
  ASSUME DirectoryInv, BuildStep
  PROVE  \E name \in Files :
           /\ written \in 0..Steps - 1 /\ written' = written + 1 /\ builds \in Numbers
           /\ phase = "writing" /\ phase' = phase /\ builds' = builds
           /\ entries' = [entries EXCEPT ![name] = builds]
           /\ content' = [content EXCEPT ![name] = [content[name] EXCEPT ![builds] =
                            [build |-> builds, state |-> StateAt(name, written + 1)]]]
           /\ Made(name, written + 1)
           /\ name # "text" => content[name][builds].state = "growing"
           /\ \A other \in Files \ {name} :
                /\ StateAt(other, written + 1) = StateAt(other, written)
                /\ Made(other, written + 1) <=> Made(other, written)
<1>1. /\ phase = "writing" /\ phase' = phase /\ builds' = builds /\ builds \in Numbers
      /\ written \in 0..Steps /\ written < Steps /\ written' = written + 1
  BY StepsAreAll DEF BuildStep, DirectoryInv, DirectoryType, BuildOnItsWay
<1>2. written \in 0..Steps - 1
  BY <1>1 DEF Steps
<1> DEFINE name == BuildSteps[written + 1][1]
<1>3. /\ name \in Files
      /\ BuildSteps[written + 1][2] = StateAt(name, written + 1)
      /\ Made(name, written + 1)
      /\ name # "text" => StateAt(name, written) = "growing"
      /\ \A other \in Files \ {name} :
           /\ StateAt(other, written + 1) = StateAt(other, written)
           /\ Made(other, written + 1) <=> Made(other, written)
  BY <1>2, BuildStepsProgress
<1>4. entries[name] = Absent \/ entries[name] = builds
  BY <1>1, <1>3 DEF DirectoryInv, BuildOnItsWay
<1>5. /\ entries' = [entries EXCEPT ![name] = builds]
      /\ content' = [content EXCEPT ![name][builds] =
                       [build |-> builds, state |-> StateAt(name, written + 1)]]
  BY <1>3, <1>4 DEF BuildStep
<1>6. name # "text" => content[name][builds].state = "growing"
  BY <1>1, <1>3 DEF DirectoryInv, BuildOnItsWay
<1> HIDE DEF name
<1> QED
  BY <1>1, <1>2, <1>3, <1>5, <1>6

(* A state of a build's file is a state, and that of the records is never   *)
(* cut short.                                                               *)
LEMMA StateAtType ==
  ASSUME NEW name \in Files, NEW n \in 0..Steps
  PROVE  /\ StateAt(name, n) \in States
         /\ name # "text" => StateAt(name, n) \in {"growing", "whole"}
         /\ StateAt("manifest", n) = "whole" => n = Steps
         /\ n = Steps => StateAt("text", n) = "merged"
                          /\ (name # "text" => StateAt(name, n) = "whole")
BY DEF Files, StateAt, WholeAt, States, Steps

LEMMA BuildStepDirectory == DirectoryInv /\ BuildStep => DirectoryInv'
<1> SUFFICES ASSUME DirectoryInv, BuildStep PROVE DirectoryInv'
  OBVIOUS
<1>1. PICK name \in Files :
           /\ written \in 0..Steps - 1 /\ written' = written + 1 /\ builds \in Numbers
           /\ phase = "writing" /\ phase' = phase /\ builds' = builds
           /\ entries' = [entries EXCEPT ![name] = builds]
           /\ content' = [content EXCEPT ![name] = [content[name] EXCEPT ![builds] =
                            [build |-> builds, state |-> StateAt(name, written + 1)]]]
           /\ Made(name, written + 1)
           /\ name # "text" => content[name][builds].state = "growing"
           /\ \A other \in Files \ {name} :
                /\ StateAt(other, written + 1) = StateAt(other, written)
                /\ Made(other, written + 1) <=> Made(other, written)
  BY BuildStepEffect
<1>2. written + 1 \in 0..Steps
  BY <1>1 DEF Steps
<1>3. StateAt(name, written + 1) \in States
  BY <1>2, StateAtType
<1>4. /\ entries \in [Files -> Numbers \cup {Absent}]
      /\ content \in [Files -> [Numbers -> [build : Numbers, state : States]]]
  BY DEF DirectoryInv, DirectoryType
<1>5. DirectoryType'
  <2>1. content' \in [Files -> [Numbers -> [build : Numbers, state : States]]]
    BY <1>1, <1>3, <1>4
  <2>2. entries' \in [Files -> Numbers \cup {Absent}]
    BY <1>1, <1>4
  <2> QED
    BY <2>1, <2>2, <1>1, <1>2 DEF DirectoryInv, DirectoryType
<1>6. \A other \in Files : \A f \in Numbers :
        content'[other][f] =
          IF other = name /\ f = builds
          THEN [build |-> builds, state |-> StateAt(name, written + 1)]
          ELSE content[other][f]
  BY <1>1, <1>4
<1>7. \A other \in Files :
        entries'[other] = IF other = name THEN builds ELSE entries[other]
  BY <1>1, <1>4
<1>8. \A other \in Files : entries[other] \in {builds, Absent}
  BY <1>1 DEF DirectoryInv, BuildOnItsWay
<1>9. BuildOnItsWay'
  <2>1. \A other \in Files : content'[other][builds].state = StateAt(other, written + 1)
    BY <1>1, <1>6 DEF DirectoryInv, BuildOnItsWay
  <2>2. \A other \in Files :
          entries'[other] = IF Made(other, written + 1) THEN builds ELSE Absent
    BY <1>1, <1>7 DEF DirectoryInv, BuildOnItsWay
  <2> QED
    BY <2>1, <2>2, <1>1 DEF BuildOnItsWay
<1>10. FilesOfOneBuild'
  <2>1. builds \in 1..builds
    BY <1>1 DEF Numbers
  <2>2. \A other \in Files : \A f \in Numbers : content'[other][f].build = f
    BY <1>6 DEF DirectoryInv, FilesOfOneBuild
  <2>3. \A other \in Files : entries'[other] # Absent => entries'[other] \in 1..builds'
    BY <2>1, <1>1, <1>7, <1>8
  <2>4. \A other, third \in Files :
          entries'[other] # Absent /\ entries'[third] # Absent
            => entries'[other] = entries'[third]
    BY <1>7, <1>8
  <2>5. \A other \in Files : \A f \in Numbers :
          f > builds' => content'[other][f].state = "growing"
    <3>1. ~(builds > builds)
      BY <1>1 DEF Numbers
    <3> QED
      BY <3>1, <1>1, <1>6 DEF DirectoryInv, FilesOfOneBuild
  <2> QED
    BY <2>2, <2>3, <2>4, <2>5 DEF FilesOfOneBuild
<1>11. ManifestComesLast'
  <2> SUFFICES ASSUME NEW f \in Numbers, content'["manifest"][f].state = "whole"
               PROVE  /\ content'["records"][f].state = "whole"
                      /\ content'["arenas"][f].state = "whole"
                      /\ content'["text"][f].state = "merged"
    BY DEF ManifestComesLast
  <2>1. {"manifest", "records", "arenas", "text"} \subseteq Files
    BY DEF Files
  <2>2. CASE f = builds
    <3>1. \A other \in Files : content'[other][f].state = StateAt(other, written + 1)
      BY <2>2, <1>1, <1>9 DEF BuildOnItsWay
    <3>2. written + 1 = Steps
      BY <3>1, <2>1, <1>2, StateAtType
    <3> QED
      BY <3>1, <3>2, <2>1, <1>2, StateAtType
  <2>3. CASE f # builds
    BY <2>1, <2>3, <1>6 DEF DirectoryInv, ManifestComesLast
  <2> QED
    BY <2>2, <2>3
<1>12. RecordsKeep'
  <2>1. {"records", "arenas"} \subseteq Files \ {"text"}
    BY DEF Files
  <2>2. name # "text" => StateAt(name, written + 1) \in {"growing", "whole"}
    BY <1>2, StateAtType
  <2> QED
    BY <2>1, <2>2, <1>6 DEF DirectoryInv, RecordsKeep
<1> QED
  BY <1>5, <1>9, <1>10, <1>11, <1>12 DEF DirectoryInv

LEMMA EndBuildDirectory == DirectoryInv /\ EndBuild => DirectoryInv'
BY DEF EndBuild, directory, DirectoryInv, DirectoryType, FilesOfOneBuild, BuildOnItsWay,
       ManifestComesLast, RecordsKeep

(* A power loss shortens files of one build that are not the records nor    *)
(* the text index.                                                          *)
LEMMA PowerLossDirectory ==
  ASSUME DirectoryInv, NEW lost \in SUBSET Unsynced, PowerLoss(lost)
  PROVE  DirectoryInv'
<1>1. /\ entries' = entries /\ builds' = builds /\ written' = written /\ phase' = "idle"
      /\ \A name \in lost : entries[name] # Absent
  BY DEF PowerLoss, There
<1>2. lost \subseteq Files /\ lost \cap {"records", "arenas", "text"} = {}
  BY DEF Unsynced, Files
<1>3. /\ entries \in [Files -> Numbers \cup {Absent}]
      /\ content \in [Files -> [Numbers -> [build : Numbers, state : States]]]
  BY DEF DirectoryInv, DirectoryType
<1>4. \A name \in lost : entries[name] \in Numbers /\ entries[name] \in 1..builds
  BY <1>1, <1>2, <1>3 DEF DirectoryInv, FilesOfOneBuild
<1>5. "short" \in States
  BY DEF States
<1>6. content' \in [Files -> [Numbers -> [build : Numbers, state : States]]]
  BY <1>2, <1>3, <1>4, <1>5 DEF PowerLoss
<1>7. \A name \in Files : \A f \in Numbers :
        /\ content'[name][f].build = content[name][f].build
        /\ name \notin lost \/ f # entries[name] => content'[name][f] = content[name][f]
        /\ name \in lost /\ f = entries[name] => content'[name][f].state = "short"
  BY <1>2, <1>3, <1>4 DEF PowerLoss
<1>8. DirectoryType'
  BY <1>1, <1>6 DEF DirectoryInv, DirectoryType
<1>9. FilesOfOneBuild'
  <2>1. \A name \in Files : \A f \in Numbers :
          f > builds => name \notin lost \/ f # entries[name]
    BY <1>4 DEF DirectoryInv, DirectoryType, Numbers
  <2> QED
    BY <2>1, <1>1, <1>7 DEF DirectoryInv, FilesOfOneBuild
<1>10. BuildOnItsWay'
  BY <1>1 DEF BuildOnItsWay
<1>11. ManifestComesLast' /\ RecordsKeep'
  <2>1. {"manifest", "records", "arenas", "text"} \subseteq Files
    BY DEF Files
  <2> QED
    BY <2>1, <1>2, <1>7 DEF DirectoryInv, ManifestComesLast, RecordsKeep
<1> QED
  BY <1>8, <1>9, <1>10, <1>11 DEF DirectoryInv

(* The server does not write to the directory. *)
LEMMA ServerKeepsDirectory ==
  ASSUME DirectoryInv, UNCHANGED <<directory, builder>>
  PROVE  DirectoryInv'
BY DEF directory, builder, DirectoryInv, DirectoryType, FilesOfOneBuild, BuildOnItsWay,
       ManifestComesLast, RecordsKeep

LEMMA NextDirectory == DirectoryInv /\ [Next]_vars => DirectoryInv'
<1> SUFFICES ASSUME DirectoryInv, [Next]_vars PROVE DirectoryInv'
  OBVIOUS
<1>1. CASE StartBuild
  BY <1>1, StartBuildDirectory
<1>2. CASE \E name \in Files : RemoveFile(name)
  BY <1>2, RemoveFileDirectory
<1>3. CASE BeginWriting
  BY <1>3, BeginWritingDirectory
<1>4. CASE BuildStep
  BY <1>4, BuildStepDirectory
<1>5. CASE EndBuild
  BY <1>5, EndBuildDirectory
<1>6. CASE Start \/ Open \/ Exit \/ Reload \/ Search \/ Hydrate \/ UNCHANGED vars
  <2>1. UNCHANGED <<directory, builder>>
    BY <1>6 DEF Start, Open, Exit, Reload, Search, Hydrate, vars
  <2> QED
    BY <2>1, ServerKeepsDirectory
<1>7. CASE \E lost \in SUBSET Unsynced : PowerLoss(lost)
  BY <1>7, PowerLossDirectory
<1> QED
  BY <1>1, <1>2, <1>3, <1>4, <1>5, <1>6, <1>7 DEF Next

-----------------------------------------------------------------------------
(* The server, while the builder works *)

LEMMA NameOfType ==
  ASSUME NEW open \in Mappings
  PROVE  NameOf(open) \in Files \ {"text"}
BY DEF Mappings, NameOf, Files

LEMMA InitServer == Init => ServerInv
BY DEF Init, ServerInv, ServerType, MappedInv, OpensInOrder, OnePack, QueryInv, BeforeText

(* Steps that leave the files and the server alone, or end its quiet.       *)
LEMMA QuietKeepsServer ==
  ASSUME ServerInv, UNCHANGED <<content, opening, mapped, reader, query, answer>>,
         quiet' = FALSE \/ UNCHANGED <<entries, quiet>>
  PROVE  ServerInv'
<1>1. ServerType' /\ OpensInOrder'
  BY DEF ServerInv, ServerType, OpensInOrder
<1>2. MappedInv'
  BY DEF ServerInv, MappedInv, Kept
<1>3. CASE quiet' = FALSE
  BY <1>1, <1>2, <1>3 DEF ServerInv, OnePack, QueryInv
<1>4. CASE UNCHANGED <<entries, quiet>>
  <2>1. Pack' = Pack
    BY <1>4 DEF Pack
  <2>2. OnePack'
    BY <1>4, <2>1 DEF ServerInv, OnePack
  <2>3. QueryInv'
    BY <1>4, <2>1 DEF ServerInv, QueryInv
  <2> QED
    BY <1>1, <1>2, <2>2, <2>3 DEF ServerInv
<1> QED
  BY <1>3, <1>4

(* A server that has ended keeps nothing. *)
LEMMA DownServer ==
  ASSUME opening' = "down", mapped' = <<>>, query' = Nothing, answer' = Nothing
  PROVE  ServerInv'
BY DEF ServerInv, ServerType, MappedInv, OpensInOrder, OnePack, QueryInv, BeforeText

(* No step of a build touches a whole file, and none is left to do once the *)
(* manifest is whole.                                                       *)
LEMMA BuildStepServer ==
  ASSUME DirectoryInv, ServerInv, BuildStep
  PROVE  ServerInv'
<1>1. PICK name \in Files :
           /\ written \in 0..Steps - 1 /\ written' = written + 1 /\ builds \in Numbers
           /\ phase = "writing" /\ phase' = phase /\ builds' = builds
           /\ entries' = [entries EXCEPT ![name] = builds]
           /\ content' = [content EXCEPT ![name] = [content[name] EXCEPT ![builds] =
                            [build |-> builds, state |-> StateAt(name, written + 1)]]]
           /\ Made(name, written + 1)
           /\ name # "text" => content[name][builds].state = "growing"
           /\ \A other \in Files \ {name} :
                /\ StateAt(other, written + 1) = StateAt(other, written)
                /\ Made(other, written + 1) <=> Made(other, written)
  BY BuildStepEffect
<1>2. UNCHANGED <<opening, mapped, reader, query, answer, quiet>>
  BY DEF BuildStep, server
<1>3. content \in [Files -> [Numbers -> [build : Numbers, state : States]]]
  BY DEF DirectoryInv, DirectoryType
<1>4. MappedInv'
  <2> SUFFICES ASSUME NEW open \in DOMAIN mapped
               PROVE  open \in Mappings /\ Kept(NameOf(open), mapped[open])'
    BY <1>2 DEF MappedInv
  <2>1. open \in Mappings /\ Kept(NameOf(open), mapped[open])
    BY DEF ServerInv, MappedInv
  <2>2. NameOf(open) \in Files \ {"text"}
    BY <2>1, NameOfType
  <2>3. \A f \in Numbers :
          content[NameOf(open)][f].state = "whole" => content'[NameOf(open)][f].state = "whole"
    BY <2>2, <1>1, <1>3
  <2>4. mapped[open].file \in Numbers
    BY <2>1 DEF Kept
  <2> QED
    BY <2>1, <2>3, <2>4, <1>2 DEF Kept
<1>5. ~(Pack # Absent /\ content["manifest"][Pack].state = "whole")
  <2> SUFFICES ASSUME Pack # Absent, content["manifest"][Pack].state = "whole"
               PROVE  FALSE
    OBVIOUS
  <2>1. "manifest" \in Files
    BY DEF Files
  <2>2. /\ content["manifest"][builds].state = StateAt("manifest", written)
        /\ Pack = builds
    BY <2>1, <1>1 DEF DirectoryInv, BuildOnItsWay, Pack
  <2>3. written = Steps
    BY <2>1, <2>2, <1>1, StateAtType DEF Steps
  <2> QED
    BY <2>3, <1>1 DEF Steps
<1>6. ~(quiet /\ opening \notin {"down", "search manifest"})
  BY <1>5 DEF ServerInv, OnePack
<1>7. OnePack'
  BY <1>2, <1>6 DEF OnePack
<1>8. QueryInv'
  BY <1>2, <1>6 DEF ServerInv, QueryInv
<1> QED
  BY <1>2, <1>4, <1>7, <1>8 DEF ServerInv, ServerType, OpensInOrder

-----------------------------------------------------------------------------
(* The server opens the pack *)

LEMMA OpensFollow ==
  /\ After("search manifest") = "search records"
  /\ After("search records") = "search context"
  /\ After("search context") = "search text"
  /\ After("search text") = "reverse manifest"
  /\ After("reverse manifest") = "reverse records"
  /\ After("reverse records") = "reverse context"
  /\ After("reverse context") = "reverse spatial"
  /\ After("reverse spatial") = "ready"
<1>1. /\ DOMAIN Opens = 1..9
      /\ Opens[1] = "search manifest" /\ Opens[2] = "search records"
      /\ Opens[3] = "search context" /\ Opens[4] = "search text"
      /\ Opens[5] = "reverse manifest" /\ Opens[6] = "reverse records"
      /\ Opens[7] = "reverse context" /\ Opens[8] = "reverse spatial"
      /\ Opens[9] = "ready"
  BY DEF Opens
<1> DEFINE Place(open) ==
      CASE open = "search manifest"  -> 1 [] open = "search records"  -> 2
        [] open = "search context"   -> 3 [] open = "search text"     -> 4
        [] open = "reverse manifest" -> 5 [] open = "reverse records" -> 6
        [] open = "reverse context"  -> 7 [] open = "reverse spatial" -> 8
        [] open = "ready"            -> 9
<1>2. ASSUME NEW i \in 1..9
      PROVE  Place(Opens[i]) = i
  <2>1. \/ i = 1 \/ i = 2 \/ i = 3 \/ i = 4 \/ i = 5 \/ i = 6 \/ i = 7 \/ i = 8 \/ i = 9
    OBVIOUS
  <2>2. /\ Place("search manifest") = 1 /\ Place("search records") = 2
        /\ Place("search context") = 3 /\ Place("search text") = 4
        /\ Place("reverse manifest") = 5 /\ Place("reverse records") = 6
        /\ Place("reverse context") = 7 /\ Place("reverse spatial") = 8
        /\ Place("ready") = 9
    OBVIOUS
  <2> HIDE DEF Place
  <2> QED
    BY <2>1, <2>2, <1>1
<1> HIDE DEF Place
<1>3. ASSUME NEW i \in 1..9
      PROVE  After(Opens[i]) = Opens[1 + i]
  <2> DEFINE at == CHOOSE j \in DOMAIN Opens : Opens[j] = Opens[i]
  <2>1. at \in DOMAIN Opens /\ Opens[at] = Opens[i]
    BY <1>1
  <2>2. at = i
    <3> HIDE DEF at
    <3> QED
      BY <2>1, <1>1, <1>2
  <2>3. After(Opens[i]) = Opens[1 + at]
    BY DEF After
  <2> QED
    BY <2>2, <2>3
<1>4. /\ After(Opens[1]) = Opens[2] /\ After(Opens[2]) = Opens[3]
      /\ After(Opens[3]) = Opens[4] /\ After(Opens[4]) = Opens[5]
      /\ After(Opens[5]) = Opens[6] /\ After(Opens[6]) = Opens[7]
      /\ After(Opens[7]) = Opens[8] /\ After(Opens[8]) = Opens[9]
  BY <1>3
<1> QED
  BY <1>1, <1>4, Zenon

(* What an open maps. *)
NewAt(open) ==
  CASE open = "search records"  -> {"search records", "search arenas"}
    [] open = "reverse records" -> {"reverse records", "reverse arenas"}
    [] open = "search text"     -> {}
    [] OTHER                    -> {open}

(* An open maps files that the directory leads to, whole unless they are    *)
(* the arenas, and keeps what is mapped; only the text index sets reader.   *)
LEMMA OpenMaps ==
  ASSUME DirectoryInv, Open
  PROVE  /\ NewAt(opening) \subseteq Mappings
         /\ DOMAIN mapped' = DOMAIN mapped \cup NewAt(opening)
         /\ \A o \in NewAt(opening) :
              /\ mapped'[o] = Mapping(NameOf(o))
              /\ There(NameOf(o))
              /\ Held(NameOf(o)).state = "whole" \/ NameOf(o) = "arenas"
         /\ \A o \in DOMAIN mapped \ NewAt(opening) : mapped'[o] = mapped[o]
         /\ IF opening = "search text" THEN There("text") /\ reader' = Snapshot
            ELSE reader' = reader
         /\ opening \in {"search manifest", "search records", "search context",
                         "search text", "reverse manifest", "reverse records",
                         "reverse context", "reverse spatial"}
<1> DEFINE Goal ==
         /\ NewAt(opening) \subseteq Mappings
         /\ DOMAIN mapped' = DOMAIN mapped \cup NewAt(opening)
         /\ \A o \in NewAt(opening) :
              /\ mapped'[o] = Mapping(NameOf(o))
              /\ There(NameOf(o))
              /\ Held(NameOf(o)).state = "whole" \/ NameOf(o) = "arenas"
         /\ \A o \in DOMAIN mapped \ NewAt(opening) : mapped'[o] = mapped[o]
         /\ IF opening = "search text" THEN There("text") /\ reader' = Snapshot
            ELSE reader' = reader
<1>0. opening \in {"search manifest", "search records", "search context", "search text",
                   "reverse manifest", "reverse records", "reverse context",
                   "reverse spatial"}
  BY DEF Open, CanOpen, OpenManifest, OpenRecords, OpenIndex, OpenText
<1> SUFFICES Goal
  BY <1>0
<1>1. ASSUME NewAt(opening) \subseteq Mappings, opening # "search text",
             Got(NewAt(opening)),
             \A o \in NewAt(opening) :
               There(NameOf(o)) /\ (Held(NameOf(o)).state = "whole" \/ NameOf(o) = "arenas")
      PROVE  Goal
  BY <1>1 DEF Got
<1>2. ASSUME NEW open \in Mappings, NewAt(open) = {open}, opening = open,
             open # "search text", IsWhole(NameOf(open)), Got({open})
      PROVE  Goal
  <2>1. NewAt(opening) = {open} /\ Got(NewAt(opening))
    BY <1>2
  <2>2. There(NameOf(open)) /\ Held(NameOf(open)).state = "whole"
    BY <1>2 DEF IsWhole
  <2> HIDE DEF Goal
  <2> QED
    BY <2>1, <2>2, <1>1, <1>2
<1>3. ASSUME NEW open \in Mappings, NEW arenas \in Mappings, NEW manifest,
             NameOf(open) = "records", NameOf(arenas) = "arenas",
             NewAt(open) = {open, arenas}, open # "search text",
             OpenRecords(open, arenas, manifest)
      PROVE  Goal
  <2>1. /\ opening = open /\ Got(NewAt(opening)) /\ NewAt(opening) = {open, arenas}
        /\ There("records") /\ Held("records").state = "whole" /\ There("arenas")
    BY <1>3 DEF OpenRecords, IsWhole
  <2> HIDE DEF Goal
  <2> QED
    BY <2>1, <1>1, <1>3
<1>4. /\ \A o \in Mappings : o \notin {"search records", "reverse records"} => NewAt(o) = {o}
      /\ NewAt("search records") = {"search records", "search arenas"}
      /\ NewAt("reverse records") = {"reverse records", "reverse arenas"}
      /\ NewAt("search text") = {} /\ "search text" \notin Mappings
  BY DEF NewAt, Mappings
<1>5. /\ NameOf("search manifest") = "manifest" /\ NameOf("reverse manifest") = "manifest"
      /\ NameOf("search records") = "records" /\ NameOf("reverse records") = "records"
      /\ NameOf("search arenas") = "arenas" /\ NameOf("reverse arenas") = "arenas"
      /\ NameOf("search context") = "context" /\ NameOf("reverse context") = "context"
      /\ NameOf("reverse spatial") = "spatial"
  BY DEF NameOf
<1>6. {"search manifest", "reverse manifest", "search records",
       "reverse records", "search arenas", "reverse arenas",
       "search context", "reverse context", "reverse spatial"} \subseteq Mappings
  BY DEF Mappings
<1>7. CASE OpenText
  BY <1>7, <1>4 DEF OpenText
<1> HIDE DEF Goal
<1>8. CASE OpenManifest("search manifest") \/ OpenManifest("reverse manifest")
  BY <1>2, <1>4, <1>5, <1>6, <1>8 DEF OpenManifest
<1>9. CASE OpenRecords("search records", "search arenas", "search manifest")
           \/ OpenRecords("reverse records", "reverse arenas", "reverse manifest")
  BY <1>3, <1>4, <1>5, <1>6, <1>9
<1>10. CASE \/ OpenIndex("search context", "context")
            \/ OpenIndex("reverse context", "context")
            \/ OpenIndex("reverse spatial", "spatial")
  BY <1>2, <1>4, <1>5, <1>6, <1>10 DEF OpenIndex
<1> QED
  BY <1>7, <1>8, <1>9, <1>10 DEF Open, CanOpen

(* Where the manifest is whole, every file is of its build, the archive is  *)
(* whole and the text index merged.                                         *)
LEMMA PackIsWhole ==
  ASSUME DirectoryInv, Pack # Absent, content["manifest"][Pack].state = "whole"
  PROVE  /\ Pack \in Numbers
         /\ \A name \in Files : There(name) => entries[name] = Pack
         /\ \A name \in Files : content[name][Pack].build = Pack
         /\ content["arenas"][Pack].state = "whole"
         /\ content["text"][Pack] = [build |-> Pack, state |-> "merged"]
<1>1. "manifest" \in Files /\ "text" \in Files
  BY DEF Files
<1>2. Pack \in Numbers
  BY <1>1 DEF DirectoryInv, DirectoryType, Pack
<1>3. \A name \in Files : There(name) => entries[name] = Pack
  BY <1>1 DEF DirectoryInv, FilesOfOneBuild, There, Pack
<1>4. \A name \in Files : content[name][Pack].build = Pack
  BY <1>2 DEF DirectoryInv, FilesOfOneBuild
<1>5. content["arenas"][Pack].state = "whole" /\ content["text"][Pack].state = "merged"
  BY <1>2 DEF DirectoryInv, ManifestComesLast
<1>6. content["text"][Pack] \in [build : Numbers, state : States]
  BY <1>1, <1>2 DEF DirectoryInv, DirectoryType
<1> QED
  BY <1>1, <1>2, <1>3, <1>4, <1>5, <1>6

LEMMA StartServer == ServerInv /\ Start => ServerInv'
<1> SUFFICES ASSUME ServerInv, Start PROVE ServerInv'
  OBVIOUS
<1>1. /\ opening = "down" /\ opening' = "search manifest" /\ mapped' = mapped
      /\ query' = query /\ answer' = answer /\ content' = content
  BY DEF Start, Opens, directory
<1>2. DOMAIN mapped = {} /\ query = Nothing /\ answer = Nothing
  BY <1>1 DEF ServerInv, OpensInOrder
<1> QED
  BY <1>1, <1>2
     DEF ServerInv, ServerType, MappedInv, OpensInOrder, OnePack, QueryInv, BeforeText

LEMMA OpenServer ==
  ASSUME DirectoryInv, ServerInv, Open
  PROVE  ServerInv'
<1> DEFINE new == NewAt(opening)
<1>1. /\ new \subseteq Mappings
      /\ DOMAIN mapped' = DOMAIN mapped \cup new
      /\ \A o \in new :
           /\ mapped'[o] = Mapping(NameOf(o))
           /\ There(NameOf(o))
           /\ Held(NameOf(o)).state = "whole" \/ NameOf(o) = "arenas"
      /\ \A o \in DOMAIN mapped \ new : mapped'[o] = mapped[o]
      /\ IF opening = "search text" THEN There("text") /\ reader' = Snapshot
         ELSE reader' = reader
      /\ opening \in {"search manifest", "search records", "search context",
                      "search text", "reverse manifest", "reverse records",
                      "reverse context", "reverse spatial"}
  BY OpenMaps
<1>2. /\ entries' = entries /\ content' = content /\ opening' = After(opening)
      /\ query' = query /\ answer' = answer /\ quiet' = quiet
  BY DEF Open, directory
<1>3. query = Nothing /\ answer = Nothing
  BY <1>1 DEF ServerInv, OpensInOrder
<1>4. ServerType'
  BY <1>1, <1>2, OpensFollow DEF ServerType, BeforeText, AfterText
<1>5. "search text" \notin {"search manifest", "down"}
      /\ "search records" \in NewAt("search records")
  BY DEF NewAt
<1> HIDE DEF new
<1>6. ASSUME NEW o \in new
      PROVE  /\ NameOf(o) \in Files /\ entries[NameOf(o)] \in Numbers
             /\ mapped'[o].file = entries[NameOf(o)]
             /\ mapped'[o].build = entries[NameOf(o)]
             /\ mapped'[o].state = content[NameOf(o)][entries[NameOf(o)]].state
             /\ \/ mapped'[o].state = "whole"
                \/ mapped'[o].state = "growing" /\ NameOf(o) = "arenas"
  <2>1. NameOf(o) \in Files
    BY <1>1, NameOfType
  <2>2. entries[NameOf(o)] \in Numbers
    BY <2>1, <1>1 DEF There, DirectoryInv, DirectoryType
  <2>3. content[NameOf(o)][entries[NameOf(o)]].build = entries[NameOf(o)]
    BY <2>1, <2>2 DEF DirectoryInv, FilesOfOneBuild
  <2>4. NameOf(o) = "arenas" =>
          content[NameOf(o)][entries[NameOf(o)]].state \in {"growing", "whole"}
    BY <2>2 DEF DirectoryInv, RecordsKeep
  <2>5. /\ mapped'[o].file = entries[NameOf(o)]
        /\ mapped'[o].build = content[NameOf(o)][entries[NameOf(o)]].build
        /\ mapped'[o].state = content[NameOf(o)][entries[NameOf(o)]].state
    <3>1. mapped'[o] = Mapping(NameOf(o))
      BY <1>1
    <3> QED
      BY <3>1 DEF Mapping, Held
  <2>6. \/ content[NameOf(o)][entries[NameOf(o)]].state = "whole"
        \/ NameOf(o) = "arenas"
    BY <1>1 DEF Held
  <2> QED
    BY <2>1, <2>2, <2>3, <2>4, <2>5, <2>6
<1>7. MappedInv'
  <2> SUFFICES ASSUME NEW o \in DOMAIN mapped'
               PROVE  o \in Mappings /\ Kept(NameOf(o), mapped[o])'
    BY DEF MappedInv
  <2>1. CASE o \in new
    BY <2>1, <1>1, <1>2, <1>6 DEF Kept
  <2>2. CASE o \notin new
    <3>1. o \in DOMAIN mapped /\ mapped'[o] = mapped[o]
      BY <2>2, <1>1
    <3> QED
      BY <3>1, <1>2 DEF ServerInv, MappedInv, Kept
  <2> QED
    BY <2>1, <2>2
<1>8. opening' \notin {"down", "search manifest"}
      /\ (opening' # "search records" => opening # "search manifest")
  BY <1>1, <1>2, OpensFollow
<1>9. OpensInOrder'
  <2>1. opening' # "search records" => "search records" \in DOMAIN mapped'
    <3>1. CASE opening = "search records"
      BY <3>1, <1>1, <1>5 DEF new
    <3>2. CASE opening \notin {"search manifest", "search records"}
      BY <3>2, <1>1 DEF ServerInv, OpensInOrder
    <3> QED
      BY <3>1, <3>2, <1>8
  <2> QED
    BY <2>1, <1>2, <1>3, <1>8 DEF OpensInOrder
<1>10. OnePack'
  <2> SUFFICES ASSUME quiet
               PROVE  /\ Pack # Absent
                      /\ content["manifest"][Pack].state = "whole"
                      /\ \A open \in DOMAIN mapped' :
                           mapped'[open].build = Pack /\ mapped'[open].state = "whole"
                      /\ opening' \in AfterText =>
                           reader' = [build |-> Pack, state |-> "merged"]
    BY <1>2 DEF OnePack, Pack
  <2>1. /\ Pack # Absent
        /\ content["manifest"][Pack].state = "whole"
        /\ \A open \in DOMAIN mapped :
              mapped[open].build = Pack /\ mapped[open].state = "whole"
        /\ opening \in AfterText => reader = [build |-> Pack, state |-> "merged"]
    <3>1. CASE opening = "search manifest"
      <4>1. new = {"search manifest"} /\ NameOf("search manifest") = "manifest"
        BY <3>1 DEF new, NewAt, NameOf
      <4>2. DOMAIN mapped = {} /\ opening \notin AfterText
        BY <3>1 DEF ServerInv, OpensInOrder, AfterText
      <4> QED
        BY <4>1, <4>2, <1>1 DEF Pack, There, Held
    <3>2. CASE opening # "search manifest"
      BY <3>2, <1>1 DEF ServerInv, OnePack
    <3> QED
      BY <3>1, <3>2
  <2>2. /\ \A name \in Files : There(name) => entries[name] = Pack
        /\ content["arenas"][Pack].state = "whole"
        /\ content["text"][Pack] = [build |-> Pack, state |-> "merged"]
    BY <2>1, PackIsWhole
  <2>3. ASSUME NEW open \in DOMAIN mapped'
        PROVE  mapped'[open].build = Pack /\ mapped'[open].state = "whole"
    <3>1. CASE open \in new
      <4>1. entries[NameOf(open)] = Pack
        BY <3>1, <1>1, <1>6, <2>2
      <4> QED
        BY <3>1, <4>1, <1>6, <2>2
    <3>2. CASE open \notin new
      BY <3>2, <1>1, <2>1
    <3> QED
      BY <3>1, <3>2
  <2>4. opening' \in AfterText => reader' = [build |-> Pack, state |-> "merged"]
    <3>1. CASE opening = "search text"
      <4>1. "text" \in Files
        BY DEF Files
      <4> QED
        BY <3>1, <4>1, <1>1, <2>2 DEF Snapshot
    <3>2. CASE opening # "search text"
      <4>1. opening' \in AfterText => opening \in AfterText
        BY <3>2, <1>1, <1>2, OpensFollow DEF AfterText
      <4> QED
        BY <4>1, <3>2, <1>1, <2>1
    <3> QED
      BY <3>1, <3>2
  <2> QED
    BY <2>1, <2>3, <2>4
<1>11. QueryInv'
  BY <1>2, <1>3 DEF QueryInv
<1> QED
  BY <1>4, <1>7, <1>9, <1>10, <1>11 DEF ServerInv

-----------------------------------------------------------------------------
(* The server at work *)

LEMMA ReloadServer ==
  ASSUME DirectoryInv, ServerInv, Reload
  PROVE  ServerInv'
<1>1. /\ entries' = entries /\ content' = content /\ opening' = opening
      /\ mapped' = mapped /\ query' = query /\ answer' = answer /\ quiet' = quiet
      /\ There("text") /\ reader' = Snapshot
  BY DEF Reload, directory, There
<1>2. OnePack'
  <2> SUFFICES ASSUME quiet, opening \notin {"down", "search manifest"}
               PROVE  OnePack'
    BY <1>1 DEF OnePack
  <2>1. /\ Pack # Absent
        /\ content["manifest"][Pack].state = "whole"
        /\ \A open \in DOMAIN mapped :
              mapped[open].build = Pack /\ mapped[open].state = "whole"
    BY DEF ServerInv, OnePack
  <2>2. "text" \in Files
    BY DEF Files
  <2>3. Snapshot = [build |-> Pack, state |-> "merged"]
    BY <1>1, <2>1, <2>2, PackIsWhole DEF Snapshot
  <2> QED
    BY <1>1, <2>1, <2>3 DEF OnePack, Pack
<1> QED
  BY <1>1, <1>2
     DEF ServerInv, ServerType, MappedInv, Kept, OpensInOrder, QueryInv, Pack

(* A quiet server reads one segment, all the records of its pack. *)
LEMMA QuietSegments ==
  ASSUME DirectoryInv, ServerInv, quiet, opening = "ready"
  PROVE  /\ Pack \in Numbers
         /\ reader = [build |-> Pack, state |-> "merged"]
         /\ reader.build = Pack
         /\ SegmentsOf(reader) = <<Merged(Pack)>>
         /\ DOMAIN SegmentsOf(reader) = {1} /\ SegmentsOf(reader)[1] = Merged(Pack)
         /\ mapped["search records"].build = Pack
<1>1. /\ Pack # Absent
      /\ content["manifest"][Pack].state = "whole"
      /\ \A open \in DOMAIN mapped : mapped[open].build = Pack
      /\ reader = [build |-> Pack, state |-> "merged"]
  BY DEF ServerInv, OnePack, AfterText
<1>2. "search records" \in DOMAIN mapped
  BY DEF ServerInv, OpensInOrder
<1>3. SegmentsOf(reader) = <<Merged(Pack)>>
  BY <1>1 DEF SegmentsOf
<1>4. DOMAIN SegmentsOf(reader) = {1} /\ SegmentsOf(reader)[1] = Merged(Pack)
  BY <1>3
<1>5. reader.build = Pack
  BY <1>1
<1> QED
  BY <1>1, <1>2, <1>3, <1>4, <1>5, PackIsWhole

LEMMA SearchServer ==
  ASSUME DirectoryInv, ServerInv, Search
  PROVE  ServerInv'
<1>1. /\ entries' = entries /\ content' = content /\ opening' = opening
      /\ opening = "ready" /\ mapped' = mapped /\ reader' = reader
      /\ quiet' = quiet /\ answer' = Nothing
  BY DEF Search, directory
<1>2. PICK s \in DOMAIN SegmentsOf(reader) : \E d \in DOMAIN SegmentsOf(reader)[s] :
        query' = [asked   |-> <<reader.build, SegmentsOf(reader)[s][d]>>,
                  address |-> <<s, d>>]
  BY DEF Search
<1>3. PICK d \in DOMAIN SegmentsOf(reader)[s] :
        query' = [asked   |-> <<reader.build, SegmentsOf(reader)[s][d]>>,
                  address |-> <<s, d>>]
  BY <1>2
<1>4. QueryInv'
  <2> SUFFICES ASSUME quiet
               PROVE  /\ query'.address[1] = 1
                      /\ query'.address[2] \in DOMAIN Merged(Pack)
                      /\ query'.asked = <<Pack, Merged(Pack)[query'.address[2]]>>
    BY <1>1 DEF QueryInv, Pack
  <2>1. /\ reader.build = Pack /\ DOMAIN SegmentsOf(reader) = {1}
        /\ SegmentsOf(reader)[1] = Merged(Pack)
    BY <1>1, QuietSegments
  <2>2. s = 1 /\ d \in DOMAIN Merged(Pack) /\ SegmentsOf(reader)[s] = Merged(Pack)
    BY <2>1, <1>2, <1>3
  <2> QED
    BY <2>1, <2>2, <1>3
<1>5. ServerType' /\ MappedInv' /\ OpensInOrder'
  BY <1>1 DEF ServerInv, ServerType, MappedInv, Kept, OpensInOrder
<1>6. OnePack'
  BY <1>1 DEF ServerInv, OnePack, Pack
<1> QED
  BY <1>4, <1>5, <1>6 DEF ServerInv

(* The record asked for is found at its place in the merged index, and is a *)
(* record of the archive, by SegmentsAssumption.                            *)
LEMMA HydrateServer ==
  ASSUME DirectoryInv, ServerInv, Hydrate
  PROVE  ServerInv'
<1>1. /\ entries' = entries /\ content' = content /\ opening' = opening
      /\ mapped' = mapped /\ reader' = reader /\ quiet' = quiet
      /\ query # Nothing /\ query' = Nothing
  BY DEF Hydrate, directory
<1>2. opening = "ready"
  BY <1>1 DEF ServerInv, OpensInOrder
<1>3. QueryInv'
  <2> SUFFICES ASSUME quiet PROVE answer'.given = answer'.asked
    BY <1>1 DEF QueryInv
  <2> DEFINE at == query.address
             found == IF at[1] \in DOMAIN SegmentsOf(reader)
                         /\ at[2] \in DOMAIN SegmentsOf(reader)[at[1]]
                      THEN SegmentsOf(reader)[at[1]][at[2]] ELSE 0
             archive == mapped["search records"].build
  <2>1. /\ Pack \in Numbers /\ archive = Pack
        /\ DOMAIN SegmentsOf(reader) = {1} /\ SegmentsOf(reader)[1] = Merged(Pack)
    BY <1>2, QuietSegments
  <2>2. /\ at[1] = 1 /\ at[2] \in DOMAIN Merged(Pack)
        /\ query.asked = <<Pack, Merged(Pack)[at[2]]>>
    BY <1>1, <1>2 DEF ServerInv, QueryInv
  <2>3. found = Merged(Pack)[at[2]]
    BY <2>1, <2>2
  <2>4. Merged(Pack)[at[2]] \in 1..Rows(Pack)
    BY <2>1, <2>2, SegmentsAssumption DEF Rows, Numbers
  <2>5. answer' = [asked |-> query.asked,
                   given |-> IF found \in 1..Rows(archive) THEN <<archive, found>>
                             ELSE Nothing]
    BY DEF Hydrate
  <2> HIDE DEF at, found, archive
  <2> QED
    BY <2>1, <2>2, <2>3, <2>4, <2>5
<1>4. ServerType' /\ MappedInv' /\ OpensInOrder'
  BY <1>1, <1>2 DEF ServerInv, ServerType, MappedInv, Kept, OpensInOrder
<1>5. OnePack'
  BY <1>1 DEF ServerInv, OnePack, Pack
<1> QED
  BY <1>3, <1>4, <1>5 DEF ServerInv

LEMMA NextServer == Inv /\ [Next]_vars => ServerInv'
<1> SUFFICES ASSUME DirectoryInv, ServerInv, [Next]_vars PROVE ServerInv'
  BY DEF Inv
<1>1. CASE StartBuild \/ (\E name \in Files : RemoveFile(name))
           \/ BeginWriting \/ EndBuild \/ UNCHANGED vars
  <2>1. /\ UNCHANGED <<content, opening, mapped, reader, query, answer>>
        /\ quiet' = FALSE \/ UNCHANGED <<entries, quiet>>
    BY <1>1 DEF StartBuild, RemoveFile, BeginWriting, EndBuild, vars, directory, server
  <2> QED
    BY <2>1, QuietKeepsServer
<1>2. CASE BuildStep
  BY <1>2, BuildStepServer
<1>3. CASE Start
  BY <1>3, StartServer
<1>4. CASE Open
  BY <1>4, OpenServer
<1>5. CASE Exit \/ \E lost \in SUBSET Unsynced : PowerLoss(lost)
  <2>1. opening' = "down" /\ mapped' = <<>> /\ query' = Nothing /\ answer' = Nothing
    BY <1>5 DEF Exit, PowerLoss
  <2> QED
    BY <2>1, DownServer
<1>6. CASE Reload
  BY <1>6, ReloadServer
<1>7. CASE Search
  BY <1>7, SearchServer
<1>8. CASE Hydrate
  BY <1>8, HydrateServer
<1> QED
  BY <1>1, <1>2, <1>3, <1>4, <1>5, <1>6, <1>7, <1>8 DEF Next

-----------------------------------------------------------------------------
(* Inv is an invariant: the directory never depends on the server, and the  *)
(* server relies on what the directory keeps.                               *)
THEOREM DirectoryAndServer == Spec => []Inv
<1>1. Init => Inv
  BY InitDirectory, InitServer DEF Inv
<1>2. Inv /\ [Next]_vars => Inv'
  BY NextDirectory, NextServer DEF Inv
<1> QED
  BY <1>1, <1>2, PTL DEF Spec

(* What a server has mapped is never written to again, however often the    *)
(* directory is rebuilt, and whatever is lost with the power: the premise   *)
(* of the unsafe blocks of the readers.                                     *)
THEOREM MappedFilesAreKept == Spec => []MappedFilesKeep
<1>1. Inv => MappedFilesKeep
  <2> SUFFICES ASSUME Inv, NEW open \in DOMAIN mapped
               PROVE  LET now == content[NameOf(open)][mapped[open].file]
                      IN /\ now.build = mapped[open].build
                         /\ mapped[open].state # now.state =>
                              mapped[open].state = "growing" /\ NameOf(open) = "arenas"
    BY DEF MappedFilesKeep
  <2>1. open \in Mappings /\ Kept(NameOf(open), mapped[open])
    BY DEF Inv, ServerInv, MappedInv
  <2>2. NameOf(open) \in Files
    BY <2>1, NameOfType
  <2> QED
    BY <2>1, <2>2 DEF Kept, Inv, DirectoryInv, FilesOfOneBuild
<1> QED
  BY <1>1, DirectoryAndServer, PTL

(* A server that gets ready in quiet serves one complete pack, for any      *)
(* number of builds, failures and power losses before.                      *)
THEOREM OnePackIsServed == Spec => []ReadyServesOnePack
<1>1. Inv => ReadyServesOnePack
  <2> SUFFICES ASSUME Inv, opening = "ready", quiet
               PROVE  \E build \in 1..MaxBuilds :
                        /\ \A open \in DOMAIN mapped :
                             mapped[open].build = build /\ mapped[open].state = "whole"
                        /\ reader = [build |-> build, state |-> "merged"]
    BY DEF ReadyServesOnePack
  <2>1. Pack \in 1..MaxBuilds
    BY QuietSegments DEF Inv, Numbers
  <2> QED
    BY <2>1 DEF Inv, ServerInv, OnePack, AfterText
<1> QED
  BY <1>1, DirectoryAndServer, PTL

(* In quiet the answer to a search is the record that was found, also when  *)
(* the reader reloads between the two searchers.                            *)
THEOREM AnswersAreTheirRecords == Spec => []HitsNameTheirRecord
<1>1. Inv => HitsNameTheirRecord
  BY DEF Inv, ServerInv, QueryInv, HitsNameTheirRecord
<1> QED
  BY <1>1, DirectoryAndServer, PTL

-----------------------------------------------------------------------------
(* The demo map, a client of the server: reverse geocoding *)

(* Only the request of the last click can still be answered: every other    *)
(* one has ended or was aborted, and nothing is answered after a clear.  An *)
(* aborted one has still to run only before the last click is answered.     *)
ClickInv ==
  /\ clicks \in 0..MaxClicks
  /\ DOMAIN reversePhase = 1..MaxClicks
  /\ \A r \in 1..MaxClicks : reversePhase[r] \in {"fetch", "body"} => r = currentReverse
  /\ currentReverse # None => currentReverse = clicks /\ ~ cleared
  /\ \A r \in 1..MaxClicks :
       Interrupted(reversePhase[r]) /\ ~ cleared => r < clicks /\ reversePhase[clicks] = "fetch"
  /\ LastClickDecides

LEMMA InitClick ==
  ASSUME ReverseInit
  PROVE  ClickInv
<1>1. /\ clicks = 0 /\ reversePhase = [r \in 1..MaxClicks |-> "done"]
      /\ currentReverse = None /\ origins = {} /\ targets = {} /\ line = None
      /\ panel.address = None /\ panel.shown = FALSE
  BY DEF ReverseInit, Clicks
<1>2. LastClickDecides
  BY <1>1 DEF LastClickDecides
<1> QED
  BY <1>1, <1>2, ClicksAssumption DEF ClickInv, Interrupted

(* abort() leaves no request that is still answered, and all of them are    *)
(* older than the next click. *)
LEMMA AbortedClick ==
  ASSUME ClickInv
  PROVE  /\ DOMAIN AbortReverse = 1..MaxClicks
         /\ \A r \in 1..MaxClicks : AbortReverse[r] \notin {"fetch", "body"}
         /\ \A r \in 1..MaxClicks :
              Interrupted(AbortReverse[r]) => Interrupted(reversePhase[r]) \/ r = clicks
<1>1. AbortReverse = [r \in 1..MaxClicks |->
        IF r = currentReverse THEN Aborted(reversePhase[r]) ELSE reversePhase[r]]
  BY DEF AbortReverse, Clicks
<1>2. \A p : Aborted(p) \notin {"fetch", "body"}
  BY DEF Aborted
<1>3. ASSUME NEW r \in 1..MaxClicks
      PROVE  /\ AbortReverse[r] \notin {"fetch", "body"}
             /\ Interrupted(AbortReverse[r]) => Interrupted(reversePhase[r]) \/ r = clicks
  <2>1. CASE r = currentReverse
    <3>1. AbortReverse[r] = Aborted(reversePhase[r]) /\ r = clicks
      BY <1>1, <2>1, NoneAssumption DEF ClickInv
    <3> QED
      BY <1>2, <3>1
  <2>2. CASE r # currentReverse
    <3>1. AbortReverse[r] = reversePhase[r]
      BY <1>1, <2>2
    <3>2. reversePhase[r] \notin {"fetch", "body"}
      BY <2>2 DEF ClickInv
    <3> QED
      BY <3>1, <3>2
  <2> QED
    BY <2>1, <2>2
<1> QED
  BY <1>1, <1>3

(* A request that ends: of the last click while its result is wanted, or an *)
(* aborted one.                                                             *)
LEMMA FinishClick ==
  ASSUME ClickInv, NEW r \in 1..clicks, FinishReverse(r),
         \/ Interrupted(reversePhase[r])
         \/ TaskMayRun(reversePhase) /\ reversePhase[r] \in {"fetch", "body"}
  PROVE  /\ clicks' \in 0..MaxClicks
         /\ DOMAIN reversePhase' = 1..MaxClicks
         /\ \A q \in 1..MaxClicks : reversePhase'[q] \in {"fetch", "body"} => q = currentReverse'
         /\ currentReverse' # None => currentReverse' = clicks' /\ ~ cleared'
         /\ \A q \in 1..MaxClicks :
              Interrupted(reversePhase'[q]) /\ ~ cleared'
                => q < clicks' /\ reversePhase'[clicks'] = "fetch"
         /\ clicks' = clicks /\ cleared' = cleared /\ origins' = origins
         /\ reversePhase'[clicks'] = "done" /\ ~ cleared' => r = clicks
<1>1. /\ reversePhase' = [reversePhase EXCEPT ![r] = "done"]
      /\ currentReverse' = IF currentReverse = r THEN None ELSE currentReverse
      /\ clicks' = clicks /\ cleared' = cleared /\ origins' = origins
  BY DEF FinishReverse
<1>2. r \in 1..MaxClicks /\ clicks \in 1..MaxClicks
  BY ClicksAssumption DEF ClickInv
<1>3. /\ DOMAIN reversePhase' = 1..MaxClicks
      /\ \A q \in 1..MaxClicks :
           reversePhase'[q] = IF q = r THEN "done" ELSE reversePhase[q]
  BY <1>1 DEF ClickInv
<1>4. \A q \in 1..MaxClicks : reversePhase'[q] \in {"fetch", "body"} => q = currentReverse'
  BY <1>1, <1>3 DEF ClickInv
<1>5. ASSUME NEW q \in 1..MaxClicks, Interrupted(reversePhase'[q]), ~ cleared'
      PROVE  q < clicks' /\ reversePhase'[clicks'] = "fetch"
  <2>1. q # r /\ Interrupted(reversePhase[q])
    BY <1>3, <1>5 DEF Interrupted
  <2>2. q < clicks /\ reversePhase[clicks] = "fetch" /\ ~ TaskMayRun(reversePhase)
    BY <1>1, <1>5, <2>1 DEF ClickInv, TaskMayRun
  <2>3. r # clicks
    BY <2>2 DEF Interrupted
  <2> QED
    BY <1>1, <1>2, <1>3, <2>2, <2>3
<1>6. ASSUME reversePhase'[clicks'] = "done", ~ cleared', r # clicks
      PROVE  FALSE
  <2>1. reversePhase[clicks] = "done" /\ ~ cleared
    BY <1>1, <1>2, <1>3, <1>6
  <2>2. ~ Interrupted(reversePhase[r])
    BY <1>2, <2>1 DEF ClickInv
  <2>3. reversePhase[r] \notin {"fetch", "body"}
    BY <1>2, <1>6, ClicksAssumption, NoneAssumption DEF ClickInv
  <2> QED
    BY <2>2, <2>3
<1> QED
  BY <1>1, <1>3, <1>4, <1>5, <1>6 DEF ClickInv

(* What is rendered of an ended request keeps the last click's say.         *)
LEMMA RenderedClick ==
  ASSUME ClickInv, NEW r \in 1..clicks, FinishReverse(r),
         \/ Interrupted(reversePhase[r])
         \/ TaskMayRun(reversePhase) /\ reversePhase[r] \in {"fetch", "body"},
         panel'.shown, ~ panel'.spinning, panel'.coords = r,
         panel'.address # None \/ targets' # targets \/ line' # line
           => panel'.address = r /\ r = clicks /\ ~ cleared,
         panel'.address = None => panel'.label \in WithoutAddress,
         targets \subseteq targets' /\ targets' \subseteq targets \cup {r},
         line' = line \/ (line' = r /\ r \in targets')
  PROVE  ClickInv'
<1>1. LastClickDecides'
  BY FinishClick DEF ClickInv, LastClickDecides
<1> QED
  BY <1>1, FinishClick DEF ClickInv

LEMMA AnswerClick ==
  ASSUME ClickInv, NEW r \in 1..clicks,
         AnswerReverse(r) \/ ResumeReverse(r)
  PROVE  ClickInv'
<1>1. r \in 1..MaxClicks /\ r \in Nat /\ r # None /\ clicks \in 1..MaxClicks
  BY ClicksAssumption, NoneAssumption DEF ClickInv
<1>2. reversePhase[r] \in {"fetch", "body"} => r = clicks /\ ~ cleared
  BY <1>1 DEF ClickInv
<1>3. ASSUME NEW isOk, ReverseResponds(r, isOk)
      PROVE  ClickInv'
  <2>1. /\ reversePhase[r] = "fetch" /\ TaskMayRun(reversePhase)
        /\ reversePhase' = [reversePhase EXCEPT ![r] = "body"]
        /\ UNCHANGED <<clicks, currentReverse, panel, origins, targets, line, cleared>>
    BY <1>3 DEF ReverseResponds
  <2>2. /\ DOMAIN reversePhase' = 1..MaxClicks
        /\ \A q \in 1..MaxClicks :
             reversePhase'[q] = IF q = r THEN "body" ELSE reversePhase[q]
    BY <2>1 DEF ClickInv
  <2>3. \A q \in 1..MaxClicks : ~ Interrupted(reversePhase'[q])
    BY <2>1, <2>2 DEF ClickInv, TaskMayRun, Interrupted
  <2>4. LastClickDecides'
    BY <1>1, <1>2, <2>1, <2>2 DEF ClickInv, LastClickDecides
  <2> QED
    BY <2>1, <2>2, <2>3, <2>4 DEF ClickInv
<1>4. ASSUME FinishReverse(r), RenderReverseError(r),
             \/ Interrupted(reversePhase[r])
             \/ TaskMayRun(reversePhase) /\ reversePhase[r] \in {"fetch", "body"}
      PROVE  ClickInv'
  <2>1. /\ panel' = [shown |-> TRUE, label |-> "Address unavailable", address |-> None,
                     spinning |-> FALSE, coords |-> r]
        /\ targets' = targets /\ line' = line
    BY <1>4 DEF RenderReverseError
  <2> QED
    BY <1>4, <2>1, RenderedClick DEF WithoutAddress
<1>5. ASSUME NEW payload, FinishReverse(r), RenderReverse(r, payload),
             \/ Interrupted(reversePhase[r])
             \/ TaskMayRun(reversePhase) /\ reversePhase[r] \in {"fetch", "body"},
             payload = "none" \/ (r = clicks /\ ~ cleared)
      PROVE  ClickInv'
  <2>1. /\ panel'.shown /\ ~ panel'.spinning /\ panel'.coords = r
        /\ panel'.address = IF payload = "none" THEN None ELSE r
        /\ payload = "none" => panel'.label = "No address found" /\ targets' = targets /\ line' = line
        /\ targets' = targets \/ targets' = targets \cup {r}
        /\ line' = line \/ (line' = r /\ r \in targets')
    BY <1>5 DEF RenderReverse
  <2> QED
    BY <1>1, <1>5, <2>1, RenderedClick DEF WithoutAddress
<1>6. ASSUME ResumeReverseFetch(r)
      PROVE  ClickInv'
  <2>1. FinishReverse(r) /\ UNCHANGED <<panel, targets, line>> /\ reversePhase[r] = "fetch_aborted"
    BY <1>6 DEF ResumeReverseFetch
  <2>2. Interrupted(reversePhase[r]) /\ (~ cleared => r # clicks)
    BY <1>1, <2>1 DEF ClickInv, Interrupted
  <2>3. LastClickDecides'
    BY <2>1, <2>2, FinishClick DEF ClickInv, LastClickDecides
  <2> QED
    BY <2>1, <2>2, <2>3, FinishClick DEF ClickInv
<1>7. CASE AnswerReverse(r)
  <2>1. ASSUME NEW payload, ReverseRead(r, payload)
        PROVE  ClickInv'
    BY <1>2, <1>4, <1>5, <2>1 DEF ReverseRead
  <2>2. ReverseDisconnects(r) => ClickInv'
    BY <1>4 DEF ReverseDisconnects
  <2> QED
    BY <1>3, <1>7, <2>1, <2>2 DEF AnswerReverse
<1>8. CASE ResumeReverse(r)
  <2>1. ASSUME ResumeReverseBody(r)
        PROVE  ClickInv'
    <3>1. FinishReverse(r) /\ Interrupted(reversePhase[r])
      BY <2>1 DEF ResumeReverseBody, Interrupted
    <3>2. RenderReverse(r, "none") \/ RenderReverseError(r)
      BY <2>1 DEF ResumeReverseBody
    <3> QED
      BY <1>4, <1>5, <3>1, <3>2
  <2> QED
    BY <1>6, <1>8, <2>1 DEF ResumeReverse
<1> QED
  BY <1>7, <1>8

LEMMA NextClick ==
  ASSUME ClickInv,
         [ReverseNext]_(reverseVars)
  PROVE  ClickInv'
<1>1. CASE RunReverse
  <2> DEFINE r == clicks + 1
  <2>1. /\ clicks < MaxClicks /\ clicks' = r /\ TaskMayRun(reversePhase)
        /\ reversePhase' = [AbortReverse EXCEPT ![r] = "fetch"]
        /\ currentReverse' = r /\ origins' = {r}
        /\ panel' = [shown |-> TRUE, label |-> "Searching", address |-> None,
                     spinning |-> TRUE, coords |-> r]
        /\ targets' = {} /\ line' = None /\ cleared' = FALSE
    BY <1>1 DEF RunReverse
  <2>2. r \in 1..MaxClicks /\ clicks \in Nat /\ clicks' \in 0..MaxClicks
    BY <2>1, ClicksAssumption DEF ClickInv
  <2>3. /\ DOMAIN reversePhase' = 1..MaxClicks
        /\ \A q \in 1..MaxClicks :
             reversePhase'[q] = IF q = r THEN "fetch" ELSE AbortReverse[q]
    BY <2>1, AbortedClick
  <2>4. ASSUME NEW q \in 1..MaxClicks, Interrupted(reversePhase'[q])
        PROVE  q < r /\ reversePhase'[r] = "fetch"
    <3>1. q # r /\ Interrupted(AbortReverse[q])
      BY <2>3, <2>4 DEF Interrupted
    <3>2. ~ Interrupted(reversePhase[q])
      BY <2>1 DEF ClickInv, TaskMayRun
    <3> QED
      BY <2>2, <2>3, <3>1, <3>2, AbortedClick
  <2>5. LastClickDecides'
    BY <2>1, <2>2, <2>3 DEF LastClickDecides
  <2> QED
    BY <2>1, <2>2, <2>3, <2>4, <2>5, AbortedClick DEF ClickInv
<1>2. CASE ClearReverseResult
  <2>1. /\ clicks' = clicks /\ reversePhase' = AbortReverse /\ cleared' = TRUE
        /\ currentReverse' = None /\ origins' = {} /\ targets' = {} /\ line' = None
    BY <1>2 DEF ClearReverseResult
  <2>2. panel' = [panel EXCEPT !.shown = FALSE, !.label = "", !.address = None,
                               !.coords = None]
    BY <1>2 DEF ClearReverseResult
  <2>3. LastClickDecides'
    BY <2>1, <2>2 DEF LastClickDecides
  <2> QED
    BY <2>1, <2>3, AbortedClick DEF ClickInv
<1>3. CASE \E r \in StartedClicks : AnswerReverse(r) \/ ResumeReverse(r)
  BY <1>3, AnswerClick DEF StartedClicks
<1>4. CASE UNCHANGED reverseVars
  BY <1>4 DEF reverseVars, ClickInv, LastClickDecides
<1> QED
  BY <1>1, <1>2, <1>3, <1>4 DEF ReverseNext

(* For any number of clicks, and whatever becomes of the requests           *)
(* (runReverse, renderReverse and renderReverseError in demo/app.js): the   *)
(* markers, the line and the address named are the last click's, and gone   *)
(* after a clear; once it has ended the panel shows its coordinates; what   *)
(* an aborted request brings up before that, or after a clear, has no       *)
(* address.                                                                 *)
THEOREM LastClickIsShown == ReverseSpec => []LastClickDecides
<1>1. ReverseInit => ClickInv
  BY InitClick
<1>2. ClickInv /\ [ReverseNext]_(reverseVars) => ClickInv'
  BY NextClick
<1>3. ClickInv => LastClickDecides
  BY DEF ClickInv
<1> QED
  BY <1>1, <1>2, <1>3, PTL DEF ReverseSpec

-----------------------------------------------------------------------------
(* The demo map: search *)

(* Only the request of the last query run can still be answered, and its    *)
(* text is what the clear button restores.                                  *)
RunInv ==
  /\ runs \in 0..MaxRuns
  /\ DOMAIN searchPhase = 1..MaxRuns /\ DOMAIN queryOf = 1..MaxRuns
  /\ \A r \in 1..MaxRuns : searchPhase[r] \in {"fetch", "body"} => r = currentSearch
  /\ currentSearch # None => currentSearch = runs
  /\ runs # 0 => queryOf[runs] = lastQuery
  /\ list # None => list = runs /\ runs # 0
  /\ markers # None => markers = list

LEMMA InitRun ==
  ASSUME SearchInit
  PROVE  RunInv
<1>1. /\ runs = 0 /\ searchPhase = [r \in 1..MaxRuns |-> "done"]
      /\ queryOf = [r \in 1..MaxRuns |-> ""]
      /\ currentSearch = None /\ list = None /\ markers = None
  BY DEF SearchInit, Runs
<1>2. /\ DOMAIN searchPhase = 1..MaxRuns /\ DOMAIN queryOf = 1..MaxRuns
      /\ \A r \in 1..MaxRuns : searchPhase[r] \notin {"fetch", "body"}
  BY <1>1
<1>3. runs = 0 /\ currentSearch = None /\ list = None /\ markers = None
  BY DEF SearchInit
<1>4. runs \in 0..MaxRuns
  BY <1>3, RunsAssumption
<1> QED
  BY <1>2, <1>3, <1>4 DEF RunInv

(* What the steps below change and keep. *)
KeepsRuns == UNCHANGED <<runs, queryOf, currentSearch, lastQuery>>
Keeps     == KeepsRuns /\ UNCHANGED <<list, markers>>

LEMMA AbortedRun ==
  ASSUME RunInv
  PROVE  /\ DOMAIN AbortSearch = 1..MaxRuns
         /\ \A r \in 1..MaxRuns : AbortSearch[r] \notin {"fetch", "body"}
BY DEF RunInv, AbortSearch, Runs, Aborted

LEMMA RunQueryRun ==
  ASSUME RunInv, NEW t, RunQuery(t)
  PROVE  RunInv'
<1> DEFINE r == runs + 1
<1>1. /\ runs < MaxRuns /\ runs' = r /\ queryOf' = [queryOf EXCEPT ![r] = t]
      /\ searchPhase' = [AbortSearch EXCEPT ![r] = "fetch"]
      /\ currentSearch' = r /\ lastQuery' = t /\ list' = None /\ markers' = None
  BY DEF RunQuery, EmptyResults
<1>2. r \in 1..MaxRuns /\ runs' \in 0..MaxRuns
  BY <1>1, RunsAssumption DEF RunInv
<1>3. /\ DOMAIN searchPhase' = 1..MaxRuns
      /\ \A q \in 1..MaxRuns : searchPhase'[q] \in {"fetch", "body"} => q = currentSearch'
  BY <1>1, <1>2, AbortedRun
<1>4. DOMAIN queryOf' = 1..MaxRuns /\ queryOf'[r] = t
  BY <1>1, <1>2 DEF RunInv
<1> QED
  BY <1>1, <1>2, <1>3, <1>4 DEF RunInv

(* Aborting the request, with the list emptied or left as it is.            *)
LEMMA AbortRun ==
  ASSUME RunInv, KeepsRuns, searchPhase' = AbortSearch,
         \/ list' = None /\ markers' = None
         \/ list' = list /\ markers' = markers
  PROVE  RunInv'
BY AbortedRun DEF RunInv, KeepsRuns

LEMMA ClearResultsRun ==
  ASSUME RunInv, ClearResults
  PROVE  RunInv'
BY AbortRun DEF ClearResults, EmptyResults, KeepsRuns

LEMMA FinishRun ==
  ASSUME RunInv, NEW r \in 1..MaxRuns, FinishSearch(r)
  PROVE  /\ DOMAIN searchPhase' = 1..MaxRuns
         /\ \A q \in 1..MaxRuns : searchPhase'[q] \in {"fetch", "body"} => q = currentSearch'
         /\ currentSearch' # None => currentSearch' = runs
         /\ UNCHANGED <<runs, queryOf, lastQuery>>
<1>1. /\ searchPhase' = [searchPhase EXCEPT ![r] = "done"]
      /\ currentSearch' = IF currentSearch = r THEN None ELSE currentSearch
      /\ UNCHANGED <<runs, queryOf, lastQuery>>
  BY DEF FinishSearch
<1>2. /\ DOMAIN searchPhase' = 1..MaxRuns
      /\ \A q \in 1..MaxRuns :
           searchPhase'[q] = IF q = r THEN "done" ELSE searchPhase[q]
  BY <1>1 DEF RunInv
<1> QED
  BY <1>1, <1>2 DEF RunInv

LEMMA AnswerRun ==
  ASSUME RunInv, NEW r \in 1..runs,
         AnswerSearch(r) \/ ResumeSearch(r)
  PROVE  RunInv'
<1>1. r \in 1..MaxRuns /\ runs # 0 /\ r \in Nat
  BY RunsAssumption DEF RunInv
<1>2. searchPhase[r] = "body" => r = runs
  BY <1>1, RunsAssumption, NoneAssumption DEF RunInv
<1>3. ASSUME NEW isOk, SearchResponds(r, isOk)
      PROVE  RunInv'
  <2>1. /\ searchPhase[r] = "fetch"
        /\ searchPhase' = [searchPhase EXCEPT ![r] = "body"]
        /\ Keeps
    BY <1>3 DEF SearchResponds, Keeps, KeepsRuns
  <2> QED
    BY <1>1, <2>1 DEF RunInv, Keeps, KeepsRuns
<1>4. ASSUME FinishSearch(r),
             \/ markers' = None /\ (list' = list \/ list' = None)
             \/ list' = list /\ markers' = markers
             \/ list' = runs /\ markers' = runs
      PROVE  RunInv'
  BY <1>1, <1>4, FinishRun DEF RunInv
<1>5. FinishSearch(r) /\ HideResults => RunInv'
  BY <1>4 DEF HideResults
<1>6. FinishSearch(r) /\ RenderResults(r, "none") => RunInv'
  BY <1>4 DEF RenderResults, EmptyResults
<1>7. ASSUME NEW results, searchPhase[r] = "body",
             FinishSearch(r), RenderResults(r, results)
      PROVE  RunInv'
  <2>1. \/ markers' = None /\ list' = None
        \/ list' = r /\ markers' = r
    BY <1>7 DEF RenderResults, EmptyResults
  <2> QED
    BY <1>2, <1>4, <1>7, <2>1
<1>8. CASE AnswerSearch(r)
  <2>1. ASSUME NEW results, SearchRead(r, results)
        PROVE  RunInv'
    BY <1>5, <1>7, <2>1 DEF SearchRead
  <2>2. SearchDisconnects(r) => RunInv'
    BY <1>5 DEF SearchDisconnects
  <2> QED
    BY <1>3, <1>8, <2>1, <2>2 DEF AnswerSearch
<1>9. CASE ResumeSearch(r)
  <2>1. ResumeSearchFetch(r) => RunInv'
    BY <1>4 DEF ResumeSearchFetch
  <2>2. ResumeSearchBody(r) => RunInv'
    BY <1>5, <1>6 DEF ResumeSearchBody
  <2> QED
    BY <1>9, <2>1, <2>2 DEF ResumeSearch
<1> QED
  BY <1>8, <1>9

LEMMA NextRun ==
  ASSUME RunInv,
         [SearchNext]_(searchVars)
  PROVE  RunInv'
<1>1. ASSUME NEW t, Type(t)
      PROVE  RunInv'
  <2>1. CASE ClearResults
    BY <2>1, ClearResultsRun
  <2>2. CASE /\ searchPhase' = AbortSearch
             /\ EmptyResults /\ KeepsRuns
    BY <2>2, AbortRun DEF EmptyResults
  <2>3. CASE Keeps /\ UNCHANGED searchPhase
    BY <2>3 DEF Keeps, KeepsRuns, RunInv
  <2> QED
    BY <1>1, <2>1, <2>2, <2>3 DEF Type, Keeps, KeepsRuns
<1>2. CASE TimerFires
  BY <1>2, RunQueryRun DEF TimerFires
<1>3. CASE Escape
  BY <1>3, AbortRun DEF Escape, KeepsRuns
<1>4. CASE Submit
  BY <1>4, RunQueryRun, ClearResultsRun DEF Submit
<1>5. CASE PressClear
  <2>1. ClearResults \/ (Keeps /\ UNCHANGED searchPhase)
    BY <1>5 DEF PressClear, Keeps, KeepsRuns
  <2> QED
    BY <2>1, ClearResultsRun DEF Keeps, KeepsRuns, RunInv
<1>6. CASE SelectResult
  BY <1>6 DEF SelectResult, RunInv
<1>7. CASE \E r \in StartedRuns : AnswerSearch(r) \/ ResumeSearch(r)
  BY <1>7, AnswerRun DEF StartedRuns
<1>8. CASE UNCHANGED searchVars
  BY <1>8 DEF searchVars, RunInv
<1> QED
  BY <1>1, <1>2, <1>3, <1>4, <1>5, <1>6, <1>7, <1>8 DEF SearchNext

(* For any queries and any number of requests, and whatever becomes of      *)
(* them: what is listed and on the map answers the last query run, whose    *)
(* text is the one the clear button restores.                               *)
THEOREM LastQueryIsListed == SearchSpec => []ListAnswersLastQuery
<1>1. SearchInit => RunInv
  BY InitRun
<1>2. RunInv /\ [SearchNext]_(searchVars) => RunInv'
  BY NextRun
<1>3. RunInv => ListAnswersLastQuery
  BY DEF RunInv, ListAnswersLastQuery
<1> QED
  BY <1>1, <1>2, <1>3, PTL DEF SearchSpec
=============================================================================
