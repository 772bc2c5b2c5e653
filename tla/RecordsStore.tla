----------------------------- MODULE RecordsStore -----------------------------
(***************************************************************************)
(* The records archive of a pack (src/records_archive.rs,                  *)
(* src/records_store.rs): four files written side by side through buffers. *)
(*                                                                         *)
(*   directory   a header [row count, blob length] and one packed word per *)
(*               row: the record's kind and the offset of its entry        *)
(*   blob        one fixed-width entry per row, of spans into the arenas   *)
(*   strings     texts, the interned ones once                             *)
(*   geometries  lines, each preceded by its number of positions           *)
(*                                                                         *)
(* Nothing on disk says where an entry ends or whether the arenas are      *)
(* complete: a row ends where the next one starts, the last where the      *)
(* header says the blob ends, and finish() backfills that header before it *)
(* has flushed the other three files.                                      *)
(***************************************************************************)
EXTENDS Naturals, Sequences

CONSTANTS
  Kinds,        \* EntryKind codes
  Interned,     \* kind -> for each text field, whether it is interned
  Width,        \* kind -> size of its entry
  Records,      \* records the builder may write
  OffsetLimit,  \* 2^56: offsets the packed word can hold
  LengthLimit,  \* 2^16 - 1: lengths a text span can hold
  MaxRows,      \* bound: rows of the archive
  NoLine        \* the geometry of a record that is a point

(* A record has a kind, its text fields (an absent one is empty, and both   *)
(* are stored as length 0) and its line.                                    *)
ASSUME KindsAssumption ==
  /\ Kinds \subseteq Nat
  /\ Interned \in [Kinds -> Seq(BOOLEAN)]
  /\ Width \in [Kinds -> Nat \ {0}]
ASSUME RecordsAssumption ==
  \A r \in Records :
    /\ r.kind \in Kinds
    /\ r = [kind |-> r.kind, texts |-> r.texts, line |-> r.line]
    /\ r.texts \in Seq(Seq(Nat)) /\ Len(r.texts) = Len(Interned[r.kind])
    /\ r.line # NoLine => r.line \in Seq(Nat)
ASSUME LimitsAssumption ==
  /\ OffsetLimit \in Nat \ {0} /\ LengthLimit \in Nat /\ MaxRows \in Nat
  /\ NoLine \notin Seq(Nat)

VARIABLES
  pc,          \* where the writer is
  cur,         \* the record being written
  spans,       \* spans of its texts so far
  lineSpan,    \* span of its line
  strings,     \* the strings arena
  intern,      \* text -> span
  geometries,  \* the geometries arena
  blob,        \* offset -> entry
  blobLen,     \* blob_len
  directory,   \* packed words
  header,      \* the directory's header on disk
  stored,      \* file -> how much of it is on disk, once the writer is gone
  written      \* records accepted so far

arenas == <<strings, intern, geometries>>
vars == <<pc, cur, spans, lineSpan, strings, intern, geometries, blob, blobLen,
          directory, header, stored, written>>

-----------------------------------------------------------------------------
(* Spans, words and files *)

Span(start, len) == [start |-> start, len |-> len]
EmptySpan == Span(0, 0)

Slice(arena, span) == [i \in 1..span.len |-> arena[span.start + i]]

(* pack_directory_entry: the kind above the offset's bits.                  *)
Packed(kind, offset) == kind * OffsetLimit + offset
KindOf(word)   == word \div OffsetLimit
OffsetOf(word) == word % OffsetLimit

Files == {"directory", "blob", "strings", "geometries"}

(* Units of a file in memory; the magic header is the first.                *)
Size(file) ==
  1 + CASE file = "directory"  -> Len(directory)
        [] file = "blob"       -> blobLen
        [] file = "strings"    -> Len(strings)
        [] file = "geometries" -> Len(geometries)

Running == {"ready", "texts", "entry", "finish_directory", "finish_blob",
            "finish_strings", "finish_geometries"}

(* Files whose buffer finish() has flushed.                                 *)
Flushed ==
  CASE pc = "finish_blob"       -> {"directory"}
    [] pc = "finish_strings"    -> {"directory", "blob"}
    [] pc = "finish_geometries" -> {"directory", "blob", "strings"}
    [] OTHER                    -> {}

-----------------------------------------------------------------------------
(* Writing a record: write_address and the other write_ functions *)

Init ==
  /\ pc = "ready"
  /\ cur \in Records
  /\ spans = <<>>
  /\ lineSpan = EmptySpan
  /\ strings = <<>>
  /\ intern = [text \in {} |-> EmptySpan]
  /\ geometries = <<>>
  /\ blob = [offset \in {} |-> EmptySpan]
  /\ blobLen = 0
  /\ directory = <<>>
  /\ header = [count |-> 0, blobLen |-> 0]
  /\ stored = [file \in Files |-> 0]
  /\ written = <<>>

BeginRecord(record) ==
  /\ pc = "ready"
  /\ Len(directory) < MaxRows
  /\ cur' = record
  /\ spans' = <<>>
  /\ pc' = "texts"
  /\ UNCHANGED <<lineSpan, arenas, blob, blobLen, directory, header, stored,
                 written>>

(* push_text, push_text_interned and their optional forms, for the next     *)
(* text field.                                                              *)
Text     == cur.texts[Len(spans) + 1]
IsShared == Interned[cur.kind][Len(spans) + 1]

SkipText ==
  /\ Text = <<>>
  /\ spans' = Append(spans, EmptySpan)
  /\ UNCHANGED <<strings, intern>>

ShareText ==
  /\ Text # <<>> /\ IsShared
  /\ Text \in DOMAIN intern
  /\ spans' = Append(spans, intern[Text])
  /\ UNCHANGED <<strings, intern>>

(* Mutant of AppendText: the span is taken after the text is appended. *)
AppendTextLateSpan ==
  /\ Text # <<>>
  /\ IsShared => Text \notin DOMAIN intern
  /\ LET span == Span(Len(strings) + Len(Text), Len(Text))
     IN /\ spans' = Append(spans, span)
        /\ intern' = IF IsShared
                     THEN [t \in DOMAIN intern \cup {Text} |->
                             IF t = Text THEN span ELSE intern[t]]
                     ELSE intern
  /\ strings' = strings \o Text

AppendText ==
  /\ Text # <<>>
  /\ IsShared => Text \notin DOMAIN intern
  /\ LET span == Span(Len(strings), Len(Text))
     IN /\ spans' = Append(spans, span)
        /\ intern' = IF IsShared
                     THEN [t \in DOMAIN intern \cup {Text} |->
                             IF t = Text THEN span ELSE intern[t]]
                     ELSE intern
  /\ strings' = strings \o Text

PushText ==
  /\ pc = "texts"
  /\ Len(spans) < Len(cur.texts)
  /\ SkipText \/ ShareText \/ AppendText
  /\ UNCHANGED <<pc, cur, lineSpan, geometries, blob, blobLen, directory,
                 header, stored, written>>

(* encode_geometry: a point leaves the arena alone.                         *)
PushLine ==
  /\ pc = "texts"
  /\ Len(spans) = Len(cur.texts)
  /\ IF cur.line = NoLine
     THEN lineSpan' = EmptySpan /\ UNCHANGED geometries
     ELSE /\ lineSpan' = Span(Len(geometries), Len(cur.line) + 1)
          /\ geometries' = geometries \o (<<Len(cur.line)>> \o cur.line)
  /\ pc' = "entry"
  /\ UNCHANGED <<cur, spans, strings, intern, blob, blobLen, directory, header,
                 stored, written>>

(* The entry is built, where a text that is too long is an error, and       *)
(* push_entry writes it and its word, where an offset that does not fit is. *)
PushEntry ==
  /\ pc = "entry"
  /\ \A i \in 1..Len(spans) : spans[i].len <= LengthLimit
  /\ blobLen < OffsetLimit
  /\ blob' = [offset \in DOMAIN blob \cup {blobLen} |->
                IF offset = blobLen
                THEN [kind |-> cur.kind, texts |-> spans, line |-> lineSpan,
                      isLine |-> cur.line # NoLine]
                ELSE blob[offset]]
  /\ blobLen' = blobLen + Width[cur.kind]
  /\ directory' = Append(directory, Packed(cur.kind, blobLen))
  /\ written' = Append(written, cur)
  /\ pc' = "ready"
  /\ UNCHANGED <<cur, spans, lineSpan, arenas, header, stored>>

-----------------------------------------------------------------------------
(* finish, and the ways not to get there *)

BeginFinish ==
  /\ pc = "ready"
  /\ pc' = "finish_directory"
  /\ UNCHANGED <<cur, spans, lineSpan, arenas, blob, blobLen, directory, header,
                 stored, written>>

(* Mutant of FinishDirectory: only the row count is backfilled. *)
FinishDirectoryCountOnly ==
  /\ pc = "finish_directory"
  /\ header' = [header EXCEPT !.count = Len(directory)]
  /\ pc' = "finish_blob"
  /\ UNCHANGED <<cur, spans, lineSpan, arenas, blob, blobLen, directory, stored,
                 written>>

(* The directory is flushed and its header backfilled.                      *)
FinishDirectory ==
  /\ pc = "finish_directory"
  /\ header' = [count |-> Len(directory), blobLen |-> blobLen]
  /\ pc' = "finish_blob"
  /\ UNCHANGED <<cur, spans, lineSpan, arenas, blob, blobLen, directory, stored,
                 written>>

(* backfill_len, for each of the other files; no reader looks at the length *)
(* it writes.                                                               *)
FinishArena ==
  /\ \/ pc = "finish_blob" /\ pc' = "finish_strings" /\ UNCHANGED stored
     \/ pc = "finish_strings" /\ pc' = "finish_geometries" /\ UNCHANGED stored
     \/ /\ pc = "finish_geometries"
        /\ pc' = "done"
        /\ stored' = [file \in Files |-> Size(file)]
  /\ UNCHANGED <<cur, spans, lineSpan, arenas, blob, blobLen, directory, header,
                 written>>

(* The build fails or is killed.  Each buffered file has a prefix on disk,  *)
(* all of it when finish() has flushed it.                                  *)
Prefixes(file) == IF file \in Flushed THEN {Size(file)} ELSE 0..Size(file)

Stop(prefix) ==
  /\ pc \in Running
  /\ \A file \in Files : prefix[file] \in Prefixes(file)
  /\ stored' = prefix
  /\ pc' = "stopped"
  /\ UNCHANGED <<cur, spans, lineSpan, arenas, blob, blobLen, directory, header,
                 written>>

Next ==
  \/ \E record \in Records : BeginRecord(record)
  \/ PushText
  \/ PushLine
  \/ PushEntry
  \/ BeginFinish
  \/ FinishDirectory
  \/ FinishArena
  \/ \E d \in Prefixes("directory"), b \in Prefixes("blob"),
        s \in Prefixes("strings"), g \in Prefixes("geometries") :
       Stop([directory |-> d, blob |-> b, strings |-> s, geometries |-> g])

Spec == Init /\ [][Next]_vars

-----------------------------------------------------------------------------
(* The reader, once the writer is gone *)

(* RecordsStore::open: every file has its magic header, and the directory   *)
(* and the blob are as long as the directory's header says.                 *)
Opens ==
  /\ pc \in {"done", "stopped"}
  /\ \A file \in Files : stored[file] > 0
  /\ stored["directory"] = 1 + header.count
  /\ stored["blob"] = 1 + header.blobLen

(* RecordsStore::entry and cast_entry: the bytes up to the next row's       *)
(* entry, if they are on disk and of the width of the word's kind.          *)
Rows == 0..header.count - 1
Word(id)  == directory[id + 1]
Start(id) == OffsetOf(Word(id))
End(id)   == IF id + 1 < header.count THEN OffsetOf(Word(id + 1)) ELSE header.blobLen

EntryReads(id) ==
  /\ Start(id) <= End(id) /\ End(id) < stored["blob"]
  /\ KindOf(Word(id)) \in Kinds
  /\ End(id) - Start(id) = Width[KindOf(Word(id))]

EntryOf(id) == blob[Start(id)]

(* slice_arena, required_text, optional_text and decode_line_string.        *)
TextReads(span) == span.len = 0 \/ span.start + span.len < stored["strings"]
LineReads(span) ==
  /\ span.start + span.len < stored["geometries"]
  /\ span.len >= 1
  /\ span.len = 1 + geometries[span.start + 1]

Reads(id) ==
  /\ EntryReads(id)
  /\ \A i \in 1..Len(EntryOf(id).texts) : TextReads(EntryOf(id).texts[i])
  /\ EntryOf(id).isLine => LineReads(EntryOf(id).line)

Decode(id) ==
  LET entry == EntryOf(id)
  IN [kind  |-> KindOf(Word(id)),
      texts |-> [i \in 1..Len(entry.texts) |-> Slice(strings, entry.texts[i])],
      line  |-> IF entry.isLine
                THEN Slice(geometries, Span(entry.line.start + 1, entry.line.len - 1))
                ELSE NoLine]

-----------------------------------------------------------------------------
(* Properties *)

(* Each variable holds a value of its kind.                                 *)
Spans == [start : Nat, len : Nat]
Entries == [kind : Kinds, texts : Seq(Spans), line : Spans, isLine : BOOLEAN]

TypeOK ==
  /\ pc \in Running \cup {"done", "stopped"}
  /\ cur \in Records
  /\ spans \in Seq(Spans) /\ Len(spans) <= Len(cur.texts)
  /\ lineSpan \in Spans
  /\ strings \in Seq(Nat) /\ geometries \in Seq(Nat)
  /\ DOMAIN intern \subseteq Seq(Nat) /\ intern \in [DOMAIN intern -> Spans]
  /\ DOMAIN blob \subseteq Nat /\ blob \in [DOMAIN blob -> Entries]
  /\ blobLen \in Nat
  /\ directory \in Seq(Nat)
  /\ header \in [count : Nat, blobLen : Nat]
  /\ stored \in [Files -> Nat]
  /\ written \in Seq(Records)

(* What a reader decodes is what was written: in whatever state a build     *)
(* left the four files, a row of an archive that opens either decodes to    *)
(* the record written as that row or fails to decode.  Shared spans,        *)
(* entries of other kinds and widths, and arenas cut off anywhere never     *)
(* yield another record.                                                    *)
DecodedIsWritten ==
  Opens =>
    \A id \in Rows : Reads(id) =>
      /\ Start(id) \in DOMAIN blob
      /\ id < Len(written)
      /\ Decode(id) = written[id + 1]

(* A build that finishes leaves an archive that opens, has every record     *)
(* written, and decodes all of them.                                        *)
FinishedArchiveDecodes ==
  pc = "done" =>
    /\ Opens
    /\ header.count = Len(written)
    /\ \A id \in Rows : Reads(id)

(* The directory's header is backfilled before the blob is flushed, and no  *)
(* file says that it is complete; yet the entry of every row is there       *)
(* whenever the archive opens, because both lengths are compared.           *)
OpenArchiveHasEntries == Opens => \A id \in Rows : EntryReads(id)
=============================================================================
