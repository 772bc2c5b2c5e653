-------------------------- MODULE RecordsStoreProofs --------------------------
(***************************************************************************)
(* Proofs about RecordsStore: for any kinds, widths, limits and records,   *)
(* an archive that opens never decodes to anything but what was written,   *)
(* whatever prefix of each file a build left behind.                       *)
(***************************************************************************)
EXTENDS RecordsStore, TLAPS

-----------------------------------------------------------------------------
(* The inductive invariant *)

(* The text is in the arena, at its span. *)
Holds(arena, span, text) ==
  /\ span.len = Len(text)
  /\ span.start + span.len <= Len(arena)
  /\ \A i \in 1..Len(text) : arena[span.start + i] = text[i]

Stored(line) == <<Len(line)>> \o line

HoldsTexts(entrySpans, texts) ==
  \A i \in 1..Len(entrySpans) : Holds(strings, entrySpans[i], texts[i])

InternInv == \A text \in DOMAIN intern : Holds(strings, intern[text], text)

(* What has been pushed of the record being written. *)
CurrentInv ==
  /\ HoldsTexts(spans, cur.texts)
  /\ pc = "entry" =>
       /\ Len(spans) = Len(cur.texts)
       /\ cur.line # NoLine => Holds(geometries, lineSpan, Stored(cur.line))

(* Row n - 1: its word names an entry that ends where the next one starts   *)
(* and holds the record's spans.                                            *)
StartOf(n) == OffsetOf(directory[n])
EndOf(n)   == IF n < Len(directory) THEN StartOf(n + 1) ELSE blobLen

EntryHolds(entry, record) ==
  /\ entry.kind = record.kind
  /\ Len(entry.texts) = Len(record.texts)
  /\ HoldsTexts(entry.texts, record.texts)
  /\ entry.isLine <=> record.line # NoLine
  /\ entry.isLine => Holds(geometries, entry.line, Stored(record.line))

RowInv(n) ==
  /\ KindOf(directory[n]) = written[n].kind
  /\ StartOf(n) \in DOMAIN blob
  /\ EndOf(n) = StartOf(n) + Width[written[n].kind]
  /\ EndOf(n) <= blobLen
  /\ EntryHolds(blob[StartOf(n)], written[n])

RowsInv ==
  /\ Len(directory) = Len(written)
  /\ \A n \in 1..Len(written) : RowInv(n)
  /\ Len(directory) = 0 => blobLen = 0

(* The header says nothing until the directory is finished, and all after.  *)
Final == [count |-> Len(directory), blobLen |-> blobLen]
Blank == [count |-> 0, blobLen |-> 0]

HeaderInv ==
  /\ header \in {Blank, Final}
  /\ pc \in {"ready", "texts", "entry"} => header = Blank
  /\ pc \in {"finish_blob", "finish_strings", "finish_geometries", "done"}
       => header = Final

StoredInv ==
  /\ pc = "done" => \A file \in Files : stored[file] = Size(file)
  /\ pc = "stopped" => \A file \in Files : stored[file] <= Size(file)

StoreInv ==
  /\ TypeOK
  /\ InternInv
  /\ CurrentInv
  /\ RowsInv
  /\ HeaderInv
  /\ StoredInv

-----------------------------------------------------------------------------
(* Words, records and arenas *)

(* A word gives back the kind and the offset it was packed from.            *)
LEMMA PackedWord ==
  ASSUME NEW kind \in Kinds, NEW offset \in Nat, offset < OffsetLimit
  PROVE  /\ Packed(kind, offset) \in Nat
         /\ KindOf(Packed(kind, offset)) = kind
         /\ OffsetOf(Packed(kind, offset)) = offset
<1>1. kind \in Nat /\ OffsetLimit \in Nat \ {0}
  BY KindsAssumption, LimitsAssumption
<1>2. ASSUME NEW m \in Nat, NEW r \in Nat, NEW d \in Nat \ {0}, r < d
      PROVE  m * d + r \in Nat /\ (m * d + r) \div d = m /\ (m * d + r) % d = r
  <2>1. m * d + r \in Nat
    OBVIOUS
  <2>2. (m * d + r) \div d = m
    BY <1>2
  <2>3. (m * d + r) % d = r
    BY <1>2, <2>1, <2>2
  <2> QED
    BY <2>1, <2>2, <2>3
<1> QED
  BY <1>1, <1>2 DEF Packed, KindOf, OffsetOf

(* The parts of a record are of the types the arenas hold.                  *)
LEMMA RecordTypes ==
  ASSUME NEW record \in Records
  PROVE  /\ record.kind \in Kinds /\ Width[record.kind] \in Nat \ {0}
         /\ record = [kind |-> record.kind, texts |-> record.texts,
                      line |-> record.line]
         /\ record.texts \in Seq(Seq(Nat))
         /\ Len(record.texts) = Len(Interned[record.kind])
         /\ \A i \in 1..Len(record.texts) : record.texts[i] \in Seq(Nat)
         /\ record.line # NoLine => /\ record.line \in Seq(Nat)
                                    /\ Stored(record.line) \in Seq(Nat)
                                    /\ Len(Stored(record.line)) = Len(record.line) + 1
BY RecordsAssumption, KindsAssumption DEF Stored

(* Everything in the one arena is in the other at the same span.            *)
Keeps(arena, later) ==
  \A span \in Spans, text \in Seq(Nat) :
    Holds(arena, span, text) => Holds(later, span, text)

(* Appending to an arena keeps what is in it.                               *)
LEMMA AppendKeeps ==
  ASSUME NEW arena \in Seq(Nat), NEW more \in Seq(Nat)
  PROVE  Keeps(arena, arena \o more) /\ Keeps(arena, arena)
<1>1. ASSUME NEW span \in Spans, NEW text \in Seq(Nat), Holds(arena, span, text)
      PROVE  Holds(arena \o more, span, text)
  <2>1. span.start \in Nat /\ span.len \in Nat /\ Len(arena) \in Nat /\ Len(more) \in Nat
    BY DEF Spans
  <2>2. Len(arena \o more) = Len(arena) + Len(more)
    OBVIOUS
  <2>3. ASSUME NEW i \in 1..Len(text)
        PROVE  (arena \o more)[span.start + i] = text[i]
    <3>1. span.start + i \in 1..Len(arena)
      BY <1>1, <2>1 DEF Holds
    <3>2. (arena \o more)[span.start + i] = arena[span.start + i]
      BY <3>1
    <3> QED
      BY <1>1, <3>2 DEF Holds
  <2>4. span.start + span.len <= Len(arena \o more) /\ span.len = Len(text)
    BY <1>1, <2>1, <2>2 DEF Holds
  <2> QED
    BY <2>3, <2>4 DEF Holds
<1> QED
  BY <1>1 DEF Keeps

(* A text appended to an arena is there, at the arena's former end.         *)
LEMMA AppendHolds ==
  ASSUME NEW arena \in Seq(Nat), NEW text \in Seq(Nat)
  PROVE  Holds(arena \o text, Span(Len(arena), Len(text)), text)
<1>1. Len(arena \o text) = Len(arena) + Len(text)
  OBVIOUS
<1>2. \A i \in 1..Len(text) : (arena \o text)[Len(arena) + i] = text[i]
  OBVIOUS
<1> QED
  BY <1>1, <1>2 DEF Holds, Span

(* The slice at a span is the text that is held there.                      *)
LEMMA SliceHolds ==
  ASSUME NEW arena \in Seq(Nat), NEW span \in Spans, NEW text \in Seq(Nat),
         Holds(arena, span, text)
  PROVE  Slice(arena, span) = text
<1>1. Len(text) \in Nat /\ DOMAIN text = 1..Len(text)
      /\ text = [i \in DOMAIN text |-> text[i]]
  OBVIOUS
<1> QED
  BY <1>1 DEF Holds, Slice

(* Rows stay as they are while the arenas only grow.                        *)
LEMMA RowsStay ==
  ASSUME TypeOK, RowsInv, Keeps(strings, strings'), Keeps(geometries, geometries'),
         UNCHANGED <<directory, blob, blobLen, written>>
  PROVE  RowsInv'
<1>1. ASSUME NEW n \in 1..Len(written)
      PROVE  EntryHolds(blob[StartOf(n)], written[n])'
  <2> DEFINE entry == blob[StartOf(n)]
             record == written[n]
  <2>1. EntryHolds(entry, record) /\ StartOf(n) \in DOMAIN blob
    BY DEF RowsInv, RowInv
  <2>2. record \in Records /\ entry \in Entries
    BY <2>1 DEF TypeOK
  <2>3. entry.line \in Spans /\ \A i \in 1..Len(entry.texts) : entry.texts[i] \in Spans
    BY <2>2 DEF Entries
  <2>4. UNCHANGED <<entry, record>>
    BY DEF StartOf
  <2>5. HoldsTexts(entry.texts, record.texts)'
    BY <2>1, <2>2, <2>3, <2>4, RecordTypes DEF EntryHolds, HoldsTexts, Keeps
  <2>6. entry.isLine => Holds(geometries', entry.line, Stored(record.line))
    BY <2>1, <2>2, <2>3, RecordTypes DEF EntryHolds, Keeps
  <2> QED
    BY <2>1, <2>4, <2>5, <2>6 DEF EntryHolds
<1> QED
  BY <1>1 DEF RowsInv, RowInv, StartOf, EndOf

-----------------------------------------------------------------------------
(* The invariant *)

(* A writer that has done nothing satisfies the invariant.                  *)
LEMMA StoreInit == Init => StoreInv
<1> SUFFICES ASSUME Init PROVE StoreInv
  OBVIOUS
<1>1. TypeOK
  <2>1. cur.texts \in Seq(Seq(Nat)) /\ Len(spans) <= Len(cur.texts)
    BY RecordTypes DEF Init
  <2> QED
    BY <2>1 DEF Init, TypeOK, Running, Spans, EmptySpan, Span, Files
<1>2. InternInv /\ CurrentInv
  BY DEF Init, InternInv, CurrentInv, HoldsTexts
<1>3. RowsInv
  BY DEF Init, RowsInv
<1>4. HeaderInv /\ StoredInv
  BY DEF Init, HeaderInv, StoredInv, Blank, Final
<1> QED
  BY <1>1, <1>2, <1>3, <1>4 DEF StoreInv

(* A step that leaves the record being written, the arenas and the rows     *)
(* alone preserves everything about them.                                   *)
Untouched == UNCHANGED <<cur, spans, lineSpan, arenas, blob, blobLen, directory,
                         written>>

LEMMA UntouchedKeeps ==
  ASSUME StoreInv, Untouched, pc' # "entry"
  PROVE  InternInv' /\ CurrentInv' /\ RowsInv'
<1>1. UNCHANGED <<cur, spans, lineSpan, strings, intern, geometries, blob, blobLen,
                  directory, written>>
  BY DEF Untouched, arenas
<1>2. InternInv' /\ CurrentInv'
  BY <1>1 DEF StoreInv, InternInv, CurrentInv, HoldsTexts
<1>3. Keeps(strings, strings') /\ Keeps(geometries, geometries')
  BY <1>1, AppendKeeps DEF StoreInv, TypeOK
<1>4. RowsInv'
  BY <1>1, <1>3, RowsStay DEF StoreInv
<1> QED
  BY <1>2, <1>4

(* Starting a record forgets the spans of the one before.                   *)
LEMMA BeginRecordKeeps ==
  ASSUME StoreInv, NEW record \in Records, BeginRecord(record)
  PROVE  StoreInv'
<1>1. /\ pc = "ready" /\ pc' = "texts" /\ cur' = record /\ spans' = <<>>
      /\ UNCHANGED <<lineSpan, strings, intern, geometries, blob, blobLen,
                     directory, header, stored, written>>
  BY DEF BeginRecord, arenas
<1>2. TypeOK'
  <2>1. cur'.texts \in Seq(Seq(Nat)) /\ Len(spans') <= Len(cur'.texts)
    BY <1>1, RecordTypes
  <2> QED
    BY <1>1, <2>1 DEF StoreInv, TypeOK, Running, Spans
<1>3. InternInv' /\ CurrentInv'
  BY <1>1 DEF StoreInv, InternInv, CurrentInv, HoldsTexts
<1>4. Keeps(strings, strings') /\ Keeps(geometries, geometries')
  BY <1>1, AppendKeeps DEF StoreInv, TypeOK
<1>5. RowsInv'
  BY <1>1, <1>4, RowsStay DEF StoreInv
<1>6. HeaderInv' /\ StoredInv'
  BY <1>1 DEF StoreInv, HeaderInv, StoredInv, Blank, Final
<1> QED
  BY <1>2, <1>3, <1>5, <1>6 DEF StoreInv

(* Pushing a text: its span holds it, whether it is empty, was interned     *)
(* before, or is appended now.                                              *)
LEMMA PushTextKeeps ==
  ASSUME StoreInv, PushText
  PROVE  StoreInv'
<1> DEFINE next == Len(spans) + 1
<1>1. /\ pc = "texts" /\ Len(spans) < Len(cur.texts)
      /\ UNCHANGED <<pc, cur, lineSpan, geometries, blob, blobLen, directory,
                     header, stored, written>>
  BY DEF PushText
<1>2. /\ TypeOK /\ strings \in Seq(Nat) /\ spans \in Seq(Spans) /\ cur \in Records
      /\ DOMAIN intern \subseteq Seq(Nat) /\ intern \in [DOMAIN intern -> Spans]
  BY DEF StoreInv, TypeOK
<1>3. /\ Len(spans) \in Nat /\ next \in 1..Len(cur.texts)
      /\ Text = cur.texts[next] /\ Text \in Seq(Nat)
      /\ \A i \in 1..Len(cur.texts) : cur.texts[i] \in Seq(Nat)
      /\ Len(cur.texts) \in Nat
  BY <1>1, <1>2, RecordTypes DEF Text
<1>4. PICK span \in Spans :
        /\ spans' = Append(spans, span)
        /\ strings' \in Seq(Nat) /\ Keeps(strings, strings')
        /\ Holds(strings', span, Text)
        /\ \/ UNCHANGED intern
           \/ intern' = [t \in DOMAIN intern \cup {Text} |->
                            IF t = Text THEN span ELSE intern[t]]
  <2>1. CASE SkipText
    <3>1. EmptySpan \in Spans /\ Holds(strings, EmptySpan, <<>>)
      BY <1>2 DEF EmptySpan, Span, Spans, Holds
    <3> QED
      BY <2>1, <3>1, <1>2, AppendKeeps DEF SkipText
  <2>2. CASE ShareText
    <3>1. intern[Text] \in Spans /\ Holds(strings, intern[Text], Text)
      BY <2>2, <1>2 DEF ShareText, StoreInv, InternInv
    <3> QED
      BY <2>2, <3>1, <1>2, AppendKeeps DEF ShareText
  <2>3. CASE AppendText
    <3> DEFINE span == Span(Len(strings), Len(Text))
    <3>1. span \in Spans /\ strings \o Text \in Seq(Nat)
      BY <1>2, <1>3 DEF Span, Spans
    <3>2. Holds(strings \o Text, span, Text) /\ Keeps(strings, strings \o Text)
      BY <1>2, <1>3, AppendHolds, AppendKeeps
    <3> HIDE DEF span
    <3>3. /\ spans' = Append(spans, span) /\ strings' = strings \o Text
          /\ \/ UNCHANGED intern
             \/ intern' = [t \in DOMAIN intern \cup {Text} |->
                              IF t = Text THEN span ELSE intern[t]]
      BY <2>3 DEF AppendText, span
    <3> QED
      BY <3>1, <3>2, <3>3
  <2> QED
    BY <2>1, <2>2, <2>3 DEF PushText
<1>5. /\ spans' \in Seq(Spans) /\ Len(spans') = next
      /\ \A i \in 1..Len(spans) : spans'[i] = spans[i] /\ spans[i] \in Spans
      /\ spans'[next] = span
  BY <1>2, <1>3, <1>4
<1>6. DOMAIN intern' \subseteq Seq(Nat) /\ intern' \in [DOMAIN intern' -> Spans]
  BY <1>2, <1>3, <1>4
<1>7. TypeOK'
  BY <1>1, <1>2, <1>3, <1>4, <1>5, <1>6 DEF TypeOK
<1>8. InternInv'
  <2>1. ASSUME NEW text \in DOMAIN intern'
        PROVE  Holds(strings', intern'[text], text)
    <3>1. CASE text \in DOMAIN intern /\ intern'[text] = intern[text]
      BY <3>1, <1>2, <1>4 DEF StoreInv, InternInv, Keeps
    <3>2. CASE text = Text /\ intern'[text] = span
      BY <3>2, <1>4
    <3> QED
      BY <1>4, <3>1, <3>2
  <2> QED
    BY <2>1 DEF InternInv
<1>9. CurrentInv'
  <2>1. ASSUME NEW i \in 1..Len(spans')
        PROVE  Holds(strings', spans'[i], cur.texts[i])
    <3>1. CASE i = next
      BY <3>1, <1>3, <1>4, <1>5
    <3>2. CASE i \in 1..Len(spans)
      <4>1. Holds(strings, spans[i], cur.texts[i])
        BY <3>2 DEF StoreInv, CurrentInv, HoldsTexts
      <4>2. cur.texts[i] \in Seq(Nat) /\ spans'[i] = spans[i] /\ spans[i] \in Spans
        BY <3>2, <1>1, <1>3, <1>5
      <4> QED
        BY <4>1, <4>2, <1>4 DEF Keeps
    <3> QED
      BY <1>3, <1>5, <3>1, <3>2
  <2> QED
    BY <2>1, <1>1 DEF CurrentInv, HoldsTexts
<1>10. RowsInv'
  <2>1. Keeps(geometries, geometries')
    BY <1>1, AppendKeeps DEF StoreInv, TypeOK
  <2> QED
    BY <2>1, <1>1, <1>4, RowsStay DEF StoreInv
<1>11. HeaderInv' /\ StoredInv'
  BY <1>1 DEF StoreInv, HeaderInv, StoredInv, Blank, Final
<1> QED
  BY <1>7, <1>8, <1>9, <1>10, <1>11 DEF StoreInv

(* Pushing the line: its span holds its count and its positions.            *)
LEMMA PushLineKeeps ==
  ASSUME StoreInv, PushLine
  PROVE  StoreInv'
<1>1. /\ pc = "texts" /\ pc' = "entry" /\ Len(spans) = Len(cur.texts)
      /\ UNCHANGED <<cur, spans, strings, intern, blob, blobLen, directory,
                     header, stored, written>>
  BY DEF PushLine
<1>2. cur \in Records /\ geometries \in Seq(Nat) /\ strings \in Seq(Nat)
  BY DEF StoreInv, TypeOK
<1>3. /\ lineSpan' \in Spans /\ geometries' \in Seq(Nat)
      /\ Keeps(geometries, geometries')
      /\ cur.line # NoLine => Holds(geometries', lineSpan', Stored(cur.line))
  <2>1. CASE cur.line = NoLine
    BY <2>1, <1>2, AppendKeeps DEF PushLine, EmptySpan, Span, Spans
  <2>2. CASE cur.line # NoLine
    <3>1. /\ cur.line \in Seq(Nat) /\ Stored(cur.line) \in Seq(Nat)
          /\ Len(Stored(cur.line)) = Len(cur.line) + 1
      BY <2>2, <1>2, RecordTypes
    <3>2. /\ lineSpan' = Span(Len(geometries), Len(Stored(cur.line)))
          /\ geometries' = geometries \o Stored(cur.line)
      BY <2>2, <3>1 DEF PushLine, Stored
    <3>3. lineSpan' \in Spans /\ geometries' \in Seq(Nat)
      BY <3>1, <3>2, <1>2 DEF Span, Spans
    <3> QED
      BY <3>1, <3>2, <3>3, <1>2, AppendKeeps, AppendHolds
  <2> QED
    BY <2>1, <2>2
<1>4. TypeOK'
  BY <1>1, <1>3 DEF StoreInv, TypeOK, Running
<1>5. InternInv' /\ CurrentInv'
  BY <1>1, <1>3 DEF StoreInv, InternInv, CurrentInv, HoldsTexts
<1>6. RowsInv'
  BY <1>1, <1>2, <1>3, AppendKeeps, RowsStay DEF StoreInv
<1>7. HeaderInv' /\ StoredInv'
  BY <1>1 DEF StoreInv, HeaderInv, StoredInv, Blank, Final
<1> QED
  BY <1>4, <1>5, <1>6, <1>7 DEF StoreInv

(* Pushing the entry: the new row starts where the blob ended, and the row  *)
(* before it now ends at the new row's start instead.                       *)
LEMMA PushEntryKeeps ==
  ASSUME StoreInv, PushEntry
  PROVE  StoreInv'
<1> DEFINE entry == [kind |-> cur.kind, texts |-> spans, line |-> lineSpan,
                     isLine |-> cur.line # NoLine]
<1>0. PICK last \in Nat : last = Len(directory) + 1
  BY DEF StoreInv, TypeOK
<1>1. /\ pc = "entry" /\ pc' = "ready" /\ blobLen < OffsetLimit
      /\ blob' = [offset \in DOMAIN blob \cup {blobLen} |->
                    IF offset = blobLen THEN entry ELSE blob[offset]]
      /\ blobLen' = blobLen + Width[cur.kind]
      /\ directory' = Append(directory, Packed(cur.kind, blobLen))
      /\ written' = Append(written, cur)
      /\ UNCHANGED <<cur, spans, lineSpan, strings, intern, geometries, header,
                     stored>>
  BY DEF PushEntry, arenas
<1>2. /\ cur \in Records /\ spans \in Seq(Spans) /\ lineSpan \in Spans
      /\ blobLen \in Nat /\ directory \in Seq(Nat) /\ written \in Seq(Records)
      /\ DOMAIN blob \subseteq Nat /\ blob \in [DOMAIN blob -> Entries]
      /\ Len(directory) = Len(written) /\ Len(directory) \in Nat
  BY DEF StoreInv, TypeOK, RowsInv
<1>3. cur.kind \in Kinds /\ Width[cur.kind] \in Nat \ {0}
  BY <1>2, RecordTypes
<1>4. /\ Packed(cur.kind, blobLen) \in Nat
      /\ KindOf(Packed(cur.kind, blobLen)) = cur.kind
      /\ OffsetOf(Packed(cur.kind, blobLen)) = blobLen
  BY <1>1, <1>2, <1>3, PackedWord
<1>5. entry \in Entries
  BY <1>2, <1>3 DEF Entries
<1>6. /\ directory' \in Seq(Nat) /\ Len(directory') = last
      /\ written' \in Seq(Records) /\ Len(written') = last
      /\ \A n \in 1..last - 1 : directory'[n] = directory[n] /\ written'[n] = written[n]
      /\ directory'[last] = Packed(cur.kind, blobLen) /\ written'[last] = cur
  BY <1>0, <1>1, <1>2, <1>4
<1>7. DOMAIN blob' \subseteq Nat /\ blob' \in [DOMAIN blob' -> Entries]
  <2> HIDE DEF entry
  <2> QED
    BY <1>1, <1>2, <1>5
<1>8. TypeOK'
  <2>1. blobLen' \in Nat /\ pc' \in Running
    BY <1>1, <1>2, <1>3 DEF Running
  <2> HIDE DEF entry
  <2> QED
    BY <1>1, <1>6, <1>7, <2>1 DEF StoreInv, TypeOK
<1>9. InternInv' /\ CurrentInv'
  BY <1>1 DEF StoreInv, InternInv, CurrentInv, HoldsTexts
<1>10. RowsInv'
  <2>1. ASSUME NEW n \in 1..last - 1
        PROVE  RowInv(n)'
    <3>1. RowInv(n) /\ n \in 1..Len(written) /\ n \in Nat
      BY <1>0, <1>2 DEF StoreInv, RowsInv
    <3>2. /\ written[n] \in Records /\ Width[written[n].kind] \in Nat \ {0}
          /\ StartOf(n) \in DOMAIN blob /\ StartOf(n) \in Nat
      BY <3>1, <1>2, RecordTypes DEF RowInv
    <3>3. StartOf(n) < blobLen
      BY <3>1, <3>2, <1>2 DEF RowInv
    <3>4. /\ StartOf(n)' = StartOf(n) /\ StartOf(n) \in DOMAIN blob'
          /\ blob'[StartOf(n)] = blob[StartOf(n)]
      <4> HIDE DEF entry
      <4> QED
        BY <3>2, <3>3, <1>1, <1>2, <1>6 DEF StartOf
    <3>5. EndOf(n)' = EndOf(n)
      <4>1. CASE n = last - 1
        <5>1. EndOf(n) = blobLen
          BY <4>1, <1>0, <1>2 DEF EndOf
        <5>2. EndOf(n)' = OffsetOf(directory'[last])
          BY <4>1, <1>0, <1>2, <1>6 DEF EndOf, StartOf
        <5> QED
          BY <5>1, <5>2, <1>4, <1>6
      <4>2. CASE n # last - 1
        <5>1. n + 1 \in 1..last - 1 /\ n < Len(directory) /\ n < Len(directory')
          BY <4>2, <1>0, <1>2, <1>6
        <5>2. directory'[n + 1] = directory[n + 1]
          BY <5>1, <1>6
        <5> QED
          BY <5>1, <5>2 DEF EndOf, StartOf
      <4> QED
        BY <4>1, <4>2
    <3>6. EndOf(n) <= blobLen'
      <4>1. EndOf(n) \in Nat /\ EndOf(n) <= blobLen
        BY <3>1, <3>2 DEF RowInv
      <4>2. blobLen' \in Nat /\ blobLen <= blobLen'
        BY <1>1, <1>2, <1>3
      <4> QED
        BY <4>1, <4>2, <1>2
    <3>7. KindOf(directory'[n]) = written'[n].kind /\ written'[n] = written[n]
      BY <3>1, <1>6 DEF RowInv
    <3>8. EntryHolds(blob[StartOf(n)], written[n])'
      <4>1. EntryHolds(blob[StartOf(n)], written[n])
        BY <3>1 DEF RowInv
      <4> QED
        BY <4>1, <3>4, <3>7, <1>1 DEF EntryHolds, HoldsTexts
    <3>9. EndOf(n) = StartOf(n) + Width[written[n].kind]
      BY <3>1 DEF RowInv
    <3> QED
      BY <3>4, <3>5, <3>6, <3>7, <3>8, <3>9 DEF RowInv
  <2>2. RowInv(last)'
    <3>1. StartOf(last)' = blobLen /\ EndOf(last)' = blobLen + Width[cur.kind]
      BY <1>1, <1>4, <1>6 DEF StartOf, EndOf
    <3>2. blobLen \in DOMAIN blob' /\ blob'[blobLen] = entry
      <4> HIDE DEF entry
      <4> QED
        BY <1>1
    <3>3. EntryHolds(entry, cur)'
      BY <1>1 DEF EntryHolds, StoreInv, CurrentInv, HoldsTexts
    <3>4. EntryHolds(blob[StartOf(last)], written[last])'
      <4>1. blob'[StartOf(last)'] = entry /\ written'[last] = cur
        BY <3>1, <3>2, <1>6
      <4>2. entry' = entry
        BY <1>1
      <4> HIDE DEF entry
      <4> QED
        BY <4>1, <4>2, <3>3, <1>1, <1>2 DEF EntryHolds
    <3>5. EndOf(last)' <= blobLen' /\ KindOf(directory'[last]) = cur.kind
      BY <3>1, <1>1, <1>2, <1>3, <1>4, <1>6
    <3> QED
      BY <3>1, <3>2, <3>4, <3>5, <1>6 DEF RowInv
  <2>3. \A n \in 1..last : RowInv(n)'
    BY <2>1, <2>2, <1>0
  <2>4. Len(directory') # 0
    BY <1>0, <1>2, <1>6
  <2> QED
    BY <2>3, <2>4, <1>6 DEF RowsInv
<1>11. HeaderInv' /\ StoredInv'
  BY <1>1 DEF StoreInv, HeaderInv, StoredInv, Blank
<1> QED
  BY <1>8, <1>9, <1>10, <1>11 DEF StoreInv

(* finish() and its end only change the header and what is on disk.         *)
LEMMA FinishKeeps ==
  ASSUME StoreInv, BeginFinish \/ FinishDirectory \/ FinishArena
  PROVE  StoreInv'
<1>1. Untouched /\ pc' # "entry"
  BY DEF BeginFinish, FinishDirectory, FinishArena, Untouched
<1>2. UNCHANGED <<cur, spans, lineSpan, strings, intern, geometries, blob, blobLen,
                  directory, written>>
  BY <1>1 DEF Untouched, arenas
<1>3. InternInv' /\ CurrentInv' /\ RowsInv'
  BY <1>1, UntouchedKeeps
<1>4. Len(directory) \in Nat /\ blobLen \in Nat /\ Len(strings) \in Nat
      /\ Len(geometries) \in Nat
  BY DEF StoreInv, TypeOK
<1>5. \A file \in Files : Size(file) \in Nat /\ Size(file)' = Size(file)
  BY <1>2, <1>4 DEF Size, Files
<1>6. TypeOK'
  BY <1>2, <1>4, <1>5
     DEF StoreInv, TypeOK, BeginFinish, FinishDirectory, FinishArena, Running
<1>7. HeaderInv'
  BY <1>2 DEF StoreInv, HeaderInv, Blank, Final, BeginFinish, FinishDirectory,
              FinishArena
<1>8. StoredInv'
  BY <1>5 DEF StoreInv, StoredInv, BeginFinish, FinishDirectory, FinishArena
<1> QED
  BY <1>3, <1>6, <1>7, <1>8 DEF StoreInv

(* A build that stops leaves prefixes of its files.                         *)
LEMMA StopKeeps ==
  ASSUME StoreInv, NEW d \in Prefixes("directory"), NEW b \in Prefixes("blob"),
         NEW s \in Prefixes("strings"), NEW g \in Prefixes("geometries"),
         Stop([directory |-> d, blob |-> b, strings |-> s, geometries |-> g])
  PROVE  StoreInv'
<1> DEFINE prefix == [directory |-> d, blob |-> b, strings |-> s, geometries |-> g]
<1>1. Untouched /\ pc' = "stopped" /\ stored' = prefix /\ UNCHANGED header
  BY DEF Stop, Untouched
<1>2. UNCHANGED <<cur, spans, lineSpan, strings, intern, geometries, blob, blobLen,
                  directory, written>>
  BY <1>1 DEF Untouched, arenas
<1>3. InternInv' /\ CurrentInv' /\ RowsInv'
  BY <1>1, UntouchedKeeps
<1>4. Len(directory) \in Nat /\ blobLen \in Nat /\ Len(strings) \in Nat
      /\ Len(geometries) \in Nat
  BY DEF StoreInv, TypeOK
<1>5. \A file \in Files : Size(file) \in Nat /\ Size(file)' = Size(file)
  BY <1>2, <1>4 DEF Size, Files
<1>6. \A file \in Files : prefix[file] \in Nat /\ prefix[file] <= Size(file)
  <2>1. \A file \in Files : Prefixes(file) \subseteq 0..Size(file)
    BY <1>5 DEF Prefixes
  <2>2. \A file \in Files : prefix[file] \in Prefixes(file)
    BY DEF Files
  <2> QED
    BY <2>1, <2>2, <1>5
<1>7. prefix \in [Files -> Nat]
  BY <1>6 DEF Files
<1>8. TypeOK'
  BY <1>1, <1>2, <1>7 DEF StoreInv, TypeOK
<1>9. HeaderInv' /\ StoredInv'
  BY <1>1, <1>2, <1>5, <1>6 DEF StoreInv, HeaderInv, StoredInv, Blank, Final
<1> QED
  BY <1>3, <1>8, <1>9 DEF StoreInv

(* The invariant holds in every state of every build.                       *)
LEMMA StoreInvariant == Spec => []StoreInv
<1>1. Init => StoreInv
  BY StoreInit
<1>2. StoreInv /\ [Next]_vars => StoreInv'
  <2> SUFFICES ASSUME StoreInv, [Next]_vars PROVE StoreInv'
    OBVIOUS
  <2>1. CASE \E record \in Records : BeginRecord(record)
    BY <2>1, BeginRecordKeeps
  <2>2. CASE PushText
    BY <2>2, PushTextKeeps
  <2>3. CASE PushLine
    BY <2>3, PushLineKeeps
  <2>4. CASE PushEntry
    BY <2>4, PushEntryKeeps
  <2>5. CASE BeginFinish \/ FinishDirectory \/ FinishArena
    BY <2>5, FinishKeeps
  <2>6. CASE \E d \in Prefixes("directory"), b \in Prefixes("blob"),
               s \in Prefixes("strings"), g \in Prefixes("geometries") :
               Stop([directory |-> d, blob |-> b, strings |-> s, geometries |-> g])
    BY <2>6, StopKeeps
  <2>7. CASE UNCHANGED vars
    BY <2>7 DEF vars, arenas, StoreInv, TypeOK, InternInv, CurrentInv, HoldsTexts,
                RowsInv, RowInv, StartOf, EndOf, EntryHolds, HeaderInv, Blank, Final,
                StoredInv, Size
  <2> QED
    BY <2>1, <2>2, <2>3, <2>4, <2>5, <2>6, <2>7 DEF Next
<1> QED
  BY <1>1, <1>2, PTL DEF Spec

-----------------------------------------------------------------------------
(* The properties *)

(* Type correctness of the archive's writer.                                *)
THEOREM TypeCorrect == Spec => []TypeOK
<1>1. StoreInv => TypeOK
  BY DEF StoreInv
<1> QED
  BY <1>1, StoreInvariant, PTL

(* The header of an archive that opens is blank, and it has no rows, or     *)
(* final, and its rows are the rows written.                                *)
LEMMA OpenedRows ==
  ASSUME StoreInv, Opens, NEW id \in Rows
  PROVE  /\ header = Final /\ id \in Nat /\ id + 1 \in 1..Len(written)
         /\ Word(id) = directory[id + 1]
         /\ Start(id) = StartOf(id + 1) /\ Start(id) \in Nat
         /\ End(id) = EndOf(id + 1)
         /\ RowInv(id + 1)
         /\ stored["blob"] = 1 + blobLen
<1>1. header.count \in Nat /\ id \in 0..header.count - 1
  BY DEF StoreInv, TypeOK, Rows
<1>2. header = Final
  BY <1>1 DEF StoreInv, HeaderInv, Blank
<1>3. header.count = Len(directory) /\ header.blobLen = blobLen
  BY <1>2 DEF Final
<1>4. Len(directory) = Len(written) /\ \A n \in 1..Len(written) : RowInv(n)
  BY DEF StoreInv, RowsInv
<1>5. id \in Nat /\ id + 1 \in 1..Len(written) /\ RowInv(id + 1)
  BY <1>1, <1>3, <1>4
<1>6. StartOf(id + 1) \in Nat
  BY <1>5 DEF RowInv, StoreInv, TypeOK
<1> QED
  BY <1>2, <1>3, <1>4, <1>5, <1>6 DEF Word, Start, End, StartOf, EndOf, Opens

(* The entry of every row of an archive that opens can be read.             *)
LEMMA EntriesThere == StoreInv => OpenArchiveHasEntries
<1> SUFFICES ASSUME StoreInv, Opens, NEW id \in Rows
             PROVE  EntryReads(id)
  BY DEF OpenArchiveHasEntries
<1>1. /\ written[id + 1] \in Records
      /\ written[id + 1].kind \in Kinds /\ Width[written[id + 1].kind] \in Nat \ {0}
  BY OpenedRows, RecordTypes DEF StoreInv, TypeOK
<1>2. /\ KindOf(Word(id)) = written[id + 1].kind
      /\ End(id) = Start(id) + Width[written[id + 1].kind]
      /\ End(id) <= blobLen /\ Start(id) \in Nat /\ stored["blob"] = 1 + blobLen
  BY OpenedRows DEF RowInv
<1>3. blobLen \in Nat
  BY DEF StoreInv, TypeOK
<1> QED
  BY <1>1, <1>2, <1>3 DEF EntryReads

(* Whenever an archive opens, the entry of each of its rows is on disk.     *)
THEOREM EntriesCorrect == Spec => []OpenArchiveHasEntries
BY EntriesThere, StoreInvariant, PTL

(* A row that decodes decodes to its record.                                *)
LEMMA DecodesToWritten == StoreInv => DecodedIsWritten
<1> SUFFICES ASSUME StoreInv, Opens, NEW id \in Rows
             PROVE  /\ Start(id) \in DOMAIN blob
                    /\ id < Len(written)
                    /\ Decode(id) = written[id + 1]
  BY DEF DecodedIsWritten
<1> DEFINE record == written[id + 1]
           entry  == EntryOf(id)
<1>1. /\ RowInv(id + 1) /\ Start(id) = StartOf(id + 1)
      /\ id \in Nat /\ id + 1 \in 1..Len(written)
      /\ Word(id) = directory[id + 1]
  BY OpenedRows
<1>2. record \in Records
  BY <1>1 DEF StoreInv, TypeOK
<1>3. Start(id) \in DOMAIN blob /\ entry \in Entries /\ EntryHolds(entry, record)
      /\ KindOf(Word(id)) = record.kind
  BY <1>1 DEF RowInv, EntryOf, StoreInv, TypeOK
<1> HIDE DEF record, entry
<1>4. /\ strings \in Seq(Nat) /\ geometries \in Seq(Nat)
      /\ entry.texts \in Seq(Spans) /\ entry.line \in Spans
      /\ Len(entry.texts) = Len(record.texts)
  BY <1>3 DEF Entries, EntryHolds, StoreInv, TypeOK
<1>5. [i \in 1..Len(entry.texts) |-> Slice(strings, entry.texts[i])] = record.texts
  <2>1. ASSUME NEW i \in 1..Len(entry.texts)
        PROVE  Slice(strings, entry.texts[i]) = record.texts[i]
    <3>1. /\ entry.texts[i] \in Spans /\ record.texts[i] \in Seq(Nat)
          /\ Holds(strings, entry.texts[i], record.texts[i])
      BY <1>2, <1>3, <1>4, RecordTypes DEF EntryHolds, HoldsTexts
    <3> QED
      BY <3>1, <1>4, SliceHolds
  <2>2. /\ record.texts \in Seq(Seq(Nat))
        /\ record.texts = [i \in 1..Len(record.texts) |-> record.texts[i]]
    <3>1. record.texts \in Seq(Seq(Nat))
      BY <1>2, RecordTypes
    <3>2. ASSUME NEW T, NEW texts \in Seq(T)
          PROVE  texts = [i \in 1..Len(texts) |-> texts[i]]
      OBVIOUS
    <3> QED
      BY <3>1, <3>2
  <2> QED
    BY <2>1, <2>2, <1>4
<1>6. ASSUME entry.isLine
      PROVE  Slice(geometries, Span(entry.line.start + 1, entry.line.len - 1))
               = record.line
  <2> DEFINE line == record.line
  <2>1. /\ line \in Seq(Nat) /\ Len(Stored(line)) = Len(line) + 1 /\ Len(line) \in Nat
        /\ Holds(geometries, entry.line, Stored(line))
    BY <1>2, <1>3, <1>6, RecordTypes DEF EntryHolds
  <2>2. \A i \in 1..Len(line) : Stored(line)[i + 1] = line[i]
    BY <2>1 DEF Stored
  <2>3. entry.line.start \in Nat /\ entry.line.len = Len(line) + 1
    BY <2>1, <1>4 DEF Holds, Spans
  <2>4. ASSUME NEW i \in 1..Len(line)
        PROVE  geometries[(entry.line.start + 1) + i] = line[i]
    <3>1. i + 1 \in 1..Len(Stored(line))
      BY <2>1
    <3>2. geometries[entry.line.start + (i + 1)] = Stored(line)[i + 1]
      BY <2>1, <3>1 DEF Holds
    <3>3. (entry.line.start + 1) + i = entry.line.start + (i + 1)
      BY <2>1, <2>3
    <3> QED
      BY <2>2, <3>2, <3>3
  <2>5. entry.line.len - 1 = Len(line) /\ line = [i \in 1..Len(line) |-> line[i]]
    BY <2>1, <2>3
  <2> QED
    BY <2>4, <2>5 DEF Slice, Span
<1>7. Decode(id) = [kind |-> record.kind, texts |-> record.texts, line |-> record.line]
  <2>1. entry.isLine <=> record.line # NoLine
    BY <1>3 DEF EntryHolds
  <2>2. (IF entry.isLine
         THEN Slice(geometries, Span(entry.line.start + 1, entry.line.len - 1))
         ELSE NoLine) = record.line
    BY <2>1, <1>6
  <2> QED
    BY <2>2, <1>3, <1>5 DEF Decode, entry
<1>8. Decode(id) = record
  BY <1>2, <1>7, RecordTypes
<1>9. id < Len(written)
  BY <1>1
<1> QED
  BY <1>3, <1>8, <1>9 DEF record

(* Whatever a build left on disk, a row that decodes decodes to the record  *)
(* written as that row.                                                     *)
THEOREM DecodingCorrect == Spec => []DecodedIsWritten
BY DecodesToWritten, StoreInvariant, PTL

(* An archive whose build finished has everything its entries name.         *)
LEMMA FinishedDecodes == StoreInv => FinishedArchiveDecodes
<1> SUFFICES ASSUME StoreInv, pc = "done"
             PROVE  /\ Opens /\ header.count = Len(written)
                    /\ \A id \in Rows : Reads(id)
  BY DEF FinishedArchiveDecodes
<1>1. /\ Len(directory) \in Nat /\ blobLen \in Nat /\ Len(strings) \in Nat
      /\ Len(geometries) \in Nat
  BY DEF StoreInv, TypeOK
<1>2. /\ stored["directory"] = 1 + Len(directory) /\ stored["blob"] = 1 + blobLen
      /\ stored["strings"] = 1 + Len(strings)
      /\ stored["geometries"] = 1 + Len(geometries)
  BY DEF StoreInv, StoredInv, Files, Size
<1>3. header.count = Len(directory) /\ header.blobLen = blobLen
  BY DEF StoreInv, HeaderInv, Final
<1>4. Opens
  BY <1>1, <1>2, <1>3 DEF Opens, Files
<1>5. ASSUME NEW id \in Rows
      PROVE  Reads(id)
  <2> DEFINE record == written[id + 1]
             entry  == EntryOf(id)
  <2>1. EntryReads(id)
    BY <1>4, EntriesThere DEF OpenArchiveHasEntries
  <2>2. /\ record \in Records /\ entry \in Entries /\ EntryHolds(entry, record)
    BY <1>4, OpenedRows DEF RowInv, EntryOf, StoreInv, TypeOK
  <2> HIDE DEF record, entry
  <2>3. ASSUME NEW i \in 1..Len(entry.texts)
        PROVE  TextReads(entry.texts[i])
    <3>1. /\ Holds(strings, entry.texts[i], record.texts[i])
          /\ entry.texts[i] \in Spans
      BY <2>2 DEF EntryHolds, HoldsTexts, Entries
    <3> QED
      BY <3>1, <1>1, <1>2 DEF Holds, TextReads, Spans
  <2>4. ASSUME entry.isLine
        PROVE  LineReads(entry.line)
    <3>1. /\ entry.line \in Spans /\ record.line \in Seq(Nat)
          /\ Len(Stored(record.line)) = Len(record.line) + 1
          /\ Holds(geometries, entry.line, Stored(record.line))
      BY <2>2, <2>4, RecordTypes DEF EntryHolds, Entries
    <3>2. Len(record.line) \in Nat /\ Stored(record.line)[1] = Len(record.line)
      BY <3>1 DEF Stored
    <3>3. /\ entry.line.start \in Nat /\ entry.line.len = Len(record.line) + 1
          /\ entry.line.start + entry.line.len <= Len(geometries)
          /\ geometries[entry.line.start + 1] = Len(record.line)
      BY <3>1, <3>2 DEF Holds, Spans
    <3> QED
      BY <3>2, <3>3, <1>1, <1>2 DEF LineReads
  <2> QED
    BY <2>1, <2>3, <2>4 DEF Reads, entry
<1>6. header.count = Len(written)
  BY <1>3 DEF StoreInv, RowsInv
<1> QED
  BY <1>4, <1>5, <1>6

(* A finished archive opens, has every record written and decodes each.     *)
THEOREM FinishedCorrect == Spec => []FinishedArchiveDecodes
BY FinishedDecodes, StoreInvariant, PTL
=============================================================================
