------------------------------- MODULE TextQuery -------------------------------
(***************************************************************************)
(* What the text index keeps of a record (ProjectionBuilder in             *)
(* src/text_index.rs) and what a query asks of it (src/search.rs): the two *)
(* agree on words, on house numbers and on postcodes as far as both sides  *)
(* take a text apart in the same way.  They do not quite: the index takes  *)
(* a normalized text apart again, with Tantivy's default tokenizer, while  *)
(* autocomplete makes its terms of the normalized words as they are.       *)
(* A user types a text, one character after another; suggestions come with *)
(* each, search at the end.                                                *)
(*                                                                         *)
(* Texts are sequences of characters, letters without case; blanks and     *)
(* punctuation are whatever is neither a letter nor a digit.  The index is *)
(* one segment, as commit() leaves it.  How hits are ranked, and the       *)
(* limits on their number, are left out.                                   *)
(***************************************************************************)
EXTENDS Naturals, FiniteSets, SequencesExt

CONSTANTS
  Digits, Letters,  \* characters
  Space,            \* a blank
  Others,           \* characters that are neither
  Dotted,           \* the one letter whose lower case is two characters
  Plain, Dot,       \* (U+0130): a letter, and a mark that is none
  Rank,             \* the order of the letters and digits in the dictionary
  TokenLimit,       \* the tokenizer drops tokens that are not shorter
  MaxExpansions,    \* AUTOCOMPLETE_PREFIX_MAX_EXPANSIONS
  Records,          \* [layer, number, name, postcode]; name is a street or a
                    \* place, and what a record lacks is None
  None

Alphanumeric == Digits \cup Letters
Texts == Seq(Alphanumeric \cup Others \cup {Space})

ASSUME CharactersAssumption ==
  /\ Digits \cap Letters = {} /\ Space \notin Alphanumeric
  /\ None \notin Texts
  /\ Dotted \in Letters /\ Plain \in Letters \ {Dotted}
  /\ Dot \in Others /\ Dot \notin Alphanumeric
  /\ Rank \in [Alphanumeric -> Nat]

ASSUME LimitsAssumption ==
  TokenLimit \in Nat /\ MaxExpansions \in Nat \ {0}

(* What each kind of record has: the fields and the Options of the structs  *)
(* in src/record.rs; streets and places have no postcode.                   *)
ASSUME RecordsAssumption ==
  /\ IsFiniteSet(Records)
  /\ \A r \in Records :
    /\ {r.number, r.name, r.postcode} \subseteq Texts \cup {None}
    /\ r.layer = "address" => r.number # None
    /\ IF r.layer = "postcode" THEN r.postcode # None ELSE r.name # None
    /\ r.layer \notin {"address", "interpolation", "postcode"} => r.postcode = None

VARIABLES
  record,   \* a record of the pack
  text,     \* what the user means to type
  typed     \* what is typed so far

queryVars == <<record, text, typed>>

-----------------------------------------------------------------------------
(* Texts *)

(* normalize_index_text, as the list of its words: a letter or a digit      *)
(* goes on with the word of the character before it or begins a new one.    *)
Longer(words, c) == [words EXCEPT ![Len(words)] = Append(@, c)]

Read(words, t, n) ==
  IF t[n] \notin Alphanumeric THEN words
  ELSE IF n > 1 /\ t[n - 1] \in Alphanumeric THEN Longer(words, t[n])
  ELSE Append(words, <<t[n]>>)

Words(t) ==
  LET words[n \in 0..Len(t)] == IF n = 0 THEN <<>> ELSE Read(words[n - 1], t, n)
  IN words[Len(t)]

WordsOf(t) == IF t = None THEN <<>> ELSE Words(t)

(* unique_parts, of the parts that have words (add_content_text and         *)
(* add_autocomplete_subject_text leave out the others).                     *)
WithPart(kept, p) == IF p = <<>> \/ p \in Range(kept) THEN kept ELSE Append(kept, p)

UniqueParts(parts) ==
  LET kept[n \in 0..Len(parts)] ==
        IF n = 0 THEN <<>> ELSE WithPart(kept[n - 1], parts[n])
  IN kept[Len(parts)]

(* The characters a text is normalized to: to_lowercase makes two of one.   *)
Folded(t) ==
  FlattenSeq([n \in 1..Len(t) |-> IF t[n] = Dotted THEN <<Plain, Dot>> ELSE <<t[n]>>])

-----------------------------------------------------------------------------
(* Tantivy's default tokenizer, external: a token is cut where a character  *)
(* is neither letter nor digit, and a long one leaves its place empty.      *)

Kept(word) == IF Len(word) < TokenLimit THEN word ELSE None

(* Of a word of a normalized text, and of a whole text. *)
TokensOfWord(word) ==
  LET tokens == Words(Folded(word)) IN [n \in 1..Len(tokens) |-> Kept(tokens[n])]

Tokens(words) == FlattenSeq([n \in 1..Len(words) |-> TokensOfWord(words[n])])

(* The parts of a field, joined by blanks. *)
Field(parts) ==
  LET unique == UniqueParts(parts)
  IN FlattenSeq([n \in 1..Len(unique) |-> Tokens(unique[n])])

-----------------------------------------------------------------------------
(* The document of a record *)

(* add_postcode_subject_text: with and without its blanks. *)
PostcodeParts(postcode) ==
  LET words == WordsOf(postcode)
  IN <<words>> \o (IF Len(words) > 1 THEN <<<<FlattenSeq(words)>>>> ELSE <<>>)

(* autocomplete_subject_text: a street for an address and its postcode;     *)
(* nothing of an interpolation.                                             *)
SubjectParts(r) ==
  CASE r.layer = "address"       -> <<WordsOf(r.name)>> \o PostcodeParts(r.postcode)
    [] r.layer = "postcode"      -> PostcodeParts(r.postcode)
    [] r.layer = "interpolation" -> <<>>
    [] OTHER                     -> <<WordsOf(r.name)>>

Subject(r) == Field(SubjectParts(r))

(* Mutant of ContentParts: the postcode of an address as it is spelled. *)
ContentPartsAsSpelled(r) ==
  <<WordsOf(r.number), WordsOf(r.name), WordsOf(r.postcode)>>

(* content_text: normalized, as the subject is. *)
ContentParts(r) ==
  <<WordsOf(r.number), WordsOf(r.name)>>
  \o IF r.layer = "interpolation" THEN <<WordsOf(r.postcode)>>
     ELSE PostcodeParts(r.postcode)

Content(r) == Range(Field(ContentParts(r)))

(* label_text and name_text are not normalized: the tokenizer meets their   *)
(* words as they are.  Unit, locality, region and country are left out.     *)
Label(r) ==
  {Kept(word) : word \in
     Range(WordsOf(r.number) \o WordsOf(r.name) \o WordsOf(r.postcode))}

(* address_number and postcode_exact hold one term, the whole text.         *)
AddressNumber(r) == IF r.layer = "address" THEN WordsOf(r.number) ELSE <<>>
PostcodeExact(r) == WordsOf(r.postcode)

-----------------------------------------------------------------------------
(* Autocomplete *)

MinAutocompleteQueryChars == 3

StartsWithDigit(word) == word[1] \in Digits

(* Mutant of NumberOf: a number needs no street to be one. *)
NumberOfAlone(words) ==
  IF StartsWithDigit(words[1]) THEN words[1] ELSE None

(* build_autocomplete_query: a number before other words is an address      *)
(* number; the rest is the subject.                                         *)
NumberOf(words) ==
  IF Len(words) > 1 /\ StartsWithDigit(words[1]) THEN words[1] ELSE None

SubjectTokens(words) == IF NumberOf(words) = None THEN words ELSE Tail(words)

(* The dictionary of the subjects, in the order of its terms. *)
Vocabulary == (UNION {Range(Subject(r)) : r \in Records}) \ {None}

Precedes(v, w) ==
  \/ IsPrefix(v, w) /\ v # w
  \/ \E i \in 1..Len(v) :
       /\ i <= Len(w) /\ Rank[v[i]] < Rank[w[i]]
       /\ \A k \in 1..i - 1 : v[k] = w[k]

(* What a prefix stands for: the first MaxExpansions of its completions.    *)
Completions(prefix) == {word \in Vocabulary : IsPrefix(prefix, word)}

Expansions(prefix) ==
  {word \in Completions(prefix) :
     Cardinality({v \in Completions(prefix) : Precedes(v, word)}) < MaxExpansions}

(* autocomplete_subject_query, a PhrasePrefixQuery: the words one after     *)
(* another, the last one a prefix.                                          *)
PhrasePrefix(tokens, subject) ==
  \E i \in 0..Len(subject) - Len(tokens) : \A j \in 1..Len(tokens) :
    IF j < Len(tokens) THEN subject[i + j] = tokens[j]
    ELSE subject[i + j] \in Expansions(tokens[j])

Suggested(r, t) ==
  LET words == Words(t)
  IN /\ Len(Folded(FlattenSeq(words))) >= MinAutocompleteQueryChars
     /\ NumberOf(words) # None => AddressNumber(r) = <<NumberOf(words)>>
     /\ SubjectTokens(words) # <<>>
     /\ PhrasePrefix(SubjectTokens(words), Subject(r))

-----------------------------------------------------------------------------
(* Search *)

(* build_query, for a query of letters, digits and blanks: each word is in  *)
(* some field (the query parser is external, and so is its syntax).         *)
Found(r, t) ==
  \A word \in Range(Words(t)) :
    \/ Kept(word) = word /\ word \in Content(r) \cup Label(r)
    \/ <<word>> \in {AddressNumber(r), PostcodeExact(r)}

-----------------------------------------------------------------------------
(* Typing *)

(* What a record is called, and its postcode with and without blanks. *)
Name(r) == IF r.layer = "address" THEN r.number \o <<Space>> \o r.name ELSE r.name
Spellings(postcode) ==
  IF postcode = None THEN {} ELSE {postcode, FlattenSeq(Words(postcode))}
Forms(r) == Spellings(r.postcode) \cup (IF r.layer = "postcode" THEN {} ELSE {Name(r)})

QueryInit ==
  /\ record \in Records
  /\ text \in UNION {Forms(r) : r \in Records}
  /\ typed = <<>>

Type ==
  /\ Len(typed) < Len(text)
  /\ typed' = Append(typed, text[Len(typed) + 1])
  /\ UNCHANGED <<record, text>>

QueryNext == Type

QuerySpec == QueryInit /\ [][QueryNext]_queryVars

-----------------------------------------------------------------------------
(* Properties *)

Typed == Words(typed)

(* A number that a query can give: one word, a digit first. *)
PlainNumber(number) == Len(Words(number)) = 1 /\ number[1] \in Digits

(* A word just being typed leads to the text's own only if all it can stand *)
(* for fits the expansions; a complete word comes first among its own.      *)
WithinReach ==
  \/ Last(Typed) = Words(text)[Len(Typed)]
  \/ Cardinality(Completions(Last(Typed))) <= MaxExpansions

(* The tokenizer takes the words begun as autocomplete does.                *)
TokenizedAlike ==
  /\ Dotted \notin Range(text)
  /\ \A n \in 1..Len(Typed) : Len(Words(text)[n]) < TokenLimit

(* Whoever types what a record is called, or its postcode in either         *)
(* spelling, sees it among the suggestions from the third character on: an  *)
(* address with a plain number once its street is begun; anything else as   *)
(* long as the text has no digit first and a blank after it, which would    *)
(* make it an address.  Two limits of the index remain: after a keystroke   *)
(* at which the last word can still become one of more than MaxExpansions   *)
(* words a record may be gone ("king s"), until the word is complete or     *)
(* narrows enough; and words the tokenizer does not keep as they are        *)
(* suggest nothing.                                                         *)
SuggestedWhileTyping ==
  /\ record.layer # "interpolation" /\ text \in Forms(record)
  /\ Len(FlattenSeq(Typed)) >= 3
  /\ IF record.layer = "address" /\ text = Name(record)
     THEN PlainNumber(record.number) /\ Len(Typed) > 1
     ELSE ~(Len(Typed) > 1 /\ StartsWithDigit(Typed[1]))
  /\ TokenizedAlike /\ WithinReach
  => Suggested(record, typed)

(* A query that suggests a record finds it when it is sent as a search, if  *)
(* its last word is complete: what the subject holds is also in the fields  *)
(* that search looks at, for every spelling.                                *)
SearchFindsSuggested ==
  /\ Range(typed) \subseteq Alphanumeric \cup {Space}
  /\ Suggested(record, typed)
  /\ Last(Typed) \in Range(Subject(record))
  => Found(record, typed)

(* The page says "Type at least 2 characters" (demo/app.js:100), and sends  *)
(* the query from the second on: a street whose name is typed so far should *)
(* then be suggested. The code does not keep this: nothing is suggested     *)
(* below MinAutocompleteQueryChars characters (README, section 5).          *)
TwoCharactersSuggest ==
  record.layer = "street" /\ text = Name(record) /\ Len(typed) >= 2
  => Suggested(record, typed)

(* A street whose name is typed out to the end is suggested: the reason to  *)
(* have autocomplete. The code does not keep this for names with the letter *)
(* U+0130, nor for those with a word the tokenizer drops (README, section   *)
(* 5).                                                                      *)
WholeNameSuggests ==
  record.layer = "street" /\ text = Name(record) /\ typed = text
  /\ Len(FlattenSeq(Typed)) >= 3 /\ ~(Len(Typed) > 1 /\ StartsWithDigit(Typed[1]))
  => Suggested(record, typed)
=============================================================================
