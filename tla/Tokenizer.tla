----------------------------- MODULE Tokenizer -----------------------------
(***************************************************************************)
(* The byte-level BPE tokenizer of text/tokenizer.cpp: loading a           *)
(* vocabulary, splitting text into pieces, merging, special tokens, and    *)
(* the way back.  Text is a sequence of characters of a small alphabet and *)
(* a token the sequence of characters it spells.                           *)
(*                                                                         *)
(* Its file is JSON, for which the program has two readers: json::parse    *)
(* builds a tree (core/json.cpp), TokenizerScanner walks the text and      *)
(* keeps only what its callbacks read (text/tokenizer_json_scanner.h).  A  *)
(* document is a sequence of symbols: the punctuation, a blank, and inside *)
(* strings a backslash, plain characters and whole \u escapes by the kind  *)
(* of code unit they name.  A number or a literal is one symbol.           *)
(***************************************************************************)
EXTENDS Integers, Sequences, FiniteSets, SequencesExt, FiniteSetsExt

-----------------------------------------------------------------------------
(* The JSON readers.                                                       *)

CONSTANTS
  Beginnings,    \* the documents to begin with: empty, or a part of a longer one
  Growth,        \* symbols added to one
  MaxDepth       \* kMaxDepth: how deep either reader lets values nest

Quote == "q"
Backslash == "b"
Escapable == {"n", Quote, Backslash}         \* what may follow a backslash
UnitHigh == "uH"                             \* \uD800 .. \uDBFF
UnitLow == "uL"                              \* \uDC00 .. \uDFFF
UnitPlain == "uP"                            \* \u000a, of every other unit
Units == {UnitHigh, UnitLow, UnitPlain}
Symbols == {"{", "}", "[", "]", ":", ",", " ", "1", Quote, Backslash, "n"} \cup Units

\* What a reader returns: where it stopped and what it read, or that it threw.
Failed(at) == [ok |-> FALSE, at |-> at, value |-> <<>>]
Read(at, value) == [ok |-> TRUE, at |-> at, value |-> value]

At(doc, p) == IF p <= Len(doc) THEN doc[p] ELSE "end"

SkipBlanks(doc, p) == CHOOSE q \in p .. Len(doc) + 1 :
  (\A r \in p .. q - 1 : doc[r] = " ") /\ At(doc, q) # " "

\* The character an escaped one stands for; plain characters stand for themselves.
Unescaped(c) == IF c = "n" THEN "newline" ELSE c

-----------------------------------------------------------------------------
(* json::parse.                                                            *)

\* The \u escapes of a string: a high unit takes a low one with it, and a unit without its
\* partner becomes U+FFFD.  Returns the code point and the next position.
TreeUnit(doc, p) ==
  IF doc[p] = UnitHigh
  THEN IF At(doc, p + 1) = UnitLow THEN <<"pair", p + 2>> ELSE <<"fffd", p + 1>>
  ELSE IF doc[p] = UnitLow THEN <<"fffd", p + 1>> ELSE <<"newline", p + 1>>

RECURSIVE TreeChars(_, _, _)
TreeChars(doc, p, out) ==
  LET c == At(doc, p) IN
  IF c = "end" THEN Failed(p)
  ELSE IF c = Quote THEN Read(p + 1, out)
  ELSE IF c \in Units
  THEN LET unit == TreeUnit(doc, p) IN TreeChars(doc, unit[2], Append(out, unit[1]))
  ELSE IF c # Backslash THEN TreeChars(doc, p + 1, Append(out, c))
  ELSE IF At(doc, p + 1) \in Escapable
  THEN TreeChars(doc, p + 2, Append(out, Unescaped(doc[p + 1])))
  ELSE Failed(p + 1)

TreeString(doc, p) == IF At(doc, p) = Quote THEN TreeChars(doc, p + 1, <<>>) ELSE Failed(p)

\* obj.emplace keeps the first value of a key.
WithMember(members, key, value) ==
  IF \E i \in DOMAIN members : members[i][1] = key THEN members
  ELSE Append(members, <<key, value>>)

RECURSIVE TreeValue(_, _, _), TreeMembers(_, _, _, _), TreeElements(_, _, _, _)
TreeValue(doc, p, depth) ==
  IF depth > MaxDepth THEN Failed(p)
  ELSE CASE At(doc, p) = "{" ->
              LET q == SkipBlanks(doc, p + 1)
              IN IF At(doc, q) = "}" THEN Read(q + 1, <<"object", <<>>>>)
                 ELSE TreeMembers(doc, q, depth, <<>>)
         [] At(doc, p) = "[" ->
              LET q == SkipBlanks(doc, p + 1)
              IN IF At(doc, q) = "]" THEN Read(q + 1, <<"array", <<>>>>)
                 ELSE TreeElements(doc, q, depth, <<>>)
         [] At(doc, p) = Quote ->
              LET s == TreeString(doc, p)
              IN IF s.ok THEN Read(s.at, <<"string", s.value>>) ELSE s
         [] At(doc, p) = "1" -> Read(p + 1, <<"scalar", doc[p]>>)
         [] OTHER -> Failed(p)

TreeMembers(doc, p, depth, members) ==
  LET key == TreeString(doc, SkipBlanks(doc, p)) IN
  IF ~key.ok THEN key
  ELSE LET colon == SkipBlanks(doc, key.at) IN
  IF At(doc, colon) # ":" THEN Failed(colon)
  ELSE LET value == TreeValue(doc, SkipBlanks(doc, colon + 1), depth + 1) IN
  IF ~value.ok THEN value
  ELSE LET q == SkipBlanks(doc, value.at)
           all == WithMember(members, key.value, value.value) IN
  CASE At(doc, q) = "}" -> Read(q + 1, <<"object", all>>)
    [] At(doc, q) = "," -> TreeMembers(doc, q + 1, depth, all)
    [] OTHER -> Failed(q)

TreeElements(doc, p, depth, elements) ==
  LET value == TreeValue(doc, SkipBlanks(doc, p), depth + 1) IN
  IF ~value.ok THEN value
  ELSE LET q == SkipBlanks(doc, value.at)
           all == Append(elements, value.value) IN
  CASE At(doc, q) = "]" -> Read(q + 1, <<"array", all>>)
    [] At(doc, q) = "," -> TreeElements(doc, q + 1, depth, all)
    [] OTHER -> Failed(q)

\* Nothing but blanks may follow a document, in either reader.
Complete(doc, reading) ==
  IF reading.ok /\ SkipBlanks(doc, reading.at) # Len(doc) + 1 THEN Failed(reading.at) ELSE reading

Parse(doc) == Complete(doc, TreeValue(doc, SkipBlanks(doc, 1), 0))

\* json::stringify writes members and elements without blanks and escapes quotes, backslashes
\* and control characters; other characters go out as the bytes they are.
WrittenChar(c) ==
  CASE c \in {Quote, Backslash} -> <<Backslash, c>>
    [] c = "newline" -> <<UnitPlain>>
    [] OTHER -> <<c>>

RECURSIVE Stringify(_)
Stringify(value) ==
  LET WrittenString(s) == <<Quote>> \o FlattenSeq([i \in DOMAIN s |-> WrittenChar(s[i])]) \o <<Quote>>
      Listed(parts) == FlattenSeq([i \in DOMAIN parts |->
                                     IF i = 1 THEN parts[i] ELSE <<",">> \o parts[i]])
      list == value[2]
  IN CASE value[1] = "scalar" -> <<value[2]>>
       [] value[1] = "string" -> WrittenString(list)
       [] value[1] = "array" -> <<"[">> \o Listed([i \in DOMAIN list |-> Stringify(list[i])]) \o <<"]">>
       [] value[1] = "object" ->
            <<"{">> \o Listed([i \in DOMAIN list |->
                                 WrittenString(list[i][1]) \o <<":">> \o Stringify(list[i][2])]) \o <<"}">>

-----------------------------------------------------------------------------
(* TokenizerScanner.                                                       *)

DropsNextUnit(doc, p) ==  \* mistake: the escape after a high unit is not given back
  CASE doc[p] = UnitHigh /\ At(doc, p + 1) \in Units ->
         <<IF doc[p + 1] = UnitLow THEN "pair" ELSE "fffd", p + 2>>
    [] doc[p] \in {UnitHigh, UnitLow} -> <<"fffd", p + 1>>
    [] OTHER -> <<"newline", p + 1>>

\* The same escapes, read with a saved position: after a high unit the next escape is read and
\* given back if it is no low one.
ScanUnit(doc, p) ==
  CASE doc[p] = UnitHigh ->
         IF At(doc, p + 1) \in Units
         THEN LET save == p + 1
                  lo == doc[p + 1]
              IN IF lo = UnitLow THEN <<"pair", p + 2>> ELSE <<"fffd", save>>
         ELSE <<"fffd", p + 1>>
    [] doc[p] = UnitLow -> <<"fffd", p + 1>>
    [] OTHER -> <<"newline", p + 1>>

\* string(): plain characters are appended in runs, each when something ends it.
RECURSIVE ScanChars(_, _, _, _)
ScanChars(doc, p, run, out) ==
  LET c == At(doc, p)
      appended == out \o SubSeq(doc, run, p - 1)
  IN CASE c = "end" -> Failed(p)
       [] c = Quote -> Read(p + 1, appended)
       [] c \in Units ->
            LET unit == ScanUnit(doc, p)
            IN ScanChars(doc, unit[2], unit[2], Append(appended, unit[1]))
       [] c = Backslash ->
            IF At(doc, p + 1) \in Escapable
            THEN ScanChars(doc, p + 2, p + 2, Append(appended, Unescaped(doc[p + 1])))
            ELSE Failed(p + 1)
       [] OTHER -> ScanChars(doc, p + 1, run, out)

ScanString(doc, p) ==
  LET q == SkipBlanks(doc, p)
  IN IF At(doc, q) = Quote THEN ScanChars(doc, q + 1, q + 1, <<>>) ELSE Failed(q)

\* skip_string(): an escape is any character after a backslash, and hides a quote.
RECURSIVE SkipChars(_, _)
SkipChars(doc, p) ==
  CASE At(doc, p) = "end" -> Failed(p)
    [] At(doc, p) = Quote -> Read(p + 1, <<>>)
    [] At(doc, p) = Backslash -> IF p + 1 > Len(doc) THEN Failed(p + 1) ELSE SkipChars(doc, p + 2)
    [] OTHER -> SkipChars(doc, p + 1)

SkipString(doc, p) ==
  LET q == SkipBlanks(doc, p)
  IN IF At(doc, q) = Quote THEN SkipChars(doc, q + 1) ELSE Failed(q)

\* skip_value() walks a value of any shape and keeps nothing.
RECURSIVE SkipValue(_, _, _), SkipMembers(_, _, _), SkipElements(_, _, _)
SkipValue(doc, from, depth) ==
  LET p == SkipBlanks(doc, from)
      q == SkipBlanks(doc, p + 1)
  IN CASE depth > MaxDepth -> Failed(from)
       [] depth <= MaxDepth /\ At(doc, p) = "{" ->
            IF At(doc, q) = "}" THEN Read(q + 1, <<>>) ELSE SkipMembers(doc, q, depth)
       [] depth <= MaxDepth /\ At(doc, p) = "[" ->
            IF At(doc, q) = "]" THEN Read(q + 1, <<>>) ELSE SkipElements(doc, q, depth)
       [] depth <= MaxDepth /\ At(doc, p) = Quote -> SkipString(doc, p)
       [] depth <= MaxDepth /\ At(doc, p) = "1" -> Read(p + 1, <<>>)
       [] OTHER -> Failed(p)

SkipMembers(doc, p, depth) ==
  LET key == SkipString(doc, p)
      colon == SkipBlanks(doc, key.at)
      value == SkipValue(doc, colon + 1, depth + 1)
      q == SkipBlanks(doc, value.at)
  IN CASE ~key.ok -> key
       [] key.ok /\ At(doc, colon) # ":" -> Failed(colon)
       [] key.ok /\ At(doc, colon) = ":" ->
            CASE ~value.ok -> value
              [] value.ok /\ At(doc, q) = "}" -> Read(q + 1, <<>>)
              [] value.ok /\ At(doc, q) = "," -> SkipMembers(doc, q + 1, depth)
              [] OTHER -> Failed(q)

SkipElements(doc, p, depth) ==
  LET value == SkipValue(doc, p, depth + 1)
      q == SkipBlanks(doc, value.at)
  IN CASE ~value.ok -> value
       [] value.ok /\ At(doc, q) = "]" -> Read(q + 1, <<>>)
       [] value.ok /\ At(doc, q) = "," -> SkipElements(doc, q + 1, depth)
       [] OTHER -> Failed(q)

\* object() and array() with callbacks that descend into every value they are given; loaders
\* keep the first value of a key.  These two know no depth limit of their own.
RECURSIVE ScanValue(_, _), ScanMembers(_, _, _), ScanElements(_, _, _)
ScanValue(doc, from) ==
  LET p == SkipBlanks(doc, from)
      q == SkipBlanks(doc, p + 1)
  IN CASE At(doc, p) = "{" ->
            IF At(doc, q) = "}" THEN Read(q + 1, <<"object", <<>>>>) ELSE ScanMembers(doc, q, <<>>)
       [] At(doc, p) = "[" ->
            IF At(doc, q) = "]" THEN Read(q + 1, <<"array", <<>>>>) ELSE ScanElements(doc, q, <<>>)
       [] At(doc, p) = Quote ->
            LET s == ScanString(doc, p) IN IF s.ok THEN Read(s.at, <<"string", s.value>>) ELSE s
       [] At(doc, p) = "1" -> Read(p + 1, <<"scalar", doc[p]>>)
       [] OTHER -> Failed(p)

ScanMembers(doc, p, members) ==
  LET key == ScanString(doc, p)
      colon == SkipBlanks(doc, key.at)
      value == ScanValue(doc, colon + 1)
      q == SkipBlanks(doc, value.at)
      all == WithMember(members, key.value, value.value)
  IN CASE ~key.ok -> key
       [] key.ok /\ At(doc, colon) # ":" -> Failed(colon)
       [] key.ok /\ At(doc, colon) = ":" ->
            CASE ~value.ok -> value
              [] value.ok /\ At(doc, q) = "}" -> Read(q + 1, <<"object", all>>)
              [] value.ok /\ At(doc, q) = "," -> ScanMembers(doc, q + 1, all)
              [] OTHER -> Failed(q)

ScanElements(doc, p, elements) ==
  LET value == ScanValue(doc, p)
      q == SkipBlanks(doc, value.at)
      all == Append(elements, value.value)
  IN CASE ~value.ok -> value
       [] value.ok /\ At(doc, q) = "]" -> Read(q + 1, <<"array", all>>)
       [] value.ok /\ At(doc, q) = "," -> ScanElements(doc, q + 1, all)
       [] OTHER -> Failed(q)

Scan(doc) == Complete(doc, ScanValue(doc, 1))
Skip(doc) == Complete(doc, SkipValue(doc, 1, 0))

-----------------------------------------------------------------------------
(* A document grows symbol by symbol for as long as the tree parser only   *)
(* misses its end.                                                         *)

VARIABLES doc, room

jsonVars == <<doc, room>>

JsonInit == doc \in Beginnings /\ room = Growth
JsonIdle == doc = <<>> /\ room = 0

GrowDocument ==
  /\ room > 0
  /\ room' = room - 1
  /\ LET tree == Parse(doc) IN tree.ok \/ tree.at > Len(doc)
  /\ \E c \in Symbols : doc' = Append(doc, c)

-----------------------------------------------------------------------------
(* Properties.                                                             *)

\* Both readers agree on every document: what the tree holds is what the scanner's callbacks see,
\* a skipped value ends where the parsed one does, and a document is refused by all or accepted by
\* all, but for an unknown escape, which the walk past a string does not look at; what the
\* writer prints is read back as the value it was given.
ReadersAgree ==
  LET tree == Parse(doc)
      scan == Scan(doc)
      skip == Skip(doc)
  IN /\ tree.ok => scan = tree /\ skip.ok /\ skip.at = tree.at
     /\ scan.ok /\ skip.ok => tree.ok
     /\ tree.ok => Parse(Stringify(tree.value)).value = tree.value

-----------------------------------------------------------------------------
(* The tokenizer.                                                          *)

CONSTANTS
  Letters, Numbers, Newlines, Blanks,   \* \p{L}, \p{N}, [\r\n] and the rest of \s
  Marks,                                \* everything else
  Space, Apostrophe,                    \* one of Blanks, one of Marks
  Contractions,                         \* contractions without their apostrophe
  Shifted,                              \* the symbols that stand for bytes which do not print
  IdSlack,                              \* ids a file may leave unused, 1024
  Samples,                              \* what to encode: a tokenizer.json file, how to load it, a text
  H3Tokens,                             \* the special tokens of the released H3 tokenizer
  FirstH3Id                             \* the id of the first of them

Spaces == Newlines \cup Blanks
\* byte_to_unicode: text is merged as symbols that all print.
ByteSymbol(c) == IF c \in DOMAIN Shifted THEN Shifted[c] ELSE c
Mapped(piece) == [i \in DOMAIN piece |-> ByteSymbol(piece[i])]

-----------------------------------------------------------------------------
(* Splitting: Tokenizer::pre_tokenize, one attempt per alternative of the  *)
(* pattern.  Positions are 1 .. Len + 1, a piece ends before its end.      *)

CharIn(text, i, class) == i <= Len(text) /\ text[i] \in class

\* Where the run of class that begins at i ends.
RunEnd(text, i, class) ==
  Min({k \in i .. Len(text) + 1 : ~CharIn(text, k, class)})

\* The last position before the end of a run of spaces that follows a newline, or 0.
NewlineEnd(text, i) ==
  Max({0} \cup {k + 1 : k \in {j \in i .. RunEnd(text, i, Spaces) - 1 : text[j] \in Newlines}})

\* match_contraction tries the suffixes of one letter first.
ContractionEnd(text, i) ==
  LET Follows(s) == /\ i + Len(s) <= Len(text)
                    /\ SubSeq(text, i + 1, i + Len(s)) = s
      fits == {s \in Contractions : Follows(s)}
  IN IF ~CharIn(text, i, {Apostrophe}) \/ fits = {} THEN 0
     ELSE i + 1 + Min({Len(s) : s \in fits})

\* A lead character is taken only if a letter follows it.
WordEnd(text, i) ==
  LET j == IF text[i] \notin Letters \cup Numbers \cup Newlines /\ CharIn(text, i + 1, Letters)
           THEN i + 1 ELSE i
      end == RunEnd(text, j, Letters)
  IN IF end > j THEN end ELSE 0

MarksEnd(text, i) ==
  LET j == IF text[i] = Space THEN i + 1 ELSE i
      end == RunEnd(text, j, Marks)
  IN IF end > j THEN RunEnd(text, end, Newlines) ELSE 0

TakesEverySpace(text, i) ==  \* mistake: the spaces before a word are taken whole
  IF RunEnd(text, i, Spaces) > i THEN RunEnd(text, i, Spaces) ELSE 0

\* Spaces that text follows leave the last of them to it, unless there is only one.
SpacesEnd(text, i) ==
  LET end == RunEnd(text, i, Spaces)
  IN IF end = i THEN 0
     ELSE IF end <= Len(text) /\ end - 1 > i THEN end - 1 ELSE end

\* The first alternative that matches at i.
PieceEnd(text, i) ==
  CASE ContractionEnd(text, i) # 0 -> ContractionEnd(text, i)
    [] OTHER -> CASE WordEnd(text, i) # 0 -> WordEnd(text, i)
    [] OTHER -> CASE text[i] \in Numbers -> i + 1
    [] OTHER -> CASE MarksEnd(text, i) # 0 -> MarksEnd(text, i)
    [] OTHER -> CASE NewlineEnd(text, i) # 0 -> NewlineEnd(text, i)
    [] OTHER -> CASE SpacesEnd(text, i) # 0 -> SpacesEnd(text, i)
    [] OTHER -> i + 1

PreTokenize(text) ==
  LET from[i \in 1 .. Len(text) + 1] ==
        IF i > Len(text) THEN <<>>
        ELSE <<SubSeq(text, i, PieceEnd(text, i) - 1)>> \o from[PieceEnd(text, i)]
  IN from[1]

-----------------------------------------------------------------------------
(* Merging: Tokenizer::bpe.                                                *)

\* The rank of a pair, Unmerged if it is not in the table.
Unmerged == 1000
RankOf(ranks, left, right) ==
  Min({Unmerged} \cup {r[2] : r \in {q \in ranks : q[1] = <<left, right>>}})

\* The leftmost of the pairs with the lowest rank is merged, and only that one, until none is left.
Bpe(tokenizer, piece) ==
  LET Rank(symbols, i) == RankOf(tokenizer.ranks, symbols[i], symbols[i + 1])
      merged[symbols \in Seq(Seq(STRING))] ==
        LET pairs == 1 .. Len(symbols) - 1
            best == Min({Unmerged} \cup {Rank(symbols, i) : i \in pairs})
            at == Min({i \in pairs : Rank(symbols, i) = best})
        IN IF best = Unmerged THEN symbols
           ELSE merged[SubSeq(symbols, 1, at - 1) \o <<symbols[at] \o symbols[at + 1]>>
                         \o SubSeq(symbols, at + 2, Len(symbols))]
  IN IF tokenizer.ignoreMerges /\ piece \in DOMAIN tokenizer.vocab THEN <<piece>>
     ELSE merged[[i \in DOMAIN piece |-> <<piece[i]>>]]

-----------------------------------------------------------------------------
(* Loading: Tokenizer::load_json.  A file is its model (vocabulary entries *)
(* and merges in file order) and its added tokens, before or after it.     *)

Refused == [refused |-> TRUE]

RanksOfLines(merges) ==  \* mistake: a merge that is passed over takes a rank, a repeated one its last
  {<<merges[i], i - 1>> : i \in {j \in DOMAIN merges :
     Len(merges[j]) = 2 /\ \A k \in j + 1 .. Len(merges) : merges[k] # merges[j]}}

\* vocab_.emplace keeps the first id of a token; an added token replaces it.
VocabOf(entries) ==
  [t \in {entries[i][1] : i \in DOMAIN entries} |->
     entries[Min({i \in DOMAIN entries : entries[i][1] = t})][2]]

\* A merge that cannot be read as a pair is passed over and takes no rank; a repeated one takes a
\* rank it does not use.
RanksOf(merges) ==
  LET pairs == SelectSeq(merges, LAMBDA m : Len(m) = 2)
  IN {<<pairs[i], i - 1>> : i \in {j \in DOMAIN pairs : \A k \in 1 .. j - 1 : pairs[k] # pairs[j]}}

AsListed(added) == added  \* mistake: added tokens stay in file order

LongestFirst(added) == SortSeq(added, LAMBDA a, b : Len(a[1]) > Len(b[1]))

\* Ids outside 0 .. 4 * entries + slack are refused, the largest one even if its token has another.
\* An id two tokens share belongs to whichever the hash table yields last; files give it to one.
LoadJson(file) ==
  LET base == VocabOf(file.vocab)
      added == SelectSeq(file.added, LAMBDA e : Len(e) = 2)   \* the others lack an id or a text
      contents == {added[i][1] : i \in DOMAIN added}
      vocab == [t \in DOMAIN base \cup contents |->
                  IF t \in contents
                  THEN added[Max({i \in DOMAIN added : added[i][1] = t})][2] ELSE base[t]]
      declared == {-1} \cup {file.vocab[i][2] : i \in DOMAIN file.vocab}
                  \cup {added[i][2] : i \in DOMAIN added}
      limit == 4 * Cardinality(DOMAIN vocab) + IdSlack
      maxId == Max(declared)
  IN IF (\E t \in DOMAIN vocab : vocab[t] < 0 \/ vocab[t] > limit) \/ maxId > limit THEN Refused
     ELSE [vocab |-> vocab,
           texts |-> [id \in 0 .. maxId |->
                        IF \E t \in DOMAIN vocab : vocab[t] = id
                        THEN CHOOSE t \in DOMAIN vocab : vocab[t] = id ELSE <<>>],
           ranks |-> RanksOf(file.merges), added |-> LongestFirst(added),
           ignoreMerges |-> file.ignoreMerges, h3 |-> FALSE]

\* enable_h3_special_tokens: refused, and nothing changed, if a token or an id is taken otherwise.
EnableH3(tokenizer) ==
  LET IdOf(i) == FirstH3Id + i - 1
      Conflict(token, id) == \E i \in DOMAIN H3Tokens : (token = H3Tokens[i]) # (id = IdOf(i))
      taken == {<<t, tokenizer.vocab[t]>> : t \in DOMAIN tokenizer.vocab}
               \cup Range(tokenizer.added)
      missing == SelectSeq([i \in DOMAIN H3Tokens |-> <<H3Tokens[i], IdOf(i)>>],
                           LAMBDA e : \A j \in DOMAIN tokenizer.added : tokenizer.added[j][1] # e[1])
      ids == {IdOf(i) : i \in DOMAIN H3Tokens}
  IN IF tokenizer.h3 THEN tokenizer
     ELSE IF \E e \in taken : Conflict(e[1], e[2]) THEN Refused
     ELSE [tokenizer EXCEPT
             !.vocab = [t \in DOMAIN @ \cup Range(H3Tokens) |->
                          IF t \in Range(H3Tokens)
                          THEN IdOf(CHOOSE i \in DOMAIN H3Tokens : H3Tokens[i] = t) ELSE @[t]],
             !.texts = [id \in DOMAIN @ \cup 0 .. Max(ids) |->
                          IF id \in ids THEN H3Tokens[id - FirstH3Id + 1]
                          ELSE IF id \in DOMAIN @ THEN @[id] ELSE <<>>],
             !.added = LongestFirst(@ \o missing), !.h3 = TRUE]

-----------------------------------------------------------------------------
(* Tokenizer::encode and decode.                                           *)

\* Where token first occurs in text at or after i, or 0.
Find(text, token, i) ==
  Min({Len(text) + 1} \cup {k \in i .. Len(text) : /\ k + Len(token) - 1 <= Len(text)
                                                 /\ SubSeq(text, k, k + Len(token) - 1) = token})

\* The added token that occurs first, and of those the first in the list.
Hit(tokenizer, text, i, special) ==
  LET added == tokenizer.added
      Place(j) == Find(text, added[j][1], i)
      first == Min({Len(text) + 1} \cup {Place(j) : j \in DOMAIN added})
  IN IF ~special \/ first > Len(text) THEN <<>>
     ELSE <<first, added[Min({j \in DOMAIN added : Place(j) = first})]>>

\* A symbol that is in no vocabulary is dropped.
EncodeChunk(tokenizer, chunk) ==
  LET pieces == PreTokenize(chunk)
      symbols == FlattenSeq([i \in DOMAIN pieces |-> Bpe(tokenizer, Mapped(pieces[i]))])
      known == SelectSeq(symbols, LAMBDA s : s \in DOMAIN tokenizer.vocab)
  IN [i \in DOMAIN known |-> tokenizer.vocab[known[i]]]

Encode(tokenizer, text, special) ==
  LET from[i \in 1 .. Len(text) + 1] ==
        LET hit == Hit(tokenizer, text, i, special)
        IN IF hit = <<>> THEN EncodeChunk(tokenizer, SubSeq(text, i, Len(text)))
           ELSE EncodeChunk(tokenizer, SubSeq(text, i, hit[1] - 1))
                  \o <<hit[2][2]>> \o from[hit[1] + Len(hit[2][1])]
  IN from[1]

\* An added token is the text it stands for, the others are symbols of bytes.
Decode(tokenizer, ids) ==
  LET AddedAs(id) == {i \in DOMAIN tokenizer.added : tokenizer.added[i][2] = id}
      Byte(symbol) ==
        IF symbol \in Range(Shifted) THEN <<CHOOSE c \in DOMAIN Shifted : Shifted[c] = symbol>>
        ELSE IF symbol \in DOMAIN Shifted THEN <<>> ELSE <<symbol>>
      Text(id) ==
        CASE AddedAs(id) # {} -> tokenizer.added[Min(AddedAs(id))][1]
          [] AddedAs(id) = {} /\ id \in DOMAIN tokenizer.texts ->
               FlattenSeq([i \in DOMAIN tokenizer.texts[id] |-> Byte(tokenizer.texts[id][i])])
          [] OTHER -> <<>>
  IN FlattenSeq([i \in DOMAIN ids |-> Text(ids[i])])

-----------------------------------------------------------------------------
VARIABLE sample   \* one of Samples, and what encode made of it

\* s.h3: enable_h3_special_tokens was called; s.special: encode may take added tokens.
TokenizerInit ==
  \E s \in Samples :
    sample = [file |-> s.file, h3 |-> s.h3, special |-> s.special, text |-> s.text,
              stage |-> "pending", ids |-> <<>>]

TokenizerIdle == sample = [stage |-> "none"]

TokenizerOf(file, h3) ==
  LET loaded == LoadJson(file) IN IF h3 /\ loaded # Refused THEN EnableH3(loaded) ELSE loaded

EncodeSample ==
  LET tokenizer == TokenizerOf(sample.file, sample.h3) IN
  /\ sample.stage = "pending"
  /\ sample' = IF tokenizer = Refused THEN [sample EXCEPT !.stage = "refused"]
               ELSE [sample EXCEPT !.stage = "encoded",
                                   !.ids = Encode(tokenizer, sample.text, sample.special)]

-----------------------------------------------------------------------------
(* Properties.                                                             *)

\* The seven alternatives of the pattern in tokenizer_contract.cpp, as the texts each matches.
AllIn(t, class) == \A i \in DOMAIN t : t[i] \in class
Matches(alternative, t, next) ==
  CASE alternative = 1 -> t # <<>> /\ t[1] = Apostrophe /\ Tail(t) \in Contractions
    [] alternative = 2 ->
         \/ t # <<>> /\ AllIn(t, Letters)
         \/ Len(t) > 1 /\ t[1] \notin Letters \cup Numbers \cup Newlines /\ AllIn(Tail(t), Letters)
    [] alternative = 3 -> Len(t) = 1 /\ t[1] \in Numbers
    [] alternative = 4 -> \E i \in 0 .. 1, j \in 1 .. Len(t) :
         /\ i < j /\ AllIn(SubSeq(t, 1, i), {Space})
         /\ AllIn(SubSeq(t, i + 1, j), Marks) /\ AllIn(SubSeq(t, j + 1, Len(t)), Newlines)
    [] alternative = 5 -> t # <<>> /\ AllIn(t, Spaces) /\ t[Len(t)] \in Newlines
    [] alternative = 6 -> t # <<>> /\ AllIn(t, Spaces) /\ next \in Spaces \cup {"end"}
    [] alternative = 7 -> t # <<>> /\ AllIn(t, Spaces)

\* A regular expression takes its first alternative that matches, and of that the longest match.
PatternEnd(text, i) ==
  LET Ends(alternative) ==
        {e \in i + 1 .. Len(text) + 1 :
           Matches(alternative, SubSeq(text, i, e - 1), IF e > Len(text) THEN "end" ELSE text[e])}
  IN Max(Ends(Min({a \in 1 .. 7 : Ends(a) # {}})))

\* The reference merge: every merge of the table in the order of its rank, at every place.
ReferenceBpe(merges, piece) ==
  LET Everywhere(symbols, pair) ==
        LET from[i \in 1 .. Len(symbols) + 1] ==
              IF i > Len(symbols) THEN <<>>
              ELSE IF i < Len(symbols) /\ <<symbols[i], symbols[i + 1]>> = pair
              THEN <<symbols[i] \o symbols[i + 1]>> \o from[i + 2]
              ELSE <<symbols[i]>> \o from[i + 1]
        IN from[1]
  IN FoldLeft(Everywhere, [i \in DOMAIN piece |-> <<piece[i]>>], SelectSeq(merges, LAMBDA m : Len(m) = 2))

\* Every text is split as the pattern of the vocabulary splits it and merged as its table says, with
\* special tokens kept whole where they are allowed; decoding the ids gives the text back; and H3's
\* tokens have their ids in every vocabulary that did not refuse them.
EncodesAsTheReference ==
  LET tokenizer == TokenizerOf(sample.file, sample.h3)
      text == sample.text
      pieces == PreTokenize(text)
      words == [i \in DOMAIN pieces |-> Mapped(pieces[i])]
      expected == FlattenSeq([i \in DOMAIN words |->
        LET symbols == IF sample.file.ignoreMerges /\ words[i] \in DOMAIN tokenizer.vocab
                       THEN <<words[i]>> ELSE ReferenceBpe(sample.file.merges, words[i])
        IN [j \in DOMAIN symbols |-> tokenizer.vocab[symbols[j]]]])
      Holds(token) == Find(text, token, 1) <= Len(text)
      used == IF sample.special THEN tokenizer.added ELSE <<>>
  IN sample.stage = "encoded" =>
       /\ \A i \in 1 .. Len(text) : PieceEnd(text, i) = PatternEnd(text, i)
       /\ FlattenSeq(pieces) = text
       /\ Decode(tokenizer, sample.ids) = text
       /\ (\A j \in DOMAIN used : ~Holds(used[j][1])) => sample.ids = expected
       /\ \A j \in DOMAIN used : used[j][1] = text => sample.ids = <<used[j][2]>>
       /\ sample.h3 => \A j \in DOMAIN H3Tokens :
            \A t \in DOMAIN tokenizer.vocab :
              (tokenizer.vocab[t] = FirstH3Id + j - 1) = (t = H3Tokens[j])
=============================================================================
