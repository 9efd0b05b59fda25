------------------------------ MODULE MessageText ------------------------------
(***************************************************************************)
(* A message's text on the screen: sensitive terms masked                  *)
(* (lib/sensitiveTerms.ts, lib/textMasking.ts, hooks/useMasking.ts), and   *)
(* the excerpt of a search result with its keyword marked                  *)
(* (lib/chatSearch.ts, components/ChatSearchPanel.tsx).  A text is a       *)
(* sequence of letters; 0 stands for a character that is no letter: a      *)
(* space, or a combining dot.                                              *)
(***************************************************************************)
EXTENDS Lists, Integers, Sequences, SequencesExt

CONSTANTS Alphabet,     \* letters, numbers from 1
          Lower,        \* toLowerCase of a letter, which may be longer
          MaxText,      \* length of a text
          Terms,        \* sequence of sensitive terms: [word, whole], in lower case
          Before, After \* letters an excerpt keeps, 30 and 90 in the code

ASSUME TextAssumption ==
  /\ Alphabet \subseteq Nat \ {0} /\ MaxText \in Nat
  /\ Lower \in [Alphabet \cup {0} -> Seq(Alphabet \cup {0}) \ {<<>>}] /\ Lower[0] = <<0>>
  /\ Before \in Nat /\ After \in Nat
  /\ Terms \in Seq([word : Seq(Alphabet) \ {<<>>}, whole : BOOLEAN])

Styles == {"asterisk", "block", "initial", "pipe"}
Star == 91
Block == 92
Bar == 93

ShownTexts == UNION {[1 .. n -> Alphabet \cup {0}] : n \in 0 .. MaxText}

VARIABLES
  original,         \* message.content
  maskOn, maskStyle,\* maskingEnabled, maskingStyle of the preferences
  keyword,          \* what is searched for
  display, excerpt  \* the message as shown, its segments in a search result

textVars == <<original, maskOn, maskStyle, keyword, display, excerpt>>

(***************************************************************************)
(* Occurrences                                                             *)
(***************************************************************************)
LowerCase(text) == FlattenSeq([i \in DOMAIN text |-> Lower[text[i]]])

(* No letter becomes longer in lower case.                                 *)
Level(text) == \A i \in DOMAIN text : Len(Lower[text[i]]) = 1

(* substring and slice, which stop at the ends of the text                 *)
Substring(text, first, last) ==
  SubSeq(text, IF first < 1 THEN 1 ELSE first, IF last > Len(text) THEN Len(text) ELSE last)

At(text, word, i) ==
  /\ i + Len(word) - 1 <= Len(text)
  /\ SubSeq(text, i, i + Len(word) - 1) = word

(* \b: a letter on one side only                                           *)
Boundary(text, i) ==
  (i > 1 /\ text[i - 1] # 0) # (i <= Len(text) /\ text[i] # 0)

Matches(text, term, i) ==
  /\ At(text, term.word, i)
  /\ term.whole => Boundary(text, i) /\ Boundary(text, i + Len(term.word))

(* The scan goes on where the last occurrence ended.                       *)
Clear(found, i) == found = <<>> \/ Last(found).last < i

(* Leftmost occurrences that do not overlap: the loop of findHighlights    *)
(* and both loops of findMatches, over the text in lower case              *)
Found(text, term) ==
  LET upTo[i \in 0 .. Len(text)] ==
        IF i = 0 THEN <<>>
        ELSE IF Clear(upTo[i - 1], i) /\ Matches(text, term, i)
          THEN Append(upTo[i - 1], [first |-> i, last |-> i + Len(term.word) - 1])
          ELSE upTo[i - 1]
  IN upTo[Len(text)]

(***************************************************************************)
(* Masks                                                                   *)
(***************************************************************************)
(* A match is put after those that begin where it does, or earlier.        *)
Inserted(sorted, m) ==
  LET early == {x \in ToSet(sorted) : x.first <= m.first}
  IN Filtered(sorted, early) \o <<m>> \o Filtered(sorted, ToSet(sorted) \ early)

(* findSensitiveTerms: every term's matches, sorted by where they begin.   *)
(* Their places are those in lower case.                                   *)
FindSensitiveTerms(text) ==
  LET lower   == LowerCase(text)
      matches == FlattenSeq([i \in DOMAIN Terms |-> Found(lower, Terms[i])])
      sorted[n \in 0 .. Len(matches)] ==
        IF n = 0 THEN <<>> ELSE Inserted(sorted[n - 1], matches[n])
  IN sorted[Len(matches)]

GenerateFixedMask(word, style) ==      \* a wrong GenerateMask: every mask has one length
  CASE style = "asterisk" -> <<Star, Star, Star>>
    [] style = "block"    -> <<Block, Block, Block>>
    [] style = "initial"  -> <<word[1], Star, Star>>
    [] style = "pipe"     -> <<Bar>> \o word \o <<Bar>>

GenerateMask(word, style) ==
  CASE style = "asterisk" -> [i \in DOMAIN word |-> Star]
    [] style = "block"    -> [i \in DOMAIN word |-> Block]
    [] style = "initial"  -> IF Len(word) <= 1 THEN <<Star>>
                             ELSE [i \in DOMAIN word |-> IF i = 1 THEN word[1] ELSE Star]
    [] style = "pipe"     -> <<Bar>> \o word \o <<Bar>>

(* maskText: the masks are put in from the left, at the places found in    *)
(* lower case; later positions move by what the earlier masks added.       *)
MaskText(text, style) ==
  LET found == FindSensitiveTerms(text)
      after[n \in 0 .. Len(found)] ==
        IF n = 0 THEN [text |-> text, offset |-> 0]
        ELSE LET before == after[n - 1]
                 m      == found[n]
                 mask   == GenerateMask(Substring(text, m.first, m.last), style)
                 first  == m.first + before.offset
                 last   == m.last + before.offset
             IN [text   |-> Substring(before.text, 1, first - 1) \o mask
                            \o Substring(before.text, last + 1, Len(before.text)),
                 offset |-> before.offset + Len(mask) - (m.last - m.first + 1)]
  IN after[Len(found)].text

(***************************************************************************)
(* Highlights                                                              *)
(***************************************************************************)
FindHighlights(text, word) ==
  IF word = <<>> THEN <<>>
  ELSE Found(LowerCase(text), [word |-> LowerCase(word), whole |-> FALSE])

Segment(text, first, last, on) ==
  IF first > last THEN <<>> ELSE <<[text |-> SubSeq(text, first, last), on |-> on]>>

SplitByHighlights(text, marks) ==
  LET upTo[n \in 0 .. Len(marks)] ==
        IF n = 0 THEN <<>>
        ELSE upTo[n - 1]
             \o Segment(text, IF n = 1 THEN 1 ELSE marks[n - 1].last + 1,
                        marks[n].first - 1, FALSE)
             \o Segment(text, marks[n].first, marks[n].last, TRUE)
  IN upTo[Len(marks)]
     \o Segment(text, IF marks = <<>> THEN 1 ELSE Last(marks).last + 1,
                Len(text), FALSE)

(* HighlightedSnippet: an excerpt around the first match, the matches that *)
(* fit into it moved to its start                                          *)
Snippet(text, word) ==
  LET marks == FindHighlights(text, word)
      start == IF marks = <<>> \/ marks[1].first <= Before THEN 1
                                                           ELSE marks[1].first - Before
      most  == IF marks = <<>> THEN Before + After ELSE marks[1].last + After
      end   == IF Len(text) < most THEN Len(text) ELSE most
      inside == Filtered(marks, {m \in ToSet(marks) : m.first >= start /\ m.last <= end})
  IN SplitByHighlights(SubSeq(text, start, end),
                       [i \in DOMAIN inside |-> [first |-> inside[i].first - start + 1,
                                                 last  |-> inside[i].last - start + 1]])

(***************************************************************************)
(* The message                                                             *)
(***************************************************************************)
Display(text, on, style) == IF on THEN MaskText(text, style) ELSE text

TextInit ==
  /\ original = <<>> /\ maskOn = FALSE /\ maskStyle = "asterisk" /\ keyword = <<>>
  /\ display = <<>> /\ excerpt = <<>>

ShowMessage(text) ==
  /\ original = <<>> /\ original' = text
  /\ display' = Display(text, maskOn, maskStyle)
  /\ excerpt' = Snippet(text, keyword)
  /\ UNCHANGED <<maskOn, maskStyle, keyword>>

SetMasking(on, style) ==
  /\ maskOn' = on /\ maskStyle' = style
  /\ display' = Display(original, on, style)
  /\ UNCHANGED <<original, keyword, excerpt>>

(* The keyword is trimmed before it is searched for.                       *)
SearchFor(word) ==
  /\ keyword = <<>> /\ keyword' = word
  /\ word[1] # 0 /\ Last(word) # 0
  /\ excerpt' = Snippet(original, word)
  /\ UNCHANGED <<original, maskOn, maskStyle, display>>

TextNext ==
  \/ \E text \in ShownTexts : ShowMessage(text)
  \/ \E on \in BOOLEAN, style \in Styles : SetMasking(on, style)
  \/ \E word \in {w \in ShownTexts : Len(w) \in 1 .. 2} : SearchFor(word)

(***************************************************************************)
(* Properties                                                              *)
(***************************************************************************)
(* The texts are of their shapes.                                          *)
TextTypeOK ==
  /\ original \in ShownTexts /\ keyword \in ShownTexts
  /\ maskOn \in BOOLEAN /\ maskStyle \in Styles
  /\ Range(display) \subseteq Alphabet \cup {0, Star, Block, Bar}

(* Masked with asterisks or blocks, a text that no letter of which is      *)
(* longer in lower case shows a mask exactly at the letters that belong to *)
(* an occurrence of a sensitive term in any case, and every other letter   *)
(* is where it was, though the masks of several terms, touching and        *)
(* overlapping, are put in one after the other.  (Another text is masked   *)
(* at the wrong letters.) (textMasking.ts:65-91,                           *)
(* sensitiveTerms.ts:86-110, 134-173)                                      *)
MaskCovers ==
  (maskOn /\ maskStyle \in {"asterisk", "block"} /\ Level(original)) =>
    /\ Len(display) = Len(original)
    /\ \A i \in DOMAIN original :
         LET lower == LowerCase(original)
             hit   == \E t \in DOMAIN Terms : \E m \in Range(Found(lower, Terms[t])) :
                        i \in m.first .. m.last
         IN display[i] = IF hit THEN (IF maskStyle = "block" THEN Block ELSE Star)
                                ELSE original[i]

(* Of such a text, the excerpt in a search result is a stretch; the marked *)
(* parts of it are the keyword in any case, no part that is not marked     *)
(* holds it whole, and when the message has the keyword, the excerpt shows *)
(* it marked (chatSearch.ts:69-110, ChatSearchPanel.tsx:30-46).            *)
ExcerptMarksKeyword ==
  Level(original) =>
    LET all   == FlattenSeq([i \in DOMAIN excerpt |-> excerpt[i].text])
        asked == LowerCase(keyword)
        text  == LowerCase(original)
    IN /\ \E i \in 1 .. Len(original) + 1 : At(original, all, i)
       /\ \A i \in DOMAIN excerpt :
            LET part == LowerCase(excerpt[i].text)
            IN IF excerpt[i].on THEN part = asked
               ELSE keyword # <<>> => ~\E j \in DOMAIN part : At(part, asked, j)
       /\ (keyword # <<>> /\ \E i \in DOMAIN text : At(text, asked, i)) =>
            \E i \in DOMAIN excerpt : excerpt[i].on

(* Masks and highlights are put where they belong, and nowhere else.       *)
TextsAreMarkedRight == MaskCovers /\ ExcerptMarksKeyword

=============================================================================
