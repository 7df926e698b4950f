--------------------------- MODULE HistorySearch ---------------------------
(***************************************************************************)
(* Full-text search in terminal histories (TerminalSessionService,         *)
(* _search_history_snapshots and below): where a query occurs in an        *)
(* output, what each occurrence looks like (whole word, log marker, tag in *)
(* brackets, and the white space between a tag and what follows it), and   *)
(* the relevance order built from these counts.                            *)
(*                                                                         *)
(* A text is a sequence of characters. Offsets count from 0, as in the     *)
(* code; the slice text[i:i+1] is At(text, i), empty past the end. The     *)
(* outputs grow by chunks as the shells of the sessions write.             *)
(***************************************************************************)
EXTENDS Integers, Sequences, FiniteSets, FiniteSetsExt, SequencesExt

CONSTANTS
  Sessions,     \* session ids, numbers: they break ties in the order
  Chunks,       \* [Sessions -> a set of chunks for each of the writes of its shell]
  StampOf,      \* [Sessions -> snapshot_at]
  Query,        \* the query, stripped and not empty
  WordChars,    \* the characters that _is_word_char accepts
  LowerOf,      \* [characters -> their str.lower(), of one or more characters]
  SnippetLimit, SnippetContext

ASSUME SearchAssumption ==
  /\ Sessions \subseteq Nat
  /\ Query # <<>>
  /\ SnippetLimit \in Nat \ {0} /\ SnippetContext \in Nat

VARIABLES output, written

vars == <<output, written>>

-----------------------------------------------------------------------------
(***************************************************************************)
(* Characters and slices.                                                  *)
(***************************************************************************)
n == Len(Query)

At(text, i) == IF 0 <= i /\ i < Len(text) THEN text[i + 1] ELSE ""
IsSpace(c) == c \in {" ", "\t", "\n", "\f", "\r"}

\* Seeded fault: capitals are not word characters.
IsWordCharLower(c) == c \in WordChars /\ LowerOf[c] = <<c>>

IsWordChar(c) == c \in WordChars
SpaceOrEnd(text, i) == At(text, i) = "" \/ IsSpace(At(text, i))
ColonAt(text, i) == At(text, i) = ":"
DashAt(text, i) == At(text, i) = " " /\ At(text, i + 1) = "-"
LineStart(text, i) == i = 0 \/ At(text, i - 1) = "\n"

Lower(text) == FlattenSeq([i \in DOMAIN text |-> LowerOf[text[i]]])

Occurrences(low, q) ==
  {i \in 0 .. Len(low) - Len(q) : SubSeq(low, i + 1, i + Len(q)) = q}

\* Seeded fault: the scan goes on one character after a match.
ScanStepOverlapping(q) == 1

\* How far the scan moves past a match.
ScanStep(q) == Max({1, Len(q)})

\* _find_case_insensitive_match_offsets: leftmost matches, none overlapping. The
\* offsets are those of the lower-cased text and are used on the original one.
MatchOffsets(text) ==
  LET low == Lower(text)
      q   == Lower(Query)
      scan[p \in 0 .. Len(low)] ==
        LET found == {i \in Occurrences(low, q) : p <= i}
        IN IF found = {} THEN {} ELSE {Min(found)} \cup scan[Min(found) + ScanStep(q)]
  IN scan[0]

-----------------------------------------------------------------------------
(***************************************************************************)
(* What one occurrence looks like.                                         *)
(***************************************************************************)
IsWholeWord(text, o) ==
  /\ o + n <= Len(text)
  /\ ~IsWordChar(At(text, o - 1)) /\ ~IsWordChar(At(text, o + n))

IsLineStartWholeWord(text, o) == IsWholeWord(text, o) /\ LineStart(text, o)

IsLogMarker(text, o) ==
  IsLineStartWholeWord(text, o) /\ (ColonAt(text, o + n) \/ DashAt(text, o + n))

IsDelimitedLogMarker(text, o) ==
  /\ IsLogMarker(text, o)
  /\ SpaceOrEnd(text, o + n + (IF ColonAt(text, o + n) THEN 1 ELSE 2))

WrapPairs == {<<"[", "]">>, <<"(", ")">>, <<"{", "}">>, <<"<", ">">>}
Wrapper(text, o) == <<At(text, o - 1), At(text, o + n)>>

IsPunctuationWrap(text, o) ==
  IsWholeWord(text, o) /\ Wrapper(text, o) \in WrapPairs /\ LineStart(text, o - 1)

\* After the closing bracket: the end, white space, or a colon that either follows.
\* (The code's test for " -" comes after the one for white space and adds nothing.)
IsExactTag(text, o) ==
  LET t == o + n + 1
  IN /\ IsPunctuationWrap(text, o)
     /\ SpaceOrEnd(text, t) \/ (ColonAt(text, t) /\ SpaceOrEnd(text, t + 1))

\* Seeded fault: a colon counts as a marker whatever follows the dash.
IsExactTagMarkerLoose(text, o) ==
  LET t == o + n + 1
  IN IsPunctuationWrap(text, o) /\ (ColonAt(text, t) \/ DashAt(text, t))

IsExactTagMarker(text, o) ==
  LET t == o + n + 1
  IN /\ IsExactTag(text, o)
     /\ \/ ColonAt(text, t) /\ SpaceOrEnd(text, t + 1)
        \/ DashAt(text, t) /\ SpaceOrEnd(text, t + 2)

IsColonMarker(text, o) == IsExactTagMarker(text, o) /\ ColonAt(text, o + n + 1)
IsDashMarker(text, o) == IsExactTagMarker(text, o) /\ DashAt(text, o + n + 1)
IsSquareTag(text, o) == IsExactTag(text, o) /\ Wrapper(text, o) = <<"[", "]">>
IsSquareDashMarker(text, o) == IsDashMarker(text, o) /\ IsSquareTag(text, o)
IsNonSquareColonMarker(text, o) == IsColonMarker(text, o) /\ ~IsSquareTag(text, o)
IsNonSquareDashMarker(text, o) == IsDashMarker(text, o) /\ ~IsSquareTag(text, o)
IsParenMarker(text, o) == IsExactTagMarker(text, o) /\ Wrapper(text, o) = <<"(", ")">>
IsBraceMarker(text, o) == IsExactTagMarker(text, o) /\ Wrapper(text, o) = <<"{", "}">>

IsPlainTag(text, o) == IsExactTag(text, o) /\ ~IsExactTagMarker(text, o)
IsSquarePlainTag(text, o) == IsSquareTag(text, o) /\ ~IsExactTagMarker(text, o)
IsAnglePlainTag(text, o) == IsPlainTag(text, o) /\ Wrapper(text, o) = <<"<", ">">>
IsParenPlainTag(text, o) == IsPlainTag(text, o) /\ Wrapper(text, o) = <<"(", ")">>
IsBracePlainTag(text, o) == IsPlainTag(text, o) /\ Wrapper(text, o) = <<"{", "}">>

\* Something other than white space stands between offset t and the end of the line.
HasPayload(text, t) ==
  \E i \in t .. Len(text) - 1 :
     ~IsSpace(At(text, i)) /\ \A j \in t .. i : At(text, j) # "\n"

\* Seeded fault: what follows the space is not looked at.
IsSingleSpaceAnyNext(text, o) == IsPlainTag(text, o) /\ At(text, o + n + 1) = " "

IsSingleSpace(text, o) ==
  LET t == o + n + 1
  IN IsPlainTag(text, o) /\ At(text, t) = " " /\ ~SpaceOrEnd(text, t + 1)

IsPayloadless(text, o) == IsPlainTag(text, o) /\ ~HasPayload(text, o + n + 1)

IsNonSingleSpace(text, o) == IsPlainTag(text, o) /\ ~IsSingleSpace(text, o)

WithPayload(text, o) == IsPlainTag(text, o) /\ HasPayload(text, o + n + 1)

IsTabPayload(text, o) == WithPayload(text, o) /\ At(text, o + n + 1) = "\t"

IsMultiSpacePayload(text, o) ==
  /\ WithPayload(text, o) /\ ~IsTabPayload(text, o)
  /\ At(text, o + n + 1) = " " /\ At(text, o + n + 2) = " "

IsSpaceMixedPayload(text, o) ==
  /\ WithPayload(text, o) /\ ~IsTabPayload(text, o) /\ ~IsMultiSpacePayload(text, o)
  /\ At(text, o + n + 1) = " "
  /\ IsSpace(At(text, o + n + 2)) /\ At(text, o + n + 2) # " "

IsOtherLeadingPayload(text, o) ==
  /\ WithPayload(text, o) /\ ~IsTabPayload(text, o) /\ ~IsMultiSpacePayload(text, o)
  /\ ~IsSpaceMixedPayload(text, o)
  /\ IsSpace(At(text, o + n + 1)) /\ At(text, o + n + 1) \notin {" ", "\t"}

IsOtherLeadingMixedPayload(text, o) ==
  IsOtherLeadingPayload(text, o) /\ IsSpace(At(text, o + n + 2))

-----------------------------------------------------------------------------
(***************************************************************************)
(* Counts and first offsets. NoOffset stands for 1 << 60, larger than any  *)
(* offset; TLC's integers end at 2^31.                                     *)
(***************************************************************************)
NoOffset == 2 ^ 30

\* How many of the matches are of a kind, and where the first of them is.
Hits(found) ==
  [count |-> Cardinality(found), first |-> IF found = {} THEN NoOffset ELSE Min(found)]

\* The hits that count only beside a tag with a single space after it.
HitsBesideSingleSpace(found, singles) ==
  IF singles # {} THEN Hits(found) ELSE Hits({})

WordHits(text, offsets) ==
  LET H(Is(_, _)) == Hits({o \in offsets : Is(text, o)})
  IN [whole_word  |-> H(IsWholeWord),
      line_start  |-> H(IsLineStartWholeWord),
      log_marker  |-> H(IsLogMarker),
      delimited   |-> H(IsDelimitedLogMarker)]

TagHits(text, offsets) ==
  LET H(Is(_, _)) == Hits({o \in offsets : Is(text, o)})
  IN [wrap         |-> H(IsPunctuationWrap),
      exact        |-> H(IsExactTag),
      colon        |-> H(IsColonMarker),
      square       |-> H(IsSquareTag),
      square_plain |-> H(IsSquarePlainTag),
      angle_plain  |-> H(IsAnglePlainTag),
      single_space |-> H(IsSingleSpace)]

PayloadHits(text, offsets) ==
  LET H(Is(_, _)) == HitsBesideSingleSpace({o \in offsets : Is(text, o)},
                                           {o \in offsets : IsSingleSpace(text, o)})
  IN [payloadless |-> H(IsPayloadless),
      irregular   |-> H(IsNonSingleSpace),
      tab         |-> H(IsTabPayload),
      multi_space |-> H(IsMultiSpacePayload)]

MixedPayloadHits(text, offsets) ==
  LET H(Is(_, _)) == HitsBesideSingleSpace({o \in offsets : Is(text, o)},
                                           {o \in offsets : IsSingleSpace(text, o)})
  IN [space_mixed   |-> H(IsSpaceMixedPayload),
      other_leading |-> H(IsOtherLeadingPayload),
      other_mixed   |-> H(IsOtherLeadingMixedPayload)]

MarkerHits(text, offsets) ==
  LET H(Is(_, _)) == Hits({o \in offsets : Is(text, o)})
  IN [paren_plain      |-> H(IsParenPlainTag),
      brace_plain      |-> H(IsBracePlainTag),
      square_dash      |-> H(IsSquareDashMarker),
      paren_marker     |-> H(IsParenMarker),
      brace_marker     |-> H(IsBraceMarker),
      non_square_colon |-> H(IsNonSquareColonMarker),
      non_square_dash  |-> H(IsNonSquareDashMarker),
      marker           |-> H(IsExactTagMarker)]

\* _build_search_candidate: the numbers the order is made of.
CandidateTags(text, offsets) ==
  [w |-> WordHits(text, offsets), g |-> TagHits(text, offsets), m |-> MarkerHits(text, offsets)]

CandidateSeparators(text, offsets) ==
  [p |-> PayloadHits(text, offsets), x |-> MixedPayloadHits(text, offsets)]

\* Words and wraps that count against an output which also has better ones.
LooseWraps(g) == IF g.exact.count > 0 THEN Max({0, g.wrap.count - g.exact.count}) ELSE 0
LooseWords(w) == IF w.line_start.count > 0 THEN w.whole_word.count - w.line_start.count ELSE 0

CandidateAt(text, offsets) ==
  CandidateTags(text, offsets) @@ CandidateSeparators(text, offsets) @@
  [match_count |-> Cardinality(offsets),
   cluster_span |-> Max(offsets) - Min(offsets),
   first_match |-> Min(offsets),
   length |-> Max({1, Len(text)})]

Candidate(text) == CandidateAt(text, MatchOffsets(text))

-----------------------------------------------------------------------------
(***************************************************************************)
(* _sort_history_search_matches. Ascending by the key; the last but two is *)
(* minus the match density, which for equal match counts grows with the    *)
(* length of the output.                                                   *)
(***************************************************************************)
CountsKey(c) ==
  << -c.match_count, -c.w.log_marker.count, -c.w.delimited.count, -c.m.marker.count,
     -c.g.colon.count, -c.m.square_dash.count, -c.m.paren_marker.count,
     -c.m.brace_marker.count, -c.m.non_square_colon.count, -c.m.non_square_dash.count,
     -c.g.exact.count, -c.g.square.count, -c.m.paren_plain.count, -c.m.brace_plain.count,
     c.g.angle_plain.count, -c.g.single_space.count >>

\* Seeded fault: the count of tags with nothing after them is left out.
SeparatorKeyShort(c) ==
  << -c.p.irregular.first, -c.p.payloadless.first, c.p.tab.count, -c.p.tab.first,
     -c.g.wrap.count, -c.w.line_start.count, -c.w.whole_word.count >>

SeparatorKey(c) ==
  << -c.p.irregular.first, c.p.payloadless.count, -c.p.payloadless.first,
     c.p.tab.count, -c.p.tab.first, c.p.multi_space.count, -c.p.multi_space.first,
     c.x.space_mixed.count, -c.x.space_mixed.first, c.x.other_mixed.count,
     -c.x.other_mixed.first, -c.x.other_leading.first, LooseWraps(c.g),
     -c.g.wrap.count, -c.w.line_start.count, LooseWords(c.w), -c.w.whole_word.count >>

OffsetsKey(c) ==
  << c.w.log_marker.first, c.w.delimited.first, c.g.colon.first, c.m.square_dash.first,
     c.m.paren_marker.first, c.m.brace_marker.first, c.m.non_square_colon.first,
     c.m.non_square_dash.first, c.g.square_plain.first, c.m.paren_plain.first,
     c.m.brace_plain.first, c.g.angle_plain.first, c.g.single_space.first,
     c.m.marker.first, c.g.exact.first, c.g.square.first, c.g.wrap.first,
     c.w.line_start.first, c.w.whole_word.first, c.cluster_span, c.first_match >>

KeyOf(c, s, sort) ==
  CASE sort = "relevance" -> CountsKey(c) \o SeparatorKey(c) \o OffsetsKey(c)
                               \o << c.length, -StampOf[s], s >>
    [] sort = "newest"    -> << -StampOf[s], -c.match_count, s >>
    [] sort = "oldest"    -> << StampOf[s], -c.match_count, s >>

SearchKey(s, sort) == KeyOf(Candidate(output[s]), s, sort)

KeyBefore(k, l) ==
  \E i \in DOMAIN k : k[i] < l[i] /\ \A j \in 1 .. i - 1 : k[j] = l[j]

\* _search_history_snapshots: the sessions whose output has the query, in order.
SortedBy(key) == SetToSortSeq(DOMAIN key, LAMBDA s, u : KeyBefore(key[s], key[u]))

SearchMatches(sort) ==
  SortedBy([s \in {u \in Sessions : MatchOffsets(output[u]) # {}} |-> SearchKey(s, sort)])

\* Seeded fault: the window forgets the length of the match.
WindowEndShort(text, o) == Min({Len(text), o + SnippetContext})

\* The end of the window around a match.
WindowEnd(text, o) == Min({Len(text), o + n + SnippetContext})

\* _build_search_snippets: a window around each of the first matches, and whether it
\* is cut at either side.
Snippets(text) ==
  LET offsets == SetToSortSeq(MatchOffsets(text), <)
      snippet(o) == LET start == Max({0, o - SnippetContext})
                        end   == WindowEnd(text, o)
                    IN [text |-> SubSeq(text, start + 1, end), offset |-> o,
                        before |-> o - start, cut_left |-> start > 0,
                        cut_right |-> end < Len(text)]
  IN [i \in 1 .. Min({SnippetLimit, Len(offsets)}) |-> snippet(offsets[i])]

-----------------------------------------------------------------------------
Init ==
  /\ output = [s \in Sessions |-> <<>>]
  /\ written = [s \in Sessions |-> 0]

\* The shell of session s writes a chunk.
Emit(s, chunk) ==
  /\ output' = [output EXCEPT ![s] = @ \o chunk]
  /\ written' = [written EXCEPT ![s] = @ + 1]

Next == \E s \in Sessions : /\ written[s] < Len(Chunks[s])
                              /\ \E chunk \in Chunks[s][written[s] + 1] : Emit(s, chunk)

Spec == Init /\ [][Next]_vars

-----------------------------------------------------------------------------
(***************************************************************************)
(* Properties.                                                             *)
(***************************************************************************)

\* Lower-casing keeps every character's width. For other texts (U+0130 becomes two
\* characters) the offsets of the scan are not those of the text.
EvenWidth(text) == \A i \in DOMAIN text : Len(LowerOf[text[i]]) = 1

\* The matches of the scan are occurrences of the query whatever its case, they do
\* not overlap, and no occurrence is left that overlaps none of them.
OffsetsExact ==
  \A s \in Sessions : EvenWidth(output[s]) =>
    LET offsets == MatchOffsets(output[s])
        low == [i \in DOMAIN output[s] |-> LowerOf[output[s][i]][1]]
    IN /\ offsets \subseteq Occurrences(low, Query)
       /\ \A o, p \in offsets : o < p => o + n <= p
       /\ \A i \in Occurrences(low, Query) : \E o \in offsets : o <= i /\ i < o + n

\* A tag without a marker has exactly one kind of separator, however white space,
\* line ends and the end of the text combine after it; nothing else has one.
SeparatorsPartition ==
  \A s \in Sessions : \A o \in MatchOffsets(output[s]) :
    LET text == output[s]
        kinds == << IsSingleSpace(text, o), IsPayloadless(text, o), IsTabPayload(text, o),
                    IsMultiSpacePayload(text, o), IsSpaceMixedPayload(text, o),
                    IsOtherLeadingPayload(text, o) >>
    IN Cardinality({i \in DOMAIN kinds : kinds[i]}) = IF IsPlainTag(text, o) THEN 1 ELSE 0

\* The counts of a candidate, and the number of its plain tags.
AddUp(c, plain) ==
  /\ c.g.exact.count = c.m.marker.count + plain
  /\ c.m.marker.count = c.g.colon.count + c.m.square_dash.count + c.m.non_square_dash.count
  /\ plain = c.g.square_plain.count + c.m.paren_plain.count + c.m.brace_plain.count
               + c.g.angle_plain.count
  /\ c.g.square.count = c.g.square_plain.count + c.m.square_dash.count
                          + (c.g.colon.count - c.m.non_square_colon.count)
  /\ c.g.exact.count <= c.g.wrap.count
  /\ c.w.line_start.count + c.g.wrap.count <= c.w.whole_word.count

\* The counts the order subtracts and compares add up: markers and plain tags make up
\* the tags, kinds of markers the markers, kinds of brackets the plain tags; a wrapped
\* word is never at a line start itself, so no difference of counts is negative.
CountsAddUp ==
  \A s \in Sessions : MatchOffsets(output[s]) # {} =>
    AddUp(Candidate(output[s]),
          Cardinality({o \in MatchOffsets(output[s]) : IsPlainTag(output[s], o)}))

\* Key k is before l, and where they first differ no stand-in is compared.
BeforeByReal(k, l) ==
  \E i \in DOMAIN k : /\ k[i] < l[i] /\ \A j \in 1 .. i - 1 : k[j] = l[j]
                      /\ {k[i], l[i]} \cap {NoOffset, -NoOffset} = {}

InRealOrder(found) ==
  \A i \in 1 .. Len(found) - 1 :
    BeforeByReal(SearchKey(found[i], "relevance"), SearchKey(found[i + 1], "relevance"))

\* The stand-in for "no such match" never decides: where the relevance keys of two
\* outputs first differ, both values are counts or both are real offsets, although the
\* key compares first offsets of kinds that only one of the outputs may have.
NoneNeverDecides == InRealOrder(SearchMatches("relevance"))

\* Upper and lower case never change where a match ranks.
CaseNeverRanks ==
  \A s \in Sessions :
    LET low == [i \in DOMAIN output[s] |-> LowerOf[output[s][i]][1]]
    IN EvenWidth(output[s]) /\ MatchOffsets(low) # {} =>
         /\ MatchOffsets(output[s]) # {}
         /\ Candidate(output[s]) = Candidate(low)

\* The relevance order means what it says: its classes partition the matches, its counts
\* add up, no stand-in value decides it and case does not change it.
RankingSound == SeparatorsPartition /\ CountsAddUp /\ NoneNeverDecides /\ CaseNeverRanks

\* A snippet shows its whole match, and is marked as cut where text is left out.
SnippetsShowMatch ==
  \A s \in Sessions : EvenWidth(output[s]) =>
    LET text == output[s]
        found == Snippets(text)
    IN \A i \in DOMAIN found :
         LET t == found[i]
         IN /\ t.before + n <= Len(t.text)
            /\ Lower(SubSeq(t.text, t.before + 1, t.before + n)) = Lower(Query)
            /\ ~t.cut_left => t.before = t.offset
            /\ ~t.cut_right => t.offset - t.before + Len(t.text) = Len(text)
=============================================================================
