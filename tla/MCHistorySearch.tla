-------------------------- MODULE MCHistorySearch --------------------------
(***************************************************************************)
(* An instance of HistorySearch for TLC: the query "qq"; one session that  *)
(* writes a word, two separators and an end, and one that writes a whole   *)
(* line to compare it with.                                                *)
(***************************************************************************)
EXTENDS HistorySearch

Tag == <<"[", "q", "q", "]">>
Words == {Tag, <<"q", "Q">>, <<"\n", "(", "Q", "q", ")">>, <<"{", "q", "q", "}">>,
          <<"<", "q", "q", ">">>, <<"[", "q", "q", ")">>, <<"w">> \o Tag, <<"I">> \o Tag,
          <<"q", "q", "\n">> \o Tag}
Separators == {<<" ">>, <<"\t">>, <<"\f">>, <<"\n">>, <<":">>, <<" ", "-">>, <<"Q">>}
Ends == {<<"w">>, <<" ">>, <<"\n">> \o Tag, <<"\n">> \o Tag \o <<" ", "w">>}
Lines == {Tag \o <<" ", "w">>, Tag \o <<"\n">> \o Tag \o <<" ", "w">>}

MCChunks == << <<Words, Separators, Separators, Ends>>, <<Lines>> >>
MCStamps == <<2, 1>>
MCQuery == <<"q", "q">>
MCWordChars == {"q", "Q", "w"}
Characters == {"q", "w", "i", "^", "[", "]", "(", ")", "{", "}", "<", ">", " ", "\t", "\f", "\n", ":", "-"}
\* "I" stands for U+0130, the letter whose lower case is two characters.
MCLower == [c \in Characters \cup {"Q", "I"} |->
              IF c = "Q" THEN <<"q">> ELSE IF c = "I" THEN <<"i", "^">> ELSE <<c>>]
=============================================================================
