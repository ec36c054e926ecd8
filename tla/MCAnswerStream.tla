---------------------------- MODULE MCAnswerStream ----------------------------
(***************************************************************************)
(* AnswerStream on answers of up to three pieces: text, code blocks, tool  *)
(* calls in fences and without, and patterns that are cut off.             *)
(***************************************************************************)
EXTENDS AnswerStream

\* An answer is a sequence of pieces.
Piece(text, holds) == [text |-> text, holds |-> holds]
Answer(pieces) == [text |-> FlattenSeq([i \in DOMAIN pieces |-> pieces[i].text]),
                   holds |-> FlattenSeq([i \in DOMAIN pieces |-> pieces[i].holds])]

Plain(text) == Piece(text, <<>>)
Call(c) == <<OpenBrace, Quote, Name, c, Quote, CloseBrace>>
Escaped == <<OpenBrace, Quote, Name, Backslash, Quote, CloseBrace, Quote, CloseBrace>>
Fenced(call) == Piece(Fence \o <<Json, NL>> \o call \o <<NL>> \o Fence, <<call>>)
Code == Plain(Fence \o <<"py", NL, "x", NL>> \o Fence)
Word == Plain(<<"x">>)
Line == Plain(<<NL>>)
Inline == Plain(<<Tick, "y", Tick, "x">>)
Raw(call) == Plain(<<NL>> \o call)
CutFence == Plain(Fence \o <<Json, NL>> \o SubSeq(Call("a"), 1, 3) \o <<Tick>>)
CutRaw == Plain(SubSeq(Escaped, 1, 5))
CutOpening == Plain(Fence \o <<"py", NL>>)
CutBlock == Plain(Fence \o <<"py", NL, "x", Tick>>)

ServerPieces == {Fenced(Call("a")), Fenced(Escaped), Code, Word, Inline, Raw(Call("a"))}
MCServerAnswers ==
  {Answer(<<p, q>>) : p, q \in ServerPieces}
    \cup {Answer(<<Word, Raw(Escaped), p, Raw(Call("a"))>>) : p \in {Word, Line}}
    \cup {Answer(<<p, q>>) : p \in ServerPieces, q \in {CutFence, CutRaw}}
MCToolParts == <<"name", "arguments", "arguments">>
MCNativeAnswers == {Answer(<<Word, Word>>)}

Held_(language, content) ==
  Piece(Fence \o <<language, NL>> \o content \o <<NL>> \o Fence,
        <<[language |-> <<language>>, content |-> content]>>)
MCHeaders == ("FILE f" :> "f") @@ ("FILE g" :> "g")
MCFiles == ("f" :> <<"x", "y", "x">>)
Edit(search, replace) == <<"SEARCH">> \o search \o <<"DIVIDER">> \o replace \o <<"REPLACE">>
Y_X == <<"FILE f">> \o Edit(<<"y">>, <<"x">>)
X_Z == <<"FILE f">> \o Edit(<<"x">>, <<"z">>)
XY_YX == <<"FILE f">> \o Edit(<<"x", "y">>, <<"y", "z">>) \o Edit(<<"x">>, <<>>)
Empty_X == <<"FILE g">> \o Edit(<<>>, <<"x">>)
Expanding == <<"$$", "$`", "$&", "$'">>
Y_Dollars == <<"FILE f">> \o Edit(<<"y">>, Expanding)
Y_Z_X == <<"FILE f">> \o Edit(<<"y">>, <<"z">>) \o Edit(<<"x">>, <<>>)
MCIntended ==
  (Y_X :> [file |-> "f", operations |-> <<<<<<"y">>, <<"x">>>>>>])
    @@ (X_Z :> [file |-> "f", operations |-> <<<<<<"x">>, <<"z">>>>>>])
    @@ (XY_YX :> [file |-> "f",
                  operations |-> <<<<<<"x", "y">>, <<"y", "z">>>>, <<<<"x">>, <<>>>>>>])
    @@ (Empty_X :> [file |-> "g", operations |-> <<<<<<>>, <<"x">>>>>>])
    @@ (Y_Dollars :> [file |-> "f", operations |-> <<<<<<"y">>, Expanding>>>>])
    @@ (Y_Z_X :> [file |-> "f", operations |-> <<<<<<"y">>, <<"z">>>>, <<<<"x">>, <<>>>>>>])
MCLanguages == {<<"edit">>, <<"read">>, <<"create">>, <<"sh">>}
MCCliAnswers ==
  {Answer(<<Word>>), Answer(<<Inline, Word, Code>>),
   Answer(<<Held_("edit", Y_X), Held_("sh", <<"x">>)>>),
   Answer(<<Line, Held_("edit", XY_YX), Held_("edit", X_Z)>>),
   Answer(<<Held_("edit", Y_Dollars), Held_("edit", Y_Z_X)>>),
   Answer(<<Held_("create", <<"FILE g">>), Held_("edit", Empty_X)>>),
   Answer(<<Word, Word, Word, Word, Held_("sh", <<"x">>)>>),
   Answer(<<Held_("sh", <<"x">>), CutOpening>>), Answer(<<Word, CutBlock>>),
   Answer(<<Held_("read", <<"f", "g">>), Word>>)}
===============================================================================
