---------------------------- MODULE MCSqlScript -----------------------------
(* Scripts for SqlScript: every text of up to five of the characters that   *)
(* mean something to the cutter or the lexer, and everything that can be    *)
(* put together from up to three pieces of the list below.                  *)
EXTENDS SqlScript

Select   == <<"SELECT", "*", "FROM", "tab", "name", ";">>
Insert   == <<"INSERT", " ", "INTO", " ", "name", " ", "VALUES", "(", "'", ";", "'", "'",
              "-", "-", "'", ",", "-", "int", ")", ";">>
Long     == <<"'", "name", "name", "name", "name", "name", "'">>
Brim     == <<"'", "name", "name", "name", "name", "'", "'", "'">>
NoEnd    == <<"SELECT", " ", "name", " ", "FROM", " ", "name", "nl">>
Comment  == <<"-", "-", " ", "name", "nl">>
Quoted   == <<"-", "-", "'", "nl">>
Ended    == <<"-", "-", ";", "nl">>
Wrong    == <<"SELECT", "FROM", ";">>
Marks    == <<"'", "dq", "bs", "ff", "tab", "'", "cr", "nl">>
Outside  == <<"ff", "bs", "dq", "ctl", "other">>
Numbers  == <<"+", "int", "int", "nl", " ", "int", "name", "-", "+", "(", "-", "name", "int">>
Strange  == <<"=", "other">>

Pieces == {Select, Insert, Long, Brim, NoEnd, Comment, Quoted, Ended, Wrong, Numbers, Strange,
           Marks, Outside, <<"ff">>, <<";">>, <<"'">>, <<" ">>, <<"nl">>}

MCScripts ==
  LET texts == BoundedSeq({"'", ";", "-", "nl", "name"}, 5)
               \cup {FlattenSeq(p) : p \in BoundedSeq(Pieces, 3)}
  IN  texts \cup {<<"bom">> \o s : s \in {FlattenSeq(p) : p \in BoundedSeq(Pieces, 2)}}

\* A statement, a line that is a comment, two statements more.
CommentScripts == {Select \o <<"nl">> \o c \o Select \o Select : c \in {Comment, Quoted, Ended}}
=============================================================================
