---------------------------- MODULE MCCsvStorage ----------------------------
(* Files and rows for CsvStorage: two columns, and after the header every   *)
(* text of up to three bytes.  A second process appends one row, before or  *)
(* while the first one does.                                                *)
EXTENDS CsvStorage

CONSTANTS w1, w2

Num(t) == [kind |-> "INT", text |-> t]
Str(t) == [kind |-> "STRING", text |-> t]
Null   == [kind |-> "NULL", text |-> <<>>]

Header == <<"x", ",", "x">>

MCFiles ==
  {<<>>, Header, Header \o <<"cr">>}
    \cup {Header \o <<"nl">> \o body : body \in BoundedSeq(Bytes, 3)}
    \cup {Header \o <<"cr", "nl">> \o body : body \in BoundedSeq({"x", ",", "cr", "nl"}, 2)}

\* Short values, values that fill the buffer to the last byte, one that needs
\* one byte more, a row of another width.
Telling ==
  {<<Num(<<"x">>), Str(t)>> : t \in {<<>>, <<",">>, <<"cr">>, <<Quote, "x">>, <<"x", "nl">>}}
    \cup {<<Str(<<Quote>>), Null>>, <<Null, Str(<<Quote>>)>>, <<Null, Null>>, <<Num(<<"x">>)>>}
    \cup {<<Num(<<"x", "x">>), Str(<<"x", "x">>)>>, <<Num(<<"x", "x">>), Str(<<"x", "x", "x">>)>>}

MCRows == [w \in {w1, w2} |-> IF w = w1 THEN Telling ELSE {<<Null, Str(<<>>)>>}]

MCBytes == [w \in {w1, w2} |-> IF w = w1 THEN 9 ELSE 5]

\* A table that holds nothing, for the documented effect of one INSERT.
EmptyFiles == {Header, Header \o <<"nl">>}
LineFeedRows == [w \in {w1} |-> {<<Num(<<"x">>), Str(t)>> : t \in {<<>>, <<"x">>, <<"x", "nl", "x">>}}]
LineFeedBytes == [w \in {w1} |-> 13]
=============================================================================
