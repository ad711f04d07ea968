----------------------------- MODULE MCApxCodec -----------------------------
(* ApxCodec instantiated for TLC. Doubles have one fractional digit, so a *)
(* token of four characters already crosses the fractional limit ("1.11") *)
(* and the int range (INT_MAX = 1, so "11" overflows).                   *)
EXTENDS ApxCodec

MCLetterOrder == <<"B", "a">>
MCMaxFrac == 1
MCMaxN == 1
MCMaxK == 1
MCMinCoeff == -20
MCMaxCoeff == 20
MCIntMax == 1
MCIntMin == -2

(* Lines: every command word followed by up to five characters of a small *)
(* alphabet (letter, digit, sign, point, space, and a character outside   *)
(* the parameter class), every line of up to three such characters with   *)
(* no command word, and every command with one to three whole tokens.     *)
LineChar == {"a", "1", "-", ".", " ", "_"}
Token == {<<"1">>, <<"1", "1">>, <<"a">>, <<"-", ".", "1">>}
MCLines ==
    {<<w>> \o r : w \in CommandWord, r \in BoundedSeq(LineChar, 5)}
    \cup BoundedSeq(LineChar, 3)
    \cup {<<w, " ">> \o SpaceJoin(ts) : w \in CommandWord, ts \in BoundedSeq(Token, 3) \ {<<>>}}

(* Messages: the ids the client's argument check admits; points at the    *)
(* int bounds; values negative, zero, below one and above a hundred.      *)
Ids == {id \in BoundedSeq({"a", "B", "1", "_"}, 2) : valid_player_id(id)}
Points == {MCIntMin, -1, 0, MCIntMax}
Vals == {-15, -5, 0, 7, 1234}
CoeffVals == {MCMinCoeff, -5, 0, MCMaxCoeff}
ScoringIds == {<<"a">>, <<"B">>, <<"a", "1">>}
ScoreVals == {0, 5, 1234}
MCMessages ==
    {[type |-> "HELLO", player_id |-> id] : id \in Ids}
    \cup {[type |-> t, point |-> p, value |-> v] :
            t \in {"PUT", "BAD_PUT", "PENALTY"}, p \in Points, v \in Vals}
    \cup {[type |-> "COEFF", coeffs |-> cs] : cs \in BoundedSeq(CoeffVals, MCMaxN + 1) \ {<<>>}}
    \cup {[type |-> "STATE", approx_values |-> vs] : vs \in BoundedSeq(Vals, MCMaxK + 1) \ {<<>>}}
    \cup {[type |-> "SCORING", player_ids |-> [i \in DOMAIN ps |-> ps[i][1]],
                               scores |-> [i \in DOMAIN ps |-> ps[i][2]]] :
            ps \in BoundedSeq(ScoringIds \X ScoreVals, 2)}
====
