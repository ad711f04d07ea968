------------------------------ MODULE ApxCodec ------------------------------
(***************************************************************************)
(* The line codec of the-great-approximator (msg_parser.cpp): the parser   *)
(* Message::createMessage, which turns a CRLF-terminated line into a       *)
(* message or nullptr, and the serializers XMessage::createMessage, which  *)
(* build a line and return createMessageWithCRLF of it, i.e. the parse of  *)
(* what they wrote (nullptr if it does not parse; their callers in         *)
(* server_logic.cpp and client_logic.cpp dereference the result).          *)
(*                                                                         *)
(* A line is a sequence of symbols: a character is a one-letter string, and *)
(* the seven command words are single symbols, so any other first word is  *)
(* an unknown command. A double is an integer in units of                  *)
(* 10^-MAX_FRACTIONAL_DIGITS: every value the parser yields is of that     *)
(* form, and the serializers are given values of that form. Rounding of   *)
(* finer doubles by std::fixed, and stod's range error for tokens of more  *)
(* than 308 digits, are left out.                                          *)
(*                                                                         *)
(* Each behaviour is one call: a line the framing of approx-server.cpp or  *)
(* network_receiver hands to the parser, or a message a caller serializes. *)
(***************************************************************************)
EXTENDS Integers, SequencesExt

CONSTANTS
    LetterOrder,            \* the letters used, in ASCII order (a sequence)
    MAX_FRACTIONAL_DIGITS,  \* constants::max_fractional_digits (7), scaled
    MAX_N,                  \* constants::max_n (8), scaled
    MAX_K,                  \* constants::max_k (10000), scaled
    MIN_COEFF, MAX_COEFF,   \* constants::min_coeff, max_coeff (-100, 100), scaled
    INT_MIN, INT_MAX,       \* std::numeric_limits<int>, scaled
    Null,                   \* nullptr, and a failed parse of a token
    None,                   \* no call made yet
    Lines,                  \* lines handed to the parser, without the CRLF
    Messages                \* messages handed to the serializers

ASSUME /\ MAX_FRACTIONAL_DIGITS \in Nat \ {0}
       /\ INT_MIN = -INT_MAX - 1

CommandWord == {"HELLO", "COEFF", "PUT", "BAD_PUT", "STATE", "PENALTY", "SCORING"}
DigitChar == <<"0", "1", "2", "3", "4", "5", "6", "7", "8", "9">>
Digit == ToSet(DigitChar)
Letter == ToSet(LetterOrder)
CRLF == <<"\r", "\n">>
Scale == 10 ^ MAX_FRACTIONAL_DIGITS

DigitVal(c) == CHOOSE i \in 0..9 : DigitChar[i + 1] = c

(* std::string comparison of alphanumeric ids: ASCII puts digits before    *)
(* letters, and a prefix before its extensions.                            *)
CharRank(c) == IF c \in Digit THEN DigitVal(c) ELSE 10 + SelectInSeq(LetterOrder, LAMBDA l : l = c)

RECURSIVE IdLess(_, _)
IdLess(x, y) ==
    IF x = <<>> \/ y = <<>> THEN x = <<>> /\ y # <<>>
    ELSE IF x[1] # y[1] THEN CharRank(x[1]) < CharRank(y[1])
    ELSE IdLess(Tail(x), Tail(y))

(* The message classes of msg_parser.h, as records. *)
Message ==
    [type: {"HELLO"}, player_id: Seq(Letter \cup Digit)]
    \cup [type: {"COEFF"}, coeffs: Seq(Int)]
    \cup [type: {"PUT", "BAD_PUT", "PENALTY"}, point: INT_MIN..INT_MAX, value: Int]
    \cup [type: {"STATE"}, approx_values: Seq(Int)]
    \cup [type: {"SCORING"}, player_ids: Seq(Seq(Letter \cup Digit)), scores: Seq(Int)]

VARIABLES
    input,    \* the line or the message of the call
    output    \* what createMessage returned: a message, Null, or None before

vars == <<input, output>>

TypeOK ==
    /\ input \in [kind: {"line"}, body: Seq(STRING)] \cup [kind: {"msg"}, msg: Message]
    /\ output \in Message \cup {Null, None}
-----------------------------------------------------------------------------
(***************************************************************************)
(* Tokens.                                                                 *)
(***************************************************************************)
isAlphanumeric(s) == \A i \in 1..Len(s) : s[i] \in Letter \cup Digit

DigitsValue(d) == FoldLeft(LAMBDA acc, c : 10 * acc + DigitVal(c), 0, d)

isValidIntegerStringFormat(s) ==
    /\ s # <<>> /\ s # <<"-">>
    /\ \A i \in (IF s[1] = "-" THEN 2 ELSE 1)..Len(s) : s[i] \in Digit

\* Mutant: the value of stoll is taken without the int range check.
parseInteger_noRange(s) ==
    LET v == IF s[1] = "-" THEN -DigitsValue(Tail(s)) ELSE DigitsValue(s) IN
    IF isValidIntegerStringFormat(s) THEN v ELSE Null

(* parseInteger: the format, then stoll and the int range check. *)
parseInteger(s) ==
    LET v == IF s[1] = "-" THEN -DigitsValue(Tail(s)) ELSE DigitsValue(s) IN
    IF isValidIntegerStringFormat(s) /\ v >= INT_MIN /\ v <= INT_MAX THEN v ELSE Null

(* The number of digits at positions i, i+1, ... of s. *)
RECURSIVE DigitRun(_, _)
DigitRun(s, i) == IF i <= Len(s) /\ s[i] \in Digit THEN 1 + DigitRun(s, i + 1) ELSE 0

(* isValidDoubleStringFormat scans a sign, leading digits, an optional '.' *)
(* and the fractional digits, failing at the digit past the limit; some    *)
(* digit must be seen and every character consumed.                        *)
isValidDoubleStringFormat(s) ==
    LET i0   == IF s[1] = "-" THEN 1 ELSE 0
        lead == DigitRun(s, i0 + 1)
        dot  == IF i0 + lead < Len(s) /\ s[i0 + lead + 1] = "." THEN 1 ELSE 0
        frac == DigitRun(s, i0 + lead + dot + 1)
    IN /\ s # <<>> /\ s # <<"-">>
       /\ frac <= MAX_FRACTIONAL_DIGITS
       /\ lead + frac > 0
       /\ i0 + lead + dot + frac = Len(s)

(* std::stod of a well-formed token: its decimal value. *)
stod(s) ==
    LET neg  == s[1] = "-"
        u    == IF neg THEN Tail(s) ELSE s
        ip   == SubSeq(u, 1, DigitRun(u, 1))
        fp   == SubSeq(u, Len(ip) + 2, Len(u))
        mag  == DigitsValue(ip) * Scale + DigitsValue(fp) * 10 ^ (MAX_FRACTIONAL_DIGITS - Len(fp))
    IN IF neg THEN -mag ELSE mag

parseDouble(s) == IF isValidDoubleStringFormat(s) THEN stod(s) ELSE Null
-----------------------------------------------------------------------------
(***************************************************************************)
(* Lines.                                                                  *)
(***************************************************************************)
IsSpace(c) == c = " "

(* extractCommandAndParams: split at the first space; an empty line, a     *)
(* leading space and a space at the end are refused.                       *)
extractCommandAndParams(line) ==
    LET sp == SelectInSeq(line, IsSpace) IN
    CASE line = <<>>      -> Null
      [] sp = 0           -> [command |-> line, params |-> <<>>]
      [] sp = 1           -> Null
      [] sp = Len(line)   -> Null
      [] OTHER            -> [command |-> SubSeq(line, 1, sp - 1),
                              params  |-> SubSeq(line, sp + 1, Len(line))]

ParamChar == Letter \cup Digit \cup {"-", "."}

(* std::regex_match with ([a-zA-Z0-9\-\.]+ )*[a-zA-Z0-9\-\.]+ *)
MatchesParamsRegex(p) ==
    /\ p # <<>>
    /\ \A i \in 1..Len(p) : p[i] \in ParamChar \cup {" "}
    /\ p[1] # " " /\ p[Len(p)] # " "
    /\ \A i \in 1..Len(p) - 1 : ~(p[i] = " " /\ p[i + 1] = " ")

(* istringstream >> param: the words between runs of spaces. *)
RECURSIVE Words(_)
Words(p) ==
    LET sp == SelectInSeq(p, IsSpace) IN
    IF sp = 0 THEN (IF p = <<>> THEN <<>> ELSE <<p>>)
    ELSE (IF sp = 1 THEN <<>> ELSE <<SubSeq(p, 1, sp - 1)>>) \o Words(SubSeq(p, sp + 1, Len(p)))

\* Mutant: the regex check is skipped; istringstream splits any spacing.
splitParams_noRegex(p) == IF p = <<>> THEN <<>> ELSE Words(p)

splitParams(p) ==
    IF p = <<>> THEN <<>>
    ELSE IF MatchesParamsRegex(p) THEN Words(p) ELSE Null

AllDoubles(ps) == \A i \in DOMAIN ps : parseDouble(ps[i]) # Null

(* HelloMessage::parseMessage *)
parseHello(ps) ==
    IF Len(ps) = 1 /\ isAlphanumeric(ps[1])
    THEN [type |-> "HELLO", player_id |-> ps[1]] ELSE Null

(* CoeffMessage::parseMessage: 1..max_n+1 doubles in the coefficient range *)
(* (eps = 3e-8 is below the resolution of a 7-digit token).                *)
parseCoeff(ps) ==
    LET cs == [i \in DOMAIN ps |-> parseDouble(ps[i])] IN
    IF /\ Len(ps) >= 1 /\ Len(ps) <= MAX_N + 1
       /\ \A i \in DOMAIN cs : cs[i] # Null /\ cs[i] >= MIN_COEFF /\ cs[i] <= MAX_COEFF
    THEN [type |-> "COEFF", coeffs |-> cs] ELSE Null

(* validateIntDoublePair, for PUT, BAD_PUT and PENALTY. *)
validateIntDoublePair(type, ps) ==
    IF Len(ps) = 2 /\ parseInteger(ps[1]) # Null /\ parseDouble(ps[2]) # Null
    THEN [type |-> type, point |-> parseInteger(ps[1]), value |-> parseDouble(ps[2])]
    ELSE Null

(* StateMessage::parseMessage: 1..max_k+1 doubles. *)
parseState(ps) ==
    IF Len(ps) >= 1 /\ Len(ps) <= MAX_K + 1 /\ AllDoubles(ps)
    THEN [type |-> "STATE", approx_values |-> [i \in DOMAIN ps |-> parseDouble(ps[i])]]
    ELSE Null

(* ScoringMessage::parseMessage: an even count of (id, score) tokens. *)
parseScoring(ps) ==
    LET n   == Len(ps) \div 2
        ids == [i \in 1..n |-> ps[2 * i - 1]]
        scs == [i \in 1..n |-> ps[2 * i]]
    IN IF 2 * n = Len(ps) /\ \A i \in 1..n : isAlphanumeric(ids[i])
                          /\ AllDoubles(scs)
       THEN [type |-> "SCORING", player_ids |-> ids,
             scores |-> [i \in 1..n |-> parseDouble(scs[i])]]
       ELSE Null

parseMessage(cmd, ps) ==
    CASE cmd = "HELLO"   -> parseHello(ps)
      [] cmd = "COEFF"   -> parseCoeff(ps)
      [] cmd = "STATE"   -> parseState(ps)
      [] cmd = "SCORING" -> parseScoring(ps)
      [] OTHER           -> validateIntDoublePair(cmd, ps)

(* Message::createMessage: the CRLF, the command and its parameters, a     *)
(* known command, and the parse of its class.                              *)
createMessage(line) ==
    IF Len(line) < 2 \/ SubSeq(line, Len(line) - 1, Len(line)) # CRLF THEN Null
    ELSE LET cp == extractCommandAndParams(SubSeq(line, 1, Len(line) - 2)) IN
         IF cp = Null THEN Null
         ELSE LET ps == splitParams(cp.params) IN
              IF ps = Null \/ cp.command \notin {<<w>> : w \in CommandWord} THEN Null
              ELSE parseMessage(cp.command[1], ps)

createMessageWithCRLF(line) == createMessage(line \o CRLF)
-----------------------------------------------------------------------------
(***************************************************************************)
(* Serializers.                                                            *)
(***************************************************************************)
RECURSIVE NatToString(_)
NatToString(n) ==
    IF n < 10 THEN <<DigitChar[n + 1]>>
    ELSE NatToString(n \div 10) \o <<DigitChar[(n % 10) + 1]>>

(* std::to_string of an int. *)
IntToString(i) == IF i < 0 THEN <<"-">> \o NatToString(-i) ELSE NatToString(i)

(* doubleToString: std::fixed with max_fractional_digits digits. *)
doubleToString(v) ==
    LET a    == IF v < 0 THEN -v ELSE v
        frac == NatToString(a % Scale)
        pad  == [i \in 1..MAX_FRACTIONAL_DIGITS - Len(frac) |-> "0"]
    IN (IF v < 0 THEN <<"-">> ELSE <<>>) \o NatToString(a \div Scale)
           \o <<".">> \o pad \o frac

(* Each token followed by a space, then pop_back of the last space. *)
SpaceJoin(ts) == Front(FlattenSeq([i \in DOMAIN ts |-> ts[i] \o <<" ">>]))

(* HelloMessage::createMessage *)
HelloCreate(id) == createMessageWithCRLF(<<"HELLO", " ">> \o id)

(* CoeffMessage::createMessage and StateMessage::createMessage: nullptr    *)
(* for no values.                                                          *)
DoublesCreate(cmd, vs) ==
    IF vs = <<>> THEN Null
    ELSE createMessageWithCRLF(<<cmd, " ">> \o SpaceJoin([i \in DOMAIN vs |-> doubleToString(vs[i])]))

(* PutMessage, BadPutMessage and PenaltyMessage::createMessage. *)
IntDoubleCreate(cmd, point, value) ==
    createMessageWithCRLF(<<cmd, " ">> \o IntToString(point) \o <<" ">> \o doubleToString(value))

(* std::sort of the (id, score) pairs: by id, then by score. *)
PairLess(p, q) == IdLess(p[1], q[1]) \/ (p[1] = q[1] /\ p[2] < q[2])

\* Mutant: the pairs are written in the order the server keeps its players.
ScoringCreate_unsorted(ids, scores) ==
    IF Len(ids) # Len(scores) THEN Null
    ELSE createMessageWithCRLF(
           Front(<<"SCORING", " ">> \o FlattenSeq([i \in DOMAIN ids |->
                     ids[i] \o <<" ">> \o doubleToString(scores[i]) \o <<" ">>])))

(* ScoringMessage::createMessage: nullptr for lists of different lengths; *)
(* "SCORING " and "id score " per pair, sorted, then pop_back.             *)
ScoringCreate(ids, scores) ==
    LET sorted == SortSeq(Zip(ids, scores), PairLess) IN
    IF Len(ids) # Len(scores) THEN Null
    ELSE createMessageWithCRLF(
           Front(<<"SCORING", " ">> \o FlattenSeq([i \in DOMAIN sorted |->
                     sorted[i][1] \o <<" ">> \o doubleToString(sorted[i][2]) \o <<" ">>])))

Serialize(m) ==
    CASE m.type = "HELLO"   -> HelloCreate(m.player_id)
      [] m.type = "COEFF"   -> DoublesCreate("COEFF", m.coeffs)
      [] m.type = "STATE"   -> DoublesCreate("STATE", m.approx_values)
      [] m.type = "SCORING" -> ScoringCreate(m.player_ids, m.scores)
      [] OTHER              -> IntDoubleCreate(m.type, m.point, m.value)

(* ClientArgParser::validate: the id given with -u is non-empty and        *)
(* alphanumeric; it is the id the client's HELLO carries.                  *)
valid_player_id(id) == id # <<>> /\ isAlphanumeric(id)
-----------------------------------------------------------------------------
(* network_receiver and handle_read_from_client cut a line at the first    *)
(* CRLF and hand it to createMessage with the CRLF.                        *)
Receive ==
    /\ input.kind = "line" /\ output = None
    /\ output' = createMessageWithCRLF(input.body)
    /\ UNCHANGED input

(* A caller serializes a message. *)
Send ==
    /\ input.kind = "msg" /\ output = None
    /\ output' = Serialize(input.msg)
    /\ UNCHANGED input

Init ==
    /\ input \in {[kind |-> "line", body |-> b] : b \in Lines}
                 \cup {[kind |-> "msg", msg |-> m] : m \in Messages}
    /\ output = None

Next == Receive \/ Send

Spec == Init /\ [][Next]_vars
-----------------------------------------------------------------------------
(***************************************************************************)
(* The grammar of spec 4.4, the reference the parser is checked against:  *)
(* a command, then parameters each after exactly one space, made of        *)
(* [A-Za-z0-9.-] only; integers signed decimal within 32 bits; doubles an  *)
(* optional '-', optional integer part, optional '.' with at most 7        *)
(* fractional digits, and at least one digit.                              *)
(***************************************************************************)
RECURSIVE Segments(_)
Segments(s) ==
    LET sp == SelectInSeq(s, IsSpace) IN
    IF sp = 0 THEN <<s>> ELSE <<SubSeq(s, 1, sp - 1)>> \o Segments(SubSeq(s, sp + 1, Len(s)))

SpecInt(t) ==
    LET neg == t # <<>> /\ t[1] = "-"
        d   == IF neg THEN Tail(t) ELSE t
        v   == IF neg THEN -DigitsValue(d) ELSE DigitsValue(d)
    IN IF d # <<>> /\ ToSet(d) \subseteq Digit /\ INT_MIN <= v /\ v <= INT_MAX THEN v ELSE Null

SpecDouble(t) ==
    LET neg     == t # <<>> /\ t[1] = "-"
        u       == IF neg THEN Tail(t) ELSE t
        ip(i)   == SubSeq(u, 1, i)
        fp(i)   == SubSeq(u, i + 2, Len(u))
        Form(i) == /\ ToSet(ip(i)) \subseteq Digit
                   /\ \/ i = Len(u)
                      \/ u[i + 1] = "." /\ ToSet(fp(i)) \subseteq Digit
                                        /\ Len(fp(i)) <= MAX_FRACTIONAL_DIGITS
                   /\ ToSet(u) \cap Digit # {}
        Value(i) == (DigitsValue(ip(i)) * Scale
                     + DigitsValue(fp(i)) * 10 ^ (MAX_FRACTIONAL_DIGITS - Len(fp(i))))
                    * (IF neg THEN -1 ELSE 1)
    IN IF \E i \in 0..Len(u) : Form(i) THEN Value(CHOOSE i \in 0..Len(u) : Form(i)) ELSE Null

SpecDecode(body) ==
    LET seg  == Segments(body)
        ps   == Tail(seg)
        n    == Len(ps)
        dbl  == [i \in 1..n |-> SpecDouble(ps[i])]
        Dbls == \A i \in 1..n : dbl[i] # Null
        w    == seg[1][1]
    IN IF \/ seg[1] \notin {<<c>> : c \in CommandWord}
          \/ \E i \in 1..n : ps[i] = <<>> \/ ~(ToSet(ps[i]) \subseteq ParamChar)
       THEN Null
       ELSE CASE w = "HELLO" ->
                   IF n = 1 /\ ToSet(ps[1]) \subseteq Letter \cup Digit
                   THEN [type |-> w, player_id |-> ps[1]] ELSE Null
              [] w = "COEFF" ->
                   IF n \in 1..MAX_N + 1 /\ Dbls
                      /\ \A i \in 1..n : dbl[i] \in MIN_COEFF..MAX_COEFF
                   THEN [type |-> w, coeffs |-> dbl] ELSE Null
              [] w = "STATE" ->
                   IF n \in 1..MAX_K + 1 /\ Dbls
                   THEN [type |-> w, approx_values |-> dbl] ELSE Null
              [] w = "SCORING" ->
                   IF n % 2 = 0 /\ \A i \in 1..n : IF i % 2 = 1
                                                   THEN ToSet(ps[i]) \subseteq Letter \cup Digit
                                                   ELSE dbl[i] # Null
                   THEN [type |-> w, player_ids |-> [i \in 1..n \div 2 |-> ps[2 * i - 1]],
                                     scores |-> [i \in 1..n \div 2 |-> dbl[2 * i]]]
                   ELSE Null
              [] OTHER ->
                   IF n = 2 /\ SpecInt(ps[1]) # Null /\ dbl[2] # Null
                   THEN [type |-> w, point |-> SpecInt(ps[1]), value |-> dbl[2]] ELSE Null
-----------------------------------------------------------------------------
(***************************************************************************)
(* Properties.                                                             *)
(***************************************************************************)

(* Every line the framing can hand over is decoded by createMessage as    *)
(* the grammar of spec 4.4 decodes it: refused exactly when the grammar    *)
(* refuses it, and otherwise the same message with the same values. This   *)
(* covers the split at the first space, the parameter regex, the word      *)
(* split, the integer and double formats with their limits, and each       *)
(* class's count and range checks.                                         *)
ParserMatchesGrammar ==
    input.kind = "line" /\ output # None => output = SpecDecode(input.body)

(* Spec 8, parse(serialize(m)) == m: every serializer a caller uses        *)
(* returns a message (never the nullptr its callers would dereference),    *)
(* equal to the one given; SCORING carries the same (id, score) pairs,     *)
(* sorted by id.                                                           *)
SerializersRoundTrip ==
    input.kind = "msg" /\ output # None =>
        LET m == input.msg IN
        IF m.type = "SCORING"
        THEN /\ output # Null /\ output.type = "SCORING"
             /\ ToBag(Zip(output.player_ids, output.scores)) = ToBag(Zip(m.player_ids, m.scores))
             /\ IsSorted(output.player_ids, LAMBDA x, y : ~IdLess(y, x))
        ELSE output = m
====
