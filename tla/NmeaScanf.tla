----------------------------- MODULE NmeaScanf -----------------------------
(***************************************************************************)
(* Field parsing: nmea_scanf, and nmea_parse_gga, gsa, gsv, rmc and vtg,   *)
(* which call it on a framed sentence.  nmea_scanf does not split at the   *)
(* commas: a conversion with a width takes that many characters, one       *)
(* without runs to the next occurrence of the character that follows it in *)
(* the format, %C takes one character unless the field is empty.           *)
(*                                                                         *)
(* Characters are strings of one letter; "9" stands for every digit.  Text  *)
(* and formats start at the comma behind the header: its letters have been *)
(* compared by nmea_pack_type; the '$' before them is the first literal of *)
(* every format and is compared by nmea_scanf (DollarFound).                    *)
(***************************************************************************)
EXTENDS Integers, Sequences, SequencesExt

CONSTANTS
  Char,          \* the characters of a field
  Base,          \* per kind of sentence the list of its fields
  Contents,      \* what may stand in a field instead
  MaxEdits       \* bound: fields replaced

\* What nmea_atoi and nmea_atof copy a token to; time_buff is of the same size.
NMEA_CONVSTR_BUF == 256

\* The formats: per field its conversions.
Fields(n, conv) == [k \in 1..n |-> conv]
Layout == [
  GGA |-> <<<<"s">>, <<"f">>, <<"C">>, <<"f">>, <<"C">>, <<"d">>, <<"d">>, <<"f">>,
            <<"f">>, <<"C">>, <<"f">>, <<"C">>, <<"f">>, <<"d">>>>,
  GSA |-> <<<<"C">>>> \o Fields(13, <<"d">>) \o Fields(3, <<"f">>),
  GSV |-> Fields(19, <<"d">>),
  RMC |-> <<<<"s">>, <<"C">>, <<"f">>, <<"C">>, <<"f">>, <<"C">>, <<"f">>, <<"f">>,
            <<"2d", "2d", "2d">>, <<"f">>, <<"C">>, <<"C">>>>,
  VTG |-> <<<<"f">>, <<"C">>, <<"f">>, <<"C">>, <<"f">>, <<"C">>, <<"f">>, <<"C">>>>]

Conversions == {"s", "C", "f", "d", "2d"}

\* Fields behind commas, and what ends the sentence.
Joined(fields, tail) == FlattenSeq([k \in 1..Len(fields) |-> <<",">> \o fields[k]]) \o tail
Format(kind) == Joined(Layout[kind], <<"*">>)
Text(fields) == Joined(fields, <<"*", "9", "9", "cr", "lf">>)

ASSUME ScanfAssumption ==
  /\ Char \cap {",", "*", ""} = {}   \* a field ends at a comma or at the star
  /\ DOMAIN Base \subseteq DOMAIN Layout
  /\ \A k \in DOMAIN Base : Base[k] \in Seq(Seq(Char))
  /\ Contents \subseteq Seq(Char) /\ MaxEdits \in Nat

VARIABLES
  kind, fields,  \* the sentence
  first,         \* its first byte: nmea_find_tail asks for no '$'
  edits,         \* bound: fields replaced so far
  ret, toks      \* result of nmea_parse_xxx ("none" before), the tokens taken

vars == <<kind, fields, first, edits, ret, toks>>
-----------------------------------------------------------------------------
(* nmea_scanf                                                              *)

Width(conv) == IF conv = "2d" THEN 2 ELSE 0

\* memchr, or the end of the buffer
Find(text, pos, c) ==
  LET hits == {p \in pos..Len(text) : text[p] = c}
  IN  IF hits = {} THEN Len(text) + 1 ELSE CHOOSE p \in hits : \A q \in hits : p <= q

\* Fault: a character that differs from the format's is passed over.
DiffersNever(c, literal) == FALSE

Differs(c, literal) == c # literal

\* Fault: an empty character field is not told from the others.
CharWidthAlways(text, pos, after) == 1

CharWidth(text, pos, after) == IF text[pos] # after THEN 1 ELSE 0

\* Where the token of a conversion at pos ends; after is format[1].
TokenEnd(text, pos, conv, after) ==
  LET width == IF conv = "C" THEN CharWidth(text, pos, after) ELSE Width(conv)
  IN  IF width > 0 THEN pos + width ELSE Find(text, pos, after)

\* Fault: the token may end behind the buffer.
InBufferAlways(text, end) == TRUE

InBuffer(text, end) == end <= Len(text) + 1

\* One turn of the loop: a literal is compared, a conversion takes its token.
Turn(text, format, st, k) ==
  IF st.fail \/ st.pos > Len(text) THEN st
  ELSE IF format[k] \notin Conversions
  THEN [st EXCEPT !.pos = st.pos + 1, !.fail = Differs(text[st.pos], format[k])]
  ELSE LET end == TokenEnd(text, st.pos, format[k], IF k < Len(format) THEN format[k + 1] ELSE "")
       IN  IF InBuffer(text, end)
           THEN [st EXCEPT !.pos = end, !.toks = Append(st.toks, <<st.pos, end>>)]
           ELSE [st EXCEPT !.fail = TRUE]

\* The tokens, as positions [begin, end) of the text.
nmea_scanf(text, format) ==
  LET turns[k \in 0..Len(format)] ==
        IF k = 0 THEN [pos |-> 1, fail |-> FALSE, toks |-> <<>>]
        ELSE Turn(text, format, turns[k - 1], k)
  IN  turns[Len(format)].toks

\* strtol and strtod stop at the first character that is not theirs.
Number(s, allowed) ==
  LET bad == {k \in 1..Len(s) : s[k] \notin allowed}
  IN  IF bad = {} THEN s ELSE SubSeq(s, 1, (CHOOSE k \in bad : \A j \in bad : k <= j) - 1)

\* What the target of a conversion holds: an empty token leaves it alone, and
\* pack was zeroed (<<>>), time_buff was not.
Unset == <<"unset">>
Value(conv, s) ==
  CASE conv = "s" -> IF s = <<>> THEN Unset ELSE s
    [] conv = "C" -> IF s = <<>> THEN <<>> ELSE <<s[1]>>
    [] conv = "f" -> Number(s, {"9", "."})
    [] conv \in {"d", "2d"} -> Number(s, {"9"})

Token(text, t) ==
  [j \in 1..(t[2] - t[1]) |-> LET p == t[1] + j - 1 IN IF p <= Len(text) THEN text[p] ELSE "behind"]

Convs(knd) == FlattenSeq(Layout[knd])
Stored(knd, text, tokens) ==
  [k \in 1..Len(tokens) |-> Value(Convs(knd)[k], Token(text, tokens[k]))]
-----------------------------------------------------------------------------
(* nmea_parse_xxx                                                          *)

TimeScans(time) ==
  CASE Len(time) = 6 -> Len(nmea_scanf(time, <<"2d", "2d", "2d">>)) = 3
    [] Len(time) \in 8..10 -> Len(nmea_scanf(time, <<"2d", "2d", "2d", ".", "d">>)) = 4
    [] OTHER -> FALSE

\* time_buff is not initialised: whether what it holds passes for a time is open
\* when the sentence has none.
_nmea_parse_time(time) == IF time = Unset THEN BOOLEAN ELSE {TimeScans(time)}

\* The tokens of the sentence, and what they leave in the targets.
Tokens == nmea_scanf(Text(fields), Format(kind))
Values == Stored(kind, Text(fields), Tokens)

\* The first turn: '$' against the first byte.
DollarFound == ~Differs(first, "$")

\* nmea_scanf, and one of the outcomes that its result allows.  Without the '$' it
\* takes no token, and every handler refuses its zeroed pack.
Parse(knd, outcomes) ==
  /\ kind = knd /\ ret = "none"
  /\ toks' = IF DollarFound THEN Tokens ELSE <<>>
  /\ \E ok \in (IF DollarFound THEN outcomes ELSE {FALSE}) : ret' = IF ok THEN "1" ELSE "0"
  /\ UNCHANGED <<kind, fields, first, edits>>

nmea_parse_gga == Parse("GGA", IF Len(Values) = 14 THEN _nmea_parse_time(Values[1]) ELSE {FALSE})
nmea_parse_gsa == Parse("GSA", {Len(Values) = 17})

\* The three numbers decide (nmea_parse_gsv of NmeaInfo) unless all is there.
nmea_parse_gsv == Parse("GSV", IF Len(Values) = 19 THEN {TRUE} ELSE BOOLEAN)

\* The century of the year and the base of the month are beyond text in which all
\* digits look alike.
nmea_parse_rmc ==
  Parse("RMC", IF Len(Values) \in {13, 14} THEN _nmea_parse_time(Values[1]) ELSE {FALSE})

nmea_parse_vtg ==
  Parse("VTG", {/\ Len(Values) = 8
                /\ Values[2] = <<"T">> /\ Values[4] = <<"M">>
                /\ Values[6] = <<"N">> /\ Values[8] = <<"K">>})
-----------------------------------------------------------------------------
(* The sentences.  NMEA 0183 allows 82 characters.                         *)

Fits(sentence) == Len(Text(sentence)) < NMEA_CONVSTR_BUF

Init ==
  /\ kind \in DOMAIN Base
  /\ \E n \in 1..Len(Base[kind]) : fields = SubSeq(Base[kind], 1, n)
  /\ Fits(fields) /\ first = "$"
  /\ edits = 0 /\ ret = "none" /\ toks = <<>>

\* Another sentence, with one field replaced.
Replace ==
  /\ ret = "none" /\ edits < MaxEdits
  /\ \E k \in 1..Len(fields), c \in Contents : fields' = [fields EXCEPT ![k] = c]
  /\ Fits(fields')
  /\ edits' = edits + 1
  /\ UNCHANGED <<kind, first, ret, toks>>

\* A frame that starts with another byte: the check sum covers it as little as '$'.
ReplaceFirst ==
  /\ ret = "none" /\ first = "$" /\ edits < MaxEdits
  /\ first' \in Char
  /\ edits' = edits + 1
  /\ UNCHANGED <<kind, fields, ret, toks>>

Next ==
  \/ Replace \/ ReplaceFirst
  \/ nmea_parse_gga \/ nmea_parse_gsa \/ nmea_parse_gsv \/ nmea_parse_rmc \/ nmea_parse_vtg

Spec == Init /\ [][Next]_vars
-----------------------------------------------------------------------------
(* The reference: a sentence is split at its commas.                       *)

Piece(field, k) == SubSeq(field, 2 * k - 1, 2 * k)

\* The fields the format has conversions for; a later version of the protocol
\* may send more.
Read == {k \in DOMAIN fields : k <= Len(Layout[kind])}

\* What the fields say, field by field.
FieldValues(k) ==
  IF Len(Layout[kind][k]) = 1 THEN <<Value(Layout[kind][k][1], fields[k])>>
  ELSE [j \in 1..3 |-> Value("2d", Piece(fields[k], j))]
Reference == FlattenSeq([k \in Read |-> FieldValues(k)])

FieldOk(k) ==
  /\ Layout[kind][k] = <<"C">> => Len(fields[k]) <= 1
  /\ Len(Layout[kind][k]) = 3 => Len(fields[k]) = 6
  /\ Layout[kind][k] = <<"s">> => Len(fields[k]) = 6 \/ (Len(fields[k]) \in 8..10 /\ fields[k][7] = ".")

LengthOk == Len(fields) >= Len(Layout[kind]) \/ (kind = "RMC" /\ Len(fields) = 11)
UnitsOk == kind = "VTG" => \A k \in 1..4 : fields[2 * k] = <<<<"T", "M", "N", "K">>[k]>>

\* An empty character field that does not end where the format says stores the
\* character behind it: the star after eleven fields, the comma of a field more.
LastChar(v) ==
  CASE kind = "RMC" /\ Len(fields) = 11 /\ fields[11] = <<>> -> [v EXCEPT ![13] = <<"*">>]
    [] kind = "RMC" /\ Len(fields) > 12 /\ fields[12] = <<>> -> [v EXCEPT ![14] = <<",">>]
    [] OTHER -> v

\* The tokens follow each other inside the sentence, one conversion each.
TypeOK ==
  /\ ret \in {"none", "0", "1"} /\ Len(toks) <= Len(Convs(kind))
  /\ \A k \in DOMAIN toks :
        /\ toks[k][1] <= toks[k][2] /\ toks[k][2] <= Len(Text(fields)) + 1
        /\ k > 1 => toks[k - 1][2] <= toks[k][1]

\* A sentence of the right shape is accepted.  It has its '$', all fields (an RMC may
\* lack the last), a date of six characters and a time of six or with a fraction, at
\* most one letter in a character field, and the units of a VTG are the four asked
\* for.  Numbers and the other characters may be empty.
WellFormed == first = "$" /\ LengthOk /\ UnitsOk /\ \A k \in Read : FieldOk(k)
GoodAccepted == WellFormed => ret # "0"

\* What is accepted starts with '$' and was read field by field, up to where
\* nmea_scanf stopped, with empty, short and overlong fields anywhere.  Excepted is
\* an RMC whose date has not six characters: %2d%2d%2d reads on in the fields behind
\* it, and the sentence may still be accepted.  Of an empty time it only says that
\* nothing was stored; the sentence may be accepted or not.
DateOk == kind = "RMC" /\ Len(fields) >= 9 => Len(fields[9]) = 6
AcceptedDecodes ==
  (ret = "1" /\ DateOk) =>
    first = "$" /\ IsPrefix(Stored(kind, Text(fields), toks), LastChar(Reference))
=============================================================================
