---------------------------- MODULE MCNmeaParser ----------------------------
(***************************************************************************)
(* Small instances of NmeaParser.  One byte stands for the five characters *)
(* of a header: 'G' for one of the five known packet types, any other byte *)
(* for an unknown one.  A frame whose body holds an 'x', or that does not  *)
(* start with '$', fails in nmea_parse_gga and its like.                   *)
(***************************************************************************)
EXTENDS NmeaParser, NmeaAscii

Bytes == 0..255

Headers == [GPGGA |-> <<71>>]

FieldsOk(t, s) == s[1] = 36 /\ ~Contains(s, 120)

Good    == <<36, 71, 42, 52, 55, 13, 10>>          \* $G*47\r\n
Unknown == <<36, 85, 42, 53, 53, 13, 10>>          \* $U*55\r\n
BadCrc  == <<36, 71, 42, 48, 48, 13, 10>>          \* $G*00\r\n
BadText == <<36, 71, 120, 42, 51, 70, 13, 10>>     \* $Gx*3F\r\n
Head1   == <<36, 71, 42, 52>>                      \* $G*4
Tail1   == <<55, 13, 10>>                          \* 7\r\n

\* Whole sentences, halves of sentences (a first half followed by anything
\* but its second half blocks the buffer), two sentences in a call, one whose
\* fields do not parse, and the empty call.
Chunks == {Good, Unknown, BadCrc, BadText, Head1, Tail1, Good \o Good, <<>>}

\* A chunk longer than the buffer.
BigChunks == {Good, Good \o Good \o Unknown}
=============================================================================
