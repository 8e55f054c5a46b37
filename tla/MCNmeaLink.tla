----------------------------- MODULE MCNmeaLink -----------------------------
(***************************************************************************)
(* Streams for NmeaLink.  As in MCNmeaParser one byte stands for the       *)
(* header; the byte behind it makes the sentences of a stream different.   *)
(***************************************************************************)
EXTENDS NmeaLink, NmeaAscii

Bytes == 0..255

Headers == [GPGGA |-> <<71>>]
FieldsOk(t, s) == s[1] = 36 /\ ~Contains(s, 120)

S0 == <<36, 71, 48, 42, 55, 55, 13, 10>>           \* $G0*77\r\n
S1 == <<36, 71, 49, 42, 55, 54, 13, 10>>           \* $G1*76\r\n
S2 == <<36, 71, 50, 42, 55, 53, 13, 10>>           \* $G2*75\r\n
Unknown == <<36, 85, 42, 53, 53, 13, 10>>          \* $U*55\r\n
BadCrc  == <<36, 71, 42, 48, 48, 13, 10>>          \* $G*00\r\n
BadText == <<36, 71, 120, 42, 51, 70, 13, 10>>     \* $Gx*3F\r\n
Noise   == <<48, 13>>                              \* no '$' and no '*'
Stray   == <<42>>                                  \* '*'

\* Clean streams, streams with noise between sentences, and one whose stray
\* '*' blocks the buffer.
Streams == {S0 \o S1 \o S2, Unknown \o S0 \o BadCrc \o S1,
            Noise \o S0 \o BadText, S0 \o Stray \o S1}

CleanStreams == {S0 \o S1 \o S2, S0 \o Unknown \o S1, S0 \o BadCrc \o S1 \o S2,
                 BadText \o S0 \o S1}

NoChunk == {}
=============================================================================
