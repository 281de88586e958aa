------------------------------ MODULE Percent -------------------------------
(***************************************************************************)
(* class Percent (src/utility.hpp:68-109): what the loops of encode() and  *)
(* decode() do with one character.  A character is its octet.              *)
(***************************************************************************)
EXTENDS Integers, Sequences

Octet == 0..255

AMP == 38
EQUALS == 61
PERCENT == 37
PLUS == 43
SPACE == 32

DigitOctets == 48..57
LetterOctets == (65..90) \cup (97..122)

\* Letters, digits, '-', '.', '_' and '~'.
Unreserved == DigitOctets \cup LetterOctets \cup {45, 46, 95, 126}

\* "0123456789ABCDEF"[n], and what strtol() makes of such a digit.
HexChar(n) == IF n < 10 THEN 48 + n ELSE 55 + n
HexValue(o) == IF o \in DigitOctets THEN o - 48 ELSE o - 55

Encode(o) ==
    IF o \in Unreserved THEN <<o>>
    ELSE <<PERCENT, HexChar(o \div 16), HexChar(o % 16)>>

\* The loop of decode() at position i of the text that ends before `end`:
\* the character it appends, and the position it goes on with.
IsEscape(s, i, end) == s[i] = PERCENT /\ i + 2 < end

Decode(s, i, end) ==
    IF IsEscape(s, i, end) THEN 16 * HexValue(s[i + 1]) + HexValue(s[i + 2])
    ELSE IF s[i] = PLUS THEN SPACE
    ELSE s[i]

Behind(s, i, end) == IF IsEscape(s, i, end) THEN i + 3 ELSE i + 1
=============================================================================
