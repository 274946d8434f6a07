----------------------------- MODULE Base64Ref -----------------------------
(***************************************************************************)
(* The base64url alphabet of src/src/base64.c, and what decoding a string  *)
(* with it means, stated byte by byte and without a loop.  The decoder     *)
(* itself, with its loops, offsets and buffers, is module Base64Url; this  *)
(* module is what its result is compared with, and what module Ear uses    *)
(* for the value of a decoded key.                                         *)
(*                                                                         *)
(* A C string is the sequence of its non-NUL bytes.                        *)
(***************************************************************************)
EXTENDS Integers, Sequences

Char == 1..255
Byte == 0..255

(* The table pr2six: the six-bit value of a character of the URL-safe      *)
(* alphabet, 64 for every other one, the NUL terminator included.          *)
pr2six == [c \in 0..255 |->
             CASE c = 45        -> 62            \* '-'
               [] c \in 48..57  -> c + 4         \* '0'..'9'
               [] c \in 65..90  -> c - 65        \* 'A'..'Z'
               [] c = 95        -> 63            \* '_'
               [] c \in 97..122 -> c - 71        \* 'a'..'z'
               [] OTHER         -> 64]

(* The character at offset i, where offset Len(s) holds the terminator.    *)
CharAt(s, i) == IF i < Len(s) THEN s[i + 1] ELSE 0

IsDigit(c) == pr2six[c] <= 63

(* n is where the scan "while (pr2six[*(bufin++)] <= 63)" stops in s: the  *)
(* length of the longest prefix of s inside the alphabet.                  *)
IsPrefixLen(s, n) == /\ \A i \in 0..(n - 1) : IsDigit(CharAt(s, i))
                     /\ ~ IsDigit(CharAt(s, n))

PrefixLen(s) == CHOOSE n \in 0..Len(s) : IsPrefixLen(s, n)

(* The six bits at offset i of s.                                          *)
Six(s, i) == pr2six[CharAt(s, i)]

(* Byte k of the decoding: group k \div 3 of four digits holds bytes       *)
(* 3g, 3g+1 and 3g+2, each made of the low bits of one digit and the high  *)
(* bits of the next.                                                       *)
ByteAt(s, k) ==
  LET q == 4 * (k \div 3)
  IN  CASE k % 3 = 0 -> Six(s, q) * 4 + Six(s, q + 1) \div 16
        [] k % 3 = 1 -> (Six(s, q + 1) % 16) * 16 + Six(s, q + 2) \div 4
        [] OTHER     -> (Six(s, q + 2) % 4) * 64 + Six(s, q + 3)

(* Only whole bytes count: six bits per digit, the rest is dropped.        *)
DecodedLen(s) == (6 * PrefixLen(s)) \div 8

Decoded(s) == [j \in 1..DecodedLen(s) |-> ByteAt(s, j - 1)]

=============================================================================
