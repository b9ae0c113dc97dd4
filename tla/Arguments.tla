----------------------------- MODULE Arguments ------------------------------
(***************************************************************************)
(* The value parsers of the command line of statement-ops-bench            *)
(* (src/src/ops/common.rs): topics and accounts of Bytes bytes, in hex or  *)
(* as an SS58 address.  A text is a sequence of characters; a parser       *)
(* returns a sequence of at most one value, <<>> being an error.           *)
(***************************************************************************)
EXTENDS Integers, FiniteSetsExt, SudoKey

CONSTANT Bytes  \* 32 in the code

ASSUME BytesAssumption == Bytes \in Nat \ {0}

Decimal == <<"0", "1", "2", "3", "4", "5", "6", "7", "8", "9">>
LowerCase == <<"a", "b", "c", "d", "e", "f">>
UpperCase == <<"A", "B", "C", "D", "E", "F">>
HexDigit == ToSet(Decimal \o LowerCase \o UpperCase)

PositionIn(c, digits) == CHOOSE i \in DOMAIN digits : digits[i] = c

\* Mutant of HexNibble: the upper-case digits start again at zero.
HexNibbleOfRange(c) ==
  IF c \in ToSet(Decimal) THEN PositionIn(c, Decimal) - 1
  ELSE IF c \in ToSet(LowerCase) THEN PositionIn(c, LowerCase) + 9
  ELSE PositionIn(c, UpperCase) - 1

\* hex_nibble of a hex digit
HexNibble(c) ==
  IF c \in ToSet(Decimal) THEN PositionIn(c, Decimal) - 1
  ELSE IF c \in ToSet(LowerCase) THEN PositionIn(c, LowerCase) + 9
  ELSE PositionIn(c, UpperCase) + 9

\* The loop over pairs of digits, once the length is right.
HexBytes(body) ==
  IF Len(body) = 2 * Bytes /\ ToSet(body) \subseteq HexDigit
  THEN <<[i \in 1 .. Bytes |->
            16 * HexNibble(body[2 * i - 1]) + HexNibble(body[2 * i])]>>
  ELSE <<>>

Prefixes0x == {<<"0", "x">>, <<"0", "X">>}
HasPrefix(text) == \E prefix \in Prefixes0x : IsPrefix(prefix, text)
WithoutPrefix(text) ==
  IF HasPrefix(text) THEN SubSeq(text, 3, Len(text)) ELSE text

ParseTopicHex(text) == HexBytes(WithoutPrefix(text))

\* str::trim
Trim(text) ==
  LET visible == {i \in DOMAIN text : text[i] # " "}
  IN  IF visible = {} THEN <<>> ELSE SubSeq(text, Min(visible), Max(visible))

\* AccountId32::from_ss58check: one address stands for all.
Address == <<"g", "g", "g">>
FromSs58(text) == IF text = Address THEN <<[i \in 1 .. Bytes |-> 1]>> ELSE <<>>

\* What has a prefix, or is as long as an account and all digits, is hex.
ParseAccount(text) ==
  LET trimmed == Trim(text)
      body == WithoutPrefix(trimmed)
  IN  IF \/ HasPrefix(trimmed)
         \/ Len(body) = 2 * Bytes /\ ToSet(body) \subseteq HexDigit
      THEN HexBytes(body)
      ELSE FromSs58(trimmed)

\* hex_full: two lower-case digits for each byte.
HexFull(value) ==
  [i \in 1 .. 2 * Bytes |->
     LET byte == value[(i + 1) \div 2]
     IN  (Decimal \o LowerCase)[1 + IF i % 2 = 1 THEN byte \div 16 ELSE byte % 16]]

\* The reference: a text spells a value if, after a prefix that may be missing,
\* it is what hex_full prints, in digits of either case.
SameDigit(c, d) ==
  \/ c = d
  \/ c \in HexDigit /\ \E i \in 1 .. 6 : {c, d} = {LowerCase[i], UpperCase[i]}
Spells(text, value) ==
  \E prefix \in Prefixes0x \cup {<<>>} :
    /\ Len(text) = Len(prefix) + 2 * Bytes
    /\ IsPrefix(prefix, text)
    /\ \A i \in 1 .. 2 * Bytes :
         SameDigit(text[Len(prefix) + i], HexFull(value)[i])
=============================================================================
