------------------------------- MODULE AdaHex -------------------------------
(***************************************************************************)
(* libmupy/muutils.py: numbers as Ada hex literals.  16#0123_4567# is the  *)
(* sequence of its groups <<<<0,1,2,3>>, <<4,5,6,7>>>>.                     *)
(***************************************************************************)
EXTENDS Integers, Sequences, SequencesExt

\* hex(value).lstrip("0x"): the digits without leading zeros, none at all for 0.
HexDigits[n \in Nat] == IF n = 0 THEN <<>> ELSE Append(HexDigits[n \div 16], n % 16)

\* Zeros in front up to a multiple of four digits.
rjust(val) == [k \in 1 .. ((-Len(val)) % 4) |-> 0] \o val

\* The loop that puts an underscore before every fourth digit but the first.
Grouped(val) ==
  [g \in 1 .. ((Len(val) + 3) \div 4) |->
     SubSeq(val, 4 * g - 3, IF 4 * g < Len(val) THEN 4 * g ELSE Len(val))]

int_to_ada_hex(value) == Grouped(rjust(HexDigits[value]))

NoDigits == -1   \* int('', 16) raises ValueError

ada_hex_to_int(text) ==
  IF text = <<>> THEN NoDigits
  ELSE FoldLeft(LAMBDA n, group : FoldLeft(LAMBDA k, d : 16 * k + d, n, group), 0, text)
=============================================================================
