--------------------------------- MODULE Crc ---------------------------------
(***************************************************************************)
(* U10/crc.c: "calculate" renames a file to <name>.crc and appends a CRC   *)
(* checksum; "validate" checks it, writes the original contents back to    *)
(* <name> and removes <name>.crc.                                          *)
(*                                                                         *)
(* The files hold real bytes and the division is the program's own, so     *)
(* that what a killed command leaves behind, and what damage to the file   *)
(* makes of it, is accepted or rejected as the program would.  A command   *)
(* is killed or fails between two changes to the files; writes reach them  *)
(* where stdio flushes its buffer.                                         *)
(***************************************************************************)
EXTENDS Integers, SequencesExt

CONSTANTS
  Docs,       \* contents a file of the user may have: sequences of bytes
  BufSize,    \* BUFSIZE
  MaxFlips,   \* bound: damage flips at most this many bits, wherever they are,
  MaxBurst    \* or any bits of one stretch of this length

Byte       == 0 .. 255
PolyOrd    == 16
ChecksumByteCnt == 2

ASSUME CrcAssumption ==
  /\ Docs \subseteq Seq(Byte)
  /\ BufSize \in Nat \ {0} /\ MaxFlips \in Nat /\ MaxBurst \in 0 .. PolyOrd
-------------------------------------------------------------------------------
(* The division.  A register, and a polynomial over GF(2), is the set of   *)
(* the positions of its 1 bits; exclusive or is the symmetric difference.  *)

\* The bit k of a file, counted from the highest bit of its first byte.
BitOf(bytes, k) == (bytes[k \div 8 + 1] \div 2 ^ (7 - (k % 8))) % 2

\* next_bit_from: its static byte and offset start anew in each process and
\* end on a byte boundary, so the k-th call returns the file's bit k.
NextBitFrom(bytes, k) == BitOf(bytes, k)

\* The bytes it takes its bits from.  fgetc is not asked whether it failed: EOF
\* is -1, whose bits are all 1, and the next call tries for the byte again.
Fetched(bytes, failed) ==
  [i \in DOMAIN bytes |->
     IF i \in failed THEN 255 ELSE bytes[i - Cardinality(failed \cap (1 .. i))]]

\* (ShortPoly lacks the constant term.)
ShortPoly == {15, 2}
Poly      == {15, 2, 0}      \* x^16 is implicit: it is shifted out

\* One round of calc_crc_rem's loop.
Shift(divReg, bit) ==
  {i + 1 : i \in divReg \ {PolyOrd - 1}} \cup (IF bit = 1 THEN {0} ELSE {})
Divide(divReg, bit) ==
  IF PolyOrd - 1 \in divReg THEN SymDiff(Shift(divReg, bit), Poly) ELSE Shift(divReg, bit)

\* divReg[k] is what the register holds after k bits.
CalcCrcRem(bytes) ==
  LET divReg[k \in 0 .. 8 * Len(bytes)] ==
        IF k = 0 THEN {} ELSE Divide(divReg[k - 1], NextBitFrom(bytes, k - 1))
  IN  divReg[8 * Len(bytes)]

\* The byte whose 1 bits are at these positions (0: the lowest).
ByteOf(ones) ==
  LET bit(i) == IF i \in ones THEN 2 ^ i ELSE 0
  IN  bit(7) + bit(6) + bit(5) + bit(4) + bit(3) + bit(2) + bit(1) + bit(0)

\* The bytes of the checksum (fputc takes one byte at a time).
\* (LowFirst writes them in the other order.)
HighByte(divReg)  == ByteOf({i \in 0 .. 7 : i + 8 \in divReg})
LowByte(divReg)   == ByteOf({i \in 0 .. 7 : i \in divReg})
LowFirst(divReg)  == <<LowByte(divReg), HighByte(divReg)>>
HighFirst(divReg) == <<HighByte(divReg), LowByte(divReg)>>
-------------------------------------------------------------------------------
(* What calc_crc_rem should compute, defined without a register: a file is *)
(* the sum of the powers of x at its 1 bits; its remainder is the sum of   *)
(* the remainders of these powers by x^16 + x^15 + x^2 + 1.                *)
Generator == {16, 15, 2, 0}

Remainder(bytes) ==
  LET last == 8 * Len(bytes) - 1
      PowerRem[e \in 0 .. last] ==
        IF e < PolyOrd THEN {e}
        ELSE LET next == {i + 1 : i \in PowerRem[e - 1]} IN
             IF PolyOrd \in next THEN SymDiff(next, Generator) ELSE next
  IN {i \in 0 .. PolyOrd - 1 :
        Cardinality({k \in 0 .. last : BitOf(bytes, k) = 1 /\ i \in PowerRem[last - k]}) % 2 = 1}
===============================================================================
