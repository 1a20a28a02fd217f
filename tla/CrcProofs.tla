------------------------------ MODULE CrcProofs ------------------------------
(***************************************************************************)
(* U10/crc.c, for files of any length: the division register computes the  *)
(* remainder; a file that calculate has completed verifies, unless a read  *)
(* failed; no command, killed anywhere, loses the user's file; validate    *)
(* accepts no other file for it, if damage flips one bit or a burst of up  *)
(* to 16.  (CrcFile says which failed reads go unnoticed.)                 *)
(***************************************************************************)
EXTENDS CrcFile, ListLemmas, FiniteSetTheorems

-------------------------------------------------------------------------------
(* Bytes and bits.                                                         *)

(* A byte is its eight bits, highest first: halving it shows each of them. *)
LEMMA EightBits ==
  ASSUME NEW s0 \in {0, 1}, NEW s1 \in {0, 1}, NEW s2 \in {0, 1}, NEW s3 \in {0, 1},
         NEW s4 \in {0, 1}, NEW s5 \in {0, 1}, NEW s6 \in {0, 1}, NEW s7 \in {0, 1},
         NEW b, b = 128 * s7 + 64 * s6 + 32 * s5 + 16 * s4 + 8 * s3 + 4 * s2 + 2 * s1 + s0
  PROVE  /\ b \in Byte
         /\ (b \div 128) % 2 = s7 /\ (b \div 64) % 2 = s6
         /\ (b \div 32) % 2 = s5 /\ (b \div 16) % 2 = s4
         /\ (b \div 8) % 2 = s3 /\ (b \div 4) % 2 = s2
         /\ (b \div 2) % 2 = s1 /\ b % 2 = s0
BY DEF Byte

(* ByteOf returns the byte whose 1 bits are at the given positions.        *)
LEMMA ByteOfBits ==
  ASSUME NEW X, X \subseteq 0 .. 7
  PROVE  /\ ByteOf(X) \in Byte
         /\ \A i \in 0 .. 7 : (ByteOf(X) \div 2 ^ i) % 2 = IF i \in X THEN 1 ELSE 0
<1> DEFINE s(i) == IF i \in X THEN 1 ELSE 0
<1>1. ByteOf(X) = 128 * s(7) + 64 * s(6) + 32 * s(5) + 16 * s(4)
                  + 8 * s(3) + 4 * s(2) + 2 * s(1) + s(0)
  <2>1. \A i \in 0 .. 7 : (IF i \in X THEN 2 ^ i ELSE 0) = 2 ^ i * s(i)
    OBVIOUS
  <2>2. /\ 2 ^ 7 = 128 /\ 2 ^ 6 = 64 /\ 2 ^ 5 = 32 /\ 2 ^ 4 = 16
        /\ 2 ^ 3 = 8 /\ 2 ^ 2 = 4 /\ 2 ^ 1 = 2 /\ 2 ^ 0 = 1
    OBVIOUS
  <2>. QED BY <2>2 DEF ByteOf
<1>2. \A i \in 0 .. 7 : s(i) \in {0, 1}
  OBVIOUS
<1> HIDE DEF s
<1>3. /\ ByteOf(X) \in Byte
      /\ (ByteOf(X) \div 128) % 2 = s(7) /\ (ByteOf(X) \div 64) % 2 = s(6)
      /\ (ByteOf(X) \div 32) % 2 = s(5) /\ (ByteOf(X) \div 16) % 2 = s(4)
      /\ (ByteOf(X) \div 8) % 2 = s(3) /\ (ByteOf(X) \div 4) % 2 = s(2)
      /\ (ByteOf(X) \div 2) % 2 = s(1) /\ ByteOf(X) % 2 = s(0)
  <2>1. PICK b : b = ByteOf(X)
    OBVIOUS
  <2>2. PICK s0, s1, s2, s3, s4, s5, s6, s7 :
          /\ s0 = s(0) /\ s1 = s(1) /\ s2 = s(2) /\ s3 = s(3)
          /\ s4 = s(4) /\ s5 = s(5) /\ s6 = s(6) /\ s7 = s(7)
    OBVIOUS
  <2>3. /\ s0 \in {0, 1} /\ s1 \in {0, 1} /\ s2 \in {0, 1} /\ s3 \in {0, 1}
        /\ s4 \in {0, 1} /\ s5 \in {0, 1} /\ s6 \in {0, 1} /\ s7 \in {0, 1}
    BY <1>2, <2>2
  <2>4. b = 128 * s7 + 64 * s6 + 32 * s5 + 16 * s4 + 8 * s3 + 4 * s2 + 2 * s1 + s0
    BY <1>1, <2>1, <2>2
  <2>5. /\ b \in Byte
        /\ (b \div 128) % 2 = s7 /\ (b \div 64) % 2 = s6
        /\ (b \div 32) % 2 = s5 /\ (b \div 16) % 2 = s4
        /\ (b \div 8) % 2 = s3 /\ (b \div 4) % 2 = s2
        /\ (b \div 2) % 2 = s1 /\ b % 2 = s0
    BY <2>3, <2>4, EightBits
  <2>. QED BY <2>1, <2>2, <2>5
<1>4. ASSUME NEW i \in 0 .. 7 PROVE (ByteOf(X) \div 2 ^ i) % 2 = s(i)
  <2>1. /\ 2 ^ 7 = 128 /\ 2 ^ 6 = 64 /\ 2 ^ 5 = 32 /\ 2 ^ 4 = 16
        /\ 2 ^ 3 = 8 /\ 2 ^ 2 = 4 /\ 2 ^ 1 = 2 /\ 2 ^ 0 = 1
    OBVIOUS
  <2>2. ByteOf(X) \div 1 = ByteOf(X)
    BY <1>3 DEF Byte
  <2>3. i = 0 \/ i = 1 \/ i = 2 \/ i = 3 \/ i = 4 \/ i = 5 \/ i = 6 \/ i = 7
    OBVIOUS
  <2>4. CASE i = 0
    BY <1>3, <2>1, <2>2, <2>4
  <2>5. CASE i = 1
    BY <1>3, <2>1, <2>5
  <2>6. CASE i = 2
    BY <1>3, <2>1, <2>6
  <2>7. CASE i = 3
    BY <1>3, <2>1, <2>7
  <2>8. CASE i = 4
    BY <1>3, <2>1, <2>8
  <2>9. CASE i = 5
    BY <1>3, <2>1, <2>9
  <2>10. CASE i = 6
    BY <1>3, <2>1, <2>10
  <2>11. CASE i = 7
    BY <1>3, <2>1, <2>11
  <2>. QED BY <2>3, <2>4, <2>5, <2>6, <2>7, <2>8, <2>9, <2>10, <2>11
<1>. QED BY <1>3, <1>4 DEF s

(* A byte has no bits but 0 and 1, wherever they stand in a file.          *)
LEMMA BitsAreBits ==
  ASSUME NEW bytes \in Seq(Byte), NEW k \in 0 .. 8 * Len(bytes) - 1
  PROVE  /\ k \div 8 + 1 \in 1 .. Len(bytes) /\ k % 8 \in 0 .. 7
         /\ bytes[k \div 8 + 1] \in Byte
         /\ BitOf(bytes, k) \in {0, 1}
<1>1. Len(bytes) \in Nat
  OBVIOUS
<1>2. k \div 8 + 1 \in 1 .. Len(bytes) /\ k % 8 \in 0 .. 7
  BY <1>1
<1>3. bytes[k \div 8 + 1] \in Byte
  BY <1>2
<1>4. BitOf(bytes, k) \in {0, 1}
  <2>1. PICK b : b = bytes[k \div 8 + 1]
    OBVIOUS
  <2>2. PICK p : p = 2 ^ (7 - (k % 8))
    OBVIOUS
  <2>3. PICK m \in 0 .. 7 : m = k % 8
    BY <1>2
  <2>4. p \in {1, 2, 4, 8, 16, 32, 64, 128}
    <3>1. m = 0 \/ m = 1 \/ m = 2 \/ m = 3 \/ m = 4 \/ m = 5 \/ m = 6 \/ m = 7
      OBVIOUS
    <3>2. /\ 2 ^ (7 - 0) = 128 /\ 2 ^ (7 - 1) = 64 /\ 2 ^ (7 - 2) = 32 /\ 2 ^ (7 - 3) = 16
          /\ 2 ^ (7 - 4) = 8 /\ 2 ^ (7 - 5) = 4 /\ 2 ^ (7 - 6) = 2 /\ 2 ^ (7 - 7) = 1
      OBVIOUS
    <3>3. p = 2 ^ (7 - m)
      BY <2>2, <2>3
    <3>4. (m = 0 => p = 128) /\ (m = 1 => p = 64) /\ (m = 2 => p = 32) /\ (m = 3 => p = 16)
      BY <3>2, <3>3, Zenon
    <3>5. (m = 4 => p = 8) /\ (m = 5 => p = 4) /\ (m = 6 => p = 2) /\ (m = 7 => p = 1)
      BY <3>2, <3>3, Zenon
    <3>. QED BY <3>1, <3>4, <3>5, Zenon
  <2>5. b \div p \in Int
    <3>1. b \in Int
      <4>1. b \in Byte
        BY <1>3, <2>1, Zenon
      <4>. QED BY <4>1 DEF Byte
    <3>2. p \in Int /\ p > 0
      BY <2>4
    <3>. QED BY <3>1, <3>2
  <2>6. \A q \in Int : q % 2 \in {0, 1}
    OBVIOUS
  <2>. QED BY <2>1, <2>2, <2>5, <2>6 DEF BitOf
<1>. QED BY <1>2, <1>3, <1>4

(* The bits of two byte lists one behind the other.                        *)
LEMMA BitOfConcat ==
  ASSUME NEW a \in Seq(Byte), NEW b \in Seq(Byte)
  PROVE  /\ \A k \in 0 .. 8 * Len(a) - 1 : BitOf(a \o b, k) = BitOf(a, k)
         /\ \A k \in 0 .. 8 * Len(b) - 1 : BitOf(a \o b, 8 * Len(a) + k) = BitOf(b, k)
<1>1. Len(a) \in Nat /\ Len(b) \in Nat
  OBVIOUS
<1>2. ASSUME NEW k \in 0 .. 8 * Len(a) - 1 PROVE BitOf(a \o b, k) = BitOf(a, k)
  <2>1. k \div 8 + 1 \in 1 .. Len(a)
    BY <1>1
  <2>2. (a \o b)[k \div 8 + 1] = a[k \div 8 + 1]
    BY <2>1
  <2>. QED BY <2>2 DEF BitOf
<1>3. ASSUME NEW k \in 0 .. 8 * Len(b) - 1
      PROVE  BitOf(a \o b, 8 * Len(a) + k) = BitOf(b, k)
  <2>1. k \div 8 + 1 \in 1 .. Len(b)
    BY <1>1
  <2>2. (8 * Len(a) + k) % 8 = k % 8 /\ (8 * Len(a) + k) \div 8 + 1 = Len(a) + (k \div 8 + 1)
    BY <1>1
  <2>3. (a \o b)[Len(a) + (k \div 8 + 1)] = b[k \div 8 + 1]
    BY <2>1
  <2>. QED BY <2>2, <2>3 DEF BitOf
<1>. QED BY <1>2, <1>3

(* The bits of the checksum made of a register.                            *)
LEMMA BitsOfChecksum ==
  ASSUME NEW R, R \subseteq 0 .. PolyOrd - 1
  PROVE  /\ HighFirst(R) \in Seq(Byte) /\ Len(HighFirst(R)) = 2
         /\ \A k \in 0 .. 15 : BitOf(HighFirst(R), k) = IF 15 - k \in R THEN 1 ELSE 0
<1> DEFINE hi == {i \in 0 .. 7 : i + 8 \in R}
           lo == {i \in 0 .. 7 : i \in R}
<1>1. HighFirst(R) = <<ByteOf(hi), ByteOf(lo)>>
  BY DEF HighFirst, HighByte, LowByte
<1>2. /\ ByteOf(hi) \in Byte /\ ByteOf(lo) \in Byte
      /\ \A i \in 0 .. 7 : (ByteOf(hi) \div 2 ^ i) % 2 = IF i \in hi THEN 1 ELSE 0
      /\ \A i \in 0 .. 7 : (ByteOf(lo) \div 2 ^ i) % 2 = IF i \in lo THEN 1 ELSE 0
  BY ByteOfBits
<1>3. ASSUME NEW k \in 0 .. 15
      PROVE  BitOf(HighFirst(R), k) = IF 15 - k \in R THEN 1 ELSE 0
  <2>1. PICK i \in 0 .. 7 : i = 7 - (k % 8)
    OBVIOUS
  <2>2. CASE k < 8
    <3>1. k \div 8 + 1 = 1 /\ i + 8 = 15 - k
      BY <2>1, <2>2
    <3>2. HighFirst(R)[k \div 8 + 1] = ByteOf(hi)
      BY <1>1, <3>1
    <3>3. i \in hi <=> 15 - k \in R
      BY <3>1
    <3>. QED BY <1>2, <2>1, <3>2, <3>3 DEF BitOf
  <2>3. CASE ~ (k < 8)
    <3>1. k \div 8 + 1 = 2 /\ i = 15 - k
      BY <2>1, <2>3
    <3>2. HighFirst(R)[k \div 8 + 1] = ByteOf(lo)
      BY <1>1, <3>1
    <3>3. i \in lo <=> 15 - k \in R
      BY <3>1
    <3>. QED BY <1>2, <2>1, <3>2, <3>3 DEF BitOf
  <2>. QED BY <2>2, <2>3
<1>. QED BY <1>1, <1>2, <1>3

(* The padding is the checksum of an empty register: it has no 1 bits.     *)
LEMMA BitsOfPadding ==
  /\ Padding \in Seq(Byte) /\ Len(Padding) = 2
  /\ \A k \in 0 .. 15 : BitOf(Padding, k) = 0
<1>1. ByteOf({}) = 0
  BY DEF ByteOf
<1>2. {i \in 0 .. 7 : i + 8 \in {}} = {} /\ {i \in 0 .. 7 : i \in {}} = {}
  OBVIOUS
<1>3. HighFirst({}) = Padding
  BY <1>1, <1>2 DEF HighFirst, HighByte, LowByte, Padding
<1>. QED BY <1>3, BitsOfChecksum

-------------------------------------------------------------------------------
(* The division register.                                                  *)

Reg == 0 .. PolyOrd - 1

(* One round shifts the register, and adds the polynomial if a bit falls   *)
(* out of it.                                                              *)
LEMMA DivideBits ==
  ASSUME NEW X, X \subseteq Reg, NEW bit
  PROVE  /\ Divide(X, bit) \subseteq Reg
         /\ 0 \in Divide(X, bit) <=> ~ (15 \in X <=> bit = 1)
         /\ \A i \in 1 .. 15 : i \in Divide(X, bit) <=> ~ (i - 1 \in X <=> 15 \in X /\ i \in Poly)
<1> DEFINE S == Shift(X, bit)
<1>1. \A i : i \in S <=> (\E x \in X \ {15} : i = x + 1) \/ (i = 0 /\ bit = 1)
  BY DEF Shift, PolyOrd
<1>2. S \subseteq Reg
  BY <1>1 DEF Reg, PolyOrd
<1>3. 0 \in S <=> bit = 1
  <2>1. \A x \in X : x + 1 # 0
    BY DEF Reg, PolyOrd
  <2>. QED BY <1>1, <2>1
<1>4. ASSUME NEW i \in 1 .. 15 PROVE i \in S <=> i - 1 \in X
  <2>1. \A x \in X : i = x + 1 <=> x = i - 1
    BY DEF Reg, PolyOrd
  <2>2. i - 1 # 15 /\ i # 0
    OBVIOUS
  <2>. QED BY <1>1, <2>1, <2>2
<1> HIDE DEF S
<1>5. \A i : i \in Divide(X, bit) <=> ~ (i \in S <=> 15 \in X /\ i \in Poly)
  <2>1. PolyOrd - 1 = 15
    BY DEF PolyOrd
  <2>2. Divide(X, bit) = IF 15 \in X THEN SymDiff(S, Poly) ELSE S
    BY <2>1 DEF Divide, S
  <2>3. \A i : i \in SymDiff(S, Poly) <=> ~ (i \in S <=> i \in Poly)
    BY DEF SymDiff
  <2>. QED BY <2>2, <2>3
<1>6. Poly \subseteq Reg /\ 0 \in Poly
  BY DEF Poly, Reg, PolyOrd
<1>7. Divide(X, bit) \subseteq Reg
  BY <1>2, <1>5, <1>6, Zenon
<1>8. 0 \in Divide(X, bit) <=> ~ (15 \in X <=> bit = 1)
  BY <1>3, <1>5, <1>6
<1>. QED BY <1>4, <1>5, <1>7, <1>8

\* f[k] is what the register holds after the first k bits.
Registers(f, bytes) ==
  /\ f \in [0 .. 8 * Len(bytes) -> SUBSET Reg] /\ f[0] = {}
  /\ \A k \in 1 .. 8 * Len(bytes) : f[k] = Divide(f[k - 1], BitOf(bytes, k - 1))

(* The register has a value after each bit, and calc_crc_rem returns the   *)
(* last of them.                                                           *)
LEMMA RegistersExist ==
  ASSUME NEW bytes \in Seq(Byte)
  PROVE  \E f : Registers(f, bytes)
<1> DEFINE n == 8 * Len(bytes)
           step == [k \in 1 .. n |-> [X \in SUBSET Reg |-> Divide(X, BitOf(bytes, k - 1))]]
<1>1. n \in Nat
  OBVIOUS
<1>2. step \in [1 .. n -> [SUBSET Reg -> SUBSET Reg]]
  <2>1. \A k : \A X \in SUBSET Reg : Divide(X, BitOf(bytes, k - 1)) \in SUBSET Reg
    <3>1. ASSUME NEW k, NEW X \in SUBSET Reg
          PROVE  Divide(X, BitOf(bytes, k - 1)) \subseteq Reg
      BY DivideBits, Zenon
    <3>. QED BY <3>1
  <2>. QED BY <2>1
<1>3. \A k \in 1 .. n : \A X \in SUBSET Reg : step[k][X] = Divide(X, BitOf(bytes, k - 1))
  OBVIOUS
<1> HIDE DEF n, step
<1>4. PICK f \in [0 .. n -> SUBSET Reg] : f[0] = {} /\ \A k \in 1 .. n : f[k] = step[k][f[k - 1]]
  <2>1. PICK S, a : S = SUBSET Reg /\ a = {}
    OBVIOUS
  <2>2. a \in S /\ step \in [1 .. n -> [S -> S]]
    BY <1>2, <2>1
  <2>3. \E f \in [0 .. n -> S] : f[0] = a /\ \A k \in 1 .. n : f[k] = step[k][f[k - 1]]
    BY <1>1, <2>2, RecursionExists, SMTT(30)
  <2>. QED BY <2>1, <2>3, Zenon
<1>5. ASSUME NEW k \in 1 .. n PROVE f[k] = Divide(f[k - 1], BitOf(bytes, k - 1))
  <2>1. f[k - 1] \in SUBSET Reg
    BY <1>1, <1>4
  <2>. QED BY <1>3, <1>4, <2>1
<1>. QED BY <1>4, <1>5 DEF n, Registers

LEMMA CalcIs ==
  ASSUME NEW bytes \in Seq(Byte), NEW f, Registers(f, bytes)
  PROVE  CalcCrcRem(bytes) = f[8 * Len(bytes)]
<1> DEFINE n == 8 * Len(bytes)
           Eq(g) == g = [k \in 0 .. n |->
                           IF k = 0 THEN {} ELSE Divide(g[k - 1], BitOf(bytes, k - 1))]
           divReg == CHOOSE g : Eq(g)
<1>1. n \in Nat
  OBVIOUS
<1>2. Eq(f)
  <2>1. ASSUME NEW k \in 0 .. n
        PROVE  f[k] = IF k = 0 THEN {} ELSE Divide(f[k - 1], BitOf(bytes, k - 1))
    BY <1>1 DEF Registers
  <2>2. f \in [0 .. n -> SUBSET Reg]
    BY DEF Registers
  <2>. QED BY <2>1, <2>2
<1>3. Eq(divReg)
  BY <1>2, Zenon
<1>4. CalcCrcRem(bytes) = divReg[n]
  BY Zenon DEF CalcCrcRem, NextBitFrom, divReg
<1> HIDE DEF divReg
<1>5. \A k \in 0 .. n : divReg[k] = IF k = 0 THEN {} ELSE Divide(divReg[k - 1], BitOf(bytes, k - 1))
  BY <1>3, Zenon
<1> DEFINE Same == {k \in Nat : k <= n => divReg[k] = f[k]}
<1>6. 0 \in Same
  <2>1. 0 \in 0 .. n
    BY <1>1
  <2>2. divReg[0] = {} /\ f[0] = {}
    BY <1>5, <2>1, Zenon DEF Registers
  <2>. QED BY <2>2
<1>7. ASSUME NEW k \in Nat, k \in Same PROVE k + 1 \in Same
  <2> SUFFICES ASSUME k + 1 <= n PROVE divReg[k + 1] = f[k + 1]
    OBVIOUS
  <2>1. /\ k + 1 \in 0 .. n /\ k + 1 \in 1 .. n /\ k + 1 # 0 /\ (k + 1) - 1 = k
        /\ divReg[k] = f[k]
    BY <1>1, <1>7
  <2>2. divReg[k + 1] = Divide(divReg[(k + 1) - 1], BitOf(bytes, (k + 1) - 1))
    BY <1>5, <2>1, Zenon
  <2>3. f[k + 1] = Divide(f[(k + 1) - 1], BitOf(bytes, (k + 1) - 1))
    BY <2>1, Zenon DEF Registers, n
  <2>. QED BY <2>1, <2>2, <2>3, Zenon
<1>8. 0 \in Same /\ \A k \in Nat : k \in Same => k + 1 \in Same
  BY <1>6, <1>7
<1>9. divReg[n] = f[n]
  <2> HIDE DEF Same
  <2>1. n \in Same /\ n <= n
    BY <1>1, <1>8, NatInductiveSet
  <2>. QED BY <2>1 DEF Same
<1>. QED BY <1>4, <1>9

(* Two more bytes make a file two bytes longer.                            *)
LEMMA TwoMore ==
  ASSUME NEW c \in Seq(Byte), NEW d \in Seq(Byte), Len(d) = 2
  PROVE  /\ c \o d \in Seq(Byte) /\ Len(c \o d) = Len(c) + 2 /\ Len(c) \in Nat
         /\ 8 * Len(c \o d) = 8 * Len(c) + 16
<1>1. c \o d \in Seq(Byte) /\ Len(c \o d) = Len(c) + Len(d)
  BY ConcatProperties, Zenon
<1>2. Len(c) \in Nat
  OBVIOUS
<1>3. Len(c \o d) = Len(c) + 2
  BY <1>1, Zenon
<1>4. 8 * (Len(c) + 2) = 8 * Len(c) + 16
  BY <1>2
<1>. QED BY <1>1, <1>2, <1>3, <1>4, Zenon

(* The remainder of a file is a register.                                  *)
LEMMA CalcType ==
  ASSUME NEW bytes \in Seq(Byte)
  PROVE  CalcCrcRem(bytes) \in SUBSET Reg
<1>1. PICK f : Registers(f, bytes)
  BY RegistersExist
<1>2. 8 * Len(bytes) \in 0 .. 8 * Len(bytes)
  OBVIOUS
<1>3. f[8 * Len(bytes)] \in SUBSET Reg
  BY <1>1, <1>2 DEF Registers
<1>. QED BY <1>1, <1>3, CalcIs

(* The rounds of the division, counted from 0.                             *)
LEMMA Rounds ==
  ASSUME NEW a \in Seq(Byte), NEW f, Registers(f, a),
         NEW k \in 0 .. 8 * Len(a) - 1
  PROVE  f[k] \in SUBSET Reg /\ f[k + 1] = Divide(f[k], BitOf(a, k))
<1>1. k \in 0 .. 8 * Len(a) /\ k + 1 \in 1 .. 8 * Len(a) /\ (k + 1) - 1 = k
  OBVIOUS
<1>2. f[k + 1] = Divide(f[(k + 1) - 1], BitOf(a, (k + 1) - 1))
  BY <1>1, Zenon DEF Registers
<1>3. f[k] \in SUBSET Reg
  BY <1>1 DEF Registers
<1>. QED BY <1>1, <1>2, <1>3

\* The first bits of the two files are the same.
SameUpTo(s, a, b) == \A k \in 0 .. s - 1 : BitOf(a, k) = BitOf(b, k)

\* After the first k bits, the registers differ in the last i of them.
DifferInLast(i, k, a, f, b, g) ==
  \A j \in Reg : (j \in f[k] <=> j \in g[k]) <=>
                  (j < i => (BitOf(a, k - 1 - j) = 1 <=> BitOf(b, k - 1 - j) = 1))

(* While the 16 bits after a common beginning of two files go by, the      *)
(* registers differ where the bits that are in do: none of them has left   *)
(* the register yet.                                                       *)
LEMMA RegistersDiffer ==
  ASSUME NEW a \in Seq(Byte), NEW f, Registers(f, a),
         NEW b \in Seq(Byte), NEW g, Registers(g, b),
         Len(b) = Len(a), NEW s \in Nat, SameUpTo(s, a, b),
         NEW len \in 0 .. 16, s + len <= 8 * Len(a)
  PROVE  DifferInLast(len, s + len, a, f, b, g)
<1> DEFINE n == 8 * Len(a)
<1>0. n \in Nat /\ n = 8 * Len(b)
  OBVIOUS
<1>1. \A k \in 0 .. n - 1 : /\ f[k] \in SUBSET Reg /\ f[k + 1] = Divide(f[k], BitOf(a, k))
                           /\ g[k] \in SUBSET Reg /\ g[k + 1] = Divide(g[k], BitOf(b, k))
  BY Rounds
<1>2. f[s] = g[s]
  <2> DEFINE Same == {k \in Nat : k <= s => f[k] = g[k]}
  <2>1. 0 \in Same
    BY DEF Registers
  <2>2. ASSUME NEW k \in Nat, k \in Same PROVE k + 1 \in Same
    <3> SUFFICES ASSUME k + 1 <= s PROVE f[k + 1] = g[k + 1]
      OBVIOUS
    <3>1. k \in 0 .. n - 1 /\ k \in 0 .. s - 1 /\ f[k] = g[k]
      BY <2>2
    <3>2. BitOf(a, k) = BitOf(b, k)
      BY <3>1 DEF SameUpTo
    <3>. QED BY <1>1, <3>1, <3>2
  <2>3. 0 \in Same /\ \A k \in Nat : k \in Same => k + 1 \in Same
    BY <2>1, <2>2
  <2> HIDE DEF Same
  <2>4. Nat \subseteq Same
    BY <2>3, NatInductiveSet
  <2>5. s \in Nat /\ s <= s
    OBVIOUS
  <2>. QED BY <2>4, <2>5 DEF Same
<1> DEFINE Rel(i) == \A j \in Reg :
                       (j \in f[s + i] <=> j \in g[s + i]) <=>
                         (j < i => (BitOf(a, (s + i) - 1 - j) = 1
                                      <=> BitOf(b, (s + i) - 1 - j) = 1))
           Good   == {i \in Nat : i <= len => Rel(i)}
<1>3. Rel(0)
  <2>1. \A j \in Reg : ~ (j < 0)
    BY DEF Reg, PolyOrd
  <2>2. s + 0 = s
    OBVIOUS
  <2>. QED BY <1>2, <2>1, <2>2, Zenon
<1>4. ASSUME NEW i \in Nat, i + 1 <= len, Rel(i) PROVE Rel(i + 1)
  <2>1. /\ s + i \in 0 .. n - 1 /\ (s + i) + 1 = s + (i + 1)
        /\ (s + (i + 1)) - 1 - 0 = s + i /\ 0 < i + 1
        /\ 15 \in Reg /\ ~ (15 < i)
    <3>1. i + 1 <= len
      BY <1>4, Zenon
    <3>. QED BY <3>1 DEF Reg, PolyOrd
  <2>2. PICK X \in SUBSET Reg, Y \in SUBSET Reg :
          /\ X = f[s + i] /\ f[s + (i + 1)] = Divide(X, BitOf(a, s + i))
          /\ Y = g[s + i] /\ g[s + (i + 1)] = Divide(Y, BitOf(b, s + i))
    <3>1. /\ f[s + i] \in SUBSET Reg /\ f[(s + i) + 1] = Divide(f[s + i], BitOf(a, s + i))
          /\ g[s + i] \in SUBSET Reg /\ g[(s + i) + 1] = Divide(g[s + i], BitOf(b, s + i))
      BY <1>1, <2>1, Zenon
    <3>. QED BY <2>1, <3>1
  <2>3. 15 \in X <=> 15 \in Y
    BY <1>4, <2>1, <2>2, Zenon
  <2>4. ASSUME NEW j \in Reg
        PROVE  (j \in f[s + (i + 1)] <=> j \in g[s + (i + 1)]) <=>
                 (j < i + 1 => (BitOf(a, (s + (i + 1)) - 1 - j) = 1
                                  <=> BitOf(b, (s + (i + 1)) - 1 - j) = 1))
    <3>1. CASE j = 0
      <4>1. \A Z \in SUBSET Reg : \A bit : 0 \in Divide(Z, bit) <=> ~ (15 \in Z <=> bit = 1)
        BY DivideBits
      <4>2. /\ 0 \in f[s + (i + 1)] <=> ~ (15 \in X <=> BitOf(a, s + i) = 1)
            /\ 0 \in g[s + (i + 1)] <=> ~ (15 \in Y <=> BitOf(b, s + i) = 1)
        BY <2>2, <4>1, Zenon
      <4>. QED BY <2>1, <2>3, <3>1, <4>2, Zenon
    <3>2. CASE j # 0
      <4>1. /\ j \in 1 .. 15 /\ j - 1 \in Reg /\ (j - 1 < i <=> j < i + 1)
            /\ (s + i) - 1 - (j - 1) = (s + (i + 1)) - 1 - j
        BY <3>2 DEF Reg, PolyOrd
      <4>2. \A Z \in SUBSET Reg : \A bit :
              j \in Divide(Z, bit) <=> ~ (j - 1 \in Z <=> 15 \in Z /\ j \in Poly)
        BY <4>1, DivideBits
      <4>3. /\ j \in f[s + (i + 1)] <=> ~ (j - 1 \in X <=> 15 \in X /\ j \in Poly)
            /\ j \in g[s + (i + 1)] <=> ~ (j - 1 \in Y <=> 15 \in Y /\ j \in Poly)
        <5>1. /\ j \in Divide(X, BitOf(a, s + i)) <=> ~ (j - 1 \in X <=> 15 \in X /\ j \in Poly)
              /\ j \in Divide(Y, BitOf(b, s + i)) <=> ~ (j - 1 \in Y <=> 15 \in Y /\ j \in Poly)
          BY <4>2
        <5>. QED BY <2>2, <5>1, Zenon
      <4>4. (j - 1 \in X <=> j - 1 \in Y) <=>
              (j - 1 < i => (BitOf(a, (s + i) - 1 - (j - 1)) = 1
                               <=> BitOf(b, (s + i) - 1 - (j - 1)) = 1))
        BY <1>4, <2>2, <4>1, Zenon
      <4>. QED BY <2>3, <4>1, <4>3, <4>4, Zenon
    <3>. QED BY <3>1, <3>2
  <2>. QED BY <2>4, Zenon
<1> HIDE DEF Rel
<1>5. 0 \in Good /\ \A i \in Nat : i \in Good => i + 1 \in Good
  <2>1. ASSUME NEW i \in Nat, i \in Good, i + 1 <= len PROVE Rel(i + 1)
    BY <1>4, <2>1
  <2>. QED BY <1>3, <2>1
<1> HIDE DEF Good
<1>6. Rel(len)
  <2>1. Nat \subseteq Good
    BY <1>5, NatInductiveSet
  <2>2. len \in Nat /\ len <= len
    OBVIOUS
  <2>. QED BY <2>1, <2>2 DEF Good
<1>7. ASSUME NEW j \in Reg
      PROVE  (j \in f[s + len] <=> j \in g[s + len]) <=>
               (j < len => (BitOf(a, (s + len) - 1 - j) = 1 <=> BitOf(b, (s + len) - 1 - j) = 1))
  BY <1>6, Zenon DEF Rel
<1>. QED BY <1>7, Zenon DEF DifferInLast

(* A file whose last two bytes are the remainder that it has with zeros in *)
(* their place, has the remainder 0.                                       *)
LEMMA ChecksumSeals ==
  ASSUME NEW c \in Seq(Byte)
  PROVE  CalcCrcRem(c \o HighFirst(CalcCrcRem(c \o Padding))) = {}
<1> DEFINE zs == c \o Padding
           R  == CalcCrcRem(zs)
           ws == c \o HighFirst(R)
           n  == 8 * Len(c)
<1>1. zs \in Seq(Byte) /\ 8 * Len(zs) = n + 16 /\ n \in Nat
  <2>1. n \in Nat
    OBVIOUS
  <2>. QED BY <2>1, BitsOfPadding, TwoMore, Zenon
<1>2. R \subseteq Reg
  BY <1>1, CalcType
<1> HIDE DEF R
<1>3. /\ HighFirst(R) \in Seq(Byte) /\ Len(HighFirst(R)) = 2
      /\ \A k \in 0 .. 15 : BitOf(HighFirst(R), k) = IF 15 - k \in R THEN 1 ELSE 0
  BY <1>2, BitsOfChecksum DEF Reg
<1>4. ws \in Seq(Byte) /\ 8 * Len(ws) = n + 16
  BY <1>3, TwoMore, Zenon
<1>5. \A k \in 0 .. n - 1 : BitOf(ws, k) = BitOf(zs, k)
  BY <1>3, BitOfConcat, BitsOfPadding
<1>6. \A k \in 0 .. 15 : /\ BitOf(zs, n + k) = 0
                        /\ BitOf(ws, n + k) = IF 15 - k \in R THEN 1 ELSE 0
  <2>1. /\ \A k \in 0 .. 15 : k \in 0 .. 8 * Len(Padding) - 1
        /\ \A k \in 0 .. 15 : k \in 0 .. 8 * Len(HighFirst(R)) - 1
    BY <1>3, BitsOfPadding
  <2>2. \A k \in 0 .. 15 : /\ BitOf(zs, n + k) = BitOf(Padding, k)
                          /\ BitOf(ws, n + k) = BitOf(HighFirst(R), k)
    BY <1>3, <2>1, BitOfConcat, BitsOfPadding
  <2>. QED BY <1>3, <2>2, BitsOfPadding
<1> HIDE DEF zs, ws, n
<1>7. PICK Z : Registers(Z, zs)
  BY <1>1, RegistersExist
<1>8. PICK W : Registers(W, ws)
  BY <1>4, RegistersExist
<1>9. /\ CalcCrcRem(zs) = Z[n + 16] /\ CalcCrcRem(ws) = W[n + 16]
      /\ W[n + 16] \subseteq Reg
  <2>1. CalcCrcRem(zs) = Z[8 * Len(zs)]
    BY <1>1, <1>7, CalcIs
  <2>2. CalcCrcRem(ws) = W[8 * Len(ws)]
    BY <1>4, <1>8, CalcIs
  <2>3. CalcCrcRem(ws) \in SUBSET Reg
    BY <1>4, CalcType
  <2>. QED BY <1>1, <1>4, <2>1, <2>2, <2>3
<1>10. DifferInLast(16, n + 16, zs, Z, ws, W)
  <2>1. PICK s \in Nat, e \in 0 .. 16 : s = n /\ e = 16
    BY <1>1
  <2>2. /\ zs \in Seq(Byte) /\ ws \in Seq(Byte) /\ Len(ws) = Len(zs) /\ s + e <= 8 * Len(zs)
        /\ SameUpTo(s, zs, ws)
    BY <1>1, <1>4, <1>5, <2>1 DEF SameUpTo
  <2>3. DifferInLast(e, s + e, zs, Z, ws, W)
    BY <1>7, <1>8, <2>2, RegistersDiffer
  <2>. QED BY <2>1, <2>3, Zenon
<1>11. ASSUME NEW j \in Reg PROVE j \notin W[n + 16]
  <2>1. j < 16 /\ 15 - j \in 0 .. 15 /\ (n + 16) - 1 - j = n + (15 - j) /\ 15 - (15 - j) = j
    BY <1>1 DEF Reg, PolyOrd
  <2>2. 0 # 1 /\ BitOf(zs, (n + 16) - 1 - j) = 0
        /\ BitOf(ws, (n + 16) - 1 - j) = IF j \in R THEN 1 ELSE 0
    BY <1>6, <2>1
  <2>3. R = Z[n + 16]
    BY <1>9 DEF R
  <2>4. (j \in Z[n + 16] <=> j \in W[n + 16]) <=> j \notin R
    BY <1>10, <2>1, <2>2, Zenon DEF DifferInLast
  <2>. QED BY <2>3, <2>4, Zenon
<1>12. CalcCrcRem(ws) = {}
  BY <1>9, <1>11
<1>. QED BY <1>12 DEF ws, R, zs

-------------------------------------------------------------------------------
(* The remainder of a file is the sum of those of its 1 bits.              *)

Odd(S) == Cardinality(S) % 2 = 1

(* The elements that two sets do not share are odd in number if those of   *)
(* one of the sets are, and not of both.                                   *)
LEMMA OddSymDiff ==
  ASSUME NEW A, NEW B, IsFiniteSet(A), IsFiniteSet(B)
  PROVE  Odd(SymDiff(A, B)) <=> ~ (Odd(A) <=> Odd(B))
<1>1. /\ IsFiniteSet(A \ B) /\ IsFiniteSet(B \ A) /\ IsFiniteSet(A \cap B)
      /\ Cardinality(A \ B) = Cardinality(A) - Cardinality(A \cap B)
      /\ Cardinality(B \ A) = Cardinality(B) - Cardinality(B \cap A)
  BY FS_Difference, FS_Intersection
<1>2. A \cap B = B \cap A /\ (A \ B) \cap (B \ A) = {}
  OBVIOUS
<1>3. Cardinality(SymDiff(A, B)) = Cardinality(A \ B) + Cardinality(B \ A)
  <2>1. Cardinality((A \ B) \cup (B \ A)) =
          Cardinality(A \ B) + Cardinality(B \ A) - Cardinality((A \ B) \cap (B \ A))
    BY <1>1, FS_Union
  <2>2. Cardinality((A \ B) \cap (B \ A)) = 0
    BY <1>2, FS_EmptySet
  <2>3. Cardinality(A \ B) \in Nat /\ Cardinality(B \ A) \in Nat
    BY <1>1, FS_CardinalityType
  <2>. QED BY <2>1, <2>2, <2>3 DEF SymDiff
<1>4. PICK a \in Nat, b \in Nat, c \in Nat :
        a = Cardinality(A) /\ b = Cardinality(B) /\ c = Cardinality(A \cap B)
  BY <1>1, FS_CardinalityType
<1> DEFINE d == Cardinality(SymDiff(A, B))
<1>5. d = a + b - 2 * c
  <2>1. d = (a - c) + (b - c)
    BY <1>1, <1>2, <1>3, <1>4, Zenon
  <2>. QED BY <2>1
<1>6. d % 2 = 1 <=> ~ (a % 2 = 1 <=> b % 2 = 1)
  BY <1>5
<1>. QED BY <1>4, <1>6 DEF Odd

(* None is not odd in number, one is.                                      *)
LEMMA OddSmall ==
  ASSUME NEW x
  PROVE  ~ Odd({}) /\ Odd({x})
<1>1. Cardinality({}) = 0 /\ Cardinality({x}) = 1
  BY FS_EmptySet, FS_Singleton
<1>2. 0 % 2 # 1 /\ 1 % 2 = 1
  OBVIOUS
<1>. QED BY <1>1, <1>2 DEF Odd

\* p[e] is the remainder of the power e of x.
Powers(p, last) == p[0] = {0} /\ \A e \in 1 .. last : p[e] = Divide(p[e - 1], 0)

(* Multiplying by x and reducing by the generator is one round of the      *)
(* division that shifts in a zero.                                         *)
LEMMA TimesX ==
  ASSUME NEW X \in SUBSET Reg
  PROVE  LET next == {i + 1 : i \in X} IN
         Divide(X, 0) = IF PolyOrd \in next THEN SymDiff(next, Generator) ELSE next
<1> DEFINE next == {i + 1 : i \in X}
           new  == IF 16 \in next THEN SymDiff(next, Generator) ELSE next
<1>1. \A i : i \in next <=> \E x \in X : i = x + 1
  OBVIOUS
<1>2. 16 \in next <=> 15 \in X
  <2>1. \A x \in X : 16 = x + 1 <=> x = 15
    BY DEF Reg, PolyOrd
  <2>. QED BY <1>1, <2>1
<1>3. 0 \notin next
  BY <1>1 DEF Reg, PolyOrd
<1>4. ASSUME NEW i \in 1 .. 15 PROVE i \in next <=> i - 1 \in X
  <2>1. \A x \in X : i = x + 1 <=> x = i - 1
    BY DEF Reg, PolyOrd
  <2>. QED BY <1>1, <2>1
<1>5. \A i \in next : i \in 1 .. 16
  BY <1>1 DEF Reg, PolyOrd
<1> HIDE DEF next
<1>6. \A i : i \in new <=> ~ (i \in next <=> 15 \in X /\ i \in Generator)
  BY <1>2 DEF SymDiff
<1>7. 0 \in Generator /\ 16 \in Generator /\ Generator \subseteq 0 .. 16
      /\ \A i \in 1 .. 15 : i \in Generator <=> i \in Poly
  BY DEF Generator, Poly
<1>8. 16 \notin new /\ \A i \in new : i \in 0 .. 16
  <2>1. 16 \notin new
    BY <1>2, <1>6, <1>7, Zenon
  <2>2. \A i \in new : i \in next \/ i \in Generator
    BY <1>6, Zenon
  <2>3. 1 .. 16 \subseteq 0 .. 16
    OBVIOUS
  <2>. QED BY <1>5, <1>7, <2>1, <2>2, <2>3, Zenon
<1>9. 0 \in new <=> 15 \in X
  BY <1>3, <1>6, <1>7
<1>10. \A i \in 1 .. 15 : i \in new <=> ~ (i - 1 \in X <=> 15 \in X /\ i \in Poly)
  BY <1>4, <1>6, <1>7
<1> HIDE DEF new
<1>11. /\ Divide(X, 0) \subseteq Reg
       /\ 0 \in Divide(X, 0) <=> 15 \in X
       /\ \A i \in 1 .. 15 : i \in Divide(X, 0) <=> ~ (i - 1 \in X <=> 15 \in X /\ i \in Poly)
  BY DivideBits
<1>12. new \subseteq Reg
  BY <1>8 DEF Reg, PolyOrd
<1>13. ASSUME NEW i \in Reg PROVE i \in Divide(X, 0) <=> i \in new
  <2>1. i = 0 \/ i \in 1 .. 15
    BY DEF Reg, PolyOrd
  <2>. QED BY <1>9, <1>10, <1>11, <2>1, Zenon
<1>14. Divide(X, 0) = new
  BY <1>11, <1>12, <1>13
<1>. QED BY <1>14 DEF new, next, PolyOrd

(* Dividing by the generator leaves the powers below its own alone.        *)
LEMMA LowPower ==
  ASSUME NEW e \in 1 .. 15
  PROVE  Divide({e - 1}, 0) = {e}
<1>1. {e - 1} \in SUBSET Reg
  BY DEF Reg, PolyOrd
<1>2. {i + 1 : i \in {e - 1}} = {e} /\ PolyOrd \notin {e}
  BY DEF PolyOrd
<1>. QED BY <1>1, <1>2, TimesX

(* The remainders of the powers exist, and are what the definition of      *)
(* Remainder makes them.                                                   *)
LEMMA PowersExist ==
  ASSUME NEW last \in Nat
  PROVE  \E p \in [0 .. last -> SUBSET Reg] : Powers(p, last)
<1> DEFINE step == [k \in 1 .. last |-> [X \in SUBSET Reg |-> Divide(X, 0)]]
<1>1. step \in [1 .. last -> [SUBSET Reg -> SUBSET Reg]]
  <2>1. \A X \in SUBSET Reg : Divide(X, 0) \in SUBSET Reg
    <3>1. ASSUME NEW X \in SUBSET Reg PROVE Divide(X, 0) \subseteq Reg
      BY DivideBits, Zenon
    <3>. QED BY <3>1
  <2>. QED BY <2>1
<1>2. \A k \in 1 .. last : \A X \in SUBSET Reg : step[k][X] = Divide(X, 0)
  OBVIOUS
<1> HIDE DEF step
<1>3. PICK p \in [0 .. last -> SUBSET Reg] :
        p[0] = {0} /\ \A k \in 1 .. last : p[k] = step[k][p[k - 1]]
  <2>1. PICK S, a : S = SUBSET Reg /\ a = {0}
    OBVIOUS
  <2>2. a \in S /\ step \in [1 .. last -> [S -> S]]
    BY <1>1, <2>1 DEF Reg, PolyOrd
  <2>3. \E p \in [0 .. last -> S] : p[0] = a /\ \A k \in 1 .. last : p[k] = step[k][p[k - 1]]
    BY <2>2, RecursionExists
  <2>. QED BY <2>1, <2>3, Zenon
<1>4. ASSUME NEW k \in 1 .. last PROVE p[k] = Divide(p[k - 1], 0)
  <2>1. p[k - 1] \in SUBSET Reg
    BY <1>3
  <2>. QED BY <1>2, <1>3, <2>1
<1>. QED BY <1>3, <1>4 DEF Powers

LEMMA PowerIs ==
  ASSUME NEW last \in Nat, NEW p \in [0 .. last -> SUBSET Reg], Powers(p, last),
         NEW e \in 0 .. last
  PROVE  p[e] = IF e < PolyOrd THEN {e}
                ELSE LET next == {i + 1 : i \in p[e - 1]} IN
                     IF PolyOrd \in next THEN SymDiff(next, Generator) ELSE next
<1>1. CASE e < PolyOrd
  <2> DEFINE Low == {m \in Nat : m < PolyOrd /\ m <= last => p[m] = {m}}
  <2>1. 0 \in Low
    BY DEF Powers
  <2>2. ASSUME NEW m \in Nat, m \in Low PROVE m + 1 \in Low
    <3> SUFFICES ASSUME m + 1 < PolyOrd, m + 1 <= last PROVE p[m + 1] = {m + 1}
      OBVIOUS
    <3>1. /\ m + 1 \in 1 .. 15 /\ m + 1 \in 1 .. last /\ (m + 1) - 1 = m
          /\ p[m] = {m}
      BY <2>2 DEF PolyOrd
    <3>2. p[m + 1] = Divide(p[(m + 1) - 1], 0)
      BY <3>1, Zenon DEF Powers
    <3>3. Divide({(m + 1) - 1}, 0) = {m + 1}
      BY <3>1, LowPower, Zenon
    <3>. QED BY <3>1, <3>2, <3>3, Zenon
  <2>3. 0 \in Low /\ \A m \in Nat : m \in Low => m + 1 \in Low
    BY <2>1, <2>2
  <2> HIDE DEF Low
  <2>4. e \in Low
    BY <2>3, NatInductiveSet
  <2>. QED BY <1>1, <2>4 DEF Low
<1>2. CASE ~ (e < PolyOrd)
  <2>1. e \in 1 .. last /\ e - 1 \in 0 .. last
    BY <1>2 DEF PolyOrd
  <2>2. p[e] = Divide(p[e - 1], 0)
    BY <2>1 DEF Powers
  <2>3. PICK X \in SUBSET Reg : X = p[e - 1]
    BY <2>1
  <2>. QED BY <1>2, <2>2, <2>3, TimesX
<1>. QED BY <1>1, <1>2

(* What Remainder returns, in terms of these powers.                       *)
LEMMA RemainderIs ==
  ASSUME NEW bytes \in Seq(Byte), NEW last \in Nat, last = 8 * Len(bytes) - 1,
         NEW p \in [0 .. last -> SUBSET Reg], Powers(p, last)
  PROVE  Remainder(bytes) =
           {i \in Reg : Odd({k \in 0 .. last : BitOf(bytes, k) = 1 /\ i \in p[last - k]})}
<1> DEFINE Value(g, e) == IF e < PolyOrd THEN {e}
                          ELSE LET next == {i + 1 : i \in g[e - 1]} IN
                               IF PolyOrd \in next THEN SymDiff(next, Generator) ELSE next
           Eq(g) == g = [e \in 0 .. last |-> Value(g, e)]
           PowerRem == CHOOSE g : Eq(g)
<1>1. \A e \in 0 .. last : p[e] = Value(p, e)
  BY PowerIs
<1>2. Eq(p)
  <2> HIDE DEF Value
  <2>. QED BY <1>1
<1>3. Eq(PowerRem)
  BY <1>2, Zenon
<1>4. Remainder(bytes) =
        {i \in Reg : Odd({k \in 0 .. last : BitOf(bytes, k) = 1 /\ i \in PowerRem[last - k]})}
  BY Zenon DEF Remainder, Odd, Reg, PowerRem
<1> HIDE DEF PowerRem
<1>5. \A e \in 0 .. last : PowerRem[e] = Value(PowerRem, e)
  <2> HIDE DEF Value
  <2>. QED BY <1>3, Zenon
<1> DEFINE Same == {m \in Nat : m <= last => PowerRem[m] = p[m]}
<1>6. 0 \in Same
  <2>1. 0 \in 0 .. last /\ 0 < PolyOrd
    BY <1>1 DEF PolyOrd
  <2>2. PowerRem[0] = Value(PowerRem, 0) /\ p[0] = Value(p, 0)
    <3> HIDE DEF Value
    <3>. QED BY <1>1, <1>5, <2>1, Zenon
  <2>. QED BY <2>1, <2>2
<1>7. ASSUME NEW m \in Nat, m \in Same PROVE m + 1 \in Same
  <2> SUFFICES ASSUME m + 1 <= last PROVE PowerRem[m + 1] = p[m + 1]
    OBVIOUS
  <2>1. m + 1 \in 0 .. last /\ (m + 1) - 1 = m /\ PowerRem[m] = p[m]
    BY <1>7
  <2>2. Value(PowerRem, m + 1) = Value(p, m + 1)
    BY <2>1, Zenon
  <2> HIDE DEF Value
  <2>. QED BY <1>1, <1>5, <2>1, <2>2, Zenon
<1>8. 0 \in Same /\ \A m \in Nat : m \in Same => m + 1 \in Same
  BY <1>6, <1>7
<1>9. \A m \in 0 .. last : PowerRem[m] = p[m]
  <2>1. Nat \subseteq Same
    <3> HIDE DEF Same
    <3>. QED BY <1>8, NatInductiveSet
  <2>. QED BY <2>1
<1>10. ASSUME NEW i
       PROVE {k \in 0 .. last : BitOf(bytes, k) = 1 /\ i \in PowerRem[last - k]}
               = {k \in 0 .. last : BitOf(bytes, k) = 1 /\ i \in p[last - k]}
  <2>1. \A k \in 0 .. last : last - k \in 0 .. last
    OBVIOUS
  <2>. QED BY <1>9, <2>1
<1>. QED BY <1>4, <1>10, Zenon

(* The register has a 1 where an odd number of the powers at the 1 bits    *)
(* that have gone by has one.                                              *)
LEMMA RegisterIsSum ==
  ASSUME NEW bytes \in Seq(Byte), NEW last \in Nat, last = 8 * Len(bytes) - 1,
         NEW p \in [0 .. last -> SUBSET Reg], Powers(p, last),
         NEW f, Registers(f, bytes)
  PROVE  f[8 * Len(bytes)] =
           {i \in Reg : Odd({k \in 0 .. last : BitOf(bytes, k) = 1 /\ i \in p[last - k]})}
<1> DEFINE n == 8 * Len(bytes)
           Terms(i, k) == {m \in 0 .. k - 1 : BitOf(bytes, m) = 1 /\ i \in p[k - 1 - m]}
           Sum(k) == \A i \in Reg : i \in f[k] <=> Odd(Terms(i, k))
           Good == {k \in Nat : k <= n => Sum(k)}
<1>1. n \in Nat /\ n = last + 1
  OBVIOUS
<1>2. Sum(0)
  <2>1. \A i : Terms(i, 0) = {}
    OBVIOUS
  <2>2. f[0] = {}
    BY DEF Registers
  <2>3. ~ Odd({})
    BY OddSmall
  <2>. QED BY <2>1, <2>2, <2>3
<1>3. ASSUME NEW k \in Nat, k + 1 <= n, Sum(k) PROVE Sum(k + 1)
  <2>1. /\ k + 1 \in 1 .. n /\ (k + 1) - 1 = k /\ k \in 0 .. n
        /\ 0 \in Reg /\ 15 \in Reg
    BY <1>1, <1>3 DEF Reg, PolyOrd
  <2>2. f[k] \in SUBSET Reg /\ f[k + 1] = Divide(f[k], BitOf(bytes, k))
    <3>1. k \in 0 .. n - 1
      BY <2>1
    <3>. QED BY <3>1, Rounds DEF n
  <2>3. ASSUME NEW m \in 0 .. k - 1
        PROVE  /\ p[k - 1 - m] \in SUBSET Reg
               /\ p[(k + 1) - 1 - m] = Divide(p[k - 1 - m], 0)
    <3>1. /\ k - m \in 1 .. last /\ (k - m) - 1 = k - 1 - m /\ (k + 1) - 1 - m = k - m
          /\ k - 1 - m \in 0 .. last
      BY <1>1, <1>3
    <3>2. p[k - m] = Divide(p[(k - m) - 1], 0)
      BY <3>1, Zenon DEF Powers
    <3>. QED BY <3>1, <3>2
  <2>4. p[(k + 1) - 1 - k] = {0} /\ ~ (k \in 0 .. k - 1)
        /\ \A m : m \in 0 .. (k + 1) - 1 <=> m \in 0 .. k - 1 \/ m = k
    <3>1. (k + 1) - 1 - k = 0
      OBVIOUS
    <3>2. p[0] = {0}
      BY DEF Powers
    <3>. QED BY <3>1, <3>2
  <2>5. ASSUME NEW i PROVE IsFiniteSet(Terms(i, k))
    <3>1. Terms(i, k) \subseteq 0 .. k - 1 /\ k - 1 \in Int /\ 0 \in Int
      OBVIOUS
    <3>2. IsFiniteSet(0 .. k - 1)
      BY <3>1, FS_Interval
    <3>. QED BY <3>1, <3>2, FS_Subset
  <2>6. ASSUME NEW i \in 1 .. 15
        PROVE  i \in f[k + 1] <=> Odd(Terms(i, k + 1))
    <3>1. \A X \in SUBSET Reg : \A bit :
            i \in Divide(X, bit) <=> ~ (i - 1 \in X <=> 15 \in X /\ i \in Poly)
      BY DivideBits
    <3>2. i # 0 /\ i - 1 \in Reg
      BY DEF Reg, PolyOrd
    <3>3. ASSUME NEW m
          PROVE  m \in Terms(i, k + 1) <=>
                   ~ (m \in Terms(i - 1, k) <=> m \in Terms(15, k) /\ i \in Poly)
      <4>1. CASE m \in 0 .. k - 1
        <5>1. m \in 0 .. (k + 1) - 1
          BY <2>4, <4>1
        <5>2. i \in p[(k + 1) - 1 - m] <=>
                ~ (i - 1 \in p[k - 1 - m] <=> 15 \in p[k - 1 - m] /\ i \in Poly)
          <6>1. PICK X \in SUBSET Reg :
                  X = p[k - 1 - m] /\ p[(k + 1) - 1 - m] = Divide(X, 0)
            BY <2>3, <4>1, Zenon
          <6>. QED BY <3>1, <6>1, ZenonT(30)
        <5>. QED BY <4>1, <5>1, <5>2, Zenon
      <4>2. CASE m = k
        BY <2>4, <3>2, <4>2, Zenon
      <4>3. CASE m \notin 0 .. k - 1 /\ m # k
        BY <2>4, <4>3, Zenon
      <4>. QED BY <4>1, <4>2, <4>3, Zenon
    <3> HIDE DEF Terms
    <3>4. CASE i \in Poly
      <4>1. Terms(i, k + 1) = SymDiff(Terms(i - 1, k), Terms(15, k))
        BY <3>3, <3>4 DEF SymDiff
      <4>2. Odd(Terms(i, k + 1)) <=> ~ (Odd(Terms(i - 1, k)) <=> Odd(Terms(15, k)))
        BY <2>5, <4>1, OddSymDiff
      <4>3. i \in f[k + 1] <=> ~ (i - 1 \in f[k] <=> 15 \in f[k])
        BY <2>2, <3>1, <3>4
      <4>. QED BY <1>3, <2>1, <3>2, <4>2, <4>3, Zenon
    <3>5. CASE i \notin Poly
      <4>1. Terms(i, k + 1) = Terms(i - 1, k)
        BY <3>3, <3>5
      <4>2. i \in f[k + 1] <=> i - 1 \in f[k]
        BY <2>2, <3>1, <3>5
      <4>. QED BY <1>3, <3>2, <4>1, <4>2, Zenon
    <3>. QED BY <3>4, <3>5
  <2>7. 0 \in f[k + 1] <=> Odd(Terms(0, k + 1))
    <3>1. \A X \in SUBSET Reg : \A bit : 0 \in Divide(X, bit) <=> ~ (15 \in X <=> bit = 1)
      BY DivideBits
    <3>2. 0 \in f[k + 1] <=> ~ (15 \in f[k] <=> BitOf(bytes, k) = 1)
      BY <2>2, <3>1
    <3> DEFINE new == IF BitOf(bytes, k) = 1 THEN {k} ELSE {}
    <3>3. ASSUME NEW m
          PROVE  m \in Terms(0, k + 1) <=> ~ (m \in Terms(15, k) <=> m \in new)
      <4>1. CASE m \in 0 .. k - 1
        <5>1. m \in 0 .. (k + 1) - 1 /\ m \notin new
          BY <2>4, <4>1
        <5>2. 0 # 1
          OBVIOUS
        <5>3. 0 \in p[(k + 1) - 1 - m] <=> 15 \in p[k - 1 - m]
          BY <2>3, <3>1, <4>1, <5>2, Zenon
        <5>. QED BY <4>1, <5>1, <5>3, Zenon
      <4>2. CASE m = k
        BY <2>4, <4>2, Zenon
      <4>3. CASE m \notin 0 .. k - 1 /\ m # k
        BY <2>4, <4>3, Zenon
      <4>. QED BY <4>1, <4>2, <4>3, Zenon
    <3>4. /\ Terms(0, k + 1) = SymDiff(Terms(15, k), new)
          /\ IsFiniteSet(new)
          /\ Odd(new) <=> BitOf(bytes, k) = 1
      <4>1. Terms(0, k + 1) = SymDiff(Terms(15, k), new)
        <5> HIDE DEF Terms, new
        <5>. QED BY <3>3 DEF SymDiff
      <4>2. IsFiniteSet({k}) /\ IsFiniteSet({})
        BY FS_EmptySet, FS_Singleton
      <4>3. Odd({k}) /\ ~ Odd({})
        BY OddSmall
      <4>. QED BY <4>1, <4>2, <4>3, Zenon
    <3> HIDE DEF Terms, new
    <3>5. Odd(Terms(0, k + 1)) <=> ~ (Odd(Terms(15, k)) <=> Odd(new))
      BY <2>5, <3>4, OddSymDiff
    <3>. QED BY <1>3, <2>1, <3>2, <3>4, <3>5, Zenon
  <2>8. \A i \in Reg : i = 0 \/ i \in 1 .. 15
    BY DEF Reg, PolyOrd
  <2> HIDE DEF Terms
  <2>. QED BY <2>6, <2>7, <2>8, Zenon
<1> HIDE DEF Sum
<1>4. 0 \in Good /\ \A k \in Nat : k \in Good => k + 1 \in Good
  <2>1. ASSUME NEW k \in Nat, k \in Good, k + 1 <= n PROVE Sum(k + 1)
    <3>1. k <= n
      BY <1>1, <2>1
    <3>. QED BY <1>3, <2>1, <3>1
  <2>. QED BY <1>2, <2>1
<1> HIDE DEF Good
<1>5. Sum(n)
  <2>1. n \in Good /\ n <= n
    BY <1>1, <1>4, NatInductiveSet
  <2>. QED BY <2>1 DEF Good
<1>6. n - 1 = last /\ \A k : n - 1 - k = last - k
  BY <1>1
<1>7. f[n] \subseteq Reg
  BY <1>1 DEF Registers
<1>8. f[n] = {i \in Reg : Odd({k \in 0 .. n - 1 : BitOf(bytes, k) = 1 /\ i \in p[n - 1 - k]})}
  BY <1>5, <1>7 DEF Sum
<1>. QED BY <1>6, <1>8, Zenon

(* calc_crc_rem computes the remainder, of a file of any length.           *)
THEOREM RegisterComputesRemainder ==
  ASSUME NEW bytes \in Seq(Byte)
  PROVE  CalcCrcRem(bytes) = Remainder(bytes)
<1> DEFINE last == 8 * Len(bytes) - 1
<1>1. PICK f : Registers(f, bytes)
  BY RegistersExist
<1>2. CalcCrcRem(bytes) = f[8 * Len(bytes)]
  BY <1>1, CalcIs
<1>3. CASE Len(bytes) = 0
  <2>1. 0 .. last = {} /\ 8 * Len(bytes) = 0
    BY <1>3
  <2>2. CalcCrcRem(bytes) = {}
    BY <1>1, <1>2, <2>1 DEF Registers
  <2>3. ASSUME NEW S, S \subseteq {} PROVE Cardinality(S) % 2 # 1
    <3>1. S = {}
      BY <2>3
    <3>. QED BY <3>1, OddSmall DEF Odd
  <2>4. Remainder(bytes) = {}
    BY <2>1, <2>3, Zenon DEF Remainder
  <2>. QED BY <2>2, <2>4
<1>4. CASE Len(bytes) # 0
  <2>1. last \in Nat
    BY <1>4
  <2>2. PICK l \in Nat : l = last
    BY <2>1
  <2>3. PICK p \in [0 .. l -> SUBSET Reg] : Powers(p, l)
    BY PowersExist
  <2>. QED BY <1>1, <1>2, <2>2, <2>3, RegisterIsSum, RemainderIs
<1>. QED BY <1>3, <1>4

-------------------------------------------------------------------------------
(* Damage.                                                                 *)

(* A damaged file has as many bytes, and another bit wherever one was      *)
(* flipped.                                                                *)
LEMMA FlippedBits ==
  ASSUME NEW bytes \in Seq(Byte), NEW flips
  PROVE  /\ FlipBits(bytes, flips) \in Seq(Byte)
         /\ Len(FlipBits(bytes, flips)) = Len(bytes)
         /\ \A k \in 0 .. 8 * Len(bytes) - 1 :
              (BitOf(FlipBits(bytes, flips), k) = BitOf(bytes, k)) <=> k \notin flips
<1> DEFINE ones(j) == {i \in 0 .. 7 : (BitOf(bytes, 8 * (j - 1) + 7 - i) = 1)
                                     = (8 * (j - 1) + 7 - i \notin flips)}
           flipped == FlipBits(bytes, flips)
<1>1. flipped = [j \in 1 .. Len(bytes) |-> ByteOf(ones(j))]
  <2>1. DOMAIN bytes = 1 .. Len(bytes)
    OBVIOUS
  <2>. QED BY <2>1, Zenon DEF FlipBits
<1>2. \A j : ByteOf(ones(j)) \in Byte
  BY ByteOfBits
<1>3. flipped \in Seq(Byte) /\ Len(flipped) = Len(bytes)
  <2> HIDE DEF ones, flipped
  <2>. QED BY <1>1, <1>2
<1>4. ASSUME NEW k \in 0 .. 8 * Len(bytes) - 1
      PROVE  (BitOf(flipped, k) = BitOf(bytes, k)) <=> k \notin flips
  <2>1. PICK j \in 1 .. Len(bytes), i \in 0 .. 7 : j = k \div 8 + 1 /\ i = 7 - (k % 8)
    <3>1. k \div 8 + 1 \in 1 .. Len(bytes) /\ k % 8 \in 0 .. 7
      BY BitsAreBits
    <3>2. 7 - (k % 8) \in 0 .. 7
      BY <3>1
    <3>. QED BY <3>1, <3>2
  <2>2. 8 * (j - 1) + 7 - i = k
    BY <2>1
  <2>3. BitOf(bytes, k) \in {0, 1}
    BY BitsAreBits
  <2>4. BitOf(flipped, k) = IF i \in ones(j) THEN 1 ELSE 0
    <3>1. flipped[j] = ByteOf(ones(j))
      BY <1>1, Zenon
    <3>2. (ByteOf(ones(j)) \div 2 ^ i) % 2 = IF i \in ones(j) THEN 1 ELSE 0
      <4>1. PICK X \in SUBSET (0 .. 7) : X = ones(j)
        OBVIOUS
      <4>. QED BY <4>1, ByteOfBits
    <3>. QED BY <2>1, <3>1, <3>2 DEF BitOf
  <2>5. i \in ones(j) <=> ((BitOf(bytes, k) = 1) <=> (k \notin flips))
    BY <2>2, Zenon
  <2>. QED BY <2>3, <2>4, <2>5
<1>. QED BY <1>3, <1>4 DEF flipped

(* A round of the division keeps two registers different: the constant     *)
(* term of the polynomial tells whether a bit fell out.                    *)
LEMMA RoundsKeepDifference ==
  ASSUME NEW X \in SUBSET Reg, NEW Y \in SUBSET Reg, NEW bit, Divide(X, bit) = Divide(Y, bit)
  PROVE  X = Y
<1>1. 15 \in X <=> 15 \in Y
  BY DivideBits
<1>2. ASSUME NEW j \in Reg PROVE j \in X <=> j \in Y
  <2>1. CASE j = 15
    BY <1>1, <2>1
  <2>2. CASE j # 15
    <3>1. j + 1 \in 1 .. 15 /\ (j + 1) - 1 = j
      BY <2>2 DEF Reg, PolyOrd
    <3>2. \A Z \in SUBSET Reg : \A b :
            j + 1 \in Divide(Z, b) <=> ~ ((j + 1) - 1 \in Z <=> 15 \in Z /\ j + 1 \in Poly)
      BY <3>1, DivideBits
    <3>3. /\ j + 1 \in Divide(X, bit) <=> ~ ((j + 1) - 1 \in X <=> 15 \in X /\ j + 1 \in Poly)
          /\ j + 1 \in Divide(Y, bit) <=> ~ ((j + 1) - 1 \in Y <=> 15 \in Y /\ j + 1 \in Poly)
      BY <3>2, Zenon
    <3>. QED BY <1>1, <3>1, <3>3, Zenon
  <2>. QED BY <2>1, <2>2
<1>. QED BY <1>2

(* A burst of flipped bits that is not longer than the checksum changes    *)
(* the remainder.                                                          *)
LEMMA BurstsShow ==
  ASSUME NEW bytes \in Seq(Byte), NEW s \in 0 .. 8 * Len(bytes) - 1,
         NEW flips, s \in flips, flips \subseteq s .. s + 15
  PROVE  CalcCrcRem(FlipBits(bytes, flips)) # CalcCrcRem(bytes)
<1> DEFINE b == FlipBits(bytes, flips)
           n == 8 * Len(bytes)
<1>1. /\ b \in Seq(Byte) /\ Len(b) = Len(bytes)
      /\ \A k \in 0 .. n - 1 : (BitOf(b, k) = BitOf(bytes, k)) <=> k \notin flips
      /\ n \in Nat
  BY FlippedBits
<1>2. PICK f : Registers(f, bytes)
  BY RegistersExist
<1> HIDE DEF b
<1>3. PICK g : Registers(g, b)
  BY <1>1, RegistersExist
<1> DEFINE end == IF s + 16 <= n THEN s + 16 ELSE n
           len == end - s
<1>4. len \in 1 .. 16 /\ end \in 0 .. n /\ s + len = end
  <2>1. s \in 0 .. n - 1
    OBVIOUS
  <2> HIDE DEF n
  <2>2. CASE s + 16 <= n
    BY <1>1, <2>1, <2>2
  <2>3. CASE ~ (s + 16 <= n)
    BY <1>1, <2>1, <2>3
  <2>. QED BY <2>2, <2>3
<1> HIDE DEF end, len
\* All the flipped bits are in, and the first has not left the register.
<1>5. f[end] # g[end]
  <2>1. SameUpTo(s, bytes, b)
    BY <1>1 DEF SameUpTo
  <2>2. DifferInLast(len, s + len, bytes, f, b, g)
    <3>1. PICK l \in 0 .. 16 : l = len /\ s + l <= n
      BY <1>1, <1>4
    <3>2. DifferInLast(l, s + l, bytes, f, b, g)
      BY <1>1, <1>2, <1>3, <2>1, <3>1, RegistersDiffer
    <3>. QED BY <3>1, <3>2
  <2>3. /\ len - 1 \in Reg /\ len - 1 < len /\ (s + len) - 1 - (len - 1) = s
        /\ s \in 0 .. n - 1
    BY <1>1, <1>4 DEF Reg, PolyOrd
  <2>4. BitOf(b, s) \in {0, 1} /\ BitOf(bytes, s) \in {0, 1} /\ BitOf(b, s) # BitOf(bytes, s)
    BY <1>1, <2>3, BitsAreBits
  <2>5. ~ (BitOf(bytes, s) = 1 <=> BitOf(b, s) = 1)
    BY <2>4
  <2>6. ~ (len - 1 \in f[s + len] <=> len - 1 \in g[s + len])
    BY <2>2, <2>3, <2>5, Zenon DEF DifferInLast
  <2>. QED BY <1>4, <2>6, Zenon
<1> DEFINE Good == {k \in Nat : end <= k /\ k <= n => f[k] # g[k]}
<1>6. ASSUME NEW k \in Nat, k \in Good PROVE k + 1 \in Good
  <2> SUFFICES ASSUME end <= k + 1, k + 1 <= n PROVE f[k + 1] # g[k + 1]
    OBVIOUS
  <2>1. CASE k + 1 = end
    BY <1>5, <2>1
  <2>2. CASE k + 1 # end
    <3>1. k \in 0 .. n - 1 /\ k >= end /\ end = s + 16 /\ f[k] # g[k]
      <4>1. k \in 0 .. n - 1 /\ k >= end /\ k <= n
        BY <1>1, <1>4, <2>2
      <4>2. end = s + 16
        BY <1>1, <4>1 DEF end
      <4>. QED BY <1>6, <4>1, <4>2
    <3>2. BitOf(b, k) = BitOf(bytes, k)
      <4>1. k \notin s .. s + 15
        BY <3>1
      <4>. QED BY <1>1, <3>1, <4>1
    <3>3. /\ f[k] \in SUBSET Reg /\ f[k + 1] = Divide(f[k], BitOf(bytes, k))
          /\ g[k] \in SUBSET Reg /\ g[k + 1] = Divide(g[k], BitOf(b, k))
      BY <1>1, <1>2, <1>3, <3>1, Rounds
    <3>. QED BY <3>1, <3>2, <3>3, RoundsKeepDifference
  <2>. QED BY <2>1, <2>2
<1>7. 0 \in Good
  BY <1>5, <1>4
<1>8. f[n] # g[n]
  <2> HIDE DEF Good
  <2>1. 0 \in Good /\ \A k \in Nat : k \in Good => k + 1 \in Good
    BY <1>6, <1>7
  <2>2. Nat \subseteq Good
    BY <2>1, NatInductiveSet
  <2>3. end <= n /\ n <= n
    BY <1>1, <1>4
  <2>. QED BY <1>1, <2>2, <2>3 DEF Good
<1>9. CalcCrcRem(bytes) = f[8 * Len(bytes)] /\ CalcCrcRem(b) = g[8 * Len(b)]
  BY <1>1, <1>2, <1>3, CalcIs
<1>10. CalcCrcRem(b) # CalcCrcRem(bytes)
  BY <1>1, <1>8, <1>9
<1>. QED BY <1>10 DEF b

-------------------------------------------------------------------------------
(* The commands.                                                           *)

File == Seq(Byte) \cup {NoFile}

\* The files hold bytes; a command in progress has its files.
TypeInv ==
  /\ pc \in {"idle", "pad", "checksum", "copy", "unlink"}
  /\ plain \in File /\ coded \in File /\ rest \in Seq(Byte) /\ orig \in Seq(Byte)
  /\ sealed \in BOOLEAN /\ clobbered \in BOOLEAN /\ damaged \in BOOLEAN
  /\ misread \in BOOLEAN /\ misjudged \in BOOLEAN
  /\ pc # "idle" \/ sealed => coded # NoFile
  /\ pc \in {"copy", "unlink"} => plain # NoFile

(* The contents of no file are those of NoFile.                            *)
LEMMA NoFileIsNone == NoFile \notin Seq(Byte)
<1>1. SUFFICES ASSUME NoFile \in Seq(Byte) PROVE FALSE
  OBVIOUS
<1>2. Len(NoFile) = 1 /\ NoFile[1] = -1
  BY DEF NoFile
<1>3. NoFile[1] \in Byte
  BY <1>1, <1>2
<1>. QED BY <1>2, <1>3 DEF Byte

(* What is cut off a list of bytes and kept of it are lists of bytes, and  *)
(* give the list again.                                                    *)
LEMMA Cut ==
  ASSUME NEW r \in Seq(Byte), NEW n \in 0 .. Len(r)
  PROVE  /\ SubSeq(r, 1, n) \in Seq(Byte) /\ Len(SubSeq(r, 1, n)) = n
         /\ SubSeq(r, n + 1, Len(r)) \in Seq(Byte) /\ Len(SubSeq(r, n + 1, Len(r))) = Len(r) - n
         /\ SubSeq(r, 1, n) \o SubSeq(r, n + 1, Len(r)) = r
<1> DEFINE a == SubSeq(r, 1, n)
           b == SubSeq(r, n + 1, Len(r))
<1>1. /\ a \in Seq(Byte) /\ Len(a) = n
      /\ b \in Seq(Byte) /\ Len(b) = Len(r) - n
      /\ \A i \in 1 .. n : a[i] = r[i]
      /\ \A i \in 1 .. Len(r) - n : b[i] = r[n + i]
  <2>1. Len(r) \in Nat /\ n \in Nat /\ n <= Len(r)
    OBVIOUS
  <2>2. a \in Seq(Byte) /\ Len(a) = n /\ \A i \in 1 .. n : a[i] = r[i]
    BY <2>1
  <2>3. b \in Seq(Byte) /\ Len(b) = Len(r) - n
    BY <2>1
  <2>4. ASSUME NEW i \in 1 .. Len(r) - n PROVE b[i] = r[n + i]
    <3>1. (n + 1) + i - 1 = n + i
      BY <2>1
    <3>. QED BY <2>1, <3>1
  <2>. QED BY <2>2, <2>3, <2>4
<1> HIDE DEF a, b
<1>2. a \o b \in Seq(Byte) /\ Len(a \o b) = Len(a) + Len(b)
  BY <1>1, ConcatProperties, Zenon
<1>3. ASSUME NEW i \in 1 .. Len(r) PROVE (a \o b)[i] = r[i]
  <2>1. CASE i <= n
    BY <1>1, <2>1
  <2>2. CASE ~ (i <= n)
    <3>1. i - n \in 1 .. Len(r) - n /\ n + (i - n) = i
      BY <2>2
    <3>2. b[i - n] = r[i]
      BY <1>1, <3>1
    <3>3. i \in 1 .. Len(a) + Len(b)
      BY <1>1
    <3>4. (a \o b)[i] = IF i <= Len(a) THEN a[i] ELSE b[i - Len(a)]
      BY <1>1, <3>3, ConcatProperties, Zenon
    <3>. QED BY <1>1, <2>2, <3>2, <3>4, Zenon
  <2>. QED BY <2>1, <2>2
<1>4. Len(a \o b) = Len(r)
  BY <1>1, <1>2
<1>5. a \o b = r
  BY <1>2, <1>3, <1>4, SeqEqual
<1>. QED BY <1>1, <1>5 DEF a, b

(* A block that is copied is part of what is in front of the checksum.     *)
LEMMA BlockFits ==
  ASSUME NEW r \in Seq(Byte), NEW n, n = Min({BufSize, Payload(r)}), n > 0
  PROVE  n \in 1 .. Len(r) /\ Len(r) - n >= 2
<1>1. BufSize \in Nat /\ Len(r) \in Nat /\ Payload(r) = Len(r) - 2
  BY CrcAssumption DEF Payload, ChecksumByteCnt
<1>2. n \in {BufSize, Payload(r)} /\ n <= Payload(r)
  <2>1. BufSize \in Int /\ Payload(r) \in Int
    BY <1>1
  <2>. QED BY <2>1, MinOfTwo
<1>. QED BY <1>1, <1>2

(* Reads that fail leave a list of as many bytes, and change nothing if    *)
(* there are none.                                                         *)
LEMMA FetchedBytes ==
  ASSUME NEW bytes \in Seq(Byte), NEW failed \in SUBSET DOMAIN bytes
  PROVE  /\ Fetched(bytes, failed) \in Seq(Byte)
         /\ failed = {} => Fetched(bytes, failed) = bytes
<1> DEFINE before(i) == failed \cap (1 .. i)
<1>1. ASSUME NEW i \in DOMAIN bytes, i \notin failed
      PROVE  Cardinality(before(i)) \in 0 .. i - 1
  <2>1. i \in Nat /\ i - 1 \in Nat
    OBVIOUS
  <2>2. IsFiniteSet(1 .. i - 1) /\ Cardinality(1 .. i - 1) = i - 1
    <3>1. 1 \in Int /\ i - 1 \in Int
      BY <2>1
    <3>2. Cardinality(1 .. i - 1) = IF 1 > i - 1 THEN 0 ELSE i - 1 - 1 + 1
      BY <3>1, FS_Interval
    <3>. QED BY <2>1, <3>1, <3>2, FS_Interval
  <2>3. before(i) \subseteq 1 .. i - 1
    BY <1>1, <2>1
  <2>4. IsFiniteSet(before(i)) /\ Cardinality(before(i)) <= i - 1
    BY <2>2, <2>3, FS_Subset
  <2>5. Cardinality(before(i)) \in Nat
    BY <2>4, FS_CardinalityType
  <2>. QED BY <2>1, <2>4, <2>5
<1>2. \A i \in DOMAIN bytes : i \notin failed => i - Cardinality(before(i)) \in DOMAIN bytes
  <2> SUFFICES ASSUME NEW i \in DOMAIN bytes, i \notin failed
               PROVE  i - Cardinality(before(i)) \in DOMAIN bytes
    OBVIOUS
  <2>1. PICK k \in 0 .. i - 1 : k = Cardinality(before(i))
    BY <1>1
  <2>2. i - k \in DOMAIN bytes
    OBVIOUS
  <2>. QED BY <2>1, <2>2
<1>3. 255 \in Byte
  BY DEF Byte
<1>4. \A i \in DOMAIN bytes : Fetched(bytes, failed)[i] \in Byte
  <2> SUFFICES ASSUME NEW i \in DOMAIN bytes PROVE Fetched(bytes, failed)[i] \in Byte
    OBVIOUS
  <2>1. Fetched(bytes, failed)[i] = IF i \in failed THEN 255 ELSE bytes[i - Cardinality(before(i))]
    BY DEF Fetched
  <2>2. \A j \in DOMAIN bytes : bytes[j] \in Byte
    OBVIOUS
  <2>. QED BY <1>2, <1>3, <2>1, <2>2, Zenon
<1>5. DOMAIN Fetched(bytes, failed) = 1 .. Len(bytes) /\ Len(bytes) \in Nat
  BY DEF Fetched
<1>6. Fetched(bytes, failed) = [i \in 1 .. Len(bytes) |-> Fetched(bytes, failed)[i]]
  BY DEF Fetched
<1>7. Fetched(bytes, failed) \in Seq(Byte)
  BY <1>4, <1>5, <1>6
<1>8. ASSUME failed = {} PROVE Fetched(bytes, failed) = bytes
  <2>1. \A i \in DOMAIN bytes : Cardinality(before(i)) = 0
    <3>1. \A i \in DOMAIN bytes : before(i) = {}
      BY <1>8
    <3>. QED BY <3>1, FS_EmptySet
  <2>2. \A i \in DOMAIN bytes : i - 0 = i
    OBVIOUS
  <2>3. \A i \in DOMAIN bytes : Fetched(bytes, failed)[i] = bytes[i]
    BY <1>8, <2>1, <2>2 DEF Fetched
  <2>4. Len(Fetched(bytes, failed)) = Len(bytes)
    BY <1>5, <1>7
  <2>. QED BY <1>5, <1>7, <2>3, <2>4, SeqEqual
<1>. QED BY <1>7, <1>8

(* calculate replaces the padding by some register's bytes, and by those   *)
(* of the remainder if no read fails.                                      *)
LEMMA WhatIsWritten ==
  ASSUME coded \in Seq(Byte), WriteChecksum
  PROVE  \E divReg \in SUBSET Reg :
           /\ Seal(divReg)
           /\ ~ misread' => ~ misread /\ divReg = CalcCrcRem(coded)
<1>1. CASE Seal({}) /\ misread' = TRUE
  <2>1. {} \in SUBSET Reg
    OBVIOUS
  <2>. QED BY <1>1, <2>1, Zenon
<1>2. CASE \E failed \in SUBSET DOMAIN coded :
             /\ Seal(CalcCrcRem(Fetched(coded, failed)))
             /\ misread' = (misread \/ failed # {})
  <2>1. PICK failed \in SUBSET DOMAIN coded :
             /\ Seal(CalcCrcRem(Fetched(coded, failed)))
             /\ misread' = (misread \/ failed # {})
    BY <1>2
  <2>2. Fetched(coded, failed) \in Seq(Byte) /\ (failed = {} => Fetched(coded, failed) = coded)
    BY FetchedBytes
  <2>3. CalcCrcRem(Fetched(coded, failed)) \in SUBSET Reg
    BY <2>2, CalcType
  <2>4. ~ misread' => ~ misread /\ CalcCrcRem(Fetched(coded, failed)) = CalcCrcRem(coded)
    BY <2>1, <2>2, Zenon
  <2>. QED BY <2>1, <2>3, <2>4, Zenon
<1>. QED BY <1>1, <1>2, Zenon DEF WriteChecksum

(* A validate none of whose reads fails accepts what verifies.             *)
LEMMA WhatIsAccepted ==
  ASSUME coded \in Seq(Byte), Verify, ~ misjudged'
  PROVE  ~ misjudged /\ CalcCrcRem(coded) = {}
<1>1. PICK failed \in SUBSET DOMAIN coded :
        /\ CalcCrcRem(Fetched(coded, failed)) = {}
        /\ misjudged' = (misjudged \/ failed # {})
  BY DEF Verify, Accepts
<1>2. failed = {} /\ ~ misjudged
  BY <1>1, Zenon
<1>3. Fetched(coded, failed) = coded
  BY <1>2, FetchedBytes
<1>. QED BY <1>1, <1>2, <1>3, Zenon

(* calculate ends with the file and two bytes; with a file that verifies   *)
(* if these are the remainder.                                             *)
LEMMA ChecksumVerifies ==
  ASSUME NEW c \in Seq(Byte), coded = c \o Padding, NEW divReg \in SUBSET Reg, Seal(divReg)
  PROVE  /\ coded' = c \o HighFirst(divReg)
         /\ HighFirst(divReg) \in Seq(Byte) /\ Len(HighFirst(divReg)) = 2
         /\ divReg = CalcCrcRem(coded) => CalcCrcRem(coded') = {}
<1> DEFINE padded == c \o Padding
<1>1. Padding \in Seq(Byte) /\ Len(Padding) = 2
  BY BitsOfPadding
<1>2. padded \in Seq(Byte) /\ Len(padded) - ChecksumByteCnt = Len(c)
  <2>1. padded \in Seq(Byte) /\ Len(padded) = Len(c) + 2 /\ Len(c) \in Nat
    BY <1>1, TwoMore, Zenon
  <2>. QED BY <2>1 DEF ChecksumByteCnt
<1>3. SubSeq(padded, 1, Len(c)) = c
  <2>1. PICK d \in Seq(Byte) : d = Padding
    BY <1>1
  <2>2. SubSeq(c \o d, 1, Len(c)) = c
    OBVIOUS
  <2>. QED BY <2>1, <2>2
<1>4. HighFirst(divReg) \in Seq(Byte) /\ Len(HighFirst(divReg)) = 2
  BY BitsOfChecksum DEF Reg
<1>5. coded' = c \o HighFirst(divReg)
  BY <1>2, <1>3, Zenon DEF Seal
<1>. QED BY <1>4, <1>5, ChecksumSeals, Zenon

(* The types are an invariant.                                             *)
LEMMA InitType == Init => TypeInv
<1> SUFFICES ASSUME Init PROVE TypeInv
  OBVIOUS
<1>1. orig \in Seq(Byte) /\ plain \in Seq(Byte) /\ coded = NoFile /\ rest \in Seq(Byte)
  BY CrcAssumption DEF Init
<1>. QED BY <1>1 DEF Init, TypeInv, File

LEMMA NextType == TypeInv /\ [Next]_vars => TypeInv'
<1> SUFFICES ASSUME TypeInv, [Next]_vars PROVE TypeInv'
  OBVIOUS
<1>0. NoFile \notin Seq(Byte)
  BY NoFileIsNone
<1>1. CASE Rename
  <2>1. clobbered' \in BOOLEAN
    <3>1. (clobbered \/ coded # NoFile) \in BOOLEAN
      OBVIOUS
    <3>. QED BY <1>1, <3>1 DEF Rename
  <2>. QED BY <1>1, <2>1 DEF Rename, TypeInv, File
<1>2. CASE Pad
  <2>1. coded \in Seq(Byte)
    BY <1>2 DEF Pad, TypeInv, File
  <2>2. coded \o Padding \in Seq(Byte)
    BY <2>1, BitsOfPadding, TwoMore, Zenon
  <2>. QED BY <1>0, <1>2, <2>2 DEF Pad, TypeInv, File, history
<1>3. CASE WriteChecksum
  <2>1. coded \in Seq(Byte)
    BY <1>3 DEF WriteChecksum, TypeInv, File
  <2>0. PICK divReg \in SUBSET Reg : Seal(divReg)
    BY <1>3, <2>1, WhatIsWritten
  <2> DEFINE sum == HighFirst(divReg)
             kept == SubSeq(coded, 1, Len(coded) - ChecksumByteCnt)
  <2>2. sum \in Seq(Byte)
    BY BitsOfChecksum DEF Reg
  <2>3. kept \in Seq(Byte)
    BY <2>1 DEF ChecksumByteCnt
  <2> HIDE DEF sum, kept
  <2>4. kept \o sum \in Seq(Byte)
    BY <2>2, <2>3
  <2>5. coded' = kept \o sum
    BY <2>0 DEF Seal, kept, sum
  <2>6. misread' \in BOOLEAN
    <3>1. \A b \in BOOLEAN : \A S : (b \/ S # {}) \in BOOLEAN
      OBVIOUS
    <3>2. misread \in BOOLEAN
      BY DEF TypeInv
    <3>. QED BY <1>3, <3>1, <3>2, Zenon DEF WriteChecksum
  <2>7. /\ coded' \in Seq(Byte) /\ pc' = "idle" /\ sealed' = TRUE
        /\ UNCHANGED <<plain, rest, orig, clobbered, damaged, misjudged>>
    BY <1>3, <2>4, <2>5 DEF WriteChecksum
  <2>. QED BY <1>0, <2>6, <2>7 DEF TypeInv, File
<1>4. CASE Verify
  <2>1. coded \in Seq(Byte) /\ <<>> \in Seq(Byte)
    BY <1>4 DEF Verify, TypeInv, File
  <2>2. misjudged' \in BOOLEAN
    <3>1. \A b \in BOOLEAN : \A S : (b \/ S # {}) \in BOOLEAN
      OBVIOUS
    <3>2. misjudged \in BOOLEAN
      BY DEF TypeInv
    <3>. QED BY <1>4, <3>1, <3>2, Zenon DEF Verify
  <2>3. /\ plain' = <<>> /\ pc' = "copy" /\ rest' = coded /\ coded # NoFile
        /\ UNCHANGED <<coded, orig, sealed, clobbered, damaged, misread>>
    BY <1>4 DEF Verify
  <2>. QED BY <1>0, <2>1, <2>2, <2>3 DEF TypeInv, File
<1>5. CASE CopyBlock
  <2>1. plain \in Seq(Byte)
    BY <1>5 DEF CopyBlock, TypeInv, File
  <2>2. PICK n : /\ n = Min({BufSize, Payload(rest)}) /\ n > 0
                 /\ plain' = plain \o SubSeq(rest, 1, n)
                 /\ rest' = SubSeq(rest, n + 1, Len(rest))
    BY <1>5 DEF CopyBlock
  <2>3. rest \in Seq(Byte)
    BY DEF TypeInv
  <2>4. n \in 0 .. Len(rest)
    BY <2>2, <2>3, BlockFits
  <2>5. plain' \in Seq(Byte) /\ rest' \in Seq(Byte)
    <3>1. SubSeq(rest, 1, n) \in Seq(Byte) /\ SubSeq(rest, n + 1, Len(rest)) \in Seq(Byte)
      BY <2>3, <2>4, Cut, Zenon
    <3>2. plain \o SubSeq(rest, 1, n) \in Seq(Byte)
      BY <2>1, <3>1, ConcatProperties, Zenon
    <3>. QED BY <2>2, <3>1, <3>2, Zenon
  <2>. QED BY <1>0, <1>5, <2>5 DEF CopyBlock, TypeInv, File, history
<1>6. CASE CopyDone
  BY <1>6 DEF CopyDone, TypeInv, files, history
<1>7. CASE Unlink
  BY <1>7 DEF Unlink, TypeInv, File
<1>8. CASE Fail
  BY <1>8 DEF Fail, TypeInv, files, history
<1>9. CASE Damage
  <2>1. coded \in Seq(Byte)
    BY <1>9 DEF Damage, TypeInv, File
  <2>2. coded' \in Seq(Byte)
    BY <1>9, <2>1, FlippedBits DEF Damage
  <2>. QED BY <1>0, <1>9, <2>2 DEF Damage, TypeInv, File
<1>10. CASE UNCHANGED vars
  BY <1>10 DEF TypeInv, vars, files, history
<1>. QED BY <1>1, <1>2, <1>3, <1>4, <1>5, <1>6, <1>7, <1>8, <1>9, <1>10 DEF Next

(* The files hold bytes, always.                                           *)
THEOREM Typing == Spec => []TypeInv
BY InitType, NextType, PTL DEF Spec

\* A calculate under way has taken the seal off; an undamaged file with the right
\* checksum verifies.
SealInv ==
  /\ pc \in {"pad", "checksum"} => ~ sealed
  /\ pc = "checksum" => \E c \in Seq(Byte) : coded = c \o Padding
  /\ sealed /\ ~ damaged /\ ~ misread => CalcCrcRem(coded) = {}

LEMMA NextSeal == TypeInv /\ SealInv /\ [Next]_vars => SealInv'
<1> SUFFICES ASSUME TypeInv, SealInv, [Next]_vars PROVE SealInv'
  OBVIOUS
<1>1. CASE Rename
  BY <1>1 DEF Rename, SealInv
<1>2. CASE Pad
  <2>1. coded \in Seq(Byte)
    BY <1>2 DEF Pad, TypeInv, File
  <2>2. \E c \in Seq(Byte) : coded' = c \o Padding
    BY <1>2, <2>1 DEF Pad
  <2>. QED BY <1>2, <2>2 DEF Pad, SealInv, history
<1>3. CASE WriteChecksum
  <2>1. PICK c \in Seq(Byte) : coded = c \o Padding
    BY <1>3 DEF WriteChecksum, SealInv
  <2>2. coded \in Seq(Byte)
    BY <1>3 DEF WriteChecksum, TypeInv, File
  <2>3. PICK divReg \in SUBSET Reg :
          Seal(divReg) /\ (~ misread' => ~ misread /\ divReg = CalcCrcRem(coded))
    BY <1>3, <2>2, WhatIsWritten
  <2>4. ~ misread' => CalcCrcRem(coded') = {}
    BY <2>1, <2>3, ChecksumVerifies
  <2>. QED BY <1>3, <2>4 DEF WriteChecksum, SealInv
<1>4. CASE Verify
  BY <1>4 DEF Verify, SealInv
<1>5. CASE CopyBlock
  BY <1>5 DEF CopyBlock, SealInv, history
<1>6. CASE CopyDone
  BY <1>6 DEF CopyDone, SealInv, files, history
<1>7. CASE Unlink
  BY <1>7 DEF Unlink, SealInv
<1>8. CASE Fail
  BY <1>8 DEF Fail, SealInv, files, history
<1>9. CASE Damage
  BY <1>9 DEF Damage, SealInv
<1>10. CASE UNCHANGED vars
  BY <1>10 DEF SealInv, vars, files, history
<1>. QED BY <1>1, <1>2, <1>3, <1>4, <1>5, <1>6, <1>7, <1>8, <1>9, <1>10 DEF Next

(* A file that calculate has completed without a failed read, and that is  *)
(* not damaged, verifies, however long it is and whatever was killed or    *)
(* failed before.                                                          *)
THEOREM Seals == Spec => []SealedVerifies
<1> DEFINE Inv == TypeInv /\ SealInv
<1>1. Init => Inv
  <2>1. Init => SealInv
    BY DEF Init, SealInv
  <2>. QED BY <2>1, InitType
<1>2. Inv /\ [Next]_vars => Inv'
  BY NextType, NextSeal
<1>3. Inv => SealedVerifies
  BY DEF SealInv, SealedVerifies
<1>. QED BY <1>1, <1>2, <1>3, PTL DEF Spec

(* In every state of the files the division register computes the          *)
(* remainder of the coded file.                                            *)
THEOREM DividesAlways == Spec => []DividesCorrectly
<1>1. TypeInv => DividesCorrectly
  <2> SUFFICES ASSUME TypeInv, coded # NoFile PROVE CalcCrcRem(coded) = Remainder(coded)
    BY DEF DividesCorrectly
  <2>1. coded \in Seq(Byte)
    BY DEF TypeInv, File
  <2>. QED BY <2>1, RegisterComputesRemainder
<1>. QED BY <1>1, Typing, PTL

-------------------------------------------------------------------------------
(* What becomes of the user's file.                                        *)

\* Coded is the user's file and a checksum, or room for one.
Extended == \E d \in Seq(Byte) : Len(d) = 2 /\ coded = orig \o d

\* As long as no calculate has run over a coded file, none was damaged, and no
\* validate was misled: what each step of a command has reached.
CopyInv ==
  /\ orig \in Docs
  /\ ~ damaged /\ ~ clobbered /\ ~ misjudged =>
       /\ IF coded = NoFile THEN plain = orig ELSE coded = orig \/ Extended
       /\ pc = "pad" => coded = orig
       /\ pc = "checksum" => coded = orig \o Padding
       /\ pc = "copy" => \/ coded = orig /\ rest = orig /\ Len(orig) < 2
                         \/ Extended /\ plain \o rest = coded /\ Len(rest) >= 2
       /\ pc = "unlink" => plain = orig

(* Copying goes on where it stopped.                                       *)
LEMMA BlockMoves ==
  ASSUME NEW a \in Seq(Byte), NEW r \in Seq(Byte), NEW n \in 0 .. Len(r)
  PROVE  (a \o SubSeq(r, 1, n)) \o SubSeq(r, n + 1, Len(r)) = a \o r
<1>1. PICK b \in Seq(Byte), c \in Seq(Byte) :
        b = SubSeq(r, 1, n) /\ c = SubSeq(r, n + 1, Len(r)) /\ b \o c = r
  <2>1. PICK b, c : b = SubSeq(r, 1, n) /\ c = SubSeq(r, n + 1, Len(r))
    OBVIOUS
  <2>2. b \in Seq(Byte) /\ c \in Seq(Byte) /\ b \o c = r
    BY <2>1, Cut, Zenon
  <2>. QED BY <2>1, <2>2
<1>2. (a \o b) \o c = a \o (b \o c)
  BY ONLY a \in Seq(Byte), b \in Seq(Byte), c \in Seq(Byte), ConcatAssociative
<1>. QED BY <1>1, <1>2, Zenon

(* If two bytes are left of a file and a checksum, the file has been copied. *)
LEMMA AllCopied ==
  ASSUME NEW a \in Seq(Byte), NEW r \in Seq(Byte), NEW o \in Seq(Byte), NEW d \in Seq(Byte),
         Len(r) = 2, Len(d) = 2, a \o r = o \o d
  PROVE  a = o
<1>1. /\ Len(a) = Len(o) /\ Len(a) \in Nat
  <2>1. Len(a \o r) = Len(a) + 2 /\ Len(o \o d) = Len(o) + 2 /\ Len(a) \in Nat /\ Len(o) \in Nat
    BY TwoMore, Zenon
  <2>2. Len(a \o r) = Len(o \o d)
    OBVIOUS
  <2>. QED BY <2>1, <2>2
<1>2. ASSUME NEW i \in 1 .. Len(a) PROVE a[i] = o[i]
  <2>1. (a \o r)[i] = a[i] /\ (o \o d)[i] = o[i]
    BY <1>1
  <2>. QED BY <2>1, Zenon
<1>. QED BY <1>1, <1>2, SeqEqual

LEMMA NextCopy ==
  ASSUME NoMultiples, TypeInv, SealInv, CopyInv, [Next]_vars
  PROVE  CopyInv'
<1> SUFFICES ASSUME ~ damaged', ~ clobbered', ~ misjudged'
             PROVE  /\ IF coded' = NoFile THEN plain' = orig' ELSE coded' = orig' \/ Extended'
                    /\ pc' = "pad" => coded' = orig'
                    /\ pc' = "checksum" => coded' = orig' \o Padding
                    /\ pc' = "copy" => \/ coded' = orig' /\ rest' = orig' /\ Len(orig') < 2
                                       \/ Extended' /\ plain' \o rest' = coded' /\ Len(rest') >= 2
                    /\ pc' = "unlink" => plain' = orig'
  <2>1. orig' = orig /\ orig \in Docs
    BY DEF CopyInv, Next, Rename, Pad, WriteChecksum, Verify, CopyBlock, CopyDone, Unlink, Fail,
           Damage, vars, files, history
  <2>. QED BY <2>1 DEF CopyInv
<1>1. /\ ~ damaged /\ ~ clobbered /\ ~ misjudged /\ orig' = orig /\ orig \in Docs
      /\ NoFile \notin Seq(Byte) /\ orig \in Seq(Byte) /\ rest \in Seq(Byte)
  <2>1. ~ damaged /\ ~ clobbered
    <3>1. CASE Rename
      BY <3>1, Zenon DEF Rename
    <3>2. CASE Damage
      BY <3>2, Zenon DEF Damage
    <3>3. CASE UNCHANGED <<damaged, clobbered>>
      BY <3>3, Zenon
    <3>4. Rename \/ Damage \/ UNCHANGED <<damaged, clobbered>>
      BY Zenon DEF Next, Pad, WriteChecksum, Verify, CopyBlock, CopyDone, Unlink, Fail,
                   vars, history
    <3>. QED BY <3>1, <3>2, <3>3, <3>4, Zenon
  <2>3. ~ misjudged
    <3>1. CASE Verify
      BY <3>1, Zenon DEF Verify
    <3>2. Verify \/ UNCHANGED misjudged
      BY Zenon DEF Next, Rename, Pad, WriteChecksum, CopyBlock, CopyDone, Unlink, Fail, Damage,
                   vars, history
    <3>. QED BY <3>1, <3>2, Zenon
  <2>2. orig' = orig
    BY DEF Next, Rename, Pad, WriteChecksum, Verify, CopyBlock, CopyDone, Unlink, Fail,
           Damage, vars, files, history
  <2>. QED BY <2>1, <2>2, <2>3, NoFileIsNone DEF CopyInv, TypeInv
<1>2. /\ IF coded = NoFile THEN plain = orig ELSE coded = orig \/ Extended
      /\ pc = "pad" => coded = orig
      /\ pc = "checksum" => coded = orig \o Padding
      /\ pc = "copy" => \/ coded = orig /\ rest = orig /\ Len(orig) < 2
                        \/ Extended /\ plain \o rest = coded /\ Len(rest) >= 2
      /\ pc = "unlink" => plain = orig
  BY <1>1 DEF CopyInv
<1>3. CASE Rename
  <2>1. coded = NoFile
    BY <1>3 DEF Rename
  <2>. QED BY <1>1, <1>3, <1>2, <2>1 DEF Rename
<1>4. CASE Pad
  <2>1. coded' = orig \o Padding /\ pc' = "checksum"
    BY <1>4, <1>2 DEF Pad
  <2>2. coded' \in Seq(Byte) /\ Padding \in Seq(Byte) /\ Len(Padding) = 2
    BY <1>1, <2>1, BitsOfPadding, TwoMore
  <2>3. Extended' /\ coded' # NoFile
    BY <1>1, <2>1, <2>2 DEF Extended
  <2>. QED BY <1>1, <2>1, <2>3
<1>5. CASE WriteChecksum
  <2>1. coded = orig \o Padding /\ pc' = "idle"
    BY <1>5, <1>2 DEF WriteChecksum
  <2>5. coded \in Seq(Byte)
    BY <1>5 DEF WriteChecksum, TypeInv, File
  <2>6. PICK divReg \in SUBSET Reg : Seal(divReg)
    BY <1>5, <2>5, WhatIsWritten
  <2>2. PICK d \in Seq(Byte) : Len(d) = 2 /\ coded' = orig \o d
    BY <1>1, <2>1, <2>6, ChecksumVerifies
  <2>3. Extended'
    BY <1>1, <2>2 DEF Extended
  <2>4. coded' # NoFile
    BY <1>1, <2>2, TwoMore
  <2>. QED BY <2>1, <2>3, <2>4
<1>6. CASE Verify
  <2>1. /\ coded # NoFile /\ coded' = coded /\ plain' = <<>> /\ rest' = coded /\ pc' = "copy"
        /\ CalcCrcRem(coded) = {}
    <3>1. coded \in Seq(Byte)
      BY <1>6 DEF Verify, TypeInv, File
    <3>2. CalcCrcRem(coded) = {}
      BY <1>6, <3>1, WhatIsAccepted
    <3>. QED BY <1>6, <3>2 DEF Verify
  <2>2. CASE Extended
    <3>1. PICK d \in Seq(Byte) : Len(d) = 2 /\ coded = orig \o d
      BY <2>2 DEF Extended
    <3>2. coded \in Seq(Byte) /\ Len(coded) = Len(orig) + 2 /\ Len(orig) \in Nat
      BY <1>1, <3>1, TwoMore
    <3>3. plain' \o rest' = coded' /\ Len(rest') >= 2
      BY <2>1, <3>2
    <3>4. Extended'
      BY <1>1, <2>1, <2>2 DEF Extended
    <3>. QED BY <2>1, <3>3, <3>4
  <2>3. CASE coded = orig
    <3>1. Len(orig) < 2
      BY <1>1, <2>1, <2>3 DEF NoMultiples, ChecksumByteCnt
    <3>. QED BY <1>1, <2>1, <2>3, <3>1
  <2>. QED BY <1>2, <2>1, <2>2, <2>3
<1>7. CASE CopyBlock
  <2>1. PICK n : /\ n = Min({BufSize, Payload(rest)}) /\ n > 0
                 /\ plain' = plain \o SubSeq(rest, 1, n)
                 /\ rest' = SubSeq(rest, n + 1, Len(rest))
    BY <1>7 DEF CopyBlock
  <2>2. n \in 1 .. Len(rest) /\ Len(rest) - n >= 2
    BY <1>1, <2>1, BlockFits
  <2>3. pc = "copy" /\ pc' = "copy" /\ coded' = coded
    BY <1>7 DEF CopyBlock
  <2>4. Extended /\ plain \o rest = coded
    BY <1>1, <1>2, <2>2, <2>3
  <2>5. plain \in Seq(Byte) /\ coded # NoFile
    BY <2>3 DEF TypeInv, File
  <2>6. plain' \o rest' = plain \o rest
    <3>1. n \in 0 .. Len(rest)
      BY <2>2
    <3>. QED BY <1>1, <2>1, <2>5, <3>1, BlockMoves
  <2>7. Len(rest') >= 2
    <3>1. n \in 0 .. Len(rest)
      BY <2>2
    <3>. QED BY <1>1, <2>1, <2>2, <3>1, Cut
  <2>8. Extended'
    BY <1>1, <2>3, <2>4 DEF Extended
  <2>. QED BY <2>3, <2>4, <2>5, <2>6, <2>7, <2>8
<1>8. CASE CopyDone
  <2>1. /\ pc = "copy" /\ Payload(rest) <= 0 /\ plain' = plain /\ coded' = coded
        /\ pc' = IF Payload(rest) < 0 THEN "idle" ELSE "unlink"
    BY <1>8 DEF CopyDone, files
  <2>2. coded # NoFile /\ plain \in Seq(Byte)
    BY <2>1 DEF TypeInv, File
  <2>3. coded' = orig' \/ Extended'
    BY <1>1, <1>2, <2>1, <2>2 DEF Extended
  <2>4. ASSUME pc' = "unlink" PROVE plain = orig
    <3>1. Len(rest) = 2
      <4>1. ~ (Payload(rest) < 0)
        BY <2>1, <2>4
      <4>2. Len(rest) \in Nat
        BY <1>1
      <4>3. Payload(rest) = Len(rest) - 2 /\ Payload(rest) <= 0
        BY <2>1 DEF Payload, ChecksumByteCnt
      <4>4. \A l \in Nat : ~ (l - 2 < 0) /\ l - 2 <= 0 => l = 2
        OBVIOUS
      <4>. QED BY <4>1, <4>2, <4>3, <4>4, Zenon
    <3>2. Extended /\ plain \o rest = coded
      <4>1. rest = orig => ~ (Len(orig) < 2)
        BY <3>1
      <4>. QED BY <1>2, <2>1, <4>1, Zenon
    <3>3. PICK d \in Seq(Byte) : Len(d) = 2 /\ coded = orig \o d
      BY <3>2 DEF Extended
    <3>. QED BY <1>1, <2>2, <3>1, <3>2, <3>3, AllCopied
  <2>5. pc' \in {"idle", "unlink"}
    BY <2>1
  <2>. QED BY <1>1, <2>1, <2>2, <2>3, <2>4, <2>5
<1>9. CASE Unlink
  BY <1>1, <1>9, <1>2 DEF Unlink
<1>10. CASE Fail
  BY <1>1, <1>10, <1>2 DEF Fail, files, Extended
<1>11. CASE Damage
  BY <1>11 DEF Damage
<1>12. CASE UNCHANGED vars
  BY <1>12, <1>2 DEF vars, files, history, Extended
<1>. QED BY <1>3, <1>4, <1>5, <1>6, <1>7, <1>8, <1>9, <1>10, <1>11, <1>12 DEF Next

\* A damaged file has been found out, until a calculate runs over it.
Caught ==
  damaged /\ ~ clobbered /\ ~ misread /\ ~ misjudged =>
    pc = "idle" /\ coded # NoFile /\ CalcCrcRem(coded) # {}

(* With one flip or one burst, damage is found out.                        *)
LEMMA DamageShows ==
  ASSUME MaxFlips = 1, TypeInv, SealInv, ~ misread, Damage
  PROVE  CalcCrcRem(coded') # {}
<1> DEFINE len == 8 * Len(coded)
<1>1. /\ sealed /\ ~ damaged
      /\ \E flips \in FewBits(len) \cup UNION {BurstAt(s, len) : s \in 0 .. len - 1} :
           coded' = FlipBits(coded, flips)
  BY DEF Damage
<1>2. coded \in Seq(Byte) /\ CalcCrcRem(coded) = {}
  BY <1>1 DEF TypeInv, File, SealInv
<1>3. PICK flips : /\ flips \in FewBits(len) \cup UNION {BurstAt(s, len) : s \in 0 .. len - 1}
                   /\ coded' = FlipBits(coded, flips)
  BY <1>1
<1>4. PICK s \in 0 .. len - 1 : s \in flips /\ flips \subseteq s .. s + 15
  <2>1. CASE flips \in FewBits(len)
    <3>1. PICK f \in [1 .. 1 -> 0 .. len - 1] : flips = ToSet(f)
      BY <2>1 DEF FewBits
    <3>2. DOMAIN f = {1} /\ f[1] \in 0 .. len - 1
      BY <3>1
    <3>3. flips = {f[1]}
      BY <3>1, <3>2 DEF ToSet
    <3>. QED BY <3>2, <3>3
  <2>2. CASE flips \in UNION {BurstAt(s, len) : s \in 0 .. len - 1}
    <3>1. PICK s \in 0 .. len - 1 : flips \in BurstAt(s, len)
      BY <2>2
    <3>2. PICK more : /\ flips = {s} \cup more
                      /\ more \subseteq s + 1 .. Min({s + MaxBurst, len}) - 1
      BY <3>1 DEF BurstAt
    <3>3. PICK m \in Int : m = Min({s + MaxBurst, len}) /\ m <= s + 16
      <4>1. s + MaxBurst \in Int /\ len \in Int /\ s + MaxBurst <= s + 16
        BY <1>2, CrcAssumption DEF PolyOrd
      <4>2. /\ Min({s + MaxBurst, len}) \in {s + MaxBurst, len}
            /\ Min({s + MaxBurst, len}) <= s + MaxBurst
        BY <4>1, MinOfTwo
      <4>. QED BY <4>1, <4>2
    <3>4. s + 1 .. m - 1 \subseteq s .. s + 15 /\ s \in s .. s + 15
      BY <3>3
    <3>. QED BY <3>2, <3>3, <3>4
  <2>. QED BY <1>3, <2>1, <2>2
<1>. QED BY <1>2, <1>3, <1>4, BurstsShow

LEMMA NextCaught ==
  ASSUME MaxFlips = 1, TypeInv, SealInv, Caught, [Next]_vars
  PROVE  Caught'
<1>1. CASE Rename
  BY <1>1 DEF Rename, Caught
<1>2. CASE Pad \/ CopyBlock \/ CopyDone \/ Unlink \/ Fail
  BY <1>2 DEF Pad, CopyBlock, CopyDone, Unlink, Fail, Caught, history
<1>6. CASE WriteChecksum
  <2>1. coded \in Seq(Byte)
    BY <1>6 DEF WriteChecksum, TypeInv, File
  <2>2. ~ misread' => ~ misread
    BY <1>6, <2>1, WhatIsWritten
  <2>3. pc # "idle" /\ UNCHANGED <<damaged, clobbered, misjudged>>
    BY <1>6 DEF WriteChecksum
  <2>. QED BY <2>2, <2>3 DEF Caught
<1>3. CASE Verify
  <2>1. coded \in Seq(Byte)
    BY <1>3 DEF Verify, TypeInv, File
  <2>2. ~ misjudged' => ~ misjudged /\ CalcCrcRem(coded) = {}
    BY <1>3, <2>1, WhatIsAccepted
  <2>3. UNCHANGED <<damaged, clobbered, misread>>
    BY <1>3 DEF Verify
  <2>. QED BY <2>2, <2>3 DEF Caught
<1>4. CASE Damage
  <2>1. ~ misread => CalcCrcRem(coded') # {}
    BY <1>4, DamageShows
  <2>2. coded' # NoFile
    <3>1. coded \in Seq(Byte)
      BY <1>4 DEF Damage, TypeInv, File
    <3>2. coded' \in Seq(Byte)
      BY <1>4, <3>1, FlippedBits DEF Damage
    <3>. QED BY <3>2, NoFileIsNone
  <2>. QED BY <1>4, <2>1, <2>2 DEF Damage, Caught
<1>5. CASE UNCHANGED vars
  BY <1>5 DEF Caught, vars, files, history
<1>. QED BY <1>1, <1>2, <1>3, <1>4, <1>5, <1>6 DEF Next

(* The user's file is never lost: at every step of a command, wherever it  *)
(* is killed, the original or the coded file begins with what it holds,    *)
(* if no read failed in validate's check.                                  *)
THEOREM KeepsTheFile ==
  ASSUME NoMultiples
  PROVE  Spec => []NothingLost
<1> DEFINE Inv == TypeInv /\ SealInv /\ CopyInv
<1>1. Init => Inv
  <2>1. Init => SealInv /\ CopyInv
    BY DEF Init, SealInv, CopyInv
  <2>. QED BY <2>1, InitType
<1>2. Inv /\ [Next]_vars => Inv'
  BY NextType, NextSeal, NextCopy
<1>3. Inv => NothingLost
  <2> SUFFICES ASSUME Inv, ~ damaged, ~ clobbered, ~ misjudged
               PROVE  plain = orig \/ (coded # NoFile /\ IsPrefix(orig, coded))
    BY DEF NothingLost
  <2>1. CASE coded = NoFile
    BY <2>1 DEF CopyInv
  <2>2. CASE coded = orig /\ coded # NoFile
    BY <2>2 DEF IsPrefix, TypeInv
  <2>3. CASE Extended /\ coded # NoFile
    <3>1. PICK d \in Seq(Byte) : coded = orig \o d
      BY <2>3 DEF Extended
    <3>2. orig \in Seq(Byte)
      BY DEF TypeInv
    <3>3. /\ Len(orig) <= Len(orig \o d)
          /\ SubSeq(orig \o d, 1, Len(orig)) = SubSeq(orig, 1, Len(orig))
      BY <3>2
    <3>. QED BY <2>3, <3>1, <3>3 DEF IsPrefix
  <2>. QED BY <2>1, <2>2, <2>3 DEF CopyInv
<1>. QED BY <1>1, <1>2, <1>3, PTL DEF Spec

(* If damage flips one bit, or any bits of a stretch as long as the        *)
(* checksum, validate never takes a file for the user's that is not, of    *)
(* whatever length.                                                        *)
THEOREM AcceptsOnlyTheFile ==
  ASSUME NoMultiples, MaxFlips = 1
  PROVE  Spec => []AcceptedIsOriginal
<1> DEFINE Inv == TypeInv /\ SealInv /\ CopyInv /\ Caught
<1>1. Init => Inv
  <2>1. Init => SealInv /\ CopyInv /\ Caught
    BY DEF Init, SealInv, CopyInv, Caught
  <2>. QED BY <2>1, InitType
<1>2. Inv /\ [Next]_vars => Inv'
  BY NextType, NextSeal, NextCopy, NextCaught
<1>3. Inv => AcceptedIsOriginal
  BY DEF CopyInv, Caught, TypeInv, AcceptedIsOriginal
<1>. QED BY <1>1, <1>2, <1>3, PTL DEF Spec
===============================================================================
