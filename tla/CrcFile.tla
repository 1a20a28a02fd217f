------------------------------- MODULE CrcFile -------------------------------
(***************************************************************************)
(* U10/crc.c as a program that changes files.  One name is enough: plain   *)
(* is the file <name>, coded the file <name>.crc.  Commands run one after  *)
(* another; each may be killed, or fail, at any of its steps.              *)
(***************************************************************************)
EXTENDS Crc

VARIABLES
  pc,
  plain, coded,  \* contents (sequences of bytes), or NoFile
  rest,          \* validate: what is still to be copied
  orig,          \* history: the user's file
  sealed,        \* history: a calculate has completed on coded
  clobbered,     \* history: a calculate has renamed plain over coded
  damaged,       \* history: bits of coded were flipped
  misread,       \* history: reads failed in a calculate that completed
  misjudged      \* history: reads failed in the check of a validate that went on

files   == <<plain, coded>>
history == <<orig, sealed, clobbered, damaged, misread, misjudged>>
vars    == <<pc, files, rest, history>>

NoFile == <<-1>>     \* no file has this contents

Init ==
  /\ orig \in Docs /\ plain = orig /\ coded = NoFile
  /\ pc = "idle" /\ rest = <<>>
  /\ sealed = FALSE /\ clobbered = FALSE /\ damaged = FALSE
  /\ misread = FALSE /\ misjudged = FALSE
-------------------------------------------------------------------------------
(* calculate *)

\* rename replaces a file of the new name.
Rename ==
  /\ pc = "idle" /\ plain # NoFile
  /\ plain' = NoFile /\ coded' = plain
  /\ pc' = "pad"
  /\ sealed' = FALSE
  /\ clobbered' = (clobbered \/ coded # NoFile)
  /\ UNCHANGED <<rest, orig, damaged, misread, misjudged>>

\* Two zero bytes make room for the checksum; the seek of calc_crc_rem
\* writes them out.
Padding == <<0, 0>>
Pad ==
  /\ pc = "pad"
  /\ coded' = coded \o Padding
  /\ pc' = "checksum"
  /\ UNCHANGED <<plain, rest, history>>

\* The checksum replaces them when the file is closed.
Seal(divReg) ==
  coded' = SubSeq(coded, 1, Len(coded) - ChecksumByteCnt) \o HighFirst(divReg)

\* The division neither notices reads that fail nor an ftell that does: -1,
\* which is not the 0 it is compared with, is then a size without any bits.
WriteChecksum ==
  /\ pc = "checksum"
  /\ \/ \E failed \in SUBSET DOMAIN coded :
          /\ Seal(CalcCrcRem(Fetched(coded, failed)))
          /\ misread' = (misread \/ failed # {})
     \/ Seal({}) /\ misread' = TRUE
  /\ pc' = "idle"
  /\ sealed' = TRUE
  /\ UNCHANGED <<plain, rest, orig, clobbered, damaged, misjudged>>
-------------------------------------------------------------------------------
(* validate *)
\* (AnyRemainder is a validate that does not check.)
AnyRemainder(divReg) == TRUE
Accepts(divReg)      == divReg = {}

\* Verify the remainder of what could be read.  "wx" refuses to write to a file
\* that exists.
Verify ==
  /\ pc = "idle" /\ coded # NoFile
  /\ \E failed \in SUBSET DOMAIN coded :
       /\ Accepts(CalcCrcRem(Fetched(coded, failed)))
       /\ misjudged' = (misjudged \/ failed # {})
  /\ plain = NoFile
  /\ plain' = <<>>
  /\ pc' = "copy"
  /\ rest' = coded
  /\ UNCHANGED <<coded, orig, sealed, clobbered, damaged, misread>>

\* (WholeFile copies the checksum as well.)
WholeFile(bytes) == Len(bytes)
Payload(bytes)   == Len(bytes) - ChecksumByteCnt

\* Copy a block, or what is left in front of the checksum.
CopyBlock ==
  LET n == Min({BufSize, Payload(rest)}) IN
  /\ pc = "copy" /\ n > 0
  /\ plain' = plain \o SubSeq(rest, 1, n)
  /\ rest' = SubSeq(rest, n + 1, Len(rest))
  /\ UNCHANGED <<pc, coded, history>>

\* A file too short for a checksum makes the count negative, i.e. huge for
\* fread: it reads less, and the command fails.
CopyDone ==
  /\ pc = "copy" /\ Payload(rest) <= 0
  /\ pc' = IF Payload(rest) < 0 THEN "idle" ELSE "unlink"
  /\ rest' = <<>>
  /\ UNCHANGED <<files, history>>

Unlink ==
  /\ pc = "unlink"
  /\ coded' = NoFile
  /\ pc' = "idle" /\ sealed' = FALSE
  /\ UNCHANGED <<plain, rest, orig, clobbered, damaged, misread, misjudged>>
-------------------------------------------------------------------------------
\* A call whose result is checked fails, or the process is killed.  (A validate
\* that ends before it creates its output changes nothing.)
Fail ==
  /\ pc # "idle"
  /\ pc' = "idle" /\ rest' = <<>>
  /\ UNCHANGED <<files, history>>

\* Damage to a coded file between the commands: a few bits, or a burst.
FlipBits(bytes, flips) ==
  [j \in DOMAIN bytes |->
     LET at(i) == 8 * (j - 1) + 7 - i    \* where in the file the byte's bit i is
     IN  ByteOf({i \in 0 .. 7 : (BitOf(bytes, at(i)) = 1) = (at(i) \notin flips)})]

FewBits(len) == {ToSet(f) : f \in [1 .. MaxFlips -> 0 .. len - 1]}
BurstAt(s, len) ==
  {{s} \cup more : more \in SUBSET (s + 1 .. Min({s + MaxBurst, len}) - 1)}

Damage ==
  LET len == 8 * Len(coded) IN
  /\ pc = "idle" /\ sealed /\ ~damaged
  /\ \E flips \in FewBits(len) \cup UNION {BurstAt(s, len) : s \in 0 .. len - 1} :
       coded' = FlipBits(coded, flips)
  /\ damaged' = TRUE
  /\ UNCHANGED <<pc, plain, rest, orig, sealed, clobbered, misread, misjudged>>

Next ==
  \/ Rename \/ Pad \/ WriteChecksum
  \/ Verify \/ CopyBlock \/ CopyDone \/ Unlink
  \/ Fail \/ Damage

Spec == Init /\ [][Next]_vars
-------------------------------------------------------------------------------
(* What validate has written when it is about to remove the coded file is  *)
(* the user's file: neither a damaged file is accepted, nor what a killed  *)
(* calculate or validate left behind, nor a wrong checksum; but for reads  *)
(* that failed in validate itself, and for damage to a wrong checksum.     *)
AcceptedIsOriginal ==
  pc = "unlink" /\ ~clobbered /\ ~misjudged /\ ~(damaged /\ misread) => plain = orig

(* A file that calculate has completed without a failed read, and that is  *)
(* not damaged, verifies.                                                  *)
SealedVerifies == sealed /\ ~damaged /\ ~misread => CalcCrcRem(coded) = {}

(* The division register computes the remainder, whatever bytes the file   *)
(* holds by now.                                                           *)
DividesCorrectly == coded # NoFile => CalcCrcRem(coded) = Remainder(coded)

\* No file of the user is a multiple of the polynomial by itself: a calculate
\* killed before it pads such a file leaves one that verifies.
NoMultiples == \A doc \in Docs : Len(doc) < ChecksumByteCnt \/ CalcCrcRem(doc) # {}

(* At every step there is a file that the original can be read from, as    *)
(* long as nobody runs calculate over a coded file and no read fails in    *)
(* validate's check; a wrong checksum loses nothing.                       *)
NothingLost ==
  ~damaged /\ ~clobbered /\ ~misjudged =>
    plain = orig \/ (coded # NoFile /\ IsPrefix(orig, coded))
===============================================================================
