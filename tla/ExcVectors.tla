----------------------------- MODULE ExcVectors -----------------------------
(***************************************************************************)
(* The interrupt vectors: install_exception_handler (demo_system.c)        *)
(* overwrites one of 32 jumps with a jump to a handler.  An instruction    *)
(* word is the set of its bits that are one.  How the core decodes the     *)
(* jump is that of the RISC-V instruction set (jal).                       *)
(***************************************************************************)
EXTENDS Integers

CONSTANTS VectorsStart
ASSUME VectorsAssumption == VectorsStart \in Nat /\ VectorsStart % 4 = 0

VectorNums == 0 .. 31
VectorAddress(n) == VectorsStart + 4 * n

Opcode == {0, 1, 2, 3, 5, 6}          \* 0x6f, with x0 as the link register
Moved(bits, first, last, by) == {k + by : k \in bits \cap (first .. last)}

(* Those bits of a two's complement number that the masks can keep         *)
OffsetBits(offset) == {k \in 0 .. 20 : (offset \div 2 ^ k) % 2 = 1}

jmp_ins_Bit11Unmoved(bits) ==
  Moved(bits, 1, 11, 20) \cup Moved(bits, 12, 19, 0) \cup Moved(bits, 20, 20, 11) \cup Opcode
jmp_ins(bits) == Moved(bits, 1, 10, 20) \cup Moved(bits, 11, 11, 9) \cup Moved(bits, 12, 19, 0)
                 \cup Moved(bits, 20, 20, 11) \cup Opcode

InReach(offset) == -(2 ^ 19) <= offset /\ offset < 2 ^ 19

(* The vectors after the call; it returns 1 or 2 where they stay the same  *)
install_exception_handler(vectors, vector_num, handler_fn) ==
  LET offset == handler_fn - VectorAddress(vector_num)
  IN IF vector_num \in VectorNums /\ InReach(offset)
     THEN [vectors EXCEPT ![vector_num] = jmp_ins(OffsetBits(offset))]
     ELSE vectors
---------------------------------------------------------------------------
(* What the core makes of an instruction word: the bits of jal's offset,   *)
(* and the address it jumps to                                             *)
JalBits(ins) == Moved(ins, 21, 30, -20) \cup Moved(ins, 20, 20, -9) \cup Moved(ins, 12, 19, 0)
                \cup Moved(ins, 31, 31, -11)
IsJump(ins) == ins \cap (0 .. 11) = Opcode

SignedValue(bits) ==
  LET weight(k) == IF k \notin bits THEN 0 ELSE IF k = 20 THEN -(2 ^ 20) ELSE 2 ^ k
      sum[k \in 0 .. 20] == weight(k) + (IF k = 0 THEN 0 ELSE sum[k - 1])
  IN sum[20]

JumpsTo(vectors, n) == VectorAddress(n) + SignedValue(JalBits(vectors[n]))

(* crt0.S: every vector jumps to default_exc_handler                       *)
DefaultVectors(default_exc_handler) ==
  [n \in VectorNums |-> jmp_ins(OffsetBits(default_exc_handler - VectorAddress(n)))]
=============================================================================
