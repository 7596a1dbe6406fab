-------------------------- MODULE HelloWorldProofs --------------------------
(***************************************************************************)
(* The hello_world demo never prints two lines in one, and its interrupts  *)
(* reach their handlers wherever the linker puts these, by the jump that   *)
(* install_exception_handler writes and the core takes apart again.        *)
(***************************************************************************)
EXTENDS HelloWorld, SequenceTheorems, TLAPS

(* What main has set up, from where it is                                  *)
SetUpInv ==
  /\ main # "install_uart" => JumpsTo(vectors, UART_IRQ_NUM) = at.test_uart_irq_handler
  /\ main \notin {"install_uart", "enable_uart", "install_timer"} =>
       JumpsTo(vectors, TIMER_IRQ_NUM) = at.simple_timer_handler
  /\ UART_IRQ_NUM \in mie <=> main \notin {"install_uart", "enable_uart"}
  /\ TIMER_IRQ_NUM \in mie <=>
       main \notin {"install_uart", "enable_uart", "install_timer", "arm_timer", "enable_timer"}
  /\ MIE <=> main \notin {"install_uart", "enable_uart", "print"}
  /\ isr # "none" => MIE
  /\ isr \in {"none", "uart_in", "echo", "cr", "lf", "timer"}

(* The characters still to come out after those of the line: the last one  *)
(* written ended a line, or belongs to one of this author                  *)
Ended == IF tx = <<>> THEN line = <<>> ELSE tx[Len(tx)] = "newline"
Partial(author) == IF tx = <<>> THEN \A i \in DOMAIN line : line[i] = author
                   ELSE tx[Len(tx)] \in {"newline", author}

LineInv ==
  /\ tx \in Seq({"main", "echo", "newline"}) /\ line \in Seq({"main", "echo"})
  /\ WholeLines
  /\ tx # <<>> /\ Head(tx) # "newline" => \A i \in DOMAIN line : line[i] = Head(tx)
  /\ \A i \in 1 .. Len(tx) - 1 : \/ "newline" \in {tx[i], tx[i + 1]}
                                 \/ tx[i] = tx[i + 1]

(* Who is in the middle of a line                                          *)
AuthorInv ==
  IF main = "print" /\ left \in 1 .. LineLength + 1 THEN Partial("main")
  ELSE IF isr \in {"cr", "lf"} THEN Partial("echo")
  ELSE Ended

Inv == TypeOK /\ SetUpInv /\ LineInv /\ AuthorInv
---------------------------------------------------------------------------
(* Which bits of a word made by Moved are one                              *)
LEMMA MovedBit ==
  ASSUME NEW bits \in SUBSET Int, NEW first \in Int, NEW last \in Int, NEW by \in Int,
         NEW b \in Int
  PROVE  b \in Moved(bits, first, last, by) <=>
           b - by \in bits /\ first <= b - by /\ b - by <= last
  BY DEF Moved

LEMMA MovedInt ==
  ASSUME NEW bits \in SUBSET Int, NEW first \in Int, NEW last \in Int, NEW by \in Int
  PROVE  Moved(bits, first, last, by) \in SUBSET Int
  BY DEF Moved

(* The bits of the instruction word, from those of the offset              *)
LEMMA InstructionBit ==
  ASSUME NEW bits \in SUBSET (0 .. 20), NEW b \in Int
  PROVE  /\ jmp_ins(bits) \in SUBSET Int
         /\ b \in jmp_ins(bits) <=>
              \/ 21 <= b /\ b <= 30 /\ b - 20 \in bits
              \/ b = 20 /\ 11 \in bits
              \/ 12 <= b /\ b <= 19 /\ b \in bits
              \/ b = 31 /\ 20 \in bits
              \/ b \in Opcode
<1>1. bits \in SUBSET Int
  OBVIOUS
<1>2. /\ Moved(bits, 1, 10, 20) \in SUBSET Int /\ Moved(bits, 11, 11, 9) \in SUBSET Int
      /\ Moved(bits, 12, 19, 0) \in SUBSET Int /\ Moved(bits, 20, 20, 11) \in SUBSET Int
  BY <1>1, MovedInt
<1>3. b \in Moved(bits, 1, 10, 20) <=> 21 <= b /\ b <= 30 /\ b - 20 \in bits
  BY <1>1, MovedBit
<1>4. b \in Moved(bits, 11, 11, 9) <=> b = 20 /\ 11 \in bits
  BY <1>1, MovedBit
<1>5. b \in Moved(bits, 12, 19, 0) <=> 12 <= b /\ b <= 19 /\ b \in bits
  BY <1>1, MovedBit
<1>6. b \in Moved(bits, 20, 20, 11) <=> b = 31 /\ 20 \in bits
  BY <1>1, MovedBit
<1> QED
  BY <1>2, <1>3, <1>4, <1>5, <1>6 DEF jmp_ins, Opcode

(* For every even offset the core finds in the instruction a jump without  *)
(* a link, by exactly the offset that install_exception_handler put in     *)
(* (demo_system.c:90-96).                                                  *)
THEOREM DecodedAsEncoded ==
  ASSUME NEW bits \in SUBSET (0 .. 20), 0 \notin bits
  PROVE  IsJump(jmp_ins(bits)) /\ JalBits(jmp_ins(bits)) = bits
<1> DEFINE ins == jmp_ins(bits)
<1>1. ins \in SUBSET Int
  BY InstructionBit
<1>2. ASSUME NEW b \in Int
      PROVE  b \in ins <=> \/ 21 <= b /\ b <= 30 /\ b - 20 \in bits
                           \/ b = 20 /\ 11 \in bits
                           \/ 12 <= b /\ b <= 19 /\ b \in bits
                           \/ b = 31 /\ 20 \in bits
                           \/ b \in Opcode
  BY InstructionBit
<1> HIDE DEF ins
<1>3. ins \cap (0 .. 11) = Opcode
  BY <1>1, <1>2 DEF Opcode
<1>4. /\ Moved(ins, 21, 30, -20) \in SUBSET Int /\ Moved(ins, 20, 20, -9) \in SUBSET Int
      /\ Moved(ins, 12, 19, 0) \in SUBSET Int /\ Moved(ins, 31, 31, -11) \in SUBSET Int
  BY <1>1, MovedInt
<1>5. ASSUME NEW k \in Int
      PROVE  /\ k \in Moved(ins, 21, 30, -20) <=> 1 <= k /\ k <= 10 /\ k \in bits
             /\ k \in Moved(ins, 20, 20, -9) <=> k = 11 /\ k \in bits
             /\ k \in Moved(ins, 12, 19, 0) <=> 12 <= k /\ k <= 19 /\ k \in bits
             /\ k \in Moved(ins, 31, 31, -11) <=> k = 20 /\ k \in bits
  <2>1. k \in Moved(ins, 21, 30, -20) <=> k + 20 \in ins /\ 21 <= k + 20 /\ k + 20 <= 30
    BY <1>1, MovedBit
  <2>2. k \in Moved(ins, 20, 20, -9) <=> k + 9 \in ins /\ k + 9 = 20
    BY <1>1, MovedBit
  <2>3. k \in Moved(ins, 12, 19, 0) <=> k \in ins /\ 12 <= k /\ k <= 19
    BY <1>1, MovedBit
  <2>4. k \in Moved(ins, 31, 31, -11) <=> k + 11 \in ins /\ k + 11 = 31
    BY <1>1, MovedBit
  <2>5. k + 20 \in ins /\ 21 <= k + 20 /\ k + 20 <= 30 <=> 1 <= k /\ k <= 10 /\ k \in bits
    BY <1>2 DEF Opcode
  <2>6. k + 9 \in ins /\ k + 9 = 20 <=> k = 11 /\ k \in bits
    BY <1>2 DEF Opcode
  <2>7. k \in ins /\ 12 <= k /\ k <= 19 <=> 12 <= k /\ k <= 19 /\ k \in bits
    BY <1>2 DEF Opcode
  <2>8. k + 11 \in ins /\ k + 11 = 31 <=> k = 20 /\ k \in bits
    BY <1>2 DEF Opcode
  <2> QED
    BY <2>1, <2>2, <2>3, <2>4, <2>5, <2>6, <2>7, <2>8
<1>6. JalBits(ins) = bits
  <2>1. JalBits(ins) \in SUBSET Int /\ bits \in SUBSET Int
    BY <1>4 DEF JalBits
  <2>2. ASSUME NEW k \in Int
        PROVE  k \in JalBits(ins) <=> k \in bits
    <3>1. k \in bits => 1 <= k /\ k <= 20
      OBVIOUS
    <3>2. k \in JalBits(ins) <=> \/ 1 <= k /\ k <= 10 /\ k \in bits
                                 \/ k = 11 /\ k \in bits
                                 \/ 12 <= k /\ k <= 19 /\ k \in bits
                                 \/ k = 20 /\ k \in bits
      BY <1>5 DEF JalBits
    <3> QED
      BY <3>1, <3>2
  <2> QED
    BY <2>1, <2>2
<1> QED
  BY <1>3, <1>6 DEF IsJump, ins

(* The sum of SignedValue: w[k] is what bit k weighs if it is one            *)
IsSum(sum, w) == sum = [k \in 0 .. 20 |-> w[k] + (IF k = 0 THEN 0 ELSE sum[k - 1])]
IsSumTo(n, sum, w) == sum = [k \in 0 .. n |-> w[k] + (IF k = 0 THEN 0 ELSE sum[k - 1])]

LEMMA SumExists ==
  ASSUME NEW w \in [0 .. 20 -> Int]
  PROVE  \E sum : IsSum(sum, w)
<1> DEFINE Exists(n) == \E sum : IsSumTo(n, sum, w)
<1>1. Exists(0)
  <2>1. IsSumTo(0, [k \in 0 .. 0 |-> w[k] + 0], w)
    BY DEF IsSumTo
  <2> QED
    BY <2>1
<1>2. ASSUME NEW n \in 0 .. 19, Exists(n) PROVE Exists(n + 1)
  <2>1. PICK sum : sum = [k \in 0 .. n |-> w[k] + (IF k = 0 THEN 0 ELSE sum[k - 1])]
    BY <1>2 DEF IsSumTo
  <2> DEFINE next == [k \in 0 .. n + 1 |-> w[k] + (IF k = 0 THEN 0 ELSE sum[k - 1])]
  <2>2. ASSUME NEW k \in 0 .. n + 1, k # 0 PROVE sum[k - 1] = next[k - 1]
    <3>1. k - 1 \in 0 .. n /\ k - 1 \in 0 .. n + 1
      BY <2>2
    <3>2. ASSUME NEW i \in 0 .. n, i \in 0 .. n + 1 PROVE sum[i] = next[i]
      BY <2>1, <3>2, Zenon
    <3> QED
      BY <3>1, <3>2
  <2>3. next = [k \in 0 .. n + 1 |-> w[k] + (IF k = 0 THEN 0 ELSE next[k - 1])]
    BY <2>2, Zenon
  <2> QED
    BY <2>3, Zenon DEF IsSumTo
<1>3. \A n \in 0 .. 19 : Exists(n) => Exists(n + 1)
  BY <1>2
<1> HIDE DEF Exists
<1>4. Exists(20)
  BY <1>1, <1>3, SMT
<1> QED
  BY <1>4, Zenon DEF Exists, IsSum, IsSumTo

LEMMA SumStep ==
  ASSUME NEW w \in [0 .. 20 -> Int], NEW sum, IsSum(sum, w)
  PROVE  /\ sum[0] = w[0]
         /\ \A k \in 1 .. 20 : sum[k] = w[k] + sum[k - 1]
BY DEF IsSum

(* The bits below 2 * a, from those below a                               *)
LEMMA Halves ==
  ASSUME NEW x \in Int, NEW a \in Nat \ {0}
  PROVE  x \div a = 2 * (x \div (2 * a)) + ((x \div a) % 2)
  BY SMT

LEMMA Halved ==
  ASSUME NEW x \in Int, NEW a \in Nat \ {0}
  PROVE  x - (a * (x \div a)) + (IF (x \div a) % 2 = 1 THEN a ELSE 0)
           = x - ((2 * a) * (x \div (2 * a)))
<1> DEFINE q == x \div a
           r == x \div (2 * a)
<1>1. q = 2 * r + (q % 2) /\ q \in Int /\ r \in Int
  <2>1. q \in Int
    OBVIOUS
  <2>2. 2 * a \in Nat \ {0}
    OBVIOUS
  <2>3. r \in Int
    BY <2>2
  <2> QED
    BY <2>1, <2>3, Halves
<1>2. q % 2 = 0 \/ q % 2 = 1
  BY <1>1
<1> HIDE DEF q, r
<1>3. CASE q % 2 = 0
  <2>1. q = 2 * r
    BY <1>1, <1>3
  <2> QED
    BY <1>1, <1>3, <2>1 DEF q, r
<1>4. CASE q % 2 = 1
  <2>1. q = 2 * r + 1
    BY <1>1, <1>4
  <2>2. a * q = (2 * a) * r + a
    BY <1>1, <2>1
  <2>3. x - (a * q) + a = x - ((2 * a) * r)
    BY <1>1, <2>2
  <2> QED
    BY <1>4, <2>3 DEF q, r
<1> QED
  BY <1>2, <1>3, <1>4

LEMMA Doubling ==
  ASSUME NEW k \in 0 .. 19
  PROVE  2 ^ k \in Nat \ {0} /\ 2 ^ (k + 1) = 2 * 2 ^ k
<1>1. CASE k = 0  BY <1>1, SMT
<1>2. CASE k = 1  BY <1>2, SMT
<1>3. CASE k = 2  BY <1>3, SMT
<1>4. CASE k = 3  BY <1>4, SMT
<1>5. CASE k = 4  BY <1>5, SMT
<1>6. CASE k = 5  BY <1>6, SMT
<1>7. CASE k = 6  BY <1>7, SMT
<1>8. CASE k = 7  BY <1>8, SMT
<1>9. CASE k = 8  BY <1>9, SMT
<1>10. CASE k = 9  BY <1>10, SMT
<1>11. CASE k = 10  BY <1>11, SMT
<1>12. CASE k = 11  BY <1>12, SMT
<1>13. CASE k = 12  BY <1>13, SMT
<1>14. CASE k = 13  BY <1>14, SMT
<1>15. CASE k = 14  BY <1>15, SMT
<1>16. CASE k = 15  BY <1>16, SMT
<1>17. CASE k = 16  BY <1>17, SMT
<1>18. CASE k = 17  BY <1>18, SMT
<1>19. CASE k = 18  BY <1>19, SMT
<1>20. CASE k = 19  BY <1>20, SMT
<1> QED
  BY <1>1, <1>2, <1>3, <1>4, <1>5, <1>6, <1>7, <1>8, <1>9, <1>10, <1>11, <1>12, <1>13, <1>14, <1>15, <1>16, <1>17, <1>18, <1>19, <1>20

LEMMA Signs ==
  ASSUME NEW x \in Int
  PROVE  /\ x \div 1 = x
         /\ -524288 <= x /\ x < 524288 =>
              x \div 1048576 = IF (x \div 1048576) % 2 = 1 THEN -1 ELSE 0
  BY SMT

(* An even offset in reach is the value of its bits                        *)
LEMMA OffsetBack ==
  ASSUME NEW offset \in Int, InReach(offset), offset % 2 = 0
  PROVE  /\ OffsetBits(offset) \in SUBSET (0 .. 20) /\ 0 \notin OffsetBits(offset)
         /\ SignedValue(OffsetBits(offset)) = offset
<1> DEFINE bits == OffsetBits(offset)
           w == [k \in 0 .. 20 |-> IF k \notin bits THEN 0 ELSE IF k = 20 THEN -(2 ^ 20) ELSE 2 ^ k]
           sum == CHOOSE g : IsSum(g, w)
           Upto(k) == sum[k] = offset - (2 ^ (k + 1) * (offset \div 2 ^ (k + 1)))
<1>1. bits \in SUBSET (0 .. 20)
      /\ \A k \in 0 .. 20 : k \in bits <=> (offset \div 2 ^ k) % 2 = 1
  BY DEF OffsetBits
<1>2. w \in [0 .. 20 -> Int]
  OBVIOUS
<1>3. SignedValue(bits) = sum[20]
  BY DEF SignedValue, IsSum
<1>4. IsSum(sum, w)
  BY <1>2, SumExists
<1>5. sum[0] = w[0] /\ \A k \in 1 .. 20 : sum[k] = w[k] + sum[k - 1]
  BY <1>2, <1>4, SumStep
<1>6. \A k \in 0 .. 20 : w[k] = IF k \notin bits THEN 0 ELSE IF k = 20 THEN -(2 ^ 20) ELSE 2 ^ k
  OBVIOUS
<1>7. 2 ^ 0 = 1 /\ 2 ^ 1 = 2 /\ 2 ^ 19 = 524288 /\ 2 ^ 20 = 1048576
  BY SMT
<1> HIDE DEF sum, w, bits
<1>8. 0 \notin bits /\ w[0] = 0
  <2>1. offset \div 1 = offset
    BY Signs
  <2> QED
    BY <1>1, <1>6, <1>7, <2>1, SMT
<1>9. Upto(0)
  <2>1. offset = 2 * (offset \div 2) + (offset % 2)
    OBVIOUS
  <2>2. sum[0] = offset - (2 * (offset \div 2))
    BY <1>5, <1>8, <2>1, SMT
  <2> QED
    BY <1>7, <2>2, 0 + 1 = 1, SMT
<1>10. ASSUME NEW j \in 0 .. 18, Upto(j) PROVE Upto(j + 1)
  <2> DEFINE k == j + 1
             a == 2 ^ k
             d == a * (offset \div a)
             r == (offset \div a) % 2
  <2>1. k \in 0 .. 19 /\ k \in 1 .. 20 /\ k \in 0 .. 20 /\ k # 20 /\ k - 1 = j
    OBVIOUS
  <2>2. a \in Nat \ {0} /\ 2 ^ (k + 1) = 2 * a
    BY <2>1, Doubling
  <2>3. w[k] = IF r = 1 THEN a ELSE 0
    BY <1>1, <1>6, <2>1, Zenon
  <2>4. sum[k] = w[k] + sum[j]
    BY <1>5, <2>1
  <2>5. sum[j] = offset - d
    BY <1>10
  <2> HIDE DEF a
  <2>6. offset - d + (IF r = 1 THEN a ELSE 0) = offset - ((2 * a) * (offset \div (2 * a)))
    BY <2>2, Halved
  <2>7. d \in Int
    <3>1. offset \div a \in Int
      BY <2>2
    <3> QED
      BY <2>2, <3>1
  <2> HIDE DEF d, r
  <2>8. sum[k] = offset - d + (IF r = 1 THEN a ELSE 0)
    BY <2>2, <2>3, <2>4, <2>5, <2>7
  <2> QED
    BY <2>2, <2>6, <2>8
<1>11. \A j \in 0 .. 18 : Upto(j) => Upto(j + 1)
  BY <1>10
<1> HIDE DEF Upto
<1>12. Upto(19)
  BY <1>9, <1>11, SMT
<1>13. sum[20] = offset
  <2>1. sum[20] = w[20] + sum[19]
    BY <1>5, 20 - 1 = 19
  <2>2. w[20] = IF (offset \div 1048576) % 2 = 1 THEN -1048576 ELSE 0
    BY <1>1, <1>6, <1>7, SMT
  <2>3. sum[19] = offset - (1048576 * (offset \div 1048576))
    BY <1>7, <1>12, 19 + 1 = 20, SMT DEF Upto
  <2>4. offset \div 1048576 = IF (offset \div 1048576) % 2 = 1 THEN -1 ELSE 0
    BY <1>7, Signs, SMT DEF InReach
  <2> QED
    BY <2>1, <2>2, <2>3, <2>4, SMT
<1> QED
  BY <1>1, <1>3, <1>8, <1>13 DEF bits

(* The handler installed is the one the vector jumps to; the other vectors *)
(* stay the same                                                           *)
LEMMA WordInRange ==
  ASSUME NEW bits \in SUBSET (0 .. 20)
  PROVE  jmp_ins(bits) \in SUBSET (0 .. 31)
<1>1. ASSUME NEW b \in jmp_ins(bits) PROVE b \in 0 .. 31
  <2>1. b \in Int
    BY InstructionBit, 0 \in Int
  <2> QED
    BY <2>1, InstructionBit DEF Opcode
<1> QED
  BY <1>1

LEMMA Installed ==
  ASSUME NEW v \in [VectorNums -> SUBSET (0 .. 31)], NEW n \in VectorNums,
         NEW f \in Ram, f % 2 = 0
  PROVE  LET u == install_exception_handler(v, n, f)
         IN  /\ u \in [VectorNums -> SUBSET (0 .. 31)] /\ JumpsTo(u, n) = f
             /\ \A m \in VectorNums \ {n} : JumpsTo(u, m) = JumpsTo(v, m)
<1> DEFINE offset == f - VectorAddress(n)
           word == jmp_ins(OffsetBits(offset))
           u == [v EXCEPT ![n] = word]
<1>1. f \in Int /\ VectorAddress(n) \in Int /\ offset \in Int
  BY VectorsAssumption DEF Ram, VectorAddress, VectorNums
<1>2. InReach(offset)
  <2>1. -124 <= offset /\ offset < 122880
    BY VectorsAssumption DEF Ram, VectorAddress, VectorNums
  <2>2. 2 ^ 19 = 524288
    BY SMT
  <2> QED
    BY <1>1, <2>1, <2>2, SMT DEF InReach
<1>3. offset % 2 = 0
  <2>1. n \in Int /\ VectorsStart \in Int /\ offset = f - (VectorsStart + 4 * n)
    BY VectorsAssumption DEF VectorAddress, VectorNums
  <2> QED
    BY <1>1, <2>1, VectorsAssumption
<1>4. install_exception_handler(v, n, f) = u
  BY <1>2, Zenon DEF install_exception_handler
<1>5. /\ OffsetBits(offset) \in SUBSET (0 .. 20) /\ 0 \notin OffsetBits(offset)
      /\ SignedValue(OffsetBits(offset)) = offset
  BY <1>1, <1>2, <1>3, OffsetBack
<1>6. word \in SUBSET (0 .. 31) /\ JalBits(word) = OffsetBits(offset)
  BY <1>5, WordInRange, DecodedAsEncoded
<1>7. u[n] = word /\ u \in [VectorNums -> SUBSET (0 .. 31)]
  BY <1>6
<1>8. JumpsTo(u, n) = VectorAddress(n) + offset
  BY <1>5, <1>6, <1>7, Zenon DEF JumpsTo
<1>9. VectorAddress(n) + offset = f
  BY <1>1
<1>10. \A m \in VectorNums \ {n} : JumpsTo(u, m) = JumpsTo(v, m)
  BY DEF JumpsTo
<1> QED
  BY <1>4, <1>7, <1>8, <1>9, <1>10, Zenon
---------------------------------------------------------------------------
(* The stream of characters: one written, one sent                         *)
Authors == {"main", "echo", "newline"}

LEMMA Appended ==
  ASSUME NEW q \in Seq(Authors), NEW a \in Authors
  PROVE  /\ Append(q, a) \in Seq(Authors) /\ Append(q, a) # <<>>
         /\ Len(Append(q, a)) = Len(q) + 1 /\ Append(q, a)[Len(q) + 1] = a
         /\ \A i \in 1 .. Len(q) : Append(q, a)[i] = q[i]
         /\ Head(Append(q, a)) = IF q = <<>> THEN a ELSE Head(q)
  OBVIOUS

LEMMA EndedIsPartial ==
  ASSUME Ended, NEW a
  PROVE  Partial(a)
  BY DEF Ended, Partial

LEMMA Written ==
  ASSUME LineInv, NEW a \in Authors, a = "newline" \/ Partial(a),
         tx' = Append(tx, a), line' = line
  PROVE  LineInv' /\ Partial(a)' /\ (a = "newline" => Ended')
<1>1. tx \in Seq(Authors) /\ Len(tx) \in Nat
  BY DEF LineInv, Authors
<1>2. /\ tx' \in Seq(Authors) /\ tx' # <<>>
      /\ Len(tx') = Len(tx) + 1 /\ tx'[Len(tx) + 1] = a
      /\ \A i \in 1 .. Len(tx) : tx'[i] = tx[i]
      /\ Head(tx') = IF tx = <<>> THEN a ELSE Head(tx)
  BY <1>1, Appended
<1>3. tx'[Len(tx')] = a
  BY <1>2
<1>4. Partial(a)' /\ (a = "newline" => Ended')
  BY <1>2, <1>3, Zenon DEF Partial, Ended
<1>5. Head(tx') # "newline" => \A i \in DOMAIN line' : line'[i] = Head(tx')
  <2>1. CASE tx = <<>>
    BY <1>2, <2>1, Zenon DEF Partial
  <2>2. CASE tx # <<>>
    BY <1>2, <2>2, Zenon DEF LineInv
  <2> QED
    BY <2>1, <2>2
<1>6. ASSUME NEW i \in 1 .. Len(tx') - 1
      PROVE  "newline" \in {tx'[i], tx'[i + 1]} \/ tx'[i] = tx'[i + 1]
  <2>1. CASE i \in 1 .. Len(tx) - 1
    <3>1. i \in 1 .. Len(tx) /\ i + 1 \in 1 .. Len(tx)
      BY <1>1, <2>1
    <3> QED
      BY <1>2, <2>1, <3>1, Zenon DEF LineInv
  <2>2. CASE i = Len(tx)
    <3>1. Len(tx) \in 1 .. Len(tx) /\ tx # <<>> /\ tx'[i] = tx[Len(tx)] /\ tx'[i + 1] = a
      BY <1>1, <1>2, <2>2
    <3>2. a = "newline" \/ tx[Len(tx)] \in {"newline", a}
      BY <3>1, Zenon DEF Partial
    <3> QED
      BY <3>1, <3>2
  <2> QED
    BY <1>1, <1>2, <2>1, <2>2
<1>7. WholeLines'
  BY Zenon DEF LineInv, WholeLines
<1>8. line' \in Seq({"main", "echo"})
  BY Zenon DEF LineInv
<1> QED
  BY <1>2, <1>4, <1>5, <1>6, <1>7, <1>8, Zenon DEF LineInv, Authors

LEMMA Sent ==
  ASSUME LineInv, tx # <<>>, tx' = Tail(tx),
         line' = IF Head(tx) = "newline" THEN <<>> ELSE Append(line, Head(tx))
  PROVE  /\ LineInv' /\ (Ended => Ended')
         /\ \A a \in {"main", "echo"} : Partial(a) => Partial(a)'
<1>1. tx \in Seq(Authors) /\ Len(tx) \in Nat /\ line \in Seq({"main", "echo"})
  BY DEF LineInv, Authors
<1>2. /\ tx' \in Seq(Authors) /\ Len(tx') = Len(tx) - 1 /\ Len(tx) >= 1
      /\ \A i \in 1 .. Len(tx) - 1 : tx'[i] = tx[i + 1]
      /\ Head(tx) = tx[1] /\ Head(tx) \in Authors
      /\ tx' = <<>> <=> Len(tx) = 1
  <2>1. /\ Head(tx) \in Authors /\ Tail(tx) \in Seq(Authors) /\ Len(Tail(tx)) = Len(tx) - 1
        /\ \A i \in 1 .. Len(Tail(tx)) : Tail(tx)[i] = tx[i + 1]
    BY <1>1, HeadTailProperties
  <2>2. Head(tx) = tx[1] /\ Len(tx) >= 1
    BY <1>1, EmptySeq
  <2>3. tx' = <<>> <=> Len(tx') = 0
    BY <2>1, EmptySeq
  <2> QED
    BY <1>1, <2>1, <2>2, <2>3
<1>3. tx' # <<>> => /\ Head(tx') = tx[2] /\ 1 \in 1 .. Len(tx) - 1
                    /\ tx'[Len(tx')] = tx[Len(tx)]
  <2> SUFFICES ASSUME tx' # <<>> PROVE /\ Head(tx') = tx[2] /\ 1 \in 1 .. Len(tx) - 1
                                       /\ tx'[Len(tx')] = tx[Len(tx)]
    OBVIOUS
  <2>1. Len(tx) # 1 /\ Head(tx') = tx'[1]
    BY <1>2
  <2>2. 1 \in 1 .. Len(tx) - 1 /\ Len(tx') \in 1 .. Len(tx) - 1 /\ Len(tx') + 1 = Len(tx)
    BY <1>1, <1>2, <2>1
  <2>3. tx'[1] = tx[1 + 1] /\ tx'[Len(tx')] = tx[Len(tx') + 1]
    BY <1>2, <2>2, Zenon
  <2> QED
    BY <2>1, <2>2, <2>3
<1>4. Head(tx) # "newline" => \A i \in DOMAIN line : line[i] = Head(tx)
  BY DEF LineInv
(* All of the line that goes on is by the author of its newest character   *)
<1>5. /\ line' \in Seq({"main", "echo"})
      /\ \A i \in DOMAIN line' : line'[i] = Head(tx) /\ Head(tx) # "newline"
  <2>1. CASE Head(tx) = "newline"
    BY <2>1
  <2>2. CASE Head(tx) # "newline"
    <3>1. line' = Append(line, Head(tx)) /\ Head(tx) \in {"main", "echo"}
      BY <1>2, <2>2 DEF Authors
    <3>2. line' \in Seq({"main", "echo"}) /\ DOMAIN line' = 1 .. Len(line) + 1
          /\ line'[Len(line) + 1] = Head(tx)
          /\ \A i \in 1 .. Len(line) : line'[i] = line[i]
      BY <1>1, <3>1
    <3>3. DOMAIN line = 1 .. Len(line) /\ Len(line) \in Nat
      BY <1>1
    <3>4. ASSUME NEW i \in 1 .. Len(line) + 1 PROVE line'[i] = Head(tx)
      <4>1. CASE i \in 1 .. Len(line)
        BY <1>4, <2>2, <3>2, <3>3, <4>1, Zenon
      <4>2. CASE i = Len(line) + 1
        BY <3>2, <4>2, Zenon
      <4> QED
        BY <3>3, <4>1, <4>2
    <3> QED
      BY <2>2, <3>2, <3>4, Zenon
  <2> QED
    BY <2>1, <2>2
<1>6. Head(tx) = "newline" => line' = <<>>
  OBVIOUS
<1>7. WholeLines'
  BY <1>5, Zenon DEF WholeLines
<1>8. tx' # <<>> /\ Head(tx') # "newline" => \A i \in DOMAIN line' : line'[i] = Head(tx')
  <2> SUFFICES ASSUME tx' # <<>>, Head(tx') # "newline", NEW i \in DOMAIN line'
               PROVE  line'[i] = Head(tx')
    BY Zenon
  <2>1. line'[i] = tx[1] /\ tx[1] # "newline"
    BY <1>2, <1>5
  <2>2. tx[1] = tx[2]
    <3>1. "newline" \in {tx[1], tx[1 + 1]} \/ tx[1] = tx[1 + 1]
      BY <1>3, Zenon DEF LineInv
    <3> QED
      BY <1>3, <2>1, <3>1
  <2> QED
    BY <1>3, <2>1, <2>2
<1>9. ASSUME NEW i \in 1 .. Len(tx') - 1
      PROVE  "newline" \in {tx'[i], tx'[i + 1]} \/ tx'[i] = tx'[i + 1]
  <2>1. i + 1 \in 1 .. Len(tx) - 1 /\ i \in 1 .. Len(tx) - 1 /\ i + 1 \in 1 .. Len(tx) - 1
    BY <1>1, <1>2
  <2>2. tx'[i] = tx[i + 1] /\ tx'[i + 1] = tx[(i + 1) + 1]
    BY <1>2, <2>1, Zenon
  <2>3. "newline" \in {tx[i + 1], tx[(i + 1) + 1]} \/ tx[i + 1] = tx[(i + 1) + 1]
    BY <2>1, Zenon DEF LineInv
  <2> QED
    BY <2>2, <2>3, Zenon
<1>10. LineInv'
  BY <1>2, <1>5, <1>7, <1>8, <1>9, Zenon DEF LineInv, Authors
<1>11. tx' = <<>> => tx[Len(tx)] = Head(tx)
  BY <1>2
<1>12. Ended => Ended'
  BY <1>3, <1>6, <1>11, Zenon DEF Ended
<1>13. ASSUME NEW a \in {"main", "echo"}, Partial(a) PROVE Partial(a)'
  <2>1. tx[Len(tx)] \in {"newline", a}
    BY <1>13, Zenon DEF Partial
  <2>2. CASE tx' # <<>>
    BY <1>3, <2>1, <2>2, Zenon DEF Partial
  <2>3. CASE tx' = <<>>
    BY <1>5, <1>11, <2>1, <2>3 DEF Partial
  <2> QED
    BY <2>2, <2>3
<1> QED
  BY <1>10, <1>12, <1>13
---------------------------------------------------------------------------
(* Where the linker put the handlers                                       *)
LEMMA Placed ==
  ASSUME TypeOK
  PROVE  /\ at.test_uart_irq_handler \in Ram /\ at.test_uart_irq_handler % 2 = 0
         /\ at.simple_timer_handler \in Ram /\ at.simple_timer_handler % 2 = 0
         /\ at.default_exc_handler \in Ram
         /\ at.test_uart_irq_handler # at.simple_timer_handler
         /\ at.test_uart_irq_handler # at.default_exc_handler
         /\ at.simple_timer_handler # at.default_exc_handler
<1>1. at \in Layouts
  BY DEF TypeOK
<1>2. at \in [test_uart_irq_handler : Ram, simple_timer_handler : Ram, default_exc_handler : Ram]
  BY <1>1, HelloAssumption
<1>3. DOMAIN at = {"test_uart_irq_handler", "simple_timer_handler", "default_exc_handler"}
  BY <1>2
<1>4. /\ \A f \in DOMAIN at : at[f] % 2 = 0
      /\ \A f, g \in DOMAIN at : f # g => at[f] # at[g]
  BY <1>1, HelloAssumption
<1> QED
  BY <1>2, <1>3, <1>4

LEMMA ReachedHandler ==
  ASSUME TypeOK
  PROVE  \A irq : /\ JumpsTo(vectors, irq) = at.test_uart_irq_handler => Reached(irq) = "uart_in"
                  /\ JumpsTo(vectors, irq) = at.simple_timer_handler => Reached(irq) = "timer"
  BY Placed, Zenon DEF Reached

LEMMA Vectors ==
  /\ UART_IRQ_NUM \in VectorNums /\ TIMER_IRQ_NUM \in VectorNums /\ UART_IRQ_NUM # TIMER_IRQ_NUM
  BY DEF UART_IRQ_NUM, TIMER_IRQ_NUM, VectorNums

(* An interrupt taken is a step of one of its two sources                  *)
LEMMA Taken ==
  ASSUME TypeOK, SetUpInv
  PROVE  /\ TakeUartInterrupt => /\ isr' = "uart_in" /\ uart_irq /\ MIE
                                 /\ main \notin {"install_uart", "enable_uart", "print"}
         /\ TakeTimerInterrupt => /\ isr' = "timer" /\ ~uart_irq /\ MIE
                                  /\ main \notin {"install_uart", "enable_uart", "install_timer",
                                                  "arm_timer", "enable_timer", "print"}
<1>1. ASSUME TakeUartInterrupt
      PROVE  /\ isr' = "uart_in" /\ uart_irq /\ MIE
             /\ main \notin {"install_uart", "enable_uart", "print"}
  <2>1. isr' = Reached(UART_IRQ_NUM) /\ uart_irq /\ MIE /\ UART_IRQ_NUM \in mie
    BY <1>1, Zenon DEF TakeUartInterrupt, Enabled, Pending
  <2>2. main \notin {"install_uart", "enable_uart", "print"}
    BY <2>1 DEF SetUpInv
  <2> QED
    BY <2>1, <2>2, ReachedHandler DEF SetUpInv
<1>2. ASSUME TakeTimerInterrupt
      PROVE  /\ isr' = "timer" /\ ~uart_irq /\ MIE
             /\ main \notin {"install_uart", "enable_uart", "install_timer",
                             "arm_timer", "enable_timer", "print"}
  <2>1. /\ isr' = Reached(TIMER_IRQ_NUM) /\ MIE /\ TIMER_IRQ_NUM \in mie /\ isr = "none"
        /\ ~(uart_irq /\ UART_IRQ_NUM \in mie /\ MIE /\ isr = "none")
    BY <1>2, Zenon DEF TakeTimerInterrupt, Enabled, Pending
  <2>2. main \notin {"install_uart", "enable_uart", "install_timer", "arm_timer", "enable_timer", "print"}
    BY <2>1 DEF SetUpInv
  <2>3. UART_IRQ_NUM \in mie /\ ~uart_irq
    BY <2>1, <2>2 DEF SetUpInv
  <2> QED
    BY <2>1, <2>2, <2>3, ReachedHandler DEF SetUpInv
<1> QED
  BY <1>1, <1>2

(* The handlers stay where they were installed                             *)
LEMMA BootStep ==
  ASSUME TypeOK, SetUpInv, Boot
  PROVE  vectors' \in [VectorNums -> SUBSET (0 .. 31)] /\ SetUpInv'
<1> USE Vectors
<1>1. vectors \in [VectorNums -> SUBSET (0 .. 31)] /\ isr = "none" /\ isr' = "none" /\ at' = at
  BY Zenon DEF TypeOK, Boot, InstallUart, EnableUart, InstallTimer, ArmTimer, EnableTimer,
     LastElapsedTime, MainRuns, bootvars
<1>2. CASE InstallUart
  <2>1. /\ main = "install_uart" /\ main' = "enable_uart" /\ UNCHANGED <<MIE, mie>>
        /\ vectors' = install_exception_handler(vectors, UART_IRQ_NUM, at.test_uart_irq_handler)
    BY <1>2 DEF InstallUart
  <2>2. vectors' \in [VectorNums -> SUBSET (0 .. 31)]
        /\ JumpsTo(vectors', UART_IRQ_NUM) = at.test_uart_irq_handler
    BY <1>1, <2>1, Placed, Installed
  <2>3. JumpsTo(vectors, UART_IRQ_NUM)' = JumpsTo(vectors', UART_IRQ_NUM)
    BY DEF JumpsTo, UART_IRQ_NUM
  <2> QED
    BY <1>1, <2>1, <2>2, <2>3 DEF SetUpInv
<1>3. CASE InstallTimer
  <2>1. /\ main = "install_timer" /\ main' = "arm_timer" /\ UNCHANGED <<MIE, mie>>
        /\ vectors' = install_exception_handler(vectors, TIMER_IRQ_NUM, at.simple_timer_handler)
    BY <1>3 DEF InstallTimer
  <2>2. /\ vectors' \in [VectorNums -> SUBSET (0 .. 31)]
        /\ JumpsTo(vectors', TIMER_IRQ_NUM) = at.simple_timer_handler
        /\ JumpsTo(vectors', UART_IRQ_NUM) = JumpsTo(vectors, UART_IRQ_NUM)
    BY <1>1, <2>1, Placed, Installed
  <2>3. /\ JumpsTo(vectors, UART_IRQ_NUM)' = JumpsTo(vectors', UART_IRQ_NUM)
        /\ JumpsTo(vectors, TIMER_IRQ_NUM)' = JumpsTo(vectors', TIMER_IRQ_NUM)
    BY DEF JumpsTo, UART_IRQ_NUM, TIMER_IRQ_NUM
  <2> QED
    BY <1>1, <2>1, <2>2, <2>3 DEF SetUpInv
<1>4. CASE EnableUart
  <2>1. /\ main = "enable_uart" /\ main' = "install_timer" /\ MIE' = TRUE /\ vectors' = vectors
        /\ mie' = mie \cup {UART_IRQ_NUM}
    BY <1>4 DEF EnableUart
  <2>2. /\ JumpsTo(vectors, UART_IRQ_NUM)' = JumpsTo(vectors, UART_IRQ_NUM)
        /\ JumpsTo(vectors, TIMER_IRQ_NUM)' = JumpsTo(vectors, TIMER_IRQ_NUM)
    BY <2>1 DEF JumpsTo, UART_IRQ_NUM, TIMER_IRQ_NUM
  <2> QED
    BY <1>1, <2>1, <2>2 DEF SetUpInv
<1>5. CASE EnableTimer
  <2>1. /\ main = "enable_timer" /\ main' = "last_elapsed_time" /\ MIE' = TRUE
        /\ vectors' = vectors /\ mie' = mie \cup {TIMER_IRQ_NUM}
    BY <1>5 DEF EnableTimer
  <2>2. /\ JumpsTo(vectors, UART_IRQ_NUM)' = JumpsTo(vectors, UART_IRQ_NUM)
        /\ JumpsTo(vectors, TIMER_IRQ_NUM)' = JumpsTo(vectors, TIMER_IRQ_NUM)
    BY <2>1 DEF JumpsTo, UART_IRQ_NUM, TIMER_IRQ_NUM
  <2> QED
    BY <1>1, <2>1, <2>2 DEF SetUpInv
<1>6. CASE ArmTimer \/ LastElapsedTime
  <2>1. /\ \/ main = "arm_timer" /\ main' = "enable_timer"
           \/ main = "last_elapsed_time" /\ main' = "read"
        /\ UNCHANGED <<MIE, mie, vectors>>
    BY <1>6 DEF ArmTimer, LastElapsedTime, bootvars
  <2>2. /\ JumpsTo(vectors, UART_IRQ_NUM)' = JumpsTo(vectors, UART_IRQ_NUM)
        /\ JumpsTo(vectors, TIMER_IRQ_NUM)' = JumpsTo(vectors, TIMER_IRQ_NUM)
    BY <2>1 DEF JumpsTo, UART_IRQ_NUM, TIMER_IRQ_NUM
  <2> QED
    BY <1>1, <2>1, <2>2 DEF SetUpInv
<1> QED
  BY <1>2, <1>3, <1>4, <1>5, <1>6 DEF Boot

(* After it has booted, main and the handlers leave them alone             *)
LEMMA LoopStep ==
  ASSUME TypeOK, SetUpInv, Next, ~Boot
  PROVE  UNCHANGED bootvars /\ SetUpInv'
<1>1. UNCHANGED bootvars
  BY Zenon DEF Next, Main, Handlers, ReadTime, Mask, PutCharacter, Unmask, WaitForInterrupt, WakeUp,
     TakeUartInterrupt, TakeTimerInterrupt, UartIn, Echo, TimerHandler, TimerFires, Receive, Transmit
<1>2. at' = at /\ vectors' = vectors /\ mie' = mie
  BY <1>1 DEF bootvars
<1>3. /\ JumpsTo(vectors, UART_IRQ_NUM)' = JumpsTo(vectors, UART_IRQ_NUM)
      /\ JumpsTo(vectors, TIMER_IRQ_NUM)' = JumpsTo(vectors, TIMER_IRQ_NUM)
      /\ at'.test_uart_irq_handler = at.test_uart_irq_handler
      /\ at'.simple_timer_handler = at.simple_timer_handler
  BY <1>2 DEF JumpsTo, UART_IRQ_NUM, TIMER_IRQ_NUM
<1>4. CASE ReadTime \/ Mask \/ PutCharacter \/ Unmask \/ WaitForInterrupt \/ WakeUp
  <2>1. /\ isr = "none" /\ isr' = "none"
        /\ main \in {"read", "mask", "print", "wfi", "sleep"}
        /\ main' \in {"read", "mask", "print", "wfi", "sleep"}
        /\ \/ MIE' = TRUE /\ main' # "print"
           \/ MIE' = FALSE /\ main' = "print"
           \/ MIE' = MIE /\ (main' = "print" <=> main = "print")
    BY <1>4 DEF ReadTime, Mask, PutCharacter, Unmask, WaitForInterrupt, WakeUp, MainRuns, MIE_on,
       MIE_off
  <2>2. /\ main \notin {"install_uart", "enable_uart", "install_timer", "arm_timer", "enable_timer"}
        /\ main' \notin {"install_uart", "enable_uart", "install_timer", "arm_timer", "enable_timer"}
        /\ main # "install_uart" /\ main' # "install_uart"
    BY <2>1
  <2>3. MIE <=> main # "print"
    BY <2>2, Zenon DEF SetUpInv
  <2>4. MIE' <=> main' # "print"
    BY <2>1, <2>3, Zenon
  <2> QED
    BY <1>1, <1>2, <1>3, <2>1, <2>2, <2>4, Zenon DEF SetUpInv
<1>5. CASE TakeUartInterrupt \/ TakeTimerInterrupt
  <2>1. main' = main /\ MIE' = MIE
    BY <1>5 DEF TakeUartInterrupt, TakeTimerInterrupt
  <2>2. isr' \in {"uart_in", "timer"} /\ MIE
    BY <1>5, Taken
  <2> QED
    BY <1>1, <1>2, <1>3, <2>1, <2>2, Zenon DEF SetUpInv
<1>6. CASE UartIn \/ Echo \/ TimerHandler
  <2>1. main' = main /\ MIE' = MIE /\ isr # "none"
    BY <1>6 DEF UartIn, Echo, TimerHandler
  <2>2. isr' \in {"none", "uart_in", "echo", "cr", "lf"}
    BY <1>6, Zenon DEF UartIn, Echo, TimerHandler
  <2> QED
    BY <1>1, <1>2, <1>3, <2>1, <2>2, Zenon DEF SetUpInv
<1>7. CASE TimerFires \/ Receive \/ Transmit
  <2>1. main' = main /\ MIE' = MIE /\ isr' = isr
    BY <1>7 DEF TimerFires, Receive, Transmit
  <2> QED
    BY <1>1, <1>2, <1>3, <2>1, Zenon DEF SetUpInv
<1> QED
  BY <1>4, <1>5, <1>6, <1>7 DEF Next, Main, Handlers

LEMMA SetUpStep ==
  ASSUME TypeOK, SetUpInv, Next
  PROVE  SetUpInv' /\ vectors' \in [VectorNums -> SUBSET (0 .. 31)]
<1>1. CASE Boot
  BY <1>1, BootStep
<1>2. CASE ~Boot
  <2>1. vectors' = vectors
    BY <1>2, LoopStep DEF bootvars
  <2> QED
    BY <1>2, <2>1, LoopStep DEF TypeOK
<1> QED
  BY <1>1, <1>2

LEMMA TypeStep ==
  ASSUME TypeOK, SetUpInv, LineInv, Next
  PROVE  TypeOK'
<1>1. /\ RxFifoDepth \in Nat /\ TxFifoDepth \in Nat /\ LineLength \in Nat /\ MaxInput \in Nat
      /\ left \in 0 .. LineLength + 2 /\ rx \in 0 .. RxFifoDepth /\ typed \in 0 .. MaxInput
      /\ Len(tx) <= TxFifoDepth /\ tx \in Seq(Authors)
  BY HelloAssumption DEF TypeOK, LineInv, Authors
<1>2. vectors' \in [VectorNums -> SUBSET (0 .. 31)] /\ SetUpInv'
  BY SetUpStep
<1>3. at' \in Layouts
  BY Zenon DEF TypeOK, Next, Main, Boot, Handlers, InstallUart, EnableUart, InstallTimer, ArmTimer,
     EnableTimer, LastElapsedTime, ReadTime, Mask, PutCharacter, Unmask, WaitForInterrupt, WakeUp,
     TakeUartInterrupt, TakeTimerInterrupt, UartIn, Echo, TimerHandler, TimerFires, Receive, Transmit,
     bootvars
<1>4. mie' \subseteq {UART_IRQ_NUM, TIMER_IRQ_NUM}
  BY Zenon DEF TypeOK, Next, Main, Boot, Handlers, InstallUart, EnableUart, InstallTimer, ArmTimer,
     EnableTimer, LastElapsedTime, ReadTime, Mask, PutCharacter, Unmask, WaitForInterrupt, WakeUp,
     TakeUartInterrupt, TakeTimerInterrupt, UartIn, Echo, TimerHandler, TimerFires, Receive, Transmit,
     bootvars
<1>5. main' \in {"install_uart", "enable_uart", "install_timer", "arm_timer",
                 "enable_timer", "last_elapsed_time", "read", "mask", "print", "wfi", "sleep"}
  BY DEF TypeOK, Next, Main, Boot, Handlers, InstallUart, EnableUart, InstallTimer, ArmTimer,
     EnableTimer, LastElapsedTime, ReadTime, Mask, PutCharacter, Unmask, WaitForInterrupt, WakeUp,
     TakeUartInterrupt, TakeTimerInterrupt, UartIn, Echo, TimerHandler, TimerFires, Receive, Transmit
<1>6. isr' \in {"none", "uart_in", "echo", "cr", "lf", "timer", "exception", "lost"}
  BY <1>2 DEF SetUpInv
<1>7. MIE' \in BOOLEAN /\ unshown' \in BOOLEAN /\ armed' \in BOOLEAN /\ timer_irq' \in BOOLEAN
  BY Zenon DEF TypeOK, Next, Main, Boot, Handlers, InstallUart, EnableUart, InstallTimer, ArmTimer,
     EnableTimer, LastElapsedTime, ReadTime, Mask, PutCharacter, Unmask, WaitForInterrupt, WakeUp,
     TakeUartInterrupt, TakeTimerInterrupt, UartIn, Echo, TimerHandler, TimerFires, Receive, Transmit,
     timevars, MIE_on, MIE_off, Rearmed
<1>8. left' \in 0 .. LineLength + 2
  <2>1. left' = left \/ left' = LineLength + 2 \/ (left > 0 /\ left' = left - 1)
    BY Zenon DEF Next, Main, Boot, Handlers, InstallUart, EnableUart, InstallTimer, ArmTimer,
       EnableTimer, LastElapsedTime, ReadTime, Mask, PutCharacter, Unmask, WaitForInterrupt, WakeUp,
       TakeUartInterrupt, TakeTimerInterrupt, UartIn, Echo, TimerHandler, TimerFires, Receive, Transmit
  <2> QED
    BY <1>1, <2>1
<1>9. rx' \in 0 .. RxFifoDepth
  <2>1. rx' = rx \/ rx' = 0 \/ (rx > 0 /\ rx' = rx - 1) \/ (rx < RxFifoDepth /\ rx' = rx + 1)
    BY Zenon DEF Next, Main, Boot, Handlers, InstallUart, EnableUart, InstallTimer, ArmTimer,
       EnableTimer, LastElapsedTime, ReadTime, Mask, PutCharacter, Unmask, WaitForInterrupt, WakeUp,
       TakeUartInterrupt, TakeTimerInterrupt, UartIn, Echo, TimerHandler, TimerFires, Receive,
       Transmit, uartvars, RxRoom
  <2> QED
    BY <1>1, <2>1
<1>10. typed' \in 0 .. MaxInput
  <2>1. typed' = typed \/ (typed < MaxInput /\ typed' = typed + 1)
    BY Zenon DEF Next, Main, Boot, Handlers, InstallUart, EnableUart, InstallTimer, ArmTimer,
       EnableTimer, LastElapsedTime, ReadTime, Mask, PutCharacter, Unmask, WaitForInterrupt, WakeUp,
       TakeUartInterrupt, TakeTimerInterrupt, UartIn, Echo, TimerHandler, TimerFires, Receive,
       Transmit, uartvars
  <2> QED
    BY <1>1, <2>1
<1>11. Len(tx') <= TxFifoDepth /\ tx' \in Seq(Authors)
  <2>1. \/ tx' = tx
        \/ tx # <<>> /\ tx' = Tail(tx)
        \/ Len(tx) < TxFifoDepth /\ \E a \in Authors : tx' = Append(tx, a)
    <3>1. PutCharacter \/ Echo => Len(tx) < TxFifoDepth /\ \E a \in Authors : tx' = Append(tx, a)
      BY DEF PutCharacter, Echo, uart_out, Authors
    <3> QED
      BY <3>1, Zenon DEF Next, Main, Boot, Handlers, InstallUart, EnableUart, InstallTimer, ArmTimer,
         EnableTimer, LastElapsedTime, ReadTime, Mask, Unmask, WaitForInterrupt, WakeUp,
         TakeUartInterrupt, TakeTimerInterrupt, UartIn, TimerHandler, TimerFires, Receive, Transmit,
         uartvars
  <2>2. CASE tx # <<>> /\ tx' = Tail(tx)
    <3>1. Tail(tx) \in Seq(Authors) /\ Len(Tail(tx)) = Len(tx) - 1 /\ Len(tx) \in Nat
      BY <1>1, <2>2, HeadTailProperties
    <3> QED
      BY <1>1, <2>2, <3>1
  <2>3. CASE Len(tx) < TxFifoDepth /\ \E a \in Authors : tx' = Append(tx, a)
    <3>1. PICK a \in Authors : tx' = Append(tx, a)
      BY <2>3
    <3>2. Len(tx) \in Nat
      BY <1>1
    <3> QED
      BY <1>1, <2>3, <3>1, <3>2, Appended
  <2> QED
    BY <1>1, <2>1, <2>2, <2>3
<1>12. \A i \in DOMAIN tx' : tx'[i] \in {"main", "echo", "newline"}
  BY <1>11 DEF Authors
<1> QED
  BY <1>2, <1>3, <1>4, <1>5, <1>6, <1>7, <1>8, <1>9, <1>10, <1>11, <1>12, Zenon DEF TypeOK
---------------------------------------------------------------------------
(* Who writes, and what is the line then                                   *)
LEMMA LineKept ==
  ASSUME LineInv, UNCHANGED <<tx, line>>
  PROVE  /\ LineInv' /\ (Ended => Ended')
         /\ Partial("main") => Partial("main")'
         /\ Partial("echo") => Partial("echo")'
<1>1. tx' = tx /\ line' = line
  OBVIOUS
<1>2. LineInv'
  BY <1>1 DEF LineInv, WholeLines
<1> QED
  BY <1>1, <1>2, Zenon DEF Ended, Partial

LEMMA LineStep ==
  ASSUME TypeOK, SetUpInv, LineInv, AuthorInv, Next
  PROVE  LineInv' /\ AuthorInv'
<1>1. left \in Int /\ LineLength \in Nat /\ left <= LineLength + 2
  BY HelloAssumption DEF TypeOK
<1>2. CASE Boot \/ ReadTime \/ WaitForInterrupt \/ WakeUp
  <2>1. UNCHANGED <<tx, line>> /\ main # "print" /\ main' # "print" /\ isr' = isr
    BY <1>2 DEF Boot, InstallUart, EnableUart, InstallTimer, ArmTimer, EnableTimer, LastElapsedTime,
       ReadTime, WaitForInterrupt, WakeUp, uartvars
  <2> QED
    BY <2>1, LineKept, Zenon DEF AuthorInv
<1>3. CASE Mask
  <2>1. /\ UNCHANGED <<tx, line>> /\ main # "print" /\ isr = "none" /\ isr' = "none"
        /\ left' = LineLength + 2
    BY <1>3 DEF Mask, MainRuns, uartvars
  <2>2. left' \notin 1 .. LineLength + 1 /\ isr \notin {"cr", "lf"} /\ isr' \notin {"cr", "lf"}
    BY <1>1, <2>1
  <2> QED
    BY <2>1, <2>2, LineKept, Zenon DEF AuthorInv
<1>4. CASE Unmask
  <2>1. /\ UNCHANGED <<tx, line>> /\ main' # "print" /\ isr = "none" /\ isr' = "none" /\ left = 0
    BY <1>4 DEF Unmask, MainRuns, uartvars
  <2>2. left \notin 1 .. LineLength + 1 /\ isr \notin {"cr", "lf"} /\ isr' \notin {"cr", "lf"}
    BY <1>1, <2>1
  <2> QED
    BY <2>1, <2>2, LineKept, Zenon DEF AuthorInv
<1>5. CASE PutCharacter
  <2>1. /\ main = "print" /\ main' = "print" /\ isr = "none" /\ isr' = "none" /\ left > 0
        /\ tx' = Append(tx, IF left = 1 THEN "newline" ELSE "main") /\ line' = line
        /\ left' = left - 1
    BY <1>5 DEF PutCharacter, MainRuns, uart_out
  <2>2. isr \notin {"cr", "lf"} /\ isr' \notin {"cr", "lf"}
    BY <2>1
  <2>3. CASE left = 1
    <3>1. LineInv' /\ Ended'
      BY <2>1, <2>3, Written DEF Authors
    <3>2. left' \notin 1 .. LineLength + 1
      BY <2>1, <2>3
    <3> QED
      BY <2>2, <3>1, <3>2, Zenon DEF AuthorInv
  <2>4. CASE left # 1
    <3>1. left \in 1 .. LineLength + 1 => Partial("main")
      BY <2>1, Zenon DEF AuthorInv
    <3>2. left \notin 1 .. LineLength + 1 => Ended
      BY <2>2, Zenon DEF AuthorInv
    <3>3. Partial("main")
      BY <3>1, <3>2, EndedIsPartial
    <3>4. LineInv' /\ Partial("main")'
      BY <2>1, <2>4, <3>3, Written DEF Authors
    <3>5. left' \in 1 .. LineLength + 1
      BY <1>1, <2>1, <2>4
    <3> QED
      BY <2>1, <3>4, <3>5, Zenon DEF AuthorInv
  <2> QED
    BY <2>3, <2>4
<1>6. CASE TakeUartInterrupt \/ TakeTimerInterrupt
  <2>1. /\ UNCHANGED <<tx, line, main>> /\ isr = "none" /\ main # "print"
        /\ isr' \in {"uart_in", "timer"}
    BY <1>6, Taken DEF TakeUartInterrupt, TakeTimerInterrupt, Enabled, uartvars
  <2>2. isr \notin {"cr", "lf"} /\ isr' \notin {"cr", "lf"}
    BY <2>1
  <2> QED
    BY <2>1, <2>2, LineKept, Zenon DEF AuthorInv
<1>7. CASE UartIn \/ TimerHandler
  <2>1. /\ UNCHANGED <<tx, line, main>> /\ isr \in {"uart_in", "timer"} /\ isr' \in {"echo", "none"}
    BY <1>7 DEF UartIn, TimerHandler, uartvars
  <2>2. main # "print" /\ isr \notin {"cr", "lf"} /\ isr' \notin {"cr", "lf"}
    BY <2>1 DEF SetUpInv
  <2> QED
    BY <2>1, <2>2, LineKept, Zenon DEF AuthorInv
<1>8. CASE Echo
  <2>1. /\ isr \in {"echo", "cr", "lf"} /\ UNCHANGED <<line, main>>
        /\ tx' = Append(tx, IF isr = "lf" THEN "newline" ELSE "echo")
    BY <1>8 DEF Echo, uart_out
  <2>2. /\ isr = "echo" => isr' = "cr"
        /\ isr = "cr" => isr' = "lf"
        /\ isr = "lf" => isr' = "uart_in"
    <3>1. isr' = CASE isr = "echo" -> "cr" [] isr = "cr" -> "lf" [] isr = "lf" -> "uart_in"
      BY <1>8 DEF Echo
    <3>2. "echo" # "cr" /\ "echo" # "lf" /\ "cr" # "lf"
      OBVIOUS
    <3> QED
      BY <3>1, <3>2, Zenon
  <2>3. main # "print"
    BY <2>1 DEF SetUpInv
  <2>4. CASE isr = "lf"
    <3>1. LineInv' /\ Ended' /\ isr' \notin {"cr", "lf"}
      BY <2>1, <2>2, <2>4, Written DEF Authors
    <3> QED
      BY <2>1, <2>3, <3>1, Zenon DEF AuthorInv
  <2>5. CASE isr # "lf"
    <3>1. Partial("echo")
      BY <2>3, EndedIsPartial, Zenon DEF AuthorInv
    <3>2. LineInv' /\ Partial("echo")'
      BY <2>1, <2>5, <3>1, Written DEF Authors
    <3>3. isr' \in {"cr", "lf"}
      BY <2>1, <2>2, <2>5
    <3> QED
      BY <2>1, <2>3, <3>2, <3>3, Zenon DEF AuthorInv
  <2> QED
    BY <2>4, <2>5
<1>9. CASE TimerFires \/ Receive
  <2>1. UNCHANGED <<tx, line, main, isr, left>>
    BY <1>9 DEF TimerFires, Receive, uartvars
  <2> QED
    BY <2>1, LineKept, Zenon DEF AuthorInv
<1>10. CASE Transmit
  <2>1. /\ UNCHANGED <<main, isr, left>> /\ tx # <<>> /\ tx' = Tail(tx)
        /\ line' = IF Head(tx) = "newline" THEN <<>> ELSE Append(line, Head(tx))
    BY <1>10 DEF Transmit
  <2>2. /\ LineInv' /\ (Ended => Ended')
        /\ Partial("main") => Partial("main")'
        /\ Partial("echo") => Partial("echo")'
    BY <2>1, Sent
  <2> QED
    BY <2>1, <2>2, Zenon DEF AuthorInv
<1> QED
  BY <1>2, <1>3, <1>4, <1>5, <1>6, <1>7, <1>8, <1>9, <1>10 DEF Next, Main, Handlers
---------------------------------------------------------------------------
LEMMA InitInv == Init => Inv
<1> SUFFICES ASSUME Init PROVE Inv
  OBVIOUS
<1>1. vectors \in [VectorNums -> SUBSET (0 .. 31)]
  <2>1. vectors = DefaultVectors(at.default_exc_handler)
    BY DEF Init
  <2> QED
    BY <2>1, WordInRange DEF DefaultVectors, OffsetBits
<1>2. TypeOK
  <2>1. /\ RxFifoDepth \in Nat /\ TxFifoDepth \in Nat /\ LineLength \in Nat /\ MaxInput \in Nat
    BY HelloAssumption
  <2>2. /\ left \in 0 .. LineLength + 2 /\ rx \in 0 .. RxFifoDepth /\ Len(tx) <= TxFifoDepth
        /\ typed \in 0 .. MaxInput
        /\ \A i \in DOMAIN tx : tx[i] \in {"main", "echo", "newline"}
    BY <2>1 DEF Init
  <2>3. {MIE, unshown, armed, timer_irq} \subseteq BOOLEAN
    BY Zenon DEF Init
  <2>4. mie \subseteq {UART_IRQ_NUM, TIMER_IRQ_NUM}
    BY Zenon DEF Init
  <2>5. /\ at \in Layouts /\ main = "install_uart" /\ isr = "none"
    BY Zenon DEF Init
  <2> QED
    BY <1>1, <2>2, <2>3, <2>4, <2>5, Zenon DEF TypeOK
<1>3. SetUpInv
  <2>1. main = "install_uart" /\ isr = "none" /\ ~MIE /\ mie = {}
    BY Zenon DEF Init
  <2> QED
    BY <2>1, Zenon DEF SetUpInv
<1>4. tx = <<>> /\ line = <<>> /\ main # "print" /\ isr \notin {"cr", "lf"}
  BY DEF Init
<1>5. LineInv
  BY <1>4 DEF LineInv, WholeLines
<1>6. AuthorInv
  BY <1>4, Zenon DEF AuthorInv, Ended
<1> QED
  BY <1>2, <1>3, <1>5, <1>6 DEF Inv

LEMMA StepInv == Inv /\ [Next]_vars => Inv'
<1> SUFFICES ASSUME Inv, [Next]_vars PROVE Inv'
  OBVIOUS
<1>1. CASE Next
  <2>1. TypeOK' /\ SetUpInv'
    BY <1>1, TypeStep, SetUpStep DEF Inv
  <2>2. LineInv' /\ AuthorInv'
    BY <1>1, LineStep DEF Inv
  <2> QED
    BY <2>1, <2>2 DEF Inv
<1>2. CASE UNCHANGED vars
  <2>1. /\ at' = at /\ vectors' = vectors /\ main' = main /\ isr' = isr /\ left' = left
        /\ MIE' = MIE /\ mie' = mie /\ unshown' = unshown /\ rx' = rx /\ tx' = tx
        /\ armed' = armed /\ timer_irq' = timer_irq /\ typed' = typed /\ line' = line
    BY <1>2 DEF vars
  <2>2. TypeOK' = TypeOK
    BY <2>1, Zenon DEF TypeOK
  <2>3. JumpsTo(vectors', UART_IRQ_NUM) = JumpsTo(vectors, UART_IRQ_NUM)
        /\ JumpsTo(vectors', TIMER_IRQ_NUM) = JumpsTo(vectors, TIMER_IRQ_NUM)
    BY <2>1
  <2>4. SetUpInv' = SetUpInv
    BY <2>1, <2>3, Zenon DEF SetUpInv, JumpsTo
  <2>5. LineInv' /\ Ended' = Ended /\ Partial("main")' = Partial("main")
        /\ Partial("echo")' = Partial("echo")
    BY <2>1, LineKept, Zenon DEF Inv, Ended, Partial
  <2>6. AuthorInv' = AuthorInv
    BY <2>1, <2>5, Zenon DEF AuthorInv
  <2> QED
    BY <2>2, <2>4, <2>5, <2>6, Zenon DEF Inv
<1> QED
  BY <1>1, <1>2

LEMMA AlwaysInv == Spec => []Inv
<1> QED
  BY InitInv, StepInv, PTL DEF Spec

(* The demo stays in its types: the jumps in the vector table are words,   *)
(* and no interrupt ends in simple_exc_handler or in no handler at all.    *)
THEOREM TypeCorrect == Spec => [](TypeOK /\ isr \notin {"exception", "lost"})
<1>1. Inv => TypeOK /\ isr \notin {"exception", "lost"}
  BY DEF Inv, SetUpInv
<1> QED
  BY <1>1, AlwaysInv, PTL

(* A line on the wire has one author, for every length of main's line,     *)
(* depth of the FIFOs and amount of input: the handler's echo never falls  *)
(* into a line main has begun (main.c:52-53), nor main's line into an echo. *)
THEOREM LinesAlwaysWhole == Spec => []WholeLines
<1>1. Inv => WholeLines
  BY DEF Inv, LineInv
<1> QED
  BY <1>1, AlwaysInv, PTL

(* An interrupt ends up in the handler installed for it, and none is taken *)
(* before (demo_system.c:78-104, timer.c:48-55), wherever in the RAM the   *)
(* linker puts the vectors and the handlers.                               *)
THEOREM HandlersAlwaysReached == Spec => HandlersReached
<1>1. ASSUME Inv, [Next]_vars
      PROVE  [isr = "none" /\ isr' # "none"
              => isr' = IF uart_irq THEN "uart_in" ELSE "timer"]_vars
  <2>1. CASE TakeUartInterrupt \/ TakeTimerInterrupt
    BY <1>1, <2>1, Taken, Zenon DEF Inv
  <2>2. CASE Main
    <3>1. isr' = isr
      BY <2>2 DEF Main, Boot, InstallUart, EnableUart, InstallTimer, ArmTimer, EnableTimer,
         LastElapsedTime, ReadTime, Mask, PutCharacter, Unmask, WaitForInterrupt, WakeUp
    <3> QED
      BY <3>1, Zenon
  <2>3. CASE UartIn \/ Echo \/ TimerHandler
    <3>1. isr # "none"
      BY <2>3 DEF UartIn, Echo, TimerHandler
    <3> QED
      BY <3>1, Zenon
  <2>4. CASE TimerFires \/ Receive \/ Transmit
    <3>1. isr' = isr
      BY <2>4 DEF TimerFires, Receive, Transmit
    <3> QED
      BY <3>1, Zenon
  <2>5. CASE UNCHANGED vars
    BY <2>5
  <2> QED
    BY <1>1, <2>1, <2>2, <2>3, <2>4, <2>5 DEF Next, Handlers
<1> QED
  BY <1>1, AlwaysInv, PTL DEF Spec, HandlersReached
=============================================================================
