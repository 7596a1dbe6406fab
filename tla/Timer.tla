------------------------------- MODULE Timer -------------------------------
(***************************************************************************)
(* timer.sv: the 64-bit mtime and mtimecmp, each accessed by the processor *)
(* in two halves, and the timer interrupt.  One TimerClock step is one     *)
(* rising edge of clk_i.                                                   *)
(***************************************************************************)
EXTENDS Integers

CONSTANTS Half    \* values of one half register: 2^32

ASSUME HalfAssumption == Half \in Nat /\ Half >= 2

VARIABLES mtime_q, mtimecmp_q, interrupt_q

timervars == <<mtime_q, mtimecmp_q, interrupt_q>>

Time == 0 .. Half * Half - 1
Low(t) == t % Half
High(t) == t \div Half
Join(high, low) == high * Half + low
AllOnes == Half - 1     \* -1 written to a half register

Registers == {"MTIME", "MTIMEH", "MTIMECMP", "MTIMECMPH"}
Write(r, d) == [reg |-> r, data |-> d]
NoWrite == [reg |-> "none", data |-> 0]
---------------------------------------------------------------------------
TimerInit == mtime_q = 0 /\ mtimecmp_q = 0 /\ interrupt_q = FALSE

(* What a load of register r returns                                       *)
TimerRead(r) == CASE r = "MTIME"     -> Low(mtime_q)
                  [] r = "MTIMEH"    -> High(mtime_q)
                  [] r = "MTIMECMP"  -> Low(mtimecmp_q)
                  [] r = "MTIMECMPH" -> High(mtimecmp_q)

mtime_inc == (mtime_q + 1) % (Half * Half)

(* An interrupt stays until either half of mtimecmp is written             *)
CmpWritten_Ignored(w) == FALSE
CmpWritten(w) == w.reg \in {"MTIMECMP", "MTIMECMPH"}

(* w is the store of this cycle, or NoWrite                                *)
TimerClock(w) ==
  /\ mtime_q' = Join(IF w.reg = "MTIMEH" THEN w.data ELSE High(mtime_inc),
                     IF w.reg = "MTIME"  THEN w.data ELSE Low(mtime_inc))
  /\ mtimecmp_q' = Join(IF w.reg = "MTIMECMPH" THEN w.data ELSE High(mtimecmp_q),
                        IF w.reg = "MTIMECMP"  THEN w.data ELSE Low(mtimecmp_q))
  /\ interrupt_q' = /\ mtime_q >= mtimecmp_q \/ interrupt_q
                    /\ ~CmpWritten(w)

TimerTypeOK == mtime_q \in Time /\ mtimecmp_q \in Time /\ interrupt_q \in BOOLEAN
=============================================================================
