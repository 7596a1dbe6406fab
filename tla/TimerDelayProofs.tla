-------------------------- MODULE TimerDelayProofs --------------------------
(***************************************************************************)
(* timer_delay waits long enough, for every width of the registers, tick   *)
(* length and delay, however slowly the program runs.                      *)
(***************************************************************************)
EXTENDS TimerDelay, TLAPS

Reading == {"read_high", "read_low", "read_again", "write_ones", "write_high", "write_low"}
Armed == {"enable", "timeout", "check", "wfi", "asleep", "disable"}
Enabled == Armed \ {"enable"}

(* Where the program and the handler can be                                *)
PcInv ==
  /\ pc \in [{"main", "isr"} -> {"call", "none", "count"} \cup Reading \cup Armed]
  /\ pc["main"] \in {"call"} \cup Reading \cup Armed
  /\ pc["isr"] \in {"none", "count"} \cup Reading
  /\ mie <=> pc["main"] \in Enabled
  /\ pc["isr"] # "none" => pc["main"] \in Enabled \ {"asleep"}

(* The time the last halves were read, or are being read, since            *)
From == IF running = "main" THEN began ELSE target

ReadInv ==
  /\ at("read_low") => \E t \in From .. mtime_q : high[running] = High(t)
  /\ at("read_again") =>
       \E t \in From .. mtime_q : \E u \in t .. mtime_q :
         high[running] = High(t) /\ low[running] = Low(u)
  /\ at("write_ones") \/ at("write_high") \/ at("write_low") =>
       Join(high[running], low[running]) \in From .. mtime_q
  /\ at("write_low") => High(mtimecmp_q) = High(new_time)

(* The k-th tick of this delay                                             *)
Tick(k) == began + k * TimeBase

(* The comparator holds the time armed, and reports it only when it passed *)
Compared == mtimecmp_q = target /\ (interrupt_q => mtime_q >= target)

(* Once armed: the next tick is armed for no earlier than it is due        *)
ArmedInv ==
  \/ /\ pc["isr"] = "none" /\ Compared
     /\ target >= Tick(time_elapsed + 1) /\ mtime_q >= Tick(time_elapsed)
  \/ /\ pc["isr"] \in Reading /\ mtime_q >= target
     /\ target >= Tick(time_elapsed + 1)
  \/ /\ pc["isr"] = "count" /\ Compared
     /\ target >= Tick(time_elapsed + 2) /\ mtime_q >= Tick(time_elapsed + 1)

TickInv ==
  /\ {time_elapsed, began, target, ms, timeout} \subseteq Nat /\ began <= mtime_q
  /\ pc["main"] \in Reading => time_elapsed = 0
  /\ pc["main"] \in Armed => ArmedInv
  /\ pc["main"] \in {"check", "wfi", "asleep", "disable"} => timeout >= ms
  /\ pc["main"] = "disable" => time_elapsed >= timeout

Inv == TypeOK /\ PcInv /\ ReadInv /\ TickInv
---------------------------------------------------------------------------
(* The halves of a time                                                    *)
LEMMA Halves ==
  ASSUME NEW t \in Nat
  PROVE  /\ High(t) \in Nat /\ Low(t) \in 0 .. Half - 1
         /\ Join(High(t), Low(t)) = t
  BY HalfAssumption, SMT DEF High, Low, Join

LEMMA Joined ==
  ASSUME NEW h \in Nat, NEW l \in 0 .. Half - 1
  PROVE  Join(h, l) \in Nat /\ High(Join(h, l)) = h /\ Low(Join(h, l)) = l
  BY HalfAssumption, SMT DEF High, Low, Join

LEMMA HighMonotonic ==
  ASSUME NEW s \in Nat, NEW t \in Nat, s <= t
  PROVE  High(s) <= High(t)
  BY HalfAssumption, SMT DEF High

LEMMA HighInRange ==
  ASSUME NEW t \in Nat, t < Half * Half
  PROVE  High(t) \in 0 .. Half - 1
  BY HalfAssumption, SMT DEF High

LEMMA JoinInRange ==
  ASSUME NEW h \in 0 .. Half - 1, NEW l \in 0 .. Half - 1
  PROVE  Join(h, l) \in Time
  BY HalfAssumption, SMT DEF Join, Time

LEMMA Counts ==
  ASSUME mtime_q \in Nat, mtime_q + 1 < Half * Half
  PROVE  mtime_inc = mtime_q + 1
  BY HalfAssumption, SMT DEF mtime_inc

LEMMA NextTick ==
  ASSUME began \in Nat, NEW k \in Nat
  PROVE  Tick(k) \in Nat /\ Tick(k + 1) = Tick(k) + TimeBase /\ Tick(0) = began
  BY DelayAssumption, SMT DEF Tick

LEMMA LaterTick ==
  ASSUME began \in Nat, NEW k \in Nat, NEW n \in Nat, n <= k
  PROVE  began + n * TimeBase <= Tick(k)
  BY DelayAssumption, SMT DEF Tick
---------------------------------------------------------------------------
(* A clock edge: what it does to the time and to the compare register      *)
LEMMA QuietEdge ==
  ASSUME TimerTypeOK, Lives, TimerClock(NoWrite)
  PROVE  /\ mtime_q' = mtime_q + 1 /\ mtimecmp_q' = mtimecmp_q
         /\ interrupt_q' => mtime_q >= mtimecmp_q \/ interrupt_q
         /\ TimerTypeOK'
<1>1. mtime_q \in Nat /\ mtimecmp_q \in Nat /\ mtime_q + 1 < Half * Half
  BY HalfAssumption, DelayAssumption DEF TimerTypeOK, Time, Lives
<1>2. mtime_inc = mtime_q + 1
  BY <1>1, Counts
<1>3. NoWrite.reg = "none"
  BY DEF NoWrite
<1>4. mtime_q' = Join(High(mtime_inc), Low(mtime_inc))
      /\ mtimecmp_q' = Join(High(mtimecmp_q), Low(mtimecmp_q))
  BY <1>3 DEF TimerClock
<1>5. mtime_q' = mtime_q + 1 /\ mtimecmp_q' = mtimecmp_q
  BY <1>1, <1>2, <1>4, Halves
<1>6. interrupt_q' \in BOOLEAN /\ (interrupt_q' => mtime_q >= mtimecmp_q \/ interrupt_q)
  BY Zenon DEF TimerClock
<1>7. mtime_q' \in Time /\ mtimecmp_q' \in Time
  BY <1>1, <1>5, HalfAssumption DEF TimerTypeOK, Time
<1> QED
  BY <1>5, <1>6, <1>7 DEF TimerTypeOK

LEMMA WriteEdge ==
  ASSUME TimerTypeOK, Lives, NEW d \in 0 .. Half - 1, NEW r \in {"MTIMECMP", "MTIMECMPH"},
         TimerClock(Write(r, d))
  PROVE  /\ mtime_q' = mtime_q + 1 /\ ~interrupt_q'
         /\ r = "MTIMECMP" => mtimecmp_q' = Join(High(mtimecmp_q), d)
         /\ r = "MTIMECMPH" => mtimecmp_q' = Join(d, Low(mtimecmp_q))
         /\ TimerTypeOK'
<1>1. mtime_q \in Nat /\ mtimecmp_q \in Nat /\ mtimecmp_q < Half * Half /\ mtime_q + 1 < Half * Half
  BY HalfAssumption, DelayAssumption DEF TimerTypeOK, Time, Lives
<1>2. mtime_inc = mtime_q + 1
  BY <1>1, Counts
<1>3. Write(r, d).reg = r /\ Write(r, d).data = d
  BY DEF Write
<1>4. mtime_q' = Join(High(mtime_inc), Low(mtime_inc))
  BY <1>3 DEF TimerClock
<1>5. mtime_q' = mtime_q + 1
  BY <1>1, <1>2, <1>4, Halves
<1>6. /\ r = "MTIMECMP" => mtimecmp_q' = Join(High(mtimecmp_q), d)
      /\ r = "MTIMECMPH" => mtimecmp_q' = Join(d, Low(mtimecmp_q))
  BY <1>3 DEF TimerClock
<1>7. ~interrupt_q' /\ interrupt_q' \in BOOLEAN
  <2>1. CmpWritten(Write(r, d))
    BY <1>3 DEF CmpWritten
  <2> QED
    BY <2>1, Zenon DEF TimerClock
<1>8. mtime_q' \in Time
  BY <1>1, <1>5, HalfAssumption DEF TimerTypeOK, Time
<1>9. mtimecmp_q' \in Time
  <2>1. High(mtimecmp_q) \in 0 .. Half - 1 /\ Low(mtimecmp_q) \in 0 .. Half - 1
    BY <1>1, HighInRange, Halves
  <2> QED
    BY <1>6, <2>1, JoinInRange
<1> QED
  BY <1>5, <1>6, <1>7, <1>8, <1>9 DEF TimerTypeOK

LEMMA Reads ==
  /\ TimerRead("MTIME") = Low(mtime_q) /\ TimerRead("MTIMEH") = High(mtime_q)
  BY Zenon DEF TimerRead

(* Who runs next, and where                                                *)
LEMMA Goto ==
  ASSUME PcInv, NEW s, goto(s)
  PROVE  /\ running = "main" => pc'["main"] = s /\ pc'["isr"] = "none" /\ pc["isr"] = "none"
         /\ running = "isr" => pc'["isr"] = s /\ pc'["main"] = pc["main"] /\ pc["isr"] # "none"
         /\ running \in {"main", "isr"}
         /\ pc' = [pc EXCEPT ![running] = s]
  BY DEF PcInv, running, goto

LEMMA Instructions ==
  ASSUME PcInv, Instruction \/ Interrupt \/ Idle
  PROVE  \/ TimerClock(NoWrite)
         \/ at("write_ones") /\ TimerClock(Write("MTIMECMP", AllOnes))
         \/ at("write_high") /\ TimerClock(Write("MTIMECMPH", High(new_time)))
         \/ at("write_low") /\ TimerClock(Write("MTIMECMP", Low(new_time)))
  BY DEF Instruction, Interrupt, Idle, Call, ReadHigh, ReadLow, ReadAgain, CmpLowOnes, CmpHigh,
     CmpLow, Count, Enable, Timeout, Check, Wfi, Disable, Edge

LEMMA PcStep ==
  ASSUME PcInv, Instruction \/ Interrupt \/ Idle
  PROVE  PcInv'
<1> USE DEF PcInv, Reading, Armed, Enabled
<1>1. CASE Idle
  BY <1>1 DEF Idle, swvars
<1>2. CASE Interrupt
  BY <1>2 DEF Interrupt, TakesInterrupt, running
<1>3. CASE Call
  BY <1>3, Goto DEF Call, at, running
<1>4. CASE ReadHigh
  BY <1>4, Goto DEF ReadHigh, at
<1>5. CASE ReadLow
  BY <1>5, Goto DEF ReadLow, at
<1>6. CASE ReadAgain
  BY <1>6, Goto DEF ReadAgain, at
<1>7. CASE CmpLowOnes
  BY <1>7, Goto DEF CmpLowOnes, at
<1>8. CASE CmpHigh
  BY <1>8, Goto DEF CmpHigh, at
<1>9. CASE CmpLow
  BY <1>9, Goto DEF CmpLow, AfterUpdate, at
<1>10. CASE Count
  BY <1>10, Goto DEF Count, at
<1>11. CASE Enable
  BY <1>11, Goto DEF Enable, at
<1>12. CASE Timeout
  BY <1>12, Goto DEF Timeout, at
<1>13. CASE Check
  BY <1>13, Goto DEF Check, at
<1>14. CASE Wfi
  BY <1>14, Goto DEF Wfi, at
<1>15. CASE Disable
  BY <1>15, Goto DEF Disable, at
<1> QED
  BY <1>1, <1>2, <1>3, <1>4, <1>5, <1>6, <1>7, <1>8, <1>9, <1>10, <1>11, <1>12, <1>13, <1>14,
     <1>15 DEF Instruction
---------------------------------------------------------------------------
(* What is armed next: a tick after the time read                          *)
LEMMA NewTime ==
  ASSUME Inv, Lives, at("write_ones") \/ at("write_high") \/ at("write_low")
  PROVE  /\ new_time \in Nat /\ new_time < Half * Half
         /\ High(new_time) \in 0 .. Half - 1 /\ Low(new_time) \in 0 .. Half - 1
         /\ new_time >= From + TimeBase /\ new_time <= mtime_q + TimeBase
<1>1. Join(high[running], low[running]) \in From .. mtime_q
  BY DEF Inv, ReadInv
<1>2. From \in Nat /\ mtime_q \in Nat
  BY HalfAssumption DEF Inv, TickInv, From, TypeOK, TimerTypeOK, Time
<1>3. /\ new_time \in Nat /\ new_time < Half * Half
      /\ new_time >= From + TimeBase /\ new_time <= mtime_q + TimeBase
  BY <1>1, <1>2, HalfAssumption, DelayAssumption DEF new_time, Lives
<1> QED
  BY <1>3, HighInRange, Halves

LEMMA EdgeStep ==
  ASSUME Inv, Lives, Instruction \/ Interrupt \/ Idle
  PROVE  mtime_q' = mtime_q + 1 /\ TimerTypeOK'
<1>1. TimerTypeOK /\ PcInv
  BY DEF Inv, TypeOK
<1>2. CASE TimerClock(NoWrite)
  BY <1>1, <1>2, QuietEdge
<1>3. CASE at("write_ones") /\ TimerClock(Write("MTIMECMP", AllOnes))
  <2>1. AllOnes \in 0 .. Half - 1
    BY HalfAssumption DEF AllOnes
  <2> QED
    BY <1>1, <1>3, <2>1, WriteEdge
<1>4. CASE at("write_high") /\ TimerClock(Write("MTIMECMPH", High(new_time)))
  BY <1>1, <1>4, NewTime, WriteEdge
<1>5. CASE at("write_low") /\ TimerClock(Write("MTIMECMP", Low(new_time)))
  BY <1>1, <1>5, NewTime, WriteEdge
<1> QED
  BY <1>1, <1>2, <1>3, <1>4, <1>5, Instructions

LEMMA TypeStep ==
  ASSUME Inv, Lives, Instruction \/ Interrupt \/ Idle
  PROVE  TypeOK'
<1>1. TimerTypeOK'
  BY EdgeStep
<1>2. /\ {high, low} \subseteq [{"main", "isr"} -> 0 .. Half - 1]
      /\ time_elapsed \in Nat /\ mie \in BOOLEAN
  BY DEF Inv, TypeOK
<1>3. TimerRead("MTIME") \in 0 .. Half - 1 /\ TimerRead("MTIMEH") \in 0 .. Half - 1
  <2>1. mtime_q \in Nat /\ mtime_q < Half * Half
    BY HalfAssumption DEF Inv, TypeOK, TimerTypeOK, Time
  <2> QED
    BY <2>1, Reads, Halves, HighInRange
<1>4. high' \in [{"main", "isr"} -> 0 .. Half - 1]
  BY <1>2, <1>3, Zenon DEF Instruction, Interrupt, Idle, swvars, Call, ReadHigh, ReadLow, ReadAgain,
     CmpLowOnes, CmpHigh, CmpLow, Count, Enable, Timeout, Check, Wfi, Disable
<1>5. low' \in [{"main", "isr"} -> 0 .. Half - 1]
  BY <1>2, <1>3, Zenon DEF Instruction, Interrupt, Idle, swvars, Call, ReadHigh, ReadLow, ReadAgain,
     CmpLowOnes, CmpHigh, CmpLow, Count, Enable, Timeout, Check, Wfi, Disable
<1>6. time_elapsed' \in {0, time_elapsed, time_elapsed + 1}
  BY Zenon DEF Instruction, Interrupt, Idle, swvars, Call, ReadHigh, ReadLow, ReadAgain,
     CmpLowOnes, CmpHigh, CmpLow, Count, Enable, Timeout, Check, Wfi, Disable
<1>7. mie' \in BOOLEAN
  BY <1>2, Zenon DEF Instruction, Interrupt, Idle, swvars, Call, ReadHigh, ReadLow, ReadAgain,
     CmpLowOnes, CmpHigh, CmpLow, Count, Enable, Timeout, Check, Wfi, Disable
<1> QED
  BY <1>1, <1>2, <1>4, <1>5, <1>6, <1>7 DEF TypeOK
---------------------------------------------------------------------------
(* The steps of timer_read and timecmp_update keep what was read genuine   *)
LEMMA Place ==
  ASSUME PcInv, NEW s, s # "none", goto(s)
  PROVE  running' = running /\ \A x : at(x)' <=> x = s
  BY Goto DEF at, running

Halfway == {"read_low", "read_again", "write_ones", "write_high", "write_low"}

LEMMA FromInRange ==
  ASSUME Inv, pc[running] \in Reading
  PROVE  From \in Nat /\ From <= mtime_q
  BY DEF Inv, PcInv, TickInv, ArmedInv, From, running, Reading, Enabled, Armed

LEMMA ReadKept ==
  ASSUME Inv, mtime_q' = mtime_q + 1,
         UNCHANGED <<pc, high, low, target, began, mtimecmp_q>>
  PROVE  ReadInv'
<1>1. From' = From /\ running' = running /\ new_time' = new_time /\ (\A x : at(x)' <=> at(x))
  BY DEF From, running, new_time, at
<1>2. pc[running] \in Reading => From \in Nat /\ From <= mtime_q
  BY FromInRange
<1>3. ReadInv /\ mtime_q \in Nat
  BY HalfAssumption DEF Inv, TypeOK, TimerTypeOK, Time
<1>4. ASSUME pc[running] \in Reading PROVE From .. mtime_q \subseteq From .. mtime_q'
  BY <1>2, <1>3, <1>4
<1>5. ASSUME at("read_low") PROVE \E t \in From .. mtime_q' : high[running] = High(t)
  BY <1>3, <1>4, <1>5, Zenon DEF ReadInv, at, Reading
<1>6. ASSUME at("read_again")
      PROVE  \E t \in From .. mtime_q' : \E u \in t .. mtime_q' :
               high[running] = High(t) /\ low[running] = Low(u)
  <2>0. PICK t \in From .. mtime_q : \E u \in t .. mtime_q :
          high[running] = High(t) /\ low[running] = Low(u)
    BY <1>3, <1>6 DEF ReadInv
  <2>1. PICK u \in t .. mtime_q : high[running] = High(t) /\ low[running] = Low(u)
    BY <2>0
  <2>2. t \in From .. mtime_q' /\ u \in t .. mtime_q'
    BY <1>2, <1>3, <1>6 DEF at, Reading
  <2> QED
    BY <2>1, <2>2
<1>7. ASSUME at("write_ones") \/ at("write_high") \/ at("write_low")
      PROVE  Join(high[running], low[running]) \in From .. mtime_q'
  BY <1>3, <1>4, <1>7, Zenon DEF ReadInv, at, Reading
<1>8. high' = high /\ low' = low /\ mtimecmp_q' = mtimecmp_q
  OBVIOUS
<1> QED
  BY <1>1, <1>3, <1>5, <1>6, <1>7, <1>8, Zenon DEF ReadInv

LEMMA ReadStep ==
  ASSUME Inv, Lives, Instruction \/ Interrupt \/ Idle
  PROVE  ReadInv'
<1>1. PcInv /\ ReadInv /\ mtime_q \in Nat /\ mtimecmp_q \in Nat /\ mtime_q' = mtime_q + 1
  BY EdgeStep, HalfAssumption DEF Inv, TypeOK, TimerTypeOK, Time
<1>2. /\ high \in [{"main", "isr"} -> 0 .. Half - 1] /\ low \in [{"main", "isr"} -> 0 .. Half - 1]
      /\ running \in {"main", "isr"}
  BY DEF Inv, TypeOK, running
<1>3. CASE Idle
  <2>1. UNCHANGED <<pc, high, low, target, began, mtimecmp_q>>
    BY <1>3, QuietEdge DEF Idle, swvars, Inv, TypeOK
  <2> QED
    BY <1>1, <2>1, ReadKept
<1>4. CASE ReadHigh
  <2>1. /\ goto("read_low") /\ at("read_high") /\ UNCHANGED <<target, began>>
        /\ high' = [high EXCEPT ![running] = High(mtime_q)]
    BY <1>4, Reads DEF ReadHigh
  <2>2. running' = running /\ From' = From /\ \A x : at(x)' <=> x = "read_low"
    BY <1>1, <2>1, Place DEF From
  <2>3. From \in Nat /\ From <= mtime_q
    BY <2>1, FromInRange DEF at, Reading
  <2>4. mtime_q \in From .. mtime_q' /\ high'[running] = High(mtime_q)
    BY <1>1, <1>2, <2>1, <2>3
  <2> QED
    BY <2>2, <2>4, Zenon DEF ReadInv
<1>5. CASE ReadLow
  <2>1. /\ goto("read_again") /\ at("read_low") /\ UNCHANGED <<high, target, began>>
        /\ low' = [low EXCEPT ![running] = Low(mtime_q)]
    BY <1>5, Reads DEF ReadLow
  <2>2. running' = running /\ From' = From /\ \A x : at(x)' <=> x = "read_again"
    BY <1>1, <2>1, Place DEF From
  <2>3. From \in Nat /\ From <= mtime_q
    BY <2>1, FromInRange DEF at, Reading
  <2>4. PICK t \in From .. mtime_q : high[running] = High(t)
    BY <1>1, <2>1 DEF ReadInv
  <2>5. t \in From .. mtime_q' /\ mtime_q \in t .. mtime_q'
    BY <1>1, <2>3
  <2>6. high'[running] = High(t) /\ low'[running] = Low(mtime_q)
    BY <1>2, <2>1, <2>4
  <2> QED
    BY <2>2, <2>5, <2>6, Zenon DEF ReadInv
<1>6. CASE ReadAgain
  <2>1. at("read_again") /\ UNCHANGED <<high, low, target, began>>
    BY <1>6 DEF ReadAgain
  <2>2. CASE SameHigh
    <3>1. goto("write_ones")
      BY <1>6, <2>2 DEF ReadAgain
    <3>2. running' = running /\ From' = From /\ \A x : at(x)' <=> x = "write_ones"
      BY <1>1, <2>1, <3>1, Place DEF From
    <3>3. From \in Nat /\ From <= mtime_q
      BY <2>1, FromInRange DEF at, Reading
    <3>0. PICK t \in From .. mtime_q : \E u \in t .. mtime_q :
            high[running] = High(t) /\ low[running] = Low(u)
      BY <1>1, <2>1 DEF ReadInv
    <3>4. PICK u \in t .. mtime_q : high[running] = High(t) /\ low[running] = Low(u)
      BY <3>0
    <3>5. t \in Nat /\ u \in Nat /\ t <= u /\ u <= mtime_q /\ From <= u
      BY <1>1, <3>3
    <3>6. High(t) <= High(u) /\ High(u) <= High(mtime_q) /\ High(t) = High(mtime_q)
      BY <1>1, <2>2, <3>4, <3>5, HighMonotonic, Reads DEF SameHigh
    <3>7. High(t) = High(u)
      BY <1>1, <3>5, <3>6, Halves
    <3>8. Join(high[running], low[running]) = u
      BY <3>4, <3>5, <3>7, Halves
    <3>9. Join(high[running], low[running]) \in From .. mtime_q'
      BY <1>1, <3>3, <3>5, <3>8
    <3> QED
      BY <2>1, <3>2, <3>9, Zenon DEF ReadInv
  <2>3. CASE ~SameHigh
    <3>1. goto("read_high")
      BY <1>6, <2>3 DEF ReadAgain
    <3>2. \A x : at(x)' <=> x = "read_high"
      BY <1>1, <3>1, Place
    <3> QED
      BY <3>2, Zenon DEF ReadInv
  <2> QED
    BY <2>2, <2>3
<1>7. CASE CmpLowOnes
  <2>1. /\ goto("write_high") /\ at("write_ones") /\ UNCHANGED <<high, low, target, began>>
    BY <1>7 DEF CmpLowOnes
  <2>2. running' = running /\ From' = From /\ \A x : at(x)' <=> x = "write_high"
    BY <1>1, <2>1, Place DEF From
  <2>3. From \in Nat /\ Join(high[running], low[running]) \in From .. mtime_q
    BY <1>1, <2>1, FromInRange DEF at, Reading, ReadInv
  <2>4. Join(high[running], low[running]) \in From .. mtime_q'
    BY <1>1, <2>3
  <2> QED
    BY <2>1, <2>2, <2>4, Zenon DEF ReadInv
<1>8. CASE CmpHigh
  <2>1. /\ goto("write_low") /\ at("write_high") /\ UNCHANGED <<high, low, target, began>>
        /\ TimerClock(Write("MTIMECMPH", High(new_time)))
    BY <1>8 DEF CmpHigh, Edge
  <2>2. running' = running /\ From' = From /\ new_time' = new_time
        /\ \A x : at(x)' <=> x = "write_low"
    BY <1>1, <2>1, Place DEF From, new_time
  <2>3. From \in Nat /\ Join(high[running], low[running]) \in From .. mtime_q
    BY <1>1, <2>1, FromInRange DEF at, Reading, ReadInv
  <2>4. Join(high[running], low[running]) \in From .. mtime_q'
    BY <1>1, <2>3
  <2>5. High(new_time) \in 0 .. Half - 1
    BY <2>1, NewTime
  <2>6. mtimecmp_q' = Join(High(new_time), Low(mtimecmp_q))
    BY <2>1, <2>5, WriteEdge DEF Inv, TypeOK
  <2>7. High(mtimecmp_q') = High(new_time)
    BY <1>1, <2>5, <2>6, Halves, Joined
  <2>8. High(mtimecmp_q)' = High(mtimecmp_q')
    BY DEF High
  <2> QED
    BY <2>1, <2>2, <2>4, <2>7, <2>8, Zenon DEF ReadInv
<1>9. CASE Count
  <2>1. goto("none") /\ running = "isr" /\ pc["main"] \in Enabled
    BY <1>1, <1>9 DEF Count, at, running, PcInv, Enabled, Armed, Reading
  <2>2. pc'["isr"] = "none" /\ pc'["main"] \in Enabled
    BY <1>1, <2>1, Goto
  <2>3. running' = "main" /\ \A x \in Halfway : ~at(x)'
    BY <2>2 DEF running, at, Halfway, Enabled, Armed
  <2> QED
    BY <2>3, Zenon DEF ReadInv, Halfway
<1>10. CASE Interrupt
  <2>1. pc'["isr"] = "read_high"
    BY <1>10 DEF Interrupt
  <2>2. \A x \in Halfway : ~at(x)'
    BY <2>1 DEF running, at, Halfway
  <2> QED
    BY <2>2, Zenon DEF ReadInv, Halfway
<1>11. CASE Call \/ CmpLow \/ Enable \/ Timeout \/ Check \/ Wfi \/ Disable
  <2>1. \E s \in {"call", "count", "read_high"} \cup Armed : goto(s)
    BY <1>11, Zenon DEF Call, CmpLow, Enable, Timeout, Check, Wfi, Disable, AfterUpdate, Armed
  <2>2. PICK s \in {"call", "count", "read_high"} \cup Armed : goto(s)
    BY <2>1
  <2>3. s # "none" /\ s \notin Halfway
    BY <2>2 DEF Armed, Halfway
  <2>4. \A x \in Halfway : ~at(x)'
    BY <1>1, <2>2, <2>3, Place
  <2> QED
    BY <2>4, Zenon DEF ReadInv, Halfway
<1> QED
  BY <1>3, <1>4, <1>5, <1>6, <1>7, <1>8, <1>9, <1>10, <1>11 DEF Instruction
---------------------------------------------------------------------------
(* The ticks of a delay                                                    *)
LEMMA ComparedKept ==
  ASSUME Inv, Lives, Compared, TimerClock(NoWrite), target' = target
  PROVE  Compared'
<1>1. /\ mtime_q' = mtime_q + 1 /\ mtimecmp_q' = mtimecmp_q
      /\ interrupt_q' => mtime_q >= mtimecmp_q \/ interrupt_q
  BY QuietEdge DEF Inv, TypeOK
<1>2. mtime_q \in Nat /\ target \in Nat
  BY HalfAssumption DEF Inv, TypeOK, TimerTypeOK, Time, TickInv
<1>3. interrupt_q' => mtime_q >= target
  BY <1>1, Zenon DEF Compared
<1>4. mtime_q >= target => mtime_q' >= target
  BY <1>1, <1>2
<1> QED
  BY <1>1, <1>3, <1>4, Zenon DEF Compared

LEMMA TickStep ==
  ASSUME Inv, Lives, Instruction \/ Interrupt \/ Idle
  PROVE  TickInv'
<1>1. PcInv /\ PcInv' /\ TickInv
  BY PcStep DEF Inv
<1>2. /\ mtime_q \in Nat /\ mtime_q' = mtime_q + 1
      /\ time_elapsed \in Nat /\ began \in Nat /\ target \in Nat /\ ms \in Nat /\ timeout \in Nat
      /\ began <= mtime_q
  BY EdgeStep, HalfAssumption DEF Inv, TypeOK, TimerTypeOK, Time, TickInv
<1>3. ASSUME NEW k \in Nat, began' = began PROVE Tick(k)' = Tick(k)
  BY <1>3 DEF Tick
<1>4. /\ Tick(0) \in Nat /\ Tick(time_elapsed) \in Nat /\ Tick(time_elapsed + 1) \in Nat
      /\ Tick(time_elapsed + 2) \in Nat /\ Tick(0) = began
      /\ Tick(time_elapsed + 1) = Tick(time_elapsed) + TimeBase
      /\ Tick(time_elapsed + 2) = Tick(time_elapsed + 1) + TimeBase
      /\ Tick(1) = Tick(0) + TimeBase
  <2>1. 0 + 1 = 1 /\ time_elapsed + 1 \in Nat /\ time_elapsed + 2 \in Nat
        /\ (time_elapsed + 1) + 1 = time_elapsed + 2
    BY <1>2
  <2> QED
    BY <1>2, <2>1, NextTick
(* The program goes on, or the sleep does, between two ticks               *)
<1>5. ASSUME pc["main"] \in Armed, UNCHANGED <<time_elapsed, began, target>>,
             pc'["isr"] = pc["isr"],
             pc["isr"] \in Reading \/ TimerClock(NoWrite)
      PROVE  ArmedInv'
  <2>1. ArmedInv
    BY <1>1, <1>5 DEF TickInv
  <2>2. TimerClock(NoWrite) /\ Compared => Compared'
    BY <1>5, ComparedKept
  <2>3. /\ Tick(time_elapsed + 1)' = Tick(time_elapsed + 1)
        /\ Tick(time_elapsed + 2)' = Tick(time_elapsed + 2)
        /\ Tick(time_elapsed)' = Tick(time_elapsed)
    BY <1>5 DEF Tick
  <2>4. /\ mtime_q >= target => mtime_q' >= target
        /\ mtime_q >= Tick(time_elapsed) => mtime_q' >= Tick(time_elapsed)
        /\ mtime_q >= Tick(time_elapsed + 1) => mtime_q' >= Tick(time_elapsed + 1)
    BY <1>2, <1>4
  <2>5. pc["isr"] \in Reading => pc["isr"] # "none" /\ pc["isr"] # "count"
    BY DEF Reading
  <2>6. target' = target
    BY <1>5
  <2> QED
    BY <1>5, <2>1, <2>2, <2>3, <2>4, <2>5, <2>6, Zenon DEF ArmedInv
(* Nobody else changes what the delay is about                             *)
<1>6. CASE Idle
  <2>1. UNCHANGED <<pc, time_elapsed, began, target, ms, timeout>> /\ TimerClock(NoWrite)
    BY <1>6 DEF Idle, swvars
  <2>2. pc["main"] \in Armed => ArmedInv'
    BY <1>5, <2>1
  <2>3. began <= mtime_q'
    BY <1>2
  <2> QED
    BY <1>1, <1>2, <2>1, <2>2, <2>3, Zenon DEF TickInv
<1>7. CASE Call
  <2>1. /\ goto("read_high") /\ running = "main" /\ ms' \in Millis /\ began' = mtime_q
        /\ time_elapsed' = 0 /\ UNCHANGED <<timeout, target>>
    BY <1>7 DEF Call
  <2>2. pc'["main"] = "read_high"
    BY <1>1, <2>1, Goto
  <2>3. ms' \in Nat /\ began' \in Nat /\ began' <= mtime_q'
    BY <1>2, <2>1, DelayAssumption
  <2> QED
    BY <1>2, <2>1, <2>2, <2>3, SMT DEF TickInv, Armed
<1>8. CASE ReadHigh \/ ReadLow \/ ReadAgain \/ CmpLowOnes \/ CmpHigh
  <2>1. UNCHANGED <<time_elapsed, began, target, ms, timeout>>
    BY <1>8 DEF ReadHigh, ReadLow, ReadAgain, CmpLowOnes, CmpHigh
  <2>2. pc[running] \in Reading /\ \E s \in Reading : goto(s)
    BY <1>8, Zenon DEF ReadHigh, ReadLow, ReadAgain, CmpLowOnes, CmpHigh, at, Reading
  <2>3. PICK s \in Reading : goto(s)
    BY <2>2
  <2>4. CASE running = "main"
    <3>1. pc["main"] \in Reading /\ pc'["main"] \in Reading
      BY <1>1, <2>2, <2>3, <2>4, Goto
    <3>2. time_elapsed' = 0 /\ began <= mtime_q'
      BY <1>1, <1>2, <2>1, <3>1 DEF TickInv
    <3>3. pc'["main"] \notin Armed
      BY <3>1 DEF Reading, Armed
    <3> QED
      BY <1>2, <2>1, <3>1, <3>2, <3>3, Zenon DEF TickInv, Armed
  <2>5. CASE running = "isr"
    <3>1. pc["isr"] \in Reading /\ pc'["isr"] \in Reading /\ pc'["main"] = pc["main"]
          /\ pc["main"] \in Armed
      BY <1>1, <2>2, <2>3, <2>5, Goto DEF PcInv, Enabled, Reading
    <3>2. mtime_q >= target /\ target >= Tick(time_elapsed + 1)
      BY <1>1, <3>1 DEF TickInv, ArmedInv, Reading
    <3>3. /\ Tick(time_elapsed + 1)' = Tick(time_elapsed + 1)
          /\ mtime_q' >= target' /\ began <= mtime_q'
      BY <1>2, <2>1, <3>2 DEF Tick
    <3>4. ArmedInv'
      BY <2>1, <3>1, <3>2, <3>3, Zenon DEF ArmedInv
    <3> QED
      BY <1>1, <1>2, <2>1, <3>1, <3>3, <3>4, Zenon DEF TickInv
  <2> QED
    BY <2>4, <2>5 DEF running
<1>9. CASE CmpLow
  <2>1. /\ at("write_low") /\ goto(AfterUpdate) /\ target' = new_time
        /\ TimerClock(Write("MTIMECMP", Low(new_time)))
        /\ UNCHANGED <<time_elapsed, began, ms, timeout>>
    BY <1>9 DEF CmpLow, Edge
  <2>2. /\ new_time \in Nat /\ Low(new_time) \in 0 .. Half - 1 /\ new_time >= From + TimeBase
    BY <2>1, NewTime
  <2>3. mtimecmp_q' = Join(High(mtimecmp_q), Low(new_time)) /\ ~interrupt_q'
    BY <2>1, <2>2, WriteEdge DEF Inv, TypeOK
  <2>4. High(mtimecmp_q) = High(new_time)
    BY <2>1 DEF Inv, ReadInv
  <2>5. mtimecmp_q' = target'
    BY <2>1, <2>2, <2>3, <2>4, Halves
  <2>6. Compared'
    BY <2>3, <2>5, Zenon DEF Compared
  <2>7. pc[running] \in Reading /\ began <= mtime_q' /\ target' \in Nat
    BY <1>2, <2>1, <2>2 DEF at, Reading
  <2>8. CASE running = "main"
    <3>1. pc["main"] \in Reading /\ pc'["main"] = "enable" /\ pc'["isr"] = "none"
      BY <1>1, <2>1, <2>7, <2>8, Goto DEF AfterUpdate
    <3>2. time_elapsed = 0 /\ From = began /\ Tick(time_elapsed + 1) = began + TimeBase
      BY <1>1, <1>2, <1>4, <2>8, <3>1, 0 + 1 = 1 DEF TickInv, From
    <3>3. target' >= Tick(time_elapsed + 1) /\ mtime_q' >= Tick(time_elapsed)
      BY <1>2, <1>4, <2>1, <2>2, <3>2
    <3>4. Tick(time_elapsed + 1)' = Tick(time_elapsed + 1) /\ Tick(time_elapsed)' = Tick(time_elapsed)
      BY <2>1 DEF Tick
    <3>5. ArmedInv'
      BY <2>6, <3>1, <3>3, <3>4, Zenon DEF ArmedInv
    <3> QED
      BY <1>2, <2>1, <2>7, <3>1, <3>2, <3>5 DEF TickInv, Reading
  <2>9. CASE running = "isr"
    <3>1. pc["isr"] \in Reading /\ pc'["isr"] = "count" /\ pc'["main"] = pc["main"]
          /\ pc["main"] \in Armed
      BY <1>1, <2>1, <2>7, <2>9, Goto DEF AfterUpdate, PcInv, Enabled, Reading
    <3>2. mtime_q >= target /\ target >= Tick(time_elapsed + 1)
      BY <1>1, <3>1 DEF TickInv, ArmedInv, Reading
    <3>3. target' >= Tick(time_elapsed + 2) /\ mtime_q' >= Tick(time_elapsed + 1)
      BY <1>2, <1>4, <2>1, <2>2, <2>9, <3>2, DelayAssumption DEF From
    <3>4. /\ Tick(time_elapsed + 1)' = Tick(time_elapsed + 1)
          /\ Tick(time_elapsed + 2)' = Tick(time_elapsed + 2)
      BY <2>1 DEF Tick
    <3>5. ArmedInv'
      BY <2>6, <3>1, <3>3, <3>4, Zenon DEF ArmedInv
    <3> QED
      BY <1>1, <1>2, <2>1, <2>7, <3>1, <3>5, Zenon DEF TickInv
  <2> QED
    BY <2>8, <2>9 DEF running
<1>10. CASE Count
  <2>1. /\ at("count") /\ goto("none") /\ time_elapsed' = time_elapsed + 1
        /\ TimerClock(NoWrite) /\ UNCHANGED <<ms, timeout, began, target>>
    BY <1>10 DEF Count, Edge
  <2>2. running = "isr" /\ pc["isr"] = "count" /\ pc["main"] \in Armed
    BY <1>1, <2>1 DEF at, running, PcInv, Reading, Armed, Enabled
  <2>3. pc'["isr"] = "none" /\ pc'["main"] = pc["main"]
    BY <1>1, <2>1, <2>2, Goto
  <2>4. Compared /\ target >= Tick(time_elapsed + 2) /\ mtime_q >= Tick(time_elapsed + 1)
    BY <1>1, <2>2 DEF TickInv, ArmedInv, Reading
  <2>5. Compared'
    BY <2>1, <2>4, ComparedKept
  <2>6. /\ Tick(time_elapsed + 1)' = Tick(time_elapsed + 2)
        /\ Tick(time_elapsed)' = Tick(time_elapsed + 1)
    BY <1>2, <2>1, (time_elapsed + 1) + 1 = time_elapsed + 2 DEF Tick
  <2>7. target' >= Tick(time_elapsed + 2) /\ mtime_q' >= Tick(time_elapsed + 1) /\ began <= mtime_q'
    BY <1>2, <1>4, <2>1, <2>4
  <2>8. ArmedInv'
    BY <2>3, <2>5, <2>6, <2>7, Zenon DEF ArmedInv
  <2>9. pc["main"] \notin Reading
    BY <2>2 DEF Armed, Reading
  <2>10. time_elapsed' \in Nat /\ (time_elapsed >= timeout => time_elapsed' >= timeout)
    BY <1>2, <2>1
  <2> QED
    BY <1>1, <1>2, <2>1, <2>3, <2>7, <2>8, <2>9, <2>10, Zenon DEF TickInv
<1>11. CASE Interrupt
  <2>1. /\ interrupt_q /\ pc["isr"] = "none" /\ pc["main"] \in Armed
        /\ pc'["isr"] = "read_high" /\ pc'["main"] \in {pc["main"], "check"}
        /\ pc'["main"] = "disable" <=> pc["main"] = "disable"
        /\ pc'["main"] \in {"check", "wfi", "asleep", "disable"} <=>
             pc["main"] \in {"check", "wfi", "asleep", "disable"}
        /\ UNCHANGED <<time_elapsed, began, target, ms, timeout>>
    BY <1>1, <1>11 DEF Interrupt, TakesInterrupt, running, PcInv, Enabled, Armed, Reading
  <2>2. Compared /\ target >= Tick(time_elapsed + 1)
    BY <1>1, <2>1 DEF TickInv, ArmedInv, Reading
  <2>3. mtime_q >= target
    BY <2>1, <2>2, Zenon DEF Compared
  <2>4. mtime_q' >= target' /\ began <= mtime_q'
        /\ Tick(time_elapsed + 1)' = Tick(time_elapsed + 1)
    BY <1>2, <2>1, <2>3 DEF Tick
  <2>5. ArmedInv'
    BY <2>1, <2>2, <2>4, Zenon DEF ArmedInv, Reading
  <2>6. pc'["main"] \notin Reading
    BY <2>1 DEF Armed, Reading
  <2> QED
    BY <1>1, <1>2, <2>1, <2>4, <2>5, <2>6, Zenon DEF TickInv
<1>12. CASE Enable \/ Timeout \/ Check \/ Wfi
  <2>1. TimerClock(NoWrite) /\ UNCHANGED <<time_elapsed, began, target, ms>>
    BY <1>12 DEF Enable, Timeout, Check, Wfi, Edge
  <2>2. /\ pc[running] \in {"enable", "timeout", "check", "wfi"}
        /\ \E s \in Enabled : goto(s)
    BY <1>12, Zenon DEF Enable, Timeout, Check, Wfi, at, Enabled, Armed
  <2>3. PICK s \in Enabled : goto(s)
    BY <2>2
  <2>4. running = "main"
    BY <1>1, <2>2 DEF running, PcInv, Reading
  <2>5. /\ pc["main"] \in Armed /\ pc'["main"] = s /\ pc'["isr"] = pc["isr"]
        /\ s \in Armed /\ s \notin Reading
    BY <1>1, <2>2, <2>3, <2>4, Goto DEF Armed, Reading, Enabled
  <2>6. ArmedInv'
    BY <1>5, <2>1, <2>5
  <2>7. began <= mtime_q'
    BY <1>2
  <2>8. CASE Enable
    <3>1. pc'["main"] = "timeout" /\ timeout' = timeout
      BY <1>1, <2>4, <2>8, Goto DEF Enable
    <3> QED
      BY <1>2, <2>1, <2>6, <2>7, <3>1 DEF TickInv, Reading
  <2>9. CASE Timeout
    <3>1. pc'["main"] = "check" /\ timeout' = time_elapsed + ms
      BY <1>1, <2>4, <2>9, Goto DEF Timeout
    <3> QED
      BY <1>2, <2>1, <2>6, <2>7, <3>1 DEF TickInv, Reading
  <2>10. CASE Check
    <3>1. /\ pc["main"] = "check" /\ timeout' = timeout
          /\ pc'["main"] \in {"wfi", "disable"}
          /\ pc'["main"] = "disable" => time_elapsed >= timeout
      BY <1>1, <2>4, <2>10, Goto DEF Check, at, TimedOut
    <3> QED
      BY <1>1, <1>2, <2>1, <2>6, <2>7, <3>1 DEF TickInv, Reading
  <2>11. CASE Wfi
    <3>1. pc["main"] = "wfi" /\ pc'["main"] = "asleep" /\ timeout' = timeout
      BY <1>1, <2>4, <2>11, Goto DEF Wfi, at
    <3> QED
      BY <1>1, <1>2, <2>1, <2>6, <2>7, <3>1 DEF TickInv, Reading
  <2> QED
    BY <1>12, <2>8, <2>9, <2>10, <2>11
<1>13. CASE Disable
  <2>1. goto("call") /\ at("disable") /\ UNCHANGED <<time_elapsed, began, target, ms, timeout>>
    BY <1>13 DEF Disable
  <2>2. running = "main"
    BY <1>1, <2>1 DEF at, running, PcInv, Reading
  <2>3. pc'["main"] = "call" /\ began <= mtime_q'
    BY <1>1, <1>2, <2>1, <2>2, Goto
  <2> QED
    BY <1>2, <2>1, <2>3 DEF TickInv, Armed, Reading
<1> QED
  BY <1>6, <1>7, <1>8, <1>9, <1>10, <1>11, <1>12, <1>13 DEF Instruction
---------------------------------------------------------------------------
LEMMA InitInv == Init => Inv
<1> SUFFICES ASSUME Init PROVE Inv
  OBVIOUS
<1>1. mtime_q \in 0 .. Start /\ Start \in Nat /\ Start < Half * Half /\ Half \in Nat /\ Half >= 2
  BY DelayAssumption, HalfAssumption DEF Init
<1>2. mtime_q \in Time /\ 0 \in Time /\ 0 \in 0 .. Half - 1
  BY <1>1 DEF Time
<1>3. interrupt_q \in BOOLEAN
  <2>1. interrupt_q = (mtime_q > 0)
    BY Zenon DEF Init
  <2>2. (mtime_q > 0) \in BOOLEAN
    OBVIOUS
  <2> QED
    BY <2>1, <2>2, Zenon
<1>4. mtimecmp_q = 0 /\ high \in [{"main", "isr"} -> 0 .. Half - 1]
      /\ low \in [{"main", "isr"} -> 0 .. Half - 1]
  BY <1>2 DEF Init
<1>5. TypeOK
  BY <1>2, <1>3, <1>4 DEF Init, TypeOK, TimerTypeOK
<1>6. pc = [main |-> "call", isr |-> "none"] /\ mie = FALSE
  BY DEF Init
<1>7. PcInv /\ running = "main" /\ pc["main"] = "call"
  BY <1>6 DEF PcInv, running, Reading, Armed, Enabled
<1>8. ReadInv
  BY <1>7 DEF ReadInv, at
<1>9. time_elapsed = 0 /\ began = 0 /\ target = 0 /\ ms = 0 /\ timeout = 0 /\ mtime_q \in Nat
  BY <1>1 DEF Init
<1>10. TickInv
  BY <1>7, <1>9 DEF TickInv, Reading, Armed
<1> QED
  BY <1>5, <1>7, <1>8, <1>10 DEF Inv

LEMMA StepInv == Inv /\ [Next]_vars => Inv'
<1> SUFFICES ASSUME Inv, [Next]_vars PROVE Inv'
  OBVIOUS
<1>1. CASE UNCHANGED vars
  <2>1. UNCHANGED <<mtime_q, mtimecmp_q, interrupt_q, pc, high, low, time_elapsed, mie, timeout,
                    ms, target, began>>
    BY <1>1 DEF vars, timervars, swvars
  <2>2. TypeOK' = TypeOK
    BY <2>1, Zenon DEF TypeOK, TimerTypeOK
  <2>3. PcInv' = PcInv
    BY <2>1, Zenon DEF PcInv
  <2>4. ReadInv' = ReadInv
    BY <2>1, Zenon DEF ReadInv, From, at, running, new_time
  <2>5. TickInv' = TickInv
    BY <2>1, Zenon DEF TickInv, ArmedInv, Compared, Tick
  <2> QED
    BY <2>2, <2>3, <2>4, <2>5, Zenon DEF Inv
<1>2. CASE Next
  <2>1. CASE Lives /\ (Instruction \/ Interrupt \/ Idle)
    BY <2>1, TypeStep, PcStep, ReadStep, TickStep DEF Inv
  <2>2. CASE Done
    BY <1>1, <2>2 DEF Done
  <2> QED
    BY <1>2, <2>1, <2>2 DEF Next
<1> QED
  BY <1>1, <1>2

LEMMA AlwaysInv == Spec => []Inv
  BY InitInv, StepInv, PTL DEF Spec
---------------------------------------------------------------------------
(* Every variable of timer.sv and of the driver keeps its type: the compare*)
(* time never runs over its 64 bits, so that no half is cut off.           *)
THEOREM TypeCorrect == Spec => []TypeOK
<1>1. Inv => TypeOK
  BY DEF Inv
<1> QED
  BY <1>1, AlwaysInv, PTL

(* Whenever simple_timer_handler is entered, the time that timecmp_update  *)
(* last armed has passed: the comparator never fires on one old and one new*)
(* half.                                                                   *)
THEOREM TickNeverEarly == Spec => []NoEarlyTick
<1>1. Inv => NoEarlyTick
  <2> SUFFICES ASSUME Inv, TakesInterrupt PROVE mtime_q >= target
    BY DEF NoEarlyTick
  <2>1. pc["isr"] = "none" /\ pc["main"] \in Armed /\ interrupt_q
    BY DEF Inv, PcInv, TakesInterrupt, running, Enabled
  <2>2. Compared
    BY <2>1 DEF Inv, TickInv, ArmedInv, Reading
  <2> QED
    BY <2>1, <2>2, Zenon DEF Compared
<1> QED
  BY <1>1, AlwaysInv, PTL

(* What timer_read returns, in the program or in the handler, is the time  *)
(* at some cycle of the delay, no earlier than its call.                   *)
THEOREM ReadAlwaysGenuine == Spec => []ReadIsGenuine
<1>1. Inv => ReadIsGenuine
  <2> SUFFICES ASSUME Inv, at("write_ones")
               PROVE  Join(high[running], low[running]) \in began .. mtime_q
    BY DEF ReadIsGenuine
  <2>1. Join(high[running], low[running]) \in From .. mtime_q
    BY DEF Inv, ReadInv
  <2>2. mtime_q \in Nat /\ began \in Nat /\ time_elapsed \in Nat
    BY HalfAssumption DEF Inv, TypeOK, TimerTypeOK, Time, TickInv
  <2>3. From \in Nat /\ From >= began
    <3>1. CASE running = "main"
      BY <2>2, <3>1 DEF From
    <3>2. CASE running = "isr"
      <4>1. pc["isr"] \in Reading /\ pc["main"] \in Armed
        BY <3>2 DEF Inv, PcInv, at, Reading, Enabled, running
      <4>2. target \in Nat /\ target >= Tick(time_elapsed + 1)
        BY <4>1 DEF Inv, TickInv, ArmedInv, Reading
      <4>3. Tick(time_elapsed + 1) \in Nat /\ Tick(time_elapsed + 1) >= began
        <5>1. time_elapsed + 1 \in Nat /\ 0 \in Nat /\ 0 <= time_elapsed + 1 /\ began + 0 * TimeBase = began
          BY <2>2, DelayAssumption
        <5> QED
          BY <2>2, <5>1, LaterTick, NextTick
      <4> QED
        BY <2>2, <3>2, <4>2, <4>3 DEF From
    <3> QED
      BY <3>1, <3>2 DEF running
  <2> QED
    BY <2>1, <2>2, <2>3
<1> QED
  BY <1>1, AlwaysInv, PTL

(* timer_delay(ms) returns no earlier than ms whole ticks after its call,  *)
(* whatever is left in the compare register and however late each handler  *)
(* runs.                                                                   *)
THEOREM DelayNeverShort == Spec => []DelayNotShort
<1>1. Inv => DelayNotShort
  <2> SUFFICES ASSUME Inv, at("disable") PROVE mtime_q - began >= ms * TimeBase
    BY DEF DelayNotShort
  <2>1. pc["main"] = "disable" /\ pc["isr"] = "none"
    BY DEF Inv, PcInv, at, running, Reading
  <2>2. /\ mtime_q \in Nat /\ began \in Nat /\ time_elapsed \in Nat /\ ms \in Nat /\ timeout \in Nat
    BY HalfAssumption DEF Inv, TypeOK, TimerTypeOK, Time, TickInv
  <2>3. mtime_q >= Tick(time_elapsed) /\ time_elapsed >= timeout /\ timeout >= ms
    BY <2>1 DEF Inv, TickInv, ArmedInv, Armed, Reading
  <2>4. ms <= time_elapsed
    BY <2>2, <2>3
  <2>5. began + ms * TimeBase <= Tick(time_elapsed) /\ Tick(time_elapsed) \in Nat
    BY <2>2, <2>4, LaterTick, NextTick
  <2>6. ms * TimeBase \in Nat
    BY <2>2, DelayAssumption
  <2> QED
    BY <2>2, <2>3, <2>5, <2>6
<1> QED
  BY <1>1, AlwaysInv, PTL
=============================================================================
