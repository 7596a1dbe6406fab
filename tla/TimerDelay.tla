----------------------------- MODULE TimerDelay -----------------------------
(***************************************************************************)
(* timer.c and its main user, timer_delay of the LCD demo: the program     *)
(* arms the timer, sleeps, and an interrupt handler counts the ticks and   *)
(* arms the timer again from the current time.  The program and the handler*)
(* run the same timer_read and timecmp_update, one device access per step. *)
(***************************************************************************)
EXTENDS Timer

CONSTANTS TimeBase,    \* cycles per tick: SYSCLK_FREQ / 1000
          Millis,      \* the delays the program may ask for, in ticks
          Calls,       \* bound: how many delays one after the other
          MaxStall,    \* bound: cycles in which the program does not get on, in all
          Start        \* bound: mtime when the program starts is at most this

ASSUME DelayAssumption == /\ TimeBase \in Nat \ {0} /\ Millis \subseteq Nat
                          /\ {Calls, MaxStall, Start} \subseteq Nat /\ Start < Half * Half

VARIABLES pc,             \* next step of "main" and of "isr"
          high, low,      \* locals of timer_read, of either
          time_elapsed,   \* volatile, counted by the handler
          mie,            \* mie.TIMER (mstatus.MIE is off in the handler only)
          timeout, ms,    \* locals of timer_delay
          calls,          \* delays made so far
          stall,          \* cycles lost so far
          target,         \* history: new_time of the last timecmp_update
          began           \* history: mtime when the delay was called

swvars == <<pc, high, low, time_elapsed, mie, timeout, ms, calls, target, began>>
vars == <<timervars, swvars, stall>>

(* The handler, once entered, runs to its end                              *)
running == IF pc["isr"] = "none" THEN "main" ELSE "isr"
at(step) == pc[running] = step
goto(step) == pc' = [pc EXCEPT ![running] = step]
---------------------------------------------------------------------------
Init == /\ mtime_q \in 0 .. Start /\ mtimecmp_q = 0 /\ interrupt_q = (mtime_q > 0)
        /\ pc = [main |-> "call", isr |-> "none"]
        /\ high = [main |-> 0, isr |-> 0] /\ low = [main |-> 0, isr |-> 0]
        /\ time_elapsed = 0 /\ mie = FALSE /\ timeout = 0 /\ ms = 0
        /\ calls = 0 /\ stall = 0 /\ target = 0 /\ began = 0

Edge(w) == TimerClock(w) /\ UNCHANGED stall

(* timer_delay, timer_enable up to the call of increment_timecmp           *)
Call == /\ at("call") /\ running = "main" /\ calls < Calls
        /\ ms' \in Millis
        /\ calls' = calls + 1 /\ began' = mtime_q
        /\ time_elapsed' = 0
        /\ goto("read_high")
        /\ Edge(NoWrite)
        /\ UNCHANGED <<high, low, mie, timeout, target>>

(* timer_read                                                              *)
ReadHigh == /\ at("read_high")
            /\ high' = [high EXCEPT ![running] = TimerRead("MTIMEH")]
            /\ goto("read_low")
            /\ Edge(NoWrite)
            /\ UNCHANGED <<low, time_elapsed, mie, timeout, ms, calls, target, began>>

ReadLow == /\ at("read_low")
           /\ low' = [low EXCEPT ![running] = TimerRead("MTIME")]
           /\ goto("read_again")
           /\ Edge(NoWrite)
           /\ UNCHANGED <<high, time_elapsed, mie, timeout, ms, calls, target, began>>

SameHigh_NotChecked == TRUE
SameHigh == high[running] = TimerRead("MTIMEH")

ReadAgain == /\ at("read_again")
             /\ goto(IF SameHigh THEN "write_ones" ELSE "read_high")
             /\ Edge(NoWrite)
             /\ UNCHANGED <<high, low, time_elapsed, mie, timeout, ms, calls, target, began>>

(* timecmp_update                                                          *)
new_time == Join(high[running], low[running]) + TimeBase

CmpLowOnes == /\ at("write_ones")
              /\ goto("write_high")
              /\ Edge(Write("MTIMECMP", AllOnes))
              /\ UNCHANGED <<high, low, time_elapsed, mie, timeout, ms, calls, target, began>>

CmpHigh == /\ at("write_high")
           /\ goto("write_low")
           /\ Edge(Write("MTIMECMPH", High(new_time)))
           /\ UNCHANGED <<high, low, time_elapsed, mie, timeout, ms, calls, target, began>>

AfterUpdate == IF running = "isr" THEN "count" ELSE "enable"

CmpLow == /\ at("write_low")
          /\ goto(AfterUpdate)
          /\ Edge(Write("MTIMECMP", Low(new_time)))
          /\ target' = new_time
          /\ UNCHANGED <<high, low, time_elapsed, mie, timeout, ms, calls, began>>

(* the end of simple_timer_handler, and mret                               *)
Count == /\ at("count")
         /\ time_elapsed' = time_elapsed + 1
         /\ goto("none")
         /\ Edge(NoWrite)
         /\ UNCHANGED <<high, low, mie, timeout, ms, calls, target, began>>

(* the rest of timer_enable and of timer_delay                             *)
Enable_StillMasked == /\ at("enable")
                      /\ goto("timeout")
                      /\ Edge(NoWrite)
                      /\ UNCHANGED <<high, low, time_elapsed, mie, timeout, ms, calls, target, began>>
Enable == /\ at("enable")
          /\ mie' = TRUE
          /\ goto("timeout")
          /\ Edge(NoWrite)
          /\ UNCHANGED <<high, low, time_elapsed, timeout, ms, calls, target, began>>

Timeout == /\ at("timeout")
           /\ timeout' = time_elapsed + ms
           /\ goto("check")
           /\ Edge(NoWrite)
           /\ UNCHANGED <<high, low, time_elapsed, mie, ms, calls, target, began>>

TimedOut_OneEarly == time_elapsed + 1 >= timeout
TimedOut == time_elapsed >= timeout

Check == /\ at("check")
         /\ goto(IF ~TimedOut THEN "wfi" ELSE "disable")
         /\ Edge(NoWrite)
         /\ UNCHANGED <<high, low, time_elapsed, mie, timeout, ms, calls, target, began>>

Wfi == /\ at("wfi")
       /\ goto("asleep")
       /\ Edge(NoWrite)
       /\ UNCHANGED <<high, low, time_elapsed, mie, timeout, ms, calls, target, began>>

Disable == /\ at("disable")
           /\ mie' = FALSE
           /\ goto("call")
           /\ Edge(NoWrite)
           /\ UNCHANGED <<high, low, time_elapsed, timeout, ms, calls, target, began>>

(* The interrupt is taken between two instructions; it also ends a sleep.  *)
(* An interrupt just before wfi returns to the wfi.                        *)
TakesInterrupt == mie /\ interrupt_q /\ running = "main"

Interrupt == /\ TakesInterrupt
             /\ pc' = [main |-> IF pc["main"] = "asleep" THEN "check" ELSE pc["main"],
                       isr  |-> "read_high"]
             /\ Edge(NoWrite)
             /\ UNCHANGED <<high, low, time_elapsed, mie, timeout, ms, calls, target, began>>

Instruction == \/ Call \/ ReadHigh \/ ReadLow \/ ReadAgain
               \/ CmpLowOnes \/ CmpHigh \/ CmpLow \/ Count
               \/ Enable \/ Timeout \/ Check \/ Wfi \/ Disable

Sleeping == at("asleep")
Finished == at("call") /\ calls = Calls

(* A cycle in which the program does not get on: a slower instruction, at  *)
(* most MaxStall times, or a sleeping processor                            *)
Idle == /\ ~Finished
        /\ IF Sleeping THEN ~TakesInterrupt /\ UNCHANGED stall
           ELSE stall < MaxStall /\ stall' = stall + 1
        /\ TimerClock(NoWrite)
        /\ UNCHANGED swvars

Done == Finished /\ UNCHANGED vars

(* Bound: neither mtime nor the next compare value runs over, as 2^64      *)
(* cycles are more than the system lives                                   *)
Lives == mtime_q + TimeBase < Half * Half

Next == /\ Lives
        /\ \/ ~TakesInterrupt /\ Instruction
           \/ Interrupt
           \/ Idle
           \/ Done

Spec == Init /\ [][Next]_vars /\ WF_vars(Next)
---------------------------------------------------------------------------
TypeOK == /\ TimerTypeOK
          /\ {high, low} \subseteq [{"main", "isr"} -> 0 .. Half - 1]
          /\ time_elapsed \in Nat /\ mie \in BOOLEAN

(* timecmp_update never lets the comparator see a mixture of the old and   *)
(* the new halves as a time that has come: the handler is entered only     *)
(* when the time last armed has passed.                                    *)
NoEarlyTick == TakesInterrupt => mtime_q >= target

(* timer_read returns a time between its call and its return, although the *)
(* two halves are read in different cycles.                                *)
ReadIsGenuine == at("write_ones") => Join(high[running], low[running]) \in began .. mtime_q

(* A delay of n ticks takes at least n whole ticks: no tick left over from *)
(* an earlier delay, from reset or from a half-written compare register is *)
(* counted.                                                                *)
DelayNotShort == at("disable") => mtime_q - began >= ms * TimeBase

(* Every delay returns, although a tick between the test of time_elapsed   *)
(* and wfi does not wake the wfi; the handler has armed the next one.      *)
DelayReturns == (pc["main"] # "call") ~> (pc["main"] = "call")
=============================================================================
