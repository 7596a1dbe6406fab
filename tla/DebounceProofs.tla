--------------------------- MODULE DebounceProofs ---------------------------
(***************************************************************************)
(* The two places of the debouncer.  In rst_ctrl.sv it stands between the  *)
(* reset button and the reset: what is promised about every reset, for     *)
(* every length of its phases and of the debouncing, whatever the PLL and  *)
(* the button do.  In gpio.sv it stands between a pin and main: the LEDs   *)
(* walk and restart as the debounced button says, and the PWM output is    *)
(* high as long as its registers say, for every debounce time, width of    *)
(* the registers and position of the LEDs.                                 *)
(***************************************************************************)
EXTENDS RstCtrl, Pins, TLAPS

(* Out of reset the counter is at rest or on its way to phase 1; in it, it *)
(* has counted no further than the cycles of this reset, and stands still  *)
(* while the button is held.                                               *)
CounterInv == /\ rst_n_q => low = 0 /\ (reset_counter_q <= ResetPhase0Count
                                        \/ reset_counter_q = ResetPhase1Count)
              /\ ~rst_n_q => \/ low = LockLost
                             \/ low \in 1 .. Phase1Length /\ reset_counter_q <= ResetPhase0Count + low
                                /\ reset_counter_q >= ResetPhase0Count
              /\ byButton => ~rst_n_q /\ btn_q /\ reset_counter_q = ResetPhase0Count

(* The debouncer has counted no cycle in which its input was different     *)
DebounceInv == rst_btn # btn_q => held > cnt_q

RstInv == RstTypeOK /\ CounterInv /\ DebounceInv
---------------------------------------------------------------------------
LEMMA RstInitInv == RstInit => RstInv
<1> SUFFICES ASSUME RstInit PROVE RstInv
  OBVIOUS
<1> USE ClkCountAssumption, PhaseAssumption DEF RstInit
<1>1. RstTypeOK
  <2>1. /\ rst_n_q \in BOOLEAN /\ debounce_rst_n_q \in BOOLEAN /\ pll_locked \in BOOLEAN
        /\ rst_btn \in BOOLEAN /\ byButton \in BOOLEAN
    BY Zenon
  <2>2. cnt_q \in 0 .. ClkCount
    BY DEF DebounceInit
  <2>3. btn_q \in BOOLEAN
    BY Zenon DEF DebounceInit
  <2>4. reset_counter_q \in 0 .. ResetPhase1Count /\ held \in 1 .. MostHeld /\ low \in 0 .. LockLost
    BY DEF MostHeld, LockLost, Phase1Length
  <2> QED
    BY <2>1, <2>2, <2>3, <2>4 DEF RstTypeOK, DebounceTypeOK
<1>2. CounterInv
  <2>1. rst_n_q /\ ~byButton
    BY Zenon
  <2> QED
    BY <2>1 DEF CounterInv
<1>3. DebounceInv
  BY DEF DebounceInit, DebounceInv
<1> QED
  BY <1>1, <1>2, <1>3 DEF RstInv

(* The registers, and the history variable whose value is a condition      *)
LEMMA ByButtonStep ==
  ASSUME History
  PROVE  /\ byButton' \in BOOLEAN
         /\ byButton' => (byButton \/ (rst_n_q /\ ~rst_n_q' /\ btn_q)) /\ rst_btn
<1>1. byButton' = ((byButton \/ (rst_n_q /\ ~rst_n_q' /\ btn_q)) /\ rst_btn)
  BY Zenon DEF History
<1> QED
  BY <1>1

LEMMA ResetStep ==
  ASSUME Clock
  PROVE  /\ rst_n_q' <=> rst_n_d
         /\ debounce_rst_n_q' <=> debounce_rst_n_d
         /\ reset_counter_q' = reset_counter_d
         /\ rst_n_q' \in BOOLEAN /\ debounce_rst_n_q' \in BOOLEAN
<1>1. rst_n_d \in BOOLEAN /\ debounce_rst_n_d \in BOOLEAN
  BY Zenon DEF rst_n_d, debounce_rst_n_d
<1> QED
  BY <1>1, Zenon DEF Clock

LEMMA ButtonStep ==
  ASSUME Clock
  PROVE  /\ \/ cnt_q' = 0
            \/ /\ cnt_q' = cnt_q + 1 /\ ~(cnt_q >= ClkCount)
               /\ rst_btn # btn_q /\ btn_q' = btn_q
         /\ btn_q' = IF debounce_rst_n_q' THEN btn_d(rst_btn) ELSE FALSE
  BY Zenon DEF Clock, DebounceClock, DebounceReset, cnt_d, btn_d

LEMMA RstStepType == RstTypeOK /\ RstNext => RstTypeOK'
<1> SUFFICES ASSUME RstTypeOK, RstNext PROVE RstTypeOK'
  OBVIOUS
<1> USE ClkCountAssumption, PhaseAssumption
<1>1. DebounceTypeOK'
  <2>1. cnt_q' \in 0 .. ClkCount
    <3>1. cnt_q' = 0 \/ (cnt_q' = cnt_q + 1 /\ ~(cnt_q >= ClkCount))
      BY ButtonStep, Zenon DEF RstNext
    <3> QED
      BY <3>1 DEF RstTypeOK, DebounceTypeOK
  <2>2. btn_q' \in BOOLEAN
    BY ButtonStep, Zenon DEF RstTypeOK, RstNext, DebounceTypeOK, btn_d
  <2> QED
    BY <2>1, <2>2 DEF DebounceTypeOK
<1>2. reset_counter_q' \in 0 .. ResetPhase1Count
  BY ResetStep DEF RstTypeOK, RstNext, reset_counter_d, Counted
<1>3. rst_n_q' \in BOOLEAN /\ debounce_rst_n_q' \in BOOLEAN
  BY ResetStep DEF RstNext
<1>4. pll_locked' \in BOOLEAN /\ rst_btn' \in BOOLEAN /\ byButton' \in BOOLEAN
  BY ByButtonStep, Zenon DEF RstNext, Inputs
<1>5. held' \in 1 .. MostHeld
  BY DEF RstTypeOK, RstNext, History, MostHeld
<1>6. low' \in 0 .. LockLost
  BY DEF RstTypeOK, RstNext, History, LockLost, Phase1Length
<1> QED
  BY <1>1, <1>2, <1>3, <1>4, <1>5, <1>6 DEF RstTypeOK

LEMMA StepCounter == RstInv /\ RstNext => CounterInv'
<1> SUFFICES ASSUME RstInv, RstNext PROVE CounterInv'
  OBVIOUS
<1> USE ClkCountAssumption, PhaseAssumption
<1>1. rst_n_q' => low' = 0 /\ (reset_counter_q' <= ResetPhase0Count
                               \/ reset_counter_q' = ResetPhase1Count)
  BY ResetStep DEF RstInv, RstTypeOK, RstNext, History, rst_n_d, reset_counter_d, Counted
<1>2. ~rst_n_q' => \/ low' = LockLost
                   \/ /\ low' \in 1 .. Phase1Length
                      /\ reset_counter_q' <= ResetPhase0Count + low'
                      /\ reset_counter_q' >= ResetPhase0Count
  BY ResetStep
  DEF RstInv, RstTypeOK, CounterInv, RstNext, History, rst_n_d, reset_counter_d, Counted, LockLost, Phase1Length
<1>3. ASSUME byButton'
      PROVE  ~rst_n_q' /\ btn_q' /\ reset_counter_q' = ResetPhase0Count
  <2>1. rst_btn /\ btn_q /\ reset_counter_q = ResetPhase0Count
    BY <1>3, ByButtonStep, ResetStep DEF RstInv, RstTypeOK, CounterInv, RstNext, rst_n_d
  <2>2. ~rst_n_q' /\ reset_counter_q' = ResetPhase0Count
    BY <2>1, ResetStep DEF RstNext, rst_n_d, reset_counter_d, rst_btn_debounce
  <2>3. debounce_rst_n_q'
    BY <2>1, ResetStep DEF RstNext, debounce_rst_n_d
  <2>4. btn_q'
    BY <2>1, <2>3, ButtonStep DEF RstNext, btn_d
  <2> QED
    BY <2>2, <2>4
<1> QED
  BY <1>1, <1>2, <1>3 DEF CounterInv

LEMMA StepDebounce == RstInv /\ RstNext => DebounceInv'
<1> SUFFICES ASSUME RstInv, RstNext, rst_btn' # btn_q' PROVE held' > cnt_q'
  BY DEF DebounceInv
<1> USE ClkCountAssumption
<1>1. RstTypeOK'
  BY RstStepType DEF RstInv
<1>2. CASE cnt_q' = 0
  BY <1>1, <1>2 DEF RstTypeOK
<1>3. CASE cnt_q' # 0
  <2>1. cnt_q' = cnt_q + 1 /\ rst_btn # btn_q /\ btn_q' = btn_q /\ ~(cnt_q >= ClkCount)
    BY <1>3, ButtonStep, Zenon DEF RstNext
  <2>2. rst_btn' = rst_btn
    BY <2>1, <1>1 DEF RstInv, RstTypeOK, DebounceTypeOK
  <2> QED
    BY <2>1, <2>2 DEF RstInv, RstTypeOK, DebounceTypeOK, DebounceInv, RstNext, History, MostHeld
<1> QED
  BY <1>2, <1>3

LEMMA RstStepInv == RstInv /\ [RstNext]_rstvars => RstInv'
<1> SUFFICES ASSUME RstInv, [RstNext]_rstvars PROVE RstInv'
  OBVIOUS
<1>1. CASE RstNext
  BY <1>1, RstStepType, StepCounter, StepDebounce DEF RstInv
<1>2. CASE UNCHANGED rstvars
  BY <1>2 DEF rstvars, registers, debouncevars, RstInv, RstTypeOK, DebounceTypeOK, CounterInv, DebounceInv,
              MostHeld
<1> QED
  BY <1>1, <1>2

LEMMA RstAlwaysInv == RstSpec => []RstInv
  BY RstInitInv, RstStepInv, PTL DEF RstSpec
---------------------------------------------------------------------------
(* Counters stay within their ranges (rst_ctrl.sv:75-90, debounce.sv).     *)
THEOREM RstTypeCorrect == RstSpec => []RstTypeOK
<1>1. RstInv => RstTypeOK
  BY DEF RstInv
<1> QED
  BY <1>1, RstAlwaysInv, PTL

(* Every reset that is not cut short by the PLL lasts all of phase 1       *)
(* (rst_ctrl.sv:12-17).                                                    *)
THEOREM EveryResetLastsPhase1 == RstSpec => ResetLastsPhase1
<1>1. RstInv /\ [RstNext]_rstvars => [~rst_n_q /\ rst_n_q' => low >= Phase1Length]_rstvars
  <2> SUFFICES ASSUME RstInv, RstNext, ~rst_n_q, rst_n_q' PROVE low >= Phase1Length
    OBVIOUS
  <2> QED
    BY PhaseAssumption, ResetStep DEF RstInv, RstTypeOK, CounterInv, RstNext, rst_n_d, LockLost, Phase1Length
<1> QED
  BY <1>1, RstAlwaysInv, PTL DEF RstSpec, ResetLastsPhase1

(* No reset without a press that lasted (rst_ctrl.sv:23, debounce.sv).     *)
THEOREM ButtonAlwaysDebounced == RstSpec => ButtonDebounced
<1>1. RstInv /\ [RstNext]_rstvars => [~btn_q /\ btn_q' => rst_btn /\ held > ClkCount]_rstvars
  <2> SUFFICES ASSUME RstInv, RstNext, ~btn_q, btn_q' PROVE rst_btn /\ held > ClkCount
    OBVIOUS
  <2>1. cnt_q >= ClkCount /\ rst_btn
    BY ButtonStep DEF RstNext, btn_d
  <2>2. held > cnt_q
    BY <2>1, Zenon DEF RstInv, RstTypeOK, DebounceTypeOK, DebounceInv
  <2>3. cnt_q \in Nat /\ held \in Nat /\ ClkCount \in Nat
    BY ClkCountAssumption DEF RstInv, RstTypeOK, DebounceTypeOK, MostHeld
  <2> QED
    BY <2>1, <2>2, <2>3
<1> QED
  BY <1>1, RstAlwaysInv, PTL DEF RstSpec, ButtonDebounced

(* The reset of the system never resets the debouncer under the button     *)
(* that asked for it (rst_ctrl.sv:19-21, 104-107).                         *)
THEOREM AlwaysHeldByButton == RstSpec => HeldByButton
<1>1. RstInv /\ [RstNext]_rstvars => [~rst_n_q /\ rst_n_q' => ~byButton]_rstvars
  <2> SUFFICES ASSUME RstInv, RstNext, rst_n_q', byButton PROVE FALSE
    OBVIOUS
  <2> QED
    BY PhaseAssumption, ResetStep DEF RstInv, CounterInv, RstNext, rst_n_d
<1> QED
  BY <1>1, RstAlwaysInv, PTL DEF RstSpec, HeldByButton
---------------------------------------------------------------------------
(* The debounced pin is the last level held for long enough; the counter   *)
(* counts the cycles since the pin has been different                      *)
LevelInv == /\ btn_q = level
            /\ gp_i_q[Stages] # btn_q => cnt_q = run - 1

(* What main has read is still what it was when it is written back         *)
LedsInv ==
  /\ pc \in {"reset_leds", "tick", "in_val", "leds", "out_val", "set_leds", "set_counter", "set_width"}
  /\ pc = "reset_leds" => gp_o = {}
  /\ pc = "in_val" => gp_i_dbnc_rd_en_q
  /\ pc \in {"leds", "out_val", "set_leds"} => in_val = BTN0(seen)
  /\ pc = "out_val" => ~gp_i_dbnc_rd_en_q /\ ~gp_i_rd_en_q
  /\ pc = "set_leds" => out_val = NextLeds(gp_o, seen)

(* The brightness turns round before it leaves its range                   *)
FadeInv == IF ascending THEN brightness < FullBrightness ELSE brightness > 0

(* The counter is inside its period, and highs is what DutyCycle says      *)
PeriodInv == /\ settled => counter_q # 0 /\ counter <= counter_q
             /\ ~settled => highs = 0
             /\ DutyCycle

Inv == TypeOK /\ LevelInv /\ LedsInv /\ FadeInv /\ PeriodInv
---------------------------------------------------------------------------
(* One clock edge of the GPIO, whatever is on the bus                      *)
LEMMA LevelStep ==
  ASSUME TypeOK, LevelInv, NEW req, NEW gp_i \in BOOLEAN, GpioClock(req, gp_i), GpioHistory
  PROVE  /\ DebounceTypeOK' /\ gp_i_q' \in [1 .. Stages -> BOOLEAN]
         /\ gp_i_rd_en_q' \in BOOLEAN /\ gp_i_dbnc_rd_en_q' \in BOOLEAN
         /\ run' \in 1 .. ClkCount + 1 /\ level' \in BOOLEAN
         /\ LevelInv'
<1> DEFINE pin == gp_i_q[Stages]
<1>1. /\ pin \in BOOLEAN /\ btn_q \in BOOLEAN /\ level \in BOOLEAN /\ btn_q = level
      /\ cnt_q \in 0 .. ClkCount /\ run \in 1 .. ClkCount + 1 /\ ClkCount \in Nat
  BY ClkCountAssumption DEF TypeOK, GpioTypeOK, DebounceTypeOK, Stages, LevelInv
<1>2. pin # btn_q => cnt_q = run - 1
  BY DEF LevelInv
<1>3. gp_i_q' \in [1 .. Stages -> BOOLEAN]
  <2>1. gp_i_q' = [s \in 1 .. Stages |-> IF s = 1 THEN gp_i ELSE gp_i_q[s - 1]]
    BY DEF GpioClock
  <2>2. ASSUME NEW s \in 1 .. Stages PROVE (IF s = 1 THEN gp_i ELSE gp_i_q[s - 1]) \in BOOLEAN
    BY DEF TypeOK, GpioTypeOK, Stages
  <2> QED
    BY <2>1, <2>2
<1>4. gp_i_q'[Stages] \in BOOLEAN
  BY <1>3 DEF Stages
<1>5. gp_i_rd_en_q' \in BOOLEAN /\ gp_i_dbnc_rd_en_q' \in BOOLEAN
  BY Zenon DEF GpioClock, gp_i_rd_en_d, gp_i_dbnc_rd_en_d
<1>6. /\ cnt_q' = IF pin = btn_q \/ cnt_q >= ClkCount THEN 0 ELSE cnt_q + 1
      /\ btn_q' = IF cnt_q >= ClkCount THEN pin ELSE btn_q
  BY Zenon DEF GpioClock, DebounceClock, cnt_d, btn_d
<1>7. /\ run' = IF gp_i_q'[Stages] # pin THEN 1 ELSE IF run > ClkCount THEN run ELSE run + 1
      /\ level' = IF run > ClkCount THEN pin ELSE level
  BY Zenon DEF GpioHistory
<1> HIDE DEF pin
<1>8. run' \in 1 .. ClkCount + 1 /\ cnt_q' \in 0 .. ClkCount
  BY <1>1, <1>6, <1>7
<1>9. /\ (run > ClkCount) \in BOOLEAN /\ (cnt_q >= ClkCount) \in BOOLEAN
      /\ pin # btn_q => ((run > ClkCount) <=> (cnt_q >= ClkCount))
  BY <1>1, <1>2
<1>10. btn_q' = level' /\ btn_q' \in BOOLEAN
  BY <1>1, <1>6, <1>7, <1>9, Zenon
<1>11. gp_i_q'[Stages] # btn_q' => cnt_q' = run' - 1
  <2>1. CASE pin = btn_q
    <3>1. btn_q' = btn_q /\ cnt_q' = 0
      BY <1>6, <2>1, Zenon
    <3>2. gp_i_q'[Stages] # btn_q' => run' = 1
      BY <1>7, <2>1, <3>1, Zenon
    <3> QED
      BY <3>1, <3>2
  <2>2. CASE pin # btn_q /\ cnt_q >= ClkCount
    <3>1. btn_q' = pin /\ cnt_q' = 0
      BY <1>6, <2>2, Zenon
    <3>2. gp_i_q'[Stages] # btn_q' => run' = 1
      BY <1>7, <3>1, Zenon
    <3> QED
      BY <3>1, <3>2
  <2>3. CASE pin # btn_q /\ ~(cnt_q >= ClkCount)
    <3>1. btn_q' = btn_q /\ cnt_q' = cnt_q + 1
      BY <1>6, <2>3, Zenon
    <3>2. gp_i_q'[Stages] # btn_q' => gp_i_q'[Stages] = pin
      BY <1>1, <1>4, <2>3, <3>1, Zenon
    <3>3. gp_i_q'[Stages] # btn_q' => run' = run + 1
      BY <1>7, <1>9, <2>3, <3>2, Zenon
    <3> QED
      BY <1>1, <1>2, <2>3, <3>1, <3>3
  <2> QED
    BY <2>1, <2>2, <2>3
<1>12. (gp_i_q[Stages])' = gp_i_q'[Stages]
  BY DEF Stages
<1> QED
  BY <1>3, <1>5, <1>8, <1>10, <1>11, <1>12, <1>7, <1>1, Zenon DEF DebounceTypeOK, LevelInv
---------------------------------------------------------------------------
(* One clock edge of the PWM: the cycles it has been high                  *)
PwmData(req) == req.we /\ req.reg \in {"counter", "pulse_width"} => req.wdata \in Int

LEMMA PeriodStep ==
  ASSUME TypeOK, PeriodInv, NEW req, PwmData(req), PwmClock(req), PwmHistory
  PROVE  /\ PwmTypeOK' /\ settled' \in BOOLEAN /\ highs' \in 0 .. CtrSize
         /\ PeriodInv'
<1>1. /\ counter_q \in 0 .. CtrSize - 1 /\ pulse_width_q \in 0 .. CtrSize - 1
      /\ counter \in 0 .. CtrSize - 1 /\ highs \in 0 .. CtrSize /\ CtrSize \in Nat \ {0}
  BY CtrSizeAssumption DEF TypeOK, PwmTypeOK, PwmValue
<1>2. /\ settled => counter_q # 0 /\ counter <= counter_q
      /\ settled => highs = IF pulse_width_q < (IF counter = 0 THEN counter_q + 1 ELSE counter)
                            THEN pulse_width_q ELSE (IF counter = 0 THEN counter_q + 1 ELSE counter)
  BY DEF PeriodInv, DutyCycle
<1>3. ASSUME NEW reg \in {"counter", "pulse_width"}, NEW old \in 0 .. CtrSize - 1
      PROVE  Written(req, reg, old) \in 0 .. CtrSize - 1
  <2>1. CASE req.we /\ req.reg = reg
    <3>1. req.wdata \in Int
      BY <2>1 DEF PwmData
    <3>2. req.wdata % CtrSize \in 0 .. CtrSize - 1
      BY <1>1, <3>1
    <3> QED
      BY <2>1, <3>2, Zenon DEF Written, data_d
  <2>2. CASE ~(req.we /\ req.reg = reg)
    BY <1>3, <2>2, Zenon DEF Written
  <2> QED
    BY <2>1, <2>2
<1>4. counter_q' \in 0 .. CtrSize - 1 /\ pulse_width_q' \in 0 .. CtrSize - 1
  BY <1>1, <1>3 DEF PwmClock
<1>5. counter_q = 0 => counter' = 0 /\ modulated_o' = FALSE
  BY Zenon DEF PwmClock
<1>6. counter_q # 0 => counter' = IF counter < counter_q THEN counter + 1 ELSE 0
  BY Zenon DEF PwmClock, Below
<1>7. /\ (pulse_width_q > counter) \in BOOLEAN
      /\ counter_q # 0 => modulated_o' = (pulse_width_q > counter)
  <2>1. counter_q # 0 => modulated_o' = (pulse_width_q > counter)
    BY Zenon DEF PwmClock, High
  <2>2. (pulse_width_q > counter) \in BOOLEAN
    BY <1>1
  <2> QED
    BY <2>1, <2>2, Zenon
<1>8. modulated_o' \in BOOLEAN /\ (counter_q # 0 => (modulated_o' <=> pulse_width_q > counter))
  BY <1>5, <1>7, Zenon
<1>9. counter' \in 0 .. CtrSize - 1
  BY <1>1, <1>5, <1>6
<1>10. PwmTypeOK'
  BY <1>4, <1>8, <1>9 DEF PwmTypeOK, PwmValue
<1>11. settled' = (/\ counter_q' = counter_q /\ pulse_width_q' = pulse_width_q
                   /\ counter_q # 0 /\ (settled \/ counter = 0))
  BY Zenon DEF PwmHistory
<1>12. settled' \in BOOLEAN
       /\ (settled' => /\ counter_q' = counter_q /\ pulse_width_q' = pulse_width_q
                       /\ counter_q # 0 /\ (settled \/ counter = 0))
  BY <1>11, Zenon
<1>13. ~settled' => highs' = 0
  BY Zenon DEF PwmHistory
<1>14. settled' => highs' = (IF counter = 0 THEN 0 ELSE highs)
                            + (IF pulse_width_q > counter THEN 1 ELSE 0)
  BY <1>8, <1>12, Zenon DEF PwmHistory
<1>15. ASSUME settled'
       PROVE  /\ counter_q' # 0 /\ counter' <= counter_q'
              /\ highs' \in 0 .. CtrSize
              /\ highs' = IF pulse_width_q' < (IF counter' = 0 THEN counter_q' + 1 ELSE counter')
                          THEN pulse_width_q' ELSE (IF counter' = 0 THEN counter_q' + 1 ELSE counter')
  <2>1. counter_q # 0 /\ counter_q' = counter_q /\ pulse_width_q' = pulse_width_q
        /\ counter <= counter_q
    BY <1>1, <1>2, <1>12, <1>15
  <2>2. counter # 0 => highs = IF pulse_width_q < counter THEN pulse_width_q ELSE counter
    BY <1>2, <1>12, <1>15
  <2>3. highs' = IF pulse_width_q < counter + 1 THEN pulse_width_q ELSE counter + 1
    <3>1. highs \in Nat /\ counter \in Nat /\ counter_q \in Nat /\ pulse_width_q \in Nat
      BY <1>1
    <3>2. highs' = (IF counter = 0 THEN 0 ELSE highs)
                   + (IF pulse_width_q > counter THEN 1 ELSE 0)
      BY <1>14, <1>15, Zenon
    <3>3. counter <= counter_q
      BY <2>1
    <3> QED
      BY <2>2, <3>1, <3>2, <3>3
  <2>4. counter + 1 = IF counter' = 0 THEN counter_q + 1 ELSE counter'
    <3>1. CASE counter < counter_q
      <4>1. counter' = counter + 1 /\ counter' # 0
        BY <1>1, <1>6, <2>1, <3>1
      <4> QED
        BY <4>1
    <3>2. CASE ~(counter < counter_q)
      <4>1. counter' = 0 /\ counter = counter_q
        BY <1>1, <1>6, <2>1, <3>2
      <4> QED
        BY <4>1
    <3> QED
      BY <3>1, <3>2
  <2>5. counter' <= counter_q
    BY <1>1, <1>6, <2>1
  <2>6. highs' \in 0 .. CtrSize
    BY <1>1, <2>3
  <2> QED
    BY <2>1, <2>3, <2>4, <2>5, <2>6
<1>16. highs' \in 0 .. CtrSize
  BY <1>1, <1>12, <1>13, <1>15
<1>17. PeriodInv'
  BY <1>13, <1>15, Zenon DEF PeriodInv, DutyCycle
<1> QED
  BY <1>10, <1>12, <1>16, <1>17
---------------------------------------------------------------------------
LEMMA InitInv == Init => Inv
<1> SUFFICES ASSUME Init PROVE Inv
  OBVIOUS
<1>1. GpioTypeOK
  <2>1. cnt_q \in 0 .. ClkCount
    BY ClkCountAssumption DEF Init, GpioInit, DebounceInit
  <2>2. btn_q \in BOOLEAN /\ gp_i_rd_en_q \in BOOLEAN /\ gp_i_dbnc_rd_en_q \in BOOLEAN
    BY Zenon DEF Init, GpioInit, DebounceInit
  <2>3. gp_i_q \in [1 .. Stages -> BOOLEAN] /\ gp_o \subseteq GpoBits
    BY DEF Init, GpioInit
  <2> QED
    BY <2>1, <2>2, <2>3, Zenon DEF GpioTypeOK, DebounceTypeOK
<1>2. PwmTypeOK
  <2>1. modulated_o \in BOOLEAN
    BY Zenon DEF Init, PwmInit
  <2>2. {counter_q, pulse_width_q, counter} \subseteq PwmValue
    BY CtrSizeAssumption DEF Init, PwmInit, PwmValue
  <2> QED
    BY <2>1, <2>2, Zenon DEF PwmTypeOK
<1>3. /\ brightness \in 0 .. FullBrightness /\ color \in 1 .. 7 /\ run \in 1 .. ClkCount + 1
      /\ highs \in 0 .. CtrSize
  BY PinsAssumption, ClkCountAssumption, CtrSizeAssumption DEF Init
<1>4. /\ ascending \in BOOLEAN /\ level \in BOOLEAN /\ seen \in BOOLEAN /\ settled \in BOOLEAN
      /\ in_val \subseteq {0} /\ out_val \subseteq GpoBits
  BY Zenon DEF Init
<1>5. TypeOK
  BY <1>1, <1>2, <1>3, <1>4, Zenon DEF TypeOK
<1>6. LevelInv
  <2>1. btn_q = level /\ gp_i_q[Stages] = btn_q
    <3>1. gp_i_q = [s \in 1 .. Stages |-> FALSE]
      BY DEF Init, GpioInit
    <3>2. ~btn_q /\ ~level /\ btn_q \in BOOLEAN /\ level \in BOOLEAN
      BY Zenon DEF Init, GpioInit, DebounceInit
    <3>3. ~gp_i_q[Stages] /\ gp_i_q[Stages] \in BOOLEAN
      BY <3>1 DEF Stages
    <3> QED
      BY <3>2, <3>3
  <2> QED
    BY <2>1, Zenon DEF LevelInv
<1>7. LedsInv
  <2>1. pc = "reset_leds" /\ gp_o = {}
    BY Zenon DEF Init, GpioInit
  <2> QED
    BY <2>1 DEF LedsInv
<1>8. FadeInv
  <2>1. ascending /\ brightness < FullBrightness
    BY PinsAssumption DEF Init
  <2> QED
    BY <2>1 DEF FadeInv
<1>9. PeriodInv
  <2>1. ~settled /\ highs = 0
    BY Zenon DEF Init
  <2> QED
    BY <2>1, Zenon DEF PeriodInv, DutyCycle
<1> QED
  BY <1>5, <1>6, <1>7, <1>8, <1>9 DEF Inv

(* The LEDs main writes are among those there are                          *)
LEMMA LedsInRange ==
  ASSUME NEW bits, NEW restart
  PROVE  NextLeds(bits, restart) \subseteq GpoBits
<1>1. First \subseteq GpoBits /\ LedMask \subseteq GpoBits
  BY PinsAssumption, GpoWidthAssumption DEF First, LedMask, GpoBits
<1> QED
  BY <1>1, Zenon DEF NextLeds, Shifted

LEMMA GpioStep ==
  ASSUME Inv, NEW req, Cycle(req), PwmData(req)
  PROVE  /\ GpioTypeOK' /\ PwmTypeOK' /\ LevelInv' /\ PeriodInv'
         /\ run' \in 1 .. ClkCount + 1 /\ level' \in BOOLEAN
         /\ settled' \in BOOLEAN /\ highs' \in 0 .. CtrSize
         /\ gp_o' = IF gp_o_wr_en(req) THEN req.wdata \cap GpoBits ELSE gp_o
         /\ gp_i_rd_en_q' = gp_i_rd_en_d(req) /\ gp_i_dbnc_rd_en_q' = gp_i_dbnc_rd_en_d(req)
<1>1. PICK gp_i \in BOOLEAN : GpioClock(req, gp_i)
  BY DEF Cycle
<1>2. PwmClock(req) /\ GpioHistory /\ PwmHistory
  BY DEF Cycle
<1>3. /\ DebounceTypeOK' /\ gp_i_q' \in [1 .. Stages -> BOOLEAN]
      /\ gp_i_rd_en_q' \in BOOLEAN /\ gp_i_dbnc_rd_en_q' \in BOOLEAN
      /\ run' \in 1 .. ClkCount + 1 /\ level' \in BOOLEAN /\ LevelInv'
  BY <1>1, <1>2, LevelStep DEF Inv
<1>4. PwmTypeOK' /\ settled' \in BOOLEAN /\ highs' \in 0 .. CtrSize /\ PeriodInv'
  BY <1>2, PeriodStep DEF Inv
<1>5. /\ gp_o' = IF gp_o_wr_en(req) THEN req.wdata \cap GpoBits ELSE gp_o
      /\ gp_i_rd_en_q' = gp_i_rd_en_d(req) /\ gp_i_dbnc_rd_en_q' = gp_i_dbnc_rd_en_d(req)
  BY <1>1, Zenon DEF GpioClock
<1>6. gp_o' \subseteq GpoBits
  BY <1>5, Zenon DEF Inv, TypeOK, GpioTypeOK
<1>7. GpioTypeOK'
  BY <1>3, <1>6, Zenon DEF GpioTypeOK
<1> QED
  BY <1>3, <1>4, <1>5, <1>7, Zenon
---------------------------------------------------------------------------
FadeTypeOK == brightness \in 0 .. FullBrightness /\ ascending \in BOOLEAN /\ color \in 1 .. 7

LEMMA CycleInv ==
  ASSUME Inv, NEW req, Cycle(req), PwmData(req), LedsInv', FadeInv', FadeTypeOK',
         in_val' \subseteq {0}, out_val' \subseteq GpoBits, seen' \in BOOLEAN
  PROVE  Inv'
<1>1. /\ GpioTypeOK' /\ PwmTypeOK' /\ LevelInv' /\ PeriodInv'
      /\ run' \in 1 .. ClkCount + 1 /\ level' \in BOOLEAN
      /\ settled' \in BOOLEAN /\ highs' \in 0 .. CtrSize
  BY GpioStep, Zenon
<1> QED
  BY <1>1, Zenon DEF Inv, TypeOK, FadeTypeOK

LEMMA Facts ==
  ASSUME Inv
  PROVE  /\ LedsInv /\ FadeInv /\ FadeTypeOK
         /\ in_val \subseteq {0} /\ out_val \subseteq GpoBits /\ seen \in BOOLEAN
         /\ UNCHANGED fading => FadeInv' /\ FadeTypeOK'
<1>1. /\ LedsInv /\ FadeInv /\ FadeTypeOK
      /\ in_val \subseteq {0} /\ out_val \subseteq GpoBits /\ seen \in BOOLEAN
  BY Zenon DEF Inv, TypeOK, FadeTypeOK
<1>2. ASSUME UNCHANGED fading PROVE FadeInv' /\ FadeTypeOK'
  <2>1. brightness' = brightness /\ ascending' = ascending /\ color' = color
    BY <1>2 DEF fading
  <2> QED
    BY <1>1, <2>1, Zenon DEF FadeInv, FadeTypeOK
<1> QED
  BY <1>1, <1>2

LEMMA FadeStep ==
  ASSUME Inv, Fade
  PROVE  FadeInv' /\ FadeTypeOK'
<1>1. /\ brightness \in Int /\ 0 <= brightness /\ brightness <= FullBrightness
      /\ color \in 1 .. 7 /\ FullBrightness \in Nat \ {0}
  BY Facts, PinsAssumption DEF FadeTypeOK
<1>2. CASE ascending
  <2>1. brightness < FullBrightness
    BY <1>2, Facts DEF FadeInv
  <2>2. brightness' = brightness + 1 /\ color' = color
    BY <1>2, Zenon DEF Fade
  <2>3. ascending' = (brightness + 1 < FullBrightness)
    BY <1>2, Zenon DEF Fade
  <2>4. (brightness + 1 < FullBrightness) \in BOOLEAN
    BY <1>1
  <2>5. ascending' \in BOOLEAN /\ (ascending' <=> brightness + 1 < FullBrightness)
    BY <2>3, <2>4, Zenon
  <2>6. brightness' \in 0 .. FullBrightness /\ brightness' > 0
    BY <1>1, <2>1, <2>2
  <2> QED
    BY <1>1, <2>2, <2>5, <2>6, Zenon DEF FadeInv, FadeTypeOK
<1>3. CASE ~ascending
  <2>1. brightness > 0
    BY <1>3, Facts DEF FadeInv
  <2>2. /\ brightness' = brightness - 1
        /\ color' = IF brightness # 1 THEN color ELSE IF color = 7 THEN 1 ELSE color + 1
    BY <1>3, Zenon DEF Fade
  <2>3. ascending' = (brightness = 1)
    BY <1>3, Zenon DEF Fade
  <2>4. ascending' \in BOOLEAN /\ (ascending' <=> brightness = 1)
    BY <2>3, Zenon
  <2>5. /\ brightness' \in 0 .. FullBrightness /\ color' \in 1 .. 7
        /\ brightness' < FullBrightness /\ (brightness # 1 => brightness' > 0)
    BY <1>1, <2>1, <2>2
  <2> QED
    BY <2>4, <2>5, Zenon DEF FadeInv, FadeTypeOK
<1> QED
  BY <1>2, <1>3

LEMMA StepInv == Inv /\ [Next]_vars => Inv'
<1> SUFFICES ASSUME Inv, [Next]_vars PROVE Inv'
  OBVIOUS
<1>1. PwmData(NoAccess) /\ ~gp_o_wr_en(NoAccess)
  BY DEF PwmData, NoAccess, gp_o_wr_en
<1>2. ASSUME NEW reg
      PROVE  /\ PwmData(Load(reg)) /\ ~gp_o_wr_en(Load(reg))
             /\ gp_i_rd_en_d(Load(reg)) <=> reg = "GPIO_IN_REG"
             /\ gp_i_dbnc_rd_en_d(Load(reg)) <=> reg = "GPIO_IN_DBNC_REG"
  BY DEF PwmData, Load, gp_o_wr_en, gp_i_rd_en_d, gp_i_dbnc_rd_en_d
<1>3. ASSUME NEW data
      PROVE  /\ PwmData(Store("GPIO_OUT_REG", data)) /\ gp_o_wr_en(Store("GPIO_OUT_REG", data))
             /\ Store("GPIO_OUT_REG", data).wdata = data
  BY DEF PwmData, Store, gp_o_wr_en
<1>4. /\ LedsInv /\ in_val \subseteq {0} /\ out_val \subseteq GpoBits /\ seen \in BOOLEAN
  BY Facts
<1>5. CASE ResetLeds
  <2>1. /\ Cycle(Store("GPIO_OUT_REG", First)) /\ pc' = "tick"
        /\ UNCHANGED <<in_val, out_val, seen>> /\ UNCHANGED fading
    BY <1>5 DEF ResetLeds
  <2>2. LedsInv'
    BY <2>1 DEF LedsInv
  <2> QED
    BY <1>3, <1>4, <2>1, <2>2, Facts, CycleInv
<1>6. CASE ReadInput
  <2>1. /\ Cycle(Load("GPIO_IN_DBNC_REG")) /\ pc' = "in_val"
        /\ UNCHANGED <<in_val, out_val, seen>> /\ UNCHANGED fading
    BY <1>6 DEF ReadInput
  <2>2. gp_i_dbnc_rd_en_q'
    BY <1>2, <2>1, GpioStep
  <2>3. LedsInv'
    BY <2>1, <2>2 DEF LedsInv
  <2> QED
    BY <1>2, <1>4, <2>1, <2>3, Facts, CycleInv
<1>7. CASE InputRead
  <2>1. /\ Cycle(NoAccess) /\ pc = "in_val" /\ pc' = "leds" /\ in_val' = device_rdata_o
        /\ seen' = level /\ out_val' = out_val /\ UNCHANGED fading
    BY <1>7 DEF InputRead
  <2>2. in_val' = BTN0(btn_q)
    BY <1>4, <2>1, Zenon DEF LedsInv, device_rdata_o
  <2>3. btn_q = level /\ level \in BOOLEAN
    BY DEF Inv, LevelInv, TypeOK
  <2>4. in_val' = BTN0(seen') /\ in_val' \subseteq {0} /\ seen' \in BOOLEAN
    BY <2>1, <2>2, <2>3, Zenon DEF BTN0
  <2>5. LedsInv'
    BY <2>1, <2>4 DEF LedsInv, BTN0
  <2> QED
    BY <1>1, <1>4, <2>1, <2>4, <2>5, Facts, CycleInv
<1>8. CASE ReadLeds
  <2>1. /\ Cycle(Load("GPIO_OUT_REG")) /\ pc = "leds" /\ pc' = "out_val"
        /\ UNCHANGED <<in_val, out_val, seen>> /\ UNCHANGED fading
    BY <1>8 DEF ReadLeds
  <2>2. ~gp_i_dbnc_rd_en_q' /\ ~gp_i_rd_en_q'
    BY <1>2, <2>1, GpioStep
  <2>3. in_val' = BTN0(seen')
    BY <1>4, <2>1 DEF LedsInv, BTN0
  <2>4. LedsInv'
    BY <2>1, <2>2, <2>3 DEF LedsInv, BTN0
  <2> QED
    BY <1>2, <1>4, <2>1, <2>4, Facts, CycleInv
<1>9. CASE LedsRead
  <2>1. /\ Cycle(NoAccess) /\ pc = "out_val" /\ pc' = "set_leds"
        /\ out_val' = NextLeds(device_rdata_o, 0 \in in_val)
        /\ UNCHANGED <<in_val, seen>> /\ UNCHANGED fading
    BY <1>9 DEF LedsRead
  <2>2. device_rdata_o = gp_o
    BY <1>4, <2>1, Zenon DEF LedsInv, device_rdata_o
  <2>3. in_val = BTN0(seen)
    BY <1>4, <2>1 DEF LedsInv
  <2>4. (0 \in in_val) <=> seen
    BY <1>4, <2>3 DEF BTN0
  <2>5. (0 \in in_val) = seen
    BY <1>4, <2>4, Zenon
  <2>6. gp_o' = gp_o
    BY <1>1, <2>1, GpioStep
  <2>7. out_val' = NextLeds(gp_o', seen') /\ out_val' \subseteq GpoBits
    BY <2>1, <2>2, <2>5, <2>6, LedsInRange
  <2>8. LedsInv'
    BY <2>1, <2>3, <2>7, Zenon DEF LedsInv, BTN0
  <2> QED
    BY <1>1, <1>4, <2>1, <2>7, <2>8, Facts, CycleInv
<1>10. CASE SetLeds
  <2>1. /\ Cycle(Store("GPIO_OUT_REG", out_val)) /\ pc' = "set_counter"
        /\ UNCHANGED <<in_val, out_val, seen>> /\ UNCHANGED fading
    BY <1>10 DEF SetLeds
  <2>2. LedsInv'
    BY <2>1 DEF LedsInv
  <2> QED
    BY <1>3, <1>4, <2>1, <2>2, Facts, CycleInv
<1>11. CASE SetCounter
  <2>1. /\ Cycle(Store("counter", IF Lit THEN CtrSize - 1 ELSE 0)) /\ pc' = "set_width"
        /\ UNCHANGED <<in_val, out_val, seen>> /\ UNCHANGED fading
    BY <1>11 DEF SetCounter
  <2>2. PwmData(Store("counter", IF Lit THEN CtrSize - 1 ELSE 0))
    BY CtrSizeAssumption DEF PwmData, Store
  <2>3. LedsInv'
    BY <2>1 DEF LedsInv
  <2> QED
    BY <1>4, <2>1, <2>2, <2>3, Facts, CycleInv
<1>12. CASE SetWidth
  <2>1. /\ Cycle(Store("pulse_width", Width)) /\ pc' = "tick" /\ Fade
        /\ UNCHANGED <<in_val, out_val, seen>>
    BY <1>12 DEF SetWidth
  <2>2. brightness \in Int
    BY Facts DEF FadeTypeOK
  <2>3. Width \in Int
    BY <2>2 DEF Width
  <2>4. PwmData(Store("pulse_width", Width))
    BY <2>3 DEF PwmData, Store
  <2>5. LedsInv'
    BY <2>1 DEF LedsInv
  <2> QED
    BY <1>4, <2>1, <2>4, <2>5, FadeStep, CycleInv
<1>13. CASE NoStep
  <2>1. /\ Cycle(NoAccess) /\ pc \notin {"in_val", "out_val"}
        /\ pc' = pc /\ UNCHANGED <<in_val, out_val, seen>> /\ UNCHANGED fading
    BY <1>13 DEF NoStep, ledvars, fading
  <2>2. gp_o' = gp_o
    BY <1>1, <2>1, GpioStep
  <2>3. LedsInv'
    BY <1>4, <2>1, <2>2, Zenon DEF LedsInv
  <2> QED
    BY <1>1, <1>4, <2>1, <2>3, Facts, CycleInv
<1>14. CASE UNCHANGED vars
  <2>1. /\ UNCHANGED <<cnt_q, btn_q, gp_i_q, gp_o, gp_i_rd_en_q, gp_i_dbnc_rd_en_q>>
        /\ UNCHANGED <<counter_q, pulse_width_q, counter, modulated_o>>
        /\ UNCHANGED <<pc, in_val, out_val, brightness, ascending, color>>
        /\ UNCHANGED <<run, level, seen, highs, settled>>
    BY <1>14 DEF vars, gpiovars, debouncevars, pwmvars, ledvars
  <2>2. GpioTypeOK' = GpioTypeOK /\ PwmTypeOK' = PwmTypeOK
    BY <2>1, Zenon DEF GpioTypeOK, DebounceTypeOK, PwmTypeOK
  <2>3. TypeOK' = TypeOK
    BY <2>1, <2>2, Zenon DEF TypeOK
  <2>4. LevelInv' = LevelInv /\ LedsInv' = LedsInv /\ FadeInv' = FadeInv
    BY <2>1, Zenon DEF LevelInv, LedsInv, FadeInv
  <2>5. PeriodInv' = PeriodInv
    BY <2>1, Zenon DEF PeriodInv, DutyCycle
  <2> QED
    BY <2>3, <2>4, <2>5, Zenon DEF Inv
<1> QED
  BY <1>5, <1>6, <1>7, <1>8, <1>9, <1>10, <1>11, <1>12, <1>13, <1>14 DEF Next

LEMMA AlwaysInv == Spec => []Inv
  BY InitInv, StepInv, PTL DEF Spec
---------------------------------------------------------------------------
(* The registers of gpio.sv, debounce.sv and pwm.sv keep their widths, and *)
(* the brightness of main's fading stays in its range.                     *)
THEOREM TypeCorrect == Spec => []TypeOK
<1>1. Inv => TypeOK
  BY DEF Inv
<1> QED
  BY <1>1, AlwaysInv, PTL

(* In a period without a write to its registers the PWM is high for        *)
(* pulse_width cycles, or all of it, for every width and maximum.          *)
THEOREM DutyAlwaysAsSet == Spec => []DutyCycle
<1>1. Inv => DutyCycle
  BY DEF Inv, PeriodInv
<1> QED
  BY <1>1, AlwaysInv, PTL

(* The LEDs only ever move by one place, or start anew, and start anew     *)
(* exactly when the level the pin held for more than the debounce time     *)
(* was high when main read it: no shorter bounce ever moves them.          *)
THEOREM LedsAlwaysFollowButton == Spec => LedsFollowButton
<1>1. ASSUME Inv, Next, gp_o' # gp_o
      PROVE  gp_o' = NextLeds(gp_o, seen)
  <2>1. LedsInv /\ out_val \subseteq GpoBits
    BY <1>1, Facts
  <2>2. ASSUME NEW req, Cycle(req), PwmData(req), ~gp_o_wr_en(req) PROVE FALSE
    BY <1>1, <2>2, GpioStep
  <2>3. /\ PwmData(NoAccess) /\ ~gp_o_wr_en(NoAccess)
        /\ \A reg : PwmData(Load(reg)) /\ ~gp_o_wr_en(Load(reg))
    BY DEF PwmData, NoAccess, Load, gp_o_wr_en
  <2>4. ASSUME NEW data, Cycle(Store("GPIO_OUT_REG", data)) PROVE gp_o' = data \cap GpoBits
    <3>1. /\ PwmData(Store("GPIO_OUT_REG", data)) /\ gp_o_wr_en(Store("GPIO_OUT_REG", data))
          /\ Store("GPIO_OUT_REG", data).wdata = data
      BY DEF PwmData, Store, gp_o_wr_en
    <3> QED
      BY <1>1, <2>4, <3>1, GpioStep
  <2>5. CASE ResetLeds
    <3>1. gp_o' = First \cap GpoBits /\ gp_o = {}
      BY <2>1, <2>4, <2>5 DEF ResetLeds, LedsInv
    <3>2. Shifted({}) = {}
      BY DEF Shifted
    <3>3. NextLeds(gp_o, seen) = First
      BY <3>1, <3>2 DEF NextLeds
    <3>4. First \subseteq GpoBits
      BY PinsAssumption DEF First
    <3> QED
      BY <3>1, <3>3, <3>4
  <2>6. CASE SetLeds
    <3>1. gp_o' = out_val \cap GpoBits /\ out_val = NextLeds(gp_o, seen)
      BY <2>1, <2>4, <2>6 DEF SetLeds, LedsInv
    <3> QED
      BY <2>1, <3>1, Zenon
  <2>7. CASE ReadInput \/ InputRead \/ ReadLeds \/ LedsRead \/ NoStep
    BY <2>2, <2>3, <2>7, Zenon DEF ReadInput, InputRead, ReadLeds, LedsRead, NoStep
  <2>8. CASE SetCounter
    <3>1. /\ PwmData(Store("counter", IF Lit THEN CtrSize - 1 ELSE 0))
          /\ ~gp_o_wr_en(Store("counter", IF Lit THEN CtrSize - 1 ELSE 0))
      BY CtrSizeAssumption DEF PwmData, Store, gp_o_wr_en
    <3> QED
      BY <2>2, <2>8, <3>1 DEF SetCounter
  <2>9. CASE SetWidth
    <3>1. brightness \in Int
      BY <1>1, Facts DEF FadeTypeOK
    <3>2. Width \in Int
      BY <3>1 DEF Width
    <3>3. PwmData(Store("pulse_width", Width)) /\ ~gp_o_wr_en(Store("pulse_width", Width))
      BY <3>2 DEF PwmData, Store, gp_o_wr_en
    <3> QED
      BY <2>2, <2>9, <3>3 DEF SetWidth
  <2> QED
    BY <1>1, <2>5, <2>6, <2>7, <2>8, <2>9 DEF Next
<1>2. Inv /\ [Next]_vars => [gp_o' # gp_o => gp_o' = NextLeds(gp_o, seen)]_vars
  BY <1>1
<1> QED
  BY <1>2, AlwaysInv, PTL DEF Spec, LedsFollowButton
=============================================================================
