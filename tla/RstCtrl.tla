------------------------------ MODULE RstCtrl ------------------------------
(***************************************************************************)
(* rst_ctrl.sv: the power-on reset of the Sonata board, repeated when the  *)
(* PLL loses lock and when the (debounced) reset button is pressed.  One   *)
(* step is one edge of clk_i, which runs whatever the PLL does.            *)
(***************************************************************************)
EXTENDS Debounce

CONSTANTS ResetPhase0Count, ResetPhase1Count
ASSUME PhaseAssumption == /\ ResetPhase0Count \in Nat \ {0} /\ ResetPhase1Count \in Nat
                          /\ ResetPhase0Count + 1 < ResetPhase1Count

VARIABLES reset_counter_q, rst_n_q, debounce_rst_n_q,
          pll_locked, rst_btn,   \* inputs, as this cycle sees them
          held,                  \* history: cycles rst_btn has been what it is
          low, byButton          \* history: cycles of this reset, if the PLL kept its lock
                                 \* in it; it is the button's, pressed ever since

registers == <<debouncevars, reset_counter_q, rst_n_q, debounce_rst_n_q>>
rstvars == <<registers, pll_locked, rst_btn, held, low, byButton>>

Phase1Length == ResetPhase1Count - ResetPhase0Count
LockLost == Phase1Length + 1      \* value of low once the lock was lost
MostHeld == ClkCount + 2          \* bound of held
---------------------------------------------------------------------------
(* Registers have no reset: an FPGA gives them the value of the initial    *)
(* block, and 0 to those of the debouncer                                  *)
RstInit == /\ DebounceInit
           /\ reset_counter_q = 0 /\ rst_n_q = TRUE /\ debounce_rst_n_q = TRUE
           /\ pll_locked \in BOOLEAN /\ rst_btn \in BOOLEAN
           /\ held = 1 /\ low = 0 /\ byButton = FALSE

(* The debouncer's output is low during its asynchronous reset             *)
rst_btn_debounce == btn_q

Counted_OneShort == IF reset_counter_q < ResetPhase1Count - 1 THEN reset_counter_q + 1
                    ELSE reset_counter_q
Counted == IF reset_counter_q < ResetPhase1Count THEN reset_counter_q + 1 ELSE reset_counter_q
reset_counter_d_LockIgnored ==
  IF rst_btn_debounce /\ reset_counter_q >= ResetPhase0Count THEN ResetPhase0Count
  ELSE IF pll_locked THEN Counted ELSE reset_counter_q
reset_counter_d == IF rst_btn_debounce /\ reset_counter_q >= ResetPhase0Count THEN ResetPhase0Count
                   ELSE IF pll_locked THEN Counted ELSE 0

rst_n_d_OneLate == reset_counter_q <= ResetPhase0Count \/ reset_counter_q >= ResetPhase1Count
rst_n_d == reset_counter_q < ResetPhase0Count \/ reset_counter_q >= ResetPhase1Count

(* One count later than rst_n_d, so that a held button is not forgotten    *)
debounce_rst_n_d_WithReset == rst_n_d
debounce_rst_n_d == reset_counter_q <= ResetPhase0Count \/ reset_counter_q >= ResetPhase1Count

Clock == /\ reset_counter_q' = reset_counter_d
         /\ rst_n_q' = rst_n_d
         /\ debounce_rst_n_q' = debounce_rst_n_d
         /\ IF debounce_rst_n_q' THEN DebounceClock(rst_btn) ELSE DebounceReset

Inputs == pll_locked' \in BOOLEAN /\ rst_btn' \in BOOLEAN

History == /\ held' = IF rst_btn' # rst_btn THEN 1
                      ELSE IF held = MostHeld THEN held ELSE held + 1
           /\ low' = IF rst_n_q' THEN 0
                     ELSE IF ~pll_locked \/ low = LockLost THEN LockLost
                     ELSE IF low = Phase1Length THEN low ELSE low + 1
           /\ byButton' = /\ byButton \/ (rst_n_q /\ ~rst_n_q' /\ btn_q)
                          /\ rst_btn

RstNext == Clock /\ Inputs /\ History

(* The clock never stops while an edge would change a register; nothing    *)
(* makes the inputs change                                                 *)
RstSpec == RstInit /\ [][RstNext]_rstvars /\ WF_registers(RstNext)
---------------------------------------------------------------------------
RstTypeOK == /\ DebounceTypeOK
             /\ reset_counter_q \in 0 .. ResetPhase1Count
             /\ rst_n_q \in BOOLEAN /\ debounce_rst_n_q \in BOOLEAN
             /\ pll_locked \in BOOLEAN /\ rst_btn \in BOOLEAN
             /\ held \in 1 .. MostHeld /\ low \in 0 .. LockLost /\ byButton \in BOOLEAN

(* A reset that is not cut short by the PLL lasts all of phase 1, for      *)
(* whatever reason it began (rst_ctrl.sv:12-17).                           *)
ResetLastsPhase1 == [][~rst_n_q /\ rst_n_q' => low >= Phase1Length]_rstvars

(* "The rst_btn_i input must be in a single state for more than            *)
(* DebounceCount cycles for that state to take effect" (rst_ctrl.sv:23).   *)
ButtonDebounced == [][~btn_q /\ btn_q' => rst_btn /\ held > ClkCount]_rstvars

(* A reset asked for with the button lasts until the button is released:   *)
(* the reset of the system does not reset the debouncer under the button   *)
(* (rst_ctrl.sv:19-21, 104-107).                                           *)
HeldByButton == [][~rst_n_q /\ rst_n_q' => ~byButton]_rstvars

(* "If pll_locked_i goes low a new reset will be produced when it goes     *)
(* high again" (rst_ctrl.sv:26), provided it stays high.                   *)
LockRegained == <>[]pll_locked => (~pll_locked ~> ~rst_n_q)

(* With the PLL locked and the button released for good, the system runs   *)
(* for good.                                                               *)
RunsInTheEnd == <>[](pll_locked /\ ~rst_btn) => <>[]rst_n_q
=============================================================================
