------------------------------ MODULE Debounce ------------------------------
(***************************************************************************)
(* debounce.sv: the output follows the input once the input has differed   *)
(* from it for long enough.  DebounceClock(btn_i) is one clock edge;       *)
(* DebounceReset is the asynchronous reset.                                *)
(***************************************************************************)
EXTENDS Naturals

CONSTANTS ClkCount
ASSUME ClkCountAssumption == ClkCount \in Nat \ {0}

VARIABLES cnt_q, btn_q
debouncevars == <<cnt_q, btn_q>>

DebounceInit == cnt_q = 0 /\ btn_q = FALSE

btn_d(btn_i) == IF cnt_q >= ClkCount THEN btn_i ELSE btn_q
cnt_d_NotClearedByBounce(btn_i) == IF cnt_q >= ClkCount THEN 0 ELSE cnt_q + 1
cnt_d(btn_i) == IF btn_i = btn_q \/ cnt_q >= ClkCount THEN 0 ELSE cnt_q + 1

DebounceClock(btn_i) == cnt_q' = cnt_d(btn_i) /\ btn_q' = btn_d(btn_i)
DebounceReset == cnt_q' = 0 /\ btn_q' = FALSE

DebounceTypeOK == cnt_q \in 0 .. ClkCount /\ btn_q \in BOOLEAN
=============================================================================
