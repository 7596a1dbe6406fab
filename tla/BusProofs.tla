------------------------------ MODULE BusProofs ------------------------------
(***************************************************************************)
(* Whoever asks gets the answer, for every set of devices, every subset of *)
(* them that is built, and every depth of the prefetch buffer.             *)
(***************************************************************************)
EXTENDS Bus, TLAPS

(* An access in the ID stage keeps the load-store unit busy until its last *)
(* request; as the core has priority, it never waits for a grant.          *)
LsuInv ==
  /\ ls_fsm_cs \in {"IDLE", "WAIT_RVALID_MIS", "WAIT_RVALID_MIS_GNTS_DONE"}
  /\ ls_fsm_cs # "IDLE" => id_fsm_q = "MULTI_CYCLE" /\ instr # Nothing /\ instr.split # Nothing
  /\ ndmreset => instr = Nothing /\ id_fsm_q = "FIRST_CYCLE" /\ fetch = Nothing

(* The debugger has waited for the access of the core that is under way    *)
DeniedInv == /\ denied <= 2
             /\ ls_fsm_cs = "WAIT_RVALID_MIS" => denied <= 1
             /\ lsu_req => denied = 0

(* The debugger's access is there as long as dm_sba works on it            *)
SbaInv == state_q # "Idle" => sba \in DbgAccess

(* Every instruction on its way has room in the prefetch buffer            *)
FetchInv == fetched + (IF core_instr_rvalid THEN 1 ELSE 0) + (IF fetch # Nothing THEN 1 ELSE 0)
              <= Buffer

Inv == TypeOK /\ LsuInv /\ DeniedInv /\ SbaInv /\ FetchInv /\ ResponseToAsker /\ FetchGetsInstruction
---------------------------------------------------------------------------
(* Arbitration, seen from each host                                        *)
LEMMA Grants ==
  /\ CoreRequests \in BOOLEAN /\ DebuggerRequests \in BOOLEAN
  /\ host_gnt["CoreD"] <=> CoreRequests
  /\ host_gnt["DbgHost"] <=> DebuggerRequests /\ ~CoreRequests
  /\ host_req["DbgHost"] <=> DebuggerRequests
  /\ host_sel_valid <=> CoreRequests \/ DebuggerRequests
  /\ host_sel_req = IF DebuggerRequests /\ ~CoreRequests THEN "DbgHost" ELSE "CoreD"
<1>1. CoreRequests \in BOOLEAN
  BY Zenon DEF CoreRequests
<1>2. DebuggerRequests \in BOOLEAN
  BY Zenon DEF DebuggerRequests
<1>3. host_req["CoreD"] = CoreRequests /\ host_req["DbgHost"] = DebuggerRequests
  BY DEF host_req, Hosts
<1>4. host_sel_valid <=> CoreRequests \/ DebuggerRequests
  BY <1>3, Zenon DEF host_sel_valid, Hosts
<1>5. host_sel_req = IF DebuggerRequests /\ ~CoreRequests THEN "DbgHost" ELSE "CoreD"
  BY <1>3, Zenon DEF host_sel_req
<1>6. host_gnt["CoreD"] <=> CoreRequests
  BY <1>3, <1>5 DEF host_gnt, Hosts
<1>7. host_gnt["DbgHost"] <=> DebuggerRequests /\ ~CoreRequests
  BY <1>3, <1>5 DEF host_gnt, Hosts
<1> QED
  BY <1>1, <1>2, <1>3, <1>4, <1>5, <1>6, <1>7

(* What the hosts ask for is an address                                    *)
LEMMA Addresses ==
  ASSUME TypeOK, LsuInv, SbaInv
  PROVE  /\ CoreRequests => CoreAddress \in Address
         /\ DebuggerRequests => sba.addr \in Address
<1>1. ASSUME CoreRequests PROVE CoreAddress \in Address
  <2>1. instr \in CoreAccess
    BY <1>1 DEF CoreRequests, lsu_req, TypeOK, LsuInv
  <2>2. SecondHalf => instr.split # Nothing
    BY DEF SecondHalf, LsuInv
  <2> QED
    BY <2>1, <2>2 DEF CoreAddress, CoreAccess
<1>2. ASSUME DebuggerRequests PROVE sba.addr \in Address
  BY <1>2 DEF DebuggerRequests, SbaInv, DbgAccess, Address
<1> QED
  BY <1>1, <1>2

LEMMA Selected ==
  ASSUME TypeOK, LsuInv, SbaInv
  PROVE  /\ device_sel_req \in Devices
         /\ host_sel_valid => host_addr \in Address
         /\ host_addr = IF DebuggerRequests /\ ~CoreRequests THEN sba.addr ELSE CoreAddress
<1>1. host_addr = IF DebuggerRequests /\ ~CoreRequests THEN sba.addr ELSE CoreAddress
  BY Grants, Zenon DEF host_addr
<1>2. host_sel_valid => host_addr \in Address
  BY <1>1, Grants, Addresses
<1>3. device_sel_req \in Devices
  BY BusAssumption DEF device_sel_req, device_sel_valid
<1> QED
  BY <1>1, <1>2, <1>3

LEMMA GrantedIsServed ==
  \A h \in Hosts : host_gnt[h] <=> host_sel_valid /\ h = host_sel_req
  BY Grants DEF Hosts

(* The load-store unit is never in a state that waits for a grant          *)
LEMMA LsuStep ==
  ASSUME TypeOK, LsuInv
  PROVE  /\ lsu_req => CoreRequests /\ ls_fsm_cs = "IDLE"
         /\ lsu_req => ls_fsm_ns = IF instr.split = Nothing THEN "IDLE" ELSE "WAIT_RVALID_MIS"
         /\ ls_fsm_cs = "IDLE" /\ ~lsu_req => ~CoreRequests /\ ls_fsm_ns = "IDLE"
         /\ ls_fsm_cs = "WAIT_RVALID_MIS" =>
              CoreRequests /\ ls_fsm_ns \in {"IDLE", "WAIT_RVALID_MIS_GNTS_DONE"}
         /\ ls_fsm_cs = "WAIT_RVALID_MIS_GNTS_DONE" =>
              ~CoreRequests /\ ls_fsm_ns \in {"IDLE", "WAIT_RVALID_MIS_GNTS_DONE"}
<1>1. lsu_req => CoreRequests /\ ls_fsm_cs = "IDLE"
  BY DEF lsu_req, CoreRequests, LsuInv, TypeOK
<1>2. ls_fsm_cs = "IDLE" /\ ~lsu_req => ~CoreRequests
  BY DEF CoreRequests
<1>3. ls_fsm_cs = "WAIT_RVALID_MIS" => CoreRequests /\ ~lsu_req
  BY DEF CoreRequests, LsuInv, lsu_req
<1>4. ls_fsm_cs = "WAIT_RVALID_MIS_GNTS_DONE" => ~CoreRequests /\ ~lsu_req
  BY DEF CoreRequests, LsuInv, lsu_req
<1>5. CASE lsu_req
  <2>1. ls_fsm_cs = "IDLE" /\ host_gnt["CoreD"]
    BY <1>1, <1>5, Grants
  <2>2. ls_fsm_ns = IF instr.split = Nothing THEN "IDLE" ELSE "WAIT_RVALID_MIS"
    BY <1>5, <2>1, Zenon DEF ls_fsm_ns
  <2> QED
    BY <1>1, <1>5, <2>1, <2>2
<1>6. CASE ls_fsm_cs = "IDLE" /\ ~lsu_req
  <2>1. ls_fsm_ns = "IDLE"
    BY <1>6, Zenon DEF ls_fsm_ns
  <2> QED
    BY <1>2, <1>6, <2>1
<1>7. CASE ls_fsm_cs = "WAIT_RVALID_MIS"
  <2>1. host_gnt["CoreD"]
    BY <1>3, <1>7, Grants
  <2>2. ls_fsm_ns \in {"IDLE", "WAIT_RVALID_MIS_GNTS_DONE"}
    BY <1>7, <2>1, Zenon DEF ls_fsm_ns
  <2> QED
    BY <1>3, <1>7, <2>2
<1>8. CASE ls_fsm_cs = "WAIT_RVALID_MIS_GNTS_DONE"
  <2>1. ls_fsm_ns \in {"IDLE", "WAIT_RVALID_MIS_GNTS_DONE"}
    BY <1>8, Zenon DEF ls_fsm_ns
  <2> QED
    BY <1>4, <1>8, <2>1
<1> QED
  BY <1>5, <1>6, <1>7, <1>8 DEF LsuInv

(* A new access enters the ID stage only when the last one is complete     *)
LEMMA ReadyIsQuiet ==
  ASSUME TypeOK, LsuInv, ~IdStalls
  PROVE  ls_fsm_cs = "IDLE" /\ ~lsu_req /\ ~CoreRequests /\ ls_fsm_ns = "IDLE"
<1>1. ~lsu_req
  BY DEF IdStalls
<1>2. ls_fsm_cs = "IDLE"
  BY DEF IdStalls, lsu_resp_valid, LsuInv, TypeOK
<1> QED
  BY <1>1, <1>2, LsuStep
---------------------------------------------------------------------------
LEMMA InitInv == Init => Inv
<1> SUFFICES ASSUME Init PROVE Inv
  OBVIOUS
<1> USE BusAssumption DEF Init
<1>1. TypeOK
  <2>1. /\ decode_err_resp \in BOOLEAN /\ core_instr_rvalid \in BOOLEAN
        /\ core_instr_sel_dbg \in BOOLEAN /\ ndmreset \in BOOLEAN /\ fetch_owed \in BOOLEAN
        /\ device_rvalid \in [Devices -> BOOLEAN]
    BY Zenon
  <2>2. /\ host_sel_resp \in Hosts /\ device_sel_resp \in Devices
        /\ device_rdata \in [Devices -> Devices \cup {Instr}]
        /\ owed \in [Hosts -> {Nothing} \cup Address]
    BY DEF Hosts
  <2>3. fetched \in 0 .. Buffer /\ denied \in 0 .. MostDenied
    BY DEF MostDenied
  <2> QED
    BY <2>1, <2>2, <2>3, Zenon DEF TypeOK
<1>2. LsuInv /\ DeniedInv /\ SbaInv
  BY DEF LsuInv, DeniedInv, SbaInv, lsu_req
<1>3. FetchInv
  BY DEF FetchInv
<1>4. ResponseToAsker
  <2>1. ASSUME NEW h \in Hosts
        PROVE  /\ host_rvalid[h] \in BOOLEAN /\ host_err[h] \in BOOLEAN
               /\ ~host_rvalid[h] /\ ~host_err[h]
               /\ owed[h] \notin Built /\ owed[h] # Unmapped
    <3>1. host_rvalid[h] \in BOOLEAN /\ host_err[h] \in BOOLEAN
      BY Zenon DEF host_rvalid, host_err
    <3> QED
      BY <3>1 DEF host_rvalid, host_err
  <2>2. ASSUME NEW h \in Hosts
        PROVE  /\ host_rvalid[h] = (owed[h] \in Built \cup {Unmapped})
               /\ host_err[h] = (owed[h] = Unmapped)
               /\ owed[h] \notin Built
    <3> DEFINE Answering == Built \cup {Unmapped}
    <3>1. owed[h] \notin Answering
      BY <2>1
    <3> HIDE DEF Answering
    <3>2. host_rvalid[h] = (owed[h] \in Answering)
      BY <2>1, <3>1
    <3>3. host_err[h] = (owed[h] = Unmapped)
      BY <2>1, Zenon
    <3> USE DEF Answering
    <3> QED
      BY <2>1, <3>2, <3>3, Zenon
  <2> QED
    BY <2>2, Zenon DEF ResponseToAsker
<1>5. FetchGetsInstruction
  BY Zenon DEF FetchGetsInstruction
<1> QED
  BY <1>1, <1>2, <1>3, <1>4, <1>5 DEF Inv

LEMMA StepLsu == Inv /\ Next => LsuInv'
<1> SUFFICES ASSUME Inv, Next PROVE LsuInv'
  OBVIOUS
<1> USE DEF Inv
<1>1. CASE ndmreset'
  BY <1>1 DEF Next, CoreClock, FetchClock, LsuInv
<1>2. CASE ~ndmreset' /\ IdStalls
  <2>1. ls_fsm_cs' = ls_fsm_ns /\ id_fsm_q' = "MULTI_CYCLE" /\ instr' = instr
    BY <1>2 DEF Next, CoreClock
  <2>2. ls_fsm_ns \in {"IDLE", "WAIT_RVALID_MIS", "WAIT_RVALID_MIS_GNTS_DONE"}
    BY LsuStep DEF LsuInv
  <2>3. ls_fsm_ns # "IDLE" => instr # Nothing /\ instr.split # Nothing
    BY LsuStep DEF LsuInv, lsu_req
  <2> QED
    BY <1>2, <2>1, <2>2, <2>3 DEF LsuInv
<1>3. CASE ~ndmreset' /\ ~IdStalls
  BY <1>3, ReadyIsQuiet DEF Next, CoreClock, LsuInv
<1> QED
  BY <1>1, <1>2, <1>3

LEMMA StepDenied == Inv /\ Next => DeniedInv'
<1> SUFFICES ASSUME Inv, Next PROVE DeniedInv'
  OBVIOUS
<1> USE DEF Inv
<1>1. /\ ~CoreRequests => denied' = 0
      /\ denied' \in 0 .. denied + 1
  <2>1. denied \in Nat /\ (denied' = 0 \/ denied' = denied + 1 \/ denied' = denied)
    BY DEF Next, History, TypeOK, MostDenied
  <2>2. ~CoreRequests => ~(host_req["DbgHost"] /\ ~host_gnt["DbgHost"])
    BY Grants
  <2>3. ~CoreRequests => denied' = 0
    BY <2>2, Zenon DEF Next, History
  <2> QED
    BY <2>1, <2>3
<1>2. /\ lsu_req => denied = 0
      /\ ls_fsm_cs = "WAIT_RVALID_MIS" => denied <= 1
  BY DEF DeniedInv
<1>3. denied' <= 2
  <2>1. CoreRequests => lsu_req \/ ls_fsm_cs = "WAIT_RVALID_MIS"
    BY LsuStep DEF LsuInv
  <2> QED
    BY <1>1, <1>2, <2>1 DEF TypeOK
<1>4. ls_fsm_cs' = "WAIT_RVALID_MIS" => denied' <= 1
  <2>1. ls_fsm_cs' = "WAIT_RVALID_MIS" => lsu_req
    BY LsuStep DEF Next, CoreClock, LsuInv
  <2> QED
    BY <1>1, <1>2, <2>1 DEF TypeOK
<1>5. lsu_req' => denied' = 0
  <2>1. lsu_req' => ~CoreRequests
    <3>1. lsu_req' => instr' # Nothing /\ id_fsm_q' = "FIRST_CYCLE"
      BY DEF lsu_req
    <3>2. instr' # Nothing /\ id_fsm_q' = "FIRST_CYCLE" => ~IdStalls
      BY DEF Next, CoreClock
    <3> QED
      BY <3>1, <3>2, ReadyIsQuiet
  <2> QED
    BY <1>1, <2>1
<1> QED
  BY <1>3, <1>4, <1>5 DEF DeniedInv

LEMMA Room ==
  ASSUME NEW n \in Nat, NEW b \in Nat, NEW a \in Nat, n <= a,
         NEW g \in {0, 1}, NEW r \in {0, 1},
         \/ g = 0 /\ a + 1 <= b
         \/ a + g <= b /\ r = 0
         \/ n + g < b
  PROVE  n + g + r <= b
  OBVIOUS

LEMMA StepFetch == Inv /\ Next => FetchInv' /\ fetched' \in 0 .. Buffer
<1> SUFFICES ASSUME Inv, Next PROVE FetchInv' /\ fetched' \in 0 .. Buffer
  OBVIOUS
<1> USE BusAssumption DEF Inv
<1> DEFINE granted == IF core_instr_gnt THEN 1 ELSE 0
<1>1. /\ (IF core_instr_rvalid' THEN 1 ELSE 0) = granted
      /\ granted \in {0, 1}
      /\ granted = 1 => core_instr_gnt
      /\ granted = 0 => ~core_instr_gnt
  <2>1. core_instr_rvalid' <=> core_instr_gnt
    BY Zenon DEF Next, BusClock
  <2>2. CASE core_instr_gnt
    BY <2>1, <2>2
  <2>3. CASE ~core_instr_gnt
    BY <2>1, <2>3
  <2> QED
    BY <2>2, <2>3
<1>2. core_instr_gnt => fetch # Nothing
  BY DEF core_instr_gnt, core_instr_req, dbg_instr_req
<1>3. /\ Arrived \in Nat /\ Arrived <= Buffer
      /\ fetch # Nothing => Arrived + 1 <= Buffer
  BY DEF FetchInv, Arrived, TypeOK
<1>4. CASE ndmreset'
  <2>1. fetched' = 0 /\ fetch' = Nothing
    BY <1>4 DEF Next, CoreClock, FetchClock
  <2> QED
    BY <1>1, <2>1 DEF FetchInv
<1>5. CASE ~ndmreset'
  <2>1. fetched' \in 0 .. Arrived
    BY <1>3, <1>5 DEF Next, CoreClock, Arrived, TypeOK
  <2>2. \/ ~core_instr_gnt /\ core_instr_req /\ fetch' = fetch
        \/ fetch' = Nothing
        \/ fetched' + granted < Buffer
    BY <1>5 DEF Next, FetchClock
  <2>3. core_instr_req => fetch # Nothing
    BY DEF core_instr_req
  <2> DEFINE requested == IF fetch' # Nothing THEN 1 ELSE 0
  <2>4. requested \in {0, 1} /\ (fetch' = Nothing => requested = 0)
    OBVIOUS
  <2>5. fetched' \in Nat /\ fetched' <= Arrived /\ Buffer \in Nat
    BY <1>3, <2>1
  <2>6. \/ granted = 0 /\ Arrived + 1 <= Buffer
        \/ Arrived + granted <= Buffer /\ requested = 0
        \/ fetched' + granted < Buffer
    <3>1. CASE ~core_instr_gnt /\ core_instr_req
      BY <1>3, <2>3, <3>1
    <3>2. CASE fetch' = Nothing
      <4>1. CASE core_instr_gnt
        BY <1>2, <1>3, <2>4, <3>2, <4>1
      <4>2. CASE ~core_instr_gnt
        BY <1>3, <2>4, <3>2, <4>2
      <4> QED
        BY <4>1, <4>2
    <3> QED
      BY <2>2, <3>1, <3>2
  <2>7. fetched' + granted + requested <= Buffer
    <3>1. granted \in {0, 1} /\ Arrived \in Nat
      BY <1>1, <1>3
    <3> HIDE DEF granted, requested
    <3> QED
      BY <3>1, <2>4, <2>5, <2>6, Room
  <2>8. FetchInv'
    BY <1>1, <2>7, Zenon DEF FetchInv
  <2> QED
    BY <1>3, <2>5, <2>8
<1> QED
  BY <1>4, <1>5

LEMMA StepResponse == Inv /\ Next => ResponseToAsker'
<1> SUFFICES ASSUME Inv, Next, NEW h \in Hosts, h = "CoreD" => ~ndmreset'
             PROVE  /\ host_rvalid'[h] = (owed'[h] \in Built \cup {Unmapped})
                    /\ host_err'[h] = (owed'[h] = Unmapped)
                    /\ owed'[h] \in Built => host_rdata' = owed'[h]
  BY Zenon DEF ResponseToAsker
<1> USE BusAssumption DEF Inv
<1>1. /\ host_sel_resp' = host_sel_req
      /\ device_sel_resp' = device_sel_req
      /\ decode_err_resp' <=> host_sel_valid /\ ~device_sel_valid
  BY Zenon DEF Next, BusClock
<1>2. device_sel_valid <=> host_sel_valid /\ host_addr \in Devices
  BY DEF device_sel_valid
<1>3. device_sel_req \in Devices /\ (device_sel_valid => device_sel_req = host_addr)
  BY Selected DEF device_sel_req
<1>4. device_rvalid'[device_sel_req] <=> device_sel_valid /\ host_addr \in Built
  <2>1. device_rvalid'[device_sel_req] = (device_req[device_sel_req] /\ device_sel_req \in Built)
    BY <1>3, Zenon DEF Next, DeviceClock
  <2>2. device_req[device_sel_req] <=> device_sel_valid
    BY <1>3, Zenon DEF device_req
  <2> QED
    BY <1>3, <2>1, <2>2
<1>5. device_sel_valid => device_rdata'[device_sel_req] = host_addr
  <2>1. device_sel_valid => device_req[device_sel_req]
    BY <1>3, Zenon DEF device_req
  <2>2. device_req[device_sel_req] => device_rdata'[device_sel_req] = device_sel_req
    BY <1>3 DEF Next, DeviceClock
  <2> QED
    BY <1>3, <2>1, <2>2
<1>6. owed'[h] = IF host_sel_valid /\ h = host_sel_req THEN host_addr ELSE Nothing
  <2>1. owed'[h] = IF ~host_gnt[h] THEN Nothing ELSE IF h = "CoreD" THEN CoreAddress ELSE sba.addr
    BY Zenon DEF Next, History
  <2>2. host_gnt[h] => host_addr = IF h = "CoreD" THEN CoreAddress ELSE sba.addr
    BY GrantedIsServed, Grants, Selected DEF Hosts
  <2> QED
    BY <2>1, <2>2, GrantedIsServed
<1>7. host_sel_valid => host_addr \in Address
  BY Selected
<1>8. host_rvalid'[h] <=> h = host_sel_req /\ host_sel_valid /\ host_addr \in Built \cup {Unmapped}
  <2>1. host_rvalid'[h] = (/\ h = host_sel_resp'
                           /\ device_rvalid'[device_sel_resp'] \/ decode_err_resp')
    BY Zenon DEF host_rvalid
  <2>2. host_rvalid'[h] <=> /\ h = host_sel_req
                            /\ device_rvalid'[device_sel_req] \/ (host_sel_valid /\ ~device_sel_valid)
    BY <1>1, <2>1, Zenon
  <2> QED
    BY <1>2, <1>4, <1>7, <2>2 DEF Address
<1>9. host_err'[h] <=> h = host_sel_req /\ host_sel_valid /\ host_addr = Unmapped
  <2>1. host_err'[h] = (h = host_sel_resp' /\ decode_err_resp')
    BY Zenon DEF host_err
  <2>2. host_err'[h] <=> h = host_sel_req /\ host_sel_valid /\ ~device_sel_valid
    BY <1>1, <2>1, Zenon
  <2> QED
    BY <1>2, <1>7, <2>2 DEF Address
<1>10. owed'[h] \in Built => host_rdata' = owed'[h]
  BY <1>1, <1>2, <1>5, <1>6 DEF host_rdata
<1>11. host_rvalid'[h] <=> owed'[h] \in Built \cup {Unmapped}
  BY <1>6, <1>8
<1>12. host_err'[h] <=> owed'[h] = Unmapped
  BY <1>6, <1>9
<1>13. host_rvalid'[h] \in BOOLEAN /\ host_err'[h] \in BOOLEAN
  BY Zenon DEF host_rvalid, host_err
<1>14. host_rvalid'[h] = (owed'[h] \in Built \cup {Unmapped})
  <2> DEFINE Answering == Built \cup {Unmapped}
  <2>1. host_rvalid'[h] <=> owed'[h] \in Answering
    BY <1>11
  <2> HIDE DEF Answering
  <2>2. host_rvalid'[h] = (owed'[h] \in Answering)
    BY <1>13, <2>1
  <2> QED
    BY <2>2, Zenon DEF Answering
<1>15. host_err'[h] = (owed'[h] = Unmapped)
  BY <1>12, <1>13, Zenon
<1> QED
  BY <1>10, <1>14, <1>15, Zenon

LEMMA StepFetched == Next => FetchGetsInstruction'
<1> SUFFICES ASSUME Next PROVE FetchGetsInstruction'
  OBVIOUS
<1>1. ~ndmreset' => core_instr_rvalid' = fetch_owed'
  <2>1. core_instr_gnt \in BOOLEAN
    BY Zenon DEF core_instr_gnt
  <2> QED
    BY <2>1, Zenon DEF Next, BusClock, History
<1>2. ASSUME core_instr_rvalid', core_instr_sel_dbg'
      PROVE  device_rdata'[DbgDev] = Instr
  <2>1. core_instr_gnt /\ dbg_instr_req
    BY <1>2, Zenon DEF Next, BusClock
  <2>2. ~device_req[DbgDev]
    BY <2>1, BusAssumption DEF core_instr_gnt, dbg_instr_req
  <2> QED
    BY <2>1, <2>2, BusAssumption DEF Next, DeviceClock
<1> QED
  BY <1>1, <1>2, Zenon DEF FetchGetsInstruction

LEMMA StepSba == Inv /\ Next => /\ SbaInv'
                                /\ state_q' \in {"Idle", "Read", "Write", "WaitRead", "WaitWrite"}
                                /\ sba' \in {Nothing} \cup DbgAccess
<1> SUFFICES ASSUME Inv, Next
             PROVE  /\ SbaInv'
                    /\ state_q' \in {"Idle", "Read", "Write", "WaitRead", "WaitWrite"}
                    /\ sba' \in {Nothing} \cup DbgAccess
  OBVIOUS
<1> USE DEF Inv, TypeOK, SbaInv
<1>1. CASE UNCHANGED <<state_q, sba>>
  BY <1>1
<1>2. CASE sba' \in DbgAccess /\ state_q' = (IF sba'.we THEN "Write" ELSE "Read")
  BY <1>2
<1>3. CASE /\ state_q \in {"Read", "Write"}
           /\ state_q' = IF ~host_gnt["DbgHost"] THEN state_q
                         ELSE IF state_q = "Read" THEN "WaitRead" ELSE "WaitWrite"
           /\ UNCHANGED sba
  BY <1>3
<1>4. CASE state_q' = "Idle" /\ sba' = Nothing
  BY <1>4
<1> QED
  BY <1>1, <1>2, <1>3, <1>4, Zenon DEF Next, SbaClock

LEMMA StepType == Inv /\ Next => TypeOK'
<1> SUFFICES ASSUME Inv, Next PROVE TypeOK'
  OBVIOUS
<1> USE BusAssumption DEF Inv
<1>1. host_sel_resp' \in Hosts /\ device_sel_resp' \in Devices
  BY Selected, Grants DEF Next, BusClock, Hosts
<1>2. decode_err_resp' \in BOOLEAN /\ core_instr_rvalid' \in BOOLEAN /\ core_instr_sel_dbg' \in BOOLEAN
  BY Zenon DEF Next, BusClock, core_instr_gnt, dbg_instr_req
<1>3. device_rvalid' \in [Devices -> BOOLEAN]
  <2>1. \A d \in Devices : (device_req[d] /\ d \in Built) \in BOOLEAN
    BY Zenon
  <2> QED
    BY <2>1, Zenon DEF Next, DeviceClock
<1>4. device_rdata' \in [Devices -> Devices \cup {Instr}]
  BY DEF Next, DeviceClock, TypeOK
<1>5. /\ instr' \in {Nothing} \cup CoreAccess
      /\ id_fsm_q' \in {"FIRST_CYCLE", "MULTI_CYCLE"}
  BY DEF Next, CoreClock, TypeOK
<1>6. ls_fsm_cs' \in {"IDLE", "WAIT_GNT", "WAIT_GNT_MIS", "WAIT_RVALID_MIS",
                      "WAIT_RVALID_MIS_GNTS_DONE"}
  BY StepLsu DEF LsuInv
<1>7. fetch' \in {Nothing, Ram, DbgDev, Unmapped} /\ ndmreset' \in BOOLEAN
  BY DEF Next, FetchClock, Debugger, TypeOK
<1>8. owed' \in [Hosts -> {Nothing} \cup Address]
  <2>1. /\ host_gnt["CoreD"] => CoreAddress \in Address
        /\ host_gnt["DbgHost"] => sba.addr \in Address
    BY Addresses, Grants
  <2>2. \A h \in Hosts : (IF ~host_gnt[h] \/ (h = "CoreD" /\ ndmreset') THEN Nothing
                          ELSE IF h = "CoreD" THEN CoreAddress ELSE sba.addr)
                           \in {Nothing} \cup Address
    BY <2>1 DEF Hosts
  <2> QED
    BY <2>2, Zenon DEF Next, History
<1>9. fetch_owed' \in BOOLEAN
  BY Zenon DEF Next, History
<1>10. denied' \in 0 .. MostDenied
  BY DEF Next, History, TypeOK, MostDenied
<1> QED
  BY <1>1, <1>2, <1>3, <1>4, <1>5, <1>6, <1>7, <1>8, <1>9, <1>10, StepSba, StepFetch DEF TypeOK

LEMMA StepInv == Inv /\ [Next]_vars => Inv'
<1> SUFFICES ASSUME Inv, [Next]_vars PROVE Inv'
  OBVIOUS
<1>1. CASE Next
  BY <1>1, StepType, StepLsu, StepDenied, StepSba, StepFetch, StepResponse, StepFetched DEF Inv
<1>2. CASE UNCHANGED vars
  <2> USE <1>2 DEF Inv, vars
  <2>1. TypeOK'
    BY DEF TypeOK
  <2>2. LsuInv' /\ DeniedInv' /\ SbaInv' /\ FetchInv'
    BY DEF LsuInv, DeniedInv, SbaInv, FetchInv, lsu_req
  <2>3. ResponseToAsker' /\ FetchGetsInstruction'
    BY Zenon DEF ResponseToAsker, FetchGetsInstruction, host_rvalid, host_err, host_rdata
  <2> QED
    BY <2>1, <2>2, <2>3
<1> QED
  BY <1>1, <1>2

LEMMA AlwaysInv == Spec => []Inv
  BY InitInv, StepInv, PTL DEF Spec
---------------------------------------------------------------------------
(* Whatever the core, the debugger and the prefetch buffer ask for         *)
THEOREM TypeCorrect == Spec => []TypeOK
<1>1. Inv => TypeOK
  BY DEF Inv
<1> QED
  BY AlwaysInv, <1>1, PTL

(* Each granted host gets its own answer in the next cycle, and no other   *)
(* host sees it (bus.sv)                                                   *)
THEOREM ResponseAlwaysToAsker == Spec => []ResponseToAsker
<1>1. Inv => ResponseToAsker
  BY DEF Inv
<1> QED
  BY AlwaysInv, <1>1, PTL

(* A granted fetch gets an instruction, although the port of the debug     *)
(* memory is shared with the data accesses (ibex_demo_system.sv)           *)
THEOREM FetchAlwaysGetsInstruction == Spec => []FetchGetsInstruction
<1>1. Inv => FetchGetsInstruction
  BY DEF Inv
<1> QED
  BY AlwaysInv, <1>1, PTL

(* The debugger's request is granted after two cycles at the latest, under *)
(* a strict priority of the core's                                         *)
THEOREM DebuggerNeverStarves == Spec => []DebuggerWaitsTwoCycles
<1>1. Inv => DebuggerWaitsTwoCycles
  BY DEF Inv, DeniedInv, DebuggerWaitsTwoCycles
<1> QED
  BY AlwaysInv, <1>1, PTL
=============================================================================
