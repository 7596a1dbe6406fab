-------------------------------- MODULE Bus --------------------------------
(***************************************************************************)
(* bus.sv as ibex_demo_system.sv wires it.  The load-store unit of the     *)
(* core (host CoreD) and the system bus access of the debug module (host   *)
(* DbgHost) reach the devices through it; instruction fetches go to the    *)
(* second port of the RAM or, when no data access is using it, to the      *)
(* debug memory.  One step is one clock cycle.  A device answers in the    *)
(* next cycle, with data that is its own: what is stored is left out.      *)
(***************************************************************************)
EXTENDS Naturals

CONSTANTS Devices,      \* devices of the address map
          Built,        \* those the build instantiates (SimCtrl: only under VERILATOR)
          Ram, DbgDev,  \* the two devices that also serve fetches
          Unmapped,     \* an address no device claims
          Instr,        \* what a fetch from the debug memory returns
          Nothing,      \* no access
          Buffer        \* instructions the prefetch buffer holds

ASSUME BusAssumption == /\ {Ram, DbgDev} \subseteq Built /\ Built \subseteq Devices
                        /\ Unmapped \notin Devices /\ Instr \notin Devices
                        /\ Nothing \notin Devices \cup {Unmapped} /\ Ram # DbgDev
                        /\ Buffer \in Nat \ {0}

Hosts == {"CoreD", "DbgHost"}
Address == Devices \cup {Unmapped}
MostDenied == 3         \* bound of the history counter denied

CoreAccess == [addr : Address, split : {Nothing} \cup Address]
(* One of the wrong size or alignment, ok FALSE, goes nowhere              *)
DbgAccess == [addr : Address, we : BOOLEAN, ok : {TRUE}]
             \cup [addr : {Unmapped}, we : BOOLEAN, ok : {FALSE}]

VARIABLES host_sel_resp, device_sel_resp, decode_err_resp,   \* bus.sv
          device_rvalid, device_rdata,                       \* the devices
          core_instr_rvalid, core_instr_sel_dbg,             \* ibex_demo_system.sv
          instr, id_fsm_q,     \* the access in the ID stage of the core, its cycle
          ls_fsm_cs,           \* ibex_load_store_unit
          fetch, fetched,      \* address the prefetch buffer requests, instructions it holds
          ndmreset,            \* dm_csrs: the core is held in reset
          state_q, sba,        \* dm_sba and the access the debugger asked of it
          owed, fetch_owed,    \* history: the answer due in this cycle
          denied               \* history: cycles the debugger has waited for a grant

vars == <<host_sel_resp, device_sel_resp, decode_err_resp, device_rvalid, device_rdata,
          core_instr_rvalid, core_instr_sel_dbg, instr, id_fsm_q, ls_fsm_cs, fetch, fetched,
          ndmreset, state_q, sba, owed, fetch_owed, denied>>
---------------------------------------------------------------------------
(* The requests of this cycle.  The second half of a split access goes to  *)
(* the next word, which may be another device's.                           *)
lsu_req == instr # Nothing /\ id_fsm_q = "FIRST_CYCLE"
CoreRequests_UntilResponse == ~ndmreset /\ (lsu_req \/ ls_fsm_cs # "IDLE")
CoreRequests == ~ndmreset /\ (lsu_req \/ ls_fsm_cs \in {"WAIT_GNT", "WAIT_GNT_MIS", "WAIT_RVALID_MIS"})
SecondHalf == ls_fsm_cs = "WAIT_RVALID_MIS" \/ (ls_fsm_cs = "WAIT_GNT" /\ instr.split # Nothing)
DebuggerRequests == state_q \in {"Read", "Write"} /\ sba.ok

host_req == [h \in Hosts |-> IF h = "CoreD" THEN CoreRequests ELSE DebuggerRequests]

(* The lowest index wins: CoreD is 0                                       *)
host_sel_req == IF host_req["DbgHost"] /\ ~host_req["CoreD"] THEN "DbgHost" ELSE "CoreD"
host_sel_valid == \E h \in Hosts : host_req[h]

CoreAddress == IF SecondHalf THEN instr.split ELSE instr.addr
host_addr == IF host_sel_req = "DbgHost" THEN sba.addr ELSE CoreAddress
device_sel_valid == host_sel_valid /\ host_addr \in Devices
device_sel_req == IF device_sel_valid THEN host_addr ELSE Ram
device_req == [d \in Devices |-> device_sel_valid /\ d = device_sel_req]

host_gnt_Always == host_req
host_gnt == [h \in Hosts |-> h = host_sel_req /\ host_req[h]]

(* The responses of this cycle                                             *)
host_rvalid_NoDecodeError == [h \in Hosts |-> h = host_sel_resp /\ device_rvalid[device_sel_resp]]
host_rvalid == [h \in Hosts |-> /\ h = host_sel_resp
                                /\ device_rvalid[device_sel_resp] \/ decode_err_resp]
host_err == [h \in Hosts |-> h = host_sel_resp /\ decode_err_resp]
host_rdata == device_rdata[device_sel_resp]

(* The fetch port                                                          *)
core_instr_req == fetch # Nothing /\ ~ndmreset
dbg_instr_req == core_instr_req /\ fetch = DbgDev
core_instr_gnt_Unarbitrated == core_instr_req /\ fetch \in {Ram, DbgDev}
core_instr_gnt_RamOnly == core_instr_req /\ fetch = Ram
core_instr_gnt == core_instr_req /\ (fetch = Ram \/ (dbg_instr_req /\ ~device_req[DbgDev]))
---------------------------------------------------------------------------
Init == /\ host_sel_resp = "CoreD" /\ device_sel_resp = Ram /\ decode_err_resp = FALSE
        /\ device_rdata = [d \in Devices |-> d]
        /\ device_rvalid = [d \in Devices |-> FALSE]
        /\ core_instr_rvalid = FALSE /\ core_instr_sel_dbg = FALSE
        /\ instr = Nothing /\ id_fsm_q = "FIRST_CYCLE" /\ ls_fsm_cs = "IDLE" /\ fetch = Nothing /\ fetched = 0
        /\ ndmreset = FALSE /\ state_q = "Idle" /\ sba = Nothing
        /\ owed = [h \in Hosts |-> Nothing] /\ fetch_owed = FALSE /\ denied = 0

BusClock == /\ host_sel_resp' = host_sel_req
            /\ device_sel_resp' = device_sel_req
            /\ decode_err_resp' = (host_sel_valid /\ ~device_sel_valid)
            /\ core_instr_rvalid' = core_instr_gnt
            /\ core_instr_sel_dbg' = dbg_instr_req

(* The debug memory has one port: a data access takes it from the fetch.   *)
(* A device the build leaves out drives nothing.                           *)
DeviceClock ==
  /\ device_rvalid' = [d \in Devices |-> device_req[d] /\ d \in Built]
  /\ device_rdata' = [d \in Devices |-> IF device_req[d] THEN d
                                          ELSE IF d = DbgDev /\ dbg_instr_req THEN Instr
                                          ELSE device_rdata[d]]

(* The debugger sets and clears ndmreset at any time                       *)
Debugger == ndmreset' \in BOOLEAN

(* ibex_load_store_unit without PMP                                        *)
ls_fsm_ns ==
  LET gnt == host_gnt["CoreD"]
      rvalid == host_rvalid["CoreD"]
      starts == ls_fsm_cs = "IDLE" /\ lsu_req
  IN CASE ls_fsm_cs = "IDLE" /\ ~lsu_req -> "IDLE"
       [] starts /\ instr.split = Nothing -> IF gnt THEN "IDLE" ELSE "WAIT_GNT"
       [] (starts /\ instr.split # Nothing) \/ ls_fsm_cs = "WAIT_GNT_MIS" ->
            IF gnt THEN "WAIT_RVALID_MIS" ELSE "WAIT_GNT_MIS"
       [] ls_fsm_cs = "WAIT_RVALID_MIS" /\ rvalid  -> IF gnt THEN "IDLE" ELSE "WAIT_GNT"
       [] ls_fsm_cs = "WAIT_RVALID_MIS" /\ ~rvalid ->
            IF gnt THEN "WAIT_RVALID_MIS_GNTS_DONE" ELSE ls_fsm_cs
       [] ls_fsm_cs = "WAIT_GNT"                   -> IF gnt THEN "IDLE" ELSE "WAIT_GNT"
       [] ls_fsm_cs = "WAIT_RVALID_MIS_GNTS_DONE"  -> IF rvalid THEN "IDLE" ELSE ls_fsm_cs
lsu_resp_valid == host_rvalid["CoreD"] /\ ls_fsm_cs = "IDLE"

(* The ID stage makes one request per instruction, in its first cycle, and *)
(* holds the instruction until the response                                *)
IdStalls == lsu_req \/ (id_fsm_q = "MULTI_CYCLE" /\ ~lsu_resp_valid)
Arrived == IF core_instr_rvalid THEN fetched + 1 ELSE fetched
CoreClock ==
  \/ /\ ndmreset'
     /\ instr' = Nothing /\ id_fsm_q' = "FIRST_CYCLE" /\ ls_fsm_cs' = "IDLE" /\ fetched' = 0
  \/ /\ ~ndmreset' /\ IdStalls
     /\ id_fsm_q' = "MULTI_CYCLE" /\ ls_fsm_cs' = ls_fsm_ns /\ fetched' = Arrived
     /\ UNCHANGED instr
  \/ /\ ~ndmreset' /\ ~IdStalls
     /\ \/ instr' \in CoreAccess /\ fetched > 0 /\ fetched' = Arrived - 1
        \/ instr' = Nothing /\ fetched' \in 0..Arrived   \* other instructions, a branch
     /\ id_fsm_q' = "FIRST_CYCLE" /\ ls_fsm_cs' = ls_fsm_ns

(* ibex_prefetch_buffer holds a request that was not granted and makes one *)
(* only if its answer will have room                                       *)
FetchClock ==
  \/ ndmreset' /\ fetch' = Nothing
  \/ ~ndmreset' /\ core_instr_req /\ ~core_instr_gnt /\ UNCHANGED fetch
  \/ ~ndmreset' /\ (core_instr_req => core_instr_gnt) /\ fetch' = Nothing
  \/ /\ ~ndmreset' /\ (core_instr_req => core_instr_gnt)
     /\ fetched' + (IF core_instr_gnt THEN 1 ELSE 0) < Buffer
     /\ fetch' \in {Ram, DbgDev, Unmapped}

(* dm_sba.  A size or alignment error ends the access without a request;   *)
(* dm_csrs refuses a new access while one is under way.                    *)
SbaClock ==
  \/ /\ state_q = "Idle"
     /\ \/ UNCHANGED <<state_q, sba>>
        \/ sba' \in DbgAccess /\ state_q' = (IF sba'.we THEN "Write" ELSE "Read")
  \/ /\ state_q \in {"Read", "Write"} /\ sba.ok
     /\ state_q' = IF ~host_gnt["DbgHost"] THEN state_q
                   ELSE IF state_q = "Read" THEN "WaitRead" ELSE "WaitWrite"
     /\ UNCHANGED sba
  \/ /\ \/ state_q \in {"WaitRead", "WaitWrite"} /\ host_rvalid["DbgHost"]
        \/ state_q # "Idle" /\ ~sba.ok
     /\ state_q' = "Idle" /\ sba' = Nothing
  \/ /\ state_q \in {"WaitRead", "WaitWrite"} /\ ~host_rvalid["DbgHost"]
     /\ UNCHANGED <<state_q, sba>>

History ==
  /\ owed' = [h \in Hosts |->
                IF ~host_gnt[h] \/ (h = "CoreD" /\ ndmreset') THEN Nothing
                ELSE IF h = "CoreD" THEN CoreAddress ELSE sba.addr]
  /\ fetch_owed' = (core_instr_gnt /\ ~ndmreset')
  /\ denied' = IF host_req["DbgHost"] /\ ~host_gnt["DbgHost"] /\ denied < MostDenied
               THEN denied + 1 ELSE IF host_req["DbgHost"] /\ ~host_gnt["DbgHost"] THEN denied ELSE 0

Next == BusClock /\ DeviceClock /\ Debugger /\ CoreClock /\ FetchClock /\ SbaClock /\ History

(* A clock                                                                 *)
Spec == Init /\ [][Next]_vars
FairSpec == Spec /\ WF_vars(Next)
---------------------------------------------------------------------------
TypeOK == /\ host_sel_resp \in Hosts /\ device_sel_resp \in Devices /\ decode_err_resp \in BOOLEAN
          /\ device_rvalid \in [Devices -> BOOLEAN]
          /\ device_rdata \in [Devices -> Devices \cup {Instr}]
          /\ core_instr_rvalid \in BOOLEAN /\ core_instr_sel_dbg \in BOOLEAN
          /\ instr \in {Nothing} \cup CoreAccess /\ id_fsm_q \in {"FIRST_CYCLE", "MULTI_CYCLE"}
          /\ ls_fsm_cs \in {"IDLE", "WAIT_GNT", "WAIT_GNT_MIS", "WAIT_RVALID_MIS",
                            "WAIT_RVALID_MIS_GNTS_DONE"}
          /\ fetch \in {Nothing, Ram, DbgDev, Unmapped} /\ fetched \in 0..Buffer /\ ndmreset \in BOOLEAN
          /\ state_q \in {"Idle", "Read", "Write", "WaitRead", "WaitWrite"}
          /\ sba \in {Nothing} \cup DbgAccess
          /\ owed \in [Hosts -> {Nothing} \cup Address] /\ fetch_owed \in BOOLEAN /\ denied \in 0..MostDenied

(* Each host that was granted gets exactly one response, in the next       *)
(* cycle, with the data of the device it addressed (a decode error for an  *)
(* address nobody claims), whoever the bus is serving by then; the other   *)
(* host sees none of it (bus.sv keeps who was served, not what was asked). *)
(* A device that was not built is the exception: nobody answers.           *)
ResponseToAsker ==
  \A h \in Hosts : (h = "CoreD" => ~ndmreset) =>
    /\ host_rvalid[h] = (owed[h] \in Built \cup {Unmapped})
    /\ host_err[h] = (owed[h] = Unmapped)
    /\ owed[h] \in Built => host_rdata = owed[h]

(* A granted fetch gets an instruction, never the word a data access read  *)
(* from the shared debug memory in the same cycle.                         *)
FetchGetsInstruction ==
  ~ndmreset => /\ core_instr_rvalid = fetch_owed
               /\ core_instr_rvalid /\ core_instr_sel_dbg => device_rdata[DbgDev] = Instr

(* Strict priority does not starve the debugger: the core leaves the bus   *)
(* free in the cycle of its last response, so that the debugger waits two  *)
(* cycles at most (both halves of a split access).                         *)
DebuggerWaitsTwoCycles == denied <= 2

(* Every access comes to an end, one to an address nobody claims included, *)
(* but for those that nobody answers (ibex_demo_system.sv:165, 404).  The  *)
(* debugger's end also while the core hangs in such an access, or in a     *)
(* fetch that is never granted, and the core's while the debugger does.    *)
Answered == Built \cup {Unmapped, Nothing}
AccessesEnd ==
  /\ state_q # "Idle" /\ sba.addr \in Answered ~> state_q = "Idle"
  /\ id_fsm_q = "MULTI_CYCLE" /\ {instr.addr, instr.split} \subseteq Answered
       ~> id_fsm_q = "FIRST_CYCLE"

(* A fetch from either memory is granted, from the debug memory although   *)
(* the data accesses of both hosts take its port first.  Any other address *)
(* is not (ibex_demo_system.sv:220).                                       *)
FetchGranted == core_instr_req /\ fetch # Unmapped ~> ~core_instr_req \/ core_instr_gnt
=============================================================================
