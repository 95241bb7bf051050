-------------------------- MODULE RdcSmiDiagnostic --------------------------
(***************************************************************************)
(* RdcSmiDiagnosticImpl: the three diagnostic tests made of questions to   *)
(* amd_smi_lib.  A test reads and reports; its messages are left out, its  *)
(* status, its list of GPUs and its early returns are kept.                *)
(*                                                                         *)
(* A result is [status, per_gpu]: rdc_diag_result_t, and the gpu_index of  *)
(* each entry of gpu_results up to per_gpu_result_count.                   *)
(***************************************************************************)
EXTENDS Integers, Sequences, FiniteSets, FiniteSetsExt

CONSTANT RDC_MAX_NUM_DEVICES   \* 128 in rdc.h

\* A response has room for the results of two GPUs.
ASSUME SmiConstants == RDC_MAX_NUM_DEVICES \in Nat /\ 2 <= RDC_MAX_NUM_DEVICES

\* rdc_diag_result_t, in the order of the enumeration.
PASS == 0
SKIP == 1
WARN == 2
FAIL == 3

\* A reading amd_smi_lib does not give.
Unread == -1
Over(current, limit) == limit # Unread /\ current >= limit
Under(current, limit) == limit # Unread /\ current <= limit

\* Mutant: a maximum that is passed after the critical limit lowers the result.
check_temperature_levelLast(t) ==
  IF t.current = Unread THEN PASS
  ELSE IF Over(t.current, t.max) \/ Under(t.current, t.min) THEN WARN
  ELSE IF Over(t.current, t.critical) \/ Under(t.current, t.crit_min) THEN FAIL
  ELSE PASS

\* check_temperature_level.  The emergency limit is read, and what is compared
\* is critical_temp, which is 0 when the critical limit could not be read.
check_temperature_level(t) ==
  LET critical_temp == IF t.critical = Unread THEN 0 ELSE t.critical
  IN  IF t.current = Unread THEN PASS
      ELSE IF \/ Over(t.current, t.critical)
              \/ t.emergency # Unread /\ t.current >= critical_temp
              \/ Under(t.current, t.crit_min) THEN FAIL
      ELSE IF Over(t.current, t.max) \/ Under(t.current, t.min) THEN WARN
      ELSE PASS

\* amd_smi_lib refuses a question about the null handle.
OfNullHandle(limit) == Unread

\* check_voltage_level.  The two critical limits are asked of the null handle.
check_voltage_level(v) ==
  IF v.current = Unread THEN PASS
  ELSE IF \/ Over(v.current, OfNullHandle(v.max_crit))
          \/ Under(v.current, OfNullHandle(v.min_crit)) THEN FAIL
  ELSE IF Over(v.current, v.max) \/ Under(v.current, v.min) THEN WARN
  ELSE PASS

\* check_smi_param_info.  temps and volts: GPU -> its sensors, a set each.  Every
\* turn writes its gpu_index to the first of the gpu_results, where that of the
\* last GPU stays.
check_smi_param_info(gpus, temps, volts) ==
  LET levels(g) == {check_temperature_level(t) : t \in temps[g]}
                     \cup {check_voltage_level(v) : v \in volts[g]}
  IN  [status  |-> Max({PASS} \cup UNION {levels(g) : g \in Range(gpus)}),
       per_gpu |-> [i \in DOMAIN gpus |-> IF i = 1 THEN gpus[Len(gpus)] ELSE 0]]

\* "Skip the process does not occupy any GPUs."
Occupies(p) == p.cu_occupancy > 0

\* The members of a set of numbers, in order.
InTurn(S) ==
  CHOOSE s \in [1 .. Cardinality(S) -> S] : \A i, j \in DOMAIN s : i < j => s[i] < s[j]

\* check_smi_process_info.  listed: amd_smi_lib gives the processes, procs; a
\* process whose devices it does not give has none.
check_smi_process_info(gpus, listed, procs) ==
  LET busy   == UNION {p.devices : p \in {q \in procs : Occupies(q)}}
      inturn == InTurn(busy)
  IN  IF ~listed THEN [status |-> SKIP, per_gpu |-> <<>>]
      ELSE [status  |-> IF busy \cap Range(gpus) # {} THEN FAIL ELSE PASS,
            per_gpu |-> SubSeq(inturn, 1, Min({Len(inturn), RDC_MAX_NUM_DEVICES}))]

\* check_smi_topo_info.  The weight asked for is that of a GPU to itself.
check_smi_topo_info(gpus, link) ==
  LET pairs == {g \in Range(gpus) : \E h \in Range(gpus) : h # g}
  IN  [status  |-> IF \E g \in pairs : <<g, g>> \notin link THEN FAIL ELSE PASS,
       per_gpu |-> <<>>]

-----------------------------------------------------------------------------
(***************************************************************************)
(* The tests against what they are for, over small readings.               *)
(***************************************************************************)
Readings(n) == Unread .. n
SomeTemps(n) == [current : Readings(n), max : Readings(n), min : {Unread, 0},
                 critical : Readings(n), emergency : Readings(n), crit_min : {Unread, 0}]
SomeVolts(n) == [current : Readings(n), max : Readings(n), min : Readings(n),
                 max_crit : Readings(n), min_crit : Readings(n)]

\* The limits as the driver gives them: an emergency limit comes with a critical
\* one, and is not below it.
Ordered(t) == t.emergency # Unread => t.critical # Unread /\ t.critical <= t.emergency

\* What the limits say: failed at or past a critical or emergency limit, warned
\* at or past an ordinary one.
TempLevel(t) ==
  CASE t.current = Unread -> PASS
    [] t.current # Unread /\ (Over(t.current, t.critical) \/ Over(t.current, t.emergency)
                              \/ Under(t.current, t.crit_min)) -> FAIL
    [] OTHER -> IF Over(t.current, t.max) \/ Under(t.current, t.min) THEN WARN ELSE PASS

\* Whatever can be read, a temperature gets the level its limits give it, as long
\* as an emergency limit comes with a critical one; and a voltage is warned of at
\* its maximum and minimum, and never failed, its critical limits being asked of
\* no device.
LevelsRight(n) ==
  /\ \A t \in SomeTemps(n) : Ordered(t) => check_temperature_level(t) = TempLevel(t)
  /\ \A v \in SomeVolts(n) :
       check_voltage_level(v) =
         IF v.current # Unread /\ (Over(v.current, v.max) \/ Under(v.current, v.min))
         THEN WARN ELSE PASS

\* The test fails exactly when a GPU of the group is occupied by a process; an
\* entry that a process left behind, or a process on a GPU outside the group,
\* does not fail it.
BusyGpusFail(gpus, someprocs) ==
  \A procs \in SUBSET someprocs :
    LET r == check_smi_process_info(gpus, TRUE, procs)
    IN  /\ r.status = FAIL <=> \E p \in procs : p.cu_occupancy > 0
                                 /\ \E i \in DOMAIN gpus : gpus[i] \in p.devices
        /\ r.status \in {PASS, FAIL}
        /\ Range(r.per_gpu) = {g \in UNION {p.devices : p \in procs} :
                                 \E p \in procs : g \in p.devices /\ p.cu_occupancy > 0}
=============================================================================
