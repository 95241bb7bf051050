------------------------- MODULE RdcEmbeddedHandler -------------------------
(***************************************************************************)
(* RdcEmbeddedHandler: the library behind a handle of rdc_start_embedded.  *)
(*                                                                         *)
(* An operation gives an answer: a status and, when it has one, what it    *)
(* wrote through its out pointer.  An operation that reads is the set of   *)
(* the answers it may give in the current state.  Those that change the    *)
(* groups are written with the actions of RdcGroupSettings.  The watch     *)
(* table, the job tables, the sample cache and the diagnostics are modules *)
(* of their own: here they answer with any status and value they may have. *)
(***************************************************************************)
EXTENDS RdcGroupSettings

CONSTANTS
  Junk,                        \* what is in memory nobody wrote to
  SmiMayFail,                  \* may fetch_smi_field fail?
  RDC_MAX_FIELD_IDS_PER_FIELD_GROUP,
  Values,                      \* values a sample may have
  Usage,                       \* the statistics of a GPU, or of all of them
  Diagnoses                    \* results a diagnostic run may have

ASSUME EmbeddedConstants ==
  /\ SmiMayFail \in BOOLEAN
  /\ RDC_MAX_FIELD_IDS_PER_FIELD_GROUP \in Nat

Ok(out) == [status |-> "OK", out |-> out]
Err(status) == [status |-> status, out |-> Junk]

\* The answer of a call of the SMI library: good, or its error.
Smi(good) == {good} \cup (IF SmiMayFail THEN {Err("SMI_ERROR")} ELSE {})

-----------------------------------------------------------------------------
(* Discovery *)

rdc_device_get_all == Smi(Ok(GPUs))

\* The name is copied out whether the fetch worked or not.
rdc_device_get_attributes(gpu) ==
  IF gpu \in GPUs THEN Smi(Ok("name")) ELSE {Err("SMI_ERROR")}

rdc_device_get_component_version(component) ==
  IF component = "smi" THEN Smi(Ok("version")) ELSE {Err("BAD_PARAMETER")}

\* Only the client handler asks for it; this one answers without a word.
get_mixed_component_version == {Ok(Junk)}

-----------------------------------------------------------------------------
(* Groups *)

rdc_group_gpu_get_info(g) ==
  {IF g \in DOMAIN gpu_group_ THEN Ok(gpu_group_[g]) ELSE Err("NOT_FOUND")}

rdc_group_field_get_info(f) ==
  {IF f \in DOMAIN field_group_ THEN Ok(field_group_[f]) ELSE Err("NOT_FOUND")}

rdc_group_get_all_ids == {Ok(DOMAIN gpu_group_)}

\* The system group is left out.
rdc_group_field_get_all_ids == {Ok(DOMAIN field_group_ \ {JOB_FIELD_ID})}

\* Each of the next five changes the groups when it can; ans is its answer.
CreateEmpty(ans) ==
  IF Cardinality(DOMAIN gpu_group_) >= RDC_MAX_NUM_GROUPS
  THEN ans = Err("MAX_LIMIT") /\ UNCHANGED gvars
  ELSE ans = Ok(cur_group_id_) /\ GroupGpuCreate

\* The devices are listed first, so a bad index is refused before a bad group.
rdc_group_gpu_add(g, gpu, ans) ==
  \E devices \in rdc_device_get_all :
    LET refused == IF devices.status # "OK" THEN devices.status
                   ELSE IF gpu \notin devices.out \/ g \notin DOMAIN gpu_group_
                     THEN "NOT_FOUND"
                   ELSE IF gpu \in gpu_group_[g] THEN "BAD_PARAMETER"
                   ELSE IF Cardinality(gpu_group_[g]) >= RDC_GROUP_MAX_ENTITIES
                     THEN "MAX_LIMIT" ELSE "no"
    IN  IF refused # "no" THEN ans = Err(refused) /\ UNCHANGED gvars
        ELSE ans = Ok(Junk) /\ GroupGpuAdd(g, gpu)

rdc_group_gpu_destroy(g, ans) ==
  IF g \in DOMAIN gpu_group_ THEN ans = Ok(Junk) /\ GroupGpuDestroy(g)
  ELSE ans = Err("NOT_FOUND") /\ UNCHANGED gvars

rdc_group_field_create(fields, ans) ==
  IF Cardinality(fields) > RDC_MAX_FIELD_IDS_PER_FIELD_GROUP
  THEN ans = Err("MAX_LIMIT") /\ UNCHANGED gvars
  ELSE IF ~(fields \subseteq Fields)
  THEN ans = Err("NOT_SUPPORTED") /\ UNCHANGED gvars
  ELSE IF Cardinality(DOMAIN field_group_) >= RDC_MAX_NUM_FIELD_GROUPS
  THEN ans = Err("MAX_LIMIT") /\ UNCHANGED gvars
  ELSE ans = Ok(cur_field_group_id_) /\ GroupFieldCreate(fields)

rdc_group_field_destroy(f, ans) ==
  IF f = JOB_FIELD_ID THEN ans = Err("BAD_PARAMETER") /\ UNCHANGED gvars
  ELSE IF f \in DOMAIN field_group_ THEN ans = Ok(Junk) /\ GroupFieldDestroy(f)
  ELSE ans = Err("NOT_FOUND") /\ UNCHANGED gvars

-----------------------------------------------------------------------------
(* Fields, jobs and diagnostics: handed on to the other components *)

rdc_field_watch == {Ok(Junk), Err("NOT_FOUND"), Err("CONFLICT")}

rdc_field_unwatch == {Ok(Junk), Err("NOT_FOUND")}

\* The newest sample, and a sample with the time of the next one.
rdc_field_get_latest_value(field) ==
  IF field \in Fields THEN {Err("NOT_FOUND")} \cup {Ok(v) : v \in Values}
  ELSE {Err("NOT_SUPPORTED")}

rdc_field_get_value_since(field) == rdc_field_get_latest_value(field)

\* get_gpu_gauges comes first; the gauges it misses are left out.
get_gpu_gauges == Smi(Ok(Junk))

WithGauges(answers) ==
  {g \in get_gpu_gauges : g.status # "OK"} \cup answers

rdc_job_start_stats == WithGauges({Ok(Junk), Err("ALREADY_EXIST"), Err("NOT_FOUND")})

\* num_gpus entries are announced; those filled are the ones whose index is a
\* GPU of the job.  
rdc_job_get_stats ==
  WithGauges({Err("NOT_FOUND")} \cup
    {Ok([num_gpus |-> Cardinality(S), summary |-> Usage,
         gpus |-> [i \in S |-> Usage]]) : S \in (SUBSET GPUs) \ {{}}})

rdc_job_stop_stats == WithGauges({Ok(Junk), Err("NOT_FOUND")})

rdc_job_remove == {Ok(Junk)}

\* The group is looked up; what the diagnostic module finds comes back.
Diagnosed(g, found) ==
  LET info == CHOOSE a \in rdc_group_gpu_get_info(g) : TRUE
  IN  IF info.status # "OK" THEN {info}
      ELSE {Ok(d) : d \in found} \cup {Err("NOT_SUPPORTED")}

rdc_diagnostic_run(g) == Diagnosed(g, Diagnoses)
rdc_test_case_run(g) == Diagnosed(g, {{d} : d \in UNION Diagnoses})
=============================================================================
