------------------------------ MODULE MCRdcApi ------------------------------
(* Instance of RdcApi for TLC: two clients, two GPUs. *)
EXTENDS RdcApi

MCBdf == [g \in GPUs |-> 768 + g]

MCValues ==
  {[type |-> "INTEGER", value |-> "7", blanks |-> FALSE],
   [type |-> "DOUBLE", value |-> "0.5", blanks |-> FALSE],
   [type |-> "STRING", value |-> "text", blanks |-> TRUE]}

\* gpu_id is never written.
MCUsage == [x \in Service!GpuUsageInfo |-> IF x = "gpu_id" THEN Junk ELSE "number"]

MCDiagnoses == {{[case |-> "memory", gpus |-> GPUs]}}

Changing ==
  [op \in {"group_gpu_create", "group_gpu_add", "group_gpu_destroy", "update_all"} |->
    CASE op = "group_gpu_create" -> {"RDC_GROUP_DEFAULT"}
      [] op = "group_gpu_add" -> {0}
      [] op = "group_gpu_destroy" -> {}
      [] op = "update_all" -> {0}]

Reading ==
  [op \in {"device_get_all", "device_get_attributes", "component_version",
           "group_gpu_get_info", "group_get_all_ids", "group_field_get_all_ids",
           "group_field_create", "group_field_get_info", "group_field_destroy",
           "field_watch", "field_latest", "field_since", "field_unwatch", "job_start", "job_get",
           "job_stop", "job_remove", "job_remove_all", "diagnostic_run", "test_case_run",
           "mixed_version"} |->
    CASE op = "device_get_attributes" -> {0, 7}
      [] op = "component_version" -> {"smi", "other"}
      [] op = "mixed_version" -> {"rdcd", "other"}
      [] op = "group_field_create" -> {{"clk"}, {"clk", "bad"}}
      [] op \in {"group_field_get_info", "group_field_destroy"} -> {0, 1}
      [] op \in {"field_latest", "field_since"} -> {"clk", "bad"}
      [] op \in {"group_gpu_get_info", "diagnostic_run", "test_case_run"} -> {0, 1}
      [] OTHER -> {0}]

MCMaxCalls == <<2, 1>>

\* The first client uses the calls that change groups, the second the others and
\* some of these.
MCCalls ==
  <<Changing, [op \in {"group_gpu_create", "update_all"} \cup DOMAIN Reading |->
                 CASE op = "group_gpu_create" -> {"RDC_GROUP_EMPTY", "RDC_GROUP_DEFAULT"}
                   [] op = "update_all" -> {0, 1}
                   [] OTHER -> Reading[op]]>>
=============================================================================
