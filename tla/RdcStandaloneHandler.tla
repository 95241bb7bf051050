----------------------- MODULE RdcStandaloneHandler -------------------------
(***************************************************************************)
(* RdcStandaloneHandler: what a call gives its caller, given the reply     *)
(* gRPC came back with.  Before the RPC a null out pointer is refused; the *)
(* request carries the arguments unchanged.                                *)
(***************************************************************************)
EXTENDS Integers, FiniteSets

CONSTANTS
  Junk,                        \* what an out pointer points to when not written
  RDC_MAX_NUM_DEVICES,
  RDC_MAX_NUM_GROUPS,
  RDC_MAX_NUM_FIELD_GROUPS,
  RDC_GROUP_MAX_ENTITIES,
  RDC_MAX_FIELD_IDS_PER_FIELD_GROUP,
  MAX_TEST_CASES

Result(status, out) == [status |-> status, out |-> out]

\* An RPC that failed is RDC_ST_CLIENT_ERROR, whatever the reply holds.
error_handle(r) == IF r.rpc # "OK" THEN "CLIENT_ERROR" ELSE r.status

\* The status, and what the caller gets when it is good.
Copied(r, out) ==
  IF error_handle(r) # "OK" THEN Result(error_handle(r), Junk)
  ELSE Result("OK", out)

\* The same with a limit on how much there may be to copy.
CopiedWithin(r, fits, status) ==
  IF error_handle(r) = "OK" /\ ~fits THEN Result(status, Junk)
  ELSE Copied(r, r.content)

rdc_job_start_stats(r) == Copied(r, Junk)

copy_gpu_usage_info(src) == [x \in DOMAIN src |-> src[x]]

rdc_job_get_stats(r) ==
  IF error_handle(r) # "OK" THEN Result(error_handle(r), Junk)
  ELSE Result("OK", [num_gpus |-> r.content.num_gpus,
                     summary |-> copy_gpu_usage_info(r.content.summary),
                     gpus |-> [i \in DOMAIN r.content.gpus |->
                                 copy_gpu_usage_info(r.content.gpus[i])]])

rdc_job_stop_stats(r) == Copied(r, Junk)
rdc_job_remove(r) == Copied(r, Junk)
rdc_job_remove_all(r) == Copied(r, Junk)

rdc_device_get_all(r) ==
  CopiedWithin(r, Cardinality(r.content) <= RDC_MAX_NUM_DEVICES, "BAD_PARAMETER")

rdc_device_get_attributes(r) == Copied(r, r.content)
rdc_device_get_component_version(r) == Copied(r, r.content)
rdc_group_gpu_create(r) == Copied(r, r.content)
rdc_group_gpu_add(r) == Copied(r, Junk)
rdc_group_field_create(r) == Copied(r, r.content)

rdc_group_field_get_info(r) ==
  CopiedWithin(r, Cardinality(r.content) <= RDC_MAX_FIELD_IDS_PER_FIELD_GROUP,
               "MAX_LIMIT")

\* Mutant: a full group is refused.
GroupGpuGetInfoStrict(r) ==
  CopiedWithin(r, Cardinality(r.content) < RDC_GROUP_MAX_ENTITIES, "MAX_LIMIT")

rdc_group_gpu_get_info(r) ==
  CopiedWithin(r, Cardinality(r.content) <= RDC_GROUP_MAX_ENTITIES, "MAX_LIMIT")

\* A list as long as the limit is refused too.
rdc_group_get_all_ids(r) ==
  CopiedWithin(r, Cardinality(r.content) < RDC_MAX_NUM_GROUPS, "MAX_LIMIT")

rdc_group_field_get_all_ids(r) ==
  CopiedWithin(r, Cardinality(r.content) < RDC_MAX_NUM_FIELD_GROUPS, "MAX_LIMIT")

rdc_group_gpu_destroy(r) == Copied(r, Junk)
rdc_group_field_destroy(r) == Copied(r, Junk)
rdc_field_watch(r) == Copied(r, Junk)

\* The member of the union is chosen by the type that came along.
rdc_field_get_latest_value(r) == Copied(r, r.content)
rdc_field_get_value_since(r) == Copied(r, r.content)
rdc_field_unwatch(r) == Copied(r, Junk)

\* A diagnosis is the set of its results; each has the results of its GPUs.
rdc_diagnostic_run(r) ==
  CopiedWithin(r, /\ Cardinality(r.content) <= MAX_TEST_CASES
                  /\ \A d \in r.content : Cardinality(d.gpus) <= RDC_MAX_NUM_DEVICES,
               "BAD_PARAMETER")

rdc_test_case_run(r) ==
  CopiedWithin(r, \A d \in r.content : Cardinality(d.gpus) <= RDC_MAX_NUM_DEVICES,
               "BAD_PARAMETER")

rdc_field_update_all(r) == Copied(r, Junk)
get_mixed_component_version(r) == Copied(r, r.content)
=============================================================================
