-------------------------- MODULE RdcGroupSettings --------------------------
(***************************************************************************)
(* RdcGroupSettingsImpl: the registry of GPU groups and of field groups.   *)
(*                                                                         *)
(* A group is the set of its members: the code keeps an array, refuses a   *)
(* GPU that is already in it, and nothing else depends on the order.       *)
(* Every operation runs under one mutex (group_mutex_ or                   *)
(* field_group_mutex_), hence is one atomic action.  A refused call        *)
(* (RDC_ST_MAX_LIMIT, RDC_ST_NOT_FOUND, RDC_ST_BAD_PARAMETER) changes      *)
(* nothing: it is a stuttering step.                                       *)
(***************************************************************************)
EXTENDS RdcCommon, FiniteSets

CONSTANTS
  JobFields,                   \* fields of the system group JOB_FIELD_ID
  FieldSets,                   \* field sets clients ask a group for
  RDC_MAX_NUM_GROUPS,
  RDC_MAX_NUM_FIELD_GROUPS,
  RDC_GROUP_MAX_ENTITIES,
  MaxGroupId,                  \* bound: GPU groups created in a behaviour
  MaxFieldGroupId              \* bound: field groups created in a behaviour

ASSUME GroupConstants ==
  /\ JobFields \subseteq Fields
  /\ FieldSets \subseteq SUBSET Fields
  /\ RDC_MAX_NUM_GROUPS \in Nat
  /\ RDC_MAX_NUM_FIELD_GROUPS \in Nat \ {0}
  /\ RDC_GROUP_MAX_ENTITIES \in Nat
  /\ MaxGroupId \in Nat
  /\ MaxFieldGroupId \in Nat

VARIABLES
  gpu_group_,                  \* group id -> set of GPU indices
  cur_group_id_,               \* id of the next GPU group
  field_group_,                \* field group id -> set of field ids
  cur_field_group_id_          \* id of the next field group

gvars == <<gpu_group_, cur_group_id_, field_group_, cur_field_group_id_>>

\* The system field group of the job statistics.
JOB_FIELD_ID == 0

GroupInit ==
  /\ gpu_group_ = EmptyMap
  /\ cur_group_id_ = 1
  /\ field_group_ = MapPut(EmptyMap, JOB_FIELD_ID, JobFields)
  /\ cur_field_group_id_ = 1

\* Mutant: the least free id is handed out again.
GroupGpuCreateReusing ==
  LET free == {g \in 1 .. MaxGroupId : g \notin DOMAIN gpu_group_}
  IN  /\ free # {}
      /\ Cardinality(DOMAIN gpu_group_) < RDC_MAX_NUM_GROUPS
      /\ \E g \in free :
           /\ \A h \in free : g <= h
           /\ gpu_group_' = MapPut(gpu_group_, g, {})
           /\ cur_group_id_' = IF g < cur_group_id_ THEN cur_group_id_ ELSE g + 1
      /\ UNCHANGED <<field_group_, cur_field_group_id_>>

\* rdc_group_gpu_create: ids are handed out in order and never reused.
GroupGpuCreate ==
  /\ cur_group_id_ <= MaxGroupId
  /\ Cardinality(DOMAIN gpu_group_) < RDC_MAX_NUM_GROUPS
  /\ gpu_group_' = MapPut(gpu_group_, cur_group_id_, {})
  /\ cur_group_id_' = cur_group_id_ + 1
  /\ UNCHANGED <<field_group_, cur_field_group_id_>>

\* rdc_group_gpu_destroy: erases the group whoever is still using it.
GroupGpuDestroy(g) ==
  /\ g \in DOMAIN gpu_group_
  /\ gpu_group_' = MapErase(gpu_group_, {g})
  /\ UNCHANGED <<cur_group_id_, field_group_, cur_field_group_id_>>

\* rdc_group_gpu_add, behind the handler's check that the GPU exists.
GroupGpuAdd(g, gpu) ==
  /\ g \in DOMAIN gpu_group_
  /\ gpu \notin gpu_group_[g]
  /\ Cardinality(gpu_group_[g]) < RDC_GROUP_MAX_ENTITIES
  /\ gpu_group_' = MapPut(gpu_group_, g, gpu_group_[g] \cup {gpu})
  /\ UNCHANGED <<cur_group_id_, field_group_, cur_field_group_id_>>

\* rdc_group_field_create, behind the handler's check of the field ids.
GroupFieldCreate(fields) ==
  /\ cur_field_group_id_ <= MaxFieldGroupId
  /\ Cardinality(DOMAIN field_group_) < RDC_MAX_NUM_FIELD_GROUPS
  /\ field_group_' = MapPut(field_group_, cur_field_group_id_, fields)
  /\ cur_field_group_id_' = cur_field_group_id_ + 1
  /\ UNCHANGED <<gpu_group_, cur_group_id_>>

\* rdc_group_field_destroy: the job field group cannot be destroyed.
GroupFieldDestroy(f) ==
  /\ f # JOB_FIELD_ID
  /\ f \in DOMAIN field_group_
  /\ field_group_' = MapErase(field_group_, {f})
  /\ UNCHANGED <<gpu_group_, cur_group_id_, cur_field_group_id_>>

\* get_fields_from_group: RDC_ST_OK exactly when both groups exist ...
HasFields(g, f) == g \in DOMAIN gpu_group_ /\ f \in DOMAIN field_group_

\* ... and then the (gpu, field) keys are the product of the two groups.
FieldsOf(g, f) == gpu_group_[g] \X field_group_[f]

GroupTypeOK ==
  /\ cur_group_id_ \in Nat \ {0} /\ cur_field_group_id_ \in Nat
  /\ DOMAIN gpu_group_ \subseteq 1 .. (cur_group_id_ - 1)
  /\ gpu_group_ \in [DOMAIN gpu_group_ -> SUBSET GPUs]
  /\ DOMAIN field_group_ \subseteq 0 .. (cur_field_group_id_ - 1)
  /\ field_group_ \in [DOMAIN field_group_ -> SUBSET Fields]
=============================================================================
