--------------------------- MODULE MCRdcWatchTable --------------------------
(***************************************************************************)
(* Instances of RdcWatchTable for TLC.  ReadyInit is the state after two   *)
(* clients have each created a group and filled it with every GPU:         *)
(* starting there keeps the runs about time, sampling and eviction small.  *)
(***************************************************************************)
EXTENDS RdcWatchTable

MCBdf == [g \in GPUs |-> 768 + g]

TwoGroups ==
  /\ gpu_group_ = [g \in 1 .. 2 |-> GPUs]
  /\ cur_group_id_ = 3

OnlyJobFields ==
  /\ field_group_ = MapPut(EmptyMap, JOB_FIELD_ID, JobFields)
  /\ cur_field_group_id_ = 1

RestInit ==
  /\ NotifInit
  /\ cache_samples_ = [k \in RdcFieldKey |-> <<>>]
  /\ watch_table_ = EmptyMap /\ fields_to_watch_ = EmptyMap /\ watched_keys = EmptyMap
  /\ smi_data_ = {}
  /\ last_cleanup_time_ = 0
  /\ clock = StartTime

ReadyInit == TwoGroups /\ OnlyJobFields /\ RestInit

ReadySpec == ReadyInit /\ [][Next]_vars

\* A slow watch that keeps little, a frequent one that keeps more.
MCRequests ==
  {[freq |-> 2000, age |-> 0, keep |-> 1], [freq |-> 500, age |-> 1, keep |-> 2]}

\* The fields and events of one client, and the events of another.
MCFieldSets == {{"clk", "vmfault"}, {"vmfault", "reset"}}
=============================================================================
