----------------------------- MODULE MCRdcJobs ------------------------------
(* Instances of RdcJobs for TLC: two clients, two jobs, two GPU groups. *)
EXTENDS RdcJobs

MCBdf == [g \in GPUs |-> 768 + g]

\* The state after two groups were created and filled with a GPU each.
ReadyInit ==
  /\ gpu_group_ = [g \in 1 .. 2 |-> {g - 1}]
  /\ cur_group_id_ = 3
  /\ field_group_ = MapPut(EmptyMap, JOB_FIELD_ID, JobFields)
  /\ cur_field_group_id_ = 1
  /\ NotifInit
  /\ cache_samples_ = [k \in RdcFieldKey |-> <<>>]
  /\ watch_table_ = EmptyMap /\ fields_to_watch_ = EmptyMap /\ watched_keys = EmptyMap
  /\ smi_data_ = {}
  /\ last_cleanup_time_ = 0
  /\ clock = StartTime
  /\ JobInit

ReadySpec == ReadyInit /\ [][JobNext]_allvars

\* Each client has its job.
OwnJobs == [c \in Clients |-> {c}]

\* Each job has its group.
OwnGroups == [j \in Jobs |-> {j}]
=============================================================================
