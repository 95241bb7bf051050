------------------------------ MODULE RdcJobs -------------------------------
(***************************************************************************)
(* Job statistics: rdc_job_start_stats, rdc_job_stop_stats, rdc_job_remove *)
(* and rdc_job_remove_all of RdcWatchTableImpl, over job_watch_table_ and  *)
(* the cache manager's cache_jobs_.                                        *)
(*                                                                         *)
(* These calls take watch_mutex_ several times and let go of it in between,*)
(* so a call is a sequence of steps: call[c] is where client c's call is.  *)
(* All other operations (watch, unwatch, update, groups) interleave.       *)
(***************************************************************************)
EXTENDS RdcWatchTable

CONSTANTS
  Clients,
  Jobs,                        \* job ids; < is the order of the std::map
  JobsOf,                      \* client -> the job ids it uses
  GroupsOf,                    \* job id -> the GPU groups it is started on
  JobFreq,                     \* update_freq of the jobs
  RemoveAll                    \* the clients that call rdc_job_remove_all

ASSUME JobConstants ==
  /\ Jobs \subseteq Nat
  /\ JobsOf \in [Clients -> SUBSET Jobs]
  /\ GroupsOf \in [Jobs -> SUBSET Nat]
  /\ JobFreq \in Nat
  /\ RemoveAll \subseteq Clients

VARIABLES
  job_watch_table_,            \* job id -> [group_id, fields]
  cache_jobs_,                 \* job id -> [ended, gpus, sampled]
  call,                        \* client -> the call it is in
  view                         \* history, per job: "running" from a start that
                               \* succeeded until a stop is asked for, "removed"
                               \* from a removal to the next call, "beside" in a
                               \* start that met a remove_all, else "none"

jvars == <<job_watch_table_, cache_jobs_, call, view>>
allvars == <<vars, jvars>>

\* No call: the client may make one.
Idle == [op |-> "none", at |-> "idle", job |-> 0, group |-> 0, todo |-> {}]

JobInit ==
  /\ job_watch_table_ = EmptyMap
  /\ cache_jobs_ = EmptyMap
  /\ call = [c \in Clients |-> Idle]
  /\ view = [j \in Jobs |-> "none"]

At(c, op, at) == call[c].op \in op /\ call[c].at = at
Goto(c, at) == call' = [call EXCEPT ![c].at = at]

\* The call of c returns and leaves its user with the view v of its job.
Return(c, v) ==
  /\ call' = [call EXCEPT ![c] = Idle]
  /\ view' = [view EXCEPT ![call[c].job] = v]

\* Is a call under way that starts the job?
Starting(j) == \E c \in Clients : call[c].op = "start" /\ call[c].job = j

RemovingAll == \E c \in Clients : call[c].op = "remove_all"

-----------------------------------------------------------------------------
(* rdc_job_start_stats *)

CallStart(c, j, g) ==
  /\ call[c] = Idle
  /\ call' = [call EXCEPT ![c] = [Idle EXCEPT !.op = "start", !.at = "check",
                                              !.job = j, !.group = g]]
  /\ view' = [view EXCEPT ![j] = "none"]
  /\ UNCHANGED <<vars, job_watch_table_, cache_jobs_>>

StartCheck(c) ==
  /\ At(c, {"start"}, "check")
  /\ IF call[c].job \in DOMAIN job_watch_table_
     THEN Return(c, "none")
     ELSE Goto(c, "register") /\ UNCHANGED view
  /\ UNCHANGED <<vars, job_watch_table_, cache_jobs_>>

\* The fields are looked up, then the job is registered under the mutex.
\* std::map::insert leaves an entry alone that another call made meanwhile.
StartRegister(c) ==
  LET j == call[c].job
      g == call[c].group
  IN  /\ At(c, {"start"}, "register")
      /\ IF ~HasFields(g, JOB_FIELD_ID) \/ FieldsOf(g, JOB_FIELD_ID) = {}
         THEN Return(c, "none") /\ UNCHANGED job_watch_table_
         ELSE /\ job_watch_table_' =
                   IF j \in DOMAIN job_watch_table_ THEN job_watch_table_
                   ELSE MapPut(job_watch_table_, j,
                          [group_id |-> g, fields |-> FieldsOf(g, JOB_FIELD_ID)])
              /\ Goto(c, "cache") /\ UNCHANGED view
      /\ UNCHANGED <<vars, cache_jobs_>>

\* The statistics rdc_job_start_stats of the cache manager makes.
NewStats(g) == [ended |-> FALSE, gpus |-> gpu_group_[g], sampled |-> {}]

\* The group is looked up again; when it is gone the call fails and the job
\* stays registered.  Otherwise fresh statistics replace any old ones.
StartCache(c) ==
  LET j == call[c].job
      g == call[c].group
  IN  /\ At(c, {"start"}, "cache")
      /\ IF ~HasFields(g, JOB_FIELD_ID)
         THEN Return(c, "none") /\ UNCHANGED cache_jobs_
         ELSE /\ cache_jobs_' = MapPut(cache_jobs_, j, NewStats(g))
              /\ Goto(c, "watch") /\ UNCHANGED view
      /\ UNCHANGED <<vars, job_watch_table_>>

\* The status of the watch is the status of the call: nothing is rolled back.
\* A start that did not overlap a remove_all leaves the job running.
StartWatch(c) ==
  /\ At(c, {"start"}, "watch")
  /\ \E r \in Status :
       /\ rdc_field_watch(call[c].group, JOB_FIELD_ID,
                          [freq |-> JobFreq, age |-> 0, keep |-> 0], r)
       /\ Return(c, IF r = "OK" /\ view[call[c].job] = "none" /\ ~RemovingAll
                    THEN "running" ELSE "none")
  /\ UNCHANGED <<job_watch_table_, cache_jobs_>>

-----------------------------------------------------------------------------
(* rdc_job_stop_stats, alone or inside rdc_job_remove and rdc_job_remove_all *)

Stopping == {"stop", "remove", "remove_all"}

LeastJob(S) == CHOOSE j \in S : \A i \in S : j <= i

\* The next job rdc_job_remove_all stops, in the order of its snapshot.
NextJob(c, todo) ==
  IF todo = {}
  THEN call' = [call EXCEPT ![c].at = "clear"]
  ELSE call' = [call EXCEPT ![c].at = "find", ![c].job = LeastJob(todo),
                            ![c].todo = todo \ {LeastJob(todo)}]

\* rdc_job_stop_stats returns: the other two calls ignore its status.
AfterStop(c) ==
  CASE call[c].op = "stop"       -> Return(c, "none")
    [] call[c].op = "remove"     -> Goto(c, "drop") /\ UNCHANGED view
    [] call[c].op = "remove_all" -> NextJob(c, call[c].todo) /\ UNCHANGED view

CallStop(c, op, j) ==
  /\ call[c] = Idle
  /\ op \in {"stop", "remove"}
  /\ call' = [call EXCEPT ![c] = [Idle EXCEPT !.op = op, !.at = "find", !.job = j]]
  /\ view' = [view EXCEPT ![j] = "none"]
  /\ UNCHANGED <<vars, job_watch_table_, cache_jobs_>>

\* rdc_job_remove_all: the ids are copied under the mutex.
CallRemoveAll(c) ==
  /\ c \in RemoveAll
  /\ call[c] = Idle
  /\ call' = [call EXCEPT ![c] = [Idle EXCEPT !.op = "remove_all", !.at = "snapshot"]]
  /\ view' = [j \in Jobs |-> CASE Starting(j) -> "beside"
                               [] view[j] = "removed" -> "removed"
                               [] OTHER -> "none"]
  /\ UNCHANGED <<vars, job_watch_table_, cache_jobs_>>

RemoveAllSnapshot(c) ==
  /\ At(c, {"remove_all"}, "snapshot")
  /\ NextJob(c, DOMAIN job_watch_table_)
  /\ UNCHANGED <<vars, job_watch_table_, cache_jobs_, view>>

\* Mutant: whatever the id, the first job of the table is found.
StopFindFirst(c) ==
  /\ At(c, Stopping, "find")
  /\ IF job_watch_table_ = EmptyMap
     THEN AfterStop(c)
     ELSE /\ call' = [call EXCEPT ![c].at = "unwatch",
               ![c].group = job_watch_table_[LeastJob(DOMAIN job_watch_table_)].group_id]
          /\ UNCHANGED view
  /\ UNCHANGED <<vars, job_watch_table_, cache_jobs_>>

StopFind(c) ==
  LET j == call[c].job
  IN  /\ At(c, Stopping, "find")
      /\ IF j \notin DOMAIN job_watch_table_
         THEN AfterStop(c)
         ELSE /\ call' = [call EXCEPT ![c].at = "unwatch",
                                      ![c].group = job_watch_table_[j].group_id]
              /\ UNCHANGED view
      /\ UNCHANGED <<vars, job_watch_table_, cache_jobs_>>

\* When the unwatch fails, the job stays registered.
StopUnwatch(c) ==
  /\ At(c, Stopping, "unwatch")
  /\ \/ /\ <<call[c].group, JOB_FIELD_ID>> \notin DOMAIN watch_table_
        /\ AfterStop(c)
        /\ UNCHANGED vars
     \/ \E now \in ReadTimes, r \in Status :
          /\ rdc_field_unwatch(call[c].group, JOB_FIELD_ID, now, r)
          /\ IF r = "OK" THEN Goto(c, "erase") /\ UNCHANGED view
             ELSE AfterStop(c)
  /\ UNCHANGED <<job_watch_table_, cache_jobs_>>

StopErase(c) ==
  /\ At(c, Stopping, "erase")
  /\ job_watch_table_' = MapErase(job_watch_table_, {call[c].job})
  /\ Goto(c, "stats")
  /\ UNCHANGED <<vars, cache_jobs_, view>>

StopStats(c) ==
  LET j == call[c].job
  IN  /\ At(c, Stopping, "stats")
      /\ cache_jobs_' = IF j \in DOMAIN cache_jobs_
                        THEN [cache_jobs_ EXCEPT ![j].ended = TRUE] ELSE cache_jobs_
      /\ AfterStop(c)
      /\ UNCHANGED <<vars, job_watch_table_>>

\* Mutant: the statistics of every job are dropped.
RemoveDropAll(c) ==
  /\ At(c, {"remove"}, "drop")
  /\ cache_jobs_' = EmptyMap
  /\ Return(c, "removed")
  /\ UNCHANGED <<vars, job_watch_table_>>

RemoveDrop(c) ==
  /\ At(c, {"remove"}, "drop")
  /\ cache_jobs_' = MapErase(cache_jobs_, {call[c].job})
  /\ Return(c, "removed")
  /\ UNCHANGED <<vars, job_watch_table_>>

RemoveAllClear(c) ==
  /\ At(c, {"remove_all"}, "clear")
  /\ cache_jobs_' = EmptyMap
  /\ call' = [call EXCEPT ![c] = Idle]
  /\ view' = [j \in Jobs |-> IF Starting(j) THEN "beside" ELSE "removed"]
  /\ UNCHANGED <<vars, job_watch_table_>>

-----------------------------------------------------------------------------
(* Samples *)

\* Mutant: the first job, whatever its fields.
JobsWithAny(k) == DOMAIN job_watch_table_

\* is_job_watch_field: the first job of the map that has the key.
JobsWith(k) == {j \in DOMAIN job_watch_table_ : k \in job_watch_table_[j].fields}

\* Mutant: cache_jobs_[job_id] makes the statistics of a job that has none.
JobStatsInserting(ok) ==
  [j \in DOMAIN cache_jobs_ \cup {LeastJob(JobsWith(k)) : k \in {x \in ok : JobsWith(x) # {}}} |->
     IF j \in DOMAIN cache_jobs_ THEN cache_jobs_[j]
     ELSE [ended |-> FALSE, gpus |-> {}, sampled |-> {}]]

\* rdc_update_job_stats for every field in ok: dropped when the job's
\* statistics do not exist, or not for this GPU.
JobStats(ok) ==
  [j \in DOMAIN cache_jobs_ |->
     [cache_jobs_[j] EXCEPT !.sampled =
        @ \cup {k \in ok : /\ JobsWith(k) # {} /\ j = LeastJob(JobsWith(k))
                           /\ k[1] \in cache_jobs_[j].gpus}]]

JobUpdateStep ==
  /\ \E now \in ReadTimes : \E ok \in SUBSET Due(now), took \in 0 .. MaxFetch :
       /\ clock + took <= MaxClock
       /\ rdc_field_update_all(now, ok, took)
       /\ cache_jobs_' = JobStats(ok)
  /\ UNCHANGED <<job_watch_table_, call, view>>

-----------------------------------------------------------------------------

JobStep(c) ==
  \/ \E j \in JobsOf[c] : \E g \in GroupsOf[j] : CallStart(c, j, g)
  \/ StartCheck(c) \/ StartRegister(c) \/ StartCache(c) \/ StartWatch(c)
  \/ \E j \in JobsOf[c], op \in {"stop", "remove"} : CallStop(c, op, j)
  \/ CallRemoveAll(c) \/ RemoveAllSnapshot(c)
  \/ StopFind(c) \/ StopUnwatch(c) \/ StopErase(c) \/ StopStats(c)
  \/ RemoveDrop(c) \/ RemoveAllClear(c)

\* Clients that watch fields themselves are the subject of RdcWatchTable;
\* here the watches are those of the jobs.
JobNext ==
  \/ \E c \in Clients : JobStep(c)
  \/ (GroupStep \/ Tick) /\ UNCHANGED jvars
  \/ JobUpdateStep

JobSpec == Init /\ JobInit /\ [][JobNext]_allvars

-----------------------------------------------------------------------------
(* Properties *)

\* "The stats can be retrieved at any point when the job is in process"
\* (rdc.h:671): a job whose start succeeded, with no rdc_job_remove_all under
\* way meanwhile, and that nobody has asked to stop since, is registered and
\* has live statistics.
RunningJobHasStats ==
  \A j \in Jobs : view[j] = "running" =>
    /\ j \in DOMAIN job_watch_table_
    /\ j \in DOMAIN cache_jobs_
    /\ ~cache_jobs_[j].ended

\* "Request RDC to stop watching the stats of the job" (rdc.h:687), of that
\* job only: as long as a job runs, the watch that feeds it runs.
RunningJobWatched ==
  \A j \in Jobs : view[j] = "running" =>
    /\ j \in DOMAIN job_watch_table_
    /\ <<job_watch_table_[j].group_id, JOB_FIELD_ID>> \in Watching(watch_table_)

\* "After this call, you will no longer be able to call rdc_job_get_stats() on
\* this job_id" (rdc.h:704): the statistics of a removed job are gone and no
\* late sample, and no call still under way, brings them back.
RemovedJobHasNoStats ==
  \A j \in Jobs : view[j] = "removed" => j \notin DOMAIN cache_jobs_

\* "record GPU statistics associated with any job" (features.rst:238): a
\* successful sample of a field reaches every running job that has the field.
EveryRunningJobSampled ==
  [][\A j \in Jobs, k \in TelemetryKey :
       (/\ view[j] = "running"
        /\ j \in DOMAIN job_watch_table_ /\ k \in job_watch_table_[j].fields
        /\ j \in DOMAIN cache_jobs_ /\ j \in DOMAIN cache_jobs_'
        /\ Len(cache_samples_'[k]) > Len(cache_samples_[k]))
       => k \in cache_jobs_'[j].sampled]_allvars
=============================================================================
