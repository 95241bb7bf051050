---------------------------- MODULE RdcJobsProofs ---------------------------
(***************************************************************************)
(* Proofs about RdcJobs, for every number of clients, jobs and groups.     *)
(*                                                                         *)
(* The calls of RdcWatchTableImpl do not guard against each other: what a  *)
(* user sees of a job is right as long as nobody else uses its id.         *)
(***************************************************************************)
EXTENDS RdcJobs, RdcWatchTableProofs

\* Every job id is used by one client.
OneClientEach ==
  \A c, d \in Clients : c # d => JobsOf[c] \cap JobsOf[d] = {}

\* No two jobs are started on the same group.
OneGroupEach ==
  \A i, j \in Jobs : i # j => GroupsOf[i] \cap GroupsOf[j] = {}

-----------------------------------------------------------------------------
(* The inductive invariant *)

Ops == {"none", "start", "stop", "remove", "remove_all"}
Places == {"idle", "check", "register", "cache", "watch", "snapshot", "find",
           "unwatch", "erase", "stats", "drop", "clear"}
Views == {"none", "running", "removed", "beside"}

Call == [op : Ops, at : Places, job : Nat, group : Nat, todo : SUBSET Jobs]

JobTypeOK ==
  /\ call \in [Clients -> Call]
  /\ view \in [Jobs -> Views]
  /\ DOMAIN job_watch_table_ \subseteq Jobs
  /\ job_watch_table_ \in [DOMAIN job_watch_table_ ->
                             [group_id : Nat, fields : SUBSET (GPUs \X Fields)]]
  /\ DOMAIN cache_jobs_ \subseteq Jobs
  /\ cache_jobs_ \in [DOMAIN cache_jobs_ ->
                        [ended : BOOLEAN, gpus : SUBSET GPUs, sampled : SUBSET RdcFieldKey]]

\* A job id in a call other than rdc_job_remove_all is one of the caller's.
\* While such a call is under way, the job does not run.
CallOwn(c) ==
  /\ call[c].op \in {"start", "stop", "remove"} =>
       call[c].job \in JobsOf[c] /\ view[call[c].job] # "running"
  /\ call[c].op = "start" =>
       call[c].group \in GroupsOf[call[c].job] /\ view[call[c].job] # "removed"
  /\ At(c, Stopping, "unwatch") => call[c].group \in GroupsOf[call[c].job]

\* The statistics of the job are live and have every GPU of its fields.
Live(j) ==
  /\ j \in DOMAIN job_watch_table_ /\ j \in DOMAIN cache_jobs_
  /\ ~cache_jobs_[j].ended
  /\ job_watch_table_[j].fields \subseteq cache_jobs_[j].gpus \X Fields

\* A start that has met no removal of all jobs finds, between its steps, what
\* its own steps left behind.
Undisturbed(c) ==
  call[c].op = "start" /\ view[call[c].job] = "none" /\ ~RemovingAll

Found(j, g, at) ==
  /\ at = "register" => j \notin DOMAIN job_watch_table_
  /\ at \in {"cache", "watch"} =>
       j \in DOMAIN job_watch_table_ /\ job_watch_table_[j].group_id = g
  /\ at = "cache" =>
       /\ g < cur_group_id_
       /\ g \in DOMAIN gpu_group_ =>
            job_watch_table_[j].fields \subseteq gpu_group_[g] \X Fields
  /\ at = "watch" => Live(j)

StartInStep(c) == Undisturbed(c) => Found(call[c].job, call[c].group, call[c].at)

\* A job is registered for a group it is started on, has live statistics while
\* it runs and none once it is removed.
JobOk(j) ==
  /\ j \in DOMAIN job_watch_table_ => job_watch_table_[j].group_id \in GroupsOf[j]
  /\ view[j] = "running" => Live(j)
  /\ view[j] = "removed" => j \notin DOMAIN cache_jobs_

\* No job runs while all are being removed.
NoneRuns == RemovingAll => \A j \in Jobs : view[j] # "running"

JInv ==
  /\ JobTypeOK /\ NoneRuns
  /\ \A c \in Clients : CallOwn(c) /\ StartInStep(c)
  /\ \A j \in Jobs : JobOk(j)

-----------------------------------------------------------------------------
(* The tables under the watches of the jobs *)

\* The steps for jobs that touch no watch.
LEMMA JobStepAside ==
  ASSUME NEW c \in Clients, JobStep(c), ~StartWatch(c), ~StopUnwatch(c)
  PROVE  UNCHANGED vars
BY ZenonT(30) DEF JobStep, CallStart, StartCheck, StartRegister, StartCache, CallStop,
     CallRemoveAll, RemoveAllSnapshot, StopFind, StopErase, StopStats,
     RemoveDrop, RemoveAllClear

\* The steps of a job call reach the tables through rdc_field_watch and
\* rdc_field_unwatch only.
LEMMA JobStepTables ==
  ASSUME NEW c \in Clients, JobStep(c)
  PROVE  \/ UNCHANGED vars
         \/ \E r \in Status :
              rdc_field_watch(call[c].group, JOB_FIELD_ID,
                              [freq |-> JobFreq, age |-> 0, keep |-> 0], r)
         \/ \E now \in ReadTimes, r \in Status :
              rdc_field_unwatch(call[c].group, JOB_FIELD_ID, now, r)
<1>1. CASE StartWatch(c)
  BY <1>1, Zenon DEF StartWatch
<1>2. CASE StopUnwatch(c)
  BY <1>2, Zenon DEF StopUnwatch
<1>3. CASE ~StartWatch(c) /\ ~StopUnwatch(c)
  BY <1>3, JobStepAside, Zenon
<1> QED BY <1>1, <1>2, <1>3, Zenon

\* The invariant of the watch table is kept by the calls for jobs.
LEMMA JobNextIInv == IInv /\ [JobNext]_allvars => IInv'
<1> SUFFICES ASSUME IInv, [JobNext]_allvars PROVE IInv'
  BY Zenon
<1>1. \A now \in ReadTimes : now \in Nat
  BY ReadTimesNat, Zenon DEF IInv, TypeOK
<1>2. ASSUME NEW c \in Clients, JobStep(c) PROVE IInv'
  <2> DEFINE q == [freq |-> JobFreq, age |-> 0, keep |-> 0]
  <2>1. q \in Request
    BY JobConstants, Zenon DEF Request
  <2> HIDE DEF q
  <2>2. \/ UNCHANGED vars
        \/ \E r \in Status : rdc_field_watch(call[c].group, JOB_FIELD_ID, q, r)
        \/ \E now \in ReadTimes, r \in Status :
             rdc_field_unwatch(call[c].group, JOB_FIELD_ID, now, r)
    BY <1>2, JobStepTables, Zenon DEF q
  <2> QED BY <1>1, <2>1, <2>2, StutterIInv, WatchIInv, UnwatchIInv, ZenonT(30)
<1>3. CASE GroupStep
  BY <1>3, GroupIInv, Zenon
<1>4. CASE Tick
  BY <1>4, TickIInv, Zenon
<1>5. CASE JobUpdateStep
  <2>1. PICK now \in ReadTimes : \E ok \in SUBSET Due(now), took \in 0 .. MaxFetch :
          rdc_field_update_all(now, ok, took)
    BY <1>5, Zenon DEF JobUpdateStep
  <2>2. 0 .. MaxFetch \subseteq Nat
    BY WatchConstants
  <2> QED BY <1>1, <2>1, <2>2, UpdateIInv, ZenonT(30)
<1>6. CASE UNCHANGED allvars
  BY <1>6, StutterIInv, Zenon DEF allvars
<1> QED BY <1>2, <1>3, <1>4, <1>5, <1>6, Zenon DEF JobNext

\* The calls for jobs keep the watch table as consistent as the watches of
\* clients do: no orphaned sample, no leaked counter, every watch honoured.
THEOREM JobsKeepTheWatchTable == JobSpec => []IInv
BY InitIInv, JobNextIInv, PTL DEF JobSpec

-----------------------------------------------------------------------------
(* Initially, and steps that are none of a call *)

\* The invariant of the jobs holds at the start.
LEMMA InitJInv == JobInit => JInv
<1> SUFFICES ASSUME JobInit PROVE JInv
  BY Zenon
<1> USE DEF JobInit, EmptyMap
<1>1. call \in [Clients -> Call]
  BY Zenon DEF Idle, Call, Ops, Places
<1>2. \A c \in Clients : call[c].op = "none" /\ call[c].at = "idle"
  BY Zenon DEF Idle
<1>3. JobTypeOK
  BY <1>1, Zenon DEF JobTypeOK, Views
<1>4. NoneRuns /\ \A c \in Clients : CallOwn(c) /\ StartInStep(c)
  BY <1>2, Zenon DEF CallOwn, NoneRuns, StartInStep, Undisturbed, At, Stopping, RemovingAll
<1>5. \A j \in Jobs : JobOk(j)
  BY Zenon DEF JobOk
<1> QED BY <1>3, <1>4, <1>5, Zenon DEF JInv

\* Groups come and go beside the jobs: the group of a start that is under way
\* only grows, or is gone for good.
LEMMA GroupsJInv ==
  ASSUME JInv, GroupTypeOK, GroupStep, UNCHANGED jvars
  PROVE  JInv'
<1>1. GroupsKept /\ GroupTypeOK'
  BY GroupStepKept, Zenon
<1>2. JobTypeOK' /\ NoneRuns'
  BY Zenon DEF JInv, jvars, JobTypeOK, NoneRuns, RemovingAll
<1>3. \A j \in Jobs : JobOk(j)'
  BY Zenon DEF JInv, jvars, JobOk, Live
<1>4. \A c \in Clients : CallOwn(c)'
  BY Zenon DEF JInv, jvars, CallOwn, At
<1>5. ASSUME NEW c \in Clients PROVE StartInStep(c)'
  <2>1. Undisturbed(c)' => Undisturbed(c)
    BY Zenon DEF Undisturbed, jvars, RemovingAll
  <2>2. call[c].group \in Nat /\ cur_group_id_ \in Nat /\ cur_group_id_' \in Nat
    BY <1>1, Zenon DEF JInv, JobTypeOK, Call, GroupTypeOK
  <2>3. ASSUME NEW j, NEW at, Found(j, call[c].group, at) PROVE Found(j, call[c].group, at)'
    BY <1>1, <2>2, <2>3, SMTT(30) DEF Found, Live, GroupsKept, jvars
  <2>4. UNCHANGED call
    BY Zenon DEF jvars
  <2> QED BY <2>1, <2>3, <2>4, ZenonT(30) DEF JInv, StartInStep
<1> QED BY <1>2, <1>3, <1>4, <1>5, ZenonT(30) DEF JInv

\* A step that leaves the groups and the jobs alone.
LEMMA AsideJInv ==
  ASSUME JInv, UNCHANGED <<gvars, jvars>>
  PROVE  JInv'
<1>1. JobTypeOK' /\ NoneRuns'
  BY Zenon DEF JInv, jvars, JobTypeOK, NoneRuns, RemovingAll
<1>2. \A j \in Jobs : JobOk(j)'
  BY Zenon DEF JInv, jvars, JobOk, Live
<1>3. \A c \in Clients : CallOwn(c)' /\ StartInStep(c)'
  BY ZenonT(30) DEF JInv, gvars, jvars, CallOwn, StartInStep, Undisturbed, RemovingAll, Found, Live, At
<1> QED BY <1>1, <1>2, <1>3, ZenonT(30) DEF JInv

\* Samples reach the statistics of jobs that exist, and change nothing else.
LEMMA SamplesJInv ==
  ASSUME JInv, TypeOK, JobUpdateStep
  PROVE  JInv'
<1>1. PICK ok \in SUBSET TelemetryKey : cache_jobs_' = JobStats(ok)
  <2>1. PICK now \in ReadTimes : \E ok \in SUBSET Due(now) : cache_jobs_' = JobStats(ok)
    BY Zenon DEF JobUpdateStep
  <2>2. Due(now) \subseteq TelemetryKey
    BY Zenon DEF TypeOK, Due
  <2> QED BY <2>1, <2>2, Zenon
<1>2. UNCHANGED <<gvars, job_watch_table_, call, view>>
  BY Zenon DEF JobUpdateStep, rdc_field_update_all
<1>3. ok \subseteq RdcFieldKey
  BY Keys, Zenon
<1>4. /\ DOMAIN cache_jobs_' = DOMAIN cache_jobs_
      /\ cache_jobs_' \in [DOMAIN cache_jobs_ ->
           [ended : BOOLEAN, gpus : SUBSET GPUs, sampled : SUBSET RdcFieldKey]]
      /\ \A j \in DOMAIN cache_jobs_ :
           cache_jobs_'[j].ended = cache_jobs_[j].ended /\ cache_jobs_'[j].gpus = cache_jobs_[j].gpus
  <2> DEFINE more(j) == {k \in ok : /\ JobsWith(k) # {} /\ j = LeastJob(JobsWith(k))
                                    /\ k[1] \in cache_jobs_[j].gpus}
  <2>1. cache_jobs_' = [j \in DOMAIN cache_jobs_ |->
          [cache_jobs_[j] EXCEPT !.sampled = @ \cup more(j)]]
    BY <1>1, Zenon DEF JobStats
  <2>2. \A j : more(j) \subseteq RdcFieldKey
    BY <1>3, Zenon
  <2> HIDE DEF more
  <2> QED BY Zenon, <2>1, <2>2 DEF JInv, JobTypeOK
<1>5. JobTypeOK' /\ NoneRuns'
  BY <1>2, <1>4, Zenon DEF JInv, JobTypeOK, NoneRuns, RemovingAll
<1>6. \A j : Live(j)' <=> Live(j)
  BY <1>2, <1>4, Zenon DEF Live
<1>7. \A j \in Jobs : JobOk(j)'
  BY <1>2, <1>4, <1>6, Zenon DEF JInv, JobOk
<1>8. \A c \in Clients : CallOwn(c)' /\ StartInStep(c)'
  BY <1>2, <1>6, Zenon DEF JInv, gvars, CallOwn, StartInStep, Undisturbed, RemovingAll, Found, At
<1> QED BY <1>5, <1>7, <1>8, Zenon DEF JInv

-----------------------------------------------------------------------------
(* The steps of a call *)

\* Where the caller is after a step inside its call.
LEMMA GotoCall ==
  ASSUME JobTypeOK, NEW c \in Clients, NEW at \in Places, Goto(c, at)
  PROVE  /\ call' \in [Clients -> Call]
         /\ \A d \in Clients : d # c => call'[d] = call[d]
         /\ call'[c] = [call[c] EXCEPT !.at = at]
         /\ call'[c].op = call[c].op /\ call'[c].job = call[c].job
         /\ call'[c].group = call[c].group /\ call'[c].at = at
BY DEF JobTypeOK, Goto, Call

\* Where a caller is that has found the job it is to stop.
LEMMA FoundCall ==
  ASSUME JobTypeOK, NEW c \in Clients, NEW g \in Nat,
         call' = [call EXCEPT ![c].at = "unwatch", ![c].group = g]
  PROVE  /\ call' \in [Clients -> Call]
         /\ \A d \in Clients : d # c => call'[d] = call[d]
         /\ call'[c].op = call[c].op /\ call'[c].job = call[c].job
         /\ call'[c].group = g
<1> DEFINE n == [call[c] EXCEPT !.at = "unwatch", !.group = g]
<1>1. call' = [call EXCEPT ![c] = n]
  BY Zenon DEF JobTypeOK
<1>2. n \in Call /\ n.op = call[c].op /\ n.job = call[c].job /\ n.group = g
  BY ZenonT(60) DEF JobTypeOK, Call, Places
<1> HIDE DEF n
<1> QED BY ZenonT(30), <1>1, <1>2 DEF JobTypeOK

\* Where the caller is, and what it sees of the job, when its call returns.
LEMMA ReturnCall ==
  ASSUME JobTypeOK, NEW c \in Clients, call[c].job \in Jobs, NEW v \in Views, Return(c, v)
  PROVE  /\ call' \in [Clients -> Call]
         /\ \A d \in Clients : d # c => call'[d] = call[d]
         /\ call'[c] = Idle /\ call'[c].op = "none" /\ call'[c].at = "idle"
         /\ view' \in [Jobs -> Views] /\ view'[call[c].job] = v
         /\ \A j \in Jobs : j # call[c].job => view'[j] = view[j]
<1>1. Idle \in Call /\ Idle.op = "none" /\ Idle.at = "idle"
  BY Zenon DEF Idle, Call, Ops, Places
<1>2. call' = [call EXCEPT ![c] = Idle] /\ view' = [view EXCEPT ![call[c].job] = v]
  BY Zenon DEF Return
<1> QED BY <1>1, <1>2, Zenon DEF JobTypeOK

\* A step of c leaves everything alone that is not of job j.
OnlyOf(c, j) ==
  /\ \A d \in Clients : d # c => call'[d] = call[d]
  /\ \A i \in Jobs : i # j =>
       /\ view'[i] = view[i]
       /\ i \in DOMAIN job_watch_table_' <=> i \in DOMAIN job_watch_table_
       /\ i \in DOMAIN job_watch_table_ => job_watch_table_'[i] = job_watch_table_[i]
       /\ i \in DOMAIN cache_jobs_' <=> i \in DOMAIN cache_jobs_
       /\ i \in DOMAIN cache_jobs_ => cache_jobs_'[i] = cache_jobs_[i]
  /\ UNCHANGED gvars

\* Then only the caller and the job are left to be looked at: nobody else is
\* in a call about the job, but to remove all.
LEMMA OwnStepJInv ==
  ASSUME OneClientEach, JInv, JobTypeOK', NEW c \in Clients, NEW j \in JobsOf[c], OnlyOf(c, j),
         call[c].op # "remove_all", call'[c].op # "remove_all",
         CallOwn(c)', StartInStep(c)', JobOk(j)',
         view'[j] = "running" => ~RemovingAll
  PROVE  JInv'
<1>1. j \in Jobs
  BY JobConstants, Zenon
<1>2. RemovingAll' <=> RemovingAll
  BY Zenon DEF RemovingAll, OnlyOf
<1>3. NoneRuns'
  BY <1>1, <1>2, Zenon DEF JInv, NoneRuns, OnlyOf
<1>4. ASSUME NEW i \in Jobs, i # j PROVE JobOk(i)' /\ (Live(i) => Live(i)')
  BY <1>4, Zenon DEF JInv, OnlyOf, JobOk, Live
<1>5. ASSUME NEW d \in Clients, d # c PROVE CallOwn(d)' /\ StartInStep(d)'
  <2>1. CallOwn(d) /\ StartInStep(d) /\ call'[d] = call[d]
    BY <1>5, Zenon DEF JInv, OnlyOf
  <2>2. CASE call[d].op \in {"start", "stop", "remove"}
    <3>1. call[d].job \in JobsOf[d] /\ call[d].job # j /\ call[d].job \in Jobs
      BY <1>5, <2>1, <2>2, JobConstants, ZenonT(30) DEF CallOwn, OneClientEach
    <3>2. view'[call[d].job] = view[call[d].job]
      BY <3>1, Zenon DEF OnlyOf
    <3>3. CallOwn(d)'
      BY <2>1, <3>2, Zenon DEF CallOwn, At
    <3>4. Undisturbed(d)' => Undisturbed(d)
      BY <1>2, <2>1, <3>2, Zenon DEF Undisturbed
    <3>5. Found(call[d].job, call[d].group, call[d].at) =>
            Found(call[d].job, call[d].group, call[d].at)'
      BY ZenonT(30), <1>4, <2>1, <3>1 DEF Found, OnlyOf, gvars
    <3> QED BY <2>1, <3>3, <3>4, <3>5, ZenonT(30) DEF StartInStep
  <2>3. CASE call[d].op \notin {"start", "stop", "remove"}
    BY <2>1, <2>3, Zenon DEF CallOwn, StartInStep, Undisturbed, At
  <2> QED BY <2>2, <2>3, Zenon
<1> QED BY <1>3, <1>4, <1>5, Zenon DEF JInv

\* The job of a call that is about one job.
LEMMA OwnJob ==
  ASSUME JInv, NEW c \in Clients, call[c].op \in {"start", "stop", "remove"}
  PROVE  \E j \in JobsOf[c] : /\ j = call[c].job /\ j \in Jobs /\ view[j] # "running"
                              /\ call[c].op = "start" => call[c].group \in GroupsOf[j]
<1>1. CallOwn(c)
  BY Zenon DEF JInv
<1>2. JobsOf[c] \subseteq Jobs
  BY JobConstants, Zenon
<1> QED BY <1>1, <1>2, Zenon DEF CallOwn

\* rdc_job_start_stats and rdc_job_stop_stats are called.
LEMMA CallsJInv ==
  ASSUME OneClientEach, JInv, NEW c \in Clients, NEW j \in JobsOf[c],
         \/ \E g \in GroupsOf[j] : CallStart(c, j, g)
         \/ \E op \in {"stop", "remove"} : CallStop(c, op, j)
  PROVE  JInv'
<1>1. j \in Jobs /\ j \in Nat /\ GroupsOf[j] \subseteq Nat
  BY JobConstants, Zenon
<1>2. PICK n \in Call : /\ call[c] = Idle
                        /\ call' = [call EXCEPT ![c] = n]
                        /\ n.op \in {"start", "stop", "remove"} /\ n.job = j
                        /\ n.at \in {"check", "find"}
                        /\ n.op = "start" => n.group \in GroupsOf[j]
  <2>1. CASE \E g \in GroupsOf[j] : CallStart(c, j, g)
    <3>1. PICK g \in GroupsOf[j] : CallStart(c, j, g)
      BY <2>1, ZenonT(30)
    <3> DEFINE n == [Idle EXCEPT !.op = "start", !.at = "check", !.job = j, !.group = g]
    <3>2. n \in Call /\ n.op = "start" /\ n.job = j /\ n.at = "check" /\ n.group = g
      BY Zenon, <1>1 DEF Idle, Call, Ops, Places
    <3>3. call[c] = Idle /\ call' = [call EXCEPT ![c] = n]
      BY Zenon, <3>1 DEF CallStart
    <3> HIDE DEF n
    <3> QED BY ZenonT(30), <3>2, <3>3
  <2>2. CASE \E op \in {"stop", "remove"} : CallStop(c, op, j)
    <3>1. PICK op \in {"stop", "remove"} : CallStop(c, op, j)
      BY <2>2, Zenon
    <3> DEFINE n == [Idle EXCEPT !.op = op, !.at = "find", !.job = j]
    <3>2. n \in Call /\ n.op = op /\ n.job = j /\ n.at = "find"
      BY Zenon, <1>1 DEF Idle, Call, Ops, Places
    <3>3. call[c] = Idle /\ call' = [call EXCEPT ![c] = n]
      BY <3>1, Zenon DEF CallStop
    <3> HIDE DEF n
    <3> QED BY ZenonT(30), <3>2, <3>3
  <2> QED BY <2>1, <2>2, ZenonT(30)
<1>3. UNCHANGED <<vars, job_watch_table_, cache_jobs_>> /\ view' = [view EXCEPT ![j] = "none"]
  BY Zenon DEF CallStart, CallStop
<1>4. /\ call' \in [Clients -> Call] /\ call'[c] = n
      /\ \A d \in Clients : d # c => call'[d] = call[d]
      /\ view' \in [Jobs -> Views] /\ view'[j] = "none"
      /\ \A i \in Jobs : i # j => view'[i] = view[i]
      /\ call[c].op = "none"
  BY <1>1, <1>2, <1>3, SMTT(30) DEF JInv, JobTypeOK, Views, Idle
<1>5. JobTypeOK'
  BY <1>3, <1>4, Zenon DEF JInv, JobTypeOK
<1>6. OnlyOf(c, j)
  BY <1>3, <1>4, ZenonT(30) DEF OnlyOf, vars
<1>7. CallOwn(c)' /\ StartInStep(c)'
  BY <1>2, <1>4, Zenon DEF CallOwn, StartInStep, Found, At
<1>8. JobOk(j)'
  BY <1>1, <1>3, <1>4, ZenonT(30) DEF JInv, JobOk
<1> QED BY <1>2, <1>4, <1>5, <1>6, <1>7, <1>8, OwnStepJInv, ZenonT(30)

\* A start returns, without having left the job running.
LEMMA StartFailsJInv ==
  ASSUME OneClientEach, JInv, NEW c \in Clients, call[c].op = "start", Return(c, "none"),
         UNCHANGED <<gvars, job_watch_table_, cache_jobs_>>
  PROVE  JInv'
<1>1. PICK j \in JobsOf[c] : j = call[c].job /\ j \in Jobs
  BY OwnJob, Zenon
<1>2. /\ call' \in [Clients -> Call]
      /\ \A d \in Clients : d # c => call'[d] = call[d]
      /\ call'[c].op = "none" /\ call'[c].at = "idle"
      /\ view' \in [Jobs -> Views] /\ view'[j] = "none"
      /\ \A i \in Jobs : i # j => view'[i] = view[i]
  BY <1>1, ReturnCall, Zenon DEF JInv, Views
<1>3. JobTypeOK' /\ OnlyOf(c, j)
  BY <1>2, Zenon DEF JInv, JobTypeOK, OnlyOf
<1>4. CallOwn(c)' /\ StartInStep(c)'
  BY <1>2, Zenon DEF CallOwn, StartInStep, Undisturbed, At
<1>5. JobOk(j)'
  BY <1>1, <1>2, Zenon DEF JInv, JobOk
<1> QED BY <1>1, <1>2, <1>3, <1>4, <1>5, OwnStepJInv, ZenonT(30)

\* A start goes on, having found or made what its next step relies on.
LEMMA StartGoesOn ==
  ASSUME OneClientEach, JInv, NEW c \in Clients, call[c].op = "start",
         NEW j \in JobsOf[c], j = call[c].job, NEW g, g = call[c].group,
         NEW at \in {"register", "cache", "watch"}, Goto(c, at), UNCHANGED view,
         JobTypeOK', OnlyOf(c, j),
         j \in DOMAIN job_watch_table_' => job_watch_table_'[j].group_id \in GroupsOf[j],
         Undisturbed(c) => Found(j, g, at)'
  PROVE  JInv'
<1>1. /\ \A d \in Clients : d # c => call'[d] = call[d]
      /\ call'[c].op = "start" /\ call'[c].at = at
      /\ call'[c].job = j /\ call'[c].group = g
  BY Zenon, GotoCall DEF JInv, Places
<1>2. CallOwn(c)
  BY Zenon DEF JInv
<1>3. CallOwn(c)'
  BY ZenonT(30), <1>1, <1>2 DEF CallOwn, At, Stopping
<1>4. StartInStep(c)'
  <2>1. RemovingAll' <=> RemovingAll
    BY Zenon, <1>1 DEF RemovingAll
  <2>2. Undisturbed(c)' => Undisturbed(c)
    BY <1>1, <2>1, ZenonT(30) DEF Undisturbed
  <2> QED BY ZenonT(30), <1>1, <2>2 DEF StartInStep
<1>5. JobOk(j)'
  BY <1>2, Zenon DEF JobOk, CallOwn
<1> QED BY <1>1, <1>3, <1>4, <1>5, OwnStepJInv, ZenonT(30) DEF CallOwn

\* The steps of rdc_job_start_stats before the watch.
LEMMA StartJInv ==
  ASSUME OneClientEach, JInv, GroupTypeOK, NEW c \in Clients,
         StartCheck(c) \/ StartRegister(c) \/ StartCache(c)
  PROVE  JInv'
<1>1. call[c].op = "start" /\ call[c].at \in {"check", "register", "cache"}
  BY Zenon DEF StartCheck, StartRegister, StartCache, At
<1>2. PICK j \in JobsOf[c] : /\ j = call[c].job /\ j \in Jobs
                             /\ call[c].group \in GroupsOf[j]
  BY <1>1, OwnJob, Zenon
<1>3. PICK g \in GroupsOf[j] : g = call[c].group /\ g \in Nat
  BY <1>2, JobConstants, Zenon
<1>4. UNCHANGED gvars
  BY Zenon DEF StartCheck, StartRegister, StartCache, vars
<1>5. JobTypeOK /\ JobOk(j) /\ (Undisturbed(c) => Found(j, g, call[c].at))
  <2>1. JobTypeOK /\ JobOk(j) /\ StartInStep(c)
    BY <1>2, Zenon DEF JInv
  <2> QED BY <1>2, <1>3, <2>1, ZenonT(30) DEF StartInStep
<1>6. CASE Return(c, "none") /\ UNCHANGED <<job_watch_table_, cache_jobs_>>
  BY <1>1, <1>4, <1>6, StartFailsJInv, ZenonT(30)
<1>7. ASSUME NEW at \in {"register", "cache", "watch"}, Goto(c, at), UNCHANGED view
      PROVE  /\ call' \in [Clients -> Call] /\ view' \in [Jobs -> Views]
             /\ \A d \in Clients : d # c => call'[d] = call[d]
  BY ZenonT(30), <1>5, <1>7, GotoCall DEF JobTypeOK, Places
<1>8. CASE StartCheck(c)
  <2>1. CASE j \in DOMAIN job_watch_table_
    BY <1>2, <1>6, <1>8, <2>1, ZenonT(30) DEF StartCheck
  <2>2. CASE j \notin DOMAIN job_watch_table_
    <3>1. Goto(c, "register") /\ UNCHANGED <<view, job_watch_table_, cache_jobs_>>
      BY <1>2, <1>8, <2>2, ZenonT(30) DEF StartCheck
    <3>2. JobTypeOK' /\ OnlyOf(c, j)
      BY <1>4, <1>5, <1>7, <3>1, ZenonT(30) DEF JobTypeOK, OnlyOf
    <3>3. Found(j, g, "register")'
      BY <2>2, <3>1, ZenonT(30) DEF Found
    <3> QED BY <1>1, <1>2, <1>3, <2>2, <3>1, <3>2, <3>3, StartGoesOn, ZenonT(30)
  <2> QED BY <2>1, <2>2, Zenon
<1>9. CASE StartRegister(c)
  <2> DEFINE fields == FieldsOf(g, JOB_FIELD_ID)
  <2>1. CASE ~HasFields(g, JOB_FIELD_ID) \/ fields = {}
    BY <1>3, <1>6, <1>9, <2>1, ZenonT(30) DEF StartRegister
  <2>2. CASE HasFields(g, JOB_FIELD_ID) /\ fields # {}
    <3>1. /\ Goto(c, "cache") /\ UNCHANGED <<view, cache_jobs_>> /\ call[c].at = "register"
          /\ job_watch_table_' =
               IF j \in DOMAIN job_watch_table_ THEN job_watch_table_
               ELSE MapPut(job_watch_table_, j, [group_id |-> g, fields |-> fields])
      BY ZenonT(30), <1>2, <1>3, <1>9, <2>2 DEF StartRegister, At
    <3>2. /\ g \in DOMAIN gpu_group_ /\ g < cur_group_id_
          /\ fields \in SUBSET (GPUs \X Fields) /\ fields \subseteq gpu_group_[g] \X Fields
      BY <1>3, <2>2, SMTT(30) DEF GroupTypeOK, HasFields, FieldsOf
    <3> HIDE DEF fields
    <3>3. CASE j \in DOMAIN job_watch_table_
      <4>1. UNCHANGED job_watch_table_ /\ ~Undisturbed(c)
        BY <1>5, <3>1, <3>3, ZenonT(30) DEF Found
      <4>2. JobTypeOK' /\ OnlyOf(c, j)
        BY <1>4, <1>5, <1>7, <3>1, <4>1, ZenonT(30) DEF JobTypeOK, OnlyOf
      <4>3. j \in DOMAIN job_watch_table_' => job_watch_table_'[j].group_id \in GroupsOf[j]
        BY <1>5, <4>1, Zenon DEF JobOk
      <4> QED BY ZenonT(30), <1>1, <1>2, <1>3, <3>1, <4>1, <4>2, <4>3, StartGoesOn
    <3>4. CASE j \notin DOMAIN job_watch_table_
      <4> DEFINE new == [group_id |-> g, fields |-> fields]
      <4>1. /\ DOMAIN job_watch_table_' = DOMAIN job_watch_table_ \cup {j}
            /\ job_watch_table_' = [x \in DOMAIN job_watch_table_ \cup {j} |->
                                      IF x = j THEN new ELSE job_watch_table_[x]]
            /\ new \in [group_id : Nat, fields : SUBSET (GPUs \X Fields)]
            /\ new.group_id = g /\ new.fields = fields
        BY <1>3, <3>1, <3>2, <3>4, ZenonT(30) DEF MapPut
      <4> HIDE DEF new
      <4>2. job_watch_table_'[j] = new /\ \A i \in Jobs : i # j =>
              /\ i \in DOMAIN job_watch_table_' <=> i \in DOMAIN job_watch_table_
              /\ i \in DOMAIN job_watch_table_ => job_watch_table_'[i] = job_watch_table_[i]
        BY <4>1, ZenonT(30)
      <4>3. JobTypeOK'
        BY <1>2, <1>5, <1>7, <3>1, <4>1, SMTT(30) DEF JobTypeOK
      <4>4. OnlyOf(c, j)
        BY ZenonT(30), <1>4, <1>7, <3>1, <4>2 DEF OnlyOf
      <4>5. Found(j, g, "cache")'
        BY <1>4, <3>2, <4>1, <4>2, ZenonT(30) DEF Found, gvars
      <4> QED BY <1>1, <1>2, <1>3, <3>1, <4>1, <4>2, <4>3, <4>4, <4>5, StartGoesOn, ZenonT(30)
    <3> QED BY <3>3, <3>4, Zenon
  <2> QED BY <2>1, <2>2, Zenon
<1>10. CASE StartCache(c)
  <2>1. CASE ~HasFields(g, JOB_FIELD_ID)
    BY <1>3, <1>6, <1>10, <2>1, ZenonT(30) DEF StartCache
  <2>2. CASE HasFields(g, JOB_FIELD_ID)
    <3>1. /\ Goto(c, "watch") /\ UNCHANGED <<view, job_watch_table_>> /\ call[c].at = "cache"
          /\ cache_jobs_' = MapPut(cache_jobs_, j, NewStats(g))
      BY <1>2, <1>3, <1>10, <2>2, ZenonT(30) DEF StartCache, At
    <3>2. /\ NewStats(g) \in [ended : BOOLEAN, gpus : SUBSET GPUs, sampled : SUBSET RdcFieldKey]
          /\ NewStats(g).ended = FALSE /\ NewStats(g).gpus = gpu_group_[g]
          /\ g \in DOMAIN gpu_group_
      BY <2>2, Zenon DEF NewStats, GroupTypeOK, HasFields
    <3>3. /\ DOMAIN cache_jobs_' = DOMAIN cache_jobs_ \cup {j}
          /\ cache_jobs_' = [x \in DOMAIN cache_jobs_ \cup {j} |->
                               IF x = j THEN NewStats(g) ELSE cache_jobs_[x]]
          /\ cache_jobs_'[j] = NewStats(g)
          /\ \A i \in Jobs : i # j =>
               /\ i \in DOMAIN cache_jobs_' <=> i \in DOMAIN cache_jobs_
               /\ i \in DOMAIN cache_jobs_ => cache_jobs_'[i] = cache_jobs_[i]
      BY <3>1, ZenonT(30) DEF MapPut
    <3>4. JobTypeOK'
      BY <1>2, <1>5, <1>7, <3>1, <3>2, <3>3, SMTT(30) DEF JobTypeOK
    <3>5. OnlyOf(c, j)
      BY <1>4, <1>7, <3>1, <3>3, ZenonT(30) DEF OnlyOf
    <3>6. Undisturbed(c) => Found(j, g, "watch")'
      BY <1>5, <3>1, <3>2, <3>3, ZenonT(30) DEF Found, Live
    <3>7. j \in DOMAIN job_watch_table_' => job_watch_table_'[j].group_id \in GroupsOf[j]
      BY ZenonT(30), <1>5, <3>1 DEF JobOk
    <3> QED BY <1>1, <1>2, <1>3, <3>1, <3>4, <3>5, <3>6, <3>7, StartGoesOn, ZenonT(30)
  <2> QED BY <2>1, <2>2, Zenon
<1> QED BY <1>8, <1>9, <1>10, ZenonT(30)

\* The watch is the last step of a start, and the one that leaves a job running.
LEMMA StartWatchJInv ==
  ASSUME OneClientEach, JInv, NEW c \in Clients, StartWatch(c)
  PROVE  JInv'
<1>1. /\ call[c].op = "start" /\ call[c].at = "watch"
      /\ UNCHANGED <<gvars, job_watch_table_, cache_jobs_>>
  BY Zenon DEF StartWatch, At, rdc_field_watch
<1>2. PICK j \in JobsOf[c] : j = call[c].job /\ j \in Jobs
  BY <1>1, OwnJob, Zenon
<1>3. \/ Return(c, "none")
      \/ Return(c, "running") /\ Undisturbed(c)
  BY <1>1, <1>2, Zenon DEF StartWatch, Undisturbed
<1>4. CASE Return(c, "none")
  BY <1>1, <1>4, StartFailsJInv, Zenon
<1>5. CASE Return(c, "running") /\ Undisturbed(c)
  <2>1. /\ call' \in [Clients -> Call]
        /\ \A d \in Clients : d # c => call'[d] = call[d]
        /\ call'[c].op = "none" /\ call'[c].at = "idle"
        /\ view' \in [Jobs -> Views] /\ view'[j] = "running"
        /\ \A i \in Jobs : i # j => view'[i] = view[i]
    BY ZenonT(30), <1>2, <1>5, ReturnCall DEF JInv, Views
  <2>2. JobTypeOK' /\ OnlyOf(c, j)
    BY <1>1, <2>1, Zenon DEF JInv, JobTypeOK, OnlyOf
  <2>3. CallOwn(c)' /\ StartInStep(c)'
    BY <2>1, Zenon DEF CallOwn, StartInStep, Undisturbed, At
  <2>4. Live(j)
    BY <1>1, <1>2, <1>5, ZenonT(30) DEF JInv, StartInStep, Found
  <2>5. JobOk(j)'
    BY ZenonT(30), <1>1, <1>2, <2>1, <2>4 DEF JInv, JobOk, Live
  <2> QED BY <1>1, <1>5, <2>1, <2>2, <2>3, <2>5, OwnStepJInv, ZenonT(30) DEF Undisturbed
<1> QED BY <1>3, <1>4, <1>5, ZenonT(30)

\* How rdc_job_stop_stats returns in rdc_job_stop_stats and rdc_job_remove.
LEMMA AfterStopOne ==
  ASSUME JobTypeOK, NEW c \in Clients, NEW j \in Jobs, j = call[c].job,
         call[c].op \in {"stop", "remove"}, AfterStop(c)
  PROVE  /\ call' \in [Clients -> Call]
         /\ \A d \in Clients : d # c => call'[d] = call[d]
         /\ \/ call'[c].op = "none"
            \/ call'[c].op = call[c].op /\ call'[c].job = j
         /\ call'[c].at \in {"idle", "drop"}
         /\ view' \in [Jobs -> Views] /\ view'[j] \in {"none", view[j]}
         /\ \A i \in Jobs : i # j => view'[i] = view[i]
<1>1. CASE call[c].op = "stop"
  <2>1. Return(c, "none")
    BY <1>1, Zenon DEF AfterStop
  <2> QED BY <2>1, ReturnCall, Zenon DEF Views
<1>2. CASE call[c].op = "remove"
  <2>1. Goto(c, "drop") /\ UNCHANGED view
    BY <1>2, Zenon DEF AfterStop
  <2> QED BY Zenon, <2>1, GotoCall DEF JobTypeOK, Places
<1> QED BY <1>1, <1>2, Zenon

\* What a step of rdc_job_stop_stats or rdc_job_remove has to keep.
LEMMA StopOneJInv ==
  ASSUME OneClientEach, JInv, NEW c \in Clients, NEW j \in JobsOf[c], OnlyOf(c, j), JobTypeOK',
         call[c].op \in {"stop", "remove"},
         \/ call'[c].op = "none"
         \/ call'[c].op = call[c].op /\ call'[c].job = j,
         call'[c].at = "unwatch" => call'[c].group \in GroupsOf[j],
         view'[j] # "running",
         view'[j] = "removed" => j \notin DOMAIN cache_jobs_',
         j \in DOMAIN job_watch_table_' =>
           j \in DOMAIN job_watch_table_ /\ job_watch_table_'[j] = job_watch_table_[j]
  PROVE  JInv'
<1>1. j \in Jobs
  BY JobConstants, Zenon
<1>2. CallOwn(c)' /\ StartInStep(c)'
  BY Zenon DEF CallOwn, StartInStep, Undisturbed, At, Stopping
<1>3. JobOk(j)'
  BY <1>1, Zenon DEF JInv, JobOk
<1> QED BY <1>2, <1>3, OwnStepJInv, ZenonT(30)

\* rdc_job_stop_stats and rdc_job_remove.
LEMMA StopJInv ==
  ASSUME OneClientEach, JInv, NEW c \in Clients, call[c].op \in {"stop", "remove"},
         StopFind(c) \/ StopUnwatch(c) \/ StopErase(c) \/ StopStats(c) \/ RemoveDrop(c)
  PROVE  JInv'
<1>1. PICK j \in JobsOf[c] : j = call[c].job /\ j \in Jobs /\ view[j] # "running"
  BY OwnJob, Zenon
<1>2. JobTypeOK /\ JobOk(j)
  BY <1>1, Zenon DEF JInv
<1>3. UNCHANGED gvars
  BY Zenon DEF StopFind, StopUnwatch, StopErase, StopStats, RemoveDrop, vars, rdc_field_unwatch
<1>4. CASE AfterStop(c) /\ UNCHANGED job_watch_table_
           /\ cache_jobs_' = IF j \in DOMAIN cache_jobs_ /\ call[c].at = "stats"
                             THEN [cache_jobs_ EXCEPT ![j].ended = TRUE] ELSE cache_jobs_
  <2>1. /\ call' \in [Clients -> Call]
        /\ \A d \in Clients : d # c => call'[d] = call[d]
        /\ \/ call'[c].op = "none"
           \/ call'[c].op = call[c].op /\ call'[c].job = j
        /\ call'[c].at # "unwatch"
        /\ view' \in [Jobs -> Views] /\ view'[j] \in {"none", view[j]}
        /\ \A i \in Jobs : i # j => view'[i] = view[i]
    BY <1>1, <1>2, <1>4, AfterStopOne, ZenonT(30)
  <2>2. /\ DOMAIN cache_jobs_' = DOMAIN cache_jobs_
        /\ cache_jobs_' \in [DOMAIN cache_jobs_ ->
             [ended : BOOLEAN, gpus : SUBSET GPUs, sampled : SUBSET RdcFieldKey]]
        /\ \A i \in DOMAIN cache_jobs_ : i # j => cache_jobs_'[i] = cache_jobs_[i]
    BY ZenonT(30), <1>2, <1>4 DEF JobTypeOK
  <2>3. JobTypeOK'
    BY <1>2, <1>4, <2>1, <2>2, ZenonT(30) DEF JobTypeOK
  <2>4. OnlyOf(c, j)
    BY <1>3, <1>4, <2>1, <2>2, ZenonT(30) DEF OnlyOf
  <2>5. view'[j] # "running" /\ (view'[j] = "removed" => j \notin DOMAIN cache_jobs_')
    BY <1>1, <1>2, <2>1, <2>2, ZenonT(30) DEF JobOk
  <2> QED BY <1>4, <2>1, <2>3, <2>4, <2>5, StopOneJInv, ZenonT(30)
<1>5. ASSUME NEW at \in Places, Goto(c, at), UNCHANGED view
      PROVE  /\ call' \in [Clients -> Call]
             /\ \A d \in Clients : d # c => call'[d] = call[d]
             /\ call'[c].op = call[c].op /\ call'[c].job = j /\ call'[c].at = at
             /\ view' \in [Jobs -> Views]
  BY ZenonT(30), <1>1, <1>2, <1>5, GotoCall DEF JobTypeOK
<1>6. CASE StopFind(c) /\ ~AfterStop(c)
  <2>1. /\ j \in DOMAIN job_watch_table_ /\ UNCHANGED <<view, job_watch_table_, cache_jobs_>>
        /\ call' = [call EXCEPT ![c].at = "unwatch", ![c].group = job_watch_table_[j].group_id]
    BY <1>1, <1>6, Zenon DEF StopFind
  <2>2. job_watch_table_[j].group_id \in Nat /\ job_watch_table_[j].group_id \in GroupsOf[j]
    BY <1>2, <2>1, Zenon DEF JobTypeOK, JobOk
  <2>3. /\ call' \in [Clients -> Call]
        /\ \A d \in Clients : d # c => call'[d] = call[d]
        /\ call'[c].op = call[c].op /\ call'[c].job = j
        /\ call'[c].group = job_watch_table_[j].group_id
    BY ZenonT(30), <1>1, <1>2, <2>1, <2>2, FoundCall
  <2>4. JobTypeOK' /\ OnlyOf(c, j)
    BY <1>2, <1>3, <2>1, <2>3, ZenonT(30) DEF JobTypeOK, OnlyOf
  <2> QED BY <1>1, <1>2, <2>1, <2>2, <2>3, <2>4, StopOneJInv, ZenonT(30) DEF JobOk
<1>7. CASE StopUnwatch(c) /\ ~AfterStop(c)
  <2>1. Goto(c, "erase") /\ UNCHANGED <<view, job_watch_table_, cache_jobs_>>
    BY ZenonT(30), <1>7 DEF StopUnwatch
  <2>2. /\ call' \in [Clients -> Call]
        /\ \A d \in Clients : d # c => call'[d] = call[d]
        /\ call'[c].op = call[c].op /\ call'[c].job = j /\ call'[c].at = "erase"
    BY Zenon, <1>5, <2>1 DEF Places
  <2>3. JobTypeOK' /\ OnlyOf(c, j)
    BY <1>2, <1>3, <2>1, <2>2, ZenonT(30) DEF JobTypeOK, OnlyOf
  <2> QED BY <1>1, <1>2, <2>1, <2>2, <2>3, StopOneJInv, ZenonT(30) DEF JobOk
<1>8. CASE StopErase(c)
  <2>1. /\ Goto(c, "stats") /\ UNCHANGED <<view, cache_jobs_>>
        /\ job_watch_table_' = [x \in DOMAIN job_watch_table_ \ {j} |-> job_watch_table_[x]]
    BY <1>1, <1>8, Zenon DEF StopErase, MapErase
  <2>2. /\ call' \in [Clients -> Call]
        /\ \A d \in Clients : d # c => call'[d] = call[d]
        /\ call'[c].op = call[c].op /\ call'[c].job = j /\ call'[c].at = "stats"
    BY <1>5, <2>1, Zenon DEF Places
  <2>3. JobTypeOK'
    BY <1>2, <2>1, <2>2, ZenonT(30) DEF JobTypeOK
  <2>4. OnlyOf(c, j)
    BY <1>3, <2>1, <2>2, Zenon DEF OnlyOf
  <2> QED BY ZenonT(30), <1>1, <1>2, <2>1, <2>2, <2>3, <2>4, StopOneJInv DEF JobOk
<1>9. CASE RemoveDrop(c)
  <2>1. /\ Return(c, "removed") /\ UNCHANGED job_watch_table_
        /\ cache_jobs_' = [x \in DOMAIN cache_jobs_ \ {j} |-> cache_jobs_[x]]
    BY <1>1, <1>9, Zenon DEF RemoveDrop, MapErase
  <2>2. /\ call' \in [Clients -> Call]
        /\ \A d \in Clients : d # c => call'[d] = call[d]
        /\ call'[c].op = "none" /\ call'[c].at = "idle"
        /\ view' \in [Jobs -> Views] /\ view'[j] = "removed"
        /\ \A i \in Jobs : i # j => view'[i] = view[i]
    BY <1>1, <1>2, <2>1, ReturnCall, ZenonT(30) DEF Views
  <2>3. JobTypeOK'
    BY <1>2, <2>1, <2>2, Zenon DEF JobTypeOK
  <2>4. OnlyOf(c, j)
    BY <1>3, <2>1, <2>2, Zenon DEF OnlyOf
  <2> QED BY <1>1, <2>1, <2>2, <2>3, <2>4, StopOneJInv, ZenonT(30)
<1>10. CASE (StopFind(c) \/ StopUnwatch(c)) /\ AfterStop(c)
  <2>1. UNCHANGED <<job_watch_table_, cache_jobs_>> /\ call[c].at # "stats"
    BY <1>10, Zenon DEF StopFind, StopUnwatch, At
  <2> QED BY <1>4, <1>10, <2>1, Zenon
<1>11. CASE StopStats(c)
  BY <1>1, <1>4, <1>11, Zenon DEF StopStats, At
<1> QED BY <1>6, <1>7, <1>8, <1>9, <1>10, <1>11, ZenonT(30)

-----------------------------------------------------------------------------
(* rdc_job_remove_all *)

\* The first job of a set is in it.
LEMMA LeastJobIn ==
  ASSUME NEW S \in SUBSET Jobs, S # {}
  PROVE  LeastJob(S) \in S /\ LeastJob(S) \in Nat
<1>1. S \in SUBSET Nat
  BY JobConstants, Zenon
<1>2. \E j \in S : \A i \in S : j <= i
  BY <1>1, LeastNatural, Zenon
<1> QED BY Zenon, <1>1, <1>2 DEF LeastJob

\* The next job of the snapshot.
LEMMA NextJobCall ==
  ASSUME JobTypeOK, NEW c \in Clients, NEW todo \in SUBSET Jobs, NextJob(c, todo)
  PROVE  /\ call' \in [Clients -> Call]
         /\ \A d \in Clients : d # c => call'[d] = call[d]
         /\ call'[c].op = call[c].op /\ call'[c].at \in {"clear", "find"}
<1>1. CASE todo = {}
  <2> DEFINE n == [call[c] EXCEPT !.at = "clear"]
  <2>1. call' = [call EXCEPT ![c] = n]
    BY <1>1, Zenon DEF NextJob, JobTypeOK
  <2>2. n \in Call /\ n.op = call[c].op /\ n.at = "clear"
    BY ZenonT(30) DEF JobTypeOK, Call, Places
  <2> HIDE DEF n
  <2> QED BY <2>1, <2>2, Zenon DEF JobTypeOK
<1>2. CASE todo # {}
  <2> DEFINE l == LeastJob(todo)
             n == [call[c] EXCEPT !.at = "find", !.job = l, !.todo = todo \ {l}]
  <2>1. l \in Nat
    BY <1>2, LeastJobIn, Zenon
  <2>2. call' = [call EXCEPT ![c] = n]
    BY Zenon, <1>2 DEF NextJob, JobTypeOK
  <2> HIDE DEF l
  <2>3. n \in Call /\ n.op = call[c].op /\ n.at = "find"
    BY ZenonT(30), <2>1 DEF JobTypeOK, Call, Places
  <2> HIDE DEF n
  <2> QED BY <2>2, <2>3, Zenon DEF JobTypeOK
<1> QED BY <1>1, <1>2, Zenon

\* What a step of a call that removes all jobs has to keep: as long as the
\* call is under way no job runs and every start is disturbed.
LEMMA RemovingAllJInv ==
  ASSUME JInv, JobTypeOK', NEW c \in Clients, call'[c].op = "remove_all",
         call'[c].at = "unwatch" => call'[c].group \in GroupsOf[call'[c].job],
         \A d \in Clients : d # c => call'[d] = call[d],
         \A j \in Jobs : /\ view'[j] # "running"
                         /\ view'[j] = "removed" => view[j] = "removed",
         DOMAIN cache_jobs_' \subseteq DOMAIN cache_jobs_,
         \A j \in DOMAIN job_watch_table_' :
           j \in DOMAIN job_watch_table_ /\ job_watch_table_'[j] = job_watch_table_[j]
  PROVE  JInv'
<1>1. RemovingAll'
  BY Zenon DEF RemovingAll
<1>2. NoneRuns'
  BY Zenon DEF NoneRuns
<1>3. \A j \in Jobs : JobOk(j)'
  BY Zenon DEF JInv, JobOk
<1>4. \A d \in Clients : StartInStep(d)'
  BY <1>1, Zenon DEF StartInStep, Undisturbed
<1>5. CallOwn(c)'
  BY Zenon DEF CallOwn, At
<1>6. ASSUME NEW d \in Clients, d # c PROVE CallOwn(d)'
  <2>1. CallOwn(d) /\ call'[d] = call[d]
    BY <1>6, Zenon DEF JInv
  <2>2. call[d].op \in {"start", "stop", "remove"} => call[d].job \in Jobs
    BY <2>1, JobConstants, Zenon DEF CallOwn
  <2> QED BY <2>1, <2>2, Zenon DEF CallOwn, At
<1> QED BY <1>2, <1>3, <1>4, <1>5, <1>6, Zenon DEF JInv

\* The call: from here on no job runs.
LEMMA CallRemoveAllJInv ==
  ASSUME JInv, NEW c \in Clients, CallRemoveAll(c)
  PROVE  JInv'
<1> DEFINE n == [Idle EXCEPT !.op = "remove_all", !.at = "snapshot"]
<1>1. /\ call' = [call EXCEPT ![c] = n] /\ UNCHANGED <<job_watch_table_, cache_jobs_>>
      /\ view' = [j \in Jobs |-> CASE Starting(j) -> "beside"
                                   [] view[j] = "removed" -> "removed"
                                   [] OTHER -> "none"]
  BY Zenon DEF CallRemoveAll
<1>2. n \in Call /\ n.op = "remove_all" /\ n.at = "snapshot"
  BY Zenon DEF Idle, Call, Ops, Places
<1> HIDE DEF n
<1>3. /\ call' \in [Clients -> Call] /\ call'[c].op = "remove_all" /\ call'[c].at = "snapshot"
      /\ \A d \in Clients : d # c => call'[d] = call[d]
  BY <1>1, <1>2, Zenon DEF JInv, JobTypeOK
<1>4. ASSUME NEW j \in Jobs
      PROVE  /\ view'[j] \in {"beside", "removed", "none"}
             /\ view'[j] = "removed" => view[j] = "removed"
  <2>1. view'[j] = CASE Starting(j) -> "beside"
                     [] view[j] = "removed" -> "removed"
                     [] OTHER -> "none"
    BY <1>1, Zenon
  <2>2. CASE Starting(j)
    BY <2>1, <2>2, Zenon
  <2>3. CASE ~Starting(j)
    BY <2>1, <2>3, Zenon
  <2> QED BY <2>2, <2>3, Zenon
<1>5. view' \in [Jobs -> Views]
  BY <1>1, <1>4, Zenon DEF Views
<1>6. JobTypeOK'
  BY <1>1, <1>3, <1>5, Zenon DEF JInv, JobTypeOK
<1> QED BY <1>1, <1>3, <1>4, <1>6, RemovingAllJInv, ZenonT(30)

\* The steps up to the last: the jobs of the snapshot are stopped one by one.
LEMMA RemoveAllStopsJInv ==
  ASSUME JInv, NEW c \in Clients, call[c].op = "remove_all",
         RemoveAllSnapshot(c) \/ StopFind(c) \/ StopUnwatch(c) \/ StopErase(c) \/ StopStats(c)
  PROVE  JInv'
<1>1. JobTypeOK /\ RemovingAll /\ \A j \in Jobs : view[j] # "running"
  BY Zenon DEF JInv, NoneRuns, RemovingAll
<1>2. AfterStop(c) => NextJob(c, call[c].todo) /\ UNCHANGED view
  BY Zenon DEF AfterStop
<1>3. UNCHANGED view
  BY <1>2, Zenon DEF RemoveAllSnapshot, StopFind, StopUnwatch, StopErase, StopStats
<1>4. /\ DOMAIN job_watch_table_' \subseteq DOMAIN job_watch_table_
      /\ \A j \in DOMAIN job_watch_table_' : job_watch_table_'[j] = job_watch_table_[j]
      /\ job_watch_table_' \in [DOMAIN job_watch_table_' ->
                                  [group_id : Nat, fields : SUBSET (GPUs \X Fields)]]
  <2>1. CASE StopErase(c)
    <3>1. job_watch_table_' = [x \in DOMAIN job_watch_table_ \ {call[c].job} |-> job_watch_table_[x]]
      BY <2>1, Zenon DEF StopErase, MapErase
    <3> QED BY <1>1, <3>1, Zenon DEF JobTypeOK
  <2>2. CASE ~StopErase(c)
    <3>1. UNCHANGED job_watch_table_
      BY <2>2, Zenon DEF RemoveAllSnapshot, StopFind, StopUnwatch, StopStats
    <3> QED BY <1>1, <3>1, Zenon DEF JobTypeOK
  <2> QED BY <2>1, <2>2, Zenon
<1>5. /\ DOMAIN cache_jobs_' = DOMAIN cache_jobs_
      /\ cache_jobs_' \in [DOMAIN cache_jobs_ ->
           [ended : BOOLEAN, gpus : SUBSET GPUs, sampled : SUBSET RdcFieldKey]]
  <2>1. CASE StopStats(c)
    <3> DEFINE j == call[c].job
    <3>1. cache_jobs_' = IF j \in DOMAIN cache_jobs_
                         THEN [cache_jobs_ EXCEPT ![j].ended = TRUE] ELSE cache_jobs_
      BY <2>1, Zenon DEF StopStats
    <3> HIDE DEF j
    <3> QED BY Zenon, <1>1, <3>1 DEF JobTypeOK
  <2>2. CASE ~StopStats(c)
    <3>1. UNCHANGED cache_jobs_
      BY <2>2, Zenon DEF RemoveAllSnapshot, StopFind, StopUnwatch, StopErase
    <3> QED BY <1>1, <3>1, ZenonT(30) DEF JobTypeOK
  <2> QED BY <2>1, <2>2, Zenon
<1>6. /\ call' \in [Clients -> Call] /\ call'[c].op = "remove_all"
      /\ \A d \in Clients : d # c => call'[d] = call[d]
      /\ call'[c].at = "unwatch" => call'[c].group \in GroupsOf[call'[c].job]
  <2>1. CASE \E todo \in SUBSET Jobs : NextJob(c, todo)
    <3>1. PICK todo \in SUBSET Jobs : NextJob(c, todo)
      BY <2>1, Zenon
    <3> QED BY <1>1, <3>1, NextJobCall, ZenonT(30)
  <2>2. CASE \E at \in {"erase", "stats"} : Goto(c, at)
    BY ZenonT(30), <1>1, <2>2, GotoCall DEF Places
  <2>3. CASE StopFind(c) /\ ~AfterStop(c)
    <3>1. PICK j \in Jobs : /\ j = call[c].job /\ j \in DOMAIN job_watch_table_
                            /\ call' = [call EXCEPT ![c].at = "unwatch",
                                                    ![c].group = job_watch_table_[j].group_id]
      BY <1>1, <2>3, ZenonT(30) DEF StopFind, JobTypeOK
    <3>2. job_watch_table_[j].group_id \in Nat /\ job_watch_table_[j].group_id \in GroupsOf[j]
      <4>1. JobOk(j)
        BY <3>1, Zenon DEF JInv
      <4> QED BY <1>1, <3>1, <4>1, ZenonT(30) DEF JobTypeOK, JobOk
    <3> QED BY ZenonT(30), <1>1, <3>1, <3>2, FoundCall
  <2>4. call[c].todo \in SUBSET Jobs /\ DOMAIN job_watch_table_ \in SUBSET Jobs
    BY <1>1, Zenon DEF JobTypeOK, Call
  <2>5. CASE StopUnwatch(c) /\ ~AfterStop(c)
    BY ZenonT(30), <2>2, <2>5 DEF StopUnwatch
  <2>6. CASE StopErase(c)
    BY ZenonT(30), <2>2, <2>6 DEF StopErase
  <2>7. CASE AfterStop(c) \/ RemoveAllSnapshot(c)
    BY ZenonT(30), <1>2, <2>1, <2>4, <2>7 DEF RemoveAllSnapshot
  <2> QED BY <2>3, <2>5, <2>6, <2>7, ZenonT(30) DEF StopStats
<1>7. JobTypeOK'
  BY <1>1, <1>3, <1>4, <1>5, <1>6, ZenonT(30) DEF JobTypeOK
<1> QED BY <1>1, <1>3, <1>4, <1>5, <1>6, <1>7, RemovingAllJInv, ZenonT(30)

\* The last step: whoever is starting a job has met the removal.
LEMMA RemoveAllClearJInv ==
  ASSUME JInv, NEW c \in Clients, RemoveAllClear(c)
  PROVE  JInv'
<1>1. /\ call' = [call EXCEPT ![c] = Idle] /\ UNCHANGED job_watch_table_
      /\ cache_jobs_' = EmptyMap
      /\ view' = [j \in Jobs |-> IF Starting(j) THEN "beside" ELSE "removed"]
  BY Zenon DEF RemoveAllClear
<1>2. Idle \in Call /\ Idle.op = "none" /\ Idle.at = "idle"
  BY Zenon DEF Idle, Call, Ops, Places
<1>3. /\ call' \in [Clients -> Call] /\ call'[c].op = "none" /\ call'[c].at = "idle"
      /\ \A d \in Clients : d # c => call'[d] = call[d]
  BY <1>1, <1>2, Zenon DEF JInv, JobTypeOK
<1>4. /\ view' \in [Jobs -> Views] /\ \A j \in Jobs : view'[j] \in {"beside", "removed"}
      /\ \A j \in Jobs : Starting(j) => view'[j] = "beside"
  BY <1>1, Zenon DEF Views
<1>5. DOMAIN cache_jobs_' = {} /\ cache_jobs_' \in [{} ->
        [ended : BOOLEAN, gpus : SUBSET GPUs, sampled : SUBSET RdcFieldKey]]
  BY <1>1, Zenon DEF EmptyMap
<1>6. JobTypeOK'
  BY <1>1, <1>3, <1>4, <1>5, ZenonT(30) DEF JInv, JobTypeOK
<1>7. NoneRuns'
  BY <1>4, Zenon DEF NoneRuns
<1>8. \A j \in Jobs : JobOk(j)'
  BY ZenonT(30), <1>1, <1>4, <1>5 DEF JInv, JobOk
<1>9. ASSUME NEW d \in Clients PROVE CallOwn(d)' /\ StartInStep(d)'
  <2>1. CASE d = c
    BY <1>3, <2>1, Zenon DEF CallOwn, StartInStep, Undisturbed, At
  <2>2. CASE d # c
    <3>1. CallOwn(d) /\ call'[d] = call[d]
      BY <1>3, <2>2, Zenon DEF JInv
    <3>2. call[d].op \in {"start", "stop", "remove"} => call[d].job \in Jobs
      BY Zenon, <3>1, JobConstants DEF CallOwn
    <3>3. call[d].op = "start" => view'[call[d].job] = "beside"
      BY <1>4, <3>2, ZenonT(30) DEF Starting
    <3> QED BY ZenonT(30), <1>4, <3>1, <3>2, <3>3 DEF CallOwn, StartInStep, Undisturbed, At
  <2> QED BY <2>1, <2>2, Zenon
<1> QED BY <1>6, <1>7, <1>8, <1>9, ZenonT(30) DEF JInv

-----------------------------------------------------------------------------
(* The theorems *)

\* A step of a call for jobs keeps it.
LEMMA JobStepJInv ==
  ASSUME OneClientEach, JInv, GroupTypeOK, NEW c \in Clients, JobStep(c)
  PROVE  JInv'
<1>1. CASE \/ \E j \in JobsOf[c] : \E g \in GroupsOf[j] : CallStart(c, j, g)
           \/ \E j \in JobsOf[c], op \in {"stop", "remove"} : CallStop(c, op, j)
  BY Zenon, <1>1, CallsJInv
<1>2. CASE StartCheck(c) \/ StartRegister(c) \/ StartCache(c)
  BY <1>2, StartJInv, Zenon
<1>3. CASE StartWatch(c)
  BY <1>3, StartWatchJInv, Zenon
<1>4. CASE CallRemoveAll(c)
  BY <1>4, CallRemoveAllJInv, Zenon
<1>5. CASE RemoveAllSnapshot(c)
  BY <1>5, RemoveAllStopsJInv, Zenon DEF RemoveAllSnapshot, At
<1>6. CASE StopFind(c) \/ StopUnwatch(c) \/ StopErase(c) \/ StopStats(c)
  <2>1. call[c].op \in {"stop", "remove", "remove_all"}
    BY <1>6, Zenon DEF StopFind, StopUnwatch, StopErase, StopStats, At, Stopping
  <2> QED BY <1>6, <2>1, StopJInv, RemoveAllStopsJInv, ZenonT(30)
<1>7. CASE RemoveDrop(c)
  BY <1>7, StopJInv, ZenonT(30) DEF RemoveDrop, At
<1>8. CASE RemoveAllClear(c)
  BY <1>8, RemoveAllClearJInv, Zenon
<1> QED BY ZenonT(30), <1>1, <1>2, <1>3, <1>4, <1>5, <1>6, <1>7, <1>8 DEF JobStep

\* Every step keeps it.
LEMMA NextJInv ==
  ASSUME OneClientEach, IInv, JInv, [JobNext]_allvars
  PROVE  JInv'
<1>1. TypeOK /\ GroupTypeOK
  BY Zenon DEF IInv, TypeOK
<1>2. CASE \E c \in Clients : JobStep(c)
  BY <1>1, <1>2, JobStepJInv, Zenon
<1>3. CASE GroupStep /\ UNCHANGED jvars
  BY <1>1, <1>3, GroupsJInv, Zenon
<1>4. CASE Tick /\ UNCHANGED jvars
  BY <1>4, AsideJInv, Zenon DEF Tick
<1>5. CASE JobUpdateStep
  BY <1>1, <1>5, SamplesJInv, Zenon
<1>6. CASE UNCHANGED allvars
  BY <1>6, AsideJInv, Zenon DEF allvars, vars
<1> QED BY <1>2, <1>3, <1>4, <1>5, <1>6, ZenonT(30) DEF JobNext

\* Both invariants together.
LEMMA JobsInvariant ==
  ASSUME OneClientEach
  PROVE  JobSpec => [](IInv /\ JInv)
<1>1. IInv /\ JInv /\ [JobNext]_allvars => JInv'
  BY NextJInv, Zenon
<1> QED BY <1>1, InitIInv, InitJInv, JobNextIInv, PTL DEF JobSpec

\* A job that its user has started and not asked to stop is registered and has
\* live statistics, whatever the calls for other jobs, the clean-ups, the
\* groups and the samples do meanwhile, if no two clients use the same job id.
THEOREM RunningJobsHaveStats ==
  ASSUME OneClientEach
  PROVE  JobSpec => []RunningJobHasStats
<1>1. JInv => RunningJobHasStats
  BY Zenon DEF JInv, JobOk, Live, RunningJobHasStats
<1> QED BY <1>1, JobsInvariant, PTL

\* The statistics of a removed job are gone for good: no sample and no call
\* that is still under way brings them back, if no two clients use the same
\* job id.
THEOREM RemovedJobsHaveNone ==
  ASSUME OneClientEach
  PROVE  JobSpec => []RemovedJobHasNoStats
<1>1. JInv => RemovedJobHasNoStats
  BY Zenon DEF JInv, JobOk, RemovedJobHasNoStats
<1> QED BY <1>1, JobsInvariant, PTL

-----------------------------------------------------------------------------
(* The watches that feed the jobs *)

\* rdc_field_watch ends no watch.
LEMMA WatchEndsNone ==
  ASSUME TypeOK, NEW g, NEW f, NEW q, NEW r, rdc_field_watch(g, f, q, r)
  PROVE  /\ \A e \in Watching(watch_table_) : e \in Watching(watch_table_')
         /\ r = "OK" => <<g, f>> \in Watching(watch_table_')
<1>1. \/ r = "CONFLICT" /\ FieldWatchConflict(g, f)
      \/ r = "NOT_FOUND" /\ FieldWatchNotFound(g, f)
      \/ r = "OK" /\ FieldWatchOk(g, f, q)
  BY Zenon DEF rdc_field_watch
<1>2. CASE r = "CONFLICT" /\ FieldWatchConflict(g, f)
  BY <1>2, Zenon DEF FieldWatchConflict, tvars
<1>3. CASE r = "NOT_FOUND" /\ FieldWatchNotFound(g, f)
  BY <1>3, Zenon DEF FieldWatchNotFound, MapErase, Watching
<1>4. CASE r = "OK" /\ FieldWatchOk(g, f, q)
  BY Zenon, <1>4 DEF FieldWatchOk, MapPut, Watching, NewSettings
<1> QED BY <1>1, <1>2, <1>3, <1>4, ZenonT(30)

\* rdc_field_unwatch ends one watch.
LEMMA UnwatchEndsOne ==
  ASSUME TypeOK, NEW g, NEW f, NEW now, NEW r, rdc_field_unwatch(g, f, now, r)
  PROVE  \A e \in Watching(watch_table_) : e # <<g, f>> => e \in Watching(watch_table_')
<1>1. watch_table_' = [watch_table_ EXCEPT ![<<g, f>>].is_watching = FALSE,
                                           ![<<g, f>>].last_update_time = now]
  BY Zenon DEF rdc_field_unwatch
<1> QED BY <1>1, Zenon DEF TypeOK, Watching

\* No step touches the registration of a job that runs before and after it.
LEMMA RunningStaysRegistered ==
  ASSUME JInv, NEW c \in Clients, JobStep(c), NEW j \in Jobs, view[j] = "running"
  PROVE  /\ ~RemovingAll
         /\ call[c].op \in {"start", "stop", "remove"} => call[c].job # j
         /\ j \in DOMAIN job_watch_table_ /\ j \in DOMAIN job_watch_table_'
         /\ job_watch_table_'[j] = job_watch_table_[j]
<1>1. ~RemovingAll /\ j \in DOMAIN job_watch_table_
  BY Zenon DEF JInv, NoneRuns, JobOk, Live
<1>2. call[c].op \in {"start", "stop", "remove"} => call[c].job # j
  <2>1. CallOwn(c)
    BY Zenon DEF JInv
  <2> QED BY <2>1, Zenon DEF CallOwn
<1>3. CASE StartRegister(c)
  <2>1. \/ UNCHANGED job_watch_table_
        \/ \E v : job_watch_table_' = MapPut(job_watch_table_, call[c].job, v)
    BY ZenonT(30), <1>3 DEF StartRegister
  <2>2. call[c].job # j
    BY ZenonT(30), <1>2, <1>3 DEF StartRegister, At
  <2> QED BY <1>1, <1>2, <2>1, <2>2, ZenonT(30) DEF MapPut
<1>4. CASE StopErase(c)
  <2>1. job_watch_table_' = MapErase(job_watch_table_, {call[c].job})
    BY <1>4, Zenon DEF StopErase
  <2>2. call[c].job # j
    BY <1>1, <1>2, <1>4, ZenonT(30) DEF StopErase, At, Stopping, RemovingAll
  <2> QED BY <1>1, <1>2, <2>1, <2>2, ZenonT(30) DEF MapErase
<1>5. CASE ~StartRegister(c) /\ ~StopErase(c)
  <2>1. UNCHANGED job_watch_table_
    BY ZenonT(30), <1>5 DEF JobStep, CallStart, StartCheck, StartCache, StartWatch, CallStop,
         CallRemoveAll, RemoveAllSnapshot, StopFind, StopUnwatch, StopStats,
         RemoveDrop, RemoveAllClear
  <2> QED BY <1>1, <1>2, <2>1, ZenonT(30)
<1> QED BY ZenonT(30), <1>3, <1>4, <1>5

\* Only the last step of a start makes a job run.
LEMMA RunningFromWatch ==
  ASSUME JInv, NEW c \in Clients, JobStep(c), NEW j \in Jobs,
         view[j] # "running", view'[j] = "running"
  PROVE  /\ At(c, {"start"}, "watch") /\ j = call[c].job /\ Undisturbed(c)
         /\ rdc_field_watch(call[c].group, JOB_FIELD_ID,
                            [freq |-> JobFreq, age |-> 0, keep |-> 0], "OK")
         /\ UNCHANGED job_watch_table_
<1>1. view \in [Jobs -> Views]
  BY Zenon DEF JInv, JobTypeOK
<1>2. ASSUME NEW x, NEW v, v # "running", view' = [view EXCEPT ![x] = v] PROVE FALSE
  BY <1>1, <1>2, Zenon
<1>3. ~UNCHANGED view
  BY Zenon
<1>4. CASE StartWatch(c)
  <2>1. PICK r \in Status :
          /\ rdc_field_watch(call[c].group, JOB_FIELD_ID,
                             [freq |-> JobFreq, age |-> 0, keep |-> 0], r)
          /\ view' = [view EXCEPT ![call[c].job] =
               IF r = "OK" /\ view[call[c].job] = "none" /\ ~RemovingAll
               THEN "running" ELSE "none"]
    BY ZenonT(30), <1>4 DEF StartWatch, Return
  <2>2. r = "OK" /\ view[call[c].job] = "none" /\ ~RemovingAll /\ j = call[c].job
    BY <1>1, <2>1, Zenon
  <2> QED BY ZenonT(30), <1>4, <2>1, <2>2 DEF StartWatch, At, Undisturbed
<1>5. CASE CallRemoveAll(c) \/ RemoveAllClear(c)
  <2>1. CASE CallRemoveAll(c)
    <3>1. view'[j] = CASE Starting(j) -> "beside"
                       [] view[j] = "removed" -> "removed"
                       [] OTHER -> "none"
      BY <2>1, Zenon DEF CallRemoveAll
    <3>2. CASE Starting(j)
      BY <3>1, <3>2, Zenon
    <3>3. CASE ~Starting(j)
      BY <3>1, <3>3, Zenon
    <3> QED BY Zenon, <3>2, <3>3
  <2>2. CASE RemoveAllClear(c)
    BY Zenon, <2>2 DEF RemoveAllClear
  <2> QED BY ZenonT(30), <1>5, <2>1, <2>2
<1>6. CASE ~StartWatch(c) /\ ~CallRemoveAll(c) /\ ~RemoveAllClear(c)
  <2>1. \/ UNCHANGED view
        \/ \E x, v : v # "running" /\ view' = [view EXCEPT ![x] = v]
    <3>1. AfterStop(c) /\ call[c].op \in Stopping =>
            UNCHANGED view \/ view' = [view EXCEPT ![call[c].job] = "none"]
      BY Zenon DEF AfterStop, Return, Stopping
    <3>2. CASE StopFind(c) \/ StopUnwatch(c) \/ StopErase(c) \/ StopStats(c)
      <4>1. UNCHANGED view \/ view' = [view EXCEPT ![call[c].job] = "none"]
        BY <3>1, <3>2, Zenon DEF StopFind, StopUnwatch, StopErase, StopStats, At
      <4>2. "none" # "running"
        BY Zenon
      <4> QED BY <4>1, <4>2, Zenon
    <3>3. CASE ~(StopFind(c) \/ StopUnwatch(c) \/ StopErase(c) \/ StopStats(c))
      <4>1. \/ UNCHANGED view
            \/ \E x : view' = [view EXCEPT ![x] = "none"]
            \/ \E x : view' = [view EXCEPT ![x] = "removed"]
        BY ZenonT(30), <1>6, <3>3 DEF JobStep, CallStart, StartCheck, StartRegister, StartCache,
             CallStop, RemoveAllSnapshot, RemoveDrop, Return
      <4>2. "none" # "running" /\ "removed" # "running"
        BY Zenon
      <4> QED BY <4>1, <4>2, ZenonT(30)
    <3> QED BY <3>2, <3>3, Zenon
  <2> QED BY ZenonT(30), <1>2, <1>3, <2>1
<1> QED BY Zenon, <1>4, <1>5, <1>6

\* Every step keeps the watches of the running jobs.
LEMMA NextWatched ==
  ASSUME OneGroupEach, IInv, JInv, RunningJobWatched, [JobNext]_allvars
  PROVE  RunningJobWatched'
<1>1. TypeOK
  BY Zenon DEF IInv
<1> SUFFICES ASSUME NEW j \in Jobs, view'[j] = "running"
             PROVE  /\ j \in DOMAIN job_watch_table_'
                    /\ <<job_watch_table_'[j].group_id, JOB_FIELD_ID>> \in Watching(watch_table_')
  BY Zenon DEF RunningJobWatched
<1> DEFINE e == <<job_watch_table_[j].group_id, JOB_FIELD_ID>>
           W == Watching(watch_table_)
<1>2. W' = Watching(watch_table_')
  BY Zenon DEF Watching
<1>3. UNCHANGED watch_table_ => W' = W
  BY Zenon DEF Watching
<1> HIDE DEF W
<1>4. ASSUME view[j] = "running" PROVE j \in DOMAIN job_watch_table_ /\ e \in W
  BY <1>4, Zenon DEF RunningJobWatched, W
<1>5. ASSUME NEW c \in Clients, JobStep(c), view[j] = "running"
      PROVE  /\ j \in DOMAIN job_watch_table_'
             /\ <<job_watch_table_'[j].group_id, JOB_FIELD_ID>> \in W'
  <2>1. /\ ~RemovingAll
        /\ call[c].op \in {"start", "stop", "remove"} => call[c].job # j
        /\ j \in DOMAIN job_watch_table_ /\ j \in DOMAIN job_watch_table_'
        /\ job_watch_table_'[j] = job_watch_table_[j]
    BY <1>5, RunningStaysRegistered, Zenon
  <2>2. e \in W'
    <3>1. CASE UNCHANGED vars
      BY <1>3, <1>4, <1>5, <3>1, ZenonT(30) DEF vars, tvars
    <3>2. CASE StartWatch(c)
      <4>1. PICK q, r : rdc_field_watch(call[c].group, JOB_FIELD_ID, q, r)
        BY Zenon, <3>2 DEF StartWatch
      <4> QED BY ZenonT(30), <1>1, <1>2, <1>4, <1>5, <4>1, WatchEndsNone DEF W
    <3>3. CASE StopUnwatch(c) /\ ~UNCHANGED vars
      <4>1. PICK now, r : rdc_field_unwatch(call[c].group, JOB_FIELD_ID, now, r)
        BY ZenonT(30), <3>3 DEF StopUnwatch
      <4>2. call[c].op \in {"stop", "remove"} /\ call[c].at = "unwatch"
        BY <2>1, <3>3, Zenon DEF StopUnwatch, At, Stopping, RemovingAll
      <4>3. call[c].job \in Jobs /\ call[c].job # j
        BY <2>1, <4>2, OwnJob, ZenonT(30)
      <4>4. call[c].group \in GroupsOf[call[c].job]
        BY <4>2, Zenon DEF JInv, CallOwn, At, Stopping
      <4>5. job_watch_table_[j].group_id \in GroupsOf[j]
        BY Zenon, <2>1 DEF JInv, JobOk
      <4>6. call[c].group # job_watch_table_[j].group_id
        BY <4>3, <4>4, <4>5, ZenonT(30) DEF OneGroupEach
      <4>7. e # <<call[c].group, JOB_FIELD_ID>>
        BY <4>6, Zenon
      <4> HIDE DEF e
      <4> QED BY ZenonT(30), <1>1, <1>2, <1>4, <1>5, <4>1, <4>7, UnwatchEndsOne DEF W
    <3> QED BY <1>5, <3>1, <3>2, <3>3, JobStepAside, ZenonT(30)
  <2> QED BY <2>1, <2>2, Zenon
<1>6. ASSUME NEW c \in Clients, JobStep(c), view[j] # "running"
      PROVE  /\ j \in DOMAIN job_watch_table_'
             /\ <<job_watch_table_'[j].group_id, JOB_FIELD_ID>> \in W'
  <2> DEFINE g == call[c].group
  <2>1. /\ At(c, {"start"}, "watch") /\ j = call[c].job /\ Undisturbed(c)
        /\ rdc_field_watch(g, JOB_FIELD_ID, [freq |-> JobFreq, age |-> 0, keep |-> 0], "OK")
        /\ UNCHANGED job_watch_table_
    BY ZenonT(30), <1>6, RunningFromWatch
  <2>2. j \in DOMAIN job_watch_table_ /\ job_watch_table_[j].group_id = g
    <3>1. StartInStep(c)
      BY Zenon DEF JInv
    <3> QED BY Zenon, <2>1, <3>1 DEF StartInStep, Found, At
  <2>3. <<g, JOB_FIELD_ID>> \in W'
    BY ZenonT(30), <1>1, <1>2, <2>1, WatchEndsNone
  <2> QED BY <2>1, <2>2, <2>3, ZenonT(30)
<1>7. ASSUME UNCHANGED jvars, W' = W
      PROVE  /\ j \in DOMAIN job_watch_table_'
             /\ <<job_watch_table_'[j].group_id, JOB_FIELD_ID>> \in W'
  BY <1>4, <1>7, Zenon DEF jvars
<1>8. CASE \E c \in Clients : JobStep(c)
  BY <1>2, <1>5, <1>6, <1>8, ZenonT(30)
<1>9. CASE (GroupStep \/ Tick) /\ UNCHANGED jvars
  BY <1>2, <1>3, <1>7, <1>9, ZenonT(30) DEF GroupStep, Tick, tvars
<1>10. CASE JobUpdateStep
  <2>1. W' = W
    <3>1. PICK now \in ReadTimes : \E ok \in SUBSET Due(now), took \in 0 .. MaxFetch :
            rdc_field_update_all(now, ok, took)
      BY <1>10, Zenon DEF JobUpdateStep
    <3>2. now \in Nat /\ 0 .. MaxFetch \subseteq Nat
      BY <1>1, ReadTimesNat, WatchConstants, SMTT(30) DEF TypeOK
    <3> QED BY <1>2, <3>1, <3>2, UpdateKeeps, ZenonT(30) DEF W
  <2>2. UNCHANGED <<job_watch_table_, view>>
    BY <1>10, Zenon DEF JobUpdateStep
  <2> QED BY <1>2, <1>4, <2>1, <2>2, ZenonT(30)
<1>11. CASE UNCHANGED allvars
  BY ZenonT(30), <1>2, <1>3, <1>7, <1>11 DEF allvars, vars, tvars
<1> QED BY <1>8, <1>9, <1>10, <1>11, ZenonT(30) DEF JobNext

\* As long as a job runs, the watch that feeds it runs: stopping another job,
\* removing it or starting one ends no watch but its own, if no two clients
\* use the same job id and no two jobs the same group.
THEOREM RunningJobsAreWatched ==
  ASSUME OneClientEach, OneGroupEach
  PROVE  JobSpec => []RunningJobWatched
<1>1. JobInit => RunningJobWatched
  BY Zenon DEF JobInit, RunningJobWatched
<1>2. IInv /\ JInv /\ RunningJobWatched /\ [JobNext]_allvars => RunningJobWatched'
  BY NextWatched, Zenon
<1> QED BY <1>1, <1>2, JobsInvariant, PTL DEF JobSpec

-----------------------------------------------------------------------------
(* Samples reach the jobs that run *)

\* No two registered jobs have a field in common.
JobsApart ==
  \A i, j \in DOMAIN job_watch_table_ :
    i # j => job_watch_table_[i].fields \cap job_watch_table_[j].fields = {}

\* One step gives a new sample of a field to every running job that has it.
SampleReaches ==
  \A j \in Jobs, k \in TelemetryKey :
    (/\ view[j] = "running"
     /\ j \in DOMAIN job_watch_table_ /\ k \in job_watch_table_[j].fields
     /\ j \in DOMAIN cache_jobs_ /\ j \in DOMAIN cache_jobs_'
     /\ Len(cache_samples_'[k]) > Len(cache_samples_[k]))
    => k \in cache_jobs_'[j].sampled

\* The cache of a field grows only by a sample of that field.
LEMMA GrowsBySample ==
  ASSUME TypeOK, NEW now \in Nat, NEW ok, NEW took \in Nat, rdc_field_update_all(now, ok, took),
         NEW k \in TelemetryKey, Len(cache_samples_'[k]) > Len(cache_samples_[k])
  PROVE  k \in ok
<1> SUFFICES ASSUME k \notin ok PROVE FALSE
  BY Zenon
<1> DEFINE ftw   == Stamped(Due(now), clock + took)
           cache == Sampled(ok, clock)
           s     == cache_samples_[k]
<1>1. s \in Seq(Nat) /\ k \in RdcFieldKey /\ clock + took \in Nat
  BY Keys DEF TypeOK
<1>2. Len(s) \in Nat
  BY <1>1, LenProperties, Zenon
<1>3. cache[k] = s
  BY <1>1, Zenon DEF Sampled
<1>4. \/ cache_samples_'[k] = cache[k]
      \/ /\ k \in DOMAIN ftw
         /\ cache_samples_'[k] =
              evict_cache(cache[k], ftw[k].max_keep_samples, ftw[k].max_keep_age, clock + took)
  BY <1>1, Zenon DEF rdc_field_update_all, CleanUp
<1>5. k \in DOMAIN ftw => ftw[k].max_keep_samples \in Nat /\ ftw[k].max_keep_age \in Nat
  BY Zenon DEF Stamped, TypeOK, FieldSettings
<1> HIDE DEF ftw, cache, s
<1>6. cache_samples_'[k] \in Seq(Nat) /\ Len(cache_samples_'[k]) <= Len(s)
  <2>1. CASE cache_samples_'[k] = s
    BY <1>1, <1>2, <2>1, SMTT(30)
  <2>2. CASE cache_samples_'[k] # s
    BY ZenonT(30), <1>1, <1>3, <1>4, <1>5, <2>2, EvictShorter, EvictTail
  <2> QED BY <2>1, <2>2, ZenonT(30)
<1>7. Len(cache_samples_'[k]) \in Nat
  BY <1>6, LenProperties, Zenon
<1> QED BY <1>2, <1>6, <1>7, SMTT(30) DEF s

\* is_job_watch_field finds the job, and its statistics have the GPU.
LEMMA UpdateReaches ==
  ASSUME IInv, JInv, JobsApart, JobUpdateStep
  PROVE  SampleReaches
<1>1. PICK now \in ReadTimes : \E ok \in SUBSET Due(now), took \in 0 .. MaxFetch :
        rdc_field_update_all(now, ok, took) /\ cache_jobs_' = JobStats(ok)
  BY Zenon DEF JobUpdateStep
<1>2. PICK ok \in SUBSET Due(now), took \in 0 .. MaxFetch :
        rdc_field_update_all(now, ok, took) /\ cache_jobs_' = JobStats(ok)
  BY <1>1, Zenon
<1>3. TypeOK /\ now \in Nat /\ took \in Nat
  BY ReadTimesNat, WatchConstants, SMTT(30) DEF IInv, TypeOK
<1> SUFFICES ASSUME NEW j \in Jobs, NEW k \in TelemetryKey, view[j] = "running",
                    j \in DOMAIN job_watch_table_, k \in job_watch_table_[j].fields,
                    j \in DOMAIN cache_jobs_,
                    Len(cache_samples_'[k]) > Len(cache_samples_[k])
             PROVE  k \in cache_jobs_'[j].sampled
  BY Zenon DEF SampleReaches
<1>4. k \in ok
  BY ZenonT(30), <1>2, <1>3, GrowsBySample
<1>5. JobsWith(k) = {j}
  BY Zenon DEF JobsWith, JobsApart
<1>6. LeastJob(JobsWith(k)) = j
  <2>1. {j} # {} /\ {j} \in SUBSET Jobs
    BY Zenon
  <2> QED BY ZenonT(30), <1>5, <2>1, LeastJobIn
<1>7. k[1] \in cache_jobs_[j].gpus
  <2>1. Live(j)
    BY Zenon DEF JInv, JobOk
  <2> QED BY <2>1, Zenon DEF Live
<1> DEFINE more(i) == {x \in ok : /\ JobsWith(x) # {} /\ i = LeastJob(JobsWith(x))
                                  /\ x[1] \in cache_jobs_[i].gpus}
<1>8. cache_jobs_'[j] = [cache_jobs_[j] EXCEPT !.sampled = @ \cup more(j)]
  BY <1>2, Zenon DEF JobStats
<1>9. k \in more(j)
  BY ZenonT(30), <1>4, <1>5, <1>6, <1>7
<1> HIDE DEF more
<1> QED BY <1>8, <1>9, ZenonT(30) DEF JInv, JobTypeOK

\* A successful sample of a field reaches every running job that has the
\* field, if no two clients use the same job id and as long as no two
\* registered jobs have a field in common (is_job_watch_field stops at the
\* first one).
THEOREM EverySampleReachesItsJob ==
  ASSUME OneClientEach
  PROVE  JobSpec /\ []JobsApart => EveryRunningJobSampled
<1>1. IInv /\ JInv /\ JobsApart /\ [JobNext]_allvars => [SampleReaches]_allvars
  <2> SUFFICES ASSUME IInv, JInv, JobsApart, JobNext PROVE SampleReaches
    BY Zenon
  <2>1. CASE JobUpdateStep
    BY <2>1, UpdateReaches, Zenon
  <2>2. CASE ~JobUpdateStep
    <3>1. UNCHANGED cache_samples_
      <4>1. CASE \E c \in Clients : JobStep(c)
        BY ZenonT(30), <4>1, JobStepTables DEF rdc_field_watch, rdc_field_unwatch, vars
      <4>2. CASE GroupStep \/ Tick
        BY <4>2, Zenon DEF GroupStep, Tick
      <4> QED BY <2>2, <4>1, <4>2, ZenonT(30) DEF JobNext
    <3>2. \A k \in TelemetryKey : ~(Len(cache_samples_[k]) > Len(cache_samples_[k]))
      <4>1. \A k \in TelemetryKey : Len(cache_samples_[k]) \in Nat
        BY Keys, LenProperties, ZenonT(30) DEF IInv, TypeOK
      <4> QED BY <4>1, SMTT(30)
    <3> QED BY <3>1, <3>2, ZenonT(30) DEF SampleReaches
  <2> QED BY <2>1, <2>2, Zenon
<1>2. JobSpec /\ []JobsApart => [][SampleReaches]_allvars
  BY <1>1, JobsInvariant, PTL DEF JobSpec
<1> QED BY <1>2, Zenon DEF EveryRunningJobSampled, SampleReaches
=============================================================================
