------------------------------- MODULE RdcApi -------------------------------
(***************************************************************************)
(* The API of RDC over gRPC: clients with a handle of rdc_connect, the     *)
(* network, and the daemon whose service calls its embedded handler.       *)
(*                                                                         *)
(* A client makes one call at a time and gRPC gives it no deadline.  A     *)
(* connection may break at any time: the client then gets an error, while  *)
(* its request may be lost, still be on its way, or be under way in a      *)
(* thread of the daemon.  The daemon may also die and be started again;    *)
(* it remembers nothing, and the clients connect anew.                     *)
(***************************************************************************)
EXTENDS RdcEmbeddedHandler

CONSTANTS
  Clients,
  Calls,                       \* client -> operation -> the arguments it passes
  RDC_MAX_NUM_DEVICES,
  MAX_TEST_CASES,
  MaxCalls,                    \* bound: client -> number of its calls
  MaxRestarts,                 \* bound: deaths of the daemon
  MaxUpdates                   \* bound: background updates at a time

\* The calls of the API, by what they ask for.
Operations ==
  {"device_get_all", "device_get_attributes", "component_version", "group_gpu_create",
   "group_gpu_add", "group_gpu_get_info", "group_get_all_ids", "group_field_get_all_ids",
   "group_gpu_destroy", "group_field_create", "group_field_get_info",
   "group_field_destroy", "field_watch", "field_latest", "field_since", "field_unwatch",
   "update_all", "job_start", "job_get", "job_stop", "job_remove", "job_remove_all",
   "diagnostic_run", "test_case_run", "mixed_version"}

VARIABLES
  caller,                      \* client -> its call: number, operation, result
  tasks,                       \* client, call number -> its request in the network,
                               \* its thread in the daemon, its reply
  updater_,                    \* the future of the last background update
  updating,                    \* background updates still running
  restarts,
  own,                         \* history: groups a client was given and has not
                               \* asked to destroy
  maker                        \* history: group id -> the call that created it

avars == <<gvars, caller, tasks, updater_, updating, restarts, own, maker>>

Service == INSTANCE RdcApiService
Standalone == INSTANCE RdcStandaloneHandler

\* The GPUs are numbered from 0, there is at least one, and what the calls hand
\* over in arrays of a fixed size fits into them.
ASSUME ApiConstants ==
  /\ RDC_MAX_NUM_DEVICES \in Nat /\ Cardinality(GPUs) \in 1 .. RDC_MAX_NUM_DEVICES
  /\ GPUs = 0 .. (Cardinality(GPUs) - 1)
  /\ IsFiniteSet(Fields) /\ Cardinality(JobFields) <= RDC_MAX_FIELD_IDS_PER_FIELD_GROUP
  /\ \A c \in Clients : DOMAIN Calls[c] \subseteq Operations
  /\ \A v \in Values : v = [type |-> v.type, value |-> v.value, blanks |-> v.blanks]
  /\ Usage = [x \in Service!GpuUsageInfo |-> Usage[x]]
  /\ \A d \in Diagnoses :
       /\ Cardinality(d) <= MAX_TEST_CASES
       /\ \A r \in d : Cardinality(r.gpus) <= RDC_MAX_NUM_DEVICES

NoCall == [n |-> 0, at |-> "idle", op |-> "none", status |-> "none"]

ApiInit ==
  /\ GroupInit
  /\ caller = [c \in Clients |-> NoCall]
  /\ tasks = EmptyMap
  /\ updater_ = 0 /\ updating = {}
  /\ restarts = 0
  /\ own = [c \in Clients |-> {}]
  /\ maker = EmptyMap

-----------------------------------------------------------------------------
(* The client *)

\* The operations whose out pointer RdcBootStrap.cc checks with the handle.
CheckedWithHandle ==
  {"device_get_all", "device_get_attributes", "component_version", "group_field_create",
   "group_gpu_get_info", "group_get_all_ids", "group_field_get_all_ids",
   "field_latest", "field_since", "mixed_version"}

\* The handlers check the pointer of the others themselves.
CheckedByHandler ==
  {"job_get", "group_gpu_create", "group_field_get_info", "diagnostic_run", "test_case_run"}

\* The status a call with a null handle or a null out pointer comes back with.
Refusal(op, null) ==
  IF null = "handle" THEN "INVALID_HANDLER"
  ELSE IF op \in CheckedWithHandle THEN "INVALID_HANDLER" ELSE "BAD_PARAMETER"

\* A refused call never leaves the process.
CallRefused(c, op, null) ==
  /\ caller[c].at = "idle" /\ caller[c].n < MaxCalls[c]
  /\ null = "out" => op \in CheckedWithHandle \cup CheckedByHandler
  /\ caller' = [caller EXCEPT ![c] =
       [NoCall EXCEPT !.n = caller[c].n + 1, !.status = Refusal(op, null)]]
  /\ UNCHANGED <<gvars, tasks, updater_, updating, restarts, own, maker>>

Request(op, arg) ==
  [op |-> op, arg |-> arg, at |-> "sent", next |-> 0, id |-> 0,
   local |-> Err("none"), reply |-> Err("none")]

\* What the client knows when it asks: it gives up a group it wants destroyed.
Call(c, op, arg) ==
  /\ caller[c].at = "idle" /\ caller[c].n < MaxCalls[c]
  /\ tasks' = MapPut(tasks, <<c, caller[c].n + 1>>, Request(op, arg))
  /\ caller' = [caller EXCEPT ![c] =
       [NoCall EXCEPT !.n = caller[c].n + 1, !.at = "waiting", !.op = op]]
  /\ own' = IF op = "group_gpu_destroy" THEN [own EXCEPT ![c] = @ \ {arg}] ELSE own
  /\ UNCHANGED <<gvars, updater_, updating, restarts, maker>>

\* The arguments of op: a client names the groups it was given, or none.
ArgsOf(c, op) ==
  CASE op = "group_gpu_add" -> (own[c] \cup {0}) \X Calls[c][op]
    [] op \in {"group_gpu_get_info", "group_gpu_destroy", "diagnostic_run",
               "test_case_run"} -> own[c] \cup Calls[c][op]
    [] OTHER -> Calls[c][op]

-----------------------------------------------------------------------------
(* The daemon: a thread takes a request and calls the embedded handler *)

Goto(k, u) == tasks' = MapPut(tasks, k, u)

\* The reply of each RPC to the answer a of the library.
ReplyOf(op, arg, a) ==
  CASE op = "device_get_all" -> Service!GetAllDevices(a)
    [] op = "device_get_attributes" -> Service!GetDeviceAttributes(a)
    [] op = "component_version" -> Service!GetComponentVersion(a)
    [] op = "group_gpu_create" -> Service!CreateGpuGroup(a)
    [] op = "group_gpu_add" -> Service!AddToGpuGroup(a)
    [] op = "group_gpu_get_info" -> Service!GetGpuGroupInfo(a)
    [] op = "group_get_all_ids" -> Service!GetGroupAllIds(a)
    [] op = "group_field_get_all_ids" -> Service!GetFieldGroupAllIds(a)
    [] op = "group_gpu_destroy" -> Service!DestroyGpuGroup(a)
    [] op = "group_field_create" -> Service!CreateFieldGroup(a)
    [] op = "group_field_get_info" -> Service!GetFieldGroupInfo(a)
    [] op = "group_field_destroy" -> Service!DestroyFieldGroup(a)
    [] op = "field_watch" -> Service!WatchFields(a)
    [] op = "field_latest" -> Service!GetLatestFieldValue(a)
    [] op = "field_since" -> Service!GetFieldSince(a)
    [] op = "field_unwatch" -> Service!UnWatchFields(a)
    [] op = "update_all" -> Service!UpdateAllFields(a)
    [] op = "job_start" -> Service!StartJobStats(a)
    [] op = "job_get" -> Service!GetJobStats(a)
    [] op = "job_stop" -> Service!StopJobStats(a)
    [] op = "job_remove" -> Service!RemoveJob(a)
    [] op = "job_remove_all" -> Service!RemoveAllJob(a)
    [] op = "diagnostic_run" -> Service!DiagnosticRun(a)
    [] op = "test_case_run" -> Service!DiagnosticTestCaseRun(a)
    [] op = "mixed_version" -> Service!GetMixedComponentVersion(arg)

\* The library call is over and the reply is on its way, unless the caller has
\* given up.
Answer(k, a) ==
  IF caller[k[1]].at = "idle" \/ caller[k[1]].n # k[2] THEN tasks' = MapErase(tasks, {k})
  ELSE Goto(k, [tasks[k] EXCEPT !.at = "reply", !.local = a,
                           !.reply = ReplyOf(tasks[k].op, tasks[k].arg, a)])

\* The answers of the operations that change no group.
AnswersTo(op, arg) ==
  CASE op = "device_get_all" -> rdc_device_get_all
    [] op = "device_get_attributes" -> rdc_device_get_attributes(arg)
    [] op = "component_version" -> rdc_device_get_component_version(arg)
    [] op = "group_gpu_get_info" -> rdc_group_gpu_get_info(arg)
    [] op = "group_get_all_ids" -> rdc_group_get_all_ids
    [] op = "group_field_get_all_ids" -> rdc_group_field_get_all_ids
    [] op = "group_field_get_info" -> rdc_group_field_get_info(arg)
    [] op = "field_watch" -> rdc_field_watch
    [] op = "field_latest" -> rdc_field_get_latest_value(arg)
    [] op = "field_since" -> rdc_field_get_value_since(arg)
    [] op = "field_unwatch" -> rdc_field_unwatch
    [] op = "job_start" -> rdc_job_start_stats
    [] op = "job_get" -> rdc_job_get_stats
    [] op = "job_stop" -> rdc_job_stop_stats
    [] op = "job_remove" -> rdc_job_remove
    [] op = "job_remove_all" -> rdc_job_remove
    [] op = "diagnostic_run" -> rdc_diagnostic_run(arg)
    [] op = "test_case_run" -> rdc_test_case_run(arg)
    [] op = "mixed_version" -> get_mixed_component_version

ServeRead(k) ==
  /\ tasks[k].at = "sent"
  /\ tasks[k].op \notin {"group_gpu_create", "group_gpu_add", "group_gpu_destroy",
                  "group_field_create", "group_field_destroy", "update_all"}
  /\ \E a \in AnswersTo(tasks[k].op, tasks[k].arg) : Answer(k, a)
  /\ UNCHANGED <<gvars, caller, updater_, updating, restarts, own, maker>>

\* The calls that are one operation on the groups.
ServeGroup(k) ==
  /\ tasks[k].at = "sent"
  /\ tasks[k].op \in {"group_gpu_add", "group_gpu_destroy", "group_field_create",
                      "group_field_destroy"}
  /\ \E a \in [status : {"OK", "NOT_FOUND", "BAD_PARAMETER", "MAX_LIMIT",
                         "NOT_SUPPORTED", "SMI_ERROR"},
               out : {Junk} \cup (1 .. MaxFieldGroupId)] :
       /\ \/ /\ tasks[k].op = "group_gpu_add"
             /\ rdc_group_gpu_add(tasks[k].arg[1], tasks[k].arg[2], a)
          \/ tasks[k].op = "group_gpu_destroy" /\ rdc_group_gpu_destroy(tasks[k].arg, a)
          \/ tasks[k].op = "group_field_create" /\ rdc_group_field_create(tasks[k].arg, a)
          \/ tasks[k].op = "group_field_destroy" /\ rdc_group_field_destroy(tasks[k].arg, a)
       /\ Answer(k, a)
  /\ UNCHANGED <<caller, updater_, updating, restarts, own, maker>>

\* rdc_group_gpu_create: the empty group is visible from here on.  A group of
\* all GPUs is then filled one GPU at a time, other calls in between.
ServeCreate(k) ==
  /\ tasks[k].at = "sent" /\ tasks[k].op = "group_gpu_create"
  /\ \E a \in {Err("MAX_LIMIT"), Ok(cur_group_id_)} :
       /\ CreateEmpty(a)
       /\ maker' = IF a.status # "OK" THEN maker
                   ELSE MapPut(maker, a.out, [c |-> k[1], n |-> k[2], type |-> tasks[k].arg])
       /\ IF a.status # "OK" \/ tasks[k].arg = "RDC_GROUP_EMPTY" THEN Answer(k, a)
          ELSE \E devices \in rdc_device_get_all :
                 IF devices.status # "OK" THEN Answer(k, devices)
                 ELSE Goto(k, [tasks[k] EXCEPT !.at = "filling", !.id = a.out])
  /\ UNCHANGED <<caller, updater_, updating, restarts, own>>

\* Is i the last index of the device list?
LastGpu(i) == i + 1 = Cardinality(GPUs)

\* The status of the call is the status of the last addition.
ServeFill(k) ==
  /\ tasks[k].at = "filling"
  /\ \E status \in {"OK", "NOT_FOUND", "BAD_PARAMETER", "MAX_LIMIT", "SMI_ERROR"} :
       LET a == [status |-> status, out |-> Junk]
       IN  /\ rdc_group_gpu_add(tasks[k].id, tasks[k].next, a)
           /\ IF LastGpu(tasks[k].next)
              THEN Answer(k, IF status = "OK" THEN Ok(tasks[k].id) ELSE a)
              ELSE Goto(k, [tasks[k] EXCEPT !.next = @ + 1])
  /\ UNCHANGED <<caller, updater_, updating, restarts, own, maker>>

\* A name for a background update that no other has.
FreeUpdate ==
  CHOOSE u \in 1 .. MaxUpdates :
    /\ u \notin updating \cup {updater_}
    /\ \A k \in DOMAIN tasks : tasks[k].at = "assigning" => tasks[k].id # u

\* rdc_field_update_all(1) updates; otherwise a thread does so, and its future
\* takes the place of the last one ...
ServeUpdate(k) ==
  /\ tasks[k].at = "sent" /\ tasks[k].op = "update_all"
  /\ IF tasks[k].arg = 1 THEN Answer(k, Ok(Junk)) /\ UNCHANGED updating
     ELSE /\ updating' = updating \cup {FreeUpdate}
          /\ Goto(k, [tasks[k] EXCEPT !.at = "assigning", !.id = FreeUpdate])
  /\ UNCHANGED <<gvars, caller, updater_, restarts, own, maker>>

UpdateEnds(u) ==
  /\ updating' = updating \ {u}
  /\ UNCHANGED <<gvars, caller, tasks, updater_, restarts, own, maker>>

\* Mutant: the old future is waited for also when there is none yet.
MayAssignAfterOne(k) == updater_ \in (1 .. MaxUpdates) \ updating

\* ... which waits for the old one: its destructor joins the update.
MayAssign(k) == updater_ \notin updating

ServeAssign(k) ==
  /\ tasks[k].at = "assigning"
  /\ MayAssign(k)
  /\ updater_' = tasks[k].id
  /\ Answer(k, Ok(Junk))
  /\ UNCHANGED <<gvars, caller, updating, restarts, own, maker>>

\* The daemon dies, also when two threads assign to updater_ at once, which
\* nothing forbids, and starts anew.
Restart ==
  /\ restarts < MaxRestarts
  /\ restarts' = restarts + 1
  /\ gpu_group_' = EmptyMap /\ cur_group_id_' = 1
  /\ field_group_' = MapPut(EmptyMap, JOB_FIELD_ID, JobFields)
  /\ cur_field_group_id_' = 1
  /\ tasks' = EmptyMap /\ updater_' = 0 /\ updating' = {}
  /\ own' = [c \in Clients |-> {}] /\ maker' = EmptyMap
  /\ UNCHANGED caller

\* CreateFieldGroup copies the ids into an array of RDC_MAX_FIELD_IDS_PER_FIELD_GROUP
\* before anybody counts them: more of them overwrite what lies behind it.  When
\* that hits nothing in use the library refuses them (ServeGroup); else the daemon
\* dies.
ServeOverrun(k) ==
  /\ tasks[k].at = "sent" /\ tasks[k].op = "group_field_create"
  /\ Cardinality(tasks[k].arg) > RDC_MAX_FIELD_IDS_PER_FIELD_GROUP
  /\ Restart

-----------------------------------------------------------------------------
(* The answer, or the error, of gRPC *)

\* What the standalone handler makes of the reply r.
ResultOf(op, r) ==
  CASE op = "device_get_all" -> Standalone!rdc_device_get_all(r)
    [] op = "device_get_attributes" -> Standalone!rdc_device_get_attributes(r)
    [] op = "component_version" -> Standalone!rdc_device_get_component_version(r)
    [] op = "group_gpu_create" -> Standalone!rdc_group_gpu_create(r)
    [] op = "group_gpu_add" -> Standalone!rdc_group_gpu_add(r)
    [] op = "group_gpu_get_info" -> Standalone!rdc_group_gpu_get_info(r)
    [] op = "group_get_all_ids" -> Standalone!rdc_group_get_all_ids(r)
    [] op = "group_field_get_all_ids" -> Standalone!rdc_group_field_get_all_ids(r)
    [] op = "group_gpu_destroy" -> Standalone!rdc_group_gpu_destroy(r)
    [] op = "group_field_create" -> Standalone!rdc_group_field_create(r)
    [] op = "group_field_get_info" -> Standalone!rdc_group_field_get_info(r)
    [] op = "group_field_destroy" -> Standalone!rdc_group_field_destroy(r)
    [] op = "field_watch" -> Standalone!rdc_field_watch(r)
    [] op = "field_latest" -> Standalone!rdc_field_get_latest_value(r)
    [] op = "field_since" -> Standalone!rdc_field_get_value_since(r)
    [] op = "field_unwatch" -> Standalone!rdc_field_unwatch(r)
    [] op = "update_all" -> Standalone!rdc_field_update_all(r)
    [] op = "job_start" -> Standalone!rdc_job_start_stats(r)
    [] op = "job_get" -> Standalone!rdc_job_get_stats(r)
    [] op = "job_stop" -> Standalone!rdc_job_stop_stats(r)
    [] op = "job_remove" -> Standalone!rdc_job_remove(r)
    [] op = "job_remove_all" -> Standalone!rdc_job_remove_all(r)
    [] op = "diagnostic_run" -> Standalone!rdc_diagnostic_run(r)
    [] op = "test_case_run" -> Standalone!rdc_test_case_run(r)
    [] op = "mixed_version" -> Standalone!get_mixed_component_version(r)

\* The call of c returns with the reply r to it.
Return(c, r) ==
  LET result == ResultOf(caller[c].op, r)
  IN  /\ caller' = [caller EXCEPT ![c] = [NoCall EXCEPT !.n = caller[c].n, !.status = result.status]]
      /\ own' = IF caller[c].op = "group_gpu_create" /\ result.status = "OK"
                THEN [own EXCEPT ![c] = @ \cup {result.out}] ELSE own

Deliver(k) ==
  /\ tasks[k].at = "reply"
  /\ Return(k[1], tasks[k].reply)
  /\ tasks' = MapErase(tasks, {k})
  /\ UNCHANGED <<gvars, updater_, updating, restarts, maker>>

TaskOf(c) == DOMAIN tasks \cap {<<c, caller[c].n>>}

\* The connection breaks.  The reply object is as it was made: status 0.
Broken == [rpc |-> "UNAVAILABLE", status |-> "OK", content |-> Junk]

\* A request that has not been taken up may be lost with the connection; a reply
\* is.
Break(c) ==
  /\ caller[c].at = "waiting"
  /\ Return(c, Broken)
  /\ \/ /\ \A k \in TaskOf(c) : tasks[k].at # "reply"
        /\ UNCHANGED tasks
     \/ \E k \in TaskOf(c) : /\ tasks[k].at \in {"sent", "reply"}
                              /\ tasks' = MapErase(tasks, {k})
  /\ UNCHANGED <<gvars, updater_, updating, restarts, maker>>

\* gRPC notices that nobody works on the call any more.
Abandoned(c) == TaskOf(c) = {} /\ Break(c)

-----------------------------------------------------------------------------
ServerStep(k) ==
  \/ ServeRead(k) \/ ServeGroup(k) \/ ServeCreate(k) \/ ServeFill(k)
  \/ ServeUpdate(k) \/ ServeAssign(k) \/ Deliver(k)

ClientStep(c) ==
  \/ \E op \in DOMAIN Calls[c] :
       \/ \E arg \in ArgsOf(c, op) : Call(c, op, arg)
       \/ \E null \in {"handle", "out"} : CallRefused(c, op, null)
  \/ Break(c)

ApiNext ==
  \/ \E c \in Clients : ClientStep(c)
  \/ \E k \in DOMAIN tasks : ServerStep(k) \/ ServeOverrun(k)
  \/ \E u \in updating : UpdateEnds(u)
  \/ Restart

\* The daemon's threads run, its updates end, and gRPC tells a client when its
\* connection is gone.
ApiFairness ==
  /\ \A c \in Clients : WF_avars(\E k \in TaskOf(c) : ServerStep(k)) /\ WF_avars(Abandoned(c))
  /\ \A u \in 1 .. MaxUpdates : WF_avars(u \in updating /\ UpdateEnds(u))

ApiSpec == ApiInit /\ [][ApiNext]_avars /\ ApiFairness

-----------------------------------------------------------------------------
(* Properties *)

\* Two results are the same to a caller: of the statistics of a job the entries of
\* its GPUs count, of a text in the history not its blanks.
SameOut(op, remote, local) ==
  CASE op = "job_get" ->
         /\ remote.num_gpus = local.num_gpus /\ remote.summary = local.summary
         /\ \A i \in DOMAIN local.gpus :
              i \in DOMAIN remote.gpus /\ remote.gpus[i] = local.gpus[i]
    [] op = "field_since" -> [remote EXCEPT !.blanks = FALSE] = [local EXCEPT !.blanks = FALSE]
    [] OTHER -> remote = local

\* The library fills the entries of a job's GPUs by their index, and the service
\* sends the first num_gpus entries: those of a GPU beyond them are lost.
EntriesLost(remote, local) ==
  LET sent == 0 .. (local.num_gpus - 1)
  IN  /\ remote.num_gpus = local.num_gpus /\ remote.summary = local.summary
      /\ ~ DOMAIN local.gpus \subseteq sent
      /\ DOMAIN remote.gpus = sent
      /\ \A i \in DOMAIN local.gpus \cap sent : remote.gpus[i] = local.gpus[i]

\* A call over the network gives what the same call gives inside the daemon, or
\* RDC_ST_CLIENT_ERROR when the connection broke (so does one whose ids overrun the
\* array of CreateFieldGroup, when the daemon dies of it).  Two exceptions: a list
\* of RDC_MAX_NUM_GROUPS groups, which the client handler refuses, and a job on
\* GPUs that are not the first ones, of which the client is told less.
RemoteAnswer ==
  /\ \A k \in {j \in DOMAIN tasks : tasks[j].at = "reply" /\ tasks[j].op # "mixed_version"} :
       LET local == tasks[k].local
           result == ResultOf(tasks[k].op, tasks[k].reply)
       IN  \/ /\ result.status = local.status
              /\ result.status = "OK" => SameOut(tasks[k].op, result.out, local.out)
           \/ /\ tasks[k].op = "group_get_all_ids" /\ result.status = "MAX_LIMIT"
              /\ Cardinality(local.out) = RDC_MAX_NUM_GROUPS
           \/ /\ tasks[k].op = "job_get" /\ result.status = "OK" /\ local.status = "OK"
              /\ EntriesLost(result.out, local.out)
  /\ \A c \in Clients :
       caller[c].at = "waiting" => ResultOf(caller[c].op, Broken).status = "CLIENT_ERROR"

\* A client that was given a group has it to itself until it asks for it to be
\* destroyed or the daemon dies, and a client that was not told of a broken
\* connection knows every group its call left behind.  A group of all GPUs
\* (RDC_GROUP_DEFAULT) has every one by the time its client knows of it, though it
\* was visible to the others before.
GroupsAccountedFor ==
  /\ \A c \in Clients : own[c] \subseteq DOMAIN gpu_group_
  /\ \A c, d \in Clients : c # d => own[c] \cap own[d] = {}
  /\ \A c \in Clients : \A g \in own[c] :
       maker[g].type = "RDC_GROUP_DEFAULT" => gpu_group_[g] = GPUs
  /\ \A g \in DOMAIN gpu_group_ :
       LET m == maker[g]
           k == caller[m.c]
       IN  (k.n = m.n /\ k.at = "idle" /\ k.status # "CLIENT_ERROR") => g \in own[m.c]

\* Every call returns: an update in the background holds the next one up only
\* until it ends, and a call whose connection or daemon is gone fails.
CallReturns ==
  \A c \in Clients : (caller[c].at = "waiting") ~> (caller[c].at = "idle")
=============================================================================
