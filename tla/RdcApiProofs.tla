---------------------------- MODULE RdcApiProofs ----------------------------
(***************************************************************************)
(* Proofs about RdcApi, for any number of clients, calls, groups and GPUs. *)
(* The inductive invariant of the calls (CallsInv) ties every task in the  *)
(* daemon to the call that waits for it; that of the groups (GroupsInv)    *)
(* says of every group who made it, in which call, and who is to learn of  *)
(* it.                                                                     *)
(***************************************************************************)
EXTENDS RdcApi, TLAPS

-----------------------------------------------------------------------------
(* The inductive invariant of the calls *)

\* The members of a task and of a call.
TaskShape(u) ==
  u = [op |-> u.op, arg |-> u.arg, at |-> u.at, next |-> u.next, id |-> u.id,
       local |-> u.local, reply |-> u.reply]

CallShape(u) == u = [n |-> u.n, at |-> u.at, op |-> u.op, status |-> u.status]

CallerOK(u) ==
  /\ CallShape(u)
  /\ u.n \in Nat /\ u.at \in {"idle", "waiting"}
  /\ u.at = "waiting" => u.op \in Operations

CallersOK ==
  /\ caller = [c \in Clients |-> caller[c]]
  /\ \A c \in Clients : CallerOK(caller[c])

\* A task is of the current call of its client or of one that ended with an
\* error; a reply is of a call that is waiting for it.
TaskOK(k) ==
  /\ k \in Clients \X Nat
  /\ TaskShape(tasks[k]) /\ tasks[k].op \in Operations
  /\ tasks[k].at \in {"sent", "filling", "assigning", "reply"}
  /\ tasks[k].at = "sent" => tasks[k].next = 0
  /\ tasks[k].at = "assigning" => tasks[k].op = "update_all"
  /\ k[2] <= caller[k[1]].n
  /\ tasks[k].at = "reply" =>
       /\ caller[k[1]].at = "waiting" /\ caller[k[1]].n = k[2]
       /\ tasks[k].reply = ReplyOf(tasks[k].op, tasks[k].arg, tasks[k].local)
  /\ caller[k[1]].n = k[2] =>
       /\ caller[k[1]].at = "waiting" => caller[k[1]].op = tasks[k].op
       /\ caller[k[1]].at = "idle" => caller[k[1]].status = "CLIENT_ERROR"

TasksOK ==
  /\ tasks = [k \in DOMAIN tasks |-> tasks[k]]
  /\ \A k \in DOMAIN tasks : TaskOK(k)

CallsInv == GroupTypeOK /\ CallersOK /\ TasksOK

-----------------------------------------------------------------------------
(* The calls, their requests and their replies *)

\* An RPC that did not come through is an error of every call.
LEMMA BrokenIsError ==
  ASSUME NEW op \in Operations
  PROVE  ResultOf(op, Broken).status = "CLIENT_ERROR"
BY ZenonT(30) DEF Operations, ResultOf, Broken,
       Standalone!rdc_device_get_all, Standalone!rdc_device_get_attributes,
       Standalone!rdc_device_get_component_version, Standalone!rdc_group_gpu_create,
       Standalone!rdc_group_gpu_add, Standalone!rdc_group_gpu_get_info,
       Standalone!rdc_group_get_all_ids, Standalone!rdc_group_field_get_all_ids,
       Standalone!rdc_group_gpu_destroy, Standalone!rdc_group_field_create,
       Standalone!rdc_group_field_get_info, Standalone!rdc_group_field_destroy,
       Standalone!rdc_field_watch, Standalone!rdc_field_get_latest_value,
       Standalone!rdc_field_get_value_since, Standalone!rdc_field_unwatch,
       Standalone!rdc_field_update_all, Standalone!rdc_job_start_stats,
       Standalone!rdc_job_get_stats, Standalone!rdc_job_stop_stats,
       Standalone!rdc_job_remove, Standalone!rdc_job_remove_all,
       Standalone!rdc_diagnostic_run, Standalone!rdc_test_case_run,
       Standalone!get_mixed_component_version, Standalone!Copied,
       Standalone!CopiedWithin, Standalone!Result, Standalone!error_handle

\* The operations on the groups keep their types.
LEMMA GroupTypes ==
  ASSUME GroupTypeOK,
         \/ UNCHANGED gvars \/ GroupGpuCreate \/ (\E g : GroupGpuDestroy(g))
         \/ (\E g : \E gpu \in GPUs : GroupGpuAdd(g, gpu))
         \/ (\E s \in SUBSET Fields : GroupFieldCreate(s)) \/ (\E f : GroupFieldDestroy(f))
  PROVE  GroupTypeOK'
<1> USE DEF GroupTypeOK, MapPut, MapErase
<1>1. CASE UNCHANGED gvars
  BY <1>1, Zenon DEF gvars
<1>2. CASE GroupGpuCreate
  BY <1>2 DEF GroupGpuCreate
<1>3. ASSUME NEW g, GroupGpuDestroy(g) PROVE GroupTypeOK'
  BY <1>3, Zenon DEF GroupGpuDestroy
<1>4. ASSUME NEW g, NEW gpu \in GPUs, GroupGpuAdd(g, gpu) PROVE GroupTypeOK'
  BY <1>4, Zenon DEF GroupGpuAdd
<1>5. ASSUME NEW s \in SUBSET Fields, GroupFieldCreate(s) PROVE GroupTypeOK'
  BY <1>5 DEF GroupFieldCreate
<1>6. ASSUME NEW f, GroupFieldDestroy(f) PROVE GroupTypeOK'
  BY <1>6, Zenon DEF GroupFieldDestroy
<1> QED
  BY <1>1, <1>2, <1>3, <1>4, <1>5, <1>6, Zenon

\* What the groups may undergo in an operation of the handler.
LEMMA HandlerTypes ==
  ASSUME GroupTypeOK, NEW a,
         \/ CreateEmpty(a)
         \/ (\E g, gpu : rdc_group_gpu_add(g, gpu, a))
         \/ (\E g : rdc_group_gpu_destroy(g, a))
         \/ (\E s : rdc_group_field_create(s, a))
         \/ (\E f : rdc_group_field_destroy(f, a))
  PROVE  GroupTypeOK'
<1>1. CASE CreateEmpty(a)
  BY <1>1, GroupTypes, Zenon DEF CreateEmpty
<1>2. ASSUME NEW g, NEW gpu, rdc_group_gpu_add(g, gpu, a) PROVE GroupTypeOK'
  <2>1. UNCHANGED gvars \/ (GroupGpuAdd(g, gpu) /\ gpu \in GPUs)
    BY <1>2 DEF rdc_group_gpu_add, rdc_device_get_all, Smi, Ok, Err
  <2> QED
    BY <2>1, GroupTypes, Zenon
<1>3. ASSUME NEW g, rdc_group_gpu_destroy(g, a) PROVE GroupTypeOK'
  BY <1>3, GroupTypes, Zenon DEF rdc_group_gpu_destroy
<1>4. ASSUME NEW s, rdc_group_field_create(s, a) PROVE GroupTypeOK'
  <2>1. UNCHANGED gvars \/ (s \in SUBSET Fields /\ GroupFieldCreate(s))
    BY <1>4, Zenon DEF rdc_group_field_create
  <2> QED
    BY <2>1, GroupTypes, Zenon
<1>5. ASSUME NEW f, rdc_group_field_destroy(f, a) PROVE GroupTypeOK'
  BY <1>5, GroupTypes, Zenon DEF rdc_group_field_destroy
<1> QED
  BY <1>1, <1>2, <1>3, <1>4, <1>5, Zenon

\* The changes of a task: it answers, goes on, or takes the next GPU.
Replies(u, a, r, v) == v = [u EXCEPT !.at = "reply", !.local = a, !.reply = r]
Goes(u, at, id, v) == v = [u EXCEPT !.at = at, !.id = id]
Takes(u, n, v) == v = [u EXCEPT !.next = n]

\* A task that is answered keeps its members.
LEMMA TaskReplies ==
  ASSUME NEW u, TaskShape(u), NEW a, NEW r, NEW v, Replies(u, a, r, v)
  PROVE  /\ TaskShape(v) /\ v.at = "reply" /\ v.local = a /\ v.reply = r
         /\ v.op = u.op /\ v.arg = u.arg
BY ZenonT(20) DEF TaskShape, Replies

\* So does one that goes on to another place,
LEMMA TaskGoes ==
  ASSUME NEW u, TaskShape(u), NEW at, NEW id, NEW v, Goes(u, at, id, v)
  PROVE  TaskShape(v) /\ v.at = at /\ v.id = id /\ v.op = u.op /\ v.arg = u.arg
         /\ v.next = u.next
BY ZenonT(20) DEF TaskShape, Goes

\* and one that takes up the next GPU.
LEMMA TaskTakes ==
  ASSUME NEW u, TaskShape(u), NEW n, NEW v, Takes(u, n, v)
  PROVE  TaskShape(v) /\ v.at = u.at /\ v.id = u.id /\ v.op = u.op /\ v.arg = u.arg
         /\ v.next = n
BY Zenon DEF TaskShape, Takes

\* A thread of the daemon answers, and the reply is dropped or on its way.
LEMMA AnswerTasks ==
  ASSUME CallersOK, TasksOK, UNCHANGED caller, NEW k \in DOMAIN tasks, NEW a, Answer(k, a)
  PROVE  /\ TasksOK'
         /\ \/ tasks' = MapErase(tasks, {k})
            \/ /\ tasks' = MapPut(tasks, k, tasks'[k])
               /\ caller[k[1]].at = "waiting" /\ caller[k[1]].n = k[2]
               /\ tasks'[k].at = "reply" /\ tasks'[k].local = a
               /\ tasks'[k].op = tasks[k].op /\ tasks'[k].arg = tasks[k].arg
<1>0. TaskOK(k) /\ caller[k[1]].at \in {"idle", "waiting"}
  BY Zenon DEF TasksOK, TaskOK, CallersOK, CallerOK
<1>1. CASE tasks' = MapErase(tasks, {k})
  BY <1>1 DEF TasksOK, TaskOK, TaskShape, MapErase
<1>2. ASSUME caller[k[1]].at = "waiting", caller[k[1]].n = k[2],
             NEW u, Replies(tasks[k], a, ReplyOf(tasks[k].op, tasks[k].arg, a), u),
             tasks' = MapPut(tasks, k, u)
      PROVE  /\ TasksOK'
             /\ tasks' = MapPut(tasks, k, tasks'[k])
             /\ tasks'[k].at = "reply" /\ tasks'[k].local = a
             /\ tasks'[k].op = tasks[k].op /\ tasks'[k].arg = tasks[k].arg
  <2>1. /\ TaskShape(u) /\ u.at = "reply" /\ u.local = a
        /\ u.reply = ReplyOf(tasks[k].op, tasks[k].arg, a)
        /\ u.op = tasks[k].op /\ u.arg = tasks[k].arg
    BY <1>0, <1>2, TaskReplies DEF TaskOK
  <2>2. DOMAIN tasks' = DOMAIN tasks /\ tasks'[k] = u
        /\ \A j \in DOMAIN tasks : j # k => tasks'[j] = tasks[j]
    BY <1>2, Zenon DEF MapPut
  <2>3. TaskOK(k)'
    BY <1>0, <1>2, <2>1, <2>2, Zenon DEF TaskOK
  <2>4. ASSUME NEW j \in DOMAIN tasks, j # k PROVE TaskOK(j)'
    BY <2>2, <2>4 DEF TasksOK, TaskOK, TaskShape
  <2>5. tasks' = [j \in DOMAIN tasks' |-> tasks'[j]]
    BY <1>2, <2>2, Zenon DEF MapPut
  <2> QED
    BY <1>2, <2>1, <2>2, <2>3, <2>4, <2>5, Zenon DEF TasksOK
<1> QED
  BY <1>0, <1>1, <1>2, Zenon DEF Answer, Goto, Replies

\* A thread goes on to another step of its call.
LEMMA GotoTasks ==
  ASSUME TasksOK, UNCHANGED caller, NEW k \in DOMAIN tasks, NEW u, Goto(k, u),
         TaskShape(u), u.op = tasks[k].op, u.at \in {"filling", "assigning"},
         u.at = "assigning" => u.op = "update_all"
  PROVE  TasksOK'
<1>1. DOMAIN tasks' = DOMAIN tasks /\ tasks'[k] = u
      /\ \A j \in DOMAIN tasks : j # k => tasks'[j] = tasks[j]
  BY Zenon DEF Goto, MapPut
<1>2. tasks' = [j \in DOMAIN tasks' |-> tasks'[j]]
  BY <1>1, Zenon DEF Goto, MapPut
<1>3. TaskOK(k)'
  BY <1>1, Zenon DEF TasksOK, TaskOK, TaskShape
<1>4. ASSUME NEW j \in DOMAIN tasks, j # k PROVE TaskOK(j)'
  BY <1>1, <1>4 DEF TasksOK, TaskOK, TaskShape
<1> QED
  BY <1>1, <1>2, <1>3, <1>4, Zenon DEF TasksOK

\* A call that ends, refused or answered, and one that begins.
Ends(c, n, s) == caller' = [caller EXCEPT ![c] = [NoCall EXCEPT !.n = n, !.status = s]]
Begins(c, n, op) ==
  caller' = [caller EXCEPT ![c] = [NoCall EXCEPT !.n = n, !.at = "waiting", !.op = op]]

\* A call that ends makes its client idle and changes no other client.
LEMMA CallersEnd ==
  ASSUME CallersOK, NEW c \in Clients, NEW n \in Nat, NEW s, Ends(c, n, s)
  PROVE  /\ CallersOK'
         /\ caller'[c].n = n /\ caller'[c].at = "idle" /\ caller'[c].status = s
         /\ \A d \in Clients : d # c => caller'[d] = caller[d]
<1>1. /\ DOMAIN caller' = Clients
      /\ caller'[c] = [n |-> n, at |-> "idle", op |-> "none", status |-> s]
      /\ \A d \in Clients : d # c => caller'[d] = caller[d]
      /\ caller' = [d \in Clients |-> caller'[d]]
  BY ZenonT(20) DEF CallersOK, NoCall, Ends
<1>2. CallerOK(caller'[c])
  BY <1>1 DEF CallerOK, CallShape
<1>3. ASSUME NEW d \in Clients PROVE CallerOK(caller'[d])
  BY <1>1, <1>2, Zenon DEF CallersOK
<1> QED
  BY <1>1, <1>3 DEF CallersOK

\* A call that begins makes its client wait and changes no other client.
LEMMA CallersBegin ==
  ASSUME CallersOK, NEW c \in Clients, NEW n \in Nat, NEW op \in Operations,
         Begins(c, n, op)
  PROVE  /\ CallersOK'
         /\ caller'[c].n = n /\ caller'[c].at = "waiting" /\ caller'[c].op = op
         /\ \A d \in Clients : d # c => caller'[d] = caller[d]
<1>1. /\ DOMAIN caller' = Clients
      /\ caller'[c] = [n |-> n, at |-> "waiting", op |-> op, status |-> "none"]
      /\ \A d \in Clients : d # c => caller'[d] = caller[d]
      /\ caller' = [d \in Clients |-> caller'[d]]
  BY ZenonT(20) DEF CallersOK, NoCall, Begins
<1>2. CallerOK(caller'[c])
  BY <1>1 DEF CallerOK, CallShape
<1>3. ASSUME NEW d \in Clients PROVE CallerOK(caller'[d])
  BY <1>1, <1>2, Zenon DEF CallersOK
<1> QED
  BY <1>1, <1>3 DEF CallersOK

\* The steps of a client.
LEMMA CallCalls ==
  ASSUME CallsInv, NEW c \in Clients, NEW op \in DOMAIN Calls[c], NEW arg, Call(c, op, arg)
  PROVE  CallsInv'
<1>k. PICK k : k = <<c, caller[c].n + 1>>
  BY ZenonT(20)
<1>1. op \in Operations /\ caller[c].n \in Nat /\ caller[c].n + 1 \in Nat
      /\ caller[c].at = "idle" /\ Begins(c, caller[c].n + 1, op)
  BY ApiConstants DEF CallsInv, CallersOK, CallerOK, Call, Begins
<1>2. /\ CallersOK'
      /\ caller'[c].n = caller[c].n + 1 /\ caller'[c].at = "waiting" /\ caller'[c].op = op
      /\ \A d \in Clients : d # c => caller'[d] = caller[d]
  BY <1>1, CallersBegin, Zenon DEF CallsInv
<1>3. /\ DOMAIN tasks' = DOMAIN tasks \cup {k}
      /\ tasks'[k] = Request(op, arg)
      /\ \A j \in DOMAIN tasks : j # k => tasks'[j] = tasks[j]
      /\ tasks' = [j \in DOMAIN tasks' |-> tasks'[j]]
  BY <1>k, Zenon DEF Call, MapPut
<1>0. k \in Clients \X Nat /\ k[1] = c /\ k[2] = caller[c].n + 1
  BY <1>1, <1>k, Zenon
<1>4. TaskOK(k)'
  <2>1. /\ TaskShape(Request(op, arg)) /\ Request(op, arg).op = op
        /\ Request(op, arg).at = "sent" /\ Request(op, arg).next = 0
    BY Zenon DEF TaskShape, Request
  <2> QED
    BY <1>0, <1>1, <1>2, <1>3, <2>1 DEF TaskOK
<1>5. ASSUME NEW j \in DOMAIN tasks, j # k PROVE TaskOK(j)'
  <2>1. j \in Clients \X Nat /\ j[2] <= caller[j[1]].n /\ TaskOK(j) /\ tasks'[j] = tasks[j]
    BY <1>3, <1>5, Zenon DEF CallsInv, TasksOK, TaskOK
  <2>2. CASE j[1] = c
    BY <1>1, <1>2, <2>1, <2>2, SMTT(20) DEF TaskOK
  <2>3. CASE j[1] # c
    BY <1>2, <2>1, <2>3, Zenon DEF TaskOK
  <2> QED
    BY <2>2, <2>3, Zenon
<1>6. GroupTypeOK'
  BY GroupTypes, Zenon DEF CallsInv, Call
<1> QED
  BY <1>2, <1>3, <1>4, <1>5, <1>6, Zenon DEF CallsInv, TasksOK

\* The calls stay consistent: when one is refused before it is sent,
LEMMA RefusedCalls ==
  ASSUME CallsInv, NEW c \in Clients, NEW op, NEW null, CallRefused(c, op, null)
  PROVE  CallsInv'
<1>1. caller[c].n \in Nat /\ caller[c].at = "idle" /\ caller[c].n + 1 \in Nat
      /\ Ends(c, caller[c].n + 1, Refusal(op, null))
  BY DEF CallsInv, CallersOK, CallerOK, CallRefused, Ends
<1>2. /\ CallersOK'
      /\ caller'[c].n = caller[c].n + 1 /\ caller'[c].at = "idle"
      /\ \A d \in Clients : d # c => caller'[d] = caller[d]
  BY <1>1, CallersEnd, Zenon DEF CallsInv
<1>3. ASSUME NEW j \in DOMAIN tasks PROVE TaskOK(j)'
  <2>1. j \in Clients \X Nat /\ j[2] <= caller[j[1]].n /\ TaskOK(j) /\ tasks'[j] = tasks[j]
    BY Zenon DEF CallsInv, TasksOK, TaskOK, CallRefused
  <2>2. CASE j[1] = c
    BY <1>1, <1>2, <2>1, <2>2, SMTT(20) DEF TaskOK
  <2>3. CASE j[1] # c
    BY <1>2, <2>1, <2>3, Zenon DEF TaskOK
  <2> QED
    BY <2>2, <2>3, Zenon
<1>4. GroupTypeOK'
  BY GroupTypes, Zenon DEF CallsInv, CallRefused
<1> QED
  BY <1>2, <1>3, <1>4, Zenon DEF CallsInv, TasksOK, CallRefused

\* A call returns: nothing of it is left, or what is left is of a failed call.
LEMMA ReturnCalls ==
  ASSUME CallsInv, NEW c \in Clients, NEW r, Return(c, r), UNCHANGED gvars,
         caller[c].at = "waiting",
         NEW K \in SUBSET DOMAIN tasks, tasks' = MapErase(tasks, K),
         ResultOf(caller[c].op, r).status = "CLIENT_ERROR" \/ <<c, caller[c].n>> \in K,
         \A k \in TaskOf(c) : tasks[k].at = "reply" => k \in K
  PROVE  CallsInv'
<1> DEFINE s == ResultOf(caller[c].op, r).status
<1>1. caller[c].n \in Nat /\ Ends(c, caller[c].n, s)
  BY Zenon DEF CallsInv, CallersOK, CallerOK, Return, Ends
<1>2. /\ CallersOK'
      /\ caller'[c].n = caller[c].n /\ caller'[c].at = "idle" /\ caller'[c].status = s
      /\ \A d \in Clients : d # c => caller'[d] = caller[d]
  BY <1>1, CallersEnd, Zenon DEF CallsInv
<1>3. /\ DOMAIN tasks' = DOMAIN tasks \ K
      /\ \A j \in DOMAIN tasks' : tasks'[j] = tasks[j]
      /\ tasks' = [j \in DOMAIN tasks' |-> tasks'[j]]
  BY Zenon DEF MapErase
<1>4. ASSUME NEW j \in DOMAIN tasks' PROVE TaskOK(j)'
  <2>1. j \in Clients \X Nat /\ j[2] <= caller[j[1]].n /\ TaskOK(j) /\ tasks'[j] = tasks[j]
        /\ j \notin K /\ j = <<j[1], j[2]>> /\ j \in DOMAIN tasks
    BY <1>3, <1>4 DEF CallsInv, TasksOK, TaskOK
  <2>2. CASE j[1] = c
    <3>1. CASE j[2] = caller[c].n
      <4>1. j \in TaskOf(c) /\ s = "CLIENT_ERROR"
        BY <2>1, <2>2, <3>1, Zenon DEF TaskOf
      <4> HIDE DEF s
      <4> QED
        BY <1>2, <2>1, <2>2, <3>1, <4>1, Zenon DEF TaskOK
    <3>2. CASE j[2] # caller[c].n
      BY <1>2, <2>1, <2>2, <3>2, Zenon DEF TaskOK
    <3> QED
      BY <3>1, <3>2, Zenon
  <2>3. CASE j[1] # c
    BY <1>2, <2>1, <2>3, ZenonT(30) DEF TaskOK
  <2> QED
    BY <2>2, <2>3, Zenon
<1>5. GroupTypeOK'
  BY GroupTypes, Zenon DEF CallsInv
<1> QED
  BY <1>2, <1>3, <1>4, <1>5, Zenon DEF CallsInv, TasksOK

\* when the connection breaks,
LEMMA BreakCalls ==
  ASSUME CallsInv, NEW c \in Clients, Break(c)
  PROVE  CallsInv'
<1>1. ResultOf(caller[c].op, Broken).status = "CLIENT_ERROR"
  BY BrokenIsError, Zenon DEF CallsInv, CallersOK, CallerOK, Break
<1>2. tasks = [j \in DOMAIN tasks |-> tasks[j]]
  BY Zenon DEF CallsInv, TasksOK
<1>3. CASE UNCHANGED tasks /\ \A k \in TaskOf(c) : tasks[k].at # "reply"
  <2>1. tasks' = MapErase(tasks, {})
    BY <1>2, <1>3, Zenon DEF MapErase
  <2> QED
    BY <1>1, <1>3, <2>1, ReturnCalls, ZenonT(20) DEF Break
<1>4. ASSUME NEW k \in TaskOf(c), tasks' = MapErase(tasks, {k}) PROVE CallsInv'
  <2>1. {k} \in SUBSET DOMAIN tasks /\ \A j \in TaskOf(c) : j \in {k}
    BY <1>4, Zenon DEF TaskOf
  <2> QED
    BY <1>1, <1>4, <2>1, ReturnCalls, ZenonT(20) DEF Break
<1> QED
  BY <1>3, <1>4, ZenonT(20) DEF Break

\* and when a reply arrives.
LEMMA DeliverCalls ==
  ASSUME CallsInv, NEW k \in DOMAIN tasks, Deliver(k)
  PROVE  CallsInv'
<1>1. /\ k[1] \in Clients /\ caller[k[1]].at = "waiting" /\ k = <<k[1], caller[k[1]].n>>
  BY DEF CallsInv, TasksOK, TaskOK, Deliver
<1>2. {k} \in SUBSET DOMAIN tasks /\ <<k[1], caller[k[1]].n>> \in {k}
      /\ \A j \in TaskOf(k[1]) : j \in {k}
  BY <1>1, Zenon DEF TaskOf
<1> QED
  BY <1>1, <1>2, ReturnCalls, Zenon DEF Deliver

\* The steps of the daemon.
LEMMA ServeCalls ==
  ASSUME CallsInv, NEW k \in DOMAIN tasks,
         ServeRead(k) \/ ServeGroup(k) \/ ServeCreate(k) \/ ServeFill(k)
           \/ ServeUpdate(k) \/ ServeAssign(k)
  PROVE  CallsInv'
<1> USE DEF CallsInv
<1>0. TaskShape(tasks[k])
  BY Zenon DEF TasksOK, TaskOK
<1>1. UNCHANGED caller /\ CallersOK'
  BY Zenon DEF ServeRead, ServeGroup, ServeCreate, ServeFill, ServeUpdate, ServeAssign, CallersOK
<1>2. ASSUME NEW a, Answer(k, a) PROVE TasksOK'
  BY <1>1, <1>2, AnswerTasks, ZenonT(20)
<1>3. ASSUME NEW at \in {"filling", "assigning"}, NEW id, NEW u, Goes(tasks[k], at, id, u),
             Goto(k, u), at = "assigning" => tasks[k].op = "update_all"
      PROVE  TasksOK'
  BY <1>0, <1>1, <1>3, TaskGoes, GotoTasks
<1>4. ASSUME tasks[k].at = "filling", NEW n, NEW u, Takes(tasks[k], n, u), Goto(k, u)
      PROVE  TasksOK'
  BY <1>0, <1>1, <1>4, TaskTakes, GotoTasks, SMTT(30)
<1>5. CASE ServeRead(k)
  BY <1>1, <1>2, <1>5, GroupTypes, Zenon DEF ServeRead
<1>6. CASE ServeGroup(k)
  <2>1. PICK a :
          /\ \/ rdc_group_gpu_add(tasks[k].arg[1], tasks[k].arg[2], a)
             \/ rdc_group_gpu_destroy(tasks[k].arg, a)
             \/ rdc_group_field_create(tasks[k].arg, a)
             \/ rdc_group_field_destroy(tasks[k].arg, a)
          /\ Answer(k, a)
    BY <1>6, Zenon DEF ServeGroup
  <2> QED
    BY <1>1, <1>2, <2>1, HandlerTypes, SMTT(30)
<1>7. CASE ServeCreate(k)
  <2>1. PICK a : /\ CreateEmpty(a)
                 /\ \/ \E b : Answer(k, b)
                    \/ Goto(k, [tasks[k] EXCEPT !.at = "filling", !.id = a.out])
    BY <1>7, ZenonT(30) DEF ServeCreate
  <2>2. TasksOK'
    BY <1>2, <1>3, <2>1, ZenonT(20) DEF Goes
  <2> QED
    BY <1>1, <2>1, <2>2, HandlerTypes, Zenon
<1>8. CASE ServeFill(k)
  <2>1. PICK a, b, n :
          /\ rdc_group_gpu_add(tasks[k].id, tasks[k].next, a)
          /\ Answer(k, b) \/ Goto(k, [tasks[k] EXCEPT !.next = n])
    BY <1>8, ZenonT(30) DEF ServeFill
  <2>2. TasksOK'
    BY <1>2, <1>4, <1>8, <2>1, Zenon DEF Takes, ServeFill
  <2> QED
    BY <1>1, <2>1, <2>2, HandlerTypes, Zenon
<1>9. CASE ServeUpdate(k)
  <2>1. TasksOK'
    BY <1>2, <1>3, <1>9, ZenonT(20) DEF ServeUpdate, Goes
  <2> QED
    BY <1>1, <1>9, <2>1, GroupTypes, Zenon DEF ServeUpdate
<1>10. CASE ServeAssign(k)
  BY <1>1, <1>2, <1>10, GroupTypes, SMTT(20) DEF ServeAssign
<1> QED
  BY <1>5, <1>6, <1>7, <1>8, <1>9, <1>10, Zenon

\* The invariant of the calls holds at the start.
LEMMA CallsInit == ApiInit => CallsInv
BY GroupConstants
   DEF ApiInit, GroupInit, CallsInv, GroupTypeOK, CallersOK, CallerOK, CallShape, NoCall,
       TasksOK, EmptyMap, MapPut, JOB_FIELD_ID

\* Every step keeps it.
LEMMA CallsStep == CallsInv /\ [ApiNext]_avars => CallsInv'
<1> SUFFICES ASSUME CallsInv, [ApiNext]_avars PROVE CallsInv'
  BY Zenon
<1>1. ASSUME NEW c \in Clients, ClientStep(c) PROVE CallsInv'
  BY <1>1, CallCalls, RefusedCalls, BreakCalls, Zenon DEF ClientStep
<1>2. ASSUME NEW k \in DOMAIN tasks, ServerStep(k) PROVE CallsInv'
  BY <1>2, ServeCalls, DeliverCalls, Zenon DEF ServerStep
<1>3. CASE UNCHANGED <<gvars, caller, tasks>>
  <2>1. GroupTypeOK'
    BY <1>3, Zenon DEF CallsInv, gvars, GroupTypeOK
  <2>2. CallersOK'
    BY <1>3, Zenon DEF CallsInv, CallersOK
  <2>3. TasksOK'
    <3>1. tasks' = tasks /\ caller' = caller
      BY <1>3, Zenon
    <3>2. tasks' = [k \in DOMAIN tasks' |-> tasks'[k]]
      BY <3>1, Zenon DEF CallsInv, TasksOK
    <3>3. ASSUME NEW k \in DOMAIN tasks' PROVE TaskOK(k)'
      <4>1. TaskOK(k)
        BY <3>1, Zenon DEF CallsInv, TasksOK
      <4> QED
        BY <3>1, <4>1, ZenonT(30) DEF TaskOK
    <3> QED
      BY <3>2, <3>3, Zenon DEF TasksOK
  <2> QED
    BY <2>1, <2>2, <2>3, Zenon DEF CallsInv
<1>4. ASSUME NEW u \in updating, UpdateEnds(u) PROVE CallsInv'
  BY <1>3, <1>4, Zenon DEF UpdateEnds
<1>5. CASE Restart
  <2>1. GroupTypeOK'
    BY <1>5, GroupConstants DEF Restart, GroupTypeOK, EmptyMap, MapPut, JOB_FIELD_ID
  <2>2. TasksOK'
    BY <1>5, Zenon DEF Restart, TasksOK, EmptyMap
  <2> QED
    BY <1>5, <2>1, <2>2, Zenon DEF CallsInv, CallersOK, Restart
<1>6. CASE UNCHANGED avars
  BY <1>3, <1>6, Zenon DEF avars
<1>7. ASSUME NEW k \in DOMAIN tasks, ServeOverrun(k) PROVE CallsInv'
  BY <1>5, <1>7, Zenon DEF ServeOverrun
<1> QED
  BY <1>1, <1>2, <1>4, <1>5, <1>6, <1>7, Zenon DEF ApiNext

\* Every task in the daemon is of a call that is waiting for it or was told that
\* it failed.
THEOREM CallsInvariant == ApiSpec => []CallsInv
BY CallsInit, CallsStep, PTL DEF ApiSpec

-----------------------------------------------------------------------------
(* What is kept about the groups *)

\* A client destroys only groups it was given.
OwnGroupsOnly ==
  \A c \in Clients : "group_gpu_destroy" \in DOMAIN Calls[c] =>
    Calls[c]["group_gpu_destroy"] = {}

\* A group has room for every GPU: one that has the GPUs before n is not full.
GroupHoldsAll == \A n \in GPUs : ~(Cardinality(0 .. (n - 1)) >= RDC_GROUP_MAX_ENTITIES)

\* Has the daemon answered the call of k with a new group?
Given(k) ==
  /\ tasks[k].at = "reply" /\ tasks[k].op = "group_gpu_create"
  /\ tasks[k].reply.status = "OK"

\* A group a client knows of is one it made, and complete.
OwnOK ==
  /\ own = [c \in Clients |-> own[c]]
  /\ \A c \in Clients : \A g \in own[c] :
       /\ g \in DOMAIN gpu_group_ /\ maker[g].c = c
       /\ maker[g].type = "RDC_GROUP_DEFAULT" => gpu_group_[g] = GPUs

\* The task u is about to tell its client of the group g.
Making(u, g) ==
  /\ u.op = "group_gpu_create"
  /\ \/ u.at = "filling" /\ u.id = g
     \/ u.at = "reply" /\ u.reply.status = "OK" /\ u.reply.content = g

\* A group is known to the client that made it, or will be, or the client was
\* told that the call failed, or has made another call since.
Traced(g) ==
  /\ g \in DOMAIN maker /\ maker[g].c \in Clients /\ maker[g].n \in Nat
  /\ maker[g].n <= caller[maker[g].c].n
  /\ maker[g].n = caller[maker[g].c].n =>
       \/ /\ caller[maker[g].c].at = "idle"
          /\ caller[maker[g].c].status = "CLIENT_ERROR" \/ g \in own[maker[g].c]
       \/ /\ caller[maker[g].c].at = "waiting"
          /\ <<maker[g].c, maker[g].n>> \in DOMAIN tasks
          /\ Making(tasks[<<maker[g].c, maker[g].n>>], g)

MakerOK ==
  /\ maker = [g \in DOMAIN maker |-> maker[g]]
  /\ \A g \in DOMAIN gpu_group_ : Traced(g)

\* The group g was made by the call of k, whose client does not know it yet.
Unknown(k, g) ==
  /\ g \in DOMAIN gpu_group_
  /\ maker[g].c = k[1] /\ maker[g].n = k[2]
  /\ \A c \in Clients : g \notin own[c]

\* A group being filled has the GPUs before the next one.
FillOK ==
  \A k \in DOMAIN tasks : tasks[k].at = "filling" =>
    /\ tasks[k].op = "group_gpu_create"
    /\ Unknown(k, tasks[k].id)
    /\ tasks[k].next \in GPUs
    /\ gpu_group_[tasks[k].id] = 0 .. (tasks[k].next - 1)

GivenOK ==
  \A k \in DOMAIN tasks : Given(k) =>
    /\ Unknown(k, tasks[k].reply.content)
    /\ maker[tasks[k].reply.content].type = "RDC_GROUP_DEFAULT" =>
         gpu_group_[tasks[k].reply.content] = GPUs

\* The group a request to add or to destroy names.
Named(u) == IF u.op = "group_gpu_add" THEN u.arg[1] ELSE u.arg

\* Such a request names a group that its client was given: no other call is
\* about to give it, and when it is to be destroyed nobody knows it any more.
AskOK ==
  \A k \in DOMAIN tasks :
    tasks[k].at = "sent" /\ tasks[k].op \in {"group_gpu_add", "group_gpu_destroy"} =>
      /\ Named(tasks[k]) \in Nat /\ Named(tasks[k]) < cur_group_id_
      /\ \A j \in DOMAIN tasks : tasks[j].at = "filling" => tasks[j].id # Named(tasks[k])
      /\ tasks[k].op = "group_gpu_destroy" =>
           /\ \A c \in Clients : Named(tasks[k]) \notin own[c]
           /\ \A j \in DOMAIN tasks :
                Given(j) => tasks[j].reply.content # Named(tasks[k])

GroupsInv == CallsInv /\ OwnOK /\ MakerOK /\ FillOK /\ GivenOK /\ AskOK

-----------------------------------------------------------------------------
(* The groups and the clients that know them *)

\* The group g is still there, and complete if it was.
KeptGroup(g) ==
  /\ g \in DOMAIN gpu_group_'
  /\ maker[g].type = "RDC_GROUP_DEFAULT" => gpu_group_'[g] = gpu_group_[g]

\* A step leaves alone the groups some client knows, is about to know, or waits for.
GroupsKept ==
  /\ DOMAIN gpu_group_' \subseteq DOMAIN gpu_group_ /\ cur_group_id_' = cur_group_id_
  /\ \A c \in Clients : \A g \in own[c] : KeptGroup(g)
  /\ \A j \in DOMAIN tasks : Given(j) => KeptGroup(tasks[j].reply.content)
  /\ \A j \in DOMAIN tasks : tasks[j].at = "filling" =>
       /\ tasks[j].id \in DOMAIN gpu_group_'
       /\ gpu_group_'[tasks[j].id] = gpu_group_[tasks[j].id]

\* A step that leaves the registry alone keeps the groups.
LEMMA UnchangedGroups ==
  ASSUME GroupsInv, UNCHANGED <<gpu_group_, cur_group_id_>>
  PROVE  GroupsKept
BY Zenon DEF GroupsInv, OwnOK, FillOK, GivenOK, Unknown, GroupsKept, KeptGroup

\* A step of a task that makes no group.
LEMMA OtherTask ==
  ASSUME GroupsInv, CallsInv', GroupsKept, UNCHANGED <<caller, own, maker>>,
         NEW k \in DOMAIN tasks, tasks[k].op # "group_gpu_create",
         \/ tasks' = MapErase(tasks, {k})
         \/ /\ tasks' = MapPut(tasks, k, tasks'[k])
            /\ tasks'[k].at \in {"reply", "assigning"} /\ tasks'[k].op = tasks[k].op
  PROVE  GroupsInv'
<1>1. /\ DOMAIN tasks' \subseteq DOMAIN tasks
      /\ \A j \in DOMAIN tasks : j # k => j \in DOMAIN tasks' /\ tasks'[j] = tasks[j]
      /\ k \in DOMAIN tasks' =>
           /\ tasks'[k].at \in {"reply", "assigning"}
           /\ tasks'[k].op # "group_gpu_create"
  BY Zenon DEF MapErase, MapPut
<1>2. OwnOK'
  BY ZenonT(30) DEF GroupsInv, OwnOK, GroupsKept, KeptGroup
<1>3. MakerOK'
  <2> SUFFICES ASSUME NEW g \in DOMAIN gpu_group_, maker[g].n = caller[maker[g].c].n,
                      <<maker[g].c, maker[g].n>> \in DOMAIN tasks,
                      Making(tasks[<<maker[g].c, maker[g].n>>], g)
               PROVE  /\ <<maker[g].c, maker[g].n>> \in DOMAIN tasks'
                      /\ Making(tasks'[<<maker[g].c, maker[g].n>>], g)
    BY Zenon DEF GroupsInv, MakerOK, Traced, GroupsKept
  <2>1. <<maker[g].c, maker[g].n>> # k
    BY Zenon DEF Making
  <2> QED
    BY <1>1, <2>1, Zenon
<1>4. FillOK'
  BY <1>1, SMTT(30) DEF GroupsInv, FillOK, Unknown, GroupsKept
<1>5. GivenOK'
  BY <1>1, SMTT(30) DEF GroupsInv, GivenOK, Given, Unknown, GroupsKept, KeptGroup
<1>6. AskOK'
  BY <1>1 DEF GroupsInv, AskOK, Given, GroupsKept
<1> QED
  BY <1>2, <1>3, <1>4, <1>5, <1>6, SMTT(20) DEF GroupsInv

\* A client's request to add a GPU, and one to destroy a group.
LEMMA AddKeeps ==
  ASSUME GroupsInv, NEW k \in DOMAIN tasks, NEW a,
         tasks[k].at = "sent", tasks[k].op = "group_gpu_add",
         rdc_group_gpu_add(tasks[k].arg[1], tasks[k].arg[2], a)
  PROVE  GroupsKept
<1> DEFINE g == tasks[k].arg[1]
           gpu == tasks[k].arg[2]
<1>1. UNCHANGED gvars \/ (GroupGpuAdd(g, gpu) /\ gpu \in GPUs)
  BY DEF rdc_group_gpu_add, rdc_device_get_all, Smi, Ok, Err
<1>2. CASE UNCHANGED gvars
  BY <1>2, UnchangedGroups, ZenonT(30) DEF gvars
<1>3. CASE GroupGpuAdd(g, gpu) /\ gpu \in GPUs
  <2>1. /\ DOMAIN gpu_group_' = DOMAIN gpu_group_ /\ cur_group_id_' = cur_group_id_
        /\ \A h \in DOMAIN gpu_group_ : h # g => gpu_group_'[h] = gpu_group_[h]
        /\ gpu \notin gpu_group_[g]
    BY <1>3, ZenonT(20) DEF GroupGpuAdd, MapPut
  <2>2. \A j \in DOMAIN tasks : tasks[j].at = "filling" => tasks[j].id # g
    BY Zenon DEF GroupsInv, AskOK, Named
  <2> HIDE DEF g, gpu
  <2>3. \A h \in DOMAIN gpu_group_ : gpu_group_[h] = GPUs => gpu_group_'[h] = gpu_group_[h]
    BY <1>3, <2>1, Zenon
  <2> QED
    BY <2>1, <2>2, <2>3, SMTT(30) DEF GroupsInv, OwnOK, FillOK, GivenOK, Unknown, GroupsKept, KeptGroup
<1> QED
  BY <1>1, <1>2, <1>3, Zenon

\* A destruction takes away only the group it names, which nobody else knows.
LEMMA DestroyKeeps ==
  ASSUME GroupsInv, NEW k \in DOMAIN tasks, NEW a,
         tasks[k].at = "sent", tasks[k].op = "group_gpu_destroy",
         rdc_group_gpu_destroy(tasks[k].arg, a)
  PROVE  GroupsKept
<1>1. CASE UNCHANGED gvars
  BY <1>1, UnchangedGroups, Zenon DEF gvars
<1>2. CASE GroupGpuDestroy(tasks[k].arg)
  <2>1. /\ \A c \in Clients : tasks[k].arg \notin own[c]
        /\ \A j \in DOMAIN tasks : tasks[j].at = "filling" => tasks[j].id # tasks[k].arg
        /\ \A j \in DOMAIN tasks : Given(j) => tasks[j].reply.content # tasks[k].arg
    BY Zenon DEF GroupsInv, AskOK, Named
  <2>2. /\ DOMAIN gpu_group_' = DOMAIN gpu_group_ \ {tasks[k].arg}
        /\ cur_group_id_' = cur_group_id_
        /\ \A h \in DOMAIN gpu_group_' : gpu_group_'[h] = gpu_group_[h]
    BY <1>2, Zenon DEF GroupGpuDestroy, MapErase
  <2> QED
    BY <2>1, <2>2, SMTT(30) DEF GroupsInv, OwnOK, FillOK, GivenOK, Unknown, GroupsKept, KeptGroup
<1> QED
  BY <1>1, <1>2, SMTT(30) DEF rdc_group_gpu_destroy

\* The steps of the daemon that make no group keep the invariant.
LEMMA OtherServed ==
  ASSUME GroupsInv, CallsInv', NEW k \in DOMAIN tasks,
         ServeRead(k) \/ ServeGroup(k) \/ ServeUpdate(k) \/ ServeAssign(k)
  PROVE  GroupsInv'
<1>1. UNCHANGED <<caller, own, maker>>
  BY Zenon DEF ServeRead, ServeGroup, ServeUpdate, ServeAssign
<1>2. tasks[k].op # "group_gpu_create"
  BY Zenon DEF GroupsInv, CallsInv, TasksOK, TaskOK, ServeRead, ServeGroup, ServeUpdate, ServeAssign
<1>3. ASSUME NEW a, Answer(k, a), GroupsKept PROVE GroupsInv'
  <2>1. \/ tasks' = MapErase(tasks, {k})
        \/ /\ tasks' = MapPut(tasks, k, tasks'[k])
           /\ tasks'[k].at = "reply" /\ tasks'[k].op = tasks[k].op
    BY <1>1, <1>3, AnswerTasks, Zenon DEF GroupsInv, CallsInv
  <2> QED
    BY <1>1, <1>2, <1>3, <2>1, OtherTask, Zenon
<1>4. CASE ServeRead(k)
  BY <1>3, <1>4, UnchangedGroups, ZenonT(30) DEF ServeRead, gvars
<1>5. CASE ServeGroup(k)
  <2>1. PICK a :
          /\ \/ /\ tasks[k].op = "group_gpu_add"
                /\ rdc_group_gpu_add(tasks[k].arg[1], tasks[k].arg[2], a)
             \/ tasks[k].op = "group_gpu_destroy" /\ rdc_group_gpu_destroy(tasks[k].arg, a)
             \/ rdc_group_field_create(tasks[k].arg, a)
             \/ rdc_group_field_destroy(tasks[k].arg, a)
          /\ Answer(k, a) /\ tasks[k].at = "sent"
    BY <1>5, Zenon DEF ServeGroup
  <2>2. CASE rdc_group_field_create(tasks[k].arg, a) \/ rdc_group_field_destroy(tasks[k].arg, a)
    <3>1. UNCHANGED <<gpu_group_, cur_group_id_>>
      BY <2>2, Zenon DEF rdc_group_field_create, rdc_group_field_destroy, GroupFieldCreate,
                  GroupFieldDestroy, gvars
    <3> QED
      BY <1>3, <2>1, <3>1, UnchangedGroups, ZenonT(20)
  <2> QED
    BY <1>3, <2>1, <2>2, AddKeeps, DestroyKeeps, Zenon
<1>6. CASE ServeUpdate(k)
  <2>1. GroupsKept
    BY <1>6, UnchangedGroups, Zenon DEF ServeUpdate, gvars
  <2>2. CASE tasks[k].arg = 1
    BY <1>3, <1>6, <2>1, <2>2, Zenon DEF ServeUpdate
  <2>3. CASE tasks[k].arg # 1
    <3>1. PICK u : Goes(tasks[k], "assigning", FreeUpdate, u) /\ tasks' = MapPut(tasks, k, u)
      BY <1>6, <2>3, ZenonT(30) DEF ServeUpdate, Goto, Goes
    <3>2. u.at = "assigning" /\ u.op = tasks[k].op
      BY <3>1, TaskGoes DEF GroupsInv, CallsInv, TasksOK, TaskOK
    <3>3. tasks'[k] = u
      BY <3>1, SMTT(30) DEF MapPut
    <3> QED
      BY <1>1, <1>2, <2>1, <3>1, <3>2, <3>3, OtherTask, ZenonT(20)
  <2> QED
    BY <2>2, <2>3, Zenon
<1>7. CASE ServeAssign(k)
  BY <1>3, <1>7, UnchangedGroups, ZenonT(20) DEF ServeAssign, gvars
<1> QED
  BY <1>4, <1>5, <1>6, <1>7, Zenon

\* What the reply to rdc_group_gpu_create holds.
LEMMA CreateReply ==
  ASSUME NEW arg, NEW a
  PROVE  /\ ReplyOf("group_gpu_create", arg, a).status = a.status
         /\ a.status = "OK" => ReplyOf("group_gpu_create", arg, a).content = a.out
BY Zenon DEF ReplyOf, Service!CreateGpuGroup, Service!Filled

\* The call of a client is a group creation that has not made its group yet.
LEMMA NotYetMade ==
  ASSUME GroupsInv, NEW k \in DOMAIN tasks, tasks[k].at = "sent",
         NEW g \in DOMAIN gpu_group_, maker[g].c = k[1], maker[g].n = k[2],
         caller[k[1]].n = k[2]
  PROVE  caller[k[1]].at = "idle"
<1>1. k = <<maker[g].c, maker[g].n>>
  BY DEF GroupsInv, CallsInv, TasksOK, TaskOK
<1> QED
  BY <1>1, Zenon DEF GroupsInv, MakerOK, Traced, Making

\* So does a creation that fails,
LEMMA CreateFails ==
  ASSUME GroupsInv, CallsInv', NEW k \in DOMAIN tasks, tasks[k].at = "sent",
         tasks[k].op = "group_gpu_create", NEW a, a.status # "OK", Answer(k, a),
         UNCHANGED <<gvars, caller, own, maker>>
  PROVE  GroupsInv'
<1>1. /\ DOMAIN tasks' \subseteq DOMAIN tasks
      /\ \A j \in DOMAIN tasks : j # k => j \in DOMAIN tasks' /\ tasks'[j] = tasks[j]
      /\ k \in DOMAIN tasks' =>
           /\ tasks'[k].at = "reply" /\ tasks'[k].op = "group_gpu_create"
           /\ tasks'[k].reply.status # "OK"
  <2>1. \/ tasks' = MapErase(tasks, {k})
        \/ /\ tasks' = MapPut(tasks, k, tasks'[k]) /\ tasks'[k].at = "reply"
           /\ tasks'[k].op = tasks[k].op /\ tasks'[k].local = a
    BY AnswerTasks, ZenonT(20) DEF GroupsInv, CallsInv
  <2>2. CASE tasks' = MapErase(tasks, {k})
    BY <2>2, Zenon DEF MapErase
  <2>3. CASE /\ tasks' = MapPut(tasks, k, tasks'[k]) /\ tasks'[k].at = "reply"
             /\ tasks'[k].op = tasks[k].op /\ tasks'[k].local = a
    <3>1. DOMAIN tasks' = DOMAIN tasks
          /\ \A j \in DOMAIN tasks : j # k => tasks'[j] = tasks[j]
      BY <2>3, Zenon DEF MapPut
    <3>2. tasks'[k].reply = ReplyOf("group_gpu_create", tasks'[k].arg, a)
      BY <2>3, <3>1 DEF CallsInv, TasksOK, TaskOK
    <3> QED
      BY <2>3, <3>1, <3>2, CreateReply
  <2> QED
    BY <2>1, <2>2, <2>3, Zenon
<1>2. OwnOK'
  BY Zenon DEF GroupsInv, OwnOK, gvars
<1>3. MakerOK'
  <2> SUFFICES ASSUME NEW g \in DOMAIN gpu_group_, maker[g].n = caller[maker[g].c].n,
                      caller[maker[g].c].at = "waiting",
                      <<maker[g].c, maker[g].n>> \in DOMAIN tasks,
                      Making(tasks[<<maker[g].c, maker[g].n>>], g)
               PROVE  /\ <<maker[g].c, maker[g].n>> \in DOMAIN tasks'
                      /\ Making(tasks'[<<maker[g].c, maker[g].n>>], g)
    BY ZenonT(30) DEF GroupsInv, MakerOK, Traced, gvars
  <2>1. <<maker[g].c, maker[g].n>> # k
    BY Zenon DEF Making
  <2> QED
    BY <1>1, <2>1, Zenon
<1>4. FillOK'
  BY <1>1, SMTT(30) DEF GroupsInv, FillOK, Unknown, gvars
<1>5. GivenOK'
  BY <1>1, SMTT(20) DEF GroupsInv, GivenOK, Given, Unknown, gvars
<1>6. AskOK'
  BY <1>1, SMTT(30) DEF GroupsInv, AskOK, Given, gvars
<1> QED
  BY <1>2, <1>3, <1>4, <1>5, <1>6, SMTT(20) DEF GroupsInv

\* The ways a call goes on that has made the group g: nobody waits for it any
\* more, it is to be filled, or it is given to the client as it is.
GoesOn(k, g) ==
  /\ DOMAIN tasks' \subseteq DOMAIN tasks
  /\ \A j \in DOMAIN tasks : j # k => j \in DOMAIN tasks' /\ tasks'[j] = tasks[j]
  /\ \/ /\ k \notin DOMAIN tasks'
        /\ caller[k[1]].at = "idle" \/ caller[k[1]].n # k[2]
     \/ /\ k \in DOMAIN tasks' /\ tasks'[k].op = "group_gpu_create"
        /\ \/ tasks'[k].at = "filling" /\ tasks'[k].id = g /\ tasks'[k].next = 0
           \/ /\ tasks'[k].at = "reply" /\ tasks'[k].reply.status = "OK"
              /\ tasks'[k].reply.content = g
              /\ tasks[k].arg # "RDC_GROUP_DEFAULT"

\* and one that succeeds: the client that asked is the maker of the new group.
LEMMA CreateSucceeds ==
  ASSUME GroupsInv, CallsInv', NEW k \in DOMAIN tasks, tasks[k].at = "sent",
         tasks[k].op = "group_gpu_create", GroupGpuCreate, UNCHANGED <<caller, own>>,
         NEW g, g = cur_group_id_,
         maker' = MapPut(maker, g, [c |-> k[1], n |-> k[2], type |-> tasks[k].arg]),
         GoesOn(k, g)
  PROVE  GroupsInv'
<1>1. /\ g \in Nat /\ g \notin DOMAIN gpu_group_ /\ cur_group_id_' = g + 1
      /\ DOMAIN gpu_group_' = DOMAIN gpu_group_ \cup {g} /\ gpu_group_'[g] = {}
      /\ \A h \in DOMAIN gpu_group_ : gpu_group_'[h] = gpu_group_[h]
  BY SMTT(20) DEF GroupsInv, CallsInv, GroupTypeOK, GroupGpuCreate, MapPut
<1>2. /\ maker' = [h \in DOMAIN maker' |-> maker'[h]]
      /\ DOMAIN maker' = DOMAIN maker \cup {g}
      /\ maker'[g].c = k[1] /\ maker'[g].n = k[2] /\ maker'[g].type = tasks[k].arg
      /\ \A h \in DOMAIN gpu_group_ : maker'[h] = maker[h] /\ h \in DOMAIN maker
  BY <1>1, ZenonT(20) DEF MapPut, GroupsInv, MakerOK, Traced
<1>3. /\ k[1] \in Clients /\ k[2] \in Nat /\ k = <<k[1], k[2]>> /\ k[2] <= caller[k[1]].n
      /\ caller[k[1]].at \in {"idle", "waiting"}
      /\ caller[k[1]].n = k[2] /\ caller[k[1]].at = "idle" =>
           caller[k[1]].status = "CLIENT_ERROR"
  <2>1. TaskOK(k) /\ k \in Clients \X Nat
    BY ZenonT(30) DEF GroupsInv, CallsInv, TasksOK, TaskOK
  <2>2. CallerOK(caller[k[1]])
    BY <2>1, Zenon DEF GroupsInv, CallsInv, CallersOK
  <2> QED
    BY <2>1, <2>2 DEF TaskOK, CallerOK
<1>4. \A c \in Clients : g \notin own[c] /\ own[c] \subseteq DOMAIN gpu_group_
  BY <1>1, Zenon DEF GroupsInv, OwnOK
<1>5. OwnOK'
  BY <1>1, <1>2, <1>4, SMTT(30) DEF GroupsInv, OwnOK
<1>g. /\ DOMAIN tasks' \subseteq DOMAIN tasks
      /\ \A j \in DOMAIN tasks : j # k => j \in DOMAIN tasks' /\ tasks'[j] = tasks[j]
      /\ caller[k[1]].at = "waiting" /\ caller[k[1]].n = k[2] =>
           k \in DOMAIN tasks' /\ Making(tasks'[k], g)
      /\ k \in DOMAIN tasks' /\ tasks'[k].at = "filling" =>
           /\ tasks'[k].op = "group_gpu_create" /\ tasks'[k].id = g /\ tasks'[k].next = 0
      /\ k \in DOMAIN tasks' /\ Given(k)' =>
           tasks'[k].reply.content = g /\ tasks[k].arg # "RDC_GROUP_DEFAULT"
      /\ k \in DOMAIN tasks' => tasks'[k].at # "sent"
  BY ZenonT(20) DEF GoesOn, Making, Given
<1>6. MakerOK'
  <2>1. ASSUME NEW h \in DOMAIN gpu_group_, maker[h].n = caller[maker[h].c].n,
               caller[maker[h].c].at = "waiting",
               <<maker[h].c, maker[h].n>> \in DOMAIN tasks,
               Making(tasks[<<maker[h].c, maker[h].n>>], h)
        PROVE  /\ <<maker[h].c, maker[h].n>> \in DOMAIN tasks'
               /\ Making(tasks'[<<maker[h].c, maker[h].n>>], h)
    <3>1. <<maker[h].c, maker[h].n>> # k
      BY <2>1, ZenonT(30) DEF Making
    <3> QED
      BY <1>g, <2>1, <3>1, ZenonT(30)
  <2>2. ASSUME NEW h \in DOMAIN gpu_group_ PROVE Traced(h)'
    BY <1>2, <2>1 DEF GroupsInv, MakerOK, Traced
  <2>3. Traced(g)'
    BY <1>2, <1>3, <1>g, ZenonT(40) DEF Traced
  <2> QED
    BY <1>1, <1>2, <2>2, <2>3, Zenon DEF MakerOK
<1>7. FillOK'
  <2>1. ASSUME NEW j \in DOMAIN tasks, j # k, tasks[j].at = "filling"
        PROVE  /\ tasks[j].op = "group_gpu_create" /\ Unknown(j, tasks[j].id)'
               /\ tasks[j].next \in GPUs
               /\ gpu_group_'[tasks[j].id] = 0 .. (tasks[j].next - 1)
    BY <1>1, <1>2, <1>g, <2>1, SMTT(20) DEF GroupsInv, FillOK, Unknown
  <2>2. 0 \in GPUs /\ 0 .. (0 - 1) = {}
    BY ApiConstants
  <2>3. Unknown(k, g)'
    BY <1>1, <1>2, <1>4, Zenon DEF Unknown
  <2>4. ASSUME NEW j \in DOMAIN tasks', tasks'[j].at = "filling"
        PROVE  /\ tasks'[j].op = "group_gpu_create" /\ Unknown(j, tasks[j].id)'
               /\ tasks'[j].next \in GPUs
               /\ gpu_group_'[tasks'[j].id] = 0 .. (tasks'[j].next - 1)
    <3>1. CASE j = k
      BY <1>1, <1>g, <2>2, <2>3, <2>4, <3>1, ZenonT(20)
    <3>2. CASE j # k
      BY <1>g, <2>1, <2>4, <3>2, ZenonT(20)
    <3> QED
      BY <3>1, <3>2, ZenonT(30)
  <2> QED
    BY <2>4, Zenon DEF FillOK
<1>8. GivenOK'
  <2>1. Unknown(k, g)'
    BY <1>1, <1>2, <1>4, Zenon DEF Unknown
  <2>2. ASSUME NEW j \in DOMAIN tasks', Given(j)'
        PROVE  /\ Unknown(j, tasks[j].reply.content)'
               /\ maker'[tasks'[j].reply.content].type = "RDC_GROUP_DEFAULT" =>
                    gpu_group_'[tasks'[j].reply.content] = GPUs
    <3>1. CASE j = k
      BY <1>2, <1>g, <2>1, <2>2, <3>1, ZenonT(30)
    <3>2. CASE j # k
      <4>1. tasks'[j] = tasks[j] /\ Given(j) /\ j \in DOMAIN tasks
        BY <1>g, <2>2, <3>2, ZenonT(30) DEF Given
      <4> QED
        BY <1>1, <1>2, <4>1, SMTT(30) DEF GroupsInv, GivenOK, Unknown
    <3> QED
      BY <3>1, <3>2, ZenonT(30)
  <2> QED
    BY <2>2, Zenon DEF GivenOK
<1>9. AskOK'
  BY <1>1, <1>g DEF GroupsInv, AskOK, Given, Named
<1> QED
  BY <1>5, <1>6, <1>7, <1>8, <1>9, SMTT(20) DEF GroupsInv

\* When amd-smi does not fail, a group is filled without a refusal.
LEMMA FillAdds ==
  ASSUME GroupsInv, ~SmiMayFail, GroupHoldsAll, NEW k \in DOMAIN tasks,
         tasks[k].at = "filling", NEW a, rdc_group_gpu_add(tasks[k].id, tasks[k].next, a)
  PROVE  a = Ok(Junk) /\ GroupGpuAdd(tasks[k].id, tasks[k].next)
<1> DEFINE g == tasks[k].id
           next == tasks[k].next
<1>1. /\ g \in DOMAIN gpu_group_ /\ next \in GPUs /\ gpu_group_[g] = 0 .. (next - 1)
  BY Zenon DEF GroupsInv, FillOK, Unknown
<1> HIDE DEF g, next
<1>2. next \in Nat /\ next \notin gpu_group_[g]
  BY <1>1, ApiConstants, CommonConstants
<1>3. ~(Cardinality(gpu_group_[g]) >= RDC_GROUP_MAX_ENTITIES)
  BY <1>1, Zenon DEF GroupHoldsAll
<1>4. rdc_device_get_all = {Ok(GPUs)}
  BY Zenon DEF rdc_device_get_all, Smi
<1>5. Ok(GPUs).status = "OK" /\ Ok(GPUs).out = GPUs
  BY Zenon DEF Ok
<1>6. rdc_group_gpu_add(g, next, a)
  BY SMTT(30) DEF g, next
<1>7. a = Ok(Junk) /\ GroupGpuAdd(g, next)
  BY <1>1, <1>2, <1>3, <1>4, <1>5, <1>6, ZenonT(20) DEF rdc_group_gpu_add
<1> QED
  BY <1>7, Zenon DEF g, next

\* A call that made the group g is answered with it.
LEMMA AnswerGives ==
  ASSUME CallsInv, CallsInv', UNCHANGED caller, NEW k \in DOMAIN tasks,
         tasks[k].op = "group_gpu_create", NEW g, Answer(k, Ok(g))
  PROVE  /\ DOMAIN tasks' \subseteq DOMAIN tasks
         /\ \A j \in DOMAIN tasks : j # k => j \in DOMAIN tasks' /\ tasks'[j] = tasks[j]
         /\ k \notin DOMAIN tasks' => caller[k[1]].at = "idle" \/ caller[k[1]].n # k[2]
         /\ k \in DOMAIN tasks' =>
              /\ tasks'[k].at = "reply" /\ tasks'[k].op = "group_gpu_create"
              /\ tasks'[k].reply.status = "OK" /\ tasks'[k].reply.content = g
<1>1. CASE tasks' = MapErase(tasks, {k})
  <2>1. DOMAIN tasks' = DOMAIN tasks \ {k}
        /\ \A j \in DOMAIN tasks : j # k => tasks'[j] = tasks[j]
    BY <1>1, Zenon DEF MapErase
  <2>2. caller[k[1]].at = "idle" \/ caller[k[1]].n # k[2]
    <3>1. SUFFICES ASSUME ~(caller[k[1]].at = "idle" \/ caller[k[1]].n # k[2])
                   PROVE  FALSE
      BY Zenon
    <3>2. k \in DOMAIN tasks'
      BY <3>1, Zenon DEF Answer, Goto, MapPut
    <3> QED
      BY <2>1, <3>2, Zenon
  <2> QED
    BY <2>1, <2>2, Zenon
<1>2. CASE /\ tasks' = MapPut(tasks, k, tasks'[k])
           /\ tasks'[k].at = "reply" /\ tasks'[k].local = Ok(g)
           /\ tasks'[k].op = tasks[k].op
  <2>1. DOMAIN tasks' = DOMAIN tasks
        /\ \A j \in DOMAIN tasks : j # k => tasks'[j] = tasks[j]
    BY <1>2, Zenon DEF MapPut
  <2>2. tasks'[k].reply = ReplyOf("group_gpu_create", tasks'[k].arg, Ok(g))
    BY <1>2, <2>1, SMTT(20) DEF CallsInv, TasksOK, TaskOK
  <2>3. Ok(g).status = "OK" /\ Ok(g).out = g
    BY Zenon DEF Ok
  <2> QED
    BY <1>2, <2>1, <2>2, <2>3, CreateReply, SMTT(30)
<1>3. CallersOK /\ TasksOK
  BY Zenon DEF CallsInv
<1>4. \/ tasks' = MapErase(tasks, {k})
      \/ /\ tasks' = MapPut(tasks, k, tasks'[k])
         /\ tasks'[k].at = "reply" /\ tasks'[k].local = Ok(g)
         /\ tasks'[k].op = tasks[k].op
  BY <1>3, AnswerTasks, ZenonT(30)
<1> QED
  BY <1>1, <1>2, <1>4, Zenon

\* The next GPU is in, and the call goes on or is answered.
LEMMA FillServed ==
  ASSUME GroupsInv, CallsInv', ~SmiMayFail, GroupHoldsAll, NEW k \in DOMAIN tasks, ServeFill(k)
  PROVE  GroupsInv'
<1>1. PICK status :
        LET a == [status |-> status, out |-> Junk]
        IN  /\ rdc_group_gpu_add(tasks[k].id, tasks[k].next, a)
            /\ IF LastGpu(tasks[k].next)
               THEN Answer(k, IF status = "OK" THEN Ok(tasks[k].id) ELSE a)
               ELSE Goto(k, [tasks[k] EXCEPT !.next = @ + 1])
  BY ZenonT(20) DEF ServeFill
<1>2. UNCHANGED <<caller, own, maker>> /\ tasks[k].at = "filling"
  BY Zenon DEF ServeFill
<1>g. PICK g : g = tasks[k].id
  BY Zenon
<1>n. PICK next : next = tasks[k].next
  BY Zenon
<1>3. /\ g \in DOMAIN gpu_group_ /\ next \in GPUs /\ gpu_group_[g] = 0 .. (next - 1)
      /\ tasks[k].op = "group_gpu_create"
      /\ maker[g].c = k[1] /\ maker[g].n = k[2] /\ \A c \in Clients : g \notin own[c]
  BY <1>2, <1>g, <1>n, Zenon DEF GroupsInv, FillOK, Unknown
<1>4. GroupGpuAdd(g, next) /\ status = "OK"
  BY <1>1, <1>2, <1>g, <1>n, FillAdds, SMTT(20) DEF Ok
<1>5. /\ DOMAIN gpu_group_' = DOMAIN gpu_group_ /\ cur_group_id_' = cur_group_id_
      /\ \A h \in DOMAIN gpu_group_ : h # g => gpu_group_'[h] = gpu_group_[h]
      /\ gpu_group_'[g] = 0 .. next
  <2>1. next \in Nat
    BY <1>3, CommonConstants, Zenon
  <2>2. (0 .. (next - 1)) \cup {next} = 0 .. next
    BY <2>1
  <2> QED
    BY <1>3, <1>4, <2>2, ZenonT(30) DEF GroupGpuAdd, MapPut
<1>6. /\ DOMAIN tasks' \subseteq DOMAIN tasks
      /\ \A j \in DOMAIN tasks : j # k => j \in DOMAIN tasks' /\ tasks'[j] = tasks[j]
      /\ k \notin DOMAIN tasks' => caller[k[1]].at = "idle" \/ caller[k[1]].n # k[2]
      /\ k \in DOMAIN tasks' => Making(tasks'[k], g) /\ tasks'[k].at # "sent"
      /\ k \in DOMAIN tasks' /\ tasks'[k].at = "filling" =>
           tasks'[k].next = next + 1 /\ next + 1 \in GPUs
      /\ k \in DOMAIN tasks' /\ tasks'[k].at = "reply" => 0 .. next = GPUs
  <2>1. CASE LastGpu(next)
    <3>1. 0 .. next = GPUs
      BY <1>3, <2>1, ApiConstants, SMTT(30) DEF LastGpu
    <3>2. Answer(k, Ok(g))
      BY <1>1, <1>4, <1>g, <1>n, <2>1, Zenon
    <3> QED
      BY <1>2, <1>3, <3>1, <3>2, AnswerGives, ZenonT(20) DEF GroupsInv, Making
  <2>2. CASE ~LastGpu(next)
    <3>1. PICK u : Takes(tasks[k], next + 1, u) /\ tasks' = MapPut(tasks, k, u)
      BY <1>1, <1>n, <2>2, ZenonT(30) DEF Goto, Takes
    <3>2. u.at = "filling" /\ u.id = g /\ u.op = "group_gpu_create" /\ u.next = next + 1
      BY <1>2, <1>3, <1>g, <3>1, TaskTakes, SMTT(30) DEF GroupsInv, CallsInv, TasksOK, TaskOK
    <3>3. DOMAIN tasks' = DOMAIN tasks /\ tasks'[k] = u
          /\ \A j \in DOMAIN tasks : j # k => tasks'[j] = tasks[j]
      BY <3>1, Zenon DEF MapPut
    <3>4. next + 1 \in GPUs
      BY <1>3, <2>2, ApiConstants, SMTT(20) DEF LastGpu
    <3> QED
      BY <3>2, <3>3, <3>4, Zenon DEF Making
  <2> QED
    BY <2>1, <2>2, ZenonT(20)
<1>7. OwnOK'
  BY <1>2, <1>3, <1>5, SMTT(20) DEF GroupsInv, OwnOK
<1>8. MakerOK'
  <2>1. ASSUME NEW h \in DOMAIN gpu_group_ PROVE Traced(h)'
    <3>1. Traced(h)
      BY Zenon DEF GroupsInv, MakerOK
    <3>2. CASE <<maker[h].c, maker[h].n>> = k
      <4>1. CASE maker[h].n = caller[maker[h].c].n /\ caller[maker[h].c].at = "waiting"
        <5>1. h = g
          BY <1>2, <1>g, <3>1, <3>2, <4>1, ZenonT(40) DEF Traced, Making
        <5> QED
          BY <1>2, <1>6, <3>1, <3>2, <4>1, <5>1, Zenon DEF Traced
      <4>2. CASE maker[h].n # caller[maker[h].c].n \/ caller[maker[h].c].at # "waiting"
        BY <1>2, <3>1, <4>2, ZenonT(40) DEF Traced
      <4> QED
        BY <4>1, <4>2, SMTT(30)
    <3>3. CASE <<maker[h].c, maker[h].n>> # k
      BY <1>2, <1>6, <3>1, <3>3, ZenonT(20) DEF Traced
    <3> QED
      BY <3>2, <3>3, Zenon
  <2> QED
    BY <1>2, <1>5, <2>1, Zenon DEF GroupsInv, MakerOK
<1>9. ASSUME NEW j \in DOMAIN tasks, j # k, NEW h, Unknown(j, h)
      PROVE  h # g /\ Unknown(j, h)'
  <2>1. j = <<j[1], j[2]>> /\ k = <<k[1], k[2]>>
    BY DEF GroupsInv, CallsInv, TasksOK, TaskOK
  <2> QED
    BY <1>2, <1>3, <1>5, <1>9, <2>1, SMTT(30) DEF Unknown
<1>10. Unknown(k, g)'
  BY <1>2, <1>3, <1>5, Zenon DEF Unknown
<1>11. FillOK'
  <2>1. ASSUME NEW j \in DOMAIN tasks', tasks'[j].at = "filling"
        PROVE  /\ tasks'[j].op = "group_gpu_create" /\ Unknown(j, tasks[j].id)'
               /\ tasks'[j].next \in GPUs
               /\ gpu_group_'[tasks'[j].id] = 0 .. (tasks'[j].next - 1)
    <3>1. CASE j = k
      <4>1. next \in Nat
        BY <1>3, CommonConstants, Zenon
      <4>2. /\ tasks'[k].op = "group_gpu_create" /\ tasks'[k].id = g
            /\ tasks'[k].next = next + 1 /\ next + 1 \in GPUs
        BY <1>6, <2>1, <3>1, ZenonT(30) DEF Making
      <4>3. gpu_group_'[tasks'[k].id] = 0 .. (tasks'[k].next - 1)
        BY <1>5, <4>1, <4>2, SMTT(20)
      <4> QED
        BY <1>10, <3>1, <4>2, <4>3, Zenon DEF Unknown
    <3>2. CASE j # k
      <4>1. tasks'[j] = tasks[j] /\ j \in DOMAIN tasks
        BY <1>6, <3>2, Zenon
      <4>2. /\ tasks[j].op = "group_gpu_create" /\ Unknown(j, tasks[j].id)
            /\ tasks[j].next \in GPUs /\ tasks[j].id \in DOMAIN gpu_group_
            /\ gpu_group_[tasks[j].id] = 0 .. (tasks[j].next - 1)
        BY <2>1, <4>1, Zenon DEF GroupsInv, FillOK, Unknown
      <4>h. PICK h : h = tasks[j].id
        BY SMTT(30)
      <4>3. h # g /\ Unknown(j, h)'
        BY <1>9, <3>2, <4>1, <4>2, <4>h, ZenonT(30)
      <4> QED
        BY <1>5, <4>1, <4>2, <4>3, <4>h, Zenon DEF Unknown
    <3> QED
      BY <3>1, <3>2, Zenon
  <2> QED
    BY <2>1, Zenon DEF FillOK
<1>12. GivenOK'
  <2>1. ASSUME NEW j \in DOMAIN tasks', Given(j)'
        PROVE  /\ Unknown(j, tasks[j].reply.content)'
               /\ maker'[tasks'[j].reply.content].type = "RDC_GROUP_DEFAULT" =>
                    gpu_group_'[tasks'[j].reply.content] = GPUs
    <3>1. CASE j = k
      BY <1>5, <1>6, <1>10, <2>1, <3>1, ZenonT(30) DEF Making, Given
    <3>2. CASE j # k
      <4>1. tasks'[j] = tasks[j] /\ j \in DOMAIN tasks /\ Given(j)
        BY <1>6, <2>1, <3>2, ZenonT(20) DEF Given
      <4>2. PICK h : h = tasks[j].reply.content
        BY Zenon
      <4>3. Unknown(j, h) /\ (maker[h].type = "RDC_GROUP_DEFAULT" => gpu_group_[h] = GPUs)
        BY <4>1, <4>2, Zenon DEF GroupsInv, GivenOK
      <4>4. h # g /\ Unknown(j, h)' /\ h \in DOMAIN gpu_group_
        BY <1>9, <3>2, <4>1, <4>3, ZenonT(30) DEF Unknown
      <4> QED
        BY <1>2, <1>5, <4>1, <4>2, <4>3, <4>4, ZenonT(20)
    <3> QED
      BY <3>1, <3>2, Zenon
  <2> QED
    BY <2>1, SMTT(20) DEF GivenOK
<1>13. AskOK'
  <2>1. ASSUME NEW j \in DOMAIN tasks, tasks[j].at = "sent",
               tasks[j].op \in {"group_gpu_add", "group_gpu_destroy"}
        PROVE  g # Named(tasks[j])
    BY <1>2, <1>g, <2>1, ZenonT(30) DEF GroupsInv, AskOK
  <2>2. \A j \in DOMAIN tasks' :
          /\ tasks'[j].at = "filling" => j = k \/ tasks[j].at = "filling"
          /\ Given(j)' => j = k \/ Given(j)
          /\ tasks'[j].at = "sent" => j # k
    BY <1>6, Zenon DEF Given
  <2>3. k \in DOMAIN tasks' =>
          /\ tasks'[k].at = "filling" => tasks'[k].id = g
          /\ Given(k)' => tasks'[k].reply.content = g
    BY <1>6, Zenon DEF Making, Given
  <2> QED
    BY <1>2, <1>5, <1>6, <2>1, <2>2, <2>3, SMTT(30) DEF GroupsInv, AskOK
<1> QED
  BY <1>7, <1>8, <1>11, <1>12, <1>13, Zenon DEF GroupsInv

\* Hence the first step of rdc_group_gpu_create keeps it.
LEMMA CreateServed ==
  ASSUME GroupsInv, CallsInv', ~SmiMayFail, NEW k \in DOMAIN tasks, ServeCreate(k)
  PROVE  GroupsInv'
<1>1. PICK a :
        /\ CreateEmpty(a)
        /\ maker' = IF a.status # "OK" THEN maker
                    ELSE MapPut(maker, a.out, [c |-> k[1], n |-> k[2], type |-> tasks[k].arg])
        /\ IF a.status # "OK" \/ tasks[k].arg = "RDC_GROUP_EMPTY" THEN Answer(k, a)
           ELSE \E devices \in rdc_device_get_all :
                  IF devices.status # "OK" THEN Answer(k, devices)
                  ELSE Goto(k, [tasks[k] EXCEPT !.at = "filling", !.id = a.out])
  BY ZenonT(20) DEF ServeCreate
<1>2. /\ UNCHANGED <<caller, own>> /\ tasks[k].at = "sent"
      /\ tasks[k].op = "group_gpu_create"
  BY Zenon DEF ServeCreate
<1>3. CASE a = Err("MAX_LIMIT") /\ UNCHANGED gvars
  <2>1. a.status # "OK"
    BY <1>3, Zenon DEF Err
  <2> QED
    BY <1>1, <1>2, <1>3, <2>1, CreateFails, Zenon
<1>4. CASE a = Ok(cur_group_id_) /\ GroupGpuCreate
  <2>g. PICK g : g = cur_group_id_
    BY Zenon
  <2>1. a.status = "OK" /\ a.out = g /\ a = Ok(g)
    BY <1>4, <2>g, Zenon DEF Ok
  <2>2. maker' = MapPut(maker, g, [c |-> k[1], n |-> k[2], type |-> tasks[k].arg])
    BY <1>1, <2>1, Zenon
  <2>3. CASE tasks[k].arg = "RDC_GROUP_EMPTY"
    <3>1. Answer(k, Ok(g))
      BY <1>1, <2>1, <2>3, Zenon
    <3>2. GoesOn(k, g)
      BY <1>2, <2>3, <3>1, AnswerGives, ZenonT(20) DEF GoesOn, GroupsInv
    <3> QED
      BY <1>2, <1>4, <2>g, <2>2, <3>2, CreateSucceeds, ZenonT(30)
  <2>4. CASE tasks[k].arg # "RDC_GROUP_EMPTY"
    <3>1. Goto(k, [tasks[k] EXCEPT !.at = "filling", !.id = g])
      BY <1>1, <2>1, <2>4 DEF rdc_device_get_all, Smi, Ok
    <3>2. PICK u : Goes(tasks[k], "filling", g, u) /\ tasks' = MapPut(tasks, k, u)
      BY <3>1, ZenonT(30) DEF Goto, Goes
    <3>3. u.at = "filling" /\ u.id = g /\ u.op = "group_gpu_create" /\ u.next = 0
      BY <1>2, <3>2, TaskGoes, SMTT(30) DEF GroupsInv, CallsInv, TasksOK, TaskOK
    <3>4. DOMAIN tasks' = DOMAIN tasks /\ tasks'[k] = u
          /\ \A j \in DOMAIN tasks : j # k => tasks'[j] = tasks[j]
      BY <3>2, Zenon DEF MapPut
    <3>5. GoesOn(k, g)
      BY <3>3, <3>4, Zenon DEF GoesOn
    <3> QED
      BY <1>2, <1>4, <2>g, <2>2, <3>5, CreateSucceeds, Zenon
  <2> QED
    BY <2>3, <2>4, Zenon
<1> QED
  BY <1>1, <1>3, <1>4, Zenon DEF CreateEmpty

\* A client asks.
LEMMA CallGroups ==
  ASSUME GroupsInv, CallsInv', OwnGroupsOnly, NEW c \in Clients, NEW op \in DOMAIN Calls[c],
         NEW arg \in ArgsOf(c, op), Call(c, op, arg)
  PROVE  GroupsInv'
<1>k. PICK k : k = <<c, caller[c].n + 1>>
  BY ZenonT(20)
<1>1. op \in Operations /\ caller[c].n \in Nat /\ caller[c].n + 1 \in Nat
      /\ caller[c].at = "idle" /\ Begins(c, caller[c].n + 1, op) /\ CallersOK
  BY ApiConstants DEF GroupsInv, CallsInv, CallersOK, CallerOK, Call, Begins
<1>2. /\ caller'[c].n = caller[c].n + 1
      /\ \A d \in Clients : d # c => caller'[d] = caller[d]
  BY <1>1, CallersBegin, Zenon
<1>3. /\ DOMAIN tasks' = DOMAIN tasks \cup {k} /\ tasks'[k] = Request(op, arg)
      /\ \A j \in DOMAIN tasks : j # k => tasks'[j] = tasks[j]
  BY <1>k, Zenon DEF Call, MapPut
<1>4. k \notin DOMAIN tasks
  <2>1. k[1] = c /\ k[2] = caller[c].n + 1
    BY <1>k, Zenon
  <2> QED
    BY <1>1, <2>1 DEF GroupsInv, CallsInv, TasksOK, TaskOK
<1>5. tasks'[k].at = "sent" /\ tasks'[k].op = op /\ tasks'[k].arg = arg
  BY <1>3 DEF Request
<1>6. /\ UNCHANGED <<gpu_group_, cur_group_id_, maker>>
      /\ own' = [d \in Clients |-> own'[d]]
      /\ \A d \in Clients : own'[d] \subseteq own[d]
      /\ \A d \in Clients : d # c => own'[d] = own[d]
      /\ op = "group_gpu_destroy" => arg \notin own'[c]
  BY ZenonT(20) DEF Call, gvars, GroupsInv, OwnOK
<1>7. OwnOK'
  BY <1>6, Zenon DEF GroupsInv, OwnOK
<1>8. MakerOK'
  <2>1. ASSUME NEW h \in DOMAIN gpu_group_ PROVE Traced(h)'
    <3>1. Traced(h)
      BY SMTT(20) DEF GroupsInv, MakerOK
    <3>2. CASE maker[h].c = c
      BY <1>1, <1>2, <1>6, <3>1, <3>2, SMTT(40) DEF Traced
    <3>3. CASE maker[h].c # c
      BY <1>2, <1>3, <1>4, <1>6, <3>1, <3>3, ZenonT(20) DEF Traced
    <3> QED
      BY <3>2, <3>3, Zenon
  <2> QED
    BY <1>6, <2>1, Zenon DEF GroupsInv, MakerOK
<1>u. ASSUME NEW j, NEW h, Unknown(j, h) PROVE Unknown(j, h)'
  BY <1>6, <1>u, Zenon DEF Unknown
<1>9. FillOK'
  <2>1. ASSUME NEW j \in DOMAIN tasks', tasks'[j].at = "filling"
        PROVE  /\ tasks'[j].op = "group_gpu_create"
               /\ Unknown(j, tasks[j].id)'
               /\ tasks'[j].next \in GPUs
               /\ gpu_group_'[tasks'[j].id] = 0 .. (tasks'[j].next - 1)
    <3>1. j \in DOMAIN tasks /\ tasks'[j] = tasks[j] /\ tasks[j].at = "filling"
      BY <1>3, <1>5, <2>1, Zenon
    <3>h. PICK h : h = tasks[j].id /\ h = tasks'[j].id
      BY <3>1, Zenon
    <3>2. /\ tasks[j].op = "group_gpu_create" /\ Unknown(j, h)
          /\ tasks[j].next \in GPUs /\ gpu_group_[h] = 0 .. (tasks[j].next - 1)
      BY <3>1, <3>h, Zenon DEF GroupsInv, FillOK
    <3>3. Unknown(j, h)'
      BY <1>u, <3>2, Zenon
    <3>4. Unknown(j, tasks[j].id)'
      BY <3>3, <3>h, Zenon DEF Unknown
    <3> QED
      BY <1>6, <3>1, <3>2, <3>4, <3>h, Zenon
  <2> QED
    BY <2>1, Zenon DEF FillOK
<1>10. GivenOK'
  <2>1. ASSUME NEW j \in DOMAIN tasks', Given(j)'
        PROVE  /\ Unknown(j, tasks[j].reply.content)'
               /\ maker'[tasks'[j].reply.content].type = "RDC_GROUP_DEFAULT" =>
                    gpu_group_'[tasks'[j].reply.content] = GPUs
    <3>1. j \in DOMAIN tasks /\ tasks'[j] = tasks[j] /\ Given(j)
      BY <1>3, <1>5, <2>1, Zenon DEF Given
    <3>h. PICK h : h = tasks[j].reply.content /\ h = tasks'[j].reply.content
      BY <3>1, Zenon
    <3>2. /\ Unknown(j, h) /\ (maker[h].type = "RDC_GROUP_DEFAULT" => gpu_group_[h] = GPUs)
      BY <3>1, <3>h, Zenon DEF GroupsInv, GivenOK
    <3>3. Unknown(j, h)'
      BY <1>u, <3>2, Zenon
    <3>4. Unknown(j, tasks[j].reply.content)'
      BY <3>3, <3>h, Zenon DEF Unknown
    <3> QED
      BY <1>6, <3>2, <3>4, <3>h, Zenon
  <2> QED
    BY <2>1, Zenon DEF GivenOK
<1>11. AskOK'
  <2>1. ASSUME op \in {"group_gpu_add", "group_gpu_destroy"}
        PROVE  /\ Named(tasks'[k]) \in own[c] \cup {0}
               /\ op = "group_gpu_destroy" => Named(tasks'[k]) = arg /\ arg \in own[c]
    BY <1>5, <2>1, Zenon DEF Named, ArgsOf, OwnGroupsOnly
  <2>2. ASSUME NEW g \in own[c]
        PROVE  /\ g \in Nat /\ g < cur_group_id_
               /\ \A j \in DOMAIN tasks : tasks[j].at = "filling" => tasks[j].id # g
               /\ \A j \in DOMAIN tasks : Given(j) => tasks[j].reply.content # g
               /\ \A d \in Clients : d # c => g \notin own[d]
    <3>1. g \in DOMAIN gpu_group_ /\ maker[g].c = c
      BY Zenon DEF GroupsInv, OwnOK
    <3>2. g \in Nat /\ g < cur_group_id_
      BY <3>1 DEF GroupsInv, CallsInv, GroupTypeOK
    <3>3. \A j \in DOMAIN tasks : tasks[j].at = "filling" => tasks[j].id # g
      BY Zenon DEF GroupsInv, FillOK, Unknown
    <3>4. \A j \in DOMAIN tasks : Given(j) => tasks[j].reply.content # g
      BY Zenon DEF GroupsInv, GivenOK, Unknown
    <3>5. \A d \in Clients : d # c => g \notin own[d]
      BY <3>1, ZenonT(30) DEF GroupsInv, OwnOK
    <3> QED
      BY <3>2, <3>3, <3>4, <3>5, Zenon
  <2>3. /\ 0 \in Nat /\ 0 < cur_group_id_
        /\ \A j \in DOMAIN tasks : tasks[j].at = "filling" => tasks[j].id # 0
    BY DEF GroupsInv, CallsInv, GroupTypeOK, FillOK, Unknown
  <2>4. \A j \in DOMAIN tasks' :
          /\ tasks'[j].at = "filling" => j \in DOMAIN tasks /\ tasks[j].at = "filling"
                                           /\ tasks'[j].id = tasks[j].id
          /\ Given(j)' => j \in DOMAIN tasks /\ Given(j)
                            /\ tasks'[j].reply.content = tasks[j].reply.content
    BY <1>3, <1>4, <1>5, Zenon DEF Given
  <2>5. ASSUME NEW j \in DOMAIN tasks', tasks'[j].at = "sent",
               tasks'[j].op \in {"group_gpu_add", "group_gpu_destroy"}
        PROVE  /\ Named(tasks'[j]) \in Nat /\ Named(tasks'[j]) < cur_group_id_
               /\ \A i \in DOMAIN tasks' :
                    tasks'[i].at = "filling" => tasks'[i].id # Named(tasks'[j])
               /\ tasks'[j].op = "group_gpu_destroy" =>
                    /\ \A d \in Clients : Named(tasks'[j]) \notin own'[d]
                    /\ \A i \in DOMAIN tasks' :
                         Given(i)' => tasks'[i].reply.content # Named(tasks'[j])
    <3>1. CASE j = k
      BY <1>5, <1>6, <2>1, <2>2, <2>3, <2>4, <2>5, <3>1, SMTT(20)
    <3>2. CASE j # k
      <4>1. tasks'[j] = tasks[j] /\ j \in DOMAIN tasks
        BY <1>3, <3>2, Zenon
      <4> QED
        BY <1>6, <2>4, <2>5, <4>1, SMTT(30) DEF GroupsInv, AskOK
    <3> QED
      BY <3>1, <3>2, Zenon
  <2> QED
    BY <1>6, <2>5, Zenon DEF AskOK, Named
<1> QED
  BY <1>7, <1>8, <1>9, <1>10, <1>11, Zenon DEF GroupsInv

\* A group made by an earlier call than the last one of its client.
LEMMA OlderTraced ==
  ASSUME NEW h, Traced(h), maker' = maker, caller'[maker[h].c].n \in Nat,
         maker[h].n < caller'[maker[h].c].n
  PROVE  Traced(h)'
<1>1. maker[h].n \in Nat
  BY Zenon DEF Traced
<1>2. maker[h].n <= caller'[maker[h].c].n /\ maker[h].n # caller'[maker[h].c].n
  BY <1>1
<1> QED
  BY <1>2, Zenon DEF Traced

\* A call that its own checks refuse.
LEMMA RefusedGroups ==
  ASSUME GroupsInv, CallsInv', NEW c \in Clients, NEW op, NEW null, CallRefused(c, op, null)
  PROVE  GroupsInv'
<1>1. caller[c].n \in Nat /\ caller[c].n + 1 \in Nat /\ CallersOK
      /\ Ends(c, caller[c].n + 1, Refusal(op, null))
  BY DEF GroupsInv, CallsInv, CallersOK, CallerOK, CallRefused, Ends
<1>2. /\ caller'[c].n = caller[c].n + 1
      /\ \A d \in Clients : d # c => caller'[d] = caller[d]
  BY <1>1, CallersEnd, Zenon
<1>3. UNCHANGED <<gpu_group_, cur_group_id_, tasks, own, maker>>
  BY Zenon DEF CallRefused, gvars
<1>4. MakerOK'
  <2>1. ASSUME NEW h \in DOMAIN gpu_group_ PROVE Traced(h)'
    <3>1. Traced(h)
      BY Zenon DEF GroupsInv, MakerOK
    <3>2. CASE maker[h].c = c
      <4>1. maker[h].n \in Nat /\ maker[h].n <= caller[c].n
        BY <3>1, <3>2, ZenonT(30) DEF Traced
      <4>2. caller'[c].n \in Nat /\ maker[h].n < caller'[c].n
        BY <1>1, <1>2, <4>1
      <4> QED
        BY <1>3, <3>1, <3>2, <4>2, OlderTraced, Zenon
    <3>3. CASE maker[h].c # c
      BY <1>2, <1>3, <3>1, <3>3, ZenonT(30) DEF Traced
    <3> QED
      BY <3>2, <3>3, Zenon
  <2> QED
    BY <1>3, <2>1, Zenon DEF GroupsInv, MakerOK
<1>5. OwnOK' /\ FillOK' /\ GivenOK' /\ AskOK'
  BY <1>3 DEF GroupsInv, OwnOK, FillOK, GivenOK, AskOK, Given, Unknown
<1> QED
  BY <1>4, <1>5, Zenon DEF GroupsInv

\* A call ends without a new group for its client: by an error of gRPC, or with
\* the reply of a task that made none.
LEMMA EndsGroups ==
  ASSUME GroupsInv, CallsInv', NEW c \in Clients, NEW s, Ends(c, caller[c].n, s),
         UNCHANGED <<gpu_group_, cur_group_id_, own, maker>>,
         NEW K \in SUBSET TaskOf(c), tasks' = MapErase(tasks, K),
         caller[c].at = "waiting",
         \/ s = "CLIENT_ERROR"
         \/ \E k \in K : \A g : ~Making(tasks[k], g)
  PROVE  GroupsInv'
<1>1. caller[c].n \in Nat /\ CallersOK
  BY Zenon DEF GroupsInv, CallsInv, CallersOK, CallerOK
<1>2. /\ caller'[c].n = caller[c].n /\ caller'[c].at = "idle" /\ caller'[c].status = s
      /\ \A d \in Clients : d # c => caller'[d] = caller[d]
  BY <1>1, CallersEnd, Zenon
<1>3. /\ DOMAIN tasks' = DOMAIN tasks \ K
      /\ \A j \in DOMAIN tasks' : j \in DOMAIN tasks /\ tasks'[j] = tasks[j]
      /\ \A j \in K : j = <<c, caller[c].n>>
  BY Zenon DEF MapErase, TaskOf
<1>4. MakerOK'
  <2>1. ASSUME NEW h \in DOMAIN gpu_group_ PROVE Traced(h)'
    <3>1. Traced(h)
      BY ZenonT(30) DEF GroupsInv, MakerOK
    <3>2. CASE maker[h].c = c
      <4>1. CASE maker[h].n # caller[c].n
        BY <1>2, <3>1, <3>2, <4>1, Zenon DEF Traced
      <4>2. CASE maker[h].n = caller[c].n
        <5>1. Making(tasks[<<c, caller[c].n>>], h)
          BY <3>1, <3>2, <4>2, Zenon DEF Traced
        <5>2. s = "CLIENT_ERROR"
          BY <1>3, <5>1, Zenon
        <5> QED
          BY <1>2, <3>1, <3>2, <4>2, <5>2, Zenon DEF Traced
      <4> QED
        BY <4>1, <4>2
    <3>3. CASE maker[h].c # c
      <4>1. <<maker[h].c, maker[h].n>> \notin K
        BY <1>3, <3>3, Zenon
      <4> QED
        BY <1>2, <1>3, <3>1, <3>3, <4>1, Zenon DEF Traced
    <3> QED
      BY <3>2, <3>3, Zenon
  <2> QED
    BY <2>1, Zenon DEF GroupsInv, MakerOK
<1>5. OwnOK'
  BY Zenon DEF GroupsInv, OwnOK
<1>u. gpu_group_' = gpu_group_ /\ cur_group_id_' = cur_group_id_ /\ own' = own /\ maker' = maker
  BY Zenon
<1>6. FillOK'
  <2>1. ASSUME NEW j \in DOMAIN tasks', tasks'[j].at = "filling"
        PROVE  /\ tasks'[j].op = "group_gpu_create"
               /\ Unknown(j, tasks[j].id)'
               /\ tasks'[j].next \in GPUs
               /\ gpu_group_'[tasks'[j].id] = 0 .. (tasks'[j].next - 1)
    <3>1. j \in DOMAIN tasks /\ tasks'[j] = tasks[j] /\ tasks[j].at = "filling"
      BY <1>3, <2>1, Zenon
    <3>2. /\ tasks[j].op = "group_gpu_create" /\ Unknown(j, tasks[j].id)
          /\ tasks[j].next \in GPUs
          /\ gpu_group_[tasks[j].id] = 0 .. (tasks[j].next - 1)
      BY <3>1, Zenon DEF GroupsInv, FillOK
    <3> QED
      BY <1>u, <3>1, <3>2, Zenon DEF Unknown
  <2> QED
    BY <2>1, Zenon DEF FillOK
<1>7. \A j \in DOMAIN tasks' : Given(j)' <=> Given(j)
  BY <1>3, Zenon DEF Given
<1>8. GivenOK'
  <2>1. ASSUME NEW j \in DOMAIN tasks', Given(j)'
        PROVE  /\ Unknown(j, tasks[j].reply.content)'
               /\ maker'[tasks'[j].reply.content].type = "RDC_GROUP_DEFAULT" =>
                    gpu_group_'[tasks'[j].reply.content] = GPUs
    <3>1. j \in DOMAIN tasks /\ tasks'[j] = tasks[j] /\ Given(j)
      BY <1>3, <1>7, <2>1, Zenon
    <3>2. /\ Unknown(j, tasks[j].reply.content)
          /\ maker[tasks[j].reply.content].type = "RDC_GROUP_DEFAULT" =>
               gpu_group_[tasks[j].reply.content] = GPUs
      BY <3>1, Zenon DEF GroupsInv, GivenOK
    <3> QED
      BY <1>u, <3>1, <3>2, Zenon DEF Unknown
  <2> QED
    BY <2>1, Zenon DEF GivenOK
<1>9. AskOK'
  <2>1. ASSUME NEW j \in DOMAIN tasks', tasks'[j].at = "sent",
               tasks'[j].op \in {"group_gpu_add", "group_gpu_destroy"}
        PROVE  /\ Named(tasks'[j]) \in Nat /\ Named(tasks'[j]) < cur_group_id_'
               /\ \A i \in DOMAIN tasks' :
                    tasks'[i].at = "filling" => tasks'[i].id # Named(tasks'[j])
               /\ tasks'[j].op = "group_gpu_destroy" =>
                    /\ \A d \in Clients : Named(tasks'[j]) \notin own'[d]
                    /\ \A i \in DOMAIN tasks' :
                         Given(i)' => tasks'[i].reply.content # Named(tasks'[j])
    <3>1. j \in DOMAIN tasks /\ tasks'[j] = tasks[j]
      BY <1>3, Zenon
    <3>2. /\ Named(tasks[j]) \in Nat /\ Named(tasks[j]) < cur_group_id_
          /\ \A i \in DOMAIN tasks : tasks[i].at = "filling" => tasks[i].id # Named(tasks[j])
          /\ tasks[j].op = "group_gpu_destroy" =>
               /\ \A d \in Clients : Named(tasks[j]) \notin own[d]
               /\ \A i \in DOMAIN tasks : Given(i) => tasks[i].reply.content # Named(tasks[j])
      BY <2>1, <3>1, Zenon DEF GroupsInv, AskOK
    <3>m. PICK m : m = Named(tasks[j]) /\ m = Named(tasks'[j])
      BY <3>1, Zenon
    <3>3. \A i \in DOMAIN tasks' : tasks'[i].at = "filling" => tasks'[i].id # m
      BY <1>3, <3>2, <3>m, Zenon
    <3>4. tasks[j].op = "group_gpu_destroy" =>
            \A i \in DOMAIN tasks' : Given(i)' => tasks'[i].reply.content # m
      BY <1>3, <1>7, <3>2, <3>m, Zenon
    <3> QED
      BY <1>u, <3>1, <3>2, <3>3, <3>4, <3>m, Zenon
  <2> QED
    BY <2>1, Zenon DEF AskOK
<1> QED
  BY <1>4, <1>5, <1>6, <1>8, <1>9, ZenonT(30) DEF GroupsInv

\* The connection breaks.
LEMMA BreakGroups ==
  ASSUME GroupsInv, CallsInv', NEW c \in Clients, Break(c)
  PROVE  GroupsInv'
<1>1. ResultOf(caller[c].op, Broken).status = "CLIENT_ERROR" /\ caller[c].at = "waiting"
  BY BrokenIsError, Zenon DEF GroupsInv, CallsInv, CallersOK, CallerOK, Break
<1>2. Ends(c, caller[c].n, "CLIENT_ERROR") /\ UNCHANGED own
  BY <1>1, Zenon DEF Break, Return, Ends
<1>3. UNCHANGED <<gpu_group_, cur_group_id_, maker>>
  BY Zenon DEF Break, gvars
<1>4. CASE UNCHANGED tasks
  <2>1. tasks' = MapErase(tasks, {})
    BY <1>4, Zenon DEF GroupsInv, CallsInv, TasksOK, MapErase
  <2> QED
    BY <1>1, <1>2, <1>3, <2>1, EndsGroups, Zenon
<1>5. ASSUME NEW k \in TaskOf(c), tasks' = MapErase(tasks, {k}) PROVE GroupsInv'
  <2>1. {k} \in SUBSET TaskOf(c)
    BY SMTT(30)
  <2> QED
    BY <1>1, <1>2, <1>3, <1>5, <2>1, EndsGroups, Zenon
<1> QED
  BY <1>4, <1>5, ZenonT(20) DEF Break

\* The reply gives its client the group g that the task k made.
LEMMA GiveGroups ==
  ASSUME GroupsInv, CallsInv', NEW k \in DOMAIN tasks, NEW g,
         Given(k), tasks[k].reply.content = g,
         k[1] \in Clients, caller[k[1]].at = "waiting", k = <<k[1], caller[k[1]].n>>,
         Ends(k[1], caller[k[1]].n, "OK"),
         own' = [own EXCEPT ![k[1]] = @ \cup {g}],
         tasks' = MapErase(tasks, {k}), UNCHANGED <<gpu_group_, cur_group_id_, maker>>
  PROVE  GroupsInv'
<1>c. PICK c \in Clients : c = k[1]
  BY Zenon
<1>1. caller[c].n \in Nat /\ CallersOK
  BY Zenon DEF GroupsInv, CallsInv, CallersOK, CallerOK
<1>2. /\ caller'[c].n = caller[c].n /\ caller'[c].at = "idle"
      /\ \A d \in Clients : d # c => caller'[d] = caller[d]
  BY <1>1, <1>c, CallersEnd, ZenonT(30)
<1>3. /\ DOMAIN tasks' = DOMAIN tasks \ {k}
      /\ \A j \in DOMAIN tasks' : j \in DOMAIN tasks /\ j # k /\ tasks'[j] = tasks[j]
  BY Zenon DEF MapErase
<1>4. /\ own' = [d \in Clients |-> own'[d]] /\ own'[c] = own[c] \cup {g}
      /\ \A d \in Clients : d # c => own'[d] = own[d]
  BY <1>c, ZenonT(20) DEF GroupsInv, OwnOK
<1>5. /\ g \in DOMAIN gpu_group_ /\ maker[g].c = c /\ maker[g].n = k[2]
      /\ maker[g].type = "RDC_GROUP_DEFAULT" => gpu_group_[g] = GPUs
  BY <1>c, ZenonT(30) DEF GroupsInv, GivenOK, Unknown
<1>6. OwnOK'
  BY <1>4, <1>5 DEF GroupsInv, OwnOK
<1>7. MakerOK'
  <2>1. ASSUME NEW h \in DOMAIN gpu_group_ PROVE Traced(h)'
    <3>1. Traced(h)
      BY ZenonT(30) DEF GroupsInv, MakerOK
    <3>2. CASE maker[h].c = c
      <4>1. CASE maker[h].n # caller[c].n
        BY <1>2, <3>1, <3>2, <4>1, Zenon DEF Traced
      <4>2. CASE maker[h].n = caller[c].n
        <5>1. Making(tasks[k], h)
          <6>1. <<maker[h].c, maker[h].n>> = k /\ caller[maker[h].c].at # "idle"
            BY <1>c, <3>2, <4>2, Zenon
          <6> QED
            BY <3>1, <3>2, <4>2, <6>1, Zenon DEF Traced
        <5>2. h = g
          BY <5>1, Zenon DEF Making, Given
        <5> QED
          BY <1>2, <1>4, <3>1, <3>2, <4>2, <5>2, Zenon DEF Traced
      <4> QED
        BY <4>1, <4>2, SMTT(20)
    <3>3. CASE maker[h].c # c
      <4>1. <<maker[h].c, maker[h].n>> # k
        BY <1>c, <3>3
      <4> QED
        BY <1>2, <1>3, <1>4, <3>1, <3>3, <4>1, ZenonT(20) DEF Traced
    <3> QED
      BY <3>2, <3>3, Zenon
  <2> QED
    BY <2>1, Zenon DEF GroupsInv, MakerOK
<1>8. ASSUME NEW j \in DOMAIN tasks', NEW h, Unknown(j, h) PROVE Unknown(j, h)'
  <2>1. j \in Clients \X Nat /\ k \in Clients \X Nat /\ j # k
    BY <1>3, ZenonT(30) DEF GroupsInv, CallsInv, TasksOK, TaskOK
  <2>2. h # g
    BY <1>5, <1>8, <1>c, <2>1, SMTT(20) DEF Unknown
  <2> QED
    BY <1>4, <1>8, <2>2, Zenon DEF Unknown
<1>9. FillOK'
  <2> SUFFICES ASSUME NEW j \in DOMAIN tasks', tasks'[j].at = "filling"
               PROVE  /\ tasks'[j].op = "group_gpu_create" /\ Unknown(j, tasks[j].id)'
                      /\ tasks'[j].next \in GPUs
                      /\ gpu_group_'[tasks'[j].id] = 0 .. (tasks'[j].next - 1)
    BY ZenonT(20) DEF FillOK
  <2>h. PICK h : h = tasks[j].id
    BY Zenon
  <2>1. Unknown(j, h)
    BY <1>3, <2>h, ZenonT(20) DEF GroupsInv, FillOK
  <2>2. Unknown(j, h)'
    BY <1>8, <2>1, Zenon
  <2>3. j \in DOMAIN tasks /\ tasks'[j] = tasks[j] /\ tasks'[j].id = h
    BY <1>3, <2>h, ZenonT(20)
  <2>4. Unknown(j, tasks[j].id)'
    BY <2>2, <2>3, ZenonT(20) DEF Unknown
  <2>5. /\ tasks[j].op = "group_gpu_create" /\ tasks[j].next \in GPUs
        /\ gpu_group_[tasks[j].id] = 0 .. (tasks[j].next - 1)
    BY <2>3, Zenon DEF GroupsInv, FillOK
  <2> QED
    BY <2>3, <2>4, <2>5, Zenon
<1>10. GivenOK'
  <2> SUFFICES ASSUME NEW j \in DOMAIN tasks', Given(j)'
               PROVE  /\ Unknown(j, tasks[j].reply.content)'
                      /\ maker'[tasks'[j].reply.content].type = "RDC_GROUP_DEFAULT" =>
                           gpu_group_'[tasks'[j].reply.content] = GPUs
    BY Zenon DEF GivenOK
  <2>h. PICK h : h = tasks[j].reply.content
    BY Zenon
  <2>0. Given(j)
    BY <1>3, ZenonT(20) DEF Given
  <2>1. Unknown(j, h)
    BY <1>3, <2>h, <2>0, ZenonT(30) DEF GroupsInv, GivenOK
  <2>2. Unknown(j, h)'
    BY <1>8, <2>1, ZenonT(20)
  <2>3. j \in DOMAIN tasks /\ tasks'[j] = tasks[j] /\ tasks'[j].reply.content = h
    BY <1>3, <2>h, Zenon
  <2>4. Unknown(j, tasks[j].reply.content)'
    BY <2>2, <2>3, ZenonT(20) DEF Unknown
  <2>5. maker[tasks[j].reply.content].type = "RDC_GROUP_DEFAULT" =>
          gpu_group_[tasks[j].reply.content] = GPUs
    BY <2>0, <2>3, Zenon DEF GroupsInv, GivenOK
  <2> QED
    BY <2>3, <2>4, <2>5, Zenon
<1>11. AskOK'
  <2>1. \A j \in DOMAIN tasks' : tasks'[j] = tasks[j] /\ j \in DOMAIN tasks /\ (Given(j)' <=> Given(j))
    BY <1>3, Zenon DEF Given
  <2>2. ASSUME NEW j \in DOMAIN tasks', tasks'[j].at = "sent",
               tasks'[j].op \in {"group_gpu_add", "group_gpu_destroy"}
        PROVE  /\ Named(tasks'[j]) \in Nat /\ Named(tasks'[j]) < cur_group_id_
               /\ \A i \in DOMAIN tasks' :
                    tasks'[i].at = "filling" => tasks'[i].id # Named(tasks'[j])
               /\ tasks'[j].op = "group_gpu_destroy" =>
                    /\ \A d \in Clients : Named(tasks'[j]) \notin own'[d]
                    /\ \A i \in DOMAIN tasks' :
                         Given(i)' => tasks'[i].reply.content # Named(tasks'[j])
    <3>m. PICK m : m = Named(tasks'[j])
      BY Zenon
    <3>1. j \in DOMAIN tasks /\ tasks'[j] = tasks[j] /\ m = Named(tasks[j])
      BY <2>1, <3>m, Zenon
    <3>2. /\ m \in Nat /\ m < cur_group_id_
          /\ \A i \in DOMAIN tasks : tasks[i].at = "filling" => tasks[i].id # m
          /\ tasks[j].op = "group_gpu_destroy" =>
               /\ \A d \in Clients : m \notin own[d]
               /\ \A i \in DOMAIN tasks : Given(i) => tasks[i].reply.content # m
      BY <2>2, <3>1, Zenon DEF GroupsInv, AskOK
    <3>3. tasks[j].op = "group_gpu_destroy" => \A d \in Clients : m \notin own'[d]
      BY <1>4, <3>2, Zenon
    <3>4. \A i \in DOMAIN tasks' : tasks'[i].at = "filling" => tasks'[i].id # m
      BY <2>1, <3>2, ZenonT(20)
    <3>5. tasks[j].op = "group_gpu_destroy" =>
            \A i \in DOMAIN tasks' : Given(i)' => tasks'[i].reply.content # m
      BY <2>1, <3>2, ZenonT(40)
    <3> QED
      BY <3>m, <3>1, <3>2, <3>3, <3>4, <3>5, ZenonT(30)
  <2> QED
    BY <2>2, ZenonT(20) DEF AskOK, Named
<1> QED
  BY <1>6, <1>7, <1>9, <1>10, <1>11, SMTT(20) DEF GroupsInv

\* A reply arrives.
LEMMA DeliverGroups ==
  ASSUME GroupsInv, CallsInv', NEW k \in DOMAIN tasks, Deliver(k)
  PROVE  GroupsInv'
<1>1. /\ k[1] \in Clients /\ caller[k[1]].at = "waiting" /\ k = <<k[1], caller[k[1]].n>>
      /\ caller[k[1]].op = tasks[k].op /\ tasks[k].at = "reply"
      /\ tasks[k].reply = ReplyOf(tasks[k].op, tasks[k].arg, tasks[k].local)
  BY DEF GroupsInv, CallsInv, TasksOK, TaskOK, Deliver
<1>2. tasks' = MapErase(tasks, {k}) /\ UNCHANGED <<gpu_group_, cur_group_id_, maker>>
      /\ Return(k[1], tasks[k].reply) /\ {k} \in SUBSET TaskOf(k[1])
  BY <1>1, Zenon DEF Deliver, gvars, TaskOf
<1>s. PICK s : s = ResultOf(tasks[k].op, tasks[k].reply).status
  BY Zenon
<1>3. Ends(k[1], caller[k[1]].n, s)
  BY <1>1, <1>2, <1>s, Zenon DEF Return, Ends
<1>4. CASE Given(k)
  <2>1. tasks[k].op = "group_gpu_create" /\ tasks[k].reply.status = "OK"
    BY <1>4, Zenon DEF Given
  <2>2. tasks[k].reply.rpc = "OK"
    BY <1>1, <2>1 DEF ReplyOf, Service!CreateGpuGroup, Service!Filled
  <2>3. ResultOf("group_gpu_create", tasks[k].reply)
          = [status |-> "OK", out |-> tasks[k].reply.content]
    BY <2>1, <2>2, Zenon DEF ResultOf, Standalone!rdc_group_gpu_create, Standalone!Copied,
         Standalone!Result, Standalone!error_handle
  <2>r. PICK res : res = ResultOf(caller[k[1]].op, tasks[k].reply)
    BY ZenonT(30)
  <2>5. res.status = "OK" /\ res.out = tasks[k].reply.content
    BY <1>1, <2>r, <2>1, <2>3, SMTT(20)
  <2>6. own' = IF caller[k[1]].op = "group_gpu_create" /\ res.status = "OK"
               THEN [own EXCEPT ![k[1]] = @ \cup {res.out}] ELSE own
    BY <1>2, <2>r, Zenon DEF Return
  <2>4. s = "OK" /\ own' = [own EXCEPT ![k[1]] = @ \cup {tasks[k].reply.content}]
    BY <1>1, <1>s, <2>1, <2>r, <2>5, <2>6, ZenonT(20)
  <2> QED
    BY <1>1, <1>2, <1>3, <1>4, <2>4, GiveGroups, ZenonT(20)
<1>5. CASE ~Given(k)
  <2>1. \A g : ~Making(tasks[k], g)
    BY <1>1, <1>5, Zenon DEF Making, Given
  <2>2. UNCHANGED own
    <3>1. CASE tasks[k].op # "group_gpu_create"
      BY <1>1, <1>2, <3>1, Zenon DEF Return
    <3>2. CASE tasks[k].op = "group_gpu_create"
      <4>1. tasks[k].reply.status # "OK"
        BY <1>1, <1>5, <3>2, Zenon DEF Given
      <4>2. ResultOf("group_gpu_create", tasks[k].reply).status # "OK"
        BY <4>1, Zenon DEF ResultOf, Standalone!rdc_group_gpu_create, Standalone!Copied,
             Standalone!Result, Standalone!error_handle
      <4> QED
        BY <1>1, <1>2, <3>2, <4>2, ZenonT(30) DEF Return
    <3> QED
      BY <3>1, <3>2, Zenon
  <2> QED
    BY <1>1, <1>2, <1>3, <2>1, <2>2, EndsGroups, Zenon
<1> QED
  BY <1>4, <1>5, ZenonT(30)

\* The invariant of the groups holds at the start.
LEMMA GroupsInit == ApiInit => GroupsInv
BY CallsInit, Zenon
   DEF ApiInit, GroupInit, GroupsInv, OwnOK, MakerOK, FillOK, GivenOK, AskOK, EmptyMap

\* Every step keeps it.
LEMMA GroupsStep ==
  ASSUME ~SmiMayFail, GroupHoldsAll, OwnGroupsOnly
  PROVE  GroupsInv /\ [ApiNext]_avars => GroupsInv'
<1> SUFFICES ASSUME GroupsInv, [ApiNext]_avars PROVE GroupsInv'
  BY Zenon
<1>0. CallsInv'
  BY CallsStep, Zenon DEF GroupsInv
<1>1. ASSUME NEW c \in Clients, ClientStep(c) PROVE GroupsInv'
  BY <1>0, <1>1, CallGroups, RefusedGroups, BreakGroups, ZenonT(30) DEF ClientStep
<1>2. ASSUME NEW k \in DOMAIN tasks, ServerStep(k) PROVE GroupsInv'
  BY <1>0, <1>2, OtherServed, CreateServed, FillServed, DeliverGroups, Zenon DEF ServerStep
<1>3. CASE UNCHANGED <<gvars, caller, tasks, own, maker>>
  <2>1. OwnOK'
    BY <1>3, Zenon DEF GroupsInv, gvars, OwnOK
  <2>2. MakerOK'
    BY <1>3, Zenon DEF GroupsInv, gvars, MakerOK, Traced
  <2>3. FillOK' /\ GivenOK'
    BY <1>3, ZenonT(30) DEF GroupsInv, gvars, FillOK, GivenOK, Given, Unknown
  <2>4. AskOK'
    BY <1>3 DEF GroupsInv, gvars, AskOK, Given
  <2> QED
    BY <1>0, <2>1, <2>2, <2>3, <2>4, Zenon DEF GroupsInv
<1>4. ASSUME NEW u \in updating, UpdateEnds(u) PROVE GroupsInv'
  BY <1>3, <1>4, Zenon DEF UpdateEnds
<1>5. CASE Restart
  BY <1>0, <1>5, Zenon DEF Restart, GroupsInv, OwnOK, MakerOK, FillOK, GivenOK, AskOK, EmptyMap
<1>6. CASE UNCHANGED avars
  BY <1>3, <1>6, SMTT(20) DEF avars
<1>7. ASSUME NEW k \in DOMAIN tasks, ServeOverrun(k) PROVE GroupsInv'
  BY <1>5, <1>7, Zenon DEF ServeOverrun
<1> QED
  BY <1>1, <1>2, <1>4, <1>5, <1>6, <1>7, ZenonT(30) DEF ApiNext

\* It says that the groups are accounted for.
LEMMA GroupsImply == GroupsInv => GroupsAccountedFor
<1> SUFFICES ASSUME GroupsInv PROVE GroupsAccountedFor
  BY Zenon
<1>1. ASSUME NEW g \in DOMAIN gpu_group_, caller[maker[g].c].n = maker[g].n,
             caller[maker[g].c].at = "idle", caller[maker[g].c].status # "CLIENT_ERROR"
      PROVE  g \in own[maker[g].c]
  BY <1>1, ZenonT(20) DEF GroupsInv, MakerOK, Traced
<1>2. \A c \in Clients : \A g \in own[c] :
        /\ g \in DOMAIN gpu_group_ /\ maker[g].c = c
        /\ maker[g].type = "RDC_GROUP_DEFAULT" => gpu_group_[g] = GPUs
  BY Zenon DEF GroupsInv, OwnOK
<1> QED
  BY <1>1, <1>2, Zenon DEF GroupsAccountedFor

\* As long as the GPU library answers, a group can hold every GPU and clients
\* destroy only groups they were given: whatever the threads of the daemon, broken
\* connections and restarts do in between, a client has the groups it was given to
\* itself, a group of all GPUs is complete when its client learns of it, and a
\* client that was not told of a broken connection knows every group its call left.
THEOREM GroupsStayAccountedFor ==
  ASSUME ~SmiMayFail, GroupHoldsAll, OwnGroupsOnly
  PROVE  ApiSpec => []GroupsAccountedFor
<1>1. GroupsInv /\ [ApiNext]_avars => GroupsInv'
  BY GroupsStep, Zenon
<1> QED
  BY <1>1, GroupsInit, GroupsImply, PTL DEF ApiSpec
=============================================================================
