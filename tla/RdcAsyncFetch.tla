---------------------------- MODULE RdcAsyncFetch ----------------------------
(***************************************************************************)
(* The asynchronous fetch of the PCIe throughput in RdcMetricFetcherImpl.  *)
(* amdsmi_get_gpu_pci_throughput blocks for about a second, so fetch_smi_  *)
(* field answers from async_metrics_ and leaves the reading to a worker    *)
(* thread, which waits on cv_ for tasks.  A critical section of            *)
(* task_mutex_ is one step, with one exception: between the test of the    *)
(* predicate in cv_.wait and the moment the worker is a waiter of cv_, the *)
(* mutex is held and the destructor, which does not take it, can run.      *)
(*                                                                         *)
(* There is one caller at a time: fetches of these fields are made under   *)
(* watch_mutex_, and none is in progress when the fetcher is destroyed.    *)
(***************************************************************************)
EXTENDS Integers, Sequences, Functions

CONSTANTS
  GpuIndexes,
  cache_ttl,                   \* 30 seconds, in ticks
  MaxReadTicks,                \* bound on the duration of one reading
  MaxTasks,                    \* bound on updated_tasks_
  MaxClock                     \* bound on the clock

ASSUME AsyncConstants ==
  /\ cache_ttl \in Nat \ {0}
  /\ MaxReadTicks \in Nat /\ MaxTasks \in Nat \ {0} /\ MaxClock \in Nat

PcieFields == {"TX", "RX"}

\* RdcFieldKey of a PCIe field.
Key == GpuIndexes \X PcieFields

VARIABLES
  async_metrics_,              \* per key: [last_time, status, value]
  updated_tasks_,              \* queue of keys
  task_started_,
  worker,                      \* [pc, key, began] of the updater_ thread
  caller,                      \* "idle", "notify": the thread that fetches
  answer,                      \* what the last fetch_smi_field gave
  dtor,                        \* "no", "notify", "join", "done"
  clock,
  read_at                      \* history: end of the last reading of each GPU

avars == <<async_metrics_, updated_tasks_, task_started_, worker, caller,
           answer, dtor, clock, read_at>>

Never == -1

\* The l_int of a MetricValue that was never assigned, and the status
\* fetch_smi_field starts from.
Unset == -1

Fresh(k) ==
  /\ k \in DOMAIN async_metrics_
  /\ clock < async_metrics_[k].last_time + cache_ttl

MutexFree == worker.pc # "blocking"

WorkerTo(pc) == worker' = [worker EXCEPT !.pc = pc]

AsyncInit ==
  /\ async_metrics_ = [k \in {} |-> 0]
  /\ updated_tasks_ = <<>>
  /\ task_started_ = TRUE
  /\ worker = [pc |-> "loop", key |-> <<>>, began |-> 0]
  /\ caller = "idle"
  /\ answer = [status |-> "NOT_SUPPORTED", value |-> Unset]
  /\ dtor = "no"
  /\ clock = 0
  /\ read_at = [g \in GpuIndexes |-> Never]

\* cv_.notify_all: only a thread that already waits is woken.
NotifyAll == IF worker.pc = "blocked" THEN WorkerTo("test") ELSE UNCHANGED worker

\* async_get_pcie_throughput, up to the end of its critical section: an answer
\* from the cache, or a task for the worker.
async_get_pcie_throughput(k) ==
  /\ caller = "idle" /\ dtor = "no"
  /\ MutexFree
  /\ IF Fresh(k)
     THEN /\ answer' = [status |-> async_metrics_[k].status,
                        value  |-> async_metrics_[k].value]
          /\ UNCHANGED <<updated_tasks_, caller>>
     ELSE /\ Len(updated_tasks_) < MaxTasks
          /\ updated_tasks_' = Append(updated_tasks_, k)
          /\ answer' = [status |-> "NOT_SUPPORTED", value |-> Unset]
          /\ caller' = "notify"
  /\ UNCHANGED <<async_metrics_, task_started_, worker, dtor, clock, read_at>>

\* Mutant: no notification after the push.
CallerNotifyNone ==
  /\ caller = "notify"
  /\ caller' = "idle"
  /\ UNCHANGED <<async_metrics_, updated_tasks_, task_started_, worker, answer,
                 dtor, clock, read_at>>

CallerNotify ==
  /\ caller = "notify"
  /\ caller' = "idle"
  /\ NotifyAll
  /\ UNCHANGED <<async_metrics_, updated_tasks_, task_started_, answer, dtor,
                 clock, read_at>>

\* while (task_started_)
WorkerLoop ==
  /\ worker.pc = "loop"
  /\ WorkerTo(IF task_started_ THEN "test" ELSE "exit")
  /\ UNCHANGED <<async_metrics_, updated_tasks_, task_started_, caller, answer,
                 dtor, clock, read_at>>

\* The predicate of cv_.wait, evaluated under the mutex; when it holds, the
\* task is taken, or the loop continues when only the flag made it hold.
WorkerTest ==
  /\ worker.pc = "test"
  /\ IF updated_tasks_ # <<>>
     THEN /\ worker' = [worker EXCEPT !.pc = "task", !.key = Head(updated_tasks_)]
          /\ updated_tasks_' = Tail(updated_tasks_)
     ELSE /\ WorkerTo(IF task_started_ THEN "blocking" ELSE "loop")
          /\ UNCHANGED updated_tasks_
  /\ UNCHANGED <<async_metrics_, task_started_, caller, answer, dtor, clock,
                 read_at>>

\* The worker becomes a waiter of cv_ and releases the mutex.
WorkerBlock ==
  /\ worker.pc = "blocking"
  /\ WorkerTo("blocked")
  /\ UNCHANGED <<async_metrics_, updated_tasks_, task_started_, caller, answer,
                 dtor, clock, read_at>>

\* Mutant: the second look at the cache is left out.
WorkerRecheckNone ==
  /\ worker.pc = "task"
  /\ worker' = [worker EXCEPT !.pc = "reading", !.began = clock]
  /\ UNCHANGED <<async_metrics_, updated_tasks_, task_started_, caller, answer,
                 dtor, clock, read_at>>

\* get_pcie_throughput: nothing to do when an earlier task filled the cache.
WorkerRecheck ==
  /\ worker.pc = "task"
  /\ worker' = IF Fresh(worker.key)
               THEN [worker EXCEPT !.pc = "loop"]
               ELSE [worker EXCEPT !.pc = "reading", !.began = clock]
  /\ UNCHANGED <<async_metrics_, updated_tasks_, task_started_, caller, answer,
                 dtor, clock, read_at>>

\* amdsmi_get_gpu_pci_throughput returns and curTime is taken; a value is
\* named by the time it was read.
WorkerRead ==
  /\ worker.pc = "reading"
  /\ \E ret \in {"SUCCESS", "NOT_SUPPORTED", "ERROR"} :
       worker' = [pc |-> "store", key |-> worker.key, began |-> worker.began,
                  ret |-> ret, curTime |-> clock]
  /\ read_at' = [read_at EXCEPT ![worker.key[1]] = clock]
  /\ UNCHANGED <<async_metrics_, updated_tasks_, task_started_, caller, answer,
                 dtor, clock>>

\* The value a field keeps when a reading fails.
OldValue(k) == IF k \in DOMAIN async_metrics_ THEN async_metrics_[k].value ELSE Unset

\* Mutant: the value is stored in a new entry only.
StoredFirstOnly(k) ==
  [last_time |-> worker.curTime,
   status    |-> worker.ret,
   value     |-> IF worker.ret = "SUCCESS" /\ OldValue(k) = Unset
                 THEN worker.curTime ELSE OldValue(k)]

\* The entry of the key k after the reading of the worker.
Stored(k) ==
  [last_time |-> worker.curTime,
   status    |-> worker.ret,
   value     |-> IF worker.ret = "SUCCESS" THEN worker.curTime ELSE OldValue(k)]

\* One reading fills the entries of both fields of the GPU.
StoredKeys == {worker.key[1]} \X PcieFields

WorkerStore ==
  /\ worker.pc = "store"
  /\ async_metrics_' = [k \in DOMAIN async_metrics_ \cup StoredKeys |->
                          IF k \in StoredKeys THEN Stored(k) ELSE async_metrics_[k]]
  /\ worker' = [pc |-> "loop", key |-> worker.key, began |-> worker.began]
  /\ UNCHANGED <<updated_tasks_, task_started_, caller, answer, dtor, clock, read_at>>

\* A spurious wake-up, which the predicate form of wait is there for.
WorkerSpurious ==
  /\ worker.pc = "blocked"
  /\ WorkerTo("test")
  /\ UNCHANGED <<async_metrics_, updated_tasks_, task_started_, caller, answer,
                 dtor, clock, read_at>>

\* ~RdcMetricFetcherImpl: the flag, the notification, and the destructor of
\* updater_, which waits for the thread to end.
DtorStop ==
  /\ dtor = "no" /\ caller = "idle"
  /\ task_started_' = FALSE
  /\ dtor' = "notify"
  /\ UNCHANGED <<async_metrics_, updated_tasks_, worker, caller, answer, clock, read_at>>

\* Mutant: the worker is not notified.
DtorNotifyNone ==
  /\ dtor = "notify"
  /\ dtor' = "join"
  /\ UNCHANGED <<async_metrics_, updated_tasks_, task_started_, worker, caller,
                 answer, clock, read_at>>

DtorNotify ==
  /\ dtor = "notify"
  /\ dtor' = "join"
  /\ NotifyAll
  /\ UNCHANGED <<async_metrics_, updated_tasks_, task_started_, caller, answer,
                 clock, read_at>>

DtorJoin ==
  /\ dtor = "join" /\ worker.pc = "exit"
  /\ dtor' = "done"
  /\ UNCHANGED <<async_metrics_, updated_tasks_, task_started_, worker, caller,
                 answer, clock, read_at>>

Tick ==
  /\ clock < MaxClock
  /\ worker.pc \in {"reading", "store"} => clock < worker.began + MaxReadTicks
  /\ clock' = clock + 1
  /\ UNCHANGED <<async_metrics_, updated_tasks_, task_started_, worker, caller,
                 answer, dtor, read_at>>

WorkerStep ==
  \/ WorkerLoop \/ WorkerTest \/ WorkerBlock \/ WorkerRecheck \/ WorkerRead
  \/ WorkerStore

DtorStep == DtorNotify \/ DtorJoin

AsyncNext ==
  \/ \E k \in Key : async_get_pcie_throughput(k)
  \/ CallerNotify
  \/ WorkerStep
  \/ WorkerSpurious
  \/ DtorStop
  \/ DtorStep
  \/ Tick

AsyncSpec == AsyncInit /\ [][AsyncNext]_avars

\* The threads run: the caller goes on to its notification, the worker takes
\* its next step, the destructor, once begun, goes on.  Nothing makes the
\* destructor begin, a fetch be made, or a wake-up be spurious.
FairAsyncSpec ==
  /\ AsyncSpec
  /\ WF_avars(CallerNotify) /\ WF_avars(WorkerStep) /\ WF_avars(DtorStep)

-----------------------------------------------------------------------------
(* Properties *)

\* A successful answer of fetch_smi_field carries a value that was read, by a
\* reading that ended less than cache_ttl before the answer: never the
\* uninitialized l_int of a new MetricValue, nor the value of a reading before
\* one that failed.
AnswerIsRecent ==
  [][answer' # answer /\ answer'.status = "SUCCESS" =>
       answer'.value # Unset /\ clock < answer'.value + cache_ttl]_avars

\* The throughput of a GPU is read at most once per cache_ttl, however many
\* tasks for its two fields were queued while the last reading was running.
ReadingsSpaced ==
  [][\A g \in GpuIndexes :
       worker.pc = "task" /\ worker'.pc = "reading" /\ worker.key[1] = g =>
         read_at[g] = Never \/ clock >= read_at[g] + cache_ttl]_avars

\* A task is not forgotten: a key in the queue gets an entry in the cache,
\* unless the fetcher is destroyed first.
TaskServed ==
  \A k \in Key :
    k \in Range(updated_tasks_) ~> (k \in DOMAIN async_metrics_ \/ ~task_started_)

\* "Notify the async task to stop" (RdcMetricFetcherImpl.cc:83): the destructor
\* comes to its end, whatever the worker is doing, as long as it is not between
\* its test of the predicate and its wait, where the notification is lost.
DestructorReturns ==
  (dtor = "notify" /\ worker.pc # "blocking") ~> (dtor = "done")
=============================================================================
