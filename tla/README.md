# A TLA+ model of the ROCm Data Center tool (RDC)

RDC collects telemetry of AMD GPUs.  A library (`rdc_libs/rdc`) keeps groups of
GPUs and of fields, watches fields for its clients, samples them periodically
into a cache, keeps statistics of jobs, and runs diagnostics.  It runs embedded
in a program or inside the daemon `rdcd`, where gRPC handlers call it from many
threads, for clients such as the command line tool `rdci`.  This directory holds
a specification of these parts in TLA+, what TLC checks about it on small
instances, and what TLAPS proves about it for all values of the constants.

## 1. Inventory

| Part | State | Operations that change it | What makes it hard |
|---|---|---|---|
| Group registry (`RdcGroupSettingsImpl`) | groups, field groups, two id counters | create, destroy, add | groups change and vanish while others use them |
| Watch table (`RdcWatchTableImpl`) | `watch_table_`, `fields_to_watch_`, `last_cleanup_time_` | watch, unwatch, update_all, notification update, clean_up | settings of several watches merged per field; times read before the mutex; groups looked up again at unwatch |
| Sample cache (`RdcCacheManagerImpl`) | `cache_samples_` | update, evict; read since a time | integer widths, equal time stamps, eviction during paging |
| Job table (`RdcWatchTableImpl`, `RdcCacheManagerImpl`) | `job_watch_table_`, `cache_jobs_` | start, stop, remove, remove_all | calls made of several critical sections; partial failure |
| Job statistics values (`RdcCacheManagerImpl`) | summaries, energy, ECC | start, update_job_stats, stop, remove | gauges read before any mutex, double stop, unreadable counters, running sums |
| Event notification (`RdcNotificationImpl`) | recorded masks; the driver's masks | set_listen_events, stop_listening, listen | driver calls that fail half way; events applied later |
| Metric fetch (`RdcMetricFetcherImpl`) | counters `smi_data_`; PCIe cache, task queue, worker | acquire, delete; async get, worker, destructor | a condition variable, a slow reading, shutdown |
| Telemetry modules (`RdcTelemetryModule`, `RdcSmiLib`, `RdcRocpLib`, `rdc_rocp`) | dispatch table, averaging buffers | value_get, watch, unwatch | batches of 16, values left from an earlier batch, a buffer at its limit |
| Embedded handler, API server and client | the future `updater_`; calls under way | every call of `rdc.h` | a group visible before it is filled, a future that blocks, lost replies, restarts |
| Daemon (`rdc_server_main.cc`), updater, library loader | lock files, server object, signal flag, capabilities, loaded library | start, signal, shut down | signals during start-up, two daemons at once, what is deleted under whom |
| Diagnostics (`RdcDiagnosticModule`, `RdcSmiDiagnosticImpl`, `rdc_rocr`) | module, HSA reference count, `kernArgs` | run, test_case_run | a module made without a lock, a global and the memory of a GPU shared by threads, results that replace each other |
| Command line tool (`rdci`) | groups and watches it made; what the daemon then listens for | six subsystems | clean-up after any failure, other users in between, Ctrl-C |

The parts interact around the watch table.  A watch reads the group registry,
sets event masks, merges its settings into `fields_to_watch_` and acquires
counters.  An update fetches the fields that are due, stamps them, appends
samples to the cache, feeds the jobs and evicts.  A job is a watch of the system
field group plus an entry in two more tables.  Around the library, the daemon
owns the one handle, the API service calls it from the threads of gRPC, and the
client handler turns the replies back into the results a local caller would get.

`PROJECT.json` lists the hazards found in this survey with their lines and with
the properties that cover them.

## 2. Modules

| Module | Models |
|---|---|
| `RdcCommon` | keys, `std::map` as a function |
| `RdcGroupSettings` | the group registry: one action per operation |
| `RdcSampleCache` | the cache of one field: eviction, insertion and reading as operators |
| `RdcNotification` | event masks as recorded and as the driver has them |
| `RdcWatchTable` | composes the four above with the watch table and the counters |
| `RdcJobs` | extends the watch table with the job calls |
| `RdcJobStats` | the numbers of one job: what `rdc_job_get_stats` answers and what it is made of |
| `RdcHistoryReader` | a client that pages through a field's history while it is sampled and evicted |
| `RdcFieldFeed` | the abstract feed that the reader implements |
| `RdcAsyncFetch` | the worker thread of the PCIe throughput |
| `RdcTelemetry` | one request through `RdcTelemetryModule`: dispatch, bulk fetch, batches, and the averages of `rdc_rocp` |
| `RdcEmbeddedHandler` | every call of the library's handle, with its checks and possible answers |
| `RdcApiService`, `RdcStandaloneHandler` | what the server puts into a reply and what the client makes of it |
| `RdcApi` | composes these three: clients, calls under way, broken connections, restarts, the asynchronous update |
| `RdcDaemon` | processes of `rdcd`: command line, lock, capabilities, start, signals, shut-down |
| `RdcSmiDiagnostic` | the three tests made of questions to `amd_smi_lib`, as operators |
| `RdcRocrTests` | what the search of the queue test computes |
| `RdcDiagnostics` | composes the tests: several callers, the module made on first use, the HSA runtime, the memory of the GPUs, the global `kernArgs` |
| `RdciOptions` | `parse_cmd_opts` of the six subsystems |
| `RdcRdci` | users that run `rdci` commands, one step per API call, on the group registry, with what the daemon watches and listens for |
| `MCRdcWatchTable`, `MCRdcJobs`, `MCRdcJobStats`, `MCRdcApi`, `MCRdcDaemon`, `MCRdcRdci`, `MCRdcDiagnostics` | instances for TLC |
| `RdcWatchTableProofs` | theorems about the sample cache, the watch table, its settings and the history reader |
| `RdcJobsProofs`, `RdcJobStatsProofs` | theorems about the job calls and about the numbers of a job |
| `RdcServerProofs` | theorems about the telemetry modules, the asynchronous fetch and the daemon |
| `RdcApiProofs`, `RdcApiAnswersProofs` | theorems about the calls and the groups, and about the answers, of the API |
| `RdcDiagnosticsProofs`, `RdcRdciProofs` | theorems about the diagnostics and the command line tool |

Variables carry the names of the C++ members; `std::map` is a function whose
DOMAIN is the set of keys.  Operators named `Mutant` in their comment are
variants of a definition that a bug would produce; they are used only to show
that a property notices it.

**Atomicity.**  An operation that holds one mutex throughout is one action.
Everything the code reads before the mutex is a parameter that may be old:
`now` in `rdc_field_update_all` and `rdc_field_unwatch` (at most `MaxLag` ticks),
and the events in `listened`, which one step returns from `listen()` and another
caches.  A job call is one step per critical section; the program counter of a
client is `call[c]`.  In `RdcJobStats` a call first reads the gauges, one step per
GPU, and then enters the cache.  In `RdcAsyncFetch` the worker's test of the
predicate and its becoming a waiter are two steps, because the destructor does not
take the mutex that covers them.  In `RdcTelemetry` a request is one step per field
and per batch; only one runs at a time, under `watch_mutex_`.  In `RdcApi` a call is
sent, served and answered in separate steps; creating a group of all GPUs is one
step per GPU, and assigning to `updater_` a step of its own.  In `RdcDaemon` the
main thread, the signal thread and the updater's loops step on their own.  In
`RdcRdci` every API call is a step, and in `RdcDiagnostics` every use of the shared
module, of the runtime, of a GPU's memory and of `kernArgs`.

**Data.**  A sample is its time stamp.  A fetch is the set of fields that
succeeded and its duration.  A group is the set of its members.  A PCIe value is
named by the time of its reading.  In `RdcJobs` a job's statistics are whether it
ended, its GPUs and the keys it was given samples of; in `RdcJobStats` they are
numbers, with doubles as exact multiples of `1 / Scale`.  A reply is the fields
that are copied, and `Junk` stands for memory nobody wrote.  An option of `rdci`
is its letter and the values of its argument.  A machine, for the diagnostics, is
what its GPUs and the driver answer.

**Abstractions.**
- Lookups of groups within one handler see one state of the registry; in
  `rdc_job_start_stats` the second lookup and the insertion of the statistics
  are one step.
- One fetch has one time stamp; a clean-up reads the clock once.
- A call that is refused before it changes anything is a stuttering step.
- `handle_fields` sees the job table of the start of the update; it runs under
  `watch_mutex_`, which every change of that table takes.
- The telemetry module exists; the clock never goes back.
- Erasing more samples than a vector has is undefined; the model leaves an empty
  vector.
- In `RdcJobs` the only watches are those of the jobs.
- `RdcTelemetry` is `rdc_field_update_all`'s fetch in detail; it is checked on its
  own and not composed with the watch table, where a fetch is a set of outcomes.
  A value is the key it was read from, a profiler reading its number.  The fields
  of a request are taken in any order, and all GPUs offer the same profiler
  metrics.  The callback never fails on a batch, so the early returns after it
  are not taken.
- `RdcJobStats` has one job and one field, `RDC_FI_POWER_USAGE`, which alone has
  the energy; the other fields differ in what they are divided by.
- In `RdcEmbeddedHandler` the watch table, the job tables, the cache and the
  diagnostics, which are modules of their own, answer with any status and value
  they may have.
- `RdcDaemon` uses of gRPC that `Shutdown` takes no new calls and returns when
  those under way have.  `Restart` in `RdcApi` is a daemon that ends in any way
  and starts again, with empty tables.  More field ids than
  `RDC_MAX_FIELD_IDS_PER_FIELD_GROUP` are copied past the end of an array of
  `CreateFieldGroup` (`rdc_api_service.cc:250`) before the library counts them,
  which is undefined: in the model the call goes on and is refused, or the daemon
  dies (`ServeOverrun`).  There are no more GPUs than the 16 entries of
  `rdc_job_info_t`.
- In `RdcRdci` of a watch its pair is kept, with whether it is watching or has
  ended, and of the events the GPUs listened on; the driver calls do not fail (they
  do in `RdcNotification`).  The values of events have no effect: they are filed
  under the bdf id and asked for by index.
- In `RdcDiagnostics` the state of a machine does not change during a call.  The
  lazily made module is a `shared_ptr` without a lock: a second assignment while
  another thread assigns or copies may end the process (`raced`, `dead`).  A store
  to freed memory is lost; a kernel that is sent to memory nobody allocated ends
  the process.  While the allocation test of one call holds memory of a GPU, an
  allocation of another may be refused.

## 3. What TLC checks

Times are in ticks.  The code's tick is a millisecond; here `TicksPerSecond` is 2,
so that "more than a second ago" takes three ticks and not a thousand.

| Run | Shows | Bounds |
|---|---|---|
| `WatchTable` | `NoOrphanSamples`, `HandlesWatched`, `WatchHonoured`, `RetentionHonoured`: clients with different settings, groups destroyed while watched | 1 GPU, 1 counter field, 2 groups, a slow watch and a frequent one, clock 4 to 8, 2 samples per key, times one tick old |
| `WatchDiscipline` | `FieldsDeducible`, `NoStrayListening`, `NewGroupUnwatched` from the initial state, for clients that leave a watched group alone | 1 GPU, a regular field and 2 events in overlapping field groups, 1 group and 3 field groups made, filled and destroyed; stopping does not fail; no passing of time |
| `Jobs` | `RunningJobHasStats`, `RunningJobWatched`, `RemovedJobHasNoStats`, `EveryRunningJobSampled` | 2 clients, a job, a group and a GPU each; client 2 may also remove all jobs; groups destroyed at any time, every fetch due; the clock stands still |
| `JobStats` | `StatsOfThisRun`, `WelfordExact`, `EnergyNeverLess`, `EccOfThisRun`: the numbers are of this run, also after a restart of the same id | 2 GPUs, one with an ECC counter that moves and may be unreadable; 2 clients with 3 calls of start, stop and get in all, stale readings included; 3 samples of a GPU, 4 in all, of 2 values, where a call counts as two of 6 samples; 3 ticks, 2 errors; the clients are symmetric |
| `Reader` | `NothingSkipped`, `ReaderFinishes`, and that the loop implements `RdcFieldFeed` (`FeedImplemented`) | 7 ticks, distinct time stamps |
| `AsyncFetch` | `AnswerIsRecent`, `ReadingsSpaced`, `TaskServed`, `DestructorReturns` | 1 GPU with its 2 fields, queue of 3, cache period 3, readings of up to 2 ticks, 8 ticks |
| `Telemetry` | `TelemetryTypeOK`, `ReportedOnce`, `AverageIsRecent` | 1 GPU, 4 amd-smi fields (2 in bulk, 1 of them power), 1 profiler field, batches of 2, an averaging buffer of 3, 7 readings |
| `Api` | `RemoteAnswer`, `GroupsAccountedFor`, `CallReturns`: a client is told what the library answered, groups have a known owner, calls return | 2 clients, 2 calls of one that changes groups (creating them with all GPUs) and 1 of any operation by the other (with an unknown field, and more fields than a group holds, among the arguments), 2 GPUs, limits of 2 groups, 1 restart, 3 updates; any connection may break at any time |
| `Daemon` | `OneDaemon`, `InUseIsThere`, `NoMoreThanAllowed`, `SignalEnds`: the locks work, nothing is deleted under a call or a loop, authentication and capabilities are as asked for, a signal ends the daemon | 2 daemons, each as root or not, 5 command lines of one and the empty one of the other, 2 calls at a time, a signal at any time |
| `Rdci` | `DmonLeavesNothing`, `NothingStaysWatched`, `OptionsConsistent`, `InterruptEndsRegular`: clean-up takes what dmon made and no more, the daemon watches and listens for nobody who has gone, options fit together | 2 users, 1 command of one (16 lines) and 2 of the other (7 lines), 2 GPUs, 2 groups, 3 field groups; all lines of 3 options for `OptionsConsistent` |
| `Diag` | `TestsRight`, `ResponseTruthful`, `AnswersSet`, `DiagEnds`: the tests compute what they are for, and the response says what they found | 2 callers with 4 and 3 requests, one of them for a level without tests, 2 GPUs, 7 machines that differ in what fails |
| `TelemetryLost` | the disagreement below | as `Telemetry`, and GPUs may not be found |

One GPU and two watches are enough for the merge, since the tables treat keys
independently and a merge is pairwise; the proofs below lift this bound for the
invariants.  Four ticks pass between the first watch and the end, which lets a
watch end, its retention run out and its entry be erased.  Two GPUs appear where
a property relates GPUs (jobs, statistics, group creation, diagnostics).  The
ticks of `AsyncFetch` let three cache periods begin, so an entry is filled,
expires and is filled again with every outcome of the reading.  In `Telemetry`
four fields fill two batches, so requests end below, on and above the boundary of
a batch, and seven readings go round the buffer twice, with an unwatch at every
position of the index.  Three samples are the first from which the energy can go
wrong.  Two daemons are all that the lock files can tell apart at a time; the
proof lifts this bound.  One call of every operation is enough for `RemoteAnswer`,
which compares one reply with one answer; the first client's calls provide the
states they are made in, the limit of two groups included.

The MC modules start `WatchTable` and `Jobs` in the state after groups were
created and filled, which the actions of `RdcGroupSettings` reach; the other runs
start at their initial state.  Deadlock is checked in the two runs of
`RdcTelemetry` only: elsewhere a clock, an id counter or the number of calls is
bounded, or a process ends, and every instance stops.

**Fairness.**  All of it is weak, with one exception, and only of steps a thread
that can go on will take; nothing makes a client call, a fetch happen, a
connection break or a signal come.
- `Reader`: a client in its loop goes on calling.
- `AsyncFetch`: the caller reaches its notification, the worker takes its next step
  when it can, and a destructor that began goes on.  No spurious wake-up is relied
  on.
- `Api`: a thread of the server goes on with its call, a client notices that its
  connection or its daemon is gone, and an update in the background ends.
- `Daemon`: the main thread, the signal thread and the loops of the updater go on.
  Strong fairness is assumed of a call's return: it leaves and enters the scope of
  its capability, so it is not enabled all the time.
- `Rdci`: a command under way takes its next step.
- `Diag`: a thread that serves a call goes on, and the signal the test waits for
  comes.  The code waits for it without a limit of time
  (`MemoryAccess.cc:265`), so a GPU that never answers is outside `DiagEnds`.

### Disagreement with the documentation

`TelemetryLost` is a run in which TLC finds a quoted statement violated.
`RdcWatchTableImpl.cc:411` says "Only cache valid results".  When the GPU of a
field is not found, its slot is not written, and it is handed over with what an
earlier batch, or the stack, left in it (`GoodIsOwn`).

### Why the passing runs have the limits they have

The following were seen with TLC on these modules with other constants or with
the statement named; they are the reason for a restriction in a run above.

- `RetentionHonoured` is stated for `max_keep_samples` from 1 to what an `int`
  holds.  With 0, which `rdc.h:975` calls "no limit", every sample is erased at the
  next clean-up; for `UINT32_MAX` the difference at `RdcCacheManagerImpl.cc:92`
  becomes positive.
- `FieldsDeducible` needs `ChangeWatchedGroups = FALSE`.  When a group is
  destroyed under its watch, `rdc_field_unwatch` ends the entry and then returns
  early (`RdcWatchTableImpl.cc:289`), and the field is fetched for ever.
- `NoStrayListening` needs `StopMayFail = FALSE`.  `stop_listening` clears the
  driver's mask before a call that may fail and the record after it, so the two
  drift apart; the next watch of the same events is then skipped as unchanged
  (`RdcNotificationImpl.cc:89`).
- `RunningJobHasStats` leaves out a start that overlaps `rdc_job_remove_all`
  (`beside`): a job started between the snapshot and the final clear loses its
  statistics or its registration (`RdcWatchTableImpl.cc:150`).
- `RunningJobWatched` needs a group per job.  A second job on a watched group
  fails with `RDC_ST_CONFLICT` but stays registered, and stopping it ends the
  watch of the first.
- `EveryRunningJobSampled` needs disjoint GPUs: `is_job_watch_field` finds the
  first job only.
- `ReaderFinishes` needs `MinGap = 1`.  Two samples in one tick make the next
  time stamp equal to the present one, and the first is read again until it is
  evicted.
- `DestructorReturns` leaves out a destructor that notifies between the worker's
  test and its wait.  The flag is set without the mutex
  (`RdcMetricFetcherImpl.cc:83`), the notification is lost, and the destructor
  never returns.
- `ReportedOnce` needs `HandleMayFail = FALSE`: a slot that `fetch_smi_field` left
  unwritten is handed over under the field of an earlier batch, and the field
  asked for is not reported.
- `GroupsAccountedFor` needs `SmiMayFail = FALSE`: when the devices cannot be
  listed, the group that was just made stays, and its client is told of a failure
  (`RdcEmbeddedHandler.cc:235`).

What the code does in some other places narrows a property or an action; the
model follows the code there, and the comment of the definition says so.

- Unwatching the events of one client stops all listening on the GPU
  (`RdcWatchTableImpl.cc:329`).  An event is cached under the bdf id of its device
  (`RdcNotificationImpl.cc:163`) and not under the GPU index that `rdc.h:1008` asks
  readers for.
- A removed job stays registered when its group was destroyed first
  (`RdcWatchTableImpl.cc:114`), so its id cannot be reused as `rdc.h:705` says.
- A caller that got the mutex late can clean up a second time within a second:
  `now - last_cleanup_time_` wraps (`RdcWatchTableImpl.cc:457`).
- Each sample adds the energy since the first one, so from the third on the sum
  is too large (`RdcCacheManagerImpl.cc:224`); `EnergyNeverLess` says what holds.
- The handler reads the ECC counters before it takes any mutex
  (`RdcEmbeddedHandler.cc:94`, `145`, `153`).  A get or a stop that read them before a
  start of the same id by another client subtracts a newer reading from an older
  one, and the unsigned difference wraps.  A second stop subtracts the counter of
  the start again, and a stop without gauges, as by `rdc_job_remove`, leaves that
  counter as the answer.  `EccOfThisRun` is about calls that began after the start,
  and about a single stop that read the counter; TLC finds the wrapped number when
  the first condition is dropped, and, with a fourth call, when the second is.
- The client refuses a list of exactly `RDC_MAX_NUM_GROUPS` groups
  (`RdcStandaloneHandler.cc:397`); `RemoteAnswer` names this exception.  The other
  one it names: the library fills the statistics of a job by the index of the GPU
  (`RdcCacheManagerImpl.cc:309`), and the service sends the first `num_gpus` entries
  (`rdc_api_service.cc:454`), so that the entry of a job on GPU 1 alone is lost and
  the client reads one that nobody filled (`EntriesLost`).
- A daemon of root and one of a user that start together may both run.  A signal
  before the server exists ends the daemon by a crash, and `main` may return before
  the signal thread has deleted the services (`rdc_server_main.cc:294`, `677`);
  `SignalEnds` counts both as an end.
- A dmon that shows events only does not notice Ctrl-C
  (`RdciDmonSubSystem.cc:542`).  A temporary group whose GPUs could not all be added
  is not noted and stays (line 274).  Of two dmons on one pair of groups, the first
  that ends stops the watch of the other, and one that ends takes the events of its
  GPUs from every other.  If a group is deleted while any pair with it is watched,
  `rdc_field_unwatch` returns early (`RdcWatchTableImpl.cc:289`, `307`), for this and for
  other pairs, and the GPUs of an event field stay listened on; `NothingStaysWatched`
  keeps these in `lost` and says that nothing else is left.
- The emergency limit is read but the temperature compared with the critical one
  (`RdcSmiDiagnosticImpl.cc:368`), and the critical limits of a voltage are asked of
  a null handle (489, 515).  A later SKIP replaces a FAIL.  Two memory tests at a
  time share `kernArgs` (`MemoryAccess.cc:101`), and an allocation test that holds
  the memory of a GPU (`MemoryTest.cc:99`) lets another's fail on a sound GPU, which
  is why `ResponseTruthful` is about calls whose memory tests met no other.  Two
  first calls at once both assign the module (`RdcModuleMgrImpl.cc:102`).  A search
  of more than one pass starts at index 0 again (`ComputeQueueTest.cc:492`), and the
  queue test does not look at what the search found.

## 4. What TLAPS proves

For every value of the constants that satisfies the named assumptions (any number
of GPUs, fields, groups, watches, samples, calls, clients, daemons and ticks).
Every safety invariant and action property that a passing run checks is proved.

- **Watch table** (`RdcWatchTableProofs`): `Spec => []IInv`, and from it
  `TypeOK`, `NoOrphanSamples`, `HandlesWatched`, `WatchHonoured` and the action
  property `NewGroupUnwatched`.  `IInv` adds two facts that make these inductive.
  `Stamps`: no sample is newer than the last stamp of its field.  It is what makes
  the erasure of an ended field safe: when the stamp has expired, so has every
  sample, and `EvictExpired` says the eviction just before left none.
  `Granted`: the keys granted to a running watch are covered by its groups as long
  as the groups exist.  It is what keeps another client's unwatch from turning off
  a field: the field's period is then still among `FreqsOf`.
- **Sample cache** (first part of `RdcWatchTableProofs`): `evict_cache` returns a tail of its
  argument, and the empty sequence when all of it has expired, with the conversion
  to `int` included.  The least-element step uses well-founded minimality of `<`
  on the naturals.
- **History reader** (last part of `RdcWatchTableProofs`): for samples in distinct ticks,
  `ReadOnceInOrder` and `NothingSkipped`.  The invariant says that the cache is
  strictly increasing and that the reader's time stamp lies beyond all it was
  given and not beyond any cached sample it was not given.  From it follows the
  refinement `ReaderImplementsFeed`: the reader, the sampling and the eviction
  implement `RdcFieldFeed`, a feed that delivers in order and may lose only its
  oldest samples.  What is waiting in the feed is what the cache holds from the
  reader's time stamp on; each step maps to a step of the feed or a stutter.
- **Telemetry** (`RdcServerProofs`): `TelemetryTypeOK` for batches of any size,
  `AverageIsRecent` for a buffer of any length, and, when GPUs are always found
  (`HandleMayFail = FALSE`), `ReportedOnce` for any request.  `Written` says that
  only written slots are below `bulk_count`.  `Accounted` says where each key of
  the request is: reported, in the array, on the list of its module, or
  unsupported, and never in two of these; that makes `ReportedOnce` inductive.
  `Ring` describes the buffer: in order of reading until it is full, and from then
  on in order starting after `index`, the place of the oldest reading.
- **Settings of the watch table** (`RdcWatchTableProofs`), on top of `IInv`:
  `FieldsDeducible` and, if stopping does not fail, `NoStrayListening`, for clients
  that leave a watched group alone (`~ChangeWatchedGroups`, `~StopMayFail`; section 3
  says what happens otherwise).  The strengthening is `Exact`: what a running watch
  was granted is what its groups hold now, so an unwatch that looks the groups up
  again finds the same keys.  The action property `RetentionHonoured` holds for
  all clients, if every `max_keep_samples`, and the cache of a field, is within an
  `int`.  `Sized` carries that bound to the merged settings; the proof then compares
  the number that `evict_cache` erases with the surplus, index by index.
- **Jobs** (`RdcJobsProofs`): the job calls, one critical section at a time, keep
  `IInv` (`JobsKeepTheWatchTable`).  `RunningJobHasStats` and `RemovedJobHasNoStats`
  hold for any number of clients that do not share a job id (`OneClientEach`),
  `RunningJobWatched` if jobs do not share a group either (`OneGroupEach`), and
  `EveryRunningJobSampled` as long as no two registered jobs have a field in common
  (`JobsApart`).  The invariant `JInv` follows a start through its steps:
  `StartInStep` says what each step finds of the ones before, unless a removal
  of all jobs is under way, and `CallOwn` that a job does not run while a call of
  its client for it is under way.  Without these two, a step of a start could
  meet tables that another call has changed.
- **Numbers of a job** (`RdcJobStatsProofs`): `WelfordExact`, `EnergyNeverLess`,
  `EccOfThisRun` and `StatsOfThisRun` for any list of GPUs, any values and any number
  of samples, starts and stops.  `JobStatsInv` says of each GPU what its record is in
  terms of the samples since the start: count times mean, and count times the sum of
  squares of Welford's recurrence, are what the definition gives (`MeansOK`); the
  extremes are values that occurred (`ExtremesOK`); the energy is at least the sum
  over the samples (`EnergyOK`); and the ECC counter is the reading of the start, or
  the difference once one stop has read it (`EccOK`).  `CallsInv` adds that a call which
  began to read after the start has, for each GPU it has read, no smaller a number
  than the start had, and no larger a one than the counter shows now: this is what
  keeps the unsigned differences from wrapping.  Doubles are exact multiples of
  `1 / Scale` where the divisions of the recurrence come out even, which is what
  `JobStatsConstants` asks of `Scale`; rounding is outside the model.  Sums are
  recursive functions.  The induction over them is done with a least counterexample:
  the set of places where two sums differ, if it is not empty, has a least element
  (`LeastNatural`), and there the recurrence gives a contradiction.  The averages need
  in addition that a mean of the GPUs lies between the extremes of the job.
- **Asynchronous fetch** (`RdcServerProofs`): the action properties `AnswerIsRecent`
  and `ReadingsSpaced` for any GPUs, queue, cache period and length of a reading.
  `AsyncInv` says that a successful entry of `async_metrics_` holds the value of the
  reading that ended at its `last_time` (`EntriesOK`), and that the last reading of a
  GPU is in both its entries or about to be stored by the worker (`ReadingKept`).
  Without the second a task that waited in the queue could have its GPU read again
  although its other field was just stored.
- **API** (`RdcApiProofs`, `RdcApiAnswersProofs`): for any number of clients, calls,
  broken connections and restarts.
  - `CallsInv` ties every task in the daemon to the call it is of: a call that waits
    for it, or one whose client was told that it failed.
  - `RemoteAnswer`, for every operation of the API and whether amd-smi answers or not.
    The client copies lists into arrays of fixed sizes and refuses those that do not
    fit.  Its two exceptions are part of the statement: the list of as many groups as
    there may be, and the job whose GPUs are not the first ones, which is told of
    its summary and of the entries that were sent.
    That the list of groups is the only one it can refuse follows from `LimitsOK`,
    that the registry keeps its own limits, and from `ApiConstants`, that there are
    no more GPUs and job fields than their arrays have places.
  - `GroupsAccountedFor`, under the three conditions of the theorem.  `SmiMayFail` is
    false, for the reason given in section 3.  A group has room for every GPU
    (`GroupHoldsAll`): a group holds 64 (`RDC_GROUP_MAX_ENTITIES`), a machine up to 128
    (`RDC_MAX_NUM_DEVICES`), and on one with more than 64 the filling of a group of all
    GPUs stops half way, after the group was made.  And clients destroy only groups
    they were given (`OwnGroupsOnly`).  `GroupsInv` follows a group from the call that
    makes it to the client that learns of it: while it is filled it has exactly the
    GPUs before the next one, and nobody knows it (`FillOK`); in a reply it is complete
    (`GivenOK`); a request under way to add or to destroy names a group that no other
    task is about to hand out (`AskOK`); and every group can be traced to a client that
    knows it, waits for it, or was told of an error (`MakerOK`).
- **Diagnostics** (`RdcDiagnosticsProofs`): `AnswersSet` and `ResponseTruthful` for any
  number of calls at a time, of GPUs and of tests, and on any machine.  `DiagInv` says
  that the results so far are those of the machine, a skip over an earlier failure
  included, and which of the GPUs it has been through the status of the test under
  way is of (`CallOK`); that the references to the HSA runtime
  are exactly those of the calls inside a test, so that no call shuts it down under
  another; and that a memory test which met no other finds its own arguments and
  buffers behind the global `kernArgs` (`MemoryOK`).  The proof brought out that a call
  for a level below `RDC_DIAG_LVL_SHORT` has no test and is done at once; the model had
  left that case out, and the run now includes it.
  `TestsRight` follows from theorems about the tests for inputs of any size.
  `SearchIsRight`: the search of `ComputeQueueTest` finds a value exactly when the
  sorted input holds it, for every length that takes one pass, the 512 elements in 64
  divisions of the program among them (`SearchAsRun`), and whichever work item writes
  last.  The passes after the first change nothing (`OnePass`), and a segment that is
  hit holds the value if the input does (`BoundsHold`).  `BusyGpusAreFound`: the
  process test, for any group and any processes on no more GPUs than
  `RDC_MAX_NUM_DEVICES`.  `LevelsAreRight`: the levels of temperatures and voltages,
  for readings of any size.
- **Daemon** (`RdcServerProofs`): for any number of daemons.
  - `OneDaemon`.  `DInv` says that a lock is held by at most one daemon, of the
    lock's user and past asking for it (`HoldersPast`, `OneHolder`); that a daemon
    which ran when another one began, and so is in its `ahead`, never asks for a
    lock again (`AheadPast`); and that a daemon which has looked at a lock file
    knows that none ahead of it holds that lock (`Looked`).
  - `InUseIsThere` and `NoMoreThanAllowed`.  `InStep` ties the place of the main
    thread to that of the signal thread and to the server: the main thread is
    behind `Wait` only when the server is down, and no call is under way then.
    `InPlace` says that each object was made before what uses it, and `Allowed`
    that the capability was dropped before the second thread was started.
- **Command line tool** (`RdcRdciProofs`): `DmonLeavesNothing` and
  `NothingStaysWatched` for any number of users, commands, GPUs and groups.  `RInv`
  says what a process has made and noted so far (`ProcOK`), that what it has cleaned
  up is gone (`Linked`), and that no two processes made the same group (`Apart`),
  because an id is never handed out twice.  `NothingStaysWatched` is inductive on
  top of it: the steps of the groups can only add GPUs to what a watched pair is
  about or move them to `lost`, and an unwatch that is carried out takes the GPUs of
  its pair off the list.  The attempt to prove it corrected the model's notion of
  being alone on a pair of groups.  It had been "the pair is not watched when dmon
  begins".  With three users that is not enough: of two dmons on one pair, the first
  that ends stops the watch, a third begins and finds the pair unwatched, and the
  second then stops the watch of the third.  `Alone` therefore also asks that no
  other dmon still monitors the pair.  Two users, as in the run, cannot show this.
  `OptionsConsistent` follows from two theorems about `parse_cmd_opts` for command
  lines of any length, `DmonOptionsFit` and `CreateOptionsFit`.  The loop over the
  options is a recursive function; that it exists, and what holds after each of its
  turns, is again shown with a least counterexample.

The theorems assume, besides what is named above, only the ASSUMEs of the modules
they are about, which TLC evaluates in the runs.

Only model-checked: all liveness (`ReaderFinishes`, `TaskServed`,
`DestructorReturns`, `CallReturns`, `SignalEnds`, `InterruptEndsRegular`,
`DiagEnds`), which is out of the prover's reach.

## 5. Not modelled

- The table from field ids to amd-smi calls and units, one call per field and no
  state.
- Printing and JSON in `rdci`, logging and the performance timer: output only.
- The Python bindings, which pass calls on, and the exporters built on them.
- The module for the RVS validation suite: `RdcModuleMgrImpl` never inserts it.
- The GPU code of the diagnostic tests, except the search kernel.
- `VerifyConnection` of the API, a ping.
- A program that starts an embedded and a standalone handle: `RdcLibraryLoader`
  would unload one library under the other.  The daemon and `rdci` start one each.
- A wall clock that is set back, and a driver call that never returns.
