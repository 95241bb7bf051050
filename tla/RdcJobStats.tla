---------------------------- MODULE RdcJobStats -----------------------------
(***************************************************************************)
(* What the statistics of a job hold: RdcJobStatsCacheEntry of             *)
(* RdcCacheManagerImpl, from rdc_job_start_stats over the samples of one   *)
(* field, RDC_FI_POWER_USAGE, to rdc_job_stop_stats and rdc_job_get_stats. *)
(* Each of these holds cache_mutex_ throughout.  RdcJobs has the life of   *)
(* the jobs; here there is one.                                            *)
(*                                                                         *)
(* The handler reads the ECC counters in get_gpu_gauges, GPU by GPU and    *)
(* before it takes any mutex, so a call may come to the cache with         *)
(* readings from before another call's start.                              *)
(*                                                                         *)
(* The doubles old_m and old_s are exact: a mean is a multiple of          *)
(* 1 / Scale, a square sum of 1 / Scale^2; the square root and the sum of  *)
(* the deviations over the GPUs are left out.  energy_consumed is integral *)
(* and so truncated at every sample.                                       *)
(***************************************************************************)
EXTENDS Integers, Sequences, FiniteSetsExt

CONSTANTS
  Clients,                     \* the threads that serve calls
  GpuList,                     \* the GPUs of the job's group, as gpu_stats has them
  FaultyGpus,                  \* those whose ECC counter moves, or is unreadable
  Values,                      \* readings of the field
  Adjuster,                    \* what set_summary divides by
  EnergyUnit,                  \* what a product of time and power is divided by
  Scale,
  UINT64_MAX,                  \* the largest value
  MaxJobSamples,               \* bound: samples of a GPU
  MaxAllSamples,               \* bound: samples of all GPUs
  MaxTicks,                    \* bound on the clock
  MaxErrors,                   \* bound on the ECC counters
  MaxCalls,                    \* bound on the calls of start, stop and get
  CallWork, MaxWork            \* bound on the calls, CallWork each, and samples
                               \* together

JobGpus == Range(GpuList)

\* A job of a group without a GPU is refused.
ASSUME JobStatsConstants ==
  /\ GpuList \in Seq(JobGpus) /\ GpuList # <<>> /\ IsInjective(GpuList)
  /\ FaultyGpus \subseteq JobGpus /\ Values \subseteq Nat
  /\ {Adjuster, EnergyUnit, Scale} \subseteq Nat \ {0}
  /\ UINT64_MAX \in Nat /\ \A v \in Values : v <= UINT64_MAX
  /\ {MaxJobSamples, MaxAllSamples, MaxTicks, MaxCalls, CallWork, MaxWork} \subseteq Nat
  /\ MaxErrors \in 0 .. UINT64_MAX
  /\ \A n \in 1 .. MaxJobSamples : Scale % n = 0

VARIABLES
  ticks,
  errors,                      \* GPU -> its ECC counter
  entry,                       \* the cache entry: [present, ended, gpu_stats]
  call,                        \* client -> the call it serves: [op, gauges, run]
  calls,                       \* number of calls so far
  starts,                      \* history: number of entries start has made
  seen,                        \* history: GPU -> its samples since the start
  first,                       \* history: GPU -> the counter start was given
  final                        \* history: what the stops were given, in turn:
                               \* [gauges, fresh]

svars == <<ticks, errors, entry, call, calls, starts, seen, first, final>>

\* A gauge that could not be read is not in the map the handler passes.
Missing == -1
Unread  == -2

AllGauges(v) == [g \in JobGpus |-> v]

\* run, history: the number of starts when the call began to read.
NoCall == [op |-> "none", gauges |-> AllGauges(Unread), run |-> 0]

Samples == FoldSet(LAMBDA h, n : Len(seen[h]) + n, 0, JobGpus)
Work    == CallWork * calls + Samples

\* GpuSummaryStats with its FieldSummaryStats.
NewGpuStats(gauge) ==
  [count |-> 0, max |-> 0, min |-> 0, total |-> 0, m |-> 0, s |-> 0,
   energy |-> 0, energy_last_time |-> 0, ecc_init |-> IF gauge = Missing THEN 0 ELSE gauge]

JobStatsInit ==
  /\ ticks = 1
  /\ errors = [g \in JobGpus |-> 0]
  /\ entry = [present |-> FALSE, ended |-> FALSE, gpu_stats |-> [g \in JobGpus |-> NewGpuStats(0)]]
  /\ call = [c \in Clients |-> NoCall]
  /\ calls = 0 /\ starts = 0
  /\ seen = [g \in JobGpus |-> <<>>]
  /\ first = [g \in JobGpus |-> 0]
  /\ final = <<>>

\* A client calls start, stop or get.
Ask(c, op) ==
  /\ call[c].op = "none"
  /\ calls < MaxCalls /\ Work + CallWork <= MaxWork
  /\ call' = [call EXCEPT ![c] = [op |-> op, gauges |-> AllGauges(Unread), run |-> starts]]
  /\ calls' = calls + 1
  /\ UNCHANGED <<ticks, errors, entry, starts, seen, first, final>>

\* get_gpu_gauges, for the k-th GPU of the list.
ReadGauge(c, k) ==
  LET g == GpuList[k]
  IN  /\ call[c].op # "none"
      /\ call[c].gauges[g] = Unread
      /\ \A i \in 1 .. k - 1 : call[c].gauges[GpuList[i]] # Unread
      /\ \E got \in {errors[g]} \cup (IF g \in FaultyGpus THEN {Missing} ELSE {}) :
           call' = [call EXCEPT ![c].gauges[g] = got]
      /\ UNCHANGED <<ticks, errors, entry, calls, starts, seen, first, final>>

\* It returns an error where the total memory of a GPU cannot be read, and so
\* does the call.
GaugesFail(c) ==
  /\ call[c].op # "none"
  /\ \E g \in JobGpus : call[c].gauges[g] = Unread
  /\ call' = [call EXCEPT ![c] = NoCall]
  /\ UNCHANGED <<ticks, errors, entry, calls, starts, seen, first, final>>

\* The call c serves is op, and has its gauges.
Ready(c, op) ==
  /\ call[c].op = op
  /\ \A g \in JobGpus : call[c].gauges[g] # Unread

\* Mutant: map::insert without the erase keeps the statistics of the last run.
FreshEntryKept(gauges) ==
  IF entry.present THEN [entry EXCEPT !.ended = FALSE]
  ELSE [present |-> TRUE, ended |-> FALSE,
        gpu_stats |-> [g \in JobGpus |-> NewGpuStats(gauges[g])]]

FreshEntry(gauges) ==
  [present |-> TRUE, ended |-> FALSE,
   gpu_stats |-> [g \in JobGpus |-> NewGpuStats(gauges[g])]]

\* rdc_job_start_stats: "Remove the old stats if it exists".  Two clients that
\* start the job at once both get here.
rdc_job_start_stats(c) ==
  /\ Ready(c, "start")
  /\ entry' = FreshEntry(call[c].gauges)
  /\ starts' = starts + 1
  /\ seen' = [g \in JobGpus |-> <<>>]
  /\ first' = call[c].gauges /\ final' = <<>>
  /\ call' = [call EXCEPT ![c] = NoCall]
  /\ UNCHANGED <<ticks, errors, calls>>

\* The first sample of a GPU.
FirstItem(st, v, ts) ==
  [st EXCEPT !.count = 1, !.max = v, !.min = v, !.total = v,
             !.energy_last_time = ts, !.m = Scale * v, !.s = 0]

\* Mutant: the deviation from the old mean is taken twice.
NextItemOldMean(st, v, ts) ==
  LET n  == st.count + 1
      m1 == st.m + (Scale * v - st.m) \div n
  IN  [st EXCEPT !.count = n, !.total = @ + v,
                 !.max = IF v > @ THEN v ELSE @, !.min = IF v < @ THEN v ELSE @,
                 !.energy = @ + ((ts - st.energy_last_time) * v) \div EnergyUnit,
                 !.m = m1, !.s = @ + (Scale * v - st.m) * (Scale * v - st.m)]

\* Mutant: the energy counts from the time the statistics were made.
NextItemSinceZero(st, v, ts) ==
  LET n  == st.count + 1
      m1 == st.m + (Scale * v - st.m) \div n
  IN  [st EXCEPT !.count = n, !.total = @ + v,
                 !.max = IF v > @ THEN v ELSE @, !.min = IF v < @ THEN v ELSE @,
                 !.energy = @ + (ts * v) \div EnergyUnit,
                 !.m = m1, !.s = @ + (Scale * v - st.m) * (Scale * v - m1)]

\* A later one: running extremes and total, Welford's mean and square sum.
\* energy_last_time stays at the first sample.
NextItem(st, v, ts) ==
  LET n  == st.count + 1
      m1 == st.m + (Scale * v - st.m) \div n
  IN  [st EXCEPT !.count = n, !.total = @ + v,
                 !.max = IF v > @ THEN v ELSE @, !.min = IF v < @ THEN v ELSE @,
                 !.energy = @ + ((ts - st.energy_last_time) * v) \div EnergyUnit,
                 !.m = m1, !.s = @ + (Scale * v - st.m) * (Scale * v - m1)]

rdc_update_job_stats(g, v) ==
  LET st == entry.gpu_stats[g]
  IN  /\ entry.present
      /\ st.count < MaxJobSamples
      /\ Samples < MaxAllSamples /\ Work < MaxWork
      /\ entry' = [entry EXCEPT !.gpu_stats[g] =
                     IF st.count = 0 THEN FirstItem(st, v, ticks) ELSE NextItem(st, v, ticks)]
      /\ seen' = [seen EXCEPT ![g] = Append(@, [ts |-> ticks, v |-> v])]
      /\ UNCHANGED <<ticks, errors, call, calls, starts, first, final>>

\* The counters are uint64_t.
Minus(a, b) == (a - b) % (UINT64_MAX + 1)

\* What stop leaves in ecc_correct_init: the difference, if the gauge is there.
EccAtStop(init, gauge) == IF gauge = Missing THEN init ELSE Minus(gauge, init)

Stopped(gauges, fresh) ==
  /\ entry.present
  /\ Len(final) < 2
  /\ entry' = [entry EXCEPT !.ended = TRUE,
                 !.gpu_stats = [g \in JobGpus |->
                   [entry.gpu_stats[g] EXCEPT !.ecc_init = EccAtStop(@, gauges[g])]]]
  /\ final' = Append(final, [gauges |-> gauges, fresh |-> fresh])
  /\ UNCHANGED <<ticks, errors, calls, starts, seen, first>>

\* rdc_job_stop_stats.  Two clients that stop the job at once both get here.
rdc_job_stop_stats(c) ==
  /\ Ready(c, "stop")
  /\ Stopped(call[c].gauges, call[c].run = starts)
  /\ call' = [call EXCEPT ![c] = NoCall]

\* The stop within rdc_job_remove and rdc_job_remove_all, which passes no gauges.
StopForRemove == Stopped(AllGauges(Missing), FALSE) /\ UNCHANGED call

\* rdc_job_remove.
rdc_job_remove ==
  /\ entry.present
  /\ entry' = [present |-> FALSE, ended |-> FALSE,
               gpu_stats |-> [g \in JobGpus |-> NewGpuStats(0)]]
  /\ seen' = [g \in JobGpus |-> <<>>]
  /\ first' = [g \in JobGpus |-> 0] /\ final' = <<>>
  /\ UNCHANGED <<ticks, errors, call, calls, starts>>

\* The driver counts an ECC error.
EccError(g) ==
  /\ errors[g] < MaxErrors
  /\ errors' = [errors EXCEPT ![g] = @ + 1]
  /\ UNCHANGED <<ticks, entry, call, calls, starts, seen, first, final>>

Tick ==
  /\ ticks < MaxTicks
  /\ ticks' = ticks + 1
  /\ UNCHANGED <<errors, entry, call, calls, starts, seen, first, final>>

-----------------------------------------------------------------------------
(***************************************************************************)
(* rdc_job_get_stats, for the gauges the handler has read.                 *)
(***************************************************************************)
\* set_summary, for a GPU.  The deviation is the root of s / (count - 1).
GpuSummary(st) ==
  IF st.count = 0 THEN [max |-> 0, min |-> UINT64_MAX, average |-> 0]
  ELSE [max |-> st.max \div Adjuster, min |-> st.min \div Adjuster,
        average |-> (st.total \div st.count) \div Adjuster]

Total(vs) ==
  LET sum[n \in 0 .. Len(vs)] == IF n = 0 THEN 0 ELSE sum[n - 1] + vs[n]
  IN  sum[Len(vs)]

\* set_summary and set_average_summary, for the job: every GPU of the group
\* is counted, with samples or without.
JobSummary(stats) ==
  LET of(g)  == GpuSummary(stats[g])
      counts == {g \in JobGpus : stats[g].count > 0}
  IN  [max |-> Max({of(g).max : g \in counts} \cup {0}),
       min |-> Min({of(g).min : g \in counts} \cup {UINT64_MAX}),
       average |-> Total([i \in DOMAIN GpuList |-> of(GpuList[i]).average]) \div Len(GpuList)]

\* Mutant: a stopped job is measured against the counter of now.
EccOfNow(st, gauge) == IF gauge = Missing THEN 0 ELSE Minus(gauge, st.ecc_init)

\* ecc_correct of a GPU; ecc_uncorrect is the same.
EccOf(st, gauge) ==
  IF entry.ended THEN st.ecc_init
  ELSE IF gauge = Missing THEN 0 ELSE Minus(gauge, st.ecc_init)

\* The answer.  memory: the GPUs whose total memory could be read.
rdc_job_get_stats(gauges, memory) ==
  IF ~entry.present THEN [status |-> "NOT_FOUND"]
  ELSE IF memory # JobGpus THEN [status |-> "BAD_PARAMETER"]
  ELSE [status  |-> "OK",
        energy  |-> [g \in JobGpus |-> entry.gpu_stats[g].energy],
        ecc     |-> [g \in JobGpus |-> EccOf(entry.gpu_stats[g], gauges[g])],
        power   |-> [g \in JobGpus |-> GpuSummary(entry.gpu_stats[g])],
        summary |-> JobSummary(entry.gpu_stats)]

\* The call returns and changes nothing: a get, with what rdc_job_get_stats says,
\* and a start or a stop that RdcWatchTableImpl refuses (RdcJobs has the reasons).
Returns(c) ==
  /\ \E op \in {"start", "stop", "get"} : Ready(c, op)
  /\ call' = [call EXCEPT ![c] = NoCall]
  /\ UNCHANGED <<ticks, errors, entry, calls, starts, seen, first, final>>

JobStatsNext ==
  \/ \E c \in Clients :
       \/ \E op \in {"start", "stop", "get"} : Ask(c, op)
       \/ \E k \in DOMAIN GpuList : ReadGauge(c, k)
       \/ GaugesFail(c)
       \/ rdc_job_start_stats(c) \/ rdc_job_stop_stats(c) \/ Returns(c)
  \/ \E g \in JobGpus, v \in Values : rdc_update_job_stats(g, v)
  \/ StopForRemove \/ rdc_job_remove
  \/ \E g \in FaultyGpus : EccError(g)
  \/ Tick

JobStatsSpec == JobStatsInit /\ [][JobStatsNext]_svars

-----------------------------------------------------------------------------
\* The answer when every gauge can be read.
Answer == rdc_job_get_stats(errors, JobGpus)

ValuesSeen(g) == [i \in DOMAIN seen[g] |-> seen[g][i].v]

\* What a client is told of a GPU is about the samples since the last start and
\* nothing else: largest, smallest and mean value, truncated as the units are,
\* and zeros with the largest minimum where there is no sample.  The summary of
\* the job encloses that of each GPU with samples; its average lies between the
\* extremes once every GPU has one, and before that is no larger than the maximum.
StatsOfThisRun ==
  entry.present =>
    LET sum   == Answer.summary
        heard == {g \in JobGpus : seen[g] # <<>>}
    IN  /\ \A g \in JobGpus \ heard :
             Answer.power[g] = [max |-> 0, min |-> UINT64_MAX, average |-> 0]
        /\ \A g \in heard :
             LET vs == ValuesSeen(g)
                 at == Answer.power[g]
             IN  /\ at.max = Max({vs[i] : i \in DOMAIN vs}) \div Adjuster
                 /\ at.min = Min({vs[i] : i \in DOMAIN vs}) \div Adjuster
                 /\ at.average = Total(vs) \div (Adjuster * Len(vs))
                 /\ sum.min <= at.min /\ at.max <= sum.max
        /\ sum.average <= sum.max
        /\ heard = JobGpus => sum.min <= sum.average

\* Welford's recurrence computes the sample variance of the definition: with n
\* samples, n * s is n times the sum of the squares less the square of the sum.
WelfordExact ==
  \A g \in JobGpus :
    LET st == entry.gpu_stats[g]
        vs == ValuesSeen(g)
        sq == [i \in DOMAIN vs |-> vs[i] * vs[i]]
    IN  /\ st.count * st.m = Scale * Total(vs)
        /\ st.count * st.s = Scale * Scale * (Len(vs) * Total(sq) - Total(vs) * Total(vs))

\* Energy of a run: the power of each sample over the time since the sample
\* before it, each product truncated.
EnergyBySample(g) ==
  LET of(i) == ((seen[g][i].ts - seen[g][i-1].ts) * seen[g][i].v) \div EnergyUnit
  IN  Total([i \in DOMAIN seen[g] |-> IF i = 1 THEN 0 ELSE of(i)])

\* energy_last_time is set at the first sample and never moved on, so the energy
\* is right for two samples and from the third on never less than it should be.
EnergyNeverLess ==
  entry.present =>
    \A g \in JobGpus :
      /\ Answer.energy[g] >= EnergyBySample(g)
      /\ Len(seen[g]) <= 2 => Answer.energy[g] = EnergyBySample(g)

\* The stops of this run that read a GPU's counter.
StopsThatRead(g) == {i \in DOMAIN final : final[i].gauges[g] # Missing}
FirstReading(g) == IF first[g] = Missing THEN 0 ELSE first[g]

\* The ECC errors a client is told of a running job are exactly those its call
\* saw beyond the reading of the start, and those of a stopped job the ones its
\* stop saw, whatever the counters and other calls did meanwhile: the unsigned
\* difference does not wrap.  It takes a call that began to read the counters
\* after the start was done, and a single stop that read them: get_gpu_gauges
\* reads before any mutex is taken, so a reading from before the start gives a
\* number that may have wrapped, a second stop subtracts again, and a stop that
\* reads nothing leaves the counter of the start as the answer.
EccOfThisRun ==
  entry.present =>
    \A g \in JobGpus, c \in Clients :
      LET got  == call[c].gauges[g]
          told == rdc_job_get_stats(call[c].gauges, JobGpus).ecc[g]
      IN  Ready(c, "get") =>
            /\ (final = <<>> /\ call[c].run = starts) =>
                 told = IF got = Missing THEN 0 ELSE got - FirstReading(g)
            /\ \A i \in DOMAIN final :
                 (StopsThatRead(g) = {i} /\ final[i].fresh) =>
                   told = final[i].gauges[g] - FirstReading(g)
=============================================================================
