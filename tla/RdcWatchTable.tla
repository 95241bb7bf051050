---------------------------- MODULE RdcWatchTable ---------------------------
(***************************************************************************)
(* RdcWatchTableImpl, with the components it drives: the group registry,   *)
(* the notification masks, the sample cache, and the counter handles that  *)
(* the telemetry module holds in RdcMetricFetcherImpl::smi_data_.          *)
(*                                                                         *)
(* watch_mutex_ is held from the first to the last access of the tables in *)
(* every operation, so each is one action.  What the code reads before it  *)
(* takes the mutex is a parameter that may be stale: `now` in              *)
(* rdc_field_update_all and rdc_field_unwatch, the events in               *)
(* rdc_field_listen_notif.  Groups change under other mutexes, whenever a  *)
(* client asks.                                                            *)
(*                                                                         *)
(* The clock counts ticks; a tick is a millisecond in the code.            *)
(***************************************************************************)
EXTENDS RdcGroupSettings, RdcNotification, RdcSampleCache

CONSTANTS
  Supported,                   \* fields rdc_telemetry_fields_query reports
  CounterFields,               \* fields read through an amd-smi counter
  WatchRequests,               \* settings clients pass to rdc_field_watch
  UsecPerTick,                 \* microseconds per tick (1000 in the code)
  StartTime,                   \* clock when the library starts
  MaxClock,                    \* bound on the clock
  MaxLag,                      \* bound: how late a caller gets watch_mutex_
  MaxFetch,                    \* bound: ticks one bulk fetch takes
  MaxSamples,                  \* bound: samples of one key in the cache
  ChangeWatchedGroups          \* may clients change a group being watched?

ASSUME WatchConstants ==
  /\ Supported \subseteq Fields \ NotifFields
  /\ CounterFields \subseteq Supported
  /\ UsecPerTick \in Nat \ {0}
  /\ StartTime \in Nat /\ MaxClock \in Nat
  /\ MaxLag \in 0 .. StartTime
  /\ MaxFetch \in Nat /\ MaxSamples \in Nat
  /\ ChangeWatchedGroups \in BOOLEAN
  /\ WatchRequests \subseteq [freq : Nat, age : Nat, keep : Nat]

VARIABLES
  watch_table_,                \* (group, field group) -> FieldSettings
  fields_to_watch_,            \* (gpu, field) -> FieldSettings
  smi_data_,                   \* keys whose amd-smi counter is held
  last_cleanup_time_,
  clock,
  watched_keys                 \* history: the keys each watch was granted for

tvars == <<watch_table_, fields_to_watch_, watched_keys>>
vars == <<gvars, nvars, cache_samples_, tvars, smi_data_, last_cleanup_time_, clock>>

FieldSettings ==
  [update_freq : Nat, max_keep_samples : Nat, max_keep_age : Nat,
   is_watching : BOOLEAN, last_update_time : Nat]

EntryKey == Nat \X Nat
TelemetryKey == GPUs \X Supported

Init ==
  /\ GroupInit /\ NotifInit
  /\ cache_samples_ = [k \in RdcFieldKey |-> <<>>]
  /\ watch_table_ = EmptyMap
  /\ fields_to_watch_ = EmptyMap
  /\ watched_keys = EmptyMap
  /\ smi_data_ = {}
  /\ last_cleanup_time_ = 0
  /\ clock = StartTime

Watching(wt) == {e \in DOMAIN wt : wt[e].is_watching}

-----------------------------------------------------------------------------
(* rdc_field_watch *)

MaxOf(a, b) == IF a >= b THEN a ELSE b
MinOf(a, b) == IF a <= b THEN a ELSE b

NewSettings(q) ==
  [update_freq |-> q.freq, max_keep_samples |-> q.keep, max_keep_age |-> q.age,
   is_watching |-> TRUE, last_update_time |-> 0]

\* Mutant: the last watch wins.
MergeSettingsOverwriting(old, q) ==
  [NewSettings(q) EXCEPT !.last_update_time = old.last_update_time]

\* A field that is in fields_to_watch_ already takes the widest retention
\* and, while it is being watched, the shortest period.
MergeSettings(old, q) ==
  [update_freq |-> IF old.is_watching THEN MinOf(old.update_freq, q.freq) ELSE q.freq,
   max_keep_samples |-> MaxOf(old.max_keep_samples, q.keep),
   max_keep_age |-> MaxOf(old.max_keep_age, q.age),
   is_watching |-> TRUE,
   last_update_time |-> old.last_update_time]

AddFields(ftw, keys, q) ==
  [k \in DOMAIN ftw \cup keys |->
     IF k \notin keys THEN ftw[k]
     ELSE IF k \in DOMAIN ftw THEN MergeSettings(ftw[k], q) ELSE NewSettings(q)]

\* rdc_telemetry_fields_watch on every watched field: acquiring a counter the
\* library does not hold yet may fail.
AcquireHandles(ftw) ==
  \E got \in SUBSET {k \in DOMAIN ftw : ftw[k].is_watching /\ k[2] \in CounterFields} :
    smi_data_' = smi_data_ \cup got

FieldWatchConflict(g, f) ==
  /\ <<g, f>> \in Watching(watch_table_)
  /\ UNCHANGED <<nvars, tvars, smi_data_>>

\* The old entry of an ended watch is erased before the groups are looked up.
FieldWatchNotFound(g, f) ==
  /\ <<g, f>> \notin Watching(watch_table_)
  /\ ~HasFields(g, f)
  /\ watch_table_' = MapErase(watch_table_, {<<g, f>>})
  /\ watched_keys' = MapErase(watched_keys, {<<g, f>>})
  /\ UNCHANGED <<nvars, fields_to_watch_, smi_data_>>

FieldWatchOk(g, f, q) ==
  LET keys == {k \in FieldsOf(g, f) : k[2] \in Supported}
      ftw  == AddFields(fields_to_watch_, keys, q)
  IN  /\ <<g, f>> \notin Watching(watch_table_)
      /\ HasFields(g, f)
      /\ SetListenEvents(FieldsOf(g, f))
      /\ fields_to_watch_' = ftw
      /\ watch_table_' = MapPut(watch_table_, <<g, f>>, NewSettings(q))
      /\ watched_keys' = MapPut(watched_keys, <<g, f>>, keys)
      /\ AcquireHandles(ftw)

\* rdc_field_watch with the status r it returns.
rdc_field_watch(g, f, q, r) ==
  /\ \/ r = "CONFLICT" /\ FieldWatchConflict(g, f)
     \/ r = "NOT_FOUND" /\ FieldWatchNotFound(g, f)
     \/ r = "OK" /\ FieldWatchOk(g, f, q)
  /\ UNCHANGED <<gvars, cache_samples_, last_cleanup_time_, clock>>

-----------------------------------------------------------------------------
(* rdc_field_unwatch *)

\* Mutant: ended watches are counted too.
FreqsOfEnded(wt, k) ==
  {wt[w].update_freq : w \in {x \in DOMAIN wt : /\ HasFields(x[1], x[2])
                                                /\ k \in FieldsOf(x[1], x[2])}}

\* The periods the watches in wt ask for key k, groups looked up now.
FreqsOf(wt, k) ==
  {wt[w].update_freq : w \in {x \in Watching(wt) : k \in FieldsOf(x[1], x[2])}}

LeastOf(S) == CHOOSE x \in S : \A y \in S : x <= y

\* update_field_in_table_when_unwatch: gives up, changing nothing, when the
\* groups of this entry or of any watch still running are gone.
UnwatchNotFound(e, wt) ==
  /\ \E w \in Watching(wt) \cup {e} : ~HasFields(w[1], w[2])
  /\ UNCHANGED <<nvars, fields_to_watch_, smi_data_>>

UnwatchOk(e, wt) ==
  LET keys == FieldsOf(e[1], e[2])
      telemetry == {k \in keys : ~is_notification_event(k[2])}
      idle == {k \in telemetry : FreqsOf(wt, k) = {}}
  IN  /\ \A w \in Watching(wt) \cup {e} : HasFields(w[1], w[2])
      /\ StopListening({k[1] : k \in keys \ telemetry})
      /\ fields_to_watch_' = [k \in DOMAIN fields_to_watch_ |->
           IF k \in idle THEN [fields_to_watch_[k] EXCEPT !.is_watching = FALSE]
           ELSE IF k \in telemetry
           THEN [fields_to_watch_[k] EXCEPT !.update_freq = LeastOf(FreqsOf(wt, k))]
           ELSE fields_to_watch_[k]]
      /\ smi_data_' = smi_data_ \ (idle \cup (telemetry \ DOMAIN fields_to_watch_))

\* rdc_field_unwatch with the status r it returns and the time it read
\* before it got the mutex.
rdc_field_unwatch(g, f, now, r) ==
  LET wt == [watch_table_ EXCEPT ![<<g, f>>].is_watching = FALSE,
                                 ![<<g, f>>].last_update_time = now]
  IN  /\ <<g, f>> \in DOMAIN watch_table_
      /\ watch_table_' = wt
      /\ \/ r = "NOT_FOUND" /\ UnwatchNotFound(<<g, f>>, wt)
         \/ r = "OK" /\ UnwatchOk(<<g, f>>, wt)
      /\ UNCHANGED <<gvars, watched_keys, cache_samples_, last_cleanup_time_, clock>>

-----------------------------------------------------------------------------
(* rdc_field_update_all *)

\* The fields one update fetches.  The period loses its sub-tick part.
Due(now) ==
  {k \in DOMAIN fields_to_watch_ :
     /\ fields_to_watch_[k].is_watching
     /\ fields_to_watch_[k].last_update_time
          + fields_to_watch_[k].update_freq \div UsecPerTick <= now}

\* handle_fields on every fetched field: the time stamp is always updated,
\* a sample is cached only for the fields in ok.
Stamped(due, now) ==
  [k \in DOMAIN fields_to_watch_ |->
     IF k \in due THEN [fields_to_watch_[k] EXCEPT !.last_update_time = now]
     ELSE fields_to_watch_[k]]

Sampled(ok, ts) ==
  [k \in RdcFieldKey |->
     IF k \in ok THEN rdc_update_cache(cache_samples_[k], ts) ELSE cache_samples_[k]]

\* Mutant: max_keep_age is forgotten.
EndedAtOnce(s, now) == ~s.is_watching /\ Expired(s.last_update_time, 0, now)

\* Mutant: entries are erased by their age alone.
EndedByAge(s, now) == Expired(s.last_update_time, s.max_keep_age, now)

\* An unwatched entry whose retention is over.
Ended(s, now) == ~s.is_watching /\ Expired(s.last_update_time, s.max_keep_age, now)

EndedKeys(m, now) == {k \in DOMAIN m : Ended(m[k], now)}

\* clean_up, on the tables as the fetch left them.
CleanUp(ftw, cache, now) ==
  /\ cache_samples_' = [k \in RdcFieldKey |->
       IF k \in DOMAIN ftw
       THEN evict_cache(cache[k], ftw[k].max_keep_samples, ftw[k].max_keep_age, now)
       ELSE cache[k]]
  /\ fields_to_watch_' = MapErase(ftw, EndedKeys(ftw, now))
  /\ watch_table_' = MapErase(watch_table_, EndedKeys(watch_table_, now))
  /\ watched_keys' = MapErase(watched_keys, EndedKeys(watch_table_, now))

\* now - last_cleanup_time_ > 1000 in unsigned arithmetic: a now that is
\* older than last_cleanup_time_ wraps around to a huge difference.
CleanupDue(now) ==
  now < last_cleanup_time_ \/ now - last_cleanup_time_ > TicksPerSecond

\* now: the time read before the mutex; ok: the fields read successfully;
\* took: the ticks the fetch took.
rdc_field_update_all(now, ok, took) ==
  LET ftw   == Stamped(Due(now), clock + took)
      cache == Sampled(ok, clock)
  IN  /\ ok \subseteq Due(now)
      /\ \A k \in ok : Len(cache_samples_[k]) < MaxSamples
      /\ Due(now) = {} => took = 0
      /\ clock' = clock + took
      /\ IF CleanupDue(now)
         THEN CleanUp(ftw, cache, clock + took) /\ last_cleanup_time_' = now
         ELSE /\ cache_samples_' = cache /\ fields_to_watch_' = ftw
              /\ UNCHANGED <<watch_table_, watched_keys, last_cleanup_time_>>
      /\ UNCHANGED <<gvars, nvars, smi_data_>>

-----------------------------------------------------------------------------
(* The rest of the environment *)

\* rdc_notif_update_cache on the events a listen() returned.
rdc_notif_update_cache ==
  LET stampOf(k) == CHOOSE t \in {e.ts : e \in listened} : [key |-> k, ts |-> t] \in listened
      keys == {e.key : e \in listened}
  IN  /\ listened # {}
      /\ \A k \in keys : Len(cache_samples_[k]) < MaxSamples
      /\ fields_to_watch_' = [k \in DOMAIN fields_to_watch_ |->
           IF k \in keys
           THEN [fields_to_watch_[k] EXCEPT !.last_update_time = stampOf(k)]
           ELSE fields_to_watch_[k]]
      /\ cache_samples_' = [k \in RdcFieldKey |->
           IF k \in keys THEN rdc_update_cache(cache_samples_[k], stampOf(k))
           ELSE cache_samples_[k]]
      /\ listened' = {}
      /\ UNCHANGED <<gvars, gpu_evnt_notif_masks_, device_mask, watch_table_,
                     watched_keys, smi_data_, last_cleanup_time_, clock>>

\* rdc_field_listen_notif, up to the return of listen().
ListenNotif ==
  /\ Listen(clock)
  /\ UNCHANGED <<gvars, cache_samples_, tvars, smi_data_, last_cleanup_time_, clock>>

Tick ==
  /\ clock < MaxClock
  /\ clock' = clock + 1
  /\ UNCHANGED <<gvars, nvars, cache_samples_, tvars, smi_data_, last_cleanup_time_>>

\* Clients that respect ChangeWatchedGroups = FALSE leave a group alone while
\* a watch on it is running.
MayChange(g) ==
  ChangeWatchedGroups \/ \A e \in Watching(watch_table_) : e[1] # g

MayChangeFields(f) ==
  ChangeWatchedGroups \/ \A e \in Watching(watch_table_) : e[2] # f

GroupStep ==
  /\ \/ GroupGpuCreate
     \/ \E g \in DOMAIN gpu_group_ : MayChange(g) /\ GroupGpuDestroy(g)
     \/ \E g \in DOMAIN gpu_group_, gpu \in GPUs : MayChange(g) /\ GroupGpuAdd(g, gpu)
     \/ \E fields \in FieldSets : GroupFieldCreate(fields)
     \/ \E f \in DOMAIN field_group_ : MayChangeFields(f) /\ GroupFieldDestroy(f)
  /\ UNCHANGED <<nvars, cache_samples_, tvars, smi_data_, last_cleanup_time_, clock>>

\* The times a caller may have read before it got watch_mutex_.
ReadTimes == {t \in (clock - MaxLag) .. clock : t >= StartTime}

Status == {"OK", "NOT_FOUND", "CONFLICT"}

WatchStep ==
  \E g \in 1 .. cur_group_id_ - 1, f \in 0 .. cur_field_group_id_ - 1, r \in Status :
    \E q \in WatchRequests : rdc_field_watch(g, f, q, r)

UnwatchStep ==
  \E e \in DOMAIN watch_table_, now \in ReadTimes, r \in Status :
    rdc_field_unwatch(e[1], e[2], now, r)

UpdateStep ==
  \E now \in ReadTimes : \E ok \in SUBSET Due(now), took \in 0 .. MaxFetch :
    /\ clock + took <= MaxClock
    /\ rdc_field_update_all(now, ok, took)

Next ==
  \/ GroupStep \/ WatchStep \/ UnwatchStep \/ UpdateStep
  \/ ListenNotif \/ rdc_notif_update_cache \/ Tick

Spec == Init /\ [][Next]_vars

-----------------------------------------------------------------------------
(* Properties *)

\* Type invariant of the tables.
TypeOK ==
  /\ GroupTypeOK /\ NotifTypeOK
  /\ clock \in Nat /\ last_cleanup_time_ \in Nat
  /\ cache_samples_ \in [RdcFieldKey -> Seq(Nat)]
  /\ DOMAIN watch_table_ \subseteq EntryKey
  /\ watch_table_ \in [DOMAIN watch_table_ -> FieldSettings]
  /\ DOMAIN fields_to_watch_ \subseteq TelemetryKey
  /\ fields_to_watch_ \in [DOMAIN fields_to_watch_ -> FieldSettings]
  /\ watched_keys \in [DOMAIN watch_table_ -> SUBSET TelemetryKey]
  /\ smi_data_ \subseteq TelemetryKey

\* clean_up evicts samples only of keys in fields_to_watch_, and erases the
\* entry of an unwatched key once its retention is over: no key may leave
\* the table with samples in the cache, for they would stay for ever.
NoOrphanSamples ==
  \A k \in TelemetryKey :
    cache_samples_[k] # <<>> => k \in DOMAIN fields_to_watch_

\* An amd-smi counter is held only for a field that is being watched:
\* counters are a scarce device resource, and rdc_field_unwatch is the only
\* place that gives them back.
HandlesWatched ==
  \A k \in smi_data_ : k \in DOMAIN fields_to_watch_ /\ fields_to_watch_[k].is_watching

\* Whatever other clients watch, unwatch or destroy, every field a running
\* watch was granted is still fetched at least as often, and kept at least as
\* long and as many, as that watch asked.
WatchHonoured ==
  \A e \in Watching(watch_table_) : \A k \in watched_keys[e] :
    /\ k \in DOMAIN fields_to_watch_
    /\ fields_to_watch_[k].is_watching
    /\ fields_to_watch_[k].update_freq <= watch_table_[e].update_freq
    /\ fields_to_watch_[k].max_keep_age >= watch_table_[e].max_keep_age
    /\ fields_to_watch_[k].max_keep_samples >= watch_table_[e].max_keep_samples

\* A sample that a running watch asked to keep survives every step: it is
\* among the newest max_keep_samples - 1 (one more may just have been added)
\* and younger than max_keep_age.  clean_up evicts with the merged settings of
\* the field, so this is where a merge gone wrong would lose data.
RetentionHonoured ==
  [][\A e \in Watching(watch_table_) : \A k \in watched_keys[e] :
       \A i \in 1 .. Len(cache_samples_[k]) :
         (/\ Len(cache_samples_[k]) - i + 1 < watch_table_[e].max_keep_samples
          /\ ~Expired(cache_samples_[k][i], watch_table_[e].max_keep_age, clock'))
         => \E j \in 1 .. Len(cache_samples_'[k]) :
              cache_samples_'[k][j] = cache_samples_[k][i]]_vars

\* "The settings for each field can be deduced from watch_table"
\* (RdcWatchTableImpl.h:123): a field is being watched only when a running
\* watch covers it, and then with the period of one of those watches.
FieldsDeducible ==
  \A k \in DOMAIN fields_to_watch_ :
    fields_to_watch_[k].is_watching =>
      \E e \in Watching(watch_table_) :
        /\ k \in watched_keys[e]
        /\ fields_to_watch_[k].update_freq = watch_table_[e].update_freq

\* A group created now gets no part in a watch made before: watch_table_
\* keeps entries of destroyed groups, so a reused id would inherit them.
NewGroupUnwatched ==
  [][/\ \A g \in DOMAIN gpu_group_' \ DOMAIN gpu_group_ :
          \A e \in DOMAIN watch_table_ : e[1] # g
     /\ \A f \in DOMAIN field_group_' \ DOMAIN field_group_ :
          \A e \in DOMAIN watch_table_ : e[2] # f]_vars

\* The driver raises events of a GPU only while a running watch asks for
\* exactly those events: set_listen_events and stop_listening leave no
\* listening behind (given that groups stay while they are watched, and that
\* stopping works).
NoStrayListening ==
  \A g \in GPUs : device_mask[g] # {} =>
    \E e \in Watching(watch_table_) :
      HasFields(e[1], e[2]) /\ device_mask[g] = NewMask(FieldsOf(e[1], e[2]), g)
=============================================================================
