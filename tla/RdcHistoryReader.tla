-------------------------- MODULE RdcHistoryReader --------------------------
(***************************************************************************)
(* Reading the history of one field: a client calls                        *)
(* rdc_field_get_value_since in a loop, each time with the time stamp the  *)
(* last call returned (the loop of field_value_example.cc), while the      *)
(* library goes on sampling the field and evicting its samples.            *)
(* cache_samples_ is here the vector of that one field.                    *)
(***************************************************************************)
EXTENDS RdcSampleCache

CONSTANTS
  MinGap,                      \* least number of ticks between two samples
  Keep, Age,                   \* max_keep_samples and max_keep_age
  MaxTime                      \* bound on the clock

ASSUME ReaderConstants ==
  /\ MinGap \in {0, 1}
  /\ Keep \in Nat /\ Age \in Nat
  /\ MaxTime \in Nat

VARIABLES
  time,
  last,                        \* time of the newest sample ever cached
  since,                       \* since_timestamp of the client
  got,                         \* the time stamps it was given so far
  reading                      \* is it still in its loop?

rvars == <<cache_samples_, time, last, since, got, reading>>

ReaderInit ==
  /\ cache_samples_ = <<>>
  /\ time = 1 /\ last = 0
  /\ since = 1 /\ got = {}
  /\ reading = TRUE

\* A fetch that succeeded.  With MinGap = 0 a field with a period below one
\* tick is fetched twice in the same tick.
Sample ==
  /\ time >= last + MinGap
  /\ Len(cache_samples_) < MaxTime
  /\ cache_samples_' = rdc_update_cache(cache_samples_, time)
  /\ last' = time
  /\ UNCHANGED <<time, since, got, reading>>

\* The clean_up of rdc_field_update_all.
Evict ==
  /\ cache_samples_' = evict_cache(cache_samples_, Keep, Age, time)
  /\ UNCHANGED <<time, last, since, got, reading>>

\* One turn of the client's loop.
Read ==
  LET r == rdc_field_get_value_since(cache_samples_, since)
  IN  /\ reading
      /\ IF r.status = "OK"
         THEN got' = got \cup {r.ts} /\ since' = r.next /\ UNCHANGED reading
         ELSE reading' = FALSE /\ UNCHANGED <<got, since>>
      /\ UNCHANGED <<cache_samples_, time, last>>

Advance ==
  /\ time < MaxTime
  /\ time' = time + 1
  /\ UNCHANGED <<cache_samples_, last, since, got, reading>>

ReaderNext == Sample \/ Evict \/ Read \/ Advance

ReaderSpec == ReaderInit /\ [][ReaderNext]_rvars

\* The client calls as long as its loop runs.
FairReaderSpec == ReaderSpec /\ WF_rvars(Read)

-----------------------------------------------------------------------------
(* Properties *)

\* Type invariant.
ReaderTypeOK ==
  /\ cache_samples_ \in Seq(Nat)
  /\ time \in Nat /\ last \in Nat /\ since \in Nat
  /\ got \subseteq Nat
  /\ reading \in BOOLEAN

\* rdc_field_get_value_since gives every sample at most once, oldest first,
\* however sampling and eviction come in between two calls: what the next call
\* gives is newer than all that was given before.
ReadOnceInOrder ==
  LET r == rdc_field_get_value_since(cache_samples_, since)
  IN  r.status = "OK" => \A t \in got : t < r.ts

\* next_since_time_stamp passes over no sample: one that is in the cache and
\* older than it was given to the client.
NothingSkipped ==
  \A i \in 1 .. Len(cache_samples_) :
    cache_samples_[i] < since => cache_samples_[i] \in got

\* The samples that a call with since can still return.
Pending == {cache_samples_[i] : i \in {j \in 1 .. Len(cache_samples_) : cache_samples_[j] >= since}}

Feed == INSTANCE RdcFieldFeed
          WITH Times <- 0 .. MaxTime + 1, pending <- Pending, delivered <- got

\* The cache and the loop of the client implement the feed: to the client the
\* vector, the evictions and next_since_time_stamp are a queue that may lose its
\* oldest samples, and does nothing else.
FeedImplemented == Feed!FeedSpec

\* "move to next potential timestamp" (RdcCacheManagerImpl.cc:56): the loop
\* gets on, and ends once it has caught up with the sampling.
ReaderFinishes == <>(~reading)
=============================================================================
