--------------------------- MODULE RdcSampleCache ---------------------------
(***************************************************************************)
(* The sample cache of RdcCacheManagerImpl.  cache_samples_ maps a         *)
(* (gpu, field) key to the vector of its samples, oldest first.  A sample  *)
(* is its timestamp: no property looks at the value that was read.         *)
(* A key the map does not hold is one with no samples, since every reader  *)
(* in the code treats "absent" and "empty" alike.                          *)
(* Each operation holds cache_mutex_ throughout, so it is atomic.          *)
(***************************************************************************)
EXTENDS Integers, Sequences

CONSTANTS
  TicksPerSecond,              \* clock ticks (1 ms in the code) per second
  INT_MAX                      \* largest value of an int

ASSUME CacheConstants ==
  /\ TicksPerSecond \in Nat \ {0}
  /\ INT_MAX \in Nat \ {0}

VARIABLE cache_samples_

\* Conversion of an unsigned 64-bit difference to int (two's complement).
ToInt(x) == ((x + INT_MAX + 1) % (2 * INT_MAX + 2)) - INT_MAX - 1

\* Mutant: one sample too many.
ItemRemoveOneMore(size, keep) == ToInt(size - keep + 1)

\* int item_remove = cache_values.size() - max_keep_samples
ItemRemove(size, keep) == ToInt(size - keep)

\* Mutant: the surplus is erased at the end of the vector.
EvictCountNewest(s, keep) ==
  IF ItemRemove(Len(s), keep) > 0
  THEN SubSeq(s, 1, Len(s) - ItemRemove(Len(s), keep))
  ELSE s

\* Erasing more samples than there are is undefined behaviour in the code; it
\* is represented by its mildest outcome, a vector with nothing left.
EvictCount(s, keep) ==
  IF ItemRemove(Len(s), keep) > 0
  THEN SubSeq(s, ItemRemove(Len(s), keep) + 1, Len(s))
  ELSE s

Expired(ts, age, now) == ts + age * TicksPerSecond < now

\* The position at which the erasing loop stops.
FirstKept(s, age, now) ==
  CHOOSE i \in 1 .. Len(s) + 1 :
    /\ \A j \in 1 .. i - 1 : Expired(s[j], age, now)
    /\ i <= Len(s) => ~Expired(s[i], age, now)

EvictAge(s, age, now) == SubSeq(s, FirstKept(s, age, now), Len(s))

\* evict_cache on one key: first the surplus samples, then the old ones.
evict_cache(s, keep, age, now) == EvictAge(EvictCount(s, keep), age, now)

\* rdc_update_cache on one key.
rdc_update_cache(s, ts) == Append(s, ts)

\* Mutant: the time stamp is not moved past the newest sample.
GetValueSinceStuck(s, since) ==
  LET hits == {i \in 1 .. Len(s) : s[i] >= since}
      i    == CHOOSE x \in hits : \A y \in hits : x <= y
  IN  IF hits = {}
      THEN [status |-> "NOT_FOUND", ts |-> 0, next |-> since]
      ELSE [status |-> "OK", ts |-> s[i], next |-> IF i < Len(s) THEN s[i + 1] ELSE s[i]]

\* Mutant: the newest sample is returned first.
GetValueSinceNewest(s, since) ==
  IF s = <<>> \/ s[Len(s)] < since
  THEN [status |-> "NOT_FOUND", ts |-> 0, next |-> since]
  ELSE [status |-> "OK", ts |-> s[Len(s)], next |-> s[Len(s)] + 1]

\* rdc_field_get_value_since on one key: the status, the sample returned and
\* the time stamp to pass next.  With no samples at all the code returns
\* before it writes *next_since_time_stamp; the caller keeps what it had.
rdc_field_get_value_since(s, since) ==
  LET hits == {i \in 1 .. Len(s) : s[i] >= since}
      i    == CHOOSE x \in hits : \A y \in hits : x <= y
  IN  IF hits = {}
      THEN [status |-> "NOT_FOUND", ts |-> 0, next |-> since]
      ELSE [status |-> "OK", ts |-> s[i],
            next |-> IF i < Len(s) THEN s[i + 1] ELSE s[i] + 1]
=============================================================================
