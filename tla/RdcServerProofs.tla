-------------------------- MODULE RdcServerProofs ---------------------------
(***************************************************************************)
(* Proofs about three parts of the server that stand apart: the telemetry  *)
(* module (RdcTelemetry), the asynchronous PCIe readings under it          *)
(* (RdcAsyncFetch), and the life of the daemon's process (RdcDaemon).      *)
(***************************************************************************)
EXTENDS RdcDaemon, RdcTelemetry, RdcAsyncFetch, SequenceTheorems, TLAPS

-----------------------------------------------------------------------------
(***************************************************************************)
(* RdcTelemetry: every field of a request is reported exactly once, and an *)
(* average is over the most recent readings, whatever the size of a batch, *)
(* of the averaging buffer and of the request.                             *)
(***************************************************************************)

\* Where the keys of the call are: reported, in the array, or to be fetched.
Reported == {s.key : s \in reported}
InBatch == {values[i].key : i \in Filled}
Busy == fetch.at \notin {"idle", "done"}

\* No key was reported twice, or is in the array twice or after its report.
Batched ==
  /\ ~repeated
  /\ \A i, j \in Filled : values[i].key = values[j].key => i = j
  /\ Reported \cap InBatch = {}

\* Inductive invariant for ReportedOnce: a key of the request is in exactly
\* one place, and the array is empty between the modules.
Accounted ==
  /\ Batched
  /\ fetch.smi \cap (Reported \cup InBatch) = {}
  /\ fetch.rocp \cap (Reported \cup InBatch) = {}
  /\ fetch.smi \subseteq For("smi", fetch.wanted)
  /\ fetch.rocp \subseteq For("rocp", fetch.wanted)
  /\ Busy => /\ Unsupported(fetch.wanted) \cap (Reported \cup InBatch) = {}
             /\ fetch.wanted = Reported \cup InBatch \cup fetch.smi \cup fetch.rocp
                                 \cup Unsupported(fetch.wanted)
  /\ fetch.at \notin {"smi", "rocp"} => bulk_count = 0
  /\ At("idle") => reported = {} /\ fetch.smi = {} /\ fetch.rocp = {}
  /\ At("done") => Reported = fetch.wanted /\ fetch.smi = {} /\ fetch.rocp = {}

\* Inductive invariant for AverageIsRecent: until it is full the buffer is in
\* order; after that the oldest reading is where the next one goes.
Ring(a, r, s) ==
  LET n == Len(a.buffer)
  IN  \/ /\ n < buffer_length_k /\ a.index = n /\ r - s = n
         /\ \A i \in 1 .. n : a.buffer[i] = s + i
      \/ /\ n = buffer_length_k /\ r - s >= n
         /\ \A i \in 1 .. n : a.buffer[i] = IF i <= a.index THEN r - a.index + i
                                           ELSE r - a.index - n + i

Rings == \A k \in RocpKeys : Ring(average[k], readings[k], unwatched[k])

-----------------------------------------------------------------------------
(* Types *)

\* A slot below bulk_count has been written.
Written == \A i \in Filled : values[i] \in Slot

TInv == TelemetryTypeOK /\ Written

\* The slots the model writes out of a key.
LEMMA SlotTypes ==
  ASSUME NEW k \in Keys
  PROVE  /\ [key |-> k, ok |-> TRUE, read |-> k] \in Slot
         /\ [key |-> k, ok |-> FALSE, read |-> NoKey] \in Slot
BY Zenon DEF Slot

\* What handing over the array may do: only written slots are reported.
LEMMA FlushTypes ==
  ASSUME TInv, Flush
  PROVE  reported' \subseteq Slot /\ repeated' \in BOOLEAN
BY Zenon DEF TInv, TelemetryTypeOK, Written, Flush, Callback

\* A value put into the array stays within it.
LEMMA PutTypes ==
  ASSUME TInv, NEW slot \in Slot, Put(slot)
  PROVE  /\ values' \in [Index -> Slot \cup {Uninitialized}]
         /\ bulk_count' \in 0 .. BULK_FIELDS_MAX
         /\ reported' \subseteq Slot /\ repeated' \in BOOLEAN
         /\ Written'
<1>1. NextSlot \in Index
  BY TelemetryConstants DEF TInv, TelemetryTypeOK, NextSlot, BatchFull, Index
<1>2. /\ values' = [values EXCEPT ![NextSlot] = slot]
      /\ bulk_count' = NextSlot + 1
  BY Zenon DEF Put
<1>3. values' \in [Index -> Slot \cup {Uninitialized}]
  BY <1>1, <1>2, Zenon DEF TInv, TelemetryTypeOK
<1>4. bulk_count' \in 0 .. BULK_FIELDS_MAX
  BY <1>1, <1>2, TelemetryConstants DEF Index
<1>5. reported' \subseteq Slot /\ repeated' \in BOOLEAN
  <2>1. CASE BatchFull
    BY <2>1, FlushTypes, Zenon DEF Put
  <2>2. CASE ~BatchFull
    BY <2>2, Zenon DEF Put, TInv, TelemetryTypeOK, repvars
  <2> QED BY <2>1, <2>2, Zenon
<1>6. ASSUME NEW i \in Index, i < bulk_count' PROVE values'[i] \in Slot
  <2>1. CASE i = NextSlot
    BY <2>1, <1>1, <1>2, Zenon DEF TInv, TelemetryTypeOK
  <2>2. CASE i # NextSlot
    <3>1. i < bulk_count
      BY <2>2, <1>6, <1>2, <1>1, TelemetryConstants DEF Index, NextSlot, TInv, TelemetryTypeOK
    <3> QED BY <3>1, <2>2, <1>1, <1>2, Zenon DEF TInv, TelemetryTypeOK, Written, Filled
  <2> QED BY <2>1, <2>2, Zenon
<1> QED BY <1>3, <1>4, <1>5, <1>6, Zenon DEF Written, Filled

\* Keys handed to a module are keys that module knows.
LEMMA ForTypes ==
  ASSUME TelemetryTypeOK, NEW keys \in SUBSET Keys
  PROVE  For("smi", keys) \subseteq SmiKeys /\ For("rocp", keys) \subseteq RocpKeys
<1>1. PICK rocp \in BOOLEAN : fields_id_module_ = ModuleOf(rocp)
  BY Zenon DEF TelemetryTypeOK
<1>2. ASSUME NEW k \in For("smi", keys) PROVE k \in SmiKeys
  <2>1. k \in Keys /\ k[2] \in DOMAIN ModuleOf(rocp) /\ ModuleOf(rocp)[k[2]] = "smi"
    BY <1>1, <1>2, Zenon DEF For
  <2>2. k[2] \in SmiFields
    BY <2>1, Zenon DEF ModuleOf
  <2> QED BY <2>1, <2>2, TelemetryConstants, Zenon DEF Keys, SmiKeys, RocpKeys
<1>3. ASSUME NEW k \in For("rocp", keys) PROVE k \in RocpKeys
  <2>1. k \in Keys /\ k[2] \in DOMAIN ModuleOf(rocp) /\ ModuleOf(rocp)[k[2]] = "rocp"
    BY <1>1, <1>3, Zenon DEF For
  <2>2. k[2] \notin SmiFields
    BY <2>1, Zenon DEF ModuleOf
  <2> QED BY <2>1, <2>2, Zenon DEF Keys, SmiKeys, RocpKeys
<1> QED BY <1>2, <1>3, Zenon

\* Every slot fetch_smi_field leaves behind is one of a field of that library.
LEMMA FetchedTypes ==
  ASSUME TelemetryTypeOK, NEW k \in SmiKeys, NEW old \in Slot \cup {Uninitialized}
  PROVE  Fetched(k) \subseteq Slot /\ NotFetched(k, old) \subseteq Slot
<1>1. Fetched(k) \subseteq Slot
  BY DEF Fetched, Slot, Keys
<1>2. k[1] \in GPUs
  BY Zenon DEF SmiKeys
<1>3. CASE old = Uninitialized
  BY <1>1, <1>2, <1>3 DEF NotFetched, Slot, Keys, SmiKeys
<1>4. CASE old # Uninitialized
  <2>1. old \in Slot /\ old.key \in Keys
    BY <1>4, Zenon DEF Slot
  <2>2. <<k[1], old.key[2]>> \in Keys
    BY <2>1, <1>2, Zenon DEF Keys, SmiKeys, RocpKeys
  <2> QED BY <1>1, <1>4, <2>1, <2>2 DEF NotFetched, Slot
<1> QED BY <1>3, <1>4, Zenon

\* A reading keeps the averaging buffer well typed.
LEMMA AverageTypes ==
  ASSUME NEW a \in [buffer : Seq(Nat), index : 0 .. buffer_length_k - 1], NEW v \in Nat
  PROVE  get_average(a, v) \in [buffer : Seq(Nat), index : 0 .. buffer_length_k - 1]
<1>1. a.buffer \in Seq(Nat) /\ a.index \in 0 .. buffer_length_k - 1
  BY Zenon
<1>2. (a.index + 1) % buffer_length_k \in 0 .. buffer_length_k - 1
  BY <1>1, TelemetryConstants
<1>3. CASE Len(a.buffer) < buffer_length_k
  <2>1. Append(a.buffer, v) \in Seq(Nat)
    BY <1>1
  <2> QED BY <1>2, <1>3, <2>1, Zenon DEF get_average
<1>4. CASE ~(Len(a.buffer) < buffer_length_k)
  <2>1. a.index + 1 \in 1 .. Len(a.buffer)
    BY <1>1, <1>4, TelemetryConstants
  <2>2. [a.buffer EXCEPT ![a.index + 1] = v] \in Seq(Nat)
    BY <1>1, <2>1, ExceptSeq, ZenonT(30)
  <2> QED BY <1>2, <1>4, <2>2, Zenon DEF get_average
<1> QED BY <1>3, <1>4, Zenon

\* At the start no slot is filled and every average is empty.
LEMMA InitTypes == TelemetryInit => TInv
<1> SUFFICES ASSUME TelemetryInit PROVE TInv
  BY Zenon
<1>1. average \in [RocpKeys -> [buffer : Seq(Nat), index : 0 .. buffer_length_k - 1]]
  <2>1. <<>> \in Seq(Nat) /\ 0 \in 0 .. buffer_length_k - 1
    BY EmptySeq, TelemetryConstants
  <2> QED BY <2>1, Zenon DEF TelemetryInit
<1>2. bulk_count \in 0 .. BULK_FIELDS_MAX /\ Written
  BY TelemetryConstants DEF TelemetryInit, Written, Filled, Index
<1>3. fetch \in [at : {"idle", "dispatch", "bulk", "smi", "rocp", "done"}, wanted : SUBSET Keys,
                 smi : SUBSET SmiKeys, rocp : SUBSET RocpKeys]
  BY Zenon DEF TelemetryInit, NoFetch
<1>4. fields_id_module_ \in {ModuleOf(rocp) : rocp \in BOOLEAN}
  BY Zenon DEF TelemetryInit
<1>5. values \in [Index -> Slot \cup {Uninitialized}]
  BY Zenon DEF TelemetryInit
<1>6. readings \in [RocpKeys -> Nat] /\ unwatched \in [RocpKeys -> Nat]
  BY Zenon DEF TelemetryInit
<1> QED BY <1>1, <1>2, <1>3, <1>4, <1>5, <1>6, Zenon DEF TelemetryInit, TInv, TelemetryTypeOK

\* The last batch of a module is handed over and the array given up.
LEMMA LastFlushTypes ==
  ASSUME TInv, LastFlush
  PROVE  TInv'
<1>1. reported' \subseteq Slot /\ repeated' \in BOOLEAN
  BY FlushTypes, Zenon DEF LastFlush
<1>2. values' \in [Index -> Slot \cup {Uninitialized}] /\ bulk_count' = 0 /\ Written'
  BY TelemetryConstants DEF LastFlush, EndModule, Written, Filled, Index
<1>3. fetch' \in [at : {"idle", "dispatch", "bulk", "smi", "rocp", "done"}, wanted : SUBSET Keys,
                  smi : SUBSET SmiKeys, rocp : SUBSET RocpKeys]
  BY Zenon DEF LastFlush, EndModule, TInv, TelemetryTypeOK
<1>4. UNCHANGED <<libvars, rs_ok, avgvars>>
  BY Zenon DEF LastFlush, EndModule
<1> QED BY <1>1, <1>2, <1>3, <1>4, TelemetryConstants
        DEF TInv, TelemetryTypeOK, libvars, avgvars

\* Every step keeps the types.
LEMMA NextTypes == TInv /\ [TelemetryNext]_telvars => TInv'
<1> SUFFICES ASSUME TInv, [TelemetryNext]_telvars PROVE TInv'
  BY Zenon
<1> USE DEF TInv
<1>1. ASSUME NEW keys \in SUBSET Keys, FieldsValueGet(keys) PROVE TInv'
  <2>1. fetch' \in [at : {"idle", "dispatch", "bulk", "smi", "rocp", "done"}, wanted : SUBSET Keys,
                    smi : SUBSET SmiKeys, rocp : SUBSET RocpKeys]
    BY <1>1, ForTypes, Zenon DEF FieldsValueGet
  <2> QED BY <1>1, <2>1, Zenon DEF FieldsValueGet, TelemetryTypeOK, Written, Filled, libvars, avgvars,
                            batchvars, repvars
<1>2. ASSUME NEW keys \in SUBSET Keys, FieldsUnwatch(keys) PROVE TInv'
  <2>1. ASSUME NEW a PROVE reset_average(a) \in [buffer : Seq(Nat), index : 0 .. buffer_length_k - 1]
    <3>1. <<>> \in Seq(Nat) /\ 0 \in 0 .. buffer_length_k - 1
      BY EmptySeq, TelemetryConstants
    <3> QED BY <3>1, Zenon DEF reset_average
  <2>2. average' \in [RocpKeys -> [buffer : Seq(Nat), index : 0 .. buffer_length_k - 1]]
    BY <1>2, <2>1, Zenon DEF FieldsUnwatch, TelemetryTypeOK
  <2>3. unwatched' \in [RocpKeys -> Nat]
    BY <1>2, Zenon DEF FieldsUnwatch, TelemetryTypeOK
  <2> QED BY <1>2, <2>2, <2>3, Zenon DEF FieldsUnwatch, TelemetryTypeOK, Written, Filled, libvars,
                                  batchvars, repvars
<1>3. ASSUME NEW pc \in {"bulk", "smi", "rocp"}, BeginModule(pc) PROVE TInv'
  BY <1>3, Zenon DEF BeginModule, TelemetryTypeOK, Written, Filled, libvars, avgvars, batchvars,
                     repvars
<1>4. CASE SmiBulk
  <2>1. PICK bulk \in SUBSET fetch.smi :
          /\ BulkResults(bulk)
          /\ Callback({[key |-> k, ok |-> TRUE, read |-> k] : k \in bulk}, FALSE)
          /\ fetch' = [fetch EXCEPT !.at = "smi", !.smi = LeftOver(fetch.smi, bulk)]
    BY <1>4, Zenon DEF SmiBulk
  <2>2. rs_ok' \in BOOLEAN
    BY <2>1, Zenon DEF BulkResults, TelemetryTypeOK
  <2>3. reported' \subseteq Slot /\ repeated' \in BOOLEAN
    <3>1. bulk \subseteq Keys
      BY <2>1, Zenon DEF TelemetryTypeOK, Keys
    <3>2. {[key |-> k, ok |-> TRUE, read |-> k] : k \in bulk} \subseteq Slot
      BY <3>1, SlotTypes, Zenon
    <3>3. reported' = reported \cup {[key |-> k, ok |-> TRUE, read |-> k] : k \in bulk}
      BY <2>1, Zenon DEF Callback
    <3>4. repeated' \in BOOLEAN
      BY <2>1, Zenon DEF Callback
    <3> QED BY <3>2, <3>3, <3>4, Zenon DEF TelemetryTypeOK
  <2>4. fetch' \in [at : {"idle", "dispatch", "bulk", "smi", "rocp", "done"}, wanted : SUBSET Keys,
                    smi : SUBSET SmiKeys, rocp : SUBSET RocpKeys]
    BY <2>1, Zenon DEF LeftOver, TelemetryTypeOK
  <2> QED BY <1>4, <2>2, <2>3, <2>4, Zenon DEF SmiBulk, TelemetryTypeOK, Written, Filled, libvars, avgvars,
                                        batchvars
<1>5. ASSUME NEW k \in SmiKeys, SmiFetch(k) PROVE TInv'
  <2>1. NextSlot \in Index
    BY TelemetryConstants DEF TelemetryTypeOK, NextSlot, BatchFull, Index
  <2>2. values[NextSlot] \in Slot \cup {Uninitialized}
    BY <2>1, Zenon DEF TelemetryTypeOK
  <2>3. PICK slot \in Slot : Put(slot)
    BY <1>5, <2>2, FetchedTypes, Zenon DEF SmiFetch
  <2>4. fetch' \in [at : {"idle", "dispatch", "bulk", "smi", "rocp", "done"}, wanted : SUBSET Keys,
                    smi : SUBSET SmiKeys, rocp : SUBSET RocpKeys]
    BY <1>5, Zenon DEF SmiFetch, TelemetryTypeOK
  <2> QED BY <1>5, <2>3, <2>4, PutTypes, Zenon DEF SmiFetch, TelemetryTypeOK, libvars, avgvars
<1>6. ASSUME NEW k \in RocpKeys, RocpFetch(k) PROVE TInv'
  <2> DEFINE slot == [key |-> k, ok |-> TRUE, read |-> k]
  <2>1. slot \in Slot /\ Put(slot)
    BY <1>6, Zenon DEF RocpFetch, Slot, Keys
  <2>2. readings' \in [RocpKeys -> Nat]
    BY <1>6 DEF RocpFetch, TelemetryTypeOK
  <2>3. average' \in [RocpKeys -> [buffer : Seq(Nat), index : 0 .. buffer_length_k - 1]]
    <3>1. get_average(average[k], readings[k] + 1)
             \in [buffer : Seq(Nat), index : 0 .. buffer_length_k - 1]
      <4>1. average[k] \in [buffer : Seq(Nat), index : 0 .. buffer_length_k - 1]
        BY Zenon DEF TelemetryTypeOK
      <4>2. readings[k] + 1 \in Nat
        BY DEF TelemetryTypeOK
      <4> QED BY <4>1, <4>2, AverageTypes, Zenon
    <3> QED BY <1>6, <3>1, Zenon DEF RocpFetch, TelemetryTypeOK
  <2>4. fetch' \in [at : {"idle", "dispatch", "bulk", "smi", "rocp", "done"}, wanted : SUBSET Keys,
                    smi : SUBSET SmiKeys, rocp : SUBSET RocpKeys]
    BY <1>6, Zenon DEF RocpFetch, TelemetryTypeOK
  <2> HIDE DEF slot
  <2> QED BY <1>6, <2>1, <2>2, <2>3, <2>4, PutTypes, Zenon DEF RocpFetch, TelemetryTypeOK, libvars
<1>7. CASE ReportUnsupported
  <2>1. reported' \subseteq Slot /\ repeated' \in BOOLEAN
    <3> DEFINE S == {[key |-> k, ok |-> FALSE, read |-> NoKey] : k \in Unsupported(fetch.wanted)}
    <3>1. Unsupported(fetch.wanted) \subseteq Keys
      BY Zenon DEF TelemetryTypeOK, Unsupported
    <3>2. S \subseteq Slot
      BY <3>1, SlotTypes, Zenon
    <3>3. Callback(S, FALSE)
      BY <1>7, Zenon DEF ReportUnsupported
    <3>4. reported' = reported \cup S /\ repeated' \in BOOLEAN
      BY <3>3, Zenon DEF Callback
    <3> QED BY <3>2, <3>4, Zenon DEF TelemetryTypeOK
  <2> QED BY <1>7, <2>1, Zenon DEF ReportUnsupported, TelemetryTypeOK, Written, Filled, libvars,
                                   avgvars, batchvars
<1>8. CASE Return
  BY <1>8, Zenon DEF Return, NoFetch, TelemetryTypeOK, Written, Filled, libvars, avgvars, batchvars
<1>9. CASE UNCHANGED telvars
  BY <1>9, Zenon DEF telvars, TelemetryTypeOK, Written, Filled, libvars, avgvars, batchvars, repvars
<1>10. CASE SmiEnd \/ RocpEnd
  BY <1>10, LastFlushTypes, Zenon DEF SmiEnd, RocpEnd
<1>11. CASE SmiBegin \/ RocpBegin
  BY <1>11, <1>3, Zenon DEF SmiBegin, RocpBegin
<1> QED BY <1>1, <1>2, <1>4, <1>5, <1>6, <1>7, <1>8, <1>9, <1>10, <1>11, Zenon DEF TelemetryNext

\* The state of a call stays well typed, and bulk_count within the array,
\* whatever the size of a batch.
THEOREM TelemetryTypeCorrect == TelemetrySpec => []TelemetryTypeOK
<1>1. TInv => TelemetryTypeOK
  BY Zenon DEF TInv
<1> QED BY <1>1, InitTypes, NextTypes, PTL DEF TelemetrySpec

-----------------------------------------------------------------------------
(* The averaging buffer *)

Average == [buffer : Seq(Nat), index : 0 .. buffer_length_k - 1]

\* The index goes round the buffer.
LEMMA NextIndex ==
  ASSUME NEW n \in Nat \ {0}, NEW j \in 0 .. n - 1
  PROVE  (j + 1) % n = IF j + 1 = n THEN 0 ELSE j + 1
<1>1. CASE j + 1 = n
  BY <1>1
<1>2. CASE j + 1 # n
  BY <1>2
<1> QED BY <1>1, <1>2, Zenon

\* A full buffer has one reading replaced.
LEMMA Overwrite ==
  ASSUME NEW q \in Seq(Nat), NEW p \in 1 .. Len(q), NEW v \in Nat,
         NEW e, e = [q EXCEPT ![p] = v]
  PROVE  /\ Len(e) = Len(q)
         /\ \A i \in 1 .. Len(q) : e[i] = IF i = p THEN v ELSE q[i]
BY ExceptSeq, SMT

\* A reading takes the place of the oldest one, or is added at the end.
LEMMA RingStep ==
  ASSUME NEW a \in Average, NEW r \in Nat, NEW s \in Nat, Ring(a, r, s)
  PROVE  Ring(get_average(a, r + 1), r + 1, s)
<1> DEFINE b == get_average(a, r + 1)
           n == Len(a.buffer)
           j == a.index
<1> SUFFICES Ring(b, r + 1, s)
  BY Zenon
<1>1. a.buffer \in Seq(Nat) /\ n \in Nat /\ j \in 0 .. buffer_length_k - 1
  BY LenProperties, Zenon DEF Average
<1>2. buffer_length_k \in Nat \ {0}
  BY TelemetryConstants, Zenon
<1>3. b.index = IF j + 1 = buffer_length_k THEN 0 ELSE j + 1
  <2>1. (j + 1) % buffer_length_k = IF j + 1 = buffer_length_k THEN 0 ELSE j + 1
    BY <1>1, <1>2, NextIndex, Zenon
  <2> QED BY <2>1, Zenon DEF get_average
<1>4. CASE n < buffer_length_k
  <2>1. j = n /\ r - s = n /\ \A i \in 1 .. n : a.buffer[i] = s + i
    BY <1>4, <1>1, <1>2, SMTT(30) DEF Ring
  <2>2. b.buffer = Append(a.buffer, r + 1)
    BY <1>4, Zenon DEF get_average
  <2>3. /\ Len(b.buffer) = n + 1
        /\ \A i \in 1 .. n : b.buffer[i] = a.buffer[i]
        /\ b.buffer[n + 1] = r + 1
    BY <2>2, <1>1, SMTT(60)
  <2>4. \A i \in 1 .. n + 1 : b.buffer[i] = s + i
    <3> HIDE DEF b, n, j
    <3> TAKE i \in 1 .. n + 1
    <3>1. CASE i \in 1 .. n
      BY <3>1, <2>1, <2>3, Zenon
    <3>2. CASE i = n + 1
      <4>1. r + 1 = s + (n + 1)
        BY <2>1, <1>1
      <4> QED BY <3>2, <4>1, <2>3, Zenon
    <3> QED BY <3>1, <3>2, <1>1, SMTT(60)
  <2> HIDE DEF b, n, j
  <2>5. CASE n + 1 < buffer_length_k
    BY <2>1, <2>3, <2>4, <2>5, <1>1, <1>2, <1>3, SMTT(30) DEF Ring
  <2>6. CASE n + 1 = buffer_length_k
    <3>1. b.index = 0
      BY <2>1, <2>6, <1>3, Zenon
    <3> QED BY <2>1, <2>3, <2>4, <2>6, <3>1, <1>1, <1>2, SMTT(60) DEF Ring
  <2> QED BY <1>1, <1>2, <1>4, <2>5, <2>6
<1>5. CASE ~(n < buffer_length_k)
  <2>1. /\ n = buffer_length_k /\ r - s >= n
        /\ \A i \in 1 .. n : a.buffer[i] = IF i <= j THEN r - j + i ELSE r - j - n + i
    BY <1>5, <1>1, <1>2, Zenon DEF Ring
  <2>2. b.buffer = [a.buffer EXCEPT ![j + 1] = r + 1]
    BY <1>5, Zenon DEF get_average
  <2>3. j + 1 \in 1 .. n
    BY <2>1, <1>1, <1>2, SMTT(60)
  <2>4. /\ Len(b.buffer) = n
        /\ \A i \in 1 .. n : b.buffer[i] = IF i = j + 1 THEN r + 1 ELSE a.buffer[i]
    <3>1. r + 1 \in Nat
      OBVIOUS
    <3> HIDE DEF b, j
    <3> QED BY <3>1, <2>2, <2>3, <1>1, Overwrite, SMTT(60)
  <2>5. b.index \in Nat
    BY <1>1, <1>3
  <2>6. ASSUME NEW i \in 1 .. n
        PROVE  b.buffer[i] = IF i <= b.index THEN r + 1 - b.index + i ELSE r + 1 - b.index - n + i
    <3> HIDE DEF b, n, j
    <3>1. CASE i = j + 1
      <4>1. b.buffer[i] = r + 1
        BY <3>1, <2>4, Zenon
      <4>2. b.index = IF i = n THEN 0 ELSE i
        BY <3>1, <2>1, <1>3, Zenon
      <4>3. n \in Nat /\ i \in Nat /\ i <= n
        BY <1>1
      <4>4. CASE i = n
        <5>1. ~(i <= 0) /\ r + 1 = r + 1 - 0 - n + i
          BY <4>3, <4>4
        <5> QED BY <4>1, <4>2, <4>4, <5>1, Zenon
      <4>5. CASE i # n
        <5>1. i <= i /\ r + 1 = r + 1 - i + i
          BY <4>3
        <5> QED BY <4>1, <4>2, <4>5, <5>1, Zenon
      <4> QED BY <4>4, <4>5, Zenon
    <3>2. CASE i # j + 1
      <4>1. b.buffer[i] = IF i <= j THEN r - j + i ELSE r - j - n + i
        BY <3>2, <2>1, <2>4, Zenon
      <4> QED BY <3>2, <4>1, <2>1, <1>1, <1>3
    <3> QED BY <3>1, <3>2, Zenon
  <2> HIDE DEF b, n, j
  <2> QED BY <2>1, <2>4, <2>5, <2>6, <1>1, <1>2, SMTT(60) DEF Ring
<1> QED BY <1>4, <1>5, Zenon

\* A buffer in ring order holds exactly the most recent readings.
LEMMA RingIsRecent ==
  ASSUME NEW a \in Average, NEW r \in Nat, NEW s \in Nat, Ring(a, r, s)
  PROVE  LET n == Len(a.buffer)
         IN  /\ n = IF r - s < buffer_length_k THEN r - s ELSE buffer_length_k
             /\ {a.buffer[i] : i \in 1 .. n} = (r - n + 1) .. r
<1> DEFINE n == Len(a.buffer)
           j == a.index
<1>1. n \in Nat /\ j \in 0 .. buffer_length_k - 1 /\ buffer_length_k \in Nat \ {0}
  BY LenProperties, TelemetryConstants, Zenon DEF Average
<1>2. CASE n < buffer_length_k
  <2>1. r - s = n /\ \A i \in 1 .. n : a.buffer[i] = s + i
    BY <1>1, <1>2 DEF Ring
  <2> HIDE DEF n
  <2>2. ASSUME NEW v \in (r - n + 1) .. r PROVE \E i \in 1 .. n : a.buffer[i] = v
    <3>1. v - s \in 1 .. n /\ a.buffer[v - s] = v
      BY <1>1, <2>1
    <3> QED BY <3>1, Zenon
  <2>3. ASSUME NEW i \in 1 .. n PROVE a.buffer[i] \in (r - n + 1) .. r
    BY <1>1, <2>1
  <2>4. n = IF r - s < buffer_length_k THEN r - s ELSE buffer_length_k
    BY <1>1, <1>2, <2>1, Zenon
  <2> QED BY <2>2, <2>3, <2>4, Zenon DEF n
<1>3. CASE ~(n < buffer_length_k)
  <2>1. /\ n = buffer_length_k /\ r - s >= n
        /\ \A i \in 1 .. n : a.buffer[i] = IF i <= j THEN r - j + i ELSE r - j - n + i
    BY <1>1, <1>3, Zenon DEF Ring
  <2> HIDE DEF n, j
  <2>2. ASSUME NEW v \in (r - n + 1) .. r PROVE \E i \in 1 .. n : a.buffer[i] = v
    <3>1. CASE v > r - j
      <4>1. v - r + j \in 1 .. n /\ v - r + j <= j
        BY <1>1, <2>1, <3>1
      <4>2. a.buffer[v - r + j] = v
        BY <1>1, <2>1, <4>1
      <4> QED BY <4>1, <4>2, Zenon
    <3>2. CASE ~(v > r - j)
      <4>1. v - r + j + n \in 1 .. n /\ ~(v - r + j + n <= j)
        BY <1>1, <2>1, <3>2
      <4>2. a.buffer[v - r + j + n] = v
        BY <1>1, <2>1, <4>1, SMTT(30)
      <4> QED BY <4>1, <4>2, Zenon
    <3> QED BY <3>1, <3>2, Zenon
  <2>3. ASSUME NEW i \in 1 .. n PROVE a.buffer[i] \in (r - n + 1) .. r
    BY <1>1, <2>1
  <2>4. n = IF r - s < buffer_length_k THEN r - s ELSE buffer_length_k
    BY <1>1, <2>1
  <2> QED BY <2>2, <2>3, <2>4, Zenon DEF n
<1> QED BY <1>2, <1>3, Zenon

\* The order of the buffer is kept by every step.
LEMMA NextRings == TInv /\ Rings /\ [TelemetryNext]_telvars => Rings'
<1> SUFFICES ASSUME TInv, Rings, [TelemetryNext]_telvars PROVE Rings'
  BY Zenon
<1>1. /\ average \in [RocpKeys -> Average]
      /\ readings \in [RocpKeys -> Nat] /\ unwatched \in [RocpKeys -> Nat]
  BY Zenon DEF TInv, TelemetryTypeOK, Average
<1>2. CASE UNCHANGED avgvars
  BY <1>2, Zenon DEF Rings, avgvars
<1>3. ASSUME NEW k \in RocpKeys, RocpFetch(k) PROVE Rings'
  <2>1. /\ average' = [average EXCEPT ![k] = get_average(average[k], readings[k] + 1)]
        /\ readings' = [readings EXCEPT ![k] = readings[k] + 1]
        /\ unwatched' = unwatched
    BY <1>3, Zenon DEF RocpFetch
  <2>2. ASSUME NEW m \in RocpKeys PROVE Ring(average'[m], readings'[m], unwatched'[m])
    <3>1. CASE m = k
      <4>1. Ring(get_average(average[k], readings[k] + 1), readings[k] + 1, unwatched[k])
        BY <1>1, RingStep, Zenon DEF Rings
      <4> QED BY <1>1, <2>1, <3>1, <4>1, Zenon
    <3>2. CASE m # k
      BY <1>1, <2>1, <3>2, Zenon DEF Rings
    <3> QED BY <3>1, <3>2, Zenon
  <2> QED BY <2>2, Zenon DEF Rings
<1>4. ASSUME NEW keys \in SUBSET Keys, FieldsUnwatch(keys) PROVE Rings'
  <2>1. ASSUME NEW m \in RocpKeys PROVE Ring(average'[m], readings'[m], unwatched'[m])
    <3>1. CASE m \in For("rocp", keys)
      <4>1. average'[m] = reset_average(average[m]) /\ unwatched'[m] = readings[m] /\ readings' = readings
        BY <1>4, <3>1, Zenon DEF FieldsUnwatch
      <4>2. Ring(reset_average(average[m]), readings[m], readings[m])
        BY <1>1, TelemetryConstants DEF Ring, reset_average
      <4> QED BY <4>1, <4>2, Zenon
    <3>2. CASE m \notin For("rocp", keys)
      BY <1>4, <3>2, Zenon DEF FieldsUnwatch, Rings
    <3> QED BY <3>1, <3>2, Zenon
  <2> QED BY <2>1, Zenon DEF Rings
<1>5. UNCHANGED avgvars \/ (\E k \in RocpKeys : RocpFetch(k))
         \/ (\E keys \in SUBSET Keys : FieldsUnwatch(keys))
  BY Zenon DEF TelemetryNext, FieldsValueGet, SmiBegin, SmiBulk, SmiFetch, SmiEnd, RocpBegin,
         RocpEnd, ReportUnsupported, Return, BeginModule, LastFlush, EndModule, telvars
<1> QED BY <1>2, <1>3, <1>4, <1>5, Zenon

\* The average of a profiler field is over its most recent readings since it
\* was last unwatched, for a buffer of any length.
THEOREM AveragesAreRecent == TelemetrySpec => []AverageIsRecent
<1>1. TelemetryInit => Rings
  BY TelemetryConstants DEF TelemetryInit, Rings, Ring
<1>2. TInv /\ Rings => AverageIsRecent
  <2> SUFFICES ASSUME TInv, Rings, NEW k \in RocpKeys
               PROVE  LET n == Len(average[k].buffer)
                      IN  /\ n = IF readings[k] - unwatched[k] < buffer_length_k
                                 THEN readings[k] - unwatched[k] ELSE buffer_length_k
                          /\ {average[k].buffer[i] : i \in 1 .. n}
                               = (readings[k] - n + 1) .. readings[k]
    BY Zenon DEF AverageIsRecent
  <2>1. average[k] \in Average /\ readings[k] \in Nat /\ unwatched[k] \in Nat
    BY Zenon DEF TInv, TelemetryTypeOK, Average
  <2>2. Ring(average[k], readings[k], unwatched[k])
    BY Zenon DEF Rings
  <2> QED BY <2>1, <2>2, RingIsRecent, Zenon
<1> QED BY <1>1, <1>2, InitTypes, NextTypes, NextRings, PTL DEF TelemetrySpec

-----------------------------------------------------------------------------
(* Every field once *)

\* What a callback on fresh values adds to the keys reported.
LEMMA CallbackKeys ==
  ASSUME ~repeated, NEW S, Callback(S, FALSE), {s.key : s \in S} \cap Reported = {}
  PROVE  Reported' = Reported \cup {s.key : s \in S} /\ ~repeated'
BY Zenon DEF Callback, Reported

\* Handing over the array moves its keys to the reported ones.
LEMMA FlushKeys ==
  ASSUME Batched, Flush
  PROVE  Reported' = Reported \cup InBatch /\ ~repeated'
<1>1. ~\E i, j \in Filled : i # j /\ values[i].key = values[j].key
  BY Zenon DEF Batched
<1>2. Callback({values[i] : i \in Filled}, FALSE)
  BY <1>1, Zenon DEF Flush, Callback
<1>3. {s.key : s \in {values[i] : i \in Filled}} = InBatch
  BY Zenon DEF InBatch
<1> QED BY <1>2, <1>3, CallbackKeys, Zenon DEF Batched

\* Putting a fresh key into the array: no other key is lost or moved twice.
LEMMA PutKeys ==
  ASSUME TInv, Batched, NEW slot \in Slot, Put(slot), slot.key \notin Reported \cup InBatch
  PROVE  /\ Batched'
         /\ Reported' \cup InBatch' = Reported \cup InBatch \cup {slot.key}
<1>1. NextSlot \in Index /\ bulk_count \in 0 .. BULK_FIELDS_MAX /\ BULK_FIELDS_MAX \in Nat
  BY TelemetryConstants DEF TInv, TelemetryTypeOK, NextSlot, BatchFull, Index
<1>2. /\ \A i \in Index : values'[i] = IF i = NextSlot THEN slot ELSE values[i]
      /\ bulk_count' = NextSlot + 1
  BY <1>1, Zenon DEF Put, TInv, TelemetryTypeOK
<1>3. CASE BatchFull
  <2>1. Reported' = Reported \cup InBatch /\ ~repeated'
    BY <1>3, FlushKeys, Zenon DEF Put
  <2>2. NextSlot = 0
    BY <1>3, Zenon DEF NextSlot
  <2>3. Filled' = {0}
    BY <2>2, <1>1, <1>2 DEF Filled, Index
  <2>4. InBatch' = {slot.key}
    <3>1. values'[0] = slot
      BY <2>2, <1>1, <1>2, Zenon
    <3> QED BY <2>3, <3>1, Zenon DEF InBatch
  <2> QED BY <2>1, <2>3, <2>4, Zenon DEF Batched
<1>4. CASE ~BatchFull
  <2>1. reported' = reported /\ repeated' = repeated
    BY <1>4, Zenon DEF Put, repvars
  <2>2. NextSlot = bulk_count
    BY <1>4, Zenon DEF NextSlot
  <2>3. Filled' = Filled \cup {bulk_count} /\ bulk_count \notin Filled /\ bulk_count \in Index
    BY <2>2, <1>1, <1>2 DEF Filled, Index
  <2>4. values'[bulk_count] = slot /\ \A i \in Filled : values'[i] = values[i]
    BY <2>2, <2>3, <1>2, Zenon DEF Filled
  <2>5. InBatch' = InBatch \cup {slot.key}
    <3>1. InBatch' = {values'[i].key : i \in Filled'}
      BY Zenon DEF InBatch
    <3> QED BY <3>1, <2>3, <2>4, Zenon DEF InBatch
  <2>6. Reported' = Reported
    BY <2>1, Zenon DEF Reported
  <2>7. ASSUME NEW i \in Filled', NEW j \in Filled', values'[i].key = values'[j].key PROVE i = j
    <3>1. \A m \in Filled : values[m].key # slot.key
      BY Zenon DEF InBatch
    <3> QED BY <2>3, <2>4, <2>7, <3>1, Zenon DEF Batched
  <2> QED BY <2>1, <2>5, <2>6, <2>7, Zenon DEF Batched
<1> QED BY <1>3, <1>4, Zenon

\* The modules and the unsupported fields have no key in common.
LEMMA Partition ==
  ASSUME NEW keys
  PROVE  /\ For("smi", keys) \cap For("rocp", keys) = {}
         /\ For("smi", keys) \cap Unsupported(keys) = {}
         /\ For("rocp", keys) \cap Unsupported(keys) = {}
         /\ TelemetryTypeOK => keys = For("smi", keys) \cup For("rocp", keys) \cup Unsupported(keys)
<1>1. ASSUME TelemetryTypeOK, NEW f \in DOMAIN fields_id_module_
      PROVE  fields_id_module_[f] \in {"smi", "rocp"}
  <2>1. PICK rocp \in BOOLEAN : fields_id_module_ = ModuleOf(rocp)
    BY <1>1, Zenon DEF TelemetryTypeOK
  <2> QED BY <1>1, <2>1, Zenon DEF ModuleOf
<1> QED BY <1>1, Zenon DEF For, Unsupported

\* The keys of the slots made out of a set of keys.
LEMMA SlotKeys ==
  ASSUME NEW K
  PROVE  /\ {s.key : s \in {[key |-> k, ok |-> TRUE, read |-> k] : k \in K}} = K
         /\ {s.key : s \in {[key |-> k, ok |-> FALSE, read |-> NoKey] : k \in K}} = K
<1> DEFINE Good == {[key |-> k, ok |-> TRUE, read |-> k] : k \in K}
           Bad == {[key |-> k, ok |-> FALSE, read |-> NoKey] : k \in K}
<1>1. \A s \in Good : s.key \in K
  OBVIOUS
<1>2. \A s \in Bad : s.key \in K
  OBVIOUS
<1>3. ASSUME NEW k \in K PROVE (\E s \in Good : s.key = k) /\ \E s \in Bad : s.key = k
  <2> DEFINE g == [key |-> k, ok |-> TRUE, read |-> k]
             b == [key |-> k, ok |-> FALSE, read |-> NoKey]
  <2>1. g \in Good /\ b \in Bad
    BY Zenon
  <2>2. g.key = k /\ b.key = k
    BY Zenon
  <2> HIDE DEF g, b, Good, Bad
  <2> QED BY <2>1, <2>2, Zenon
<1> HIDE DEF Good, Bad
<1>4. {s.key : s \in Good} = K /\ {s.key : s \in Bad} = K
  BY <1>1, <1>2, <1>3, Zenon
<1> QED BY <1>4, Zenon DEF Good, Bad

\* With no slot filled, no key is in the array.
LEMMA NothingFilled == bulk_count = 0 => Filled = {} /\ InBatch = {}
BY TelemetryConstants, SMTT(60) DEF Filled, InBatch, Index

\* A value fetched from its module goes to the array and off the list.
LEMMA FetchAccounted ==
  ASSUME TInv, Accounted, NEW k, NEW slot \in Slot, slot.key = k, Put(slot),
         fetch.at \in {"smi", "rocp"},
         k \in fetch.smi \/ k \in fetch.rocp,
         fetch'.at = fetch.at, fetch'.wanted = fetch.wanted,
         fetch'.smi = fetch.smi \ {k}, fetch'.rocp = fetch.rocp \ {k},
         UNCHANGED libvars
  PROVE  Accounted'
<1>1. k \notin Reported \cup InBatch
  BY Zenon DEF Accounted
<1>2. Batched' /\ Reported' \cup InBatch' = Reported \cup InBatch \cup {k}
  BY <1>1, PutKeys, Zenon DEF Accounted
<1>3. /\ For("smi", fetch.wanted)' = For("smi", fetch.wanted)
      /\ For("rocp", fetch.wanted)' = For("rocp", fetch.wanted)
      /\ Unsupported(fetch.wanted)' = Unsupported(fetch.wanted)
  BY Zenon DEF For, Unsupported, libvars
<1>4. k \notin Unsupported(fetch.wanted)
  BY Partition, ZenonT(30) DEF Accounted
<1> QED BY <1>2, <1>3, <1>4, SMTT(60) DEF Accounted, Busy, At

\* A module that has fetched all its keys leaves none behind in the array.
LEMMA EndAccounted ==
  ASSUME TInv, Accounted, LastFlush, fetch.at \in {"smi", "rocp"}
  PROVE  Accounted'
<1>1. Reported' = Reported \cup InBatch /\ ~repeated'
  BY FlushKeys, Zenon DEF LastFlush, Accounted
<1>2. bulk_count' = 0 /\ Filled' = {} /\ InBatch' = {}
  BY TelemetryConstants DEF LastFlush, EndModule, Filled, InBatch, Index
<1>3. /\ fetch'.at = "dispatch" /\ fetch'.wanted = fetch.wanted
      /\ fetch'.smi = fetch.smi /\ fetch'.rocp = fetch.rocp
  BY Zenon DEF LastFlush, EndModule, TInv, TelemetryTypeOK
<1>4. /\ For("smi", fetch.wanted)' = For("smi", fetch.wanted)
      /\ For("rocp", fetch.wanted)' = For("rocp", fetch.wanted)
      /\ Unsupported(fetch.wanted)' = Unsupported(fetch.wanted)
  BY <1>3, Zenon DEF For, Unsupported, libvars, LastFlush, EndModule
<1> QED BY <1>1, <1>2, <1>3, <1>4, SMTT(60) DEF Accounted, Batched, Busy, At

\* Every step keeps the account, as long as a GPU that was found stays found.
LEMMA NextAccounted ==
  ASSUME HandleMayFail = FALSE, TInv, Accounted, [TelemetryNext]_telvars
  PROVE  Accounted'
<1>1. ASSUME NEW keys \in SUBSET Keys, FieldsValueGet(keys) PROVE Accounted'
  <2>1. fetch' = [at |-> "dispatch", wanted |-> keys,
                  smi |-> For("smi", keys), rocp |-> For("rocp", keys)]
    BY <1>1, Zenon DEF FieldsValueGet
  <2>2. UNCHANGED <<libvars, batchvars, repvars>> /\ At("idle")
    BY <1>1, Zenon DEF FieldsValueGet
  <2>3. bulk_count' = 0 /\ Reported' = {} /\ InBatch' = {} /\ Batched'
    <3>1. bulk_count = 0 /\ reported = {} /\ Batched
      BY <2>2, Zenon DEF Accounted, At
    <3> QED BY <3>1, <2>2, NothingFilled, Zenon DEF Reported, InBatch, Batched, Filled, batchvars, repvars
  <2>4. /\ For("smi", fetch.wanted)' = For("smi", keys)
        /\ For("rocp", fetch.wanted)' = For("rocp", keys)
        /\ Unsupported(fetch.wanted)' = Unsupported(keys)
    BY <2>1, <2>2, Zenon DEF For, Unsupported, libvars
  <2>5. keys = For("smi", keys) \cup For("rocp", keys) \cup Unsupported(keys)
    BY Partition, Zenon DEF TInv
  <2> QED BY <2>1, <2>3, <2>4, <2>5, ZenonT(30) DEF Accounted, Busy, At
<1>2. ASSUME UNCHANGED <<libvars, fetch, batchvars, repvars>> PROVE Accounted'
  BY <1>2 DEF Accounted, Batched, Reported, InBatch, Filled, Busy, At, For, Unsupported, libvars,
              batchvars, repvars
<1>3. ASSUME NEW pc \in {"bulk", "smi", "rocp"}, BeginModule(pc), At("dispatch") PROVE Accounted'
  <2>1. /\ fetch'.at = pc /\ fetch'.wanted = fetch.wanted
        /\ fetch'.smi = fetch.smi /\ fetch'.rocp = fetch.rocp
    BY <1>3, Zenon DEF BeginModule, TInv, TelemetryTypeOK
  <2>2. Batched' /\ Reported' = Reported /\ InBatch' = InBatch /\ bulk_count' = bulk_count
    BY <1>3, ZenonT(60) DEF BeginModule, Accounted, Batched, Reported, InBatch, Filled, batchvars, repvars
  <2>3. /\ For("smi", fetch.wanted)' = For("smi", fetch.wanted)
        /\ For("rocp", fetch.wanted)' = For("rocp", fetch.wanted)
        /\ Unsupported(fetch.wanted)' = Unsupported(fetch.wanted)
    BY <1>3, <2>1, Zenon DEF BeginModule, For, Unsupported, libvars
  <2> QED BY <1>3, <2>1, <2>2, <2>3, Zenon DEF Accounted, Busy, At
<1>4. CASE SmiBulk
  <2>1. PICK bulk \in SUBSET fetch.smi :
          /\ Callback({[key |-> k, ok |-> TRUE, read |-> k] : k \in bulk}, FALSE)
          /\ fetch' = [fetch EXCEPT !.at = "smi", !.smi = LeftOver(fetch.smi, bulk)]
    BY <1>4, Zenon DEF SmiBulk
  <2>2. Reported' = Reported \cup bulk /\ ~repeated'
    <3> DEFINE S == {[key |-> k, ok |-> TRUE, read |-> k] : k \in bulk}
    <3>1. {s.key : s \in S} = bulk
      BY SlotKeys, Zenon
    <3>2. bulk \cap Reported = {} /\ ~repeated
      BY Zenon DEF Accounted, Batched
    <3> HIDE DEF S
    <3> QED BY <2>1, <3>1, <3>2, CallbackKeys, Zenon DEF S
  <2>3. bulk_count' = 0 /\ InBatch' = {} /\ Filled' = {} /\ InBatch = {}
    <3>1. bulk_count = 0 /\ UNCHANGED batchvars
      BY <1>4, Zenon DEF SmiBulk, Accounted, At
    <3> QED BY <3>1, NothingFilled, Zenon DEF batchvars, InBatch, Filled
  <2>4. /\ fetch'.at = "smi" /\ fetch'.wanted = fetch.wanted
        /\ fetch'.smi = fetch.smi \ bulk /\ fetch'.rocp = fetch.rocp
    BY <2>1, Zenon DEF LeftOver, TInv, TelemetryTypeOK
  <2>5. /\ For("smi", fetch.wanted)' = For("smi", fetch.wanted)
        /\ For("rocp", fetch.wanted)' = For("rocp", fetch.wanted)
        /\ Unsupported(fetch.wanted)' = Unsupported(fetch.wanted)
    BY <1>4, <2>4, Zenon DEF SmiBulk, For, Unsupported, libvars
  <2>6. Busy /\ Busy'
    BY <1>4, <2>4, Zenon DEF SmiBulk, Busy, At
  <2>7. /\ bulk \subseteq For("smi", fetch.wanted)
        /\ bulk \cap fetch.rocp = {} /\ bulk \cap Unsupported(fetch.wanted) = {}
    BY Partition, Zenon DEF Accounted
  <2>8. Batched'
    BY <2>2, <2>3, Zenon DEF Batched
  <2>9. /\ fetch'.smi \cap Reported' = {} /\ fetch'.rocp \cap Reported' = {}
        /\ Unsupported(fetch.wanted) \cap Reported' = {}
    BY <2>2, <2>3, <2>4, <2>6, <2>7, Zenon DEF Accounted
  <2>10. fetch.wanted = Reported' \cup fetch'.smi \cup fetch'.rocp \cup Unsupported(fetch.wanted)
    BY <2>2, <2>3, <2>4, <2>6, Zenon DEF Accounted
  <2>11. /\ fetch'.smi \subseteq For("smi", fetch.wanted)
         /\ fetch'.rocp \subseteq For("rocp", fetch.wanted)
    BY <2>4, Zenon DEF Accounted
  <2> QED BY <2>3, <2>4, <2>5, <2>8, <2>9, <2>10, <2>11, ZenonT(60) DEF Accounted, At
<1>5. ASSUME NEW k \in SmiKeys, SmiFetch(k) PROVE Accounted'
  <2>1. PICK slot \in Fetched(k) : Put(slot)
    BY <1>5, Zenon DEF SmiFetch
  <2>2. slot \in Slot /\ slot.key = k
    <3>1. k \in Keys
      BY Zenon DEF Keys
    <3>2. slot = [key |-> k, ok |-> TRUE, read |-> k] \/ slot = [key |-> k, ok |-> FALSE, read |-> NoKey]
      BY <2>1, Zenon DEF Fetched
    <3>3. slot.key = k
      BY <3>2
    <3>4. slot \in Slot
      BY <3>1, <3>2, SlotTypes, Zenon
    <3> QED BY <3>3, <3>4, Zenon
  <2>3. k \notin fetch.rocp
    BY <1>5, Partition, Zenon DEF SmiFetch, Accounted
  <2>4. /\ fetch'.at = fetch.at /\ fetch'.wanted = fetch.wanted
        /\ fetch'.smi = fetch.smi \ {k} /\ fetch'.rocp = fetch.rocp \ {k}
    BY <1>5, <2>3, Zenon DEF SmiFetch, TInv, TelemetryTypeOK
  <2>5. fetch.at \in {"smi", "rocp"} /\ k \in fetch.smi /\ UNCHANGED libvars
    BY <1>5, Zenon DEF SmiFetch, At
  <2> QED BY <2>1, <2>2, <2>4, <2>5, FetchAccounted, Zenon
<1>6. ASSUME NEW k \in RocpKeys, RocpFetch(k) PROVE Accounted'
  <2> DEFINE slot == [key |-> k, ok |-> TRUE, read |-> k]
  <2>1. slot \in Slot /\ slot.key = k /\ Put(slot)
    BY <1>6, SlotTypes, Zenon DEF RocpFetch, Keys
  <2>2. k \notin fetch.smi
    BY <1>6, Partition, Zenon DEF RocpFetch, Accounted
  <2>3. /\ fetch'.at = fetch.at /\ fetch'.wanted = fetch.wanted
        /\ fetch'.smi = fetch.smi \ {k} /\ fetch'.rocp = fetch.rocp \ {k}
    BY <1>6, <2>2, ZenonT(30) DEF RocpFetch, TInv, TelemetryTypeOK
  <2>4. fetch.at \in {"smi", "rocp"} /\ k \in fetch.rocp /\ UNCHANGED libvars
    BY <1>6, Zenon DEF RocpFetch, At
  <2> HIDE DEF slot
  <2> QED BY <2>1, <2>3, <2>4, FetchAccounted, Zenon
<1>7. CASE ReportUnsupported
  <2> DEFINE S == {[key |-> k, ok |-> FALSE, read |-> NoKey] : k \in Unsupported(fetch.wanted)}
  <2>1. {s.key : s \in S} = Unsupported(fetch.wanted)
    BY SlotKeys, Zenon
  <2>2. Callback(S, FALSE) /\ At("dispatch") /\ fetch.smi = {} /\ fetch.rocp = {}
    BY <1>7, Zenon DEF ReportUnsupported
  <2> HIDE DEF S
  <2>3. Unsupported(fetch.wanted) \cap Reported = {} /\ ~repeated
    BY <2>2, Zenon DEF Accounted, Batched, Busy, At
  <2>4. Reported' = Reported \cup Unsupported(fetch.wanted) /\ ~repeated'
    BY <2>1, <2>2, <2>3, CallbackKeys, Zenon
  <2>5. bulk_count' = 0 /\ InBatch' = {} /\ Filled' = {} /\ InBatch = {}
    <3>1. bulk_count = 0 /\ UNCHANGED batchvars
      BY <1>7, <2>2, Zenon DEF ReportUnsupported, Accounted, At
    <3> QED BY <3>1, NothingFilled, Zenon DEF batchvars, InBatch, Filled
  <2>6. /\ fetch'.at = "done" /\ fetch'.wanted = fetch.wanted
        /\ fetch'.smi = {} /\ fetch'.rocp = {}
    BY <1>7, <2>2, Zenon DEF ReportUnsupported, TInv, TelemetryTypeOK
  <2>7. fetch.wanted = Reported \cup Unsupported(fetch.wanted)
    BY <2>2, <2>5, Zenon DEF Accounted, Busy, At
  <2> QED BY <2>4, <2>5, <2>6, <2>7, Zenon DEF Accounted, Batched, Busy, At
<1>8. CASE Return
  <2>1. /\ fetch'.at = "idle" /\ fetch'.smi = {} /\ fetch'.rocp = {}
        /\ reported' = {} /\ repeated' = repeated
    BY <1>8, Zenon DEF Return, NoFetch
  <2>2. bulk_count' = 0 /\ InBatch' = {} /\ Filled' = {} /\ Reported' = {} /\ ~repeated'
    <3>1. bulk_count = 0 /\ UNCHANGED batchvars /\ ~repeated
      BY <1>8, Zenon DEF Return, Accounted, Batched, At
    <3> QED BY <2>1, <3>1, NothingFilled, Zenon DEF batchvars, InBatch, Filled, Reported
  <2> QED BY <2>1, <2>2, Zenon DEF Accounted, Batched, Busy, At
<1>9. CASE SmiEnd \/ RocpEnd
  BY <1>9, EndAccounted, Zenon DEF SmiEnd, RocpEnd, At
<1>10. CASE SmiBegin \/ RocpBegin
  BY <1>10, <1>3, Zenon DEF SmiBegin, RocpBegin
<1>11. ASSUME NEW keys \in SUBSET Keys, FieldsUnwatch(keys) PROVE Accounted'
  BY <1>2, <1>11, Zenon DEF FieldsUnwatch
<1>12. CASE UNCHANGED telvars
  BY <1>2, <1>12, Zenon DEF telvars
<1> QED BY <1>1, <1>4, <1>5, <1>6, <1>7, <1>8, <1>9, <1>10, <1>11, <1>12, Zenon DEF TelemetryNext

\* Every field of a request is reported exactly once, whatever the request,
\* the size of a batch and what amd-smi hands back in bulk, as long as the
\* GPUs asked for are found.
THEOREM EveryFieldOnce == HandleMayFail = FALSE => (TelemetrySpec => []ReportedOnce)
<1> SUFFICES ASSUME HandleMayFail = FALSE PROVE TelemetrySpec => []ReportedOnce
  BY ZenonT(60)
<1>1. TelemetryInit => Accounted
  BY NothingFilled, SMTT(60) DEF TelemetryInit, NoFetch, Accounted, Batched, Reported, Busy, At
<1>2. Accounted => ReportedOnce
  BY Zenon DEF Accounted, Batched, ReportedOnce, Reported
<1>3. TInv /\ Accounted /\ [TelemetryNext]_telvars => Accounted'
  BY NextAccounted, Zenon
<1> QED BY <1>1, <1>2, <1>3, InitTypes, NextTypes, PTL DEF TelemetrySpec

-----------------------------------------------------------------------------
(***************************************************************************)
(* RdcDaemon: however many daemons are started, by root and by another     *)
(* user, and however their looks at the lock files interleave, no two of   *)
(* one user run, and none runs that was started beside another.  In each   *)
(* of them, whenever a signal comes, nothing is deleted under a call or a  *)
(* loop that uses it, and nobody is let in, and no file opened up, that    *)
(* the command line and the dropped capabilities do not allow.             *)
(***************************************************************************)

\* Where a daemon has not yet asked for its lock.
Early == {"access", "look_root", "look_user", "lock"}

\* p has taken its lock and has not ended.
Past(p) == proc[p].main \notin Early \cup {"off", "ended"}

Fields == {"user", "main", "sig", "exit", "args", "unauth", "pinned", "creds", "flag",
           "permitted", "cap", "workers", "admin", "api", "server", "lib", "handler",
           "loops", "calls", "raised"}

Files == {"/var/run/rdcd.lock", "/tmp/rdcd.lock"}

\* Type invariant, as far as the proof needs it.
Shape ==
  /\ DOMAIN proc = Daemons
  /\ \A p \in Daemons : DOMAIN proc[p] = Fields /\ proc[p].user \in {"root", "other"}
  /\ lock \in [Files -> SUBSET Daemons]
  /\ ahead \in [Daemons -> SUBSET Daemons]

\* A lock is held by a daemon of its user that is past asking for it ...
HoldersPast == \A f \in Files : \A p \in lock[f] : f = Own(p) /\ Past(p)

\* ... and by no other.
OneHolder == \A f \in Files : \A p, q \in lock[f] : p = q

\* A daemon that was ahead of another does not ask for its lock again.
AheadPast ==
  \A p \in Daemons : \A q \in ahead[p] : proc[q].main \notin Early \cup {"off"}

\* Between its two looks a daemon knows that none ahead of it holds the first
\* lock, and after them that none holds either.
Looked ==
  \A p \in Daemons :
    /\ proc[p].main = "look_user" => ahead[p] \cap lock["/var/run/rdcd.lock"] = {}
    /\ proc[p].main = "lock" \/ Past(p) =>
         \A f \in Files : ahead[p] \cap lock[f] \subseteq {p}

\* Where the main thread is alone, and where it is about to have a server.
Alone == {"off", "access", "look_root", "look_user", "lock", "caps", "thread", "ended"}
Building == {"creds", "services", "load", "init", "make", "build"}

\* Where the signal thread is once the server is down.
Dismantling == {"admin", "api", "join", "unload", "ended"}

\* The two threads of the daemon u are in step: the main thread waits until the
\* signal thread has let Shutdown return, and no call is under way after that.
InStep(u) ==
  /\ u.calls \in Nat /\ u.raised \in Nat
  /\ u.main \in Alone \cup Building \cup {"wait", "returning", "exiting"}
  /\ u.main \in Alone => u.sig = "none"
  /\ u.main = "ended" => u.exit # "no"
  /\ u.main \in Building => u.sig = "poll"
  /\ u.main \in (Alone \ {"ended"}) \cup Building => u.server = "null"
  /\ u.main = "wait" => \/ u.server = "serving" /\ u.sig = "poll"
                        \/ u.server = "stopping" /\ u.sig = "drain"
                        \/ u.server = "down" /\ u.sig \in Dismantling
  /\ u.main \in {"returning", "exiting"} => \/ u.server = "null" /\ u.sig = "poll"
                                            \/ u.server = "down" /\ u.sig \in Dismantling
  /\ u.calls > 0 => u.main = "wait" /\ u.server # "down"

\* What the server and the loops use was made before them.
InPlace(u) ==
  /\ u.main \in {"load", "init", "make", "build"} => u.api
  /\ u.main \in {"init", "make", "build"} => u.lib
  /\ u.main = "build" => u.handler = "live"
  /\ u.main = "wait" /\ u.server # "down" => u.api /\ u.handler = "live" /\ u.lib
  /\ u.loops # {} => u.handler \in {"live", "stopping"}

\* What was asked for, and what was given up before the second thread.
Allowed(u) ==
  /\ u.creds = "insecure" => u.unauth
  /\ u.unauth => \E i \in DOMAIN u.args : u.args[i] = "--unauth_comm"
  /\ ~u.workers
  /\ u.cap => u.main \in Early \cup {"caps"}

\* All this of one daemon.
Sound(u) == InStep(u) /\ InPlace(u) /\ Allowed(u)

AllSound == \A p \in Daemons : Sound(proc[p])

DInv == Shape /\ HoldersPast /\ OneHolder /\ AheadPast /\ Looked

\* The two lock files.
LEMMA TheFiles ==
  /\ LockFile["root"] = "/var/run/rdcd.lock" /\ LockFile["other"] = "/tmp/rdcd.lock"
  /\ LockFile.root = "/var/run/rdcd.lock" /\ LockFile.other = "/tmp/rdcd.lock"
  /\ Users = {"root", "other"}
  /\ {LockFile[u] : u \in Users} = Files
<1>1. Users = {"root", "other"}
  BY Zenon DEF Users, LockFile
<1>2. LockFile["root"] = "/var/run/rdcd.lock" /\ LockFile["other"] = "/tmp/rdcd.lock"
  BY Zenon DEF LockFile
<1> QED BY <1>1, <1>2, Zenon DEF Files

\* A daemon that has not been started.
LEMMA TheNewProc ==
  DOMAIN NewProc = Fields /\ NewProc.user = "root" /\ NewProc.main = "off"
BY Zenon DEF NewProc, Fields

\* At the start no daemon runs.
LEMMA InitDInv == DaemonInit => DInv
<1> SUFFICES ASSUME DaemonInit PROVE DInv
  BY Zenon
<1>1. /\ DOMAIN proc = Daemons /\ \A p \in Daemons : proc[p] = NewProc
      /\ lock = [f \in Files |-> {}] /\ ahead = [p \in Daemons |-> {}]
  BY TheFiles, Zenon DEF DaemonInit
<1> QED BY <1>1, TheNewProc, Zenon DEF DInv, Shape, HoldersPast, OneHolder, AheadPast, Looked, Past

\* A step of p that takes it neither past its lock nor back.
LEMMA StepDInv ==
  ASSUME DInv, NEW p \in Daemons, NEW u, Step(p, u),
         DOMAIN u = Fields, u.user = proc[p].user,
         \/ u.main = proc[p].main
         \/ Past(p) /\ u.main \notin Early \cup {"off", "ended"}
  PROVE  DInv'
<1>1. /\ DOMAIN proc' = Daemons /\ proc'[p] = u
      /\ \A q \in Daemons : q # p => proc'[q] = proc[q]
      /\ lock' = lock /\ ahead' = ahead
  BY Zenon DEF Step, DInv, Shape
<1>2. \A q \in Daemons : proc'[q].user = proc[q].user /\ Own(q)' = Own(q) /\ (Past(q)' <=> Past(q))
  BY <1>1, Zenon DEF Own, Past
<1>3. \A q \in Daemons : proc'[q].main = proc[q].main \/ (Past(q) /\ Past(q)')
  BY <1>1, Zenon DEF Past
<1>4. Shape'
  BY <1>1, Zenon DEF DInv, Shape
<1>5. HoldersPast' /\ OneHolder'
  BY <1>1, <1>2 DEF DInv, Shape, HoldersPast, OneHolder
<1>6. AheadPast'
  <2>1. ASSUME NEW r \in Daemons, NEW q \in ahead[r]
        PROVE  proc'[q].main \notin Early \cup {"off"}
    <3>1. q \in Daemons /\ proc[q].main \notin Early \cup {"off"}
      BY <2>1, Zenon DEF DInv, Shape, AheadPast
    <3> QED BY <1>3, <3>1, Zenon DEF Past
  <2> QED BY <1>1, <2>1, Zenon DEF AheadPast
<1>7. Looked'
  <2>1. ASSUME NEW q \in Daemons
        PROVE  /\ proc'[q].main = "look_user" => proc[q].main = "look_user"
               /\ proc'[q].main = "lock" => proc[q].main = "lock"
    BY <1>3, Zenon DEF Past, Early
  <2> QED BY <1>1, <1>2, <2>1, Zenon DEF DInv, Looked
<1> QED BY <1>4, <1>5, <1>6, <1>7, Zenon DEF DInv

\* A process that ends gives its lock back.
LEMMA EndsDInv ==
  ASSUME DInv, NEW p \in Daemons, NEW code, Ends(p, code)
  PROVE  DInv'
<1> DEFINE u == [NewProc EXCEPT !.main = "ended", !.exit = code, !.flag = proc[p].flag,
                                !.server = proc[p].server, !.api = proc[p].api]
<1>1. DOMAIN u = Fields /\ u.main = "ended" /\ u.user = "root"
  BY TheNewProc, Zenon DEF Fields
<1>2. /\ proc' = [proc EXCEPT ![p] = u]
      /\ lock' = [f \in DOMAIN lock |-> lock[f] \ {p}] /\ ahead' = ahead
  BY Zenon DEF Ends
<1> HIDE DEF u
<1>3. /\ DOMAIN proc' = Daemons /\ proc'[p].main = "ended" /\ proc'[p].user = "root"
      /\ DOMAIN proc'[p] = Fields
      /\ \A q \in Daemons : q # p => proc'[q] = proc[q]
  BY <1>1, <1>2, Zenon DEF DInv, Shape
<1>4. lock' \in [Files -> SUBSET Daemons] /\ \A f \in Files : lock'[f] = lock[f] \ {p}
  BY <1>2, Zenon DEF DInv, Shape
<1>5. Shape'
  BY <1>2, <1>3, <1>4, Zenon DEF DInv, Shape
<1>6. HoldersPast'
  <2>1. ASSUME NEW f \in Files, NEW q \in lock'[f] PROVE f = Own(q)' /\ Past(q)'
    <3>1. q \in Daemons /\ q # p /\ q \in lock[f]
      BY <1>4, <2>1, Zenon
    <3> QED BY <1>3, <3>1 DEF DInv, HoldersPast, Own, Past
  <2> QED BY <2>1, Zenon DEF HoldersPast
<1>7. OneHolder'
  BY <1>4, ZenonT(30) DEF DInv, OneHolder
<1>8. AheadPast'
  <2>1. ASSUME NEW r \in Daemons, NEW q \in ahead[r]
        PROVE  proc'[q].main \notin Early \cup {"off"}
    <3>1. q \in Daemons /\ proc[q].main \notin Early \cup {"off"}
      BY <2>1, Zenon DEF DInv, Shape, AheadPast
    <3>2. CASE q = p
      BY <1>3, <3>2, Zenon DEF Early
    <3>3. CASE q # p
      BY <1>3, <3>1, <3>3, Zenon
    <3> QED BY <3>2, <3>3, Zenon
  <2> QED BY <1>2, <2>1, Zenon DEF AheadPast
<1>9. Looked'
  <2>1. ASSUME NEW q \in Daemons,
               proc'[q].main = "look_user" \/ proc'[q].main = "lock" \/ Past(q)'
        PROVE  q # p /\ proc'[q] = proc[q] /\ (Past(q)' <=> Past(q))
    BY <1>3, <2>1, Zenon DEF Past, Early
  <2>2. "/var/run/rdcd.lock" \in Files
    BY Zenon DEF Files
  <2>3. ASSUME NEW q \in Daemons, proc'[q].main = "look_user"
        PROVE  ahead'[q] \cap lock'["/var/run/rdcd.lock"] = {}
    BY <1>2, <1>4, <2>1, <2>2, <2>3, ZenonT(30) DEF DInv, Looked
  <2>4. ASSUME NEW q \in Daemons, proc'[q].main = "lock" \/ Past(q)', NEW f \in Files
        PROVE  ahead'[q] \cap lock'[f] \subseteq {q}
    BY <1>2, <1>4, <2>1, <2>4, Zenon DEF DInv, Looked
  <2> QED BY <2>3, <2>4, Zenon DEF Looked
<1> QED BY <1>5, <1>6, <1>7, <1>8, <1>9, Zenon DEF DInv

-----------------------------------------------------------------------------
\* The steps that matter for the locks.

\* ProcessCmdline starts a daemon.
LEMMA ProcessCmdlineDInv ==
  ASSUME DInv, NEW p \in Daemons, NEW user \in Users, NEW args \in CmdLines[p],
         ProcessCmdline(p, user, args)
  PROVE  DInv'
<1> DEFINE o == GetOpts(args)
           v(permitted) == [NewProc EXCEPT !.main = "access", !.user = user, !.args = args,
                                           !.unauth = o.unauth, !.pinned = o.pinned,
                                           !.permitted = permitted, !.cap = permitted]
<1>1. /\ proc[p].main = "off"
      /\ Ends(p, "1") \/ Ends(p, "0") \/ \E permitted \in BOOLEAN : Step(p, v(permitted))
  BY Zenon DEF ProcessCmdline
<1>2. \A permitted : DOMAIN v(permitted) = Fields /\ v(permitted).main = "access"
                     /\ v(permitted).user = user
  BY TheNewProc, Zenon DEF Fields
<1> HIDE DEF v
<1>3. ASSUME NEW u, Step(p, u), DOMAIN u = Fields, u.main = "access", u.user = user
      PROVE  DInv'
  <2>1. /\ DOMAIN proc' = Daemons /\ proc'[p] = u
        /\ \A q \in Daemons : q # p => proc'[q] = proc[q]
        /\ lock' = lock /\ ahead' = ahead
    BY <1>3, Zenon DEF Step, DInv, Shape
  <2>2. \A f \in Files : p \notin lock[f]
    BY <1>1, Zenon DEF DInv, HoldersPast, Past
  <2>3. \A r \in Daemons : p \notin ahead[r]
    BY <1>1, Zenon DEF DInv, AheadPast
  <2>4. Shape'
    BY <1>3, <2>1, TheFiles, Zenon DEF DInv, Shape
  <2>5. HoldersPast'
    <3>1. ASSUME NEW f \in Files, NEW q \in lock[f] PROVE f = Own(q)' /\ Past(q)'
      <4>1. q \in Daemons /\ q # p
        BY <2>2, <3>1, Zenon DEF DInv, Shape
      <4> QED BY <2>1, <3>1, <4>1, Zenon DEF DInv, HoldersPast, Own, Past
    <3> QED BY <2>1, <3>1, Zenon DEF HoldersPast
  <2>6. OneHolder'
    BY <2>1, Zenon DEF DInv, OneHolder
  <2>7. AheadPast'
    <3>1. ASSUME NEW r \in Daemons, NEW q \in ahead[r]
          PROVE  proc'[q].main \notin Early \cup {"off"}
      <4>1. q \in Daemons /\ q # p
        BY <2>3, <3>1, Zenon DEF DInv, Shape
      <4> QED BY <2>1, <3>1, <4>1, Zenon DEF DInv, AheadPast
    <3> QED BY <2>1, <3>1, Zenon DEF AheadPast
  <2>8. Looked'
    <3>1. ASSUME NEW q \in Daemons,
                 proc'[q].main = "look_user" \/ proc'[q].main = "lock" \/ Past(q)'
          PROVE  q # p /\ proc'[q] = proc[q] /\ (Past(q)' <=> Past(q))
      BY <1>3, <2>1, <3>1, Zenon DEF Past, Early
    <3> QED BY <2>1, <3>1, Zenon DEF DInv, Looked
  <2> QED BY <2>4, <2>5, <2>6, <2>7, <2>8, Zenon DEF DInv
<1> QED BY <1>1, <1>2, <1>3, EndsDInv, Zenon

\* A daemon begins to look: those that hold a lock are ahead of it.
LEMMA CheckAccessDInv ==
  ASSUME DInv, NEW p \in Daemons, CheckAccess(p)
  PROVE  DInv'
<1>1. CASE Ends(p, "1")
  BY <1>1, EndsDInv, Zenon
<1>2. CASE ~Ends(p, "1")
  <2>1. /\ proc[p].main = "access"
        /\ proc' = [proc EXCEPT ![p].main = "look_root"]
        /\ ahead' = [ahead EXCEPT ![p] = UNION {lock[f] : f \in DOMAIN lock}]
        /\ lock' = lock
    BY <1>2, Zenon DEF CheckAccess
  <2>2. DOMAIN proc = Daemons /\ DOMAIN proc[p] = Fields /\ {"main", "user"} \subseteq Fields
    BY Zenon DEF DInv, Shape, Fields
  <2>3. /\ DOMAIN proc' = Daemons /\ DOMAIN proc'[p] = Fields
        /\ proc'[p].main = "look_root" /\ proc'[p].user = proc[p].user
        /\ \A q \in Daemons : q # p => proc'[q] = proc[q]
    BY <2>1, <2>2, Zenon
  <2>4. /\ \A q \in ahead'[p] : \E f \in Files : q \in lock[f]
        /\ \A r \in Daemons : r # p => ahead'[r] = ahead[r]
        /\ ahead' \in [Daemons -> SUBSET Daemons]
    BY <2>1 DEF DInv, Shape
  <2>5. /\ \A f \in Files : p \notin lock[f]
        /\ \A r \in Daemons : p \notin ahead[r]
    BY <2>1, Zenon DEF DInv, HoldersPast, AheadPast, Past, Early
  <2>6. Shape'
    BY <2>1, <2>3, <2>4, Zenon DEF DInv, Shape
  <2>7. HoldersPast'
    <3>1. ASSUME NEW f \in Files, NEW q \in lock[f] PROVE f = Own(q)' /\ Past(q)'
      <4>1. q \in Daemons /\ q # p
        BY <2>5, <3>1, Zenon DEF DInv, Shape
      <4> QED BY <2>3, <3>1, <4>1, ZenonT(30) DEF DInv, HoldersPast, Own, Past
    <3> QED BY <2>1, <3>1, Zenon DEF HoldersPast
  <2>8. OneHolder'
    BY <2>1, Zenon DEF DInv, OneHolder
  <2>9. AheadPast'
    <3>1. ASSUME NEW r \in Daemons, NEW q \in ahead'[r]
          PROVE  proc'[q].main \notin Early \cup {"off"}
      <4>1. q \in Daemons
        BY <2>4, <3>1, Zenon
      <4>2. CASE r = p
        <5>1. PICK f \in Files : q \in lock[f]
          BY <2>4, <3>1, <4>2, Zenon
        <5>2. q # p /\ Past(q)
          BY <2>5, <5>1, Zenon DEF DInv, HoldersPast
        <5> QED BY <2>3, <4>1, <5>2, Zenon DEF Past
      <4>3. CASE r # p
        <5>1. q # p /\ q \in ahead[r]
          BY <2>4, <2>5, <3>1, <4>3, Zenon
        <5> QED BY <2>3, <4>1, <5>1, Zenon DEF DInv, AheadPast
      <4> QED BY <4>2, <4>3, Zenon
    <3> QED BY <3>1, Zenon DEF AheadPast
  <2>10. Looked'
    <3>1. ASSUME NEW q \in Daemons,
                 proc'[q].main = "look_user" \/ proc'[q].main = "lock" \/ Past(q)'
          PROVE  /\ proc'[q] = proc[q] /\ (Past(q)' <=> Past(q))
                 /\ ahead'[q] = ahead[q]
      BY <2>3, <2>4, <3>1, Zenon DEF Past, Early
    <3> QED BY <2>1, <3>1, Zenon DEF DInv, Looked
  <2> QED BY <2>6, <2>7, <2>8, <2>9, <2>10, Zenon DEF DInv
<1> QED BY <1>1, <1>2, Zenon

\* A look that finds no lock: p goes on to the next step, and what it knows of
\* those ahead of it is what it saw.
LEMMA LookDInv ==
  ASSUME DInv, NEW p \in Daemons, NEW u, Step(p, u),
         DOMAIN u = Fields, u.user = proc[p].user,
         \/ /\ proc[p].main = "look_root" /\ u.main = "look_user"
            /\ lock["/var/run/rdcd.lock"] \ {p} = {}
         \/ /\ proc[p].main = "look_user" /\ u.main = "lock"
            /\ lock["/tmp/rdcd.lock"] \ {p} = {}
  PROVE  DInv'
<1>1. /\ DOMAIN proc' = Daemons /\ proc'[p] = u
      /\ \A q \in Daemons : q # p => proc'[q] = proc[q]
      /\ lock' = lock /\ ahead' = ahead
  BY Zenon DEF Step, DInv, Shape
<1>2. /\ \A f \in Files : p \notin lock[f]
      /\ \A r \in Daemons : p \notin ahead[r]
  BY Zenon DEF DInv, HoldersPast, AheadPast, Past, Early
<1>3. Shape'
  BY <1>1, Zenon DEF DInv, Shape
<1>4. HoldersPast'
  <2>1. ASSUME NEW f \in Files, NEW q \in lock[f] PROVE f = Own(q)' /\ Past(q)'
    <3>1. q \in Daemons /\ q # p
      BY <1>2, <2>1, Zenon DEF DInv, Shape
    <3> QED BY <1>1, <2>1, <3>1, ZenonT(30) DEF DInv, HoldersPast, Own, Past
  <2> QED BY <1>1, <2>1, Zenon DEF HoldersPast
<1>5. OneHolder'
  BY <1>1, Zenon DEF DInv, OneHolder
<1>6. AheadPast'
  <2>1. ASSUME NEW r \in Daemons, NEW q \in ahead[r]
        PROVE  proc'[q].main \notin Early \cup {"off"}
    <3>1. q \in Daemons /\ q # p
      BY <1>2, <2>1, Zenon DEF DInv, Shape
    <3> QED BY <1>1, <2>1, <3>1, Zenon DEF DInv, AheadPast
  <2> QED BY <1>1, <2>1, Zenon DEF AheadPast
<1>7. Looked'
  <2>1. Files = {"/var/run/rdcd.lock", "/tmp/rdcd.lock"}
    BY Zenon DEF Files
  <2>2. ASSUME NEW q \in Daemons, q # p
        PROVE  /\ proc'[q].main = "look_user" => ahead'[q] \cap lock'["/var/run/rdcd.lock"] = {}
               /\ proc'[q].main = "lock" \/ Past(q)' =>
                    \A f \in Files : ahead'[q] \cap lock'[f] \subseteq {q}
    BY <1>1, <2>2, Zenon DEF DInv, Looked, Past
  <2>3. CASE u.main = "look_user"
    <3>1. lock["/var/run/rdcd.lock"] = {}
      BY <1>2, <2>1, <2>3, Zenon
    <3>2. ahead'[p] \cap lock'["/var/run/rdcd.lock"] = {}
      BY <1>1, <3>1, Zenon
    <3>3. ~(proc'[p].main = "lock" \/ Past(p)')
      BY <1>1, <2>3, Zenon DEF Past, Early
    <3> QED BY <2>2, <3>2, <3>3, Zenon DEF Looked
  <2>4. CASE u.main = "lock"
    <3>1. lock["/tmp/rdcd.lock"] = {} /\ proc[p].main = "look_user"
      BY <1>2, <2>1, <2>4, Zenon
    <3>2. ahead[p] \cap lock["/var/run/rdcd.lock"] = {}
      BY <3>1, Zenon DEF DInv, Looked
    <3>3. \A f \in Files : ahead'[p] \cap lock'[f] \subseteq {p}
      BY <1>1, <2>1, <3>1, <3>2, Zenon
    <3>4. proc'[p].main # "look_user"
      BY <1>1, <2>4, Zenon
    <3> QED BY <2>2, <3>3, <3>4, Zenon DEF Looked
  <2> QED BY <2>3, <2>4, Zenon
<1> QED BY <1>3, <1>4, <1>5, <1>6, <1>7, Zenon DEF DInv

\* The lock is taken.
LEMMA LockDInv ==
  ASSUME DInv, NEW p \in Daemons, Lock(p)
  PROVE  DInv'
<1>1. CASE Ends(p, "1") \/ Ends(p, "0")
  BY <1>1, EndsDInv, Zenon
<1>2. CASE ~(Ends(p, "1") \/ Ends(p, "0"))
  <2>1. /\ proc[p].main = "lock" /\ lock[Own(p)] \ {p} = {}
        /\ lock' = [lock EXCEPT ![Own(p)] = @ \cup {p}]
        /\ proc' = [proc EXCEPT ![p].main = "caps"]
        /\ ahead' = ahead
    BY <1>2, Zenon DEF Lock, Lockf
  <2>2. DOMAIN proc = Daemons /\ DOMAIN proc[p] = Fields /\ {"main", "user"} \subseteq Fields
    BY Zenon DEF DInv, Shape, Fields
  <2>3. /\ DOMAIN proc' = Daemons /\ DOMAIN proc'[p] = Fields
        /\ proc'[p].main = "caps" /\ proc'[p].user = proc[p].user
        /\ \A q \in Daemons : q # p => proc'[q] = proc[q]
    BY <2>1, <2>2, Zenon
  <2>4. Own(p) \in Files
    <3>1. proc[p].user = "root" \/ proc[p].user = "other"
      BY Zenon DEF DInv, Shape
    <3> QED BY <3>1, TheFiles, Zenon DEF Own, Files
  <2>5. /\ lock' \in [Files -> SUBSET Daemons]
        /\ lock'[Own(p)] = lock[Own(p)] \cup {p}
        /\ \A f \in Files : f # Own(p) => lock'[f] = lock[f]
    BY <2>1, <2>4, Zenon DEF DInv, Shape
  <2>6. /\ \A f \in Files : p \notin lock[f]
        /\ \A r \in Daemons : p \notin ahead[r]
    BY <2>1, Zenon DEF DInv, HoldersPast, AheadPast, Past, Early
  <2>7. lock'[Own(p)] = {p}
    BY <2>1, <2>5, Zenon
  <2>8. Shape'
    BY <2>1, <2>3, <2>5, Zenon DEF DInv, Shape
  <2>9. HoldersPast'
    <3>1. ASSUME NEW f \in Files, NEW q \in lock'[f] PROVE f = Own(q)' /\ Past(q)'
      <4>1. CASE f = Own(p)
        <5>1. q = p
          BY <2>7, <3>1, <4>1, Zenon
        <5> QED BY <2>3, <4>1, <5>1, Zenon DEF Own, Past, Early
      <4>2. CASE f # Own(p)
        <5>1. q \in lock[f] /\ q \in Daemons /\ q # p
          BY <2>5, <2>6, <3>1, <4>2, Zenon
        <5> QED BY <2>3, <5>1 DEF DInv, HoldersPast, Own, Past
      <4> QED BY <4>1, <4>2, Zenon
    <3> QED BY <3>1, Zenon DEF HoldersPast
  <2>10. OneHolder'
    BY <2>5, <2>7 DEF DInv, OneHolder
  <2>11. AheadPast'
    <3>1. ASSUME NEW r \in Daemons, NEW q \in ahead[r]
          PROVE  proc'[q].main \notin Early \cup {"off"}
      <4>1. q \in Daemons /\ q # p
        BY <2>6, <3>1, Zenon DEF DInv, Shape
      <4> QED BY <2>3, <3>1, <4>1, Zenon DEF DInv, AheadPast
    <3> QED BY <2>1, <3>1, Zenon DEF AheadPast
  <2>12. Looked'
    <3>1. \A r \in Daemons : \A f \in Files : ahead[r] \cap lock'[f] = ahead[r] \cap lock[f]
      <4>1. ASSUME NEW r \in Daemons, NEW f \in Files
            PROVE  ahead[r] \cap lock'[f] = ahead[r] \cap lock[f]
        BY <2>5, <2>6, Zenon
      <4> QED BY <4>1, Zenon
    <3>2. "/var/run/rdcd.lock" \in Files
      BY Zenon DEF Files
    <3>3. \A r \in Daemons : proc'[r].main = "look_user" => proc[r].main = "look_user"
      BY <2>3, Zenon
    <3>4. \A r \in Daemons : proc'[r].main = "lock" \/ Past(r)' => proc[r].main = "lock" \/ Past(r)
      BY <2>1, <2>3, Zenon DEF Past
    <3>5. \A r \in Daemons : proc'[r].main = "look_user" =>
            ahead'[r] \cap lock'["/var/run/rdcd.lock"] = {}
      BY <2>1, <3>1, <3>2, <3>3, ZenonT(30) DEF DInv, Looked
    <3>6. \A r \in Daemons : proc'[r].main = "lock" \/ Past(r)' =>
            \A f \in Files : ahead'[r] \cap lock'[f] \subseteq {r}
      BY <2>1, <3>1, <3>4, ZenonT(30) DEF DInv, Looked
    <3> QED BY <3>5, <3>6, Zenon DEF Looked
  <2> QED BY <2>8, <2>9, <2>10, <2>11, <2>12, Zenon DEF DInv
<1> QED BY <1>1, <1>2, Zenon

-----------------------------------------------------------------------------
\* All other steps.

\* p ends, in one of the ways it can.
Exits(p) == \E code \in {"0", "1", "crash", "killed"} : Ends(p, code)

\* What u changes of p has nothing to do with the locks.
Aside(p, u) ==
  /\ DOMAIN u = Fields /\ u.user = proc[p].user
  /\ \/ u.main = proc[p].main
     \/ Past(p) /\ u.main \notin Early \cup {"off", "ended"}

\* A step of the threads that end, or leave the locks alone.
LEMMA AsideDInv ==
  ASSUME DInv, NEW p \in Daemons,
         Exits(p) \/ \E u : Step(p, u) /\ Aside(p, u)
  PROVE  DInv'
BY EndsDInv, StepDInv, Zenon DEF Aside, Exits

\* The main thread after the lock.
LEMMA MainAside ==
  ASSUME DInv, AllSound, NEW p \in Daemons,
         \/ DropCapability(p) \/ CreateThread(p) \/ Creds(p) \/ RegisterServices(p)
         \/ LoadLibrary(p) \/ InitializeSmi(p) \/ MakeHandler(p) \/ BuildAndStart(p)
         \/ Wait(p) \/ StaticDestructors(p) \/ Exit(p)
  PROVE  Exits(p) \/ \E u : Step(p, u) /\ Aside(p, u) /\ Sound(u)
<1> USE DEF Fields
<1>1. DOMAIN proc[p] = Fields /\ Sound(proc[p])
  BY Zenon DEF DInv, Shape, AllSound
<1>2. CASE DropCapability(p)
  <2> DEFINE u == [proc[p] EXCEPT !.main = "thread", !.cap = FALSE]
  <2>1. Step(p, u) \/ Exits(p)
    BY <1>2, Zenon DEF DropCapability, Exits
  <2>2. Aside(p, u)
    BY <1>1, <1>2, Zenon DEF DropCapability, Aside, Past, Early
  <2>3. Sound(u)
    BY <1>1, <1>2, ZenonT(30) DEF DropCapability, Sound, InStep, InPlace, Allowed, Alone, Building,
       Dismantling, Early
  <2> HIDE DEF u
  <2> QED BY <2>1, <2>2, <2>3, Zenon
<1>3. CASE CreateThread(p)
  <2> DEFINE u == [proc[p] EXCEPT !.main = "creds", !.sig = "poll", !.workers = @ \/ proc[p].cap]
  <2>1. Step(p, u) \/ Exits(p)
    BY <1>3, Zenon DEF CreateThread, Exits
  <2>2. Aside(p, u)
    BY <1>1, <1>3, Zenon DEF CreateThread, Aside, Past, Early
  <2>3. Sound(u)
    BY <1>1, <1>3, ZenonT(60) DEF CreateThread, Sound, InStep, InPlace, Allowed, Alone,
       Building, Dismantling, Early
  <2> HIDE DEF u
  <2> QED BY <2>1, <2>2, <2>3, Zenon
<1>4. CASE Creds(p)
  <2> DEFINE u == [proc[p] EXCEPT !.main = "services", !.creds = "insecure"]
             v == [proc[p] EXCEPT !.main = "services", !.creds = "tls"]
             w == [proc[p] EXCEPT !.main = "returning"]
  <2>1. (proc[p].unauth /\ Step(p, u)) \/ Step(p, v) \/ Step(p, w)
    BY <1>4, Zenon DEF Creds
  <2>2. Aside(p, u) /\ Aside(p, v) /\ Aside(p, w)
    BY <1>1, <1>4, Zenon DEF Creds, Aside, Past, Early
  <2>3. (proc[p].unauth => Sound(u)) /\ Sound(v) /\ Sound(w)
    BY <1>1, <1>4, ZenonT(30) DEF Creds, Sound, InStep, InPlace, Allowed, Alone, Building,
       Dismantling, Early
  <2> HIDE DEF u, v, w
  <2> QED BY <2>1, <2>2, <2>3, Zenon
<1>5. CASE RegisterServices(p)
  <2> DEFINE u == [proc[p] EXCEPT !.main = "load", !.admin = TRUE, !.api = TRUE]
  <2>1. Step(p, u)
    BY <1>5, Zenon DEF RegisterServices
  <2>2. Aside(p, u)
    BY <1>1, <1>5, Zenon DEF RegisterServices, Aside, Past, Early
  <2>3. Sound(u)
    BY <1>1, <1>5, ZenonT(30) DEF RegisterServices, Sound, InStep, InPlace, Allowed, Alone, Building,
       Dismantling, Early
  <2> HIDE DEF u
  <2> QED BY <2>1, <2>2, <2>3, Zenon
<1>6. CASE LoadLibrary(p)
  <2> DEFINE u == [proc[p] EXCEPT !.main = "returning"]
             v == [proc[p] EXCEPT !.main = "init", !.lib = TRUE]
  <2>1. Step(p, u) \/ Step(p, v)
    BY <1>6, Zenon DEF LoadLibrary
  <2>2. Aside(p, u) /\ Aside(p, v)
    BY <1>1, <1>6, Zenon DEF LoadLibrary, Aside, Past, Early
  <2>3. Sound(u) /\ Sound(v)
    BY <1>1, <1>6, ZenonT(30) DEF LoadLibrary, Sound, InStep, InPlace, Allowed, Alone, Building,
       Dismantling, Early
  <2> HIDE DEF u, v
  <2> QED BY <2>1, <2>2, <2>3, Zenon
<1>7. CASE InitializeSmi(p)
  <2> DEFINE u == [proc[p] EXCEPT !.main = "make"]
  <2>1. Step(p, u) \/ Exits(p)
    BY <1>7, Zenon DEF InitializeSmi, Exits
  <2>2. Aside(p, u)
    BY <1>1, <1>7, Zenon DEF InitializeSmi, Aside, Past, Early
  <2>3. Sound(u)
    BY <1>1, <1>7, Zenon DEF InitializeSmi, Sound, InStep, InPlace, Allowed, Alone, Building,
       Dismantling, Early
  <2> HIDE DEF u
  <2> QED BY <2>1, <2>2, <2>3, Zenon
<1>8. CASE MakeHandler(p)
  <2> DEFINE u == [proc[p] EXCEPT !.main = "returning"]
             v == [proc[p] EXCEPT !.main = "build", !.handler = "live", !.loops = Loops]
  <2>1. Step(p, u) \/ Step(p, v)
    BY <1>8, Zenon DEF MakeHandler
  <2>2. Aside(p, u) /\ Aside(p, v)
    BY <1>1, <1>8, Zenon DEF MakeHandler, Aside, Past, Early
  <2>3. Sound(u) /\ Sound(v)
    BY <1>1, <1>8, ZenonT(30) DEF MakeHandler, Sound, InStep, InPlace, Allowed, Alone, Building,
       Dismantling, Early
  <2> HIDE DEF u, v
  <2> QED BY <2>1, <2>2, <2>3, Zenon
<1>9. CASE BuildAndStart(p)
  <2> DEFINE u == [proc[p] EXCEPT !.main = "wait", !.server = "serving"]
  <2>1. Step(p, u) \/ Exits(p)
    BY <1>9, Zenon DEF BuildAndStart, Exits
  <2>2. Aside(p, u)
    BY <1>1, <1>9, Zenon DEF BuildAndStart, Aside, Past, Early
  <2>3. Sound(u)
    BY <1>1, <1>9, ZenonT(30) DEF BuildAndStart, Sound, InStep, InPlace, Allowed, Alone, Building,
       Dismantling, Early
  <2> HIDE DEF u
  <2> QED BY <2>1, <2>2, <2>3, Zenon
<1>10. CASE Wait(p)
  <2> DEFINE u == [proc[p] EXCEPT !.main = "returning"]
  <2>1. Step(p, u)
    BY <1>10, Zenon DEF Wait
  <2>2. Aside(p, u)
    BY <1>1, <1>10, Zenon DEF Wait, Aside, Past, Early
  <2>3. Sound(u)
    BY <1>1, <1>10, Zenon DEF Wait, Sound, InStep, InPlace, Allowed, Alone, Building,
       Dismantling, Early
  <2> HIDE DEF u
  <2> QED BY <2>1, <2>2, <2>3, Zenon
<1>11. CASE StaticDestructors(p)
  <2> DEFINE u == [proc[p] EXCEPT !.main = "exiting", !.lib = FALSE]
  <2>1. Step(p, u)
    BY <1>11, Zenon DEF StaticDestructors
  <2>2. Aside(p, u)
    BY <1>1, <1>11, Zenon DEF StaticDestructors, Aside, Past, Early
  <2>3. Sound(u)
    BY <1>1, <1>11, ZenonT(30) DEF StaticDestructors, Sound, InStep, InPlace, Allowed, Alone, Building,
       Dismantling, Early
  <2> HIDE DEF u
  <2> QED BY <2>1, <2>2, <2>3, Zenon
<1>12. CASE Exit(p)
  BY <1>12, Zenon DEF Exit, Exits
<1> QED BY <1>2, <1>3, <1>4, <1>5, <1>6, <1>7, <1>8, <1>9, <1>10, <1>11, <1>12, Zenon

\* The thread of ProcessSignalLoop.
LEMMA SignalAside ==
  ASSUME DInv, AllSound, NEW p \in Daemons, SignalStep(p)
  PROVE  Exits(p) \/ \E u : Step(p, u) /\ Aside(p, u) /\ Sound(u)
<1> USE DEF Fields
<1>1. DOMAIN proc[p] = Fields /\ Sound(proc[p])
  BY Zenon DEF DInv, Shape, AllSound
<1>2. CASE ShutdownServer(p)
  <2> DEFINE u == [proc[p] EXCEPT !.sig = "drain", !.server = "stopping"]
  <2>1. (proc[p].server # "null" /\ Step(p, u)) \/ Exits(p)
    BY <1>2, Zenon DEF ShutdownServer, Exits
  <2>2. Aside(p, u)
    BY <1>1, <1>2, Zenon DEF ShutdownServer, Aside, Past, Early
  <2>3. proc[p].server # "null" => Sound(u)
    BY <1>1, <1>2, ZenonT(30) DEF ShutdownServer, Sound, InStep, InPlace, Allowed, Alone, Building,
       Dismantling, Early
  <2> HIDE DEF u
  <2> QED BY <2>1, <2>2, <2>3, Zenon
<1>3. CASE ShutdownReturns(p)
  <2> DEFINE u == [proc[p] EXCEPT !.sig = "admin", !.server = "down"]
  <2>1. Step(p, u)
    BY <1>3, Zenon DEF ShutdownReturns
  <2>2. Aside(p, u)
    BY <1>1, <1>3, ZenonT(30) DEF ShutdownReturns, Aside, Past, Early
  <2>3. Sound(u)
    BY <1>1, <1>3 DEF ShutdownReturns, Drained, Sound, InStep, InPlace, Allowed, Alone, Building,
       Dismantling, Early
  <2> HIDE DEF u
  <2> QED BY <2>1, <2>2, <2>3, Zenon
<1>4. CASE DeleteAdmin(p)
  <2> DEFINE u == [proc[p] EXCEPT !.sig = "api", !.admin = FALSE]
  <2>1. Step(p, u)
    BY <1>4, Zenon DEF DeleteAdmin
  <2>2. Aside(p, u)
    BY <1>1, <1>4, Zenon DEF DeleteAdmin, Aside, Past, Early
  <2>3. Sound(u)
    BY <1>1, <1>4, ZenonT(30) DEF DeleteAdmin, Sound, InStep, InPlace, Allowed, Alone, Building,
       Dismantling, Early
  <2> HIDE DEF u
  <2> QED BY <2>1, <2>2, <2>3, Zenon
<1>5. CASE StopUpdater(p)
  <2> DEFINE u == [proc[p] EXCEPT !.sig = "join", !.handler = "stopping"]
  <2>1. Step(p, u)
    BY <1>5, Zenon DEF StopUpdater
  <2>2. Aside(p, u)
    BY <1>1, <1>5, Zenon DEF StopUpdater, Aside, Past, Early
  <2>3. Sound(u)
    BY <1>1, <1>5, Zenon DEF StopUpdater, Sound, InStep, InPlace, Allowed, Alone, Building,
       Dismantling, Early
  <2> HIDE DEF u
  <2> QED BY <2>1, <2>2, <2>3, Zenon
<1>6. CASE JoinLoops(p)
  <2> DEFINE u == [proc[p] EXCEPT !.sig = "unload", !.handler = "gone"]
  <2>1. Step(p, u)
    BY <1>6, Zenon DEF JoinLoops
  <2>2. Aside(p, u)
    BY <1>1, <1>6, Zenon DEF JoinLoops, Aside, Past, Early
  <2>3. Sound(u)
    BY <1>1, <1>6, Zenon DEF JoinLoops, Joined, Sound, InStep, InPlace, Allowed, Alone, Building,
       Dismantling, Early
  <2> HIDE DEF u
  <2> QED BY <2>1, <2>2, <2>3, Zenon
<1>7. CASE RdcShutdown(p)
  <2> DEFINE u == [proc[p] EXCEPT !.sig = "ended", !.lib = FALSE, !.api = FALSE]
  <2>1. Step(p, u)
    BY <1>7, Zenon DEF RdcShutdown
  <2>2. Aside(p, u)
    BY <1>1, <1>7, Zenon DEF RdcShutdown, Aside, Past, Early
  <2>3. Sound(u)
    BY <1>1, <1>7, ZenonT(30) DEF RdcShutdown, Sound, InStep, InPlace, Allowed, Alone, Building,
       Dismantling, Early
  <2> HIDE DEF u
  <2> QED BY <2>1, <2>2, <2>3, Zenon
<1> QED BY <1>2, <1>3, <1>4, <1>5, <1>6, <1>7, Zenon DEF SignalStep

\* A signal, the loops and the calls.
LEMMA OtherAside ==
  ASSUME DInv, AllSound, NEW p \in Daemons,
         \/ HandleSignal(p) \/ (\E l \in Loops : LoopEnds(p, l)) \/ RunsUnloaded(p)
         \/ CallArrives(p) \/ CallRaises(p) \/ CallLowers(p) \/ CallReturns(p)
  PROVE  Exits(p) \/ \E u : Step(p, u) /\ Aside(p, u) /\ Sound(u)
<1> USE DEF Fields
<1>1. DOMAIN proc[p] = Fields /\ Sound(proc[p])
  BY Zenon DEF DInv, Shape, AllSound
<1>2. CASE HandleSignal(p)
  <2> DEFINE u == [proc[p] EXCEPT !.flag = TRUE]
  <2>1. Step(p, u) \/ Exits(p)
    BY <1>2, Zenon DEF HandleSignal, Exits
  <2>2. Aside(p, u)
    BY <1>1, <1>2, ZenonT(30) DEF HandleSignal, Aside, Past, Early
  <2>3. Sound(u)
    BY <1>1, <1>2 DEF HandleSignal, Sound, InStep, InPlace, Allowed, Alone, Building,
       Dismantling, Early
  <2> HIDE DEF u
  <2> QED BY <2>1, <2>2, <2>3, Zenon
<1>3. CASE CallArrives(p)
  <2> DEFINE u == [proc[p] EXCEPT !.calls = @ + 1]
  <2>1. Step(p, u)
    BY <1>3, Zenon DEF CallArrives
  <2>2. Aside(p, u)
    BY <1>1, <1>3, ZenonT(30) DEF CallArrives, Aside, Past, Early
  <2>3. Sound(u)
    BY <1>1, <1>3, SMTT(30) DEF CallArrives, Alive, Sound, InStep, InPlace, Allowed, Alone, Building,
       Dismantling, Early
  <2> HIDE DEF u
  <2> QED BY <2>1, <2>2, <2>3, Zenon
<1>4. CASE CallRaises(p)
  <2> DEFINE u == [proc[p] EXCEPT !.raised = @ + 1]
  <2>1. Step(p, u)
    BY <1>4, Zenon DEF CallRaises
  <2>2. Aside(p, u)
    BY <1>1, <1>4, ZenonT(30) DEF CallRaises, Aside, Past, Early
  <2>3. Sound(u)
    BY <1>1, <1>4, SMTT(30) DEF CallRaises, Sound, InStep, InPlace, Allowed, Alone, Building,
       Dismantling, Early
  <2> HIDE DEF u
  <2> QED BY <2>1, <2>2, <2>3, Zenon
<1>5. CASE CallLowers(p)
  <2> DEFINE u == [proc[p] EXCEPT !.raised = @ - 1]
  <2>1. Step(p, u)
    BY <1>5, Zenon DEF CallLowers
  <2>2. Aside(p, u)
    BY <1>1, <1>5, ZenonT(30) DEF CallLowers, Aside, Past, Early
  <2>3. Sound(u)
    BY <1>1, <1>5, SMTT(30) DEF CallLowers, Sound, InStep, InPlace, Allowed, Alone, Building,
       Dismantling, Early
  <2> HIDE DEF u
  <2> QED BY <2>1, <2>2, <2>3, Zenon
<1>6. CASE CallReturns(p)
  <2> DEFINE u == [proc[p] EXCEPT !.calls = @ - 1]
  <2>1. Step(p, u)
    BY <1>6, Zenon DEF CallReturns
  <2>2. Aside(p, u)
    BY <1>1, <1>6, ZenonT(30) DEF CallReturns, Aside, Past, Early
  <2>3. Sound(u)
    BY <1>1, <1>6 DEF CallReturns, Sound, InStep, InPlace, Allowed, Alone, Building,
       Dismantling, Early
  <2> HIDE DEF u
  <2> QED BY <2>1, <2>2, <2>3, Zenon
<1>7. CASE RunsUnloaded(p)
  BY <1>7, Zenon DEF RunsUnloaded, Exits
<1>8. ASSUME NEW l \in Loops, LoopEnds(p, l)
      PROVE  \E u : Step(p, u) /\ Aside(p, u) /\ Sound(u)
  <2> DEFINE u == [proc[p] EXCEPT !.loops = @ \ {l}]
  <2>1. Step(p, u)
    BY <1>8, Zenon DEF LoopEnds
  <2>2. Aside(p, u)
    BY <1>1, <1>8, ZenonT(30) DEF LoopEnds, Aside, Past, Early
  <2>3. Sound(u)
    BY <1>1, <1>8 DEF LoopEnds, Sound, InStep, InPlace, Allowed, Alone, Building,
       Dismantling, Early
  <2> HIDE DEF u
  <2> QED BY <2>1, <2>2, <2>3, Zenon
<1> QED BY <1>2, <1>3, <1>4, <1>5, <1>6, <1>7, <1>8, Zenon

\* Every step preserves the invariant.
LEMMA NextDInv ==
  ASSUME DInv, AllSound, [DaemonNext]_dvars
  PROVE  DInv'
<1>1. CASE UNCHANGED dvars
  BY <1>1, Zenon DEF dvars, DInv, Shape, HoldersPast, OneHolder, AheadPast, Looked, Past, Own
<1>2. ASSUME NEW p \in Daemons, NEW user \in Users, NEW args \in CmdLines[p],
             ProcessCmdline(p, user, args)
      PROVE  DInv'
  BY <1>2, ProcessCmdlineDInv, Zenon
<1>3. ASSUME NEW p \in Daemons, LookRoot(p) PROVE DInv'
  <2> DEFINE u == [proc[p] EXCEPT !.main = "look_user"]
  <2>1. CASE Ends(p, "1")
    BY <2>1, EndsDInv, Zenon
  <2>2. CASE ~Ends(p, "1")
    <3>1. Step(p, u) /\ proc[p].main = "look_root" /\ lock["/var/run/rdcd.lock"] \ {p} = {}
      BY <1>3, <2>2, TheFiles, Zenon DEF LookRoot, FileIsLocked
    <3>2. DOMAIN u = Fields /\ u.user = proc[p].user /\ u.main = "look_user"
      BY ZenonT(30) DEF DInv, Shape, Fields
    <3> HIDE DEF u
    <3> QED BY <3>1, <3>2, LookDInv, Zenon
  <2> QED BY <2>1, <2>2, Zenon
<1>4. ASSUME NEW p \in Daemons, LookUser(p) PROVE DInv'
  <2> DEFINE u == [proc[p] EXCEPT !.main = "lock"]
  <2>1. CASE Ends(p, "1")
    BY <2>1, EndsDInv, Zenon
  <2>2. CASE ~Ends(p, "1")
    <3>1. Step(p, u) /\ proc[p].main = "look_user" /\ lock["/tmp/rdcd.lock"] \ {p} = {}
      BY <1>4, <2>2, TheFiles, Zenon DEF LookUser, FileIsLocked
    <3>2. DOMAIN u = Fields /\ u.user = proc[p].user /\ u.main = "lock"
      BY ZenonT(30) DEF DInv, Shape, Fields
    <3> HIDE DEF u
    <3> QED BY <3>1, <3>2, LookDInv, Zenon
  <2> QED BY <2>1, <2>2, Zenon
<1>5. ASSUME NEW p \in Daemons, MainStep(p) PROVE DInv'
  BY <1>3, <1>4, <1>5, CheckAccessDInv, LockDInv, MainAside, AsideDInv, Zenon DEF MainStep
<1>6. ASSUME NEW p \in Daemons, SignalStep(p) PROVE DInv'
  BY <1>6, SignalAside, AsideDInv, Zenon
<1>7. ASSUME NEW p \in Daemons,
             \/ HandleSignal(p) \/ (\E l \in Loops : LoopEnds(p, l)) \/ RunsUnloaded(p)
             \/ CallArrives(p) \/ CallRaises(p) \/ CallLowers(p) \/ CallReturns(p)
      PROVE  DInv'
  BY <1>7, OtherAside, AsideDInv, Zenon
<1> QED BY <1>1, <1>2, <1>5, <1>6, <1>7, Zenon DEF DaemonNext

-----------------------------------------------------------------------------
\* The threads of one daemon.

\* One daemon is at u now, and the others are where they were.
LEMMA MoveSound ==
  ASSUME Shape, AllSound, NEW p \in Daemons, NEW u, Sound(u),
         proc' = [proc EXCEPT ![p] = u]
  PROVE  AllSound'
<1>1. \A q \in Daemons : proc'[q] = IF q = p THEN u ELSE proc[q]
  BY Zenon DEF Shape
<1> QED BY <1>1, Zenon DEF AllSound

\* A daemon that has not been started, and one that has ended.
LEMMA RestSound ==
  /\ Sound(NewProc)
  /\ \A code, flag, server, api : code # "no" =>
       Sound([NewProc EXCEPT !.main = "ended", !.exit = code, !.flag = flag,
                             !.server = server, !.api = api])
<1>1. Sound(NewProc)
  BY DEF NewProc, Sound, InStep, InPlace, Allowed, Alone, Building, Dismantling, Early
<1>2. ASSUME NEW code, NEW flag, NEW server, NEW api, code # "no"
      PROVE  Sound([NewProc EXCEPT !.main = "ended", !.exit = code, !.flag = flag,
                                   !.server = server, !.api = api])
  BY <1>2 DEF NewProc, Sound, InStep, InPlace, Allowed, Alone, Building, Dismantling, Early
<1> QED BY <1>1, <1>2, ZenonT(30)

\* A daemon that exits leaves the others sound.
LEMMA ExitsSound ==
  ASSUME Shape, AllSound, NEW p \in Daemons, Exits(p)
  PROVE  AllSound'
<1>1. PICK code \in {"0", "1", "crash", "killed"} : Ends(p, code)
  BY Zenon DEF Exits
<1> DEFINE u == [NewProc EXCEPT !.main = "ended", !.exit = code, !.flag = proc[p].flag,
                                !.server = proc[p].server, !.api = proc[p].api]
<1>2. proc' = [proc EXCEPT ![p] = u]
  BY <1>1, Zenon DEF Ends
<1>3. Sound(u)
  BY RestSound, Zenon
<1> HIDE DEF u
<1> QED BY <1>2, <1>3, MoveSound, Zenon

\* --unauth_comm is seen only where it was given.
LEMMA UnauthGiven ==
  ASSUME NEW args, GetOpts(args).unauth
  PROVE  \E i \in DOMAIN args : args[i] = "--unauth_comm"
BY Zenon DEF GetOpts

\* The main thread up to the lock.
LEMMA EarlySound ==
  ASSUME Shape, AllSound, NEW p \in Daemons,
         \/ \E user \in Users, args \in CmdLines[p] : ProcessCmdline(p, user, args)
         \/ CheckAccess(p) \/ LookRoot(p) \/ LookUser(p) \/ Lock(p)
  PROVE  AllSound'
<1>1. DOMAIN proc = Daemons /\ DOMAIN proc[p] = Fields /\ Sound(proc[p])
  BY Zenon DEF Shape, AllSound
<1>2. ASSUME NEW user \in Users, NEW args \in CmdLines[p], ProcessCmdline(p, user, args)
      PROVE  AllSound'
  <2> DEFINE o == GetOpts(args)
             v(permitted) == [NewProc EXCEPT !.main = "access", !.user = user, !.args = args,
                                             !.unauth = o.unauth, !.pinned = o.pinned,
                                             !.permitted = permitted, !.cap = permitted]
  <2>1. Exits(p) \/ \E permitted \in BOOLEAN : Step(p, v(permitted))
    BY <1>2, Zenon DEF ProcessCmdline, Exits
  <2>2. o.unauth => \E i \in DOMAIN args : args[i] = "--unauth_comm"
    BY UnauthGiven, Zenon
  <2> HIDE DEF o
  <2>3. ASSUME NEW permitted PROVE Sound(v(permitted))
    BY <2>2 DEF NewProc, Sound, InStep, InPlace, Allowed, Alone, Building, Dismantling, Early
  <2> HIDE DEF v
  <2>4. ASSUME NEW permitted, Step(p, v(permitted)) PROVE AllSound'
    BY <2>3, <2>4, MoveSound, Zenon DEF Step
  <2> QED BY <2>1, <2>4, ExitsSound, Zenon
<1>3. ASSUME NEW to \in {"look_root", "look_user", "lock", "caps"},
             proc[p].main \in Early, proc' = [proc EXCEPT ![p] = [proc[p] EXCEPT !.main = to]]
      PROVE  AllSound'
  <2> DEFINE u == [proc[p] EXCEPT !.main = to]
  <2>1. Sound(u)
    BY <1>1, <1>3, Zenon DEF Fields, Sound, InStep, InPlace, Allowed, Alone, Building,
       Dismantling, Early
  <2>2. proc' = [proc EXCEPT ![p] = u]
    BY <1>3, Zenon
  <2> HIDE DEF u
  <2> QED BY <2>1, <2>2, MoveSound, Zenon
<1>4. CASE CheckAccess(p)
  <2>1. Exits(p) \/ (proc[p].main \in Early /\ proc' = [proc EXCEPT ![p].main = "look_root"])
    BY <1>4, Zenon DEF CheckAccess, Exits, Early
  <2> QED BY <1>3, <2>1, ExitsSound, Zenon
<1>5. CASE LookRoot(p) \/ LookUser(p)
  BY <1>3, <1>5, ExitsSound, Zenon DEF LookRoot, LookUser, Step, Exits, Early
<1>6. CASE Lock(p)
  <2>1. Exits(p) \/ (proc[p].main \in Early /\ proc' = [proc EXCEPT ![p].main = "caps"])
    BY <1>6, Zenon DEF Lock, Exits, Early
  <2> QED BY <1>3, <2>1, ExitsSound, Zenon
<1> QED BY <1>2, <1>4, <1>5, <1>6, Zenon

\* Every step keeps the threads of every daemon in step.
LEMMA NextSound ==
  ASSUME DInv, AllSound, [DaemonNext]_dvars
  PROVE  AllSound'
<1>0. Shape
  BY Zenon DEF DInv
<1>1. CASE UNCHANGED dvars
  BY <1>1, Zenon DEF dvars, AllSound
<1>2. ASSUME NEW p \in Daemons, Exits(p) \/ \E u : Step(p, u) /\ Aside(p, u) /\ Sound(u)
      PROVE  AllSound'
  BY <1>0, <1>2, ExitsSound, MoveSound, Zenon DEF Step
<1>3. ASSUME NEW p \in Daemons, MainStep(p) PROVE AllSound'
  BY <1>0, <1>2, <1>3, EarlySound, MainAside, Zenon DEF MainStep
<1>4. ASSUME NEW p \in Daemons, SignalStep(p) PROVE AllSound'
  BY <1>2, <1>4, SignalAside, Zenon
<1>5. ASSUME NEW p \in Daemons,
             \/ HandleSignal(p) \/ (\E l \in Loops : LoopEnds(p, l)) \/ RunsUnloaded(p)
             \/ CallArrives(p) \/ CallRaises(p) \/ CallLowers(p) \/ CallReturns(p)
      PROVE  AllSound'
  BY <1>2, <1>5, OtherAside, Zenon
<1> QED BY <1>0, <1>1, <1>3, <1>4, <1>5, EarlySound, Zenon DEF DaemonNext

\* No daemon has run at the start.
LEMMA InitSound == DaemonInit => AllSound
<1> SUFFICES ASSUME DaemonInit PROVE AllSound
  BY Zenon
<1>1. \A p \in Daemons : proc[p] = NewProc
  BY Zenon DEF DaemonInit
<1> QED BY <1>1, RestSound, Zenon DEF AllSound

\* A call never outlives what it uses, nor a loop its handler.
LEMMA SoundInUse == AllSound => InUseIsThere
<1> SUFFICES ASSUME AllSound, NEW p \in Daemons
             PROVE  /\ proc[p].calls > 0 => proc[p].api /\ proc[p].handler = "live" /\ proc[p].lib
                    /\ proc[p].loops # {} => proc[p].handler \in {"live", "stopping"}
  BY Zenon DEF InUseIsThere
<1>1. Sound(proc[p])
  BY Zenon DEF AllSound
<1> QED BY <1>1, Zenon DEF Sound, InStep, InPlace

\* A sound daemon allows no more than it may.
LEMMA SoundAllowed == AllSound => NoMoreThanAllowed
<1> SUFFICES ASSUME AllSound, NEW p \in Daemons
             PROVE  /\ proc[p].creds = "insecure" =>
                         \E i \in DOMAIN proc[p].args : proc[p].args[i] = "--unauth_comm"
                    /\ proc[p].sig # "none" => ~proc[p].workers /\ ~proc[p].cap
  BY Zenon DEF NoMoreThanAllowed
<1>1. Sound(proc[p])
  BY Zenon DEF AllSound
<1> QED BY <1>1, Zenon DEF Sound, InStep, Allowed, Alone, Early

-----------------------------------------------------------------------------
\* The invariant gives what ExitIfAlreadyRunning is for.
LEMMA DInvOneDaemon == DInv => OneDaemon
<1> SUFFICES ASSUME DInv, NEW p \in Daemons, NEW q \in Daemons,
                    p # q, Running(p), Running(q)
             PROVE  proc[p].user # proc[q].user /\ q \notin ahead[p]
  BY Zenon DEF OneDaemon
<1>1. Own(p) \in Files /\ Own(q) \in Files
  <2>1. \A r \in Daemons : proc[r].user = "root" \/ proc[r].user = "other"
    BY Zenon DEF DInv, Shape
  <2> QED BY <2>1, TheFiles, Zenon DEF Own, Files
<1>2. p \in lock[Own(p)] /\ q \in lock[Own(q)] /\ Past(p)
  BY <1>1, Zenon DEF Running, DInv, HoldersPast
<1>3. Own(p) # Own(q)
  BY <1>1, <1>2, Zenon DEF DInv, OneHolder
<1>4. proc[p].user # proc[q].user
  BY <1>3, Zenon DEF Own
<1>5. ahead[p] \cap lock[Own(q)] \subseteq {p}
  BY <1>1, <1>2, Zenon DEF DInv, Looked
<1> QED BY <1>2, <1>4, <1>5, Zenon

\* However many daemons start, and however they interleave, no two of one user
\* run, and none runs beside one that held its lock when it began to look.
THEOREM OneDaemonRuns == DaemonSpec => []OneDaemon
<1>1. DInv /\ AllSound /\ [DaemonNext]_dvars => DInv' /\ AllSound'
  BY NextDInv, NextSound, Zenon
<1> QED BY <1>1, InitDInv, InitSound, DInvOneDaemon, PTL DEF DaemonSpec

\* Whenever a signal comes and however many calls are under way, what a call uses
\* is there until it has returned (Shutdown waits for it before the services, the
\* handler and the library go), and the handler until its loops have ended.
THEOREM NothingIsUsedAfterItIsGone == DaemonSpec => []InUseIsThere
<1>1. DInv /\ AllSound /\ [DaemonNext]_dvars => DInv' /\ AllSound'
  BY NextDInv, NextSound, Zenon
<1> QED BY <1>1, InitDInv, InitSound, SoundInUse, PTL DEF DaemonSpec

\* Whatever the command line, no daemon takes connections without authentication
\* unless --unauth_comm is on it, and none starts a thread with CAP_DAC_OVERRIDE on.
THEOREM NoMoreIsAllowed == DaemonSpec => []NoMoreThanAllowed
<1>1. DInv /\ AllSound /\ [DaemonNext]_dvars => DInv' /\ AllSound'
  BY NextDInv, NextSound, Zenon
<1> QED BY <1>1, InitDInv, InitSound, SoundAllowed, PTL DEF DaemonSpec

-----------------------------------------------------------------------------
(***************************************************************************)
(* RdcAsyncFetch: an answer is never older than cache_ttl, and a GPU is    *)
(* not read again while its last reading is fresh.  Both rest on what the  *)
(* worker owes to the cache: the last reading of a GPU is in both its      *)
(* entries, or about to be stored.                                         *)
(***************************************************************************)

\* The places of the updater_ thread, and its record at each of them.
WorkerAt == {"loop", "test", "task", "blocking", "blocked", "reading", "exit"}

WorkerOK ==
  \/ /\ worker \in [pc : WorkerAt, key : Key \cup {<<>>}, began : Nat]
     /\ worker.pc \in {"task", "reading"} => worker.key \in Key
  \/ /\ worker \in [pc : {"store"}, key : Key, began : Nat,
                    ret : {"SUCCESS", "NOT_SUPPORTED", "ERROR"}, curTime : Nat]
     /\ worker.curTime <= clock
     /\ worker.curTime = read_at[worker.key[1]]

\* An entry of async_metrics_ was stored in the past, and a successful one
\* holds the value of the reading that ended then.
EntriesOK ==
  \A k \in DOMAIN async_metrics_ :
    /\ async_metrics_[k].last_time \in Nat
    /\ async_metrics_[k].last_time <= clock
    /\ async_metrics_[k].status = "SUCCESS" =>
         async_metrics_[k].value = async_metrics_[k].last_time

\* The last reading of a GPU is in both its entries, or the worker is about to
\* store it.
ReadingKept ==
  \A g \in GpuIndexes :
    read_at[g] # Never =>
      \/ worker.pc = "store" /\ worker.key[1] = g
      \/ \A f \in PcieFields :
           /\ <<g, f>> \in DOMAIN async_metrics_
           /\ async_metrics_[<<g, f>>].last_time = read_at[g]

\* Inductive invariant for AnswerIsRecent and ReadingsSpaced.
AsyncInv ==
  /\ clock \in Nat
  /\ updated_tasks_ \in Seq(Key)
  /\ read_at \in [GpuIndexes -> Int]
  /\ WorkerOK
  /\ EntriesOK
  /\ ReadingKept

\* The invariant holds at the start.
LEMMA AsyncInitInv == AsyncInit => AsyncInv
BY DEF AsyncInit, AsyncInv, WorkerOK, WorkerAt, EntriesOK, ReadingKept, Never

\* Every step keeps it.
LEMMA AsyncStepInv == AsyncInv /\ [AsyncNext]_avars => AsyncInv'
<1> SUFFICES ASSUME AsyncInv, [AsyncNext]_avars PROVE AsyncInv'
  OBVIOUS
<1> USE AsyncConstants DEF AsyncInv
<1>1. ASSUME NEW k \in Key, async_get_pcie_throughput(k) PROVE AsyncInv'
  <2>1. updated_tasks_' \in Seq(Key)
    BY <1>1, SMTT(30) DEF async_get_pcie_throughput
  <2> QED
    BY <1>1, <2>1, Zenon DEF async_get_pcie_throughput, WorkerOK, EntriesOK, ReadingKept
<1>2. ASSUME UNCHANGED <<async_metrics_, updated_tasks_, clock, read_at>>,
             worker.pc \in WorkerAt \ {"task"},
             UNCHANGED worker \/ \E pc \in WorkerAt \ {"task", "reading"} : WorkerTo(pc)
      PROVE  AsyncInv'
  BY <1>2, Zenon DEF WorkerTo, WorkerOK, WorkerAt, EntriesOK, ReadingKept
<1>3. CASE UNCHANGED <<async_metrics_, updated_tasks_, worker, clock, read_at>>
  BY <1>3, Zenon DEF WorkerOK, EntriesOK, ReadingKept
<1>4. CASE CallerNotify
  BY <1>2, <1>3, <1>4, Zenon DEF CallerNotify, NotifyAll, WorkerAt
<1>5. CASE WorkerLoop
  BY <1>2, <1>5, Zenon DEF WorkerLoop, WorkerAt
<1>6. CASE WorkerTest
  <2>1. CASE updated_tasks_ # <<>>
    <3>1. Head(updated_tasks_) \in Key /\ Tail(updated_tasks_) \in Seq(Key)
      BY <2>1
    <3> QED
      BY <1>6, <2>1, <3>1, ZenonT(20) DEF WorkerTest, WorkerOK, WorkerAt, EntriesOK, ReadingKept
  <2>2. CASE updated_tasks_ = <<>>
    BY <1>2, <1>6, <2>2, Zenon DEF WorkerTest, WorkerAt
  <2> QED
    BY <2>1, <2>2, Zenon
<1>7. CASE WorkerBlock
  BY <1>2, <1>7, Zenon DEF WorkerBlock, WorkerAt
<1>8. CASE WorkerRecheck
  BY <1>8, ZenonT(30) DEF WorkerRecheck, WorkerOK, WorkerAt, EntriesOK, ReadingKept
<1>9. CASE WorkerRead
  <2>1. worker.key \in Key /\ worker.key[1] \in GpuIndexes
    BY <1>9, ZenonT(30) DEF WorkerRead, WorkerOK, Key
  <2>2. WorkerOK' /\ EntriesOK'
    BY <1>9, <2>1, SMTT(30) DEF WorkerRead, WorkerOK, WorkerAt, EntriesOK
  <2>3. ReadingKept'
    BY <1>9, <2>1, SMTT(30) DEF WorkerRead, WorkerOK, ReadingKept, Never
  <2> QED
    BY <1>9, <2>1, <2>2, <2>3 DEF WorkerRead
<1>10. CASE WorkerStore
  <2>1. worker.key \in Key /\ worker.key[1] \in GpuIndexes /\ worker.curTime \in Nat
        /\ worker.curTime <= clock /\ worker.began \in Nat
        /\ worker.curTime = read_at[worker.key[1]]
    BY <1>10, Zenon DEF WorkerStore, WorkerOK, WorkerAt, Key
  <2>2. WorkerOK'
    BY <1>10, <2>1, Zenon DEF WorkerStore, WorkerOK, WorkerAt
  <2>3. EntriesOK'
    BY <1>10, <2>1, Zenon DEF WorkerStore, EntriesOK, Stored
  <2>4. ReadingKept'
    <3> SUFFICES ASSUME NEW g \in GpuIndexes, read_at[g] # Never, NEW f \in PcieFields
                 PROVE  /\ <<g, f>> \in DOMAIN async_metrics_'
                        /\ async_metrics_'[<<g, f>>].last_time = read_at[g]
      BY <1>10, ZenonT(20) DEF WorkerStore, ReadingKept
    <3>1. CASE worker.key[1] = g
      BY <1>10, <2>1, <3>1, Zenon DEF WorkerStore, Stored, StoredKeys
    <3>2. CASE worker.key[1] # g
      BY <1>10, <3>2, Zenon DEF WorkerStore, StoredKeys, ReadingKept
    <3> QED
      BY <3>1, <3>2, Zenon
  <2> QED
    BY <1>10, <2>2, <2>3, <2>4 DEF WorkerStore
<1>11. CASE WorkerSpurious
  BY <1>2, <1>11, Zenon DEF WorkerSpurious, WorkerAt
<1>12. CASE DtorStop \/ DtorJoin
  BY <1>3, <1>12, Zenon DEF DtorStop, DtorJoin
<1>13. CASE DtorNotify
  BY <1>2, <1>3, <1>13, ZenonT(30) DEF DtorNotify, NotifyAll, WorkerAt
<1>14. CASE Tick
  BY <1>14 DEF Tick, WorkerOK, EntriesOK, ReadingKept
<1>15. CASE UNCHANGED avars
  BY <1>3, <1>15 DEF avars
<1> QED
  BY <1>1, <1>4, <1>5, <1>6, <1>7, <1>8, <1>9, <1>10, <1>11, <1>12, <1>13, <1>14, <1>15, ZenonT(30)
     DEF AsyncNext, WorkerStep, DtorStep

\* What the worker finds in the cache is as old as the last reading.
THEOREM AsyncInvariant == AsyncSpec => []AsyncInv
BY AsyncInitInv, AsyncStepInv, PTL DEF AsyncSpec

\* A successful answer of fetch_smi_field is a value that was read less than
\* cache_ttl ago, whatever the worker, the queue and the destructor are doing.
THEOREM AnswersAreRecent == AsyncSpec => AnswerIsRecent
<1>1. AsyncInv /\ [AsyncNext]_avars =>
        [answer' # answer /\ answer'.status = "SUCCESS" =>
           answer'.value # Unset /\ clock < answer'.value + cache_ttl]_avars
  <2> SUFFICES ASSUME AsyncInv, AsyncNext, answer' # answer,
                      answer'.status = "SUCCESS"
               PROVE  answer'.value # Unset /\ clock < answer'.value + cache_ttl
    BY DEF avars
  <2>1. PICK k \in Key : async_get_pcie_throughput(k)
    BY Zenon DEF AsyncNext, CallerNotify, WorkerStep, WorkerLoop, WorkerTest, WorkerBlock,
           WorkerRecheck, WorkerRead, WorkerStore, WorkerSpurious, DtorStop, DtorStep,
           DtorNotify, DtorJoin, Tick
  <2>2. Fresh(k)
    BY <2>1, SMTT(30) DEF async_get_pcie_throughput
  <2>3. answer'.status = async_metrics_[k].status /\ answer'.value = async_metrics_[k].value
    BY <2>1, <2>2 DEF async_get_pcie_throughput
  <2>4. /\ k \in DOMAIN async_metrics_ /\ clock < async_metrics_[k].last_time + cache_ttl
        /\ async_metrics_[k].last_time \in Nat
    BY <2>2, Zenon DEF Fresh, AsyncInv, EntriesOK
  <2>5. answer'.value = async_metrics_[k].last_time
    BY <2>3, <2>4, Zenon DEF AsyncInv, EntriesOK
  <2> QED
    BY <2>4, <2>5 DEF Unset
<1> QED
  BY <1>1, AsyncInvariant, PTL DEF AsyncSpec, AnswerIsRecent

\* A GPU's throughput is read at most once per cache_ttl, however many tasks
\* for it are in the queue of the updater thread.
THEOREM ReadingsAreSpaced == AsyncSpec => ReadingsSpaced
<1>1. AsyncInv /\ [AsyncNext]_avars =>
        [\A g \in GpuIndexes :
           worker.pc = "task" /\ worker'.pc = "reading" /\ worker.key[1] = g =>
             read_at[g] = Never \/ clock >= read_at[g] + cache_ttl]_avars
  <2> SUFFICES ASSUME AsyncInv, AsyncNext, NEW g \in GpuIndexes, worker.pc = "task",
                      worker'.pc = "reading", worker.key[1] = g, read_at[g] # Never
               PROVE  clock >= read_at[g] + cache_ttl
    BY Zenon
  <2> USE AsyncConstants DEF AsyncInv
  <2>1. worker.key \in Key /\ worker # worker'
    BY Zenon DEF WorkerOK
  <2>2. WorkerRecheck
    BY <2>1, Zenon DEF AsyncNext, async_get_pcie_throughput, CallerNotify, NotifyAll, WorkerStep,
           WorkerLoop, WorkerTest, WorkerBlock, WorkerRead, WorkerStore, WorkerSpurious,
           DtorStop, DtorStep, DtorNotify, DtorJoin, Tick
  <2>3. ~Fresh(worker.key)
    BY <2>2 DEF WorkerRecheck, WorkerOK, WorkerAt
  <2>4. \E f \in PcieFields : worker.key = <<g, f>>
    BY <2>1 DEF Key
  <2>5. worker.key \in DOMAIN async_metrics_
        /\ async_metrics_[worker.key].last_time = read_at[g]
    BY <2>4, Zenon DEF ReadingKept
  <2> QED
    BY <2>3, <2>5 DEF Fresh, EntriesOK
<1> QED
  BY <1>1, AsyncInvariant, PTL DEF AsyncSpec, ReadingsSpaced
=============================================================================
