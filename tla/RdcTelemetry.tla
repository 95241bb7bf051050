---------------------------- MODULE RdcTelemetry ----------------------------
(***************************************************************************)
(* RdcTelemetryModule and the two modules behind it: RdcSmiLib, which asks *)
(* amd-smi for several fields at once or one by one, and rdc_rocp, which   *)
(* averages the readings of the profiler.  Both hand values back through a *)
(* callback, in batches.                                                   *)
(*                                                                         *)
(* Every call is made under watch_mutex_, so one runs at a time; its loops *)
(* are steps.  The callback is RdcWatchTableImpl::handle_fields, which     *)
(* succeeds on every non-empty batch, so the early returns after a failed  *)
(* callback are never taken.  Fields are taken from a request in any       *)
(* order.  All GPUs offer the same profiler metrics.                       *)
(***************************************************************************)
EXTENDS Integers, Sequences

CONSTANTS
  GPUs,
  SmiFields,                   \* fields RdcSmiLib lists
  RocpFields,                  \* fields whose metric the profiler offers
  rdc_bulk_fields,             \* fields amdsmi_get_gpu_metrics_info contains
  PowerFields,                 \* RDC_FI_POWER_USAGE: 0 in bulk is no value
  BULK_FIELDS_MAX,             \* slots of a batch, 16 in the code
  buffer_length_k,             \* readings an average is over, 5 in the code
  HandleMayFail,               \* may get_processor_handle_from_id fail?
  MaxReadings                  \* bound on the readings of one profiler field

ASSUME TelemetryConstants ==
  /\ SmiFields \cap RocpFields = {}
  /\ PowerFields \subseteq rdc_bulk_fields /\ rdc_bulk_fields \subseteq SmiFields
  /\ BULK_FIELDS_MAX \in Nat \ {0} /\ buffer_length_k \in Nat \ {0}
  /\ HandleMayFail \in BOOLEAN /\ MaxReadings \in Nat

VARIABLES
  fields_id_module_,           \* field -> "smi" or "rocp"
  bulk_fetch_enabled_,         \* RDC_BULK_FETCH_ENABLED is set
  rs_ok,                       \* static rs of bulk_fetch_smi_fields: still good?
  average,                     \* (gpu, profiler field) -> [buffer, index]
  fetch,                       \* the call: [at, wanted, smi, rocp], the last two
                               \* the keys each module still has to fetch
  values,                      \* the slots of the batch being filled
  bulk_count,
  reported,                    \* history: what the call gave the callback
  repeated,                    \* history: was a key reported twice in a call?
  readings,                    \* history: readings of each profiler key, ever
  unwatched                    \* history: readings before its last unwatch

SmiKeys == GPUs \X SmiFields
RocpKeys == GPUs \X RocpFields
Keys == SmiKeys \cup RocpKeys

Index == 0 .. BULK_FIELDS_MAX - 1
NoKey == <<>>

\* A slot of the array, with the key its value was really read from.
Slot == [key : Keys, ok : BOOLEAN, read : Keys \cup {NoKey}]
Uninitialized == [key |-> NoKey, ok |-> FALSE, read |-> NoKey]

avgvars == <<average, readings, unwatched>>
libvars == <<fields_id_module_, bulk_fetch_enabled_>>
batchvars == <<values, bulk_count>>
repvars == <<reported, repeated>>
telvars == <<libvars, rs_ok, avgvars, fetch, batchvars, repvars>>

NoFetch == [at |-> "idle", wanted |-> {}, smi |-> {}, rocp |-> {}]

\* The constructor: each field goes to the first module that lists it.  The
\* profiler lists none when its library is disabled or does not load.
ModuleOf(rocp) ==
  [f \in SmiFields \cup (IF rocp THEN RocpFields ELSE {}) |->
     IF f \in SmiFields THEN "smi" ELSE "rocp"]

TelemetryInit ==
  /\ \E rocp \in BOOLEAN : fields_id_module_ = ModuleOf(rocp)
  /\ bulk_fetch_enabled_ \in BOOLEAN
  /\ rs_ok = TRUE
  /\ average = [k \in RocpKeys |-> [buffer |-> <<>>, index |-> 0]]
  /\ fetch = NoFetch
  /\ values = [i \in Index |-> Uninitialized] /\ bulk_count = 0
  /\ reported = {} /\ repeated = FALSE
  /\ readings = [k \in RocpKeys |-> 0] /\ unwatched = [k \in RocpKeys |-> 0]

At(pc) == fetch.at = pc

\* get_fields_for_module
For(module, keys) ==
  {k \in keys : k[2] \in DOMAIN fields_id_module_ /\ fields_id_module_[k[2]] = module}

Unsupported(keys) == {k \in keys : k[2] \notin DOMAIN fields_id_module_}

-----------------------------------------------------------------------------
(* The callback and the batches *)

\* The callback is given the values in S, a key twice if `twice`.
Callback(S, twice) ==
  /\ reported' = reported \cup S
  /\ repeated' = (repeated \/ twice \/ \E s \in S, r \in reported : s.key = r.key)

\* The slots of the array that hold values.
Filled == {i \in Index : i < bulk_count}

Flush ==
  Callback({values[i] : i \in Filled},
           \E i, j \in Filled : i # j /\ values[i].key = values[j].key)

\* Mutant: the array is handed over one value too late.
BatchFullLate == bulk_count > BULK_FIELDS_MAX

BatchFull == bulk_count >= BULK_FIELDS_MAX

NextSlot == IF BatchFull THEN 0 ELSE bulk_count

\* The next value goes into the array, which is handed over first when full.
Put(slot) ==
  /\ IF BatchFull THEN Flush ELSE UNCHANGED repvars
  /\ values' = [values EXCEPT ![NextSlot] = slot]
  /\ bulk_count' = NextSlot + 1

\* A module returns: the array was on its stack.
EndModule ==
  /\ fetch' = [fetch EXCEPT !.at = "dispatch"]
  /\ values' = [i \in Index |-> Uninitialized] /\ bulk_count' = 0
  /\ UNCHANGED <<libvars, rs_ok, avgvars>>

\* Mutant: only full batches are handed over.
LastFlushFull ==
  /\ IF BatchFull THEN Flush ELSE UNCHANGED repvars
  /\ EndModule

\* The end of a module's loop: what is left in the array is handed over.
LastFlush ==
  /\ Flush
  /\ EndModule

-----------------------------------------------------------------------------
(* rdc_telemetry_fields_value_get *)

\* A request: its keys are dispatched to the modules.
FieldsValueGet(keys) ==
  /\ At("idle") /\ keys # {}
  /\ \A k \in keys \cap RocpKeys : readings[k] < MaxReadings
  /\ fetch' = [at |-> "dispatch", wanted |-> keys,
               smi |-> For("smi", keys), rocp |-> For("rocp", keys)]
  /\ UNCHANGED <<libvars, rs_ok, avgvars, batchvars, repvars>>

\* A module is called with its keys.
BeginModule(pc) ==
  /\ fetch' = [fetch EXCEPT !.at = pc]
  /\ UNCHANGED <<libvars, rs_ok, avgvars, batchvars, repvars>>

\* After the modules, the callback is told of the fields none supports.
ReportUnsupported ==
  /\ At("dispatch") /\ fetch.smi = {} /\ fetch.rocp = {}
  /\ Callback({[key |-> k, ok |-> FALSE, read |-> NoKey] : k \in Unsupported(fetch.wanted)},
              FALSE)
  /\ fetch' = [fetch EXCEPT !.at = "done"]
  /\ UNCHANGED <<libvars, rs_ok, avgvars, batchvars>>

Return ==
  /\ At("done")
  /\ fetch' = NoFetch
  /\ reported' = {}
  /\ UNCHANGED <<libvars, rs_ok, avgvars, batchvars, repeated>>

-----------------------------------------------------------------------------
(* RdcSmiLib *)

SmiBegin ==
  /\ At("dispatch") /\ fetch.smi # {}
  /\ BeginModule(IF bulk_fetch_enabled_ THEN "bulk" ELSE "smi")

\* The one-by-one loop skips the fields that came in bulk.
LeftOver(keys, bulk) == keys \ bulk

\* bulk_fetch_smi_fields and the callback on its results: none once amd-smi
\* has refused, else the bulk fields without the power readings of 0.
BulkResults(bulk) ==
  LET asked == {k \in fetch.smi : k[2] \in rdc_bulk_fields}
  IN  \/ ~rs_ok /\ bulk = {} /\ UNCHANGED rs_ok
      \/ rs_ok /\ asked # {} /\ bulk = {} /\ rs_ok' = FALSE
      \/ /\ rs_ok /\ UNCHANGED rs_ok
         /\ bulk \subseteq asked
         /\ \A k \in asked \ bulk : k[2] \in PowerFields

SmiBulk ==
  /\ At("bulk")
  /\ \E bulk \in SUBSET fetch.smi :
       /\ BulkResults(bulk)
       /\ Callback({[key |-> k, ok |-> TRUE, read |-> k] : k \in bulk}, FALSE)
       /\ fetch' = [fetch EXCEPT !.at = "smi", !.smi = LeftOver(fetch.smi, bulk)]
  /\ UNCHANGED <<libvars, avgvars, batchvars>>

\* fetch_smi_field once it has the GPU: key and status are always written,
\* the value when amd-smi had one.
Fetched(k) == {[key |-> k, ok |-> TRUE, read |-> k], [key |-> k, ok |-> FALSE, read |-> NoKey]}

\* fetch_smi_field that does not find the GPU writes nothing.  The caller has
\* set the GPU of the slot; the rest is from the last batch, or whatever was
\* on the stack.
NotFetched(k, old) ==
  IF old = Uninitialized
  THEN {[key |-> <<k[1], f>>, ok |-> b, read |-> NoKey] : f \in SmiFields, b \in BOOLEAN}
  ELSE {[old EXCEPT !.key = <<k[1], old.key[2]>>]}

SmiFetch(k) ==
  /\ At("smi") /\ k \in fetch.smi
  /\ \E slot \in Fetched(k) \cup (IF HandleMayFail THEN NotFetched(k, values[NextSlot]) ELSE {}) :
       Put(slot)
  /\ fetch' = [fetch EXCEPT !.smi = @ \ {k}]
  /\ UNCHANGED <<libvars, rs_ok, avgvars>>

SmiEnd == At("smi") /\ fetch.smi = {} /\ LastFlush

-----------------------------------------------------------------------------
(* rdc_rocp *)

RocpBegin == At("dispatch") /\ fetch.rocp # {} /\ BeginModule("rocp")

\* get_average: the reading goes into the ring buffer.
get_average(a, raw_value) ==
  [buffer |-> IF Len(a.buffer) < buffer_length_k THEN Append(a.buffer, raw_value)
              ELSE [a.buffer EXCEPT ![a.index + 1] = raw_value],
   index |-> (a.index + 1) % buffer_length_k]

\* rocp_lookup on one field; a reading is known by its number.
RocpFetch(k) ==
  /\ At("rocp") /\ k \in fetch.rocp
  /\ readings' = [readings EXCEPT ![k] = @ + 1]
  /\ average' = [average EXCEPT ![k] = get_average(@, readings[k] + 1)]
  /\ Put([key |-> k, ok |-> TRUE, read |-> k])
  /\ fetch' = [fetch EXCEPT !.rocp = @ \ {k}]
  /\ UNCHANGED <<libvars, rs_ok, unwatched>>

RocpEnd == At("rocp") /\ fetch.rocp = {} /\ LastFlush

\* Mutant: the buffer is emptied, the index left alone.
ResetAverageBuffer(a) == [a EXCEPT !.buffer = <<>>]

reset_average(a) == [buffer |-> <<>>, index |-> 0]

\* rdc_telemetry_fields_unwatch: the counters it releases are smi_data_ of
\* RdcWatchTable.
FieldsUnwatch(keys) ==
  LET gone == For("rocp", keys)
  IN  /\ At("idle")
      /\ average' = [k \in RocpKeys |-> IF k \in gone THEN reset_average(average[k]) ELSE average[k]]
      /\ unwatched' = [k \in RocpKeys |-> IF k \in gone THEN readings[k] ELSE unwatched[k]]
      /\ UNCHANGED <<libvars, rs_ok, readings, fetch, batchvars, repvars>>

-----------------------------------------------------------------------------

TelemetryNext ==
  \/ \E keys \in SUBSET Keys : FieldsValueGet(keys) \/ FieldsUnwatch(keys)
  \/ SmiBegin \/ SmiBulk \/ (\E k \in SmiKeys : SmiFetch(k)) \/ SmiEnd
  \/ RocpBegin \/ (\E k \in RocpKeys : RocpFetch(k)) \/ RocpEnd
  \/ ReportUnsupported \/ Return

TelemetrySpec == TelemetryInit /\ [][TelemetryNext]_telvars

-----------------------------------------------------------------------------
(* Properties *)

\* Type invariant; bulk_count stays within the array of values, which a
\* batch handed over too late would overrun.
TelemetryTypeOK ==
  /\ fields_id_module_ \in {ModuleOf(rocp) : rocp \in BOOLEAN}
  /\ bulk_fetch_enabled_ \in BOOLEAN /\ rs_ok \in BOOLEAN /\ repeated \in BOOLEAN
  /\ average \in [RocpKeys -> [buffer : Seq(Nat), index : 0 .. buffer_length_k - 1]]
  /\ fetch \in [at : {"idle", "dispatch", "bulk", "smi", "rocp", "done"}, wanted : SUBSET Keys,
                smi : SUBSET SmiKeys, rocp : SUBSET RocpKeys]
  /\ values \in [Index -> Slot \cup {Uninitialized}]
  /\ bulk_count \in 0 .. BULK_FIELDS_MAX
  /\ reported \subseteq Slot
  /\ readings \in [RocpKeys -> Nat] /\ unwatched \in [RocpKeys -> Nat]

\* Every field of a request is reported exactly once: in bulk, in a batch, or
\* as unsupported.  handle_fields stamps last_update_time from the report, so
\* a field left out would be fetched without end and one reported twice would
\* be cached twice.
ReportedOnce ==
  /\ ~repeated
  /\ At("done") => {s.key : s \in reported} = fetch.wanted

\* "Only cache valid results" (RdcWatchTableImpl.cc:411): a value reported as
\* good was read from the very GPU and field it is reported for.
GoodIsOwn == \A s \in reported : s.ok => s.read = s.key

\* The average of a profiler field is over its most recent readings, at most
\* buffer_length_k of them, none from before the field was last unwatched:
\* the ring buffer holds exactly those.
AverageIsRecent ==
  \A k \in RocpKeys :
    LET buffer == average[k].buffer
        n == Len(buffer)
    IN  /\ n = IF readings[k] - unwatched[k] < buffer_length_k THEN readings[k] - unwatched[k]
               ELSE buffer_length_k
        /\ {buffer[i] : i \in 1 .. n} = (readings[k] - n + 1) .. readings[k]
=============================================================================
