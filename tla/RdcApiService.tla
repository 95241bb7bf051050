---------------------------- MODULE RdcApiService ---------------------------
(***************************************************************************)
(* RdcAPIServiceImpl: what each RPC puts into its reply, given the answer  *)
(* of the library.  A reply of protobuf starts out with status 0, which is *)
(* RDC_ST_OK, and with no content.                                         *)
(***************************************************************************)
EXTENDS Integers

CONSTANT Junk                  \* content nobody wrote

\* The status goes in at once, the content only when the call worked.
Filled(a, content) ==
  [rpc |-> "OK", status |-> a.status,
   content |-> IF a.status = "OK" THEN content ELSE Junk]

\* The handlers that copy what the call wrote, good or not.
FilledAnyway(a) == [rpc |-> "OK", status |-> a.status, content |-> a.out]

\* The handlers without content.
StatusOnly(a) == Filled(a, Junk)

GetAllDevices(a) == Filled(a, a.out)
GetDeviceAttributes(a) == FilledAnyway(a)
GetComponentVersion(a) == FilledAnyway(a)

\* Mutant: the id is forgotten, and the client reads 0.
CreateGpuGroupNoId(a) == Filled(a, 0)

CreateGpuGroup(a) == Filled(a, a.out)
AddToGpuGroup(a) == StatusOnly(a)
GetGpuGroupInfo(a) == Filled(a, a.out)
GetGroupAllIds(a) == Filled(a, a.out)
GetFieldGroupAllIds(a) == Filled(a, a.out)
DestroyGpuGroup(a) == StatusOnly(a)

\* The reply of a call that got as far as the library: see ServeOverrun for what
\* the copy of the ids may do before.
CreateFieldGroup(a) == Filled(a, a.out)

GetFieldGroupInfo(a) == Filled(a, a.out)
DestroyFieldGroup(a) == StatusOnly(a)
WatchFields(a) == StatusOnly(a)

\* One member of the oneof is set, by the type of the value.
GetLatestFieldValue(a) == Filled(a, a.out)

\* The history sends a text without its trailing blanks.
GetFieldSince(a) ==
  Filled(a, IF a.status = "OK" /\ a.out.type \in {"STRING", "BLOB"}
            THEN [a.out EXCEPT !.blanks = FALSE] ELSE a.out)

UnWatchFields(a) == StatusOnly(a)
UpdateAllFields(a) == StatusOnly(a)
StartJobStats(a) == StatusOnly(a)

\* The members of rdc_gpu_usage_info_t; the eight summaries have four numbers
\* each, which are copied together.
GpuUsageInfo ==
  {"gpu_id", "start_time", "end_time", "energy_consumed", "max_gpu_memory_used",
   "ecc_correct", "ecc_uncorrect", "power_usage", "gpu_clock", "gpu_utilization",
   "memory_utilization", "pcie_tx", "pcie_rx", "memory_clock", "gpu_temperature"}

copy_gpu_usage_info(src) == [x \in GpuUsageInfo |-> src[x]]

\* An entry of the array that nobody wrote to.
JunkUsage == [x \in GpuUsageInfo |-> Junk]

\* The first num_gpus entries are sent, whichever entries were filled.
GetJobStats(a) ==
  Filled(a, IF a.status = "OK"
            THEN [num_gpus |-> a.out.num_gpus,
                  summary |-> copy_gpu_usage_info(a.out.summary),
                  gpus |-> [i \in 0 .. (a.out.num_gpus - 1) |->
                              IF i \in DOMAIN a.out.gpus
                              THEN copy_gpu_usage_info(a.out.gpus[i]) ELSE JunkUsage]]
            ELSE Junk)

StopJobStats(a) == StatusOnly(a)
RemoveJob(a) == StatusOnly(a)
RemoveAllJob(a) == StatusOnly(a)
DiagnosticRun(a) == Filled(a, a.out)
DiagnosticTestCaseRun(a) == Filled(a, a.out)

\* Answered by the daemon itself; the RPC fails for any component but rdcd.
GetMixedComponentVersion(component) ==
  IF component = "rdcd"
  THEN [rpc |-> "OK", status |-> "OK", content |-> "version"]
  ELSE [rpc |-> "INVALID_ARGUMENT", status |-> "OK", content |-> Junk]
=============================================================================
