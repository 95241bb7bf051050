------------------------ MODULE RdcApiAnswersProofs -------------------------
(***************************************************************************)
(* What a client reads from the reply of the daemon is what the library    *)
(* answered inside the daemon, for every operation of the API and any      *)
(* number of clients.  The arrays of the API are large enough for it       *)
(* because the library keeps its own limits (LimitsOK).                    *)
(***************************************************************************)
EXTENDS RdcApiProofs, FiniteSetTheorems

-----------------------------------------------------------------------------
(* The answer over the network and the answer inside the daemon *)

\* The operations that have a status and nothing else.
StatusOperations ==
  {"group_gpu_add", "group_gpu_destroy", "group_field_destroy", "field_watch",
   "field_unwatch", "update_all", "job_start", "job_stop", "job_remove", "job_remove_all"}

\* What a good answer of the library is like: it fits into the arrays of the API.
Fits(op, a) ==
  a.status = "OK" =>
    /\ op \in StatusOperations => a.out = Junk
    /\ op = "device_get_all" => Cardinality(a.out) <= RDC_MAX_NUM_DEVICES
    /\ op = "group_gpu_get_info" => Cardinality(a.out) <= RDC_GROUP_MAX_ENTITIES
    /\ op = "group_get_all_ids" =>
         Cardinality(a.out) \in Nat /\ Cardinality(a.out) <= RDC_MAX_NUM_GROUPS
    /\ op = "group_field_get_all_ids" => Cardinality(a.out) < RDC_MAX_NUM_FIELD_GROUPS
    /\ op = "group_field_get_info" =>
         Cardinality(a.out) <= RDC_MAX_FIELD_IDS_PER_FIELD_GROUP
    /\ op = "field_since" =>
         a.out = [type |-> a.out.type, value |-> a.out.value, blanks |-> a.out.blanks]
    /\ op = "job_get" =>
         a.out.summary = Usage /\ \A i \in DOMAIN a.out.gpus : a.out.gpus[i] = Usage
    /\ op \in {"diagnostic_run", "test_case_run"} =>
         \A r \in a.out : Cardinality(r.gpus) <= RDC_MAX_NUM_DEVICES
    /\ op = "diagnostic_run" => Cardinality(a.out) <= MAX_TEST_CASES

\* What RemoteAnswer asks of a result of the operation op, the answer being a.
Agrees(op, result, a) ==
  \/ /\ result.status = a.status
     /\ result.status = "OK" => SameOut(op, result.out, a.out)
  \/ /\ op = "group_get_all_ids" /\ result.status = "MAX_LIMIT"
     /\ Cardinality(a.out) = RDC_MAX_NUM_GROUPS
  \/ /\ op = "job_get" /\ result.status = "OK" /\ a.status = "OK"
     /\ EntriesLost(result.out, a.out)

\* The instance of the handler counts as this module does.
LEMMA SameCardinality == \A S : Standalone!Cardinality(S) = Cardinality(S)
BY Zenon DEF Standalone!Cardinality, Cardinality, Standalone!IsFiniteSet, IsFiniteSet

\* What copying makes of a reply that was filled.
LEMMA FilledCopied ==
  ASSUME NEW a, NEW content, NEW out
  PROVE  LET r == Service!Filled(a, content)
         IN  /\ r.status = a.status /\ Standalone!error_handle(r) = a.status
             /\ a.status = "OK" => r.content = content
             /\ Standalone!Copied(r, out).status = a.status
             /\ a.status = "OK" => Standalone!Copied(r, out).out = out
BY Zenon DEF Service!Filled, Standalone!error_handle, Standalone!Copied, Standalone!Result

\* A handler that checks the size of what it is given: it takes the content
\* over when that fits, and answers status when it does not.
LEMMA FilledWithin ==
  ASSUME NEW a, NEW content, NEW fits, NEW status
  PROVE  LET r == Service!Filled(a, content)
             result == Standalone!CopiedWithin(r, fits, status)
         IN  /\ a.status # "OK" => result.status = a.status
             /\ a.status = "OK" /\ fits => result.status = a.status /\ result.out = content
             /\ a.status = "OK" /\ ~fits => result.status = status
BY Zenon DEF Service!Filled, Standalone!error_handle, Standalone!Copied, Standalone!Result,
       Standalone!CopiedWithin

\* Operations that answer nothing but a status agree.
LEMMA StatusAgrees ==
  ASSUME NEW op \in StatusOperations, NEW arg, NEW a, Fits(op, a)
  PROVE  Agrees(op, ResultOf(op, ReplyOf(op, arg, a)), a)
<1>r. PICK r : r = ReplyOf(op, arg, a)
  BY Zenon
<1>1. r = Service!Filled(a, Junk) /\ ResultOf(op, r) = Standalone!Copied(r, Junk)
  <2>1. CASE op = "group_gpu_add"
    BY <1>r, <2>1, ZenonT(30) DEF ResultOf, ReplyOf, Service!AddToGpuGroup, Service!StatusOnly,
         Standalone!rdc_group_gpu_add
  <2>2. CASE op = "group_gpu_destroy"
    BY <1>r, <2>2, ZenonT(30) DEF ResultOf, ReplyOf, Service!DestroyGpuGroup, Service!StatusOnly,
         Standalone!rdc_group_gpu_destroy
  <2>3. CASE op = "group_field_destroy"
    BY <1>r, <2>3, ZenonT(30) DEF ResultOf, ReplyOf, Service!DestroyFieldGroup, Service!StatusOnly,
         Standalone!rdc_group_field_destroy
  <2>4. CASE op = "field_watch"
    BY <1>r, <2>4, ZenonT(30) DEF ResultOf, ReplyOf, Service!WatchFields, Service!StatusOnly,
         Standalone!rdc_field_watch
  <2>5. CASE op = "field_unwatch"
    BY <1>r, <2>5, ZenonT(30) DEF ResultOf, ReplyOf, Service!UnWatchFields, Service!StatusOnly,
         Standalone!rdc_field_unwatch
  <2>6. CASE op = "update_all"
    BY <1>r, <2>6, ZenonT(30) DEF ResultOf, ReplyOf, Service!UpdateAllFields, Service!StatusOnly,
         Standalone!rdc_field_update_all
  <2>7. CASE op = "job_start"
    BY <1>r, <2>7, ZenonT(30) DEF ResultOf, ReplyOf, Service!StartJobStats, Service!StatusOnly,
         Standalone!rdc_job_start_stats
  <2>8. CASE op = "job_stop"
    BY <1>r, <2>8, ZenonT(30) DEF ResultOf, ReplyOf, Service!StopJobStats, Service!StatusOnly,
         Standalone!rdc_job_stop_stats
  <2>9. CASE op = "job_remove"
    BY <1>r, <2>9, ZenonT(30) DEF ResultOf, ReplyOf, Service!RemoveJob, Service!StatusOnly,
         Standalone!rdc_job_remove
  <2>10. CASE op = "job_remove_all"
    BY <1>r, <2>10, ZenonT(30) DEF ResultOf, ReplyOf, Service!RemoveAllJob, Service!StatusOnly,
         Standalone!rdc_job_remove_all
  <2> QED
    BY <2>1, <2>2, <2>3, <2>4, <2>5, <2>6, <2>7, <2>8, <2>9, <2>10, ZenonT(30) DEF StatusOperations
<1>2. a.status = "OK" => a.out = Junk
  BY Zenon DEF Fits
<1>3. op \notin {"job_get", "field_since", "group_get_all_ids"}
  BY Zenon DEF StatusOperations
<1>4. /\ Standalone!Copied(r, Junk).status = a.status
      /\ a.status = "OK" => Standalone!Copied(r, Junk).out = Junk
  BY <1>1, FilledCopied
<1> QED
  BY <1>r, <1>1, <1>2, <1>3, <1>4, ZenonT(30) DEF Agrees, SameOut

\* Operations whose content is copied without a check agree.
LEMMA PlainAgrees ==
  ASSUME NEW op \in {"device_get_attributes", "component_version", "group_gpu_create",
                     "group_field_create", "field_latest"},
         NEW arg, NEW a
  PROVE  Agrees(op, ResultOf(op, ReplyOf(op, arg, a)), a)
<1>1. ASSUME NEW r, r = ReplyOf(op, arg, a)
      PROVE  /\ ResultOf(op, r) = Standalone!Copied(r, r.content)
             /\ r.rpc = "OK" /\ r.status = a.status
             /\ a.status = "OK" => r.content = a.out
  <2>1. CASE op = "device_get_attributes"
    BY <1>1, <2>1, ZenonT(30) DEF ResultOf, ReplyOf, Service!GetDeviceAttributes, Service!FilledAnyway,
         Standalone!rdc_device_get_attributes
  <2>2. CASE op = "component_version"
    BY <1>1, <2>2, ZenonT(30) DEF ResultOf, ReplyOf, Service!GetComponentVersion, Service!FilledAnyway,
         Standalone!rdc_device_get_component_version
  <2>3. CASE op = "group_gpu_create"
    BY <1>1, <2>3, ZenonT(30) DEF ResultOf, ReplyOf, Service!CreateGpuGroup, Service!Filled,
         Standalone!rdc_group_gpu_create
  <2>4. CASE op = "group_field_create"
    BY <1>1, <2>4, ZenonT(30) DEF ResultOf, ReplyOf, Service!CreateFieldGroup, Service!Filled,
         Standalone!rdc_group_field_create
  <2>5. CASE op = "field_latest"
    BY <1>1, <2>5, ZenonT(30) DEF ResultOf, ReplyOf, Service!GetLatestFieldValue, Service!Filled,
         Standalone!rdc_field_get_latest_value
  <2> QED
    BY <2>1, <2>2, <2>3, <2>4, <2>5, SMTT(20)
<1>r. PICK r : r = ReplyOf(op, arg, a)
  BY Zenon
<1>2. /\ Standalone!Copied(r, r.content).status = a.status
      /\ a.status = "OK" => Standalone!Copied(r, r.content).out = a.out
  BY <1>1, <1>r, Zenon DEF Standalone!Copied, Standalone!Result, Standalone!error_handle
<1> QED
  BY <1>1, <1>r, <1>2, Zenon DEF Agrees, SameOut

\* Operations whose content is copied when it fits agree.
LEMMA WithinAgrees ==
  ASSUME NEW op \in {"device_get_all", "group_gpu_get_info", "group_get_all_ids",
                     "group_field_get_all_ids", "group_field_get_info",
                     "diagnostic_run", "test_case_run"},
         NEW arg, NEW a, Fits(op, a)
  PROVE  Agrees(op, ResultOf(op, ReplyOf(op, arg, a)), a)
<1>r. PICK r : r = ReplyOf(op, arg, a)
  BY Zenon
<1>1. r = Service!Filled(a, a.out)
  BY <1>r, Zenon DEF ReplyOf, Service!GetAllDevices, Service!GetGpuGroupInfo,
       Service!GetGroupAllIds, Service!GetFieldGroupAllIds, Service!GetFieldGroupInfo,
       Service!DiagnosticRun, Service!DiagnosticTestCaseRun
<1>2. a.status = "OK" => r.content = a.out
  BY <1>1, Zenon DEF Service!Filled
<1>3. ASSUME NEW fits, NEW status, ResultOf(op, r) = Standalone!CopiedWithin(r, fits, status),
             a.status = "OK" => fits
      PROVE  Agrees(op, ResultOf(op, r), a)
  <2>1. /\ a.status # "OK" => Standalone!CopiedWithin(r, fits, status).status = a.status
        /\ a.status = "OK" => /\ Standalone!CopiedWithin(r, fits, status).status = a.status
                              /\ Standalone!CopiedWithin(r, fits, status).out = a.out
    BY <1>1, <1>3, FilledWithin, SMTT(30)
  <2> QED
    BY <1>3, <2>1, Zenon DEF Agrees, SameOut
<1>4. CASE op = "device_get_all"
  <2>1. a.status = "OK" => Standalone!Cardinality(r.content) <= RDC_MAX_NUM_DEVICES
    BY <1>2, <1>4, SameCardinality, Zenon DEF Fits
  <2> QED
    BY <1>3, <1>4, <1>r, <2>1, ZenonT(20) DEF ResultOf, Standalone!rdc_device_get_all
<1>5. CASE op = "group_gpu_get_info"
  <2>1. a.status = "OK" => Standalone!Cardinality(r.content) <= RDC_GROUP_MAX_ENTITIES
    BY <1>2, <1>5, SameCardinality, ZenonT(30) DEF Fits
  <2> QED
    BY <1>3, <1>5, <1>r, <2>1, ZenonT(20) DEF ResultOf, Standalone!rdc_group_gpu_get_info
<1>6. CASE op = "group_field_get_all_ids"
  <2>1. a.status = "OK" => Standalone!Cardinality(r.content) < RDC_MAX_NUM_FIELD_GROUPS
    BY <1>2, <1>6, SameCardinality, Zenon DEF Fits
  <2> QED
    BY <1>3, <1>6, <1>r, <2>1, ZenonT(20) DEF ResultOf, Standalone!rdc_group_field_get_all_ids
<1>7. CASE op = "group_field_get_info"
  <2>1. a.status = "OK" =>
          Standalone!Cardinality(r.content) <= RDC_MAX_FIELD_IDS_PER_FIELD_GROUP
    BY <1>2, <1>7, SameCardinality, ZenonT(30) DEF Fits
  <2> QED
    BY <1>3, <1>7, <1>r, <2>1, ZenonT(20) DEF ResultOf, Standalone!rdc_group_field_get_info
<1>8. CASE op = "test_case_run"
  <2>1. a.status = "OK" =>
          \A d \in r.content : Standalone!Cardinality(d.gpus) <= RDC_MAX_NUM_DEVICES
    BY <1>2, <1>8, SameCardinality, ZenonT(30) DEF Fits
  <2> QED
    BY <1>3, <1>8, <1>r, <2>1, ZenonT(20) DEF ResultOf, Standalone!rdc_test_case_run
<1>9. CASE op = "diagnostic_run"
  <2>1. a.status = "OK" =>
          /\ Standalone!Cardinality(r.content) <= MAX_TEST_CASES
          /\ \A d \in r.content : Standalone!Cardinality(d.gpus) <= RDC_MAX_NUM_DEVICES
    BY <1>2, <1>9, SameCardinality, ZenonT(30) DEF Fits
  <2> QED
    BY <1>3, <1>9, <1>r, <2>1, ZenonT(20) DEF ResultOf, Standalone!rdc_diagnostic_run
<1>10. CASE op = "group_get_all_ids"
  <2>f. PICK fits : fits = (Standalone!Cardinality(r.content) < RDC_MAX_NUM_GROUPS)
    BY Zenon
  <2>1. ResultOf(op, r) = Standalone!CopiedWithin(r, fits, "MAX_LIMIT")
    BY <1>10, <2>f, ZenonT(30) DEF ResultOf, Standalone!rdc_group_get_all_ids
  <2>2. CASE a.status = "OK" => fits
    BY <1>3, <1>r, <2>1, <2>2, ZenonT(30)
  <2>3. CASE a.status = "OK" /\ ~fits
    <3>3. ~(Standalone!Cardinality(r.content) < RDC_MAX_NUM_GROUPS)
      BY <2>f, <2>3, ZenonT(20)
    <3>4. ~(Cardinality(a.out) < RDC_MAX_NUM_GROUPS)
      BY <1>2, <2>3, <3>3, SameCardinality, ZenonT(30)
    <3>5. Cardinality(a.out) \in Nat /\ Cardinality(a.out) <= RDC_MAX_NUM_GROUPS
      BY <1>10, <2>3, Zenon DEF Fits
    <3>1. Cardinality(a.out) = RDC_MAX_NUM_GROUPS
      BY <3>4, <3>5, GroupConstants, SMTT(30)
    <3>2. Standalone!CopiedWithin(r, fits, "MAX_LIMIT").status = "MAX_LIMIT"
      BY <1>1, <2>3, FilledWithin, SMTT(30)
    <3> QED
      BY <1>10, <1>r, <2>1, <3>1, <3>2, ZenonT(30) DEF Agrees
  <2> QED
    BY <2>2, <2>3, ZenonT(30)
<1> QED
  BY <1>4, <1>5, <1>6, <1>7, <1>8, <1>9, <1>10, ZenonT(30)

\* rdc_field_get_value_since agrees.
LEMMA SinceAgrees ==
  ASSUME NEW arg, NEW a, Fits("field_since", a)
  PROVE  Agrees("field_since", ResultOf("field_since", ReplyOf("field_since", arg, a)), a)
<1>r. PICK r : r = ReplyOf("field_since", arg, a)
  BY Zenon
<1>c. PICK content : content = IF a.status = "OK" /\ a.out.type \in {"STRING", "BLOB"}
                               THEN [a.out EXCEPT !.blanks = FALSE] ELSE a.out
  BY ZenonT(20)
<1>1. r = Service!Filled(a, content)
  BY <1>r, <1>c, Zenon DEF ReplyOf, Service!GetFieldSince
<1>2. ResultOf("field_since", r) = Standalone!Copied(r, r.content)
  BY Zenon DEF ResultOf, Standalone!rdc_field_get_value_since
<1>3. /\ Standalone!Copied(r, r.content).status = a.status
      /\ a.status = "OK" => Standalone!Copied(r, r.content).out = content
  BY <1>1, FilledCopied, SMTT(30)
<1>4. a.status = "OK" => [content EXCEPT !.blanks = FALSE] = [a.out EXCEPT !.blanks = FALSE]
  BY <1>c, ZenonT(20) DEF Fits
<1> QED
  BY <1>r, <1>2, <1>3, <1>4, ZenonT(20) DEF Agrees, SameOut

\* rdc_job_get_stats agrees.
LEMMA JobAgrees ==
  ASSUME NEW arg, NEW a, Fits("job_get", a)
  PROVE  Agrees("job_get", ResultOf("job_get", ReplyOf("job_get", arg, a)), a)
<1>r. PICK r : r = ReplyOf("job_get", arg, a)
  BY Zenon
<1>c. PICK sent : sent = [num_gpus |-> a.out.num_gpus,
                          summary |-> Service!copy_gpu_usage_info(a.out.summary),
                          gpus |-> [i \in 0 .. (a.out.num_gpus - 1) |->
                                      IF i \in DOMAIN a.out.gpus
                                      THEN Service!copy_gpu_usage_info(a.out.gpus[i])
                                      ELSE Service!JunkUsage]]
  BY ZenonT(20)
<1>1. r = Service!Filled(a, IF a.status = "OK" THEN sent ELSE Junk)
  BY <1>r, <1>c, Zenon DEF ReplyOf, Service!GetJobStats
<1>2. CASE a.status # "OK"
  <2>1. Standalone!error_handle(r) = a.status
    BY <1>1, Zenon DEF Service!Filled, Standalone!error_handle
  <2> QED
    BY <1>2, <1>r, <2>1, ZenonT(30) DEF Agrees, ResultOf, Standalone!rdc_job_get_stats, Standalone!Result
<1>3. CASE a.status = "OK"
  <2>1. Standalone!error_handle(r) = "OK" /\ r.content = sent
    BY <1>1, <1>3, Zenon DEF Service!Filled, Standalone!error_handle
  <2>res. PICK res : res = ResultOf("job_get", r)
    BY Zenon
  <2>2. /\ res.status = "OK" /\ res.out.num_gpus = sent.num_gpus
        /\ res.out.summary = Standalone!copy_gpu_usage_info(sent.summary)
        /\ res.out.gpus = [i \in DOMAIN sent.gpus |->
                             Standalone!copy_gpu_usage_info(sent.gpus[i])]
    BY <2>1, <2>res, ZenonT(30) DEF ResultOf, Standalone!rdc_job_get_stats, Standalone!Result
  <2>3. Service!copy_gpu_usage_info(Usage) = Usage
    BY ApiConstants, Zenon DEF Service!copy_gpu_usage_info
  <2>4. Standalone!copy_gpu_usage_info(Usage) = Usage
    BY ApiConstants, Zenon DEF Standalone!copy_gpu_usage_info
  <2>5. sent.num_gpus = a.out.num_gpus /\ sent.summary = Usage
    BY <1>c, <1>3, <2>3, ZenonT(30) DEF Fits
  <2>6. ASSUME NEW i \in DOMAIN a.out.gpus \cap 0 .. (a.out.num_gpus - 1)
        PROVE  res.out.gpus[i] = a.out.gpus[i]
    <3>1. i \in DOMAIN sent.gpus /\ sent.gpus[i] = Service!copy_gpu_usage_info(a.out.gpus[i])
      BY <1>c, Zenon
    <3>2. a.out.gpus[i] = Usage
      BY <1>3, Zenon DEF Fits
    <3> QED
      BY <2>2, <2>3, <2>4, <3>1, <3>2, SMTT(20)
  <2>7. a.out.summary = Usage
    BY <1>3, Zenon DEF Fits
  <2>8. DOMAIN res.out.gpus = 0 .. (a.out.num_gpus - 1)
    BY <1>c, <2>2, Zenon
  <2>9. res.out.num_gpus = a.out.num_gpus /\ res.out.summary = a.out.summary
    BY <2>2, <2>4, <2>5, <2>7, ZenonT(30)
  <2>10. CASE DOMAIN a.out.gpus \subseteq 0 .. (a.out.num_gpus - 1)
    <3>1. SameOut("job_get", res.out, a.out)
      BY <2>6, <2>8, <2>9, <2>10, ZenonT(30) DEF SameOut
    <3> QED
      BY <1>3, <1>r, <2>res, <2>2, <3>1, ZenonT(30) DEF Agrees
  <2>11. CASE ~ DOMAIN a.out.gpus \subseteq 0 .. (a.out.num_gpus - 1)
    <3>1. EntriesLost(res.out, a.out)
      BY <2>6, <2>8, <2>9, <2>11, ZenonT(30) DEF EntriesLost
    <3> QED
      BY <1>3, <1>r, <2>res, <2>2, <3>1, ZenonT(30) DEF Agrees
  <2> QED
    BY <2>10, <2>11, Zenon
<1> QED
  BY <1>2, <1>3, Zenon

\* Every operation but the mixed version: an answer that fits is the same
\* remotely.
LEMMA AnswersAgree ==
  ASSUME NEW op \in Operations, op # "mixed_version", NEW arg, NEW a, Fits(op, a)
  PROVE  Agrees(op, ResultOf(op, ReplyOf(op, arg, a)), a)
<1>1. CASE op \in StatusOperations
  BY <1>1, StatusAgrees, Zenon
<1>2. CASE op \in {"device_get_attributes", "component_version", "group_gpu_create",
                   "group_field_create", "field_latest"}
  BY <1>2, PlainAgrees, Zenon
<1>3. CASE op \in {"device_get_all", "group_gpu_get_info", "group_get_all_ids",
                   "group_field_get_all_ids", "group_field_get_info",
                   "diagnostic_run", "test_case_run"}
  BY <1>3, WithinAgrees, Zenon
<1>4. CASE op = "field_since"
  BY <1>4, SinceAgrees, Zenon
<1>5. CASE op = "job_get"
  BY <1>5, JobAgrees, Zenon
<1> QED
  BY <1>1, <1>2, <1>3, <1>4, <1>5, ZenonT(30) DEF Operations, StatusOperations

\* The registry keeps to its limits.
LimitsOK ==
  /\ Cardinality(DOMAIN gpu_group_) <= RDC_MAX_NUM_GROUPS
  /\ \A g \in DOMAIN gpu_group_ : Cardinality(gpu_group_[g]) <= RDC_GROUP_MAX_ENTITIES
  /\ JOB_FIELD_ID \in DOMAIN field_group_
  /\ Cardinality(DOMAIN field_group_) <= RDC_MAX_NUM_FIELD_GROUPS
  /\ \A f \in DOMAIN field_group_ :
       Cardinality(field_group_[f]) <= RDC_MAX_FIELD_IDS_PER_FIELD_GROUP

\* Every answer the daemon has sent fits.
AnswersFit ==
  \A k \in DOMAIN tasks :
    /\ tasks[k].at = "reply" => Fits(tasks[k].op, tasks[k].local)
    /\ tasks[k].at = "filling" => tasks[k].op = "group_gpu_create"

RemoteInv == CallsInv /\ LimitsOK /\ AnswersFit

\* The registry is finite: its sets can be counted.
LEMMA Finite ==
  ASSUME GroupTypeOK
  PROVE  /\ IsFiniteSet(GPUs) /\ IsFiniteSet(DOMAIN gpu_group_)
         /\ IsFiniteSet(DOMAIN field_group_)
         /\ \A g \in DOMAIN gpu_group_ : IsFiniteSet(gpu_group_[g])
<1>1. \A m, n \in Int : IsFiniteSet(m .. n)
  BY FS_Interval, Zenon
<1>2. IsFiniteSet(GPUs)
  <2>1. Cardinality(GPUs) - 1 \in Int /\ GPUs = 0 .. (Cardinality(GPUs) - 1)
    BY ApiConstants
  <2> QED
    BY <1>1, <2>1, SMTT(30)
<1>3. IsFiniteSet(1 .. (cur_group_id_ - 1)) /\ IsFiniteSet(0 .. (cur_field_group_id_ - 1))
  <2>1. cur_group_id_ - 1 \in Int /\ cur_field_group_id_ - 1 \in Int /\ 0 \in Int /\ 1 \in Int
    BY DEF GroupTypeOK
  <2> QED
    BY <1>1, <2>1, Zenon
<1>4. IsFiniteSet(DOMAIN gpu_group_) /\ IsFiniteSet(DOMAIN field_group_)
  BY <1>3, FS_Subset, Zenon DEF GroupTypeOK
<1>5. \A g \in DOMAIN gpu_group_ : gpu_group_[g] \subseteq GPUs
  BY Zenon DEF GroupTypeOK
<1> QED
  BY <1>2, <1>4, <1>5, FS_Subset, ZenonT(30)

\* Each operation on the groups keeps to the limits.
LEMMA CreateLimits == GroupTypeOK /\ LimitsOK /\ GroupGpuCreate => LimitsOK'
<1> SUFFICES ASSUME GroupTypeOK, LimitsOK, GroupGpuCreate PROVE LimitsOK'
  BY Zenon
<1>g. PICK g : g = cur_group_id_
  BY Zenon
<1>1. /\ DOMAIN gpu_group_' = DOMAIN gpu_group_ \cup {g} /\ gpu_group_'[g] = {}
      /\ \A h \in DOMAIN gpu_group_ : h # g => gpu_group_'[h] = gpu_group_[h]
      /\ UNCHANGED field_group_
  BY <1>g, Zenon DEF GroupGpuCreate, MapPut
<1>2. g \notin DOMAIN gpu_group_
  BY <1>g, SMTT(20) DEF GroupTypeOK
<1>3. Cardinality(DOMAIN gpu_group_') = Cardinality(DOMAIN gpu_group_) + 1
      /\ Cardinality(DOMAIN gpu_group_) \in Nat
  BY <1>1, <1>2, Finite, FS_AddElement, FS_CardinalityType, ZenonT(30)
<1>4. Cardinality(DOMAIN gpu_group_') <= RDC_MAX_NUM_GROUPS
  BY <1>3, GroupConstants, SMTT(30) DEF GroupGpuCreate
<1>5. Cardinality({}) = 0
  BY FS_EmptySet, Zenon
<1>6. \A h \in DOMAIN gpu_group_' : Cardinality(gpu_group_'[h]) <= RDC_GROUP_MAX_ENTITIES
  <2>1. Cardinality(gpu_group_'[g]) <= RDC_GROUP_MAX_ENTITIES
    <3>1. Cardinality(gpu_group_'[g]) = 0
      BY <1>1, <1>5, SMTT(20)
    <3> QED
      BY <3>1, GroupConstants, SMTT(30)
  <2> QED
    BY <1>1, <2>1, SMTT(20) DEF LimitsOK
<1> QED
  BY <1>1, <1>4, <1>6, Zenon DEF LimitsOK, JOB_FIELD_ID

\* The limits of the registry are kept: by the destruction of a group,
LEMMA DestroyLimits ==
  ASSUME GroupTypeOK, LimitsOK, NEW g, GroupGpuDestroy(g)
  PROVE  LimitsOK'
<1>1. /\ DOMAIN gpu_group_' = DOMAIN gpu_group_ \ {g} /\ g \in DOMAIN gpu_group_
      /\ \A h \in DOMAIN gpu_group_' : gpu_group_'[h] = gpu_group_[h]
      /\ UNCHANGED field_group_
  BY Zenon DEF GroupGpuDestroy, MapErase
<1>2. Cardinality(DOMAIN gpu_group_') = Cardinality(DOMAIN gpu_group_) - 1
      /\ Cardinality(DOMAIN gpu_group_) \in Nat
  BY <1>1, Finite, FS_RemoveElement, FS_CardinalityType, ZenonT(30)
<1>3. Cardinality(DOMAIN gpu_group_') <= RDC_MAX_NUM_GROUPS
  BY <1>2, GroupConstants, SMTT(20) DEF LimitsOK
<1> QED
  BY <1>1, <1>3, Zenon DEF LimitsOK, JOB_FIELD_ID

\* They are kept by a GPU added to a group,
LEMMA AddLimits ==
  ASSUME GroupTypeOK, LimitsOK, NEW g, NEW gpu, GroupGpuAdd(g, gpu)
  PROVE  LimitsOK'
<1>1. /\ g \in DOMAIN gpu_group_ /\ DOMAIN gpu_group_' = DOMAIN gpu_group_
      /\ gpu_group_'[g] = gpu_group_[g] \cup {gpu}
      /\ \A h \in DOMAIN gpu_group_ : h # g => gpu_group_'[h] = gpu_group_[h]
      /\ UNCHANGED field_group_
  BY Zenon DEF GroupGpuAdd, MapPut
<1>2. Cardinality(gpu_group_[g] \cup {gpu}) = Cardinality(gpu_group_[g]) + 1
      /\ Cardinality(gpu_group_[g]) \in Nat
  BY <1>1, Finite, FS_AddElement, FS_CardinalityType, ZenonT(20) DEF GroupGpuAdd
<1>3. Cardinality(gpu_group_'[g]) <= RDC_GROUP_MAX_ENTITIES
  <2>1. Cardinality(gpu_group_[g]) < RDC_GROUP_MAX_ENTITIES
    BY Zenon DEF GroupGpuAdd
  <2>2. Cardinality(gpu_group_[g] \cup {gpu}) <= RDC_GROUP_MAX_ENTITIES
    BY <1>2, <2>1, GroupConstants, SMTT(30)
  <2> QED
    BY <1>1, <2>2, Zenon
<1> QED
  BY <1>1, <1>3, ZenonT(30) DEF LimitsOK, JOB_FIELD_ID

\* by a new field group that is not too large,
LEMMA FieldCreateLimits ==
  ASSUME GroupTypeOK, LimitsOK, NEW fields, GroupFieldCreate(fields),
         ~(Cardinality(fields) > RDC_MAX_FIELD_IDS_PER_FIELD_GROUP),
         fields \subseteq Fields, IsFiniteSet(fields)
  PROVE  LimitsOK'
<1>f. PICK f : f = cur_field_group_id_
  BY Zenon
<1>1. /\ DOMAIN field_group_' = DOMAIN field_group_ \cup {f} /\ field_group_'[f] = fields
      /\ \A h \in DOMAIN field_group_ : h # f => field_group_'[h] = field_group_[h]
      /\ UNCHANGED gpu_group_
  BY <1>f, Zenon DEF GroupFieldCreate, MapPut
<1>2. f \notin DOMAIN field_group_
  BY <1>f DEF GroupTypeOK
<1>3. Cardinality(DOMAIN field_group_') = Cardinality(DOMAIN field_group_) + 1
      /\ Cardinality(DOMAIN field_group_) \in Nat /\ Cardinality(fields) \in Nat
  BY <1>1, <1>2, Finite, FS_AddElement, FS_CardinalityType, ZenonT(30)
<1>4. Cardinality(DOMAIN field_group_') <= RDC_MAX_NUM_FIELD_GROUPS
  BY <1>3, GroupConstants, SMTT(30) DEF GroupFieldCreate
<1>5. Cardinality(fields) <= RDC_MAX_FIELD_IDS_PER_FIELD_GROUP
  BY <1>3, EmbeddedConstants, SMTT(20)
<1>6. \A h \in DOMAIN field_group_' :
        Cardinality(field_group_'[h]) <= RDC_MAX_FIELD_IDS_PER_FIELD_GROUP
  BY <1>1, <1>5, Zenon DEF LimitsOK
<1> QED
  BY <1>1, <1>4, <1>6, ZenonT(30) DEF LimitsOK, JOB_FIELD_ID

\* and by the destruction of a field group.
LEMMA FieldDestroyLimits ==
  ASSUME GroupTypeOK, LimitsOK, NEW f, GroupFieldDestroy(f)
  PROVE  LimitsOK'
<1>1. /\ DOMAIN field_group_' = DOMAIN field_group_ \ {f} /\ f \in DOMAIN field_group_
      /\ f # JOB_FIELD_ID
      /\ \A h \in DOMAIN field_group_' : field_group_'[h] = field_group_[h]
      /\ UNCHANGED gpu_group_
  BY Zenon DEF GroupFieldDestroy, MapErase
<1>2. Cardinality(DOMAIN field_group_') = Cardinality(DOMAIN field_group_) - 1
      /\ Cardinality(DOMAIN field_group_) \in Nat
  BY <1>1, Finite, FS_RemoveElement, FS_CardinalityType, ZenonT(30)
<1>3. Cardinality(DOMAIN field_group_') <= RDC_MAX_NUM_FIELD_GROUPS
  BY <1>2, GroupConstants, SMTT(20) DEF LimitsOK
<1> QED
  BY <1>1, <1>3, Zenon DEF LimitsOK, JOB_FIELD_ID

\* What the library answers fits.
LEMMA ReadFits ==
  ASSUME CallsInv, LimitsOK, NEW op \in Operations, NEW arg,
         op \notin {"group_gpu_create", "group_gpu_add", "group_gpu_destroy",
                    "group_field_create", "group_field_destroy", "update_all"},
         NEW a \in AnswersTo(op, arg)
  PROVE  Fits(op, a)
<1> SUFFICES ASSUME a.status = "OK" PROVE Fits(op, a)
  BY ZenonT(20) DEF Fits
<1>0. \A x : Ok(x).out = x
  BY Zenon DEF Ok
<1>1. CASE op \in {"device_get_attributes", "component_version", "field_latest",
                   "mixed_version"}
  BY <1>1, ZenonT(30) DEF Fits, StatusOperations
<1>2. CASE op = "device_get_all"
  <2>1. a = Ok(GPUs)
    BY <1>2, SMTT(30) DEF AnswersTo, rdc_device_get_all, Smi, Err
  <2>2. Cardinality(a.out) <= RDC_MAX_NUM_DEVICES
    BY <1>0, <2>1, ApiConstants, SMTT(20)
  <2> QED
    BY <1>2, <2>2, ZenonT(30) DEF Fits, StatusOperations
<1>3. CASE op = "group_gpu_get_info"
  <2>1. arg \in DOMAIN gpu_group_ /\ a = Ok(gpu_group_[arg])
    BY <1>3 DEF AnswersTo, rdc_group_gpu_get_info, Err
  <2>2. Cardinality(a.out) <= RDC_GROUP_MAX_ENTITIES
    BY <1>0, <2>1, Zenon DEF LimitsOK
  <2> QED
    BY <1>3, <2>2, Zenon DEF Fits, StatusOperations
<1>4. CASE op = "group_get_all_ids"
  <2>1. a = Ok(DOMAIN gpu_group_)
    BY <1>4, Zenon DEF AnswersTo, rdc_group_get_all_ids
  <2>2. Cardinality(DOMAIN gpu_group_) \in Nat
    BY Finite, FS_CardinalityType, SMTT(20) DEF CallsInv
  <2>3. Cardinality(a.out) \in Nat /\ Cardinality(a.out) <= RDC_MAX_NUM_GROUPS
    BY <1>0, <2>1, <2>2, ZenonT(30) DEF LimitsOK
  <2> QED
    BY <1>4, <2>3, Zenon DEF Fits, StatusOperations
<1>5. CASE op = "group_field_get_all_ids"
  <2>1. a = Ok(DOMAIN field_group_ \ {JOB_FIELD_ID})
    BY <1>5, Zenon DEF AnswersTo, rdc_group_field_get_all_ids
  <2>2. /\ Cardinality(DOMAIN field_group_) \in Nat
        /\ Cardinality(DOMAIN field_group_ \ {JOB_FIELD_ID}) = Cardinality(DOMAIN field_group_) - 1
    BY Finite, FS_CardinalityType, FS_RemoveElement, ZenonT(30) DEF CallsInv, LimitsOK
  <2>3. Cardinality(DOMAIN field_group_ \ {JOB_FIELD_ID}) < RDC_MAX_NUM_FIELD_GROUPS
    BY <2>2, GroupConstants, SMTT(30) DEF LimitsOK
  <2>4. Cardinality(a.out) < RDC_MAX_NUM_FIELD_GROUPS
    BY <1>0, <2>1, <2>3, ZenonT(30)
  <2> QED
    BY <1>5, <2>4, ZenonT(30) DEF Fits, StatusOperations
<1>6. CASE op = "group_field_get_info"
  <2>1. arg \in DOMAIN field_group_ /\ a = Ok(field_group_[arg])
    BY <1>6 DEF AnswersTo, rdc_group_field_get_info, Err
  <2>2. Cardinality(a.out) <= RDC_MAX_FIELD_IDS_PER_FIELD_GROUP
    BY <1>0, <2>1, Zenon DEF LimitsOK
  <2> QED
    BY <1>6, <2>2, Zenon DEF Fits, StatusOperations
<1>7. CASE op = "field_since"
  <2>1. \E v \in Values : a = Ok(v)
    BY <1>7 DEF AnswersTo, rdc_field_get_value_since, rdc_field_get_latest_value, Err
  <2>2. a.out \in Values
    BY <1>0, <2>1, ZenonT(30)
  <2> QED
    BY <1>7, <2>2, ApiConstants, ZenonT(30) DEF Fits, StatusOperations
<1>8. CASE op \in {"field_watch", "field_unwatch", "job_start", "job_stop", "job_remove",
                   "job_remove_all"}
  <2>1. a = Ok(Junk)
    BY <1>8, SMTT(20) DEF AnswersTo, rdc_field_watch, rdc_field_unwatch, rdc_job_start_stats,
         rdc_job_stop_stats, rdc_job_remove, WithGauges, get_gpu_gauges, Smi, Err
  <2> QED
    BY <1>0, <1>8, <2>1, ZenonT(30) DEF Fits
<1>9. CASE op = "job_get"
  <2>1. \E S : a = Ok([num_gpus |-> Cardinality(S), summary |-> Usage,
                       gpus |-> [i \in S |-> Usage]])
    BY <1>9, SMTT(30) DEF AnswersTo, rdc_job_get_stats, WithGauges, get_gpu_gauges, Smi, Err
  <2>2. a.out.summary = Usage /\ \A i \in DOMAIN a.out.gpus : a.out.gpus[i] = Usage
    BY <1>0, <2>1, SMTT(30)
  <2> QED
    BY <1>9, <2>2, Zenon DEF Fits, StatusOperations
<1>10. ASSUME NEW found, a \in Diagnosed(arg, found)
       PROVE  a.out \in found
  <2>1. PICK info : info = CHOOSE x \in rdc_group_gpu_get_info(arg) : TRUE
    BY Zenon
  <2>2. a \in IF info.status # "OK" THEN {info}
              ELSE {Ok(d) : d \in found} \cup {Err("NOT_SUPPORTED")}
    BY <1>10, <2>1, ZenonT(30) DEF Diagnosed
  <2>3. \E d \in found : a = Ok(d)
    BY <2>2, SMTT(30) DEF Err
  <2> QED
    BY <1>0, <2>3, Zenon
<1>11. CASE op = "diagnostic_run"
  <2>1. a.out \in Diagnoses
    BY <1>10, <1>11, Zenon DEF AnswersTo, rdc_diagnostic_run
  <2> QED
    BY <1>11, <2>1, ApiConstants, ZenonT(30) DEF Fits, StatusOperations
<1>12. CASE op = "test_case_run"
  <2>1. a.out \in {{d} : d \in UNION Diagnoses}
    BY <1>10, <1>12, Zenon DEF AnswersTo, rdc_test_case_run
  <2>2. \A r \in a.out : Cardinality(r.gpus) <= RDC_MAX_NUM_DEVICES
    BY <2>1, ApiConstants, ZenonT(30)
  <2> QED
    BY <1>12, <2>2, ZenonT(20) DEF Fits, StatusOperations
<1> QED
  BY <1>1, <1>2, <1>3, <1>4, <1>5, <1>6, <1>7, <1>8, <1>9, <1>11, <1>12, ZenonT(30) DEF Operations

\* A task is answered, or goes on.
LEMMA AnswerFits ==
  ASSUME CallsInv, AnswersFit, UNCHANGED caller, NEW k \in DOMAIN tasks, NEW a, Answer(k, a),
         Fits(tasks[k].op, a)
  PROVE  AnswersFit'
<1>1. CallersOK /\ TasksOK
  BY SMTT(20) DEF CallsInv
<1>2. \/ tasks' = MapErase(tasks, {k})
      \/ /\ tasks' = MapPut(tasks, k, tasks'[k])
         /\ tasks'[k].at = "reply" /\ tasks'[k].local = a /\ tasks'[k].op = tasks[k].op
  BY <1>1, AnswerTasks, SMTT(20)
<1>3. CASE tasks' = MapErase(tasks, {k})
  <2>1. \A j \in DOMAIN tasks' : j \in DOMAIN tasks /\ tasks'[j] = tasks[j]
    BY <1>3, Zenon DEF MapErase
  <2> QED
    BY <2>1, Zenon DEF AnswersFit
<1>4. CASE /\ tasks' = MapPut(tasks, k, tasks'[k])
           /\ tasks'[k].at = "reply" /\ tasks'[k].local = a /\ tasks'[k].op = tasks[k].op
  <2>1. \A j \in DOMAIN tasks' : j # k => j \in DOMAIN tasks /\ tasks'[j] = tasks[j]
    BY <1>4, Zenon DEF MapPut
  <2> QED
    BY <1>4, <2>1, Zenon DEF AnswersFit
<1> QED
  BY <1>2, <1>3, <1>4, Zenon

\* A task that goes on without an answer leaves no answer that does not fit.
LEMMA GotoFits ==
  ASSUME AnswersFit, NEW k \in DOMAIN tasks, NEW u, Goto(k, u), u.at \in {"filling", "assigning"},
         u.at = "filling" => u.op = "group_gpu_create"
  PROVE  AnswersFit'
<1>1. /\ DOMAIN tasks' = DOMAIN tasks /\ tasks'[k] = u
      /\ \A j \in DOMAIN tasks : j # k => tasks'[j] = tasks[j]
  BY Zenon DEF Goto, MapPut
<1>2. u.at # "reply"
  BY Zenon
<1> QED
  BY <1>1, <1>2, Zenon DEF AnswersFit

\* Nor does a step that answers no task.
LEMMA OthersFit ==
  ASSUME AnswersFit, \A j \in DOMAIN tasks' : \/ j \in DOMAIN tasks /\ tasks'[j] = tasks[j]
                                              \/ tasks'[j].at = "sent"
  PROVE  AnswersFit'
BY Zenon DEF AnswersFit

\* A registry left alone keeps its limits.
LEMMA UnchangedLimits == LimitsOK /\ UNCHANGED gvars => LimitsOK'
BY Zenon DEF LimitsOK, gvars, JOB_FIELD_ID

\* What the operations on the groups answer.
LEMMA GpuAddLimits ==
  ASSUME GroupTypeOK, LimitsOK, NEW g, NEW gpu, NEW a, rdc_group_gpu_add(g, gpu, a)
  PROVE  LimitsOK' /\ (a.status = "OK" => a.out = Junk)
<1>1. PICK devices, refused :
        IF refused # "no" THEN a = Err(refused) /\ UNCHANGED gvars
        ELSE a = Ok(Junk) /\ GroupGpuAdd(g, gpu)
  BY Zenon DEF rdc_group_gpu_add
<1> QED
  BY <1>1, AddLimits, UnchangedLimits, SMTT(20) DEF Ok, Err

\* The library's calls that destroy keep the limits, and answer a status only.
LEMMA GroupLimits ==
  ASSUME GroupTypeOK, LimitsOK, NEW x, NEW a,
         rdc_group_gpu_destroy(x, a) \/ rdc_group_field_destroy(x, a)
  PROVE  LimitsOK' /\ (a.status = "OK" => a.out = Junk)
<1>1. CASE rdc_group_gpu_destroy(x, a)
  BY <1>1, DestroyLimits, UnchangedLimits, SMTT(30) DEF rdc_group_gpu_destroy, Ok, Err
<1>2. CASE rdc_group_field_destroy(x, a)
  BY <1>2, FieldDestroyLimits, UnchangedLimits, SMTT(30) DEF rdc_group_field_destroy, Ok, Err
<1> QED
  BY <1>1, <1>2, ZenonT(30)

\* The library's call that makes a field group keeps the limits.
LEMMA FieldCreateAnswer ==
  ASSUME GroupTypeOK, LimitsOK, NEW fields, NEW a, rdc_group_field_create(fields, a)
  PROVE  LimitsOK'
<1>1. CASE UNCHANGED gvars
  BY <1>1, UnchangedLimits, ZenonT(30)
<1>2. CASE /\ ~(Cardinality(fields) > RDC_MAX_FIELD_IDS_PER_FIELD_GROUP)
           /\ fields \subseteq Fields /\ GroupFieldCreate(fields)
  <2>1. IsFiniteSet(fields)
    BY <1>2, FS_Subset, ApiConstants, ZenonT(30)
  <2> QED
    BY <1>2, <2>1, FieldCreateLimits, ZenonT(30)
<1> QED
  BY <1>1, <1>2, ZenonT(30) DEF rdc_group_field_create

\* A thread of the daemon keeps the limits, and what it answers fits.
LEMMA RemoteServe ==
  ASSUME RemoteInv, NEW k \in DOMAIN tasks,
         ServeRead(k) \/ ServeGroup(k) \/ ServeCreate(k) \/ ServeFill(k)
           \/ ServeUpdate(k) \/ ServeAssign(k)
  PROVE  LimitsOK' /\ AnswersFit'
<1>0. /\ CallsInv /\ LimitsOK /\ AnswersFit /\ GroupTypeOK
      /\ TaskShape(tasks[k]) /\ tasks[k].op \in Operations
  BY Zenon DEF RemoteInv, CallsInv, TasksOK, TaskOK
<1>1. UNCHANGED caller
  BY Zenon DEF ServeRead, ServeGroup, ServeCreate, ServeFill, ServeUpdate, ServeAssign
<1>a. ASSUME NEW a, Answer(k, a), Fits(tasks[k].op, a) PROVE AnswersFit'
  BY <1>0, <1>1, <1>a, AnswerFits, ZenonT(30)
<1>j. \A op : Fits(op, Ok(Junk)) \/ op \notin StatusOperations
  BY ZenonT(20) DEF Fits, Ok, StatusOperations
<1>c. \A a : Fits("group_gpu_create", a) /\ Fits("group_field_create", a)
  BY Zenon DEF Fits, StatusOperations
<1>u. "update_all" \in StatusOperations
  BY Zenon DEF StatusOperations
<1>2. CASE ServeRead(k)
  <2>1. PICK a \in AnswersTo(tasks[k].op, tasks[k].arg) : Answer(k, a)
    BY <1>2, ZenonT(30) DEF ServeRead
  <2>2. Fits(tasks[k].op, a)
    BY <1>0, <1>2, ReadFits, ZenonT(40) DEF ServeRead
  <2>3. UNCHANGED gvars
    BY <1>2, ZenonT(30) DEF ServeRead
  <2> QED
    BY <1>0, <1>a, <2>1, <2>2, <2>3, UnchangedLimits, ZenonT(30)
<1>3. CASE ServeGroup(k)
  <2>1. PICK a :
          /\ \/ /\ tasks[k].op = "group_gpu_add"
                /\ rdc_group_gpu_add(tasks[k].arg[1], tasks[k].arg[2], a)
             \/ tasks[k].op = "group_gpu_destroy" /\ rdc_group_gpu_destroy(tasks[k].arg, a)
             \/ tasks[k].op = "group_field_create" /\ rdc_group_field_create(tasks[k].arg, a)
             \/ tasks[k].op = "group_field_destroy" /\ rdc_group_field_destroy(tasks[k].arg, a)
          /\ Answer(k, a)
    BY <1>3, ZenonT(30) DEF ServeGroup
  <2>2. CASE tasks[k].op = "group_field_create"
    BY <1>0, <1>a, <1>c, <2>1, <2>2, FieldCreateAnswer, ZenonT(20)
  <2>3. CASE tasks[k].op # "group_field_create"
    <3>1. LimitsOK' /\ (a.status = "OK" => a.out = Junk)
      BY <1>0, <2>1, <2>3, GpuAddLimits, GroupLimits, ZenonT(30)
    <3>2. Fits(tasks[k].op, a)
      BY <2>1, <2>3, <3>1, ZenonT(20) DEF Fits
    <3> QED
      BY <1>a, <2>1, <3>1, <3>2, ZenonT(40)
  <2> QED
    BY <2>2, <2>3, ZenonT(40)
<1>4. CASE ServeCreate(k)
  <2>1. PICK a :
          /\ CreateEmpty(a)
          /\ IF a.status # "OK" \/ tasks[k].arg = "RDC_GROUP_EMPTY" THEN Answer(k, a)
             ELSE \E devices \in rdc_device_get_all :
                    IF devices.status # "OK" THEN Answer(k, devices)
                    ELSE Goto(k, [tasks[k] EXCEPT !.at = "filling", !.id = a.out])
    BY <1>4, ZenonT(20) DEF ServeCreate
  <2>2. tasks[k].op = "group_gpu_create"
    BY <1>4, Zenon DEF ServeCreate
  <2>3. LimitsOK'
    BY <1>0, <2>1, CreateLimits, UnchangedLimits, ZenonT(30) DEF CreateEmpty
  <2>4. ASSUME Goto(k, [tasks[k] EXCEPT !.at = "filling", !.id = a.out]) PROVE AnswersFit'
    <3>1. PICK u : Goes(tasks[k], "filling", a.out, u) /\ Goto(k, u)
      BY <2>4, ZenonT(30) DEF Goes
    <3>2. u.at = "filling" /\ u.op = "group_gpu_create"
      BY <1>0, <2>2, <3>1, TaskGoes, SMTT(30)
    <3> QED
      BY <1>0, <3>1, <3>2, GotoFits, ZenonT(30)
  <2> QED
    BY <1>a, <1>c, <2>1, <2>2, <2>3, <2>4, ZenonT(30)
<1>5. CASE ServeFill(k)
  <2>0. tasks[k].op = "group_gpu_create"
    BY <1>0, <1>5, ZenonT(30) DEF AnswersFit, ServeFill
  <2>1. PICK status :
          LET a == [status |-> status, out |-> Junk]
          IN  /\ rdc_group_gpu_add(tasks[k].id, tasks[k].next, a)
              /\ IF LastGpu(tasks[k].next)
                 THEN Answer(k, IF status = "OK" THEN Ok(tasks[k].id) ELSE a)
                 ELSE Goto(k, [tasks[k] EXCEPT !.next = @ + 1])
    BY <1>5, ZenonT(20) DEF ServeFill
  <2>2. LimitsOK'
    BY <1>0, <2>1, GpuAddLimits, ZenonT(30)
  <2>3. ASSUME Goto(k, [tasks[k] EXCEPT !.next = @ + 1]) PROVE AnswersFit'
    <3>1. PICK u : Takes(tasks[k], tasks[k].next + 1, u) /\ Goto(k, u)
      BY <2>3, ZenonT(30) DEF Takes
    <3>2. u.at = "filling" /\ u.op = "group_gpu_create"
      BY <1>0, <1>5, <2>0, <3>1, TaskTakes, SMTT(20) DEF ServeFill
    <3> QED
      BY <1>0, <3>1, <3>2, GotoFits, ZenonT(30)
  <2> QED
    BY <1>a, <1>c, <2>0, <2>1, <2>2, <2>3, SMTT(20)
<1>6. CASE ServeUpdate(k)
  <2>0. tasks[k].op = "update_all" /\ UNCHANGED gvars
    BY <1>6, Zenon DEF ServeUpdate
  <2>1. ASSUME Goto(k, [tasks[k] EXCEPT !.at = "assigning", !.id = FreeUpdate]) PROVE AnswersFit'
    <3>1. PICK u : Goes(tasks[k], "assigning", FreeUpdate, u) /\ Goto(k, u)
      BY <2>1, SMTT(30) DEF Goes
    <3>2. u.at = "assigning"
      BY <1>0, <3>1, TaskGoes, SMTT(30)
    <3> QED
      BY <1>0, <3>1, <3>2, GotoFits, ZenonT(30)
  <2> QED
    BY <1>0, <1>6, <1>a, <1>j, <1>u, <2>0, <2>1, UnchangedLimits, ZenonT(30) DEF ServeUpdate
<1>7. CASE ServeAssign(k)
  <2>1. tasks[k].op = "update_all" /\ UNCHANGED gvars /\ Answer(k, Ok(Junk))
    BY <1>0, <1>7, ZenonT(30) DEF ServeAssign, CallsInv, TasksOK, TaskOK
  <2> QED
    BY <1>0, <1>a, <1>j, <1>u, <2>1, UnchangedLimits, SMTT(30)
<1> QED
  BY <1>2, <1>3, <1>4, <1>5, <1>6, <1>7, ZenonT(30)

\* The invariant holds at the start.
LEMMA RemoteInit == ApiInit => RemoteInv
<1> SUFFICES ASSUME ApiInit PROVE RemoteInv
  BY Zenon
<1>1. /\ DOMAIN gpu_group_ = {} /\ DOMAIN field_group_ = {JOB_FIELD_ID}
      /\ field_group_[JOB_FIELD_ID] = JobFields /\ DOMAIN tasks = {}
  BY Zenon DEF ApiInit, GroupInit, EmptyMap, MapPut
<1>2. Cardinality({}) = 0 /\ Cardinality({JOB_FIELD_ID}) = 1
  BY FS_EmptySet, FS_Singleton, ZenonT(30)
<1>3. LimitsOK
  BY <1>1, <1>2, GroupConstants, ApiConstants, SMTT(20) DEF LimitsOK
<1> QED
  BY <1>1, <1>3, CallsInit, SMTT(30) DEF RemoteInv, AnswersFit

\* Every step keeps it.
LEMMA RemoteStep == RemoteInv /\ [ApiNext]_avars => RemoteInv'
<1> SUFFICES ASSUME RemoteInv, [ApiNext]_avars PROVE RemoteInv'
  BY Zenon
<1>0. CallsInv' /\ LimitsOK /\ AnswersFit
  BY CallsStep, Zenon DEF RemoteInv
<1>1. ASSUME UNCHANGED gvars,
             \A j \in DOMAIN tasks' : \/ j \in DOMAIN tasks /\ tasks'[j] = tasks[j]
                                      \/ tasks'[j].at = "sent"
      PROVE  RemoteInv'
  BY <1>0, <1>1, OthersFit, UnchangedLimits, ZenonT(30) DEF RemoteInv
<1>2. ASSUME NEW K, UNCHANGED gvars, tasks' = MapErase(tasks, K) PROVE RemoteInv'
  <2>1. \A j \in DOMAIN tasks' : j \in DOMAIN tasks /\ tasks'[j] = tasks[j]
    BY <1>2, Zenon DEF MapErase
  <2> QED
    BY <1>1, <1>2, <2>1, SMTT(30)
<1>3. ASSUME UNCHANGED <<gvars, tasks>> PROVE RemoteInv'
  BY <1>1, <1>3, ZenonT(30)
<1>4. ASSUME NEW c \in Clients, NEW op, NEW arg, Call(c, op, arg) PROVE RemoteInv'
  <2>k. PICK k : k = <<c, caller[c].n + 1>>
    BY ZenonT(20)
  <2>1. /\ DOMAIN tasks' = DOMAIN tasks \cup {k} /\ tasks'[k] = Request(op, arg)
        /\ \A j \in DOMAIN tasks : j # k => tasks'[j] = tasks[j]
    BY <1>4, <2>k, ZenonT(30) DEF Call, MapPut
  <2>2. tasks'[k].at = "sent"
    BY <2>1, SMTT(30) DEF Request
  <2> QED
    BY <1>1, <1>4, <2>1, <2>2, ZenonT(30) DEF Call
<1>5. ASSUME NEW c \in Clients, NEW op, NEW null, CallRefused(c, op, null) PROVE RemoteInv'
  BY <1>3, <1>5, ZenonT(30) DEF CallRefused
<1>6. ASSUME NEW c \in Clients, Break(c) PROVE RemoteInv'
  BY <1>2, <1>3, <1>6, ZenonT(30) DEF Break
<1>7. ASSUME NEW k \in DOMAIN tasks, Deliver(k) PROVE RemoteInv'
  BY <1>2, <1>7, ZenonT(20) DEF Deliver
<1>8. ASSUME NEW k \in DOMAIN tasks, ServerStep(k) PROVE RemoteInv'
  BY <1>0, <1>7, <1>8, RemoteServe, ZenonT(30) DEF ServerStep, RemoteInv
<1>9. ASSUME NEW c \in Clients, ClientStep(c) PROVE RemoteInv'
  BY <1>4, <1>5, <1>6, <1>9, ZenonT(30) DEF ClientStep
<1>10. ASSUME NEW u \in updating, UpdateEnds(u) PROVE RemoteInv'
  BY <1>3, <1>10, ZenonT(30) DEF UpdateEnds
<1>11. CASE Restart
  <2>1. /\ DOMAIN gpu_group_' = {} /\ DOMAIN field_group_' = {JOB_FIELD_ID}
        /\ field_group_'[JOB_FIELD_ID] = JobFields /\ DOMAIN tasks' = {}
    BY <1>11, Zenon DEF Restart, EmptyMap, MapPut
  <2>2. Cardinality({}) = 0 /\ Cardinality({JOB_FIELD_ID}) = 1
    BY FS_EmptySet, FS_Singleton, ZenonT(30)
  <2>3. LimitsOK'
    BY <2>1, <2>2, GroupConstants, ApiConstants, SMTT(20) DEF LimitsOK, JOB_FIELD_ID
  <2> QED
    BY <1>0, <2>1, <2>3, ZenonT(30) DEF RemoteInv, AnswersFit
<1>12. CASE UNCHANGED avars
  BY <1>3, <1>12, ZenonT(30) DEF avars
<1>13. ASSUME NEW k \in DOMAIN tasks, ServeOverrun(k) PROVE RemoteInv'
  BY <1>11, <1>13, ZenonT(30) DEF ServeOverrun
<1> QED
  BY <1>8, <1>9, <1>10, <1>11, <1>12, <1>13, ZenonT(30) DEF ApiNext

\* It says that the answers agree.
LEMMA RemoteImplies == RemoteInv => RemoteAnswer
<1> SUFFICES ASSUME RemoteInv PROVE RemoteAnswer
  BY Zenon
<1>1. ASSUME NEW k \in DOMAIN tasks, tasks[k].at = "reply", tasks[k].op # "mixed_version"
      PROVE  Agrees(tasks[k].op, ResultOf(tasks[k].op, tasks[k].reply), tasks[k].local)
  <2>1. /\ tasks[k].op \in Operations /\ Fits(tasks[k].op, tasks[k].local)
        /\ tasks[k].reply = ReplyOf(tasks[k].op, tasks[k].arg, tasks[k].local)
    BY <1>1, Zenon DEF RemoteInv, CallsInv, TasksOK, TaskOK, AnswersFit
  <2> QED
    BY <1>1, <2>1, AnswersAgree, SMTT(20)
<1>2. \A c \in Clients :
        caller[c].at = "waiting" => ResultOf(caller[c].op, Broken).status = "CLIENT_ERROR"
  BY BrokenIsError, Zenon DEF RemoteInv, CallsInv, CallersOK, CallerOK
<1> QED
  BY <1>1, <1>2, ZenonT(20) DEF RemoteAnswer, Agrees

\* Whatever the interleaving, and however the SMI library fails: the answer on its
\* way to a client is, once its handler has read it, the answer the library gave
\* in the daemon, but for the list of as many groups as there may be, which the
\* client's handler refuses, and for the entries of a job's GPUs whose index is not
\* less than their number, which the service does not send; and every waiting client
\* is told of a broken connection.
THEOREM RemoteAnswersAgree == ApiSpec => []RemoteAnswer
BY RemoteInit, RemoteStep, RemoteImplies, PTL DEF ApiSpec
=============================================================================
