------------------------ MODULE RdcDiagnosticsProofs ------------------------
(***************************************************************************)
(* Proofs about RdcDiagnostics, for any number of calls at a time, of GPUs *)
(* and of tests, and on any machine.  The inductive invariant DiagInv says *)
(* of each call that the results it has so far are right (CallOK), that    *)
(* the references to the HSA runtime are those of the calls inside a test, *)
(* and what a memory test that met no other knows of its buffers and       *)
(* arguments.  The last part is about what the tests compute: the search   *)
(* of the compute queue test, the process test and the sensor levels.      *)
(***************************************************************************)
EXTENDS RdcDiagnostics, FiniteSetTheorems, WellFoundedInduction, TLAPS

-----------------------------------------------------------------------------
(* What makes a call's response right, for a state s of the call on a machine m;
   lone: its memory tests met no other call's. *)

QueuePc == {"open_queue", "queue", "close_queue"}
AllocPc == {"open_alloc", "alloc", "alloc_half", "alloc_free", "close_alloc"}
AccessPc == {"open_access", "cpu_access", "allocate", "set_args", "load", "dispatch",
             "compare", "free", "close_access"}

\* The places where the call holds a reference to the runtime.
Inside == (QueuePc \cup AllocPc \cup AccessPc) \ Opening

\* The places where a test object is destroyed.
Closing == {"close_queue", "close_alloc", "close_access"}

CallShape(s) ==
  s = [pc |-> s.pc, gpus |-> s.gpus, tests |-> s.tests, i |-> s.i, g |-> s.g,
       status |-> s.status, verdict |-> s.verdict, results |-> s.results]

\* The result of test j is right.
Told(s, m, lone, j) ==
  /\ s.results[j] = Untouched <=> s.gpus = <<>> /\ m.loaded /\ s.tests[j] \in RocrTests
  /\ lone /\ s.gpus # <<>> /\ m.loaded /\ s.tests[j] \in RocrTests =>
       SumOf(m, s.tests[j], s.gpus, Len(s.gpus), s.results[j])

\* The status is what the GPUs before the current one say, and the current one of
\* what it has done.
SoFar(s, m) ==
  IF s.pc \in AccessPc
  THEN \E status :
         /\ SumOf(m, s.tests[s.i], s.gpus, s.g - 1, status)
         /\ s.status = IF AllocSays(m, s.gpus[s.g]) = PASS THEN status
                       ELSE AllocSays(m, s.gpus[s.g])
  ELSE SumOf(m, s.tests[s.i], s.gpus, s.g - 1, s.status)

\* The pool that the allocation test asks next refused more than its size.
HalfNext(m, gpu) ==
  gpu \in m.healthy /\ m.pool[gpu].applicable /\ m.pool[gpu].over = INVALID_ALLOCATION

\* In a test of librdc_rocr.so.
RunningTest(s, m, lone) ==
  /\ s.i <= Len(s.tests) /\ s.tests[s.i] \in RocrTests /\ m.loaded /\ s.gpus # <<>>
  /\ s.g \in 1 .. Len(s.gpus)
  /\ s.status \in {PASS, SKIP, FAIL}
  /\ s.pc \in Closing => s.verdict \in {PASS, SKIP, FAIL}
  /\ s.pc \in QueuePc \cup AllocPc \cup AccessPc
  /\ s.pc \in QueuePc <=> s.tests[s.i] = "COMPUTE_QUEUE"
  /\ s.pc \notin Opening => m.init
  /\ lone => SoFar(s, m)
  /\ s.pc = "alloc_half" => HalfNext(m, s.gpus[s.g])
  /\ s.pc = "alloc_free" => AllocSays(m, s.gpus[s.g]) = PASS
  /\ s.pc \in Accessing \cup {"allocate"} => m.healthy = Gpus /\ s.gpus[s.g] \in m.large_bar
  /\ s.pc \in {"dispatch", "compare", "free"} => s.gpus[s.g] \in m.hsaco
  /\ s.pc = "free" /\ lone => s.gpus[s.g] \in m.works
  /\ s.pc = "close_queue" => s.verdict = QueueSays(m, s.gpus[s.g])
  /\ s.pc = "close_alloc" /\ lone => s.verdict = AllocSays(m, s.gpus[s.g])
  /\ s.pc = "close_access" /\ lone => s.verdict = AccessSays(m, s.gpus[s.g])

\* What a call has asked for, and the results it has.
Answering(s, m, lone) ==
  /\ s.gpus \in Seq(Gpus) /\ s.tests \in Seq(STRING) /\ s.results \in Seq(Int)
  /\ s.i \in Nat /\ Len(s.results) = s.i - 1 /\ s.i <= Len(s.tests) + 1
  /\ \A j \in 1 .. (s.i - 1) : Told(s, m, lone, j)

CallOK(s, m, lone) ==
  /\ CallShape(s)
  /\ s.pc # "idle" =>
       /\ Answering(s, m, lone)
       /\ \/ s.pc \in {"module", "build", "copy"} /\ s.i = 1
          \/ s.pc = "test" /\ s.i <= Len(s.tests)
          \/ s.pc = "done" /\ s.i = Len(s.tests) + 1
          \/ RunningTest(s, m, lone)

\* The memory of a memory test that met no other: nobody else is at it, the
\* global points to its arguments, and these name its buffers.
MemoryOK(c) ==
  alone[c] /\ call[c].pc \in Accessing =>
    /\ \A d \in Callers \ {c} : call[d].pc \notin Accessing
    /\ kernArgs = c
    /\ args[c] = IF call[c].pc = "set_args" THEN "raw" ELSE c
    /\ call[c].pc \in {"set_args", "load", "dispatch"} => buffers[c] = "blank"
    /\ call[c].pc = "compare" =>
         (buffers[c] = "filled" <=> call[c].gpus[call[c].g] \in machine.works)

Holding == {c \in Callers : call[c].pc \in Inside}

DiagInv ==
  /\ call = [c \in Callers |-> call[c]] /\ alone \in [Callers -> BOOLEAN]
  /\ args = [c \in Callers |-> args[c]] /\ buffers = [c \in Callers |-> buffers[c]]
  /\ \A c \in Callers : CallOK(call[c], machine, alone[c])
  /\ hsa_refs = Cardinality(Holding)
  /\ \A c \in Callers : MemoryOK(c)
  /\ dead => raced \/ \E c \in Callers : ~alone[c]

-----------------------------------------------------------------------------
(* The record of a call *)

\* What Answered changes in a call: a result is added, and the next test is
\* up.
LEMMA AnsweredIs ==
  ASSUME NEW s, CallShape(s), NEW status, NEW t, t = Answered(s, status)
  PROVE  /\ CallShape(t) /\ t.pc = IF s.i = Len(s.tests) THEN "done" ELSE "test"
         /\ t.gpus = s.gpus /\ t.tests = s.tests /\ t.i = s.i + 1
         /\ t.results = Append(s.results, status)
<1>p. PICK pc : pc = IF s.i = Len(s.tests) THEN "done" ELSE "test"
  BY Zenon
<1>r. PICK results : results = Append(s.results, status)
  BY Zenon
<1>i. PICK i : i = s.i + 1
  BY Zenon
<1>1. t = [s EXCEPT !.results = results, !.i = i, !.g = 1, !.status = PASS,
                    !.verdict = PASS, !.pc = pc]
  BY <1>p, <1>r, <1>i, Zenon DEF Answered
<1>2. /\ CallShape(t) /\ t.pc = pc /\ t.gpus = s.gpus /\ t.tests = s.tests
      /\ t.i = i /\ t.results = results
  BY <1>1, ZenonT(20) DEF CallShape
<1> QED
  BY <1>2, <1>p, <1>r, <1>i, Zenon

\* The result of the current test is right.
RightNow(s, m, lone, status) ==
  /\ status = Untouched <=> s.gpus = <<>> /\ m.loaded /\ s.tests[s.i] \in RocrTests
  /\ lone /\ s.gpus # <<>> /\ m.loaded /\ s.tests[s.i] \in RocrTests =>
       SumOf(m, s.tests[s.i], s.gpus, Len(s.gpus), status)

\* A right result keeps the call right.
LEMMA AnsweredOK ==
  ASSUME NEW s, NEW m, NEW lone, CallShape(s), Answering(s, m, lone), s.i <= Len(s.tests),
         NEW status \in Int, RightNow(s, m, lone, status)
  PROVE  CallOK(Answered(s, status), m, lone)
<1>t. PICK t : t = Answered(s, status)
  BY Zenon
<1>1. /\ t.pc = IF s.i = Len(s.tests) THEN "done" ELSE "test"
      /\ t.gpus = s.gpus /\ t.tests = s.tests /\ t.i = s.i + 1
      /\ t.results = Append(s.results, status) /\ CallShape(t)
  BY <1>t, AnsweredIs, ZenonT(60)
<1>2. /\ s.i \in Nat /\ s.results \in Seq(Int) /\ Len(s.results) = s.i - 1
      /\ s.tests \in Seq(STRING) /\ s.gpus \in Seq(Gpus)
      /\ \A j \in 1 .. (s.i - 1) : Told(s, m, lone, j)
  BY Zenon DEF Answering
<1>3. Len(s.tests) \in Nat
  BY <1>2
<1>4. /\ t.results \in Seq(Int) /\ Len(t.results) = s.i
      /\ t.results[s.i] = status
      /\ \A j \in 1 .. (s.i - 1) : t.results[j] = s.results[j]
  BY <1>1, <1>2, SMTT(30)
<1>5. ASSUME NEW j \in 1 .. s.i PROVE Told(t, m, lone, j)
  <2>1. CASE j = s.i
    BY <1>1, <1>4, <2>1, Zenon DEF Told, RightNow
  <2>2. CASE j # s.i
    <3>1. j \in 1 .. (s.i - 1)
      BY <1>2, <2>2
    <3>2. Told(s, m, lone, j) /\ t.results[j] = s.results[j]
      BY <1>2, <1>4, <3>1, Zenon
    <3> QED
      BY <1>1, <3>2, Zenon DEF Told
  <2> QED
    BY <2>1, <2>2, Zenon
<1>6. t.i \in Nat /\ t.i - 1 = s.i /\ t.i <= Len(t.tests) + 1
  BY <1>1, <1>2, <1>3, SMTT(30)
<1>7. Answering(t, m, lone)
  BY <1>1, <1>2, <1>4, <1>5, <1>6, Zenon DEF Answering
<1>8. t.pc # "idle"
      /\ (\/ t.pc = "test" /\ t.i <= Len(t.tests)
          \/ t.pc = "done" /\ t.i = Len(t.tests) + 1)
  <2>1. CASE s.i = Len(s.tests)
    BY <1>1, <2>1, Zenon
  <2>2. CASE s.i # Len(s.tests)
    <3>1. s.i + 1 <= Len(s.tests)
      BY <1>2, <1>3, <2>2
    <3> QED
      BY <1>1, <2>2, <3>1, Zenon
  <2> QED
    BY <2>1, <2>2, Zenon
<1> QED
  BY <1>1, <1>7, <1>8, <1>t, Zenon DEF CallOK

\* A call whose memory tests met others has less to say.
LEMMA CallWeaker ==
  ASSUME NEW s, NEW m, NEW lone \in BOOLEAN, NEW left \in BOOLEAN, left => lone,
         CallOK(s, m, lone)
  PROVE  CallOK(s, m, left)
<1>1. \A j : Told(s, m, lone, j) => Told(s, m, left, j)
  BY Zenon DEF Told
<1>2. RunningTest(s, m, lone) => RunningTest(s, m, left)
  BY Zenon DEF RunningTest
<1> QED
  BY <1>1, <1>2, Zenon DEF CallOK, Answering

-----------------------------------------------------------------------------
(* The tests of amd_smi_lib answer with a result *)

\* The levels of the SMI checks are among the three results.
LEMMA LevelsAre ==
  /\ \A t : check_temperature_level(t) \in {PASS, WARN, FAIL}
  /\ \A v : check_voltage_level(v) \in {PASS, WARN, FAIL}
BY Zenon DEF check_temperature_level, check_voltage_level

\* The worst of several levels is one of them.
LEMMA WorstIs ==
  ASSUME NEW S, S \subseteq {PASS, WARN, FAIL}, PASS \in S
  PROVE  Max(S) \in S
<1>1. \E x \in S : \A y \in S : x >= y
  <2>1. CASE FAIL \in S
    BY <2>1 DEF PASS, WARN, FAIL
  <2>2. CASE FAIL \notin S /\ WARN \in S
    BY <2>2 DEF PASS, WARN, FAIL
  <2>3. CASE FAIL \notin S /\ WARN \notin S
    BY <2>3 DEF PASS, WARN, FAIL
  <2> QED
    BY <2>1, <2>2, <2>3, Zenon
<1> QED
  BY <1>1, Zenon DEF Max

\* A test of the SMI library answers with a result.
LEMMA SmiAnswers ==
  ASSUME NEW test \in SmiTests, NEW gpus
  PROVE  SmiStatus(test, gpus) \in {PASS, SKIP, WARN, FAIL}
<1>1. CASE test = "COMPUTE_PROCESS"
  <2>1. check_smi_process_info(gpus, machine.listed, machine.procs).status \in {PASS, SKIP, FAIL}
    BY Zenon DEF check_smi_process_info
  <2> QED
    BY <1>1, <2>1, Zenon DEF SmiStatus
<1>2. CASE test = "NODE_TOPOLOGY"
  <2>1. check_smi_topo_info(gpus, machine.link).status \in {PASS, FAIL}
    BY Zenon DEF check_smi_topo_info
  <2> QED
    BY <1>2, <2>1, Zenon DEF SmiStatus
<1>3. CASE test = "GPU_PARAMETERS"
  <2> DEFINE levels(g) == {check_temperature_level(t) : t \in machine.temps[g]}
                            \cup {check_voltage_level(v) : v \in machine.volts[g]}
  <2>s. PICK S : S = {levels(g) : g \in Range(gpus)}
    BY Zenon
  <2>1. /\ check_smi_param_info(gpus, machine.temps, machine.volts).status = Max({PASS} \cup UNION S)
        /\ \A L \in S : L \subseteq {PASS, WARN, FAIL}
    <3>1. check_smi_param_info(gpus, machine.temps, machine.volts).status = Max({PASS} \cup UNION S)
      BY <2>s, Zenon DEF check_smi_param_info
    <3>2. \A L \in S : L \subseteq {PASS, WARN, FAIL}
      BY <2>s, LevelsAre, ZenonT(30)
    <3> QED
      BY <3>1, <3>2, Zenon
  <2>2. Max({PASS} \cup UNION S) \in {PASS, WARN, FAIL}
    <3>1. {PASS} \cup UNION S \subseteq {PASS, WARN, FAIL} /\ PASS \in {PASS} \cup UNION S
      BY <2>1, Zenon
    <3> QED
      BY <3>1, WorstIs, Zenon
  <2> QED
    BY <1>3, <2>1, <2>2, Zenon DEF SmiStatus
<1> QED
  BY <1>1, <1>2, <1>3, Zenon DEF SmiTests

-----------------------------------------------------------------------------
(* The end of a test object *)

\* What the test object the call is in says of the GPU.
StageSays(m, pc, gpu) ==
  IF pc \in QueuePc THEN QueueSays(m, gpu)
  ELSE IF pc \in AllocPc THEN AllocSays(m, gpu)
  ELSE AccessSays(m, gpu)

\* One GPU more: what it says counts unless it passes.
LEMMA SumNext ==
  ASSUME NEW m, NEW test, NEW gpus, NEW n \in Nat, n # 0, NEW status,
         SumOf(m, test, gpus, n - 1, status), NEW says, says = Says(m, test, gpus[n])
  PROVE  SumOf(m, test, gpus, n, IF says = PASS THEN status ELSE says)
<1>1. /\ n \in 1 .. n /\ \A x \in 1 .. (n - 1) : x \in 1 .. n /\ n > x
      /\ \A x \in 1 .. n : ~(x > n) /\ (x = n \/ x \in 1 .. (n - 1))
  OBVIOUS
<1>2. CASE says = PASS
  <2>1. CASE status = PASS /\ \A x \in 1 .. (n - 1) : Says(m, test, gpus[x]) = PASS
    BY <1>1, <1>2, <2>1, Zenon DEF SumOf
  <2>2. ASSUME NEW x \in 1 .. (n - 1), status = Says(m, test, gpus[x]), status # PASS,
               \A y \in 1 .. (n - 1) : y > x => Says(m, test, gpus[y]) = PASS
        PROVE  SumOf(m, test, gpus, n, status)
    <3>1. x \in 1 .. n /\ \A y \in 1 .. n : y > x => Says(m, test, gpus[y]) = PASS
      BY <1>1, <1>2, <2>2, Zenon
    <3> QED
      BY <2>2, <3>1, Zenon DEF SumOf
  <2> QED
    BY <1>2, <2>1, <2>2, Zenon DEF SumOf
<1>3. CASE says # PASS
  <2>1. \A y \in 1 .. n : y > n => Says(m, test, gpus[y]) = PASS
    BY <1>1, Zenon
  <2> QED
    BY <1>1, <1>3, <2>1, Zenon DEF SumOf
<1> QED
  BY <1>2, <1>3, Zenon

\* What the verdict on a GPU changes in a call: the status unless it passes.
LEMMA VerdictIs ==
  ASSUME NEW s, CallShape(s), NEW v, NEW w, w = WithVerdict(s, v)
  PROVE  /\ CallShape(w) /\ w.status = IF v = PASS THEN s.status ELSE v
         /\ w.pc = s.pc /\ w.gpus = s.gpus /\ w.tests = s.tests /\ w.i = s.i /\ w.g = s.g
         /\ w.verdict = s.verdict /\ w.results = s.results
<1>1. PICK status : status = IF v = PASS THEN s.status ELSE v
  BY Zenon
<1>2. w = [s EXCEPT !.status = status]
  BY <1>1, Zenon DEF WithVerdict
<1> QED
  BY <1>1, <1>2, Zenon DEF CallShape

Moves(w, pc, g, t) == t = [w EXCEPT !.pc = pc, !.g = g]

\* What a call is like that has gone on to a place and a GPU,
LEMMA MovesIs ==
  ASSUME NEW w, CallShape(w), NEW pc, NEW g, NEW t, Moves(w, pc, g, t)
  PROVE  /\ CallShape(t) /\ t.pc = pc /\ t.g = g /\ t.gpus = w.gpus /\ t.tests = w.tests
         /\ t.i = w.i /\ t.status = w.status /\ t.verdict = w.verdict /\ t.results = w.results
BY ZenonT(20) DEF CallShape, Moves

\* and one that has gone on to another place.
LEMMA GoesIs ==
  ASSUME NEW w, CallShape(w), NEW pc, NEW t, t = [w EXCEPT !.pc = pc]
  PROVE  /\ CallShape(t) /\ t.pc = pc /\ t.g = w.g /\ t.gpus = w.gpus /\ t.tests = w.tests
         /\ t.i = w.i /\ t.status = w.status /\ t.verdict = w.verdict /\ t.results = w.results
BY Zenon DEF CallShape

\* What a call has asked for and the results it has depend on these members only.
LEMMA AnsweringSame ==
  ASSUME NEW s, NEW m, NEW lone, Answering(s, m, lone), NEW t,
         t.gpus = s.gpus, t.tests = s.tests, t.i = s.i, t.results = s.results
  PROVE  Answering(t, m, lone)
<1>1. \A j : Told(s, m, lone, j) => Told(t, m, lone, j)
  BY Zenon DEF Told
<1> QED
  BY <1>1, Zenon DEF Answering

\* The end of a test on one GPU: a right verdict keeps the call right.
LEMMA AfterTestOK ==
  ASSUME NEW s, NEW m, NEW lone, CallShape(s), Answering(s, m, lone), RunningTest(s, m, lone),
         s.pc \in Opening \cup Closing,
         NEW v \in {PASS, SKIP, FAIL},
         lone => v = StageSays(m, s.pc, s.gpus[s.g])
  PROVE  CallOK(AfterTest(s, v), m, lone)
<1>w. PICK w : w = WithVerdict(s, v)
  BY Zenon
<1>1. /\ CallShape(w) /\ w.status = IF v = PASS THEN s.status ELSE v
      /\ w.pc = s.pc /\ w.gpus = s.gpus /\ w.tests = s.tests /\ w.i = s.i /\ w.g = s.g
      /\ w.verdict = s.verdict /\ w.results = s.results
  BY <1>w, VerdictIs
<1>2. /\ s.i <= Len(s.tests) /\ s.tests[s.i] \in RocrTests /\ m.loaded /\ s.gpus # <<>>
      /\ s.g \in 1 .. Len(s.gpus)
      /\ s.status \in {PASS, SKIP, FAIL} /\ w.status \in {PASS, SKIP, FAIL}
      /\ s.pc \in QueuePc <=> s.tests[s.i] = "COMPUTE_QUEUE"
      /\ s.pc \in QueuePc \cup AllocPc \cup AccessPc
  BY <1>1, Zenon DEF RunningTest
<1>3. /\ s.gpus \in Seq(Gpus) /\ s.tests \in Seq(STRING) /\ s.i \in Nat /\ Len(s.gpus) \in Nat
      /\ s.g \in Nat /\ DOMAIN s.gpus = 1 .. Len(s.gpus)
  BY <1>2, SMTT(30) DEF Answering
<1>4. lone => SoFar(s, m)
  BY Zenon DEF RunningTest
<1>5. Answering(w, m, lone)
  BY <1>1, AnsweringSame, Zenon
<1>6. CASE s.pc \in {"open_alloc", "close_alloc"}
  <2>t. PICK t : t = [w EXCEPT !.pc = "open_access"]
    BY ZenonT(20)
  <2>1. AfterTest(s, v) = t
    BY <1>6, <1>w, <2>t, Zenon DEF AfterTest
  <2>2. /\ CallShape(t) /\ t.pc = "open_access" /\ t.g = w.g /\ t.gpus = w.gpus
        /\ t.tests = w.tests /\ t.i = w.i /\ t.status = w.status /\ t.verdict = w.verdict
        /\ t.results = w.results
    BY <1>1, <2>t, GoesIs
  <2>3. s.pc \in AllocPc /\ s.pc \notin QueuePc /\ s.pc \notin AccessPc
    BY <1>6, Zenon DEF AllocPc, QueuePc, AccessPc
  <2>4. ASSUME lone PROVE SoFar(t, m)
    <3>1. SumOf(m, s.tests[s.i], s.gpus, s.g - 1, s.status)
      BY <1>4, <2>3, <2>4, Zenon DEF SoFar
    <3>2. v = AllocSays(m, s.gpus[s.g])
      BY <2>3, <2>4, Zenon DEF StageSays
    <3>3. "open_access" \in AccessPc
      BY Zenon DEF AccessPc
    <3> QED
      BY <1>1, <2>2, <3>1, <3>2, <3>3, Zenon DEF SoFar
  <2>5. RunningTest(t, m, lone)
    BY <1>1, <1>2, <2>2, <2>3, <2>4, ZenonT(30)
      DEF RunningTest, AccessPc, QueuePc, Opening, Accessing, Closing
  <2>6. Answering(t, m, lone)
    BY <1>5, <2>2, AnsweringSame, Zenon
  <2> QED
    BY <2>1, <2>2, <2>5, <2>6, Zenon DEF CallOK
<1>7. CASE s.pc \notin {"open_alloc", "close_alloc"}
  <2>1. s.pc \in QueuePc \cup AccessPc /\ s.pc \notin AllocPc
    BY <1>7, Zenon DEF Opening, Closing, AllocPc, QueuePc, AccessPc
  <2>2. s.g - 1 \in Nat /\ s.g # 0
    BY <1>2, <1>3
  <2>3. ASSUME lone PROVE SumOf(m, s.tests[s.i], s.gpus, s.g, w.status)
    <3>v. PICK says : says = Says(m, s.tests[s.i], s.gpus[s.g])
      BY Zenon
    <3>1. CASE s.pc \in QueuePc
      <4>1. says = v
        BY <1>2, <2>3, <3>1, <3>v, Zenon DEF StageSays, Says
      <4>2. SumOf(m, s.tests[s.i], s.gpus, s.g - 1, s.status)
        BY <1>4, <2>3, <3>1, Zenon DEF SoFar, QueuePc, AccessPc
      <4>3. SumOf(m, s.tests[s.i], s.gpus, s.g, IF says = PASS THEN s.status ELSE says)
        BY <1>3, <2>2, <3>v, <4>2, SumNext, Zenon
      <4> QED
        BY <1>1, <4>1, <4>3, Zenon
    <3>2. CASE s.pc \notin QueuePc
      <4>1. s.pc \in AccessPc /\ s.tests[s.i] # "COMPUTE_QUEUE"
        BY <1>2, <2>1, <3>2, Zenon
      <4>2. PICK status : /\ SumOf(m, s.tests[s.i], s.gpus, s.g - 1, status)
                          /\ s.status = IF AllocSays(m, s.gpus[s.g]) = PASS THEN status
                                        ELSE AllocSays(m, s.gpus[s.g])
        BY <1>4, <2>3, <4>1, Zenon DEF SoFar
      <4>3. v = AccessSays(m, s.gpus[s.g])
        BY <2>1, <2>3, <3>2, Zenon DEF StageSays
      <4>4. says = IF v # PASS THEN v ELSE AllocSays(m, s.gpus[s.g])
        BY <3>v, <4>1, <4>3, Zenon DEF Says
      <4>5. SumOf(m, s.tests[s.i], s.gpus, s.g, IF says = PASS THEN status ELSE says)
        BY <1>3, <2>2, <3>v, <4>2, SumNext, Zenon
      <4>6. w.status = IF says = PASS THEN status ELSE says
        BY <1>1, <4>2, <4>4, Zenon
      <4> QED
        BY <4>5, <4>6, Zenon
    <3> QED
      BY <3>1, <3>2, Zenon
  <2>4. CASE s.g < Len(s.gpus)
    <3>a. PICK again : again = IF s.tests[s.i] = "COMPUTE_QUEUE" THEN "open_queue" ELSE "open_alloc"
      BY Zenon
    <3>n. PICK n : n = s.g + 1
      BY Zenon
    <3>t. PICK t : t = AfterTest(s, v)
      BY Zenon
    <3>0. AfterTest(s, v) = [w EXCEPT !.pc = again, !.g = @ + 1]
      BY <1>7, <1>w, <2>4, <3>a, Zenon DEF AfterTest
    <3>1. Moves(w, again, n, t)
      BY <1>1, <3>0, <3>n, <3>t, Zenon DEF Moves
    <3>2. /\ CallShape(t) /\ t.pc = again /\ t.g = n /\ t.gpus = w.gpus /\ t.tests = w.tests
          /\ t.i = w.i /\ t.status = w.status /\ t.verdict = w.verdict /\ t.results = w.results
      BY <1>1, <3>1, MovesIs
    <3>3. n \in 1 .. Len(s.gpus) /\ n - 1 = s.g
      BY <1>2, <1>3, <2>4, <3>n, SMTT(30)
    <3>4. lone => SoFar(t, m)
      BY <1>1, <2>3, <3>a, <3>2, <3>3, Zenon DEF SoFar, AccessPc
    <3>5. RunningTest(t, m, lone)
      BY <1>1, <1>2, <3>a, <3>2, <3>3, <3>4, SMTT(30)
         DEF RunningTest, AccessPc, QueuePc, AllocPc, Opening, Accessing, Closing, RocrTests
    <3>6. Answering(t, m, lone)
      BY <1>5, <3>2, AnsweringSame, Zenon
    <3> QED
      BY <3>t, <3>2, <3>5, <3>6, <3>a, Zenon DEF CallOK
  <2>5. CASE ~(s.g < Len(s.gpus))
    <3>1. AfterTest(s, v) = Answered(w, w.status)
      BY <1>7, <1>w, <2>5, Zenon DEF AfterTest
    <3>2. s.g = Len(s.gpus)
      BY <1>2, <1>3, <2>5, SMTT(30)
    <3>3. w.status # Untouched /\ w.status \in Int
      BY <1>2 DEF Untouched, PASS, SKIP, FAIL
    <3>4. RightNow(w, m, lone, w.status)
      BY <1>1, <1>2, <1>3, <2>3, <3>2, <3>3, Zenon DEF RightNow
    <3> QED
      BY <1>1, <1>2, <1>5, <3>1, <3>3, <3>4, AnsweredOK, Zenon
  <2> QED
    BY <2>4, <2>5, Zenon
<1> QED
  BY <1>6, <1>7, Zenon

-----------------------------------------------------------------------------
(* The steps *)

\* A step of c changes no other call.
Changes(c) ==
  /\ call' = [d \in Callers |-> call'[d]]
  /\ \A d \in Callers : d # c => call'[d] = call[d]

\* The step takes c to pc, and leaves the rest of its call.
Arrives(c, pc) ==
  /\ Changes(c) /\ CallShape(call'[c]) /\ call'[c].pc = pc
  /\ call'[c].gpus = call[c].gpus /\ call'[c].tests = call[c].tests
  /\ call'[c].i = call[c].i /\ call'[c].g = call[c].g /\ call'[c].status = call[c].status
  /\ call'[c].results = call[c].results

\* A step of one call changes no other.
LEMMA PutChanges ==
  ASSUME DiagInv, NEW c \in Callers, NEW s, call' = [call EXCEPT ![c] = s]
  PROVE  Changes(c) /\ call'[c] = s
BY Zenon DEF DiagInv, Changes

\* A call that goes on to a place is there.
LEMMA GotoArrives ==
  ASSUME DiagInv, NEW c \in Callers, NEW pc, Goto(c, pc)
  PROVE  Arrives(c, pc) /\ call'[c].verdict = call[c].verdict
<1>1. call = [d \in Callers |-> call[d]] /\ CallShape(call[c])
  BY Zenon DEF DiagInv, CallOK
<1>s. PICK s : s = call[c]
  BY Zenon
<1>t. PICK t : t = [s EXCEPT !.pc = pc]
  BY ZenonT(20)
<1>2. Changes(c) /\ call'[c] = t
  BY <1>1, <1>s, <1>t, Zenon DEF Goto, Changes
<1>3. /\ CallShape(t) /\ t.pc = pc /\ t.g = s.g /\ t.gpus = s.gpus /\ t.tests = s.tests
      /\ t.i = s.i /\ t.status = s.status /\ t.verdict = s.verdict /\ t.results = s.results
  BY <1>1, <1>s, <1>t, GoesIs, SMTT(30)
<1> QED
  BY <1>2, <1>3, <1>s, Zenon DEF Arrives

\* So is one that goes on to it with a verdict.
LEMMA EndsArrives ==
  ASSUME DiagInv, NEW c \in Callers, NEW pc, NEW v, Ends(c, v, pc)
  PROVE  Arrives(c, pc) /\ call'[c].verdict = v
<1>1. call = [d \in Callers |-> call[d]] /\ CallShape(call[c])
  BY Zenon DEF DiagInv, CallOK
<1>s. PICK s : s = call[c]
  BY Zenon
<1>t. PICK t : t = [s EXCEPT !.pc = pc, !.verdict = v]
  BY Zenon
<1>2. Changes(c) /\ call'[c] = t
  BY <1>1, <1>s, <1>t, Zenon DEF Ends, Changes
<1>3. /\ CallShape(t) /\ t.pc = pc /\ t.g = s.g /\ t.gpus = s.gpus /\ t.tests = s.tests
      /\ t.i = s.i /\ t.status = s.status /\ t.verdict = v /\ t.results = s.results
  BY <1>1, <1>s, <1>t, ZenonT(20) DEF CallShape
<1> QED
  BY <1>2, <1>3, <1>s, Zenon DEF Arrives

\* A step keeps every call right when it keeps its own.
LEMMA CallsKept ==
  ASSUME DiagInv, NEW c \in Callers, Changes(c), UNCHANGED machine,
         alone' \in [Callers -> BOOLEAN], \A d \in Callers : alone'[d] => alone[d],
         CallOK(call'[c], machine, alone'[c])
  PROVE  \A d \in Callers : CallOK(call[d], machine, alone[d])'
<1> SUFFICES ASSUME NEW d \in Callers PROVE CallOK(call'[d], machine, alone'[d])
  BY Zenon
<1>1. CASE d = c
  BY <1>1, Zenon
<1>2. CASE d # c
  <2>1. CallOK(call[d], machine, alone[d]) /\ call'[d] = call[d]
    BY <1>2, Zenon DEF DiagInv, Changes
  <2>2. alone[d] \in BOOLEAN /\ alone'[d] \in BOOLEAN /\ (alone'[d] => alone[d])
    BY Zenon DEF DiagInv
  <2> QED
    BY <2>1, <2>2, CallWeaker, Zenon
<1> QED
  BY <1>1, <1>2, Zenon

\* The references to the runtime are those of the calls inside a test.
LEMMA HoldingKept ==
  ASSUME NEW c \in Callers, Changes(c), call'[c].pc \in Inside <=> call[c].pc \in Inside
  PROVE  Holding' = Holding
BY Zenon DEF Changes, Holding

\* The calls inside a test can be counted.
LEMMA HoldingFinite == IsFiniteSet(Holding) /\ Cardinality(Holding) \in Nat
<1>1. Holding \subseteq Callers
  BY Zenon DEF Holding
<1> QED
  BY <1>1, DiagConstants, FS_Subset, FS_CardinalityType, Zenon

\* A call that enters is one more,
LEMMA HoldingMore ==
  ASSUME NEW c \in Callers, Changes(c), call'[c].pc \in Inside, call[c].pc \notin Inside
  PROVE  Cardinality(Holding') = Cardinality(Holding) + 1
<1>1. Holding' = Holding \cup {c} /\ c \notin Holding
  BY Zenon DEF Changes, Holding
<1> QED
  BY <1>1, HoldingFinite, FS_AddElement, ZenonT(20)

\* and one that leaves one less; there is still one if another is inside.
LEMMA HoldingLess ==
  ASSUME NEW c \in Callers, Changes(c), call'[c].pc \notin Inside, call[c].pc \in Inside
  PROVE  /\ Cardinality(Holding') = Cardinality(Holding) - 1
         /\ \A d \in Callers \ {c} : call[d].pc \in Inside => Cardinality(Holding') # 0
<1>1. Holding' = Holding \ {c} /\ c \in Holding
  BY Zenon DEF Changes, Holding
<1>2. Cardinality(Holding') = Cardinality(Holding) - 1 /\ IsFiniteSet(Holding')
  BY <1>1, HoldingFinite, FS_RemoveElement, Zenon
<1>3. ASSUME NEW d \in Callers \ {c}, call[d].pc \in Inside PROVE Cardinality(Holding') # 0
  <2>1. d \in Holding'
    BY <1>1, <1>3, Zenon DEF Holding
  <2> QED
    BY <1>2, <2>1, FS_EmptySet, Zenon
<1> QED
  BY <1>2, <1>3, Zenon

\* A step that leaves the memory alone and ends outside the access test.
LEMMA PlainStep ==
  ASSUME DiagInv, NEW c \in Callers, Changes(c), UNCHANGED machine, UNCHANGED memory,
         call'[c].pc \notin Accessing, CallOK(call'[c], machine, alone[c]),
         hsa_refs' = Cardinality(Holding')
  PROVE  DiagInv'
<1>1. UNCHANGED <<kernArgs, args, buffers, dead, alone, raced>>
  BY Zenon DEF memory
<1>2. alone' \in [Callers -> BOOLEAN]
  BY <1>1, Zenon DEF DiagInv
<1>3. \A d \in Callers : CallOK(call[d], machine, alone[d])'
  BY <1>1, <1>2, CallsKept, Zenon
<1>4. ASSUME NEW d \in Callers PROVE MemoryOK(d)'
  <2>1. MemoryOK(d)
    BY Zenon DEF DiagInv
  <2>2. CASE d = c
    BY <2>2, Zenon DEF MemoryOK
  <2>3. CASE d # c
    BY <1>1, <2>1, <2>3, Zenon DEF MemoryOK, Changes
  <2> QED
    BY <2>2, <2>3, Zenon
<1>5. /\ call' = [d \in Callers |-> call'[d]] /\ args' = [d \in Callers |-> args'[d]]
      /\ buffers' = [d \in Callers |-> buffers'[d]]
  BY <1>1, Zenon DEF DiagInv, Changes
<1>6. dead' => raced' \/ \E d \in Callers : ~alone'[d]
  BY <1>1, Zenon DEF DiagInv
<1> QED
  BY <1>2, <1>3, <1>4, <1>5, <1>6, Zenon DEF DiagInv

\* A call goes on inside a test of librdc_rocr.so.
LEMMA StaysRunning ==
  ASSUME NEW s, NEW m, NEW lone, Answering(s, m, lone), RunningTest(s, m, lone), NEW t, CallShape(t),
         t.gpus = s.gpus, t.tests = s.tests, t.i = s.i, t.g = s.g, t.status = s.status,
         t.results = s.results, t.pc \in Closing => t.verdict \in {PASS, SKIP, FAIL},
         \/ t.pc \in QueuePc /\ s.pc \in QueuePc
         \/ t.pc \in AllocPc /\ s.pc \in AllocPc
         \/ t.pc \in AccessPc /\ s.pc \in AccessPc,
         t.pc \notin Opening, m.init,
         t.pc \in Accessing \cup {"allocate"} => m.healthy = Gpus /\ t.gpus[t.g] \in m.large_bar,
         t.pc \in {"dispatch", "compare", "free"} => t.gpus[t.g] \in m.hsaco,
         t.pc = "free" /\ lone => t.gpus[t.g] \in m.works,
         t.pc = "alloc_half" => HalfNext(m, t.gpus[t.g]),
         t.pc = "alloc_free" => AllocSays(m, t.gpus[t.g]) = PASS,
         t.pc = "close_queue" => t.verdict = QueueSays(m, t.gpus[t.g]),
         t.pc = "close_alloc" /\ lone => t.verdict = AllocSays(m, t.gpus[t.g]),
         t.pc = "close_access" /\ lone => t.verdict = AccessSays(m, t.gpus[t.g])
  PROVE  CallOK(t, m, lone)
<1>1. Answering(t, m, lone)
  BY AnsweringSame, Zenon
<1>2. /\ t.pc \in QueuePc \cup AllocPc \cup AccessPc
      /\ t.pc \in QueuePc <=> s.pc \in QueuePc
      /\ t.pc \in AccessPc <=> s.pc \in AccessPc
  BY Zenon DEF QueuePc, AllocPc, AccessPc
<1>3. lone => SoFar(t, m)
  BY <1>2, Zenon DEF RunningTest, SoFar
<1>4. RunningTest(t, m, lone)
  BY <1>2, <1>3, Zenon DEF RunningTest
<1> QED
  BY <1>1, <1>4, Zenon DEF CallOK

\* A step to or from the access test keeps the memory of the others when it meets none.
LEMMA MemoryStep ==
  ASSUME DiagInv, NEW c \in Callers, Changes(c), UNCHANGED machine,
         alone' \in [Callers -> BOOLEAN], \A d \in Callers : alone'[d] => alone[d],
         args' = [d \in Callers |-> args'[d]], buffers' = [d \in Callers |-> buffers'[d]],
         CallOK(call'[c], machine, alone'[c]), hsa_refs' = Cardinality(Holding'),
         dead' => raced' \/ \E d \in Callers : ~alone'[d], MemoryOK(c)',
         \A d \in Callers \ {c} : alone'[d] /\ call[d].pc \in Accessing =>
           /\ call'[c].pc \notin Accessing
           /\ kernArgs' = kernArgs /\ args'[d] = args[d] /\ buffers'[d] = buffers[d]
  PROVE  DiagInv'
<1>1. \A d \in Callers : CallOK(call[d], machine, alone[d])'
  BY CallsKept, Zenon
<1>2. ASSUME NEW d \in Callers PROVE MemoryOK(d)'
  <2>1. MemoryOK(d)
    BY Zenon DEF DiagInv
  <2>2. CASE d # c
    BY <2>1, <2>2, ZenonT(30) DEF MemoryOK, Changes
  <2> QED
    BY <2>2, Zenon
<1> QED
  BY <1>1, <1>2, Zenon DEF DiagInv, Changes

\* The call of rdc_diagnostic_run or rdc_test_case_run keeps the invariant.
LEMMA BeginStep ==
  ASSUME DiagInv, NEW c \in Callers, Begin(c)
  PROVE  DiagInv'
<1>1. PICK r \in Requests[c] :
        call' = [call EXCEPT ![c] = [pc |-> "module", gpus |-> r.gpus, tests |-> r.tests,
                                     i |-> 1, g |-> 1, status |-> PASS, verdict |-> PASS,
                                     results |-> <<>>]]
  BY Zenon DEF Begin
<1>s. PICK s : s = [pc |-> "module", gpus |-> r.gpus, tests |-> r.tests, i |-> 1, g |-> 1,
                    status |-> PASS, verdict |-> PASS, results |-> <<>>]
  BY Zenon
<1>2. Changes(c) /\ call'[c] = s
  BY <1>1, <1>s, PutChanges, ZenonT(20)
<1>3. r.gpus \in Seq(Gpus) /\ r.tests \in Seq(STRING)
  BY DiagConstants, Zenon
<1>4. /\ CallShape(s) /\ s.pc = "module" /\ s.i = 1 /\ s.gpus \in Seq(Gpus)
      /\ s.tests \in Seq(STRING) /\ s.results = <<>>
  BY <1>3, <1>s, Zenon DEF CallShape
<1>5. s.i \in Nat /\ Len(s.results) = s.i - 1 /\ s.i <= Len(s.tests) + 1 /\ 1 .. (s.i - 1) = {}
      /\ s.results \in Seq(Int)
  BY <1>4
<1>6. CallOK(s, machine, alone[c])
  BY <1>4, <1>5, Zenon DEF CallOK, Answering
<1>7. call[c].pc \notin Inside /\ call'[c].pc \notin Inside /\ call'[c].pc \notin Accessing
  BY <1>2, <1>4, ZenonT(30) DEF Begin, At, Inside, QueuePc, AllocPc, AccessPc, Accessing
<1>8. hsa_refs' = Cardinality(Holding')
  BY <1>2, <1>7, HoldingKept, Zenon DEF Begin, DiagInv
<1> QED
  BY <1>2, <1>6, <1>7, <1>8, PlainStep, Zenon DEF Begin

\* A call that has its module goes on to its first test, or has none.
LEMMA FirstTestOK ==
  ASSUME NEW s, NEW m, NEW lone, CallOK(s, m, lone), NEW t,
         s.pc \in {"module", "build", "copy"},
         CallShape(t), t.pc \in {"build", "copy", FirstTest(s)}, t.gpus = s.gpus, t.tests = s.tests,
         t.i = s.i, t.results = s.results
  PROVE  /\ CallOK(t, m, lone) /\ t.pc \in {"build", "copy", "done", "test"}
<1>1. Answering(s, m, lone) /\ s.i = 1
  BY Zenon DEF CallOK, RunningTest, QueuePc, AllocPc, AccessPc
<1>2. Answering(t, m, lone)
  BY <1>1, AnsweringSame, Zenon
<1>3. s.tests \in Seq(STRING)
  BY <1>1, Zenon DEF Answering
<1>4. CASE s.tests = <<>>
  BY <1>1, <1>2, <1>4 DEF CallOK, FirstTest
<1>5. CASE s.tests # <<>>
  <2>1. Len(s.tests) \in Nat /\ Len(s.tests) # 0
    BY <1>3, <1>5, SMTT(30)
  <2>2. 1 <= Len(s.tests)
    BY <2>1
  <2> QED
    BY <1>1, <1>2, <1>5, <2>2, Zenon DEF CallOK, FirstTest
<1> QED
  BY <1>4, <1>5, Zenon

\* The lazy creation of the module keeps the invariant.
LEMMA ModuleStep ==
  ASSUME DiagInv, NEW c \in Callers, GetModule(c) \/ BuildModule(c) \/ CopyModule(c)
  PROVE  DiagInv'
<1>1. \E pc \in {"build", "copy", FirstTest(call[c])} : Goto(c, pc)
  BY Zenon DEF GetModule, BuildModule, CopyModule
<1>2. /\ Changes(c) /\ CallShape(call'[c]) /\ call'[c].pc \in {"build", "copy", FirstTest(call[c])}
      /\ call'[c].gpus = call[c].gpus /\ call'[c].tests = call[c].tests
      /\ call'[c].i = call[c].i /\ call'[c].results = call[c].results
  BY <1>1, GotoArrives, Zenon DEF Arrives
<1>3. /\ call[c].pc \in {"module", "build", "copy"}
      /\ UNCHANGED <<machine, hsa_refs, kernArgs, args, buffers, alone>>
  BY Zenon DEF GetModule, BuildModule, CopyModule, At, memory
<1>4. CallOK(call'[c], machine, alone[c]) /\ call'[c].pc \in {"build", "copy", "done", "test"}
  <2>1. CallOK(call[c], machine, alone[c])
    BY Zenon DEF DiagInv
  <2>s. PICK s, t, lone : s = call[c] /\ t = call'[c] /\ lone = alone[c]
    BY Zenon
  <2>2. /\ CallOK(s, machine, lone) /\ s.pc \in {"module", "build", "copy"} /\ CallShape(t)
        /\ t.pc \in {"build", "copy", FirstTest(s)} /\ t.gpus = s.gpus /\ t.tests = s.tests
        /\ t.i = s.i /\ t.results = s.results
    BY <1>2, <1>3, <2>1, <2>s, Zenon
  <2>3. CallOK(t, machine, lone) /\ t.pc \in {"build", "copy", "done", "test"}
    BY <2>2, FirstTestOK, SMTT(30)
  <2> QED
    BY <2>3, <2>s, Zenon
<1>5. call[c].pc \notin Inside /\ call'[c].pc \notin Inside /\ call'[c].pc \notin Accessing
  BY <1>3, <1>4, Zenon DEF Inside, QueuePc, AllocPc, AccessPc, Accessing
<1>6. hsa_refs' = Cardinality(Holding')
  BY <1>2, <1>3, <1>5, HoldingKept, Zenon DEF DiagInv
<1>7. dead' => raced' \/ \E d \in Callers : ~alone'[d]
  <2>1. CASE GetModule(c) \/ CopyModule(c)
    BY <1>3, <2>1, Zenon DEF GetModule, CopyModule, memory, DiagInv
  <2>2. CASE BuildModule(c)
    BY <2>2, Zenon DEF BuildModule
  <2> QED
    BY <2>1, <2>2, Zenon
<1>8. /\ alone' \in [Callers -> BOOLEAN] /\ args' = [d \in Callers |-> args'[d]]
      /\ buffers' = [d \in Callers |-> buffers'[d]] /\ MemoryOK(c)'
  BY <1>3, <1>5, Zenon DEF DiagInv, MemoryOK
<1> QED
  BY <1>2, <1>3, <1>4, <1>5, <1>6, <1>7, <1>8, MemoryStep, ZenonT(30)

\* A call that was answered is at the next test, or done.
LEMMA AnsweredEnds ==
  ASSUME NEW s, CallShape(s), NEW status
  PROVE  Answered(s, status).pc \in {"done", "test"}
<1>1. PICK t : t = Answered(s, status)
  BY Zenon
<1>2. t.pc = IF s.i = Len(s.tests) THEN "done" ELSE "test"
  BY <1>1, AnsweredIs
<1> QED
  BY <1>1, <1>2, Zenon

Opens(s, pc, t) == t = [s EXCEPT !.status = PASS, !.g = 1, !.pc = pc]

\* What a call is like that has opened a test on its first GPU.
LEMMA OpensIs ==
  ASSUME NEW s, CallShape(s), NEW pc, NEW t, Opens(s, pc, t)
  PROVE  /\ CallShape(t) /\ t.pc = pc /\ t.g = 1 /\ t.gpus = s.gpus /\ t.tests = s.tests
         /\ t.i = s.i /\ t.status = PASS /\ t.verdict = s.verdict /\ t.results = s.results
BY ZenonT(20) DEF CallShape, Opens

\* The first GPU of a test of librdc_rocr.so: nothing has been said yet.
LEMMA OpensOK ==
  ASSUME NEW s, NEW m, NEW lone, CallShape(s), Answering(s, m, lone), s.i <= Len(s.tests),
         s.tests[s.i] \in RocrTests, m.loaded, s.gpus # <<>>,
         NEW pc, pc = IF s.tests[s.i] = "COMPUTE_QUEUE" THEN "open_queue" ELSE "open_alloc",
         NEW t, Opens(s, pc, t)
  PROVE  CallOK(t, m, lone)
<1>1. /\ CallShape(t) /\ t.pc = pc /\ t.g = 1 /\ t.gpus = s.gpus /\ t.tests = s.tests
      /\ t.i = s.i /\ t.status = PASS /\ t.verdict = s.verdict /\ t.results = s.results
  BY OpensIs
<1>2. Answering(t, m, lone)
  BY <1>1, AnsweringSame, Zenon
<1>3. s.gpus \in Seq(Gpus)
  BY Zenon DEF Answering
<1>4. Len(s.gpus) \in Nat /\ Len(s.gpus) # 0
  BY <1>3
<1>5. 1 \in 1 .. Len(s.gpus) /\ 1 .. (1 - 1) = {}
  BY <1>4
<1>6. SoFar(t, m)
  BY <1>1, <1>5, Zenon DEF SoFar, SumOf, AccessPc
<1>7. RunningTest(t, m, lone)
  BY <1>1, <1>5, <1>6, Zenon DEF RunningTest, QueuePc, AllocPc, AccessPc, Opening, Accessing, Closing
<1> QED
  BY <1>1, <1>2, <1>7, Zenon DEF CallOK

\* What the step makes of the call, when its test is the one of the call's turn.
LEMMA RunTestOK ==
  ASSUME DiagInv, NEW c \in Callers, RunTest(c)
  PROVE  /\ Changes(c) /\ CallOK(call'[c], machine, alone[c])
         /\ call'[c].pc \in {"done", "test", "open_queue", "open_alloc"}
<1>s. PICK s : s = call[c]
  BY Zenon
<1>u. PICK test : test = s.tests[s.i]
  BY Zenon
<1>p. PICK pc : pc = IF test = "COMPUTE_QUEUE" THEN "open_queue" ELSE "open_alloc"
  BY Zenon
<1>n. PICK t : t = CASE test \notin TestCases -> Answered(s, SKIP)
                     [] test \in SmiTests -> Answered(s, SmiStatus(test, s.gpus))
                     [] test \in TestCases \ SmiTests /\ s.gpus = <<>> -> Answered(s, Untouched)
                     [] OTHER -> [s EXCEPT !.status = PASS, !.g = 1, !.pc = pc]
  BY Zenon
<1>1. call' = [call EXCEPT ![c] = t]
  BY <1>s, <1>u, <1>p, <1>n, Zenon DEF RunTest, Test
<1>2. Changes(c) /\ call'[c] = t
  BY <1>1, PutChanges, ZenonT(20)
<1>3. s.pc = "test" /\ CallOK(s, machine, alone[c])
  BY <1>s, Zenon DEF RunTest, At, DiagInv
<1>4. CallShape(s) /\ Answering(s, machine, alone[c]) /\ s.i <= Len(s.tests)
  BY <1>3, Zenon DEF CallOK, RunningTest, QueuePc, AllocPc, AccessPc
<1>5. SmiTests \cap RocrTests = {} /\ SmiTests \subseteq TestCases
      /\ (test \in TestCases \ SmiTests => test \in RocrTests /\ machine.loaded)
      /\ (test \in RocrTests /\ machine.loaded => test \in TestCases)
  BY Zenon DEF SmiTests, RocrTests, TestCases
<1>6. CASE test \notin TestCases
  <2>1. t = Answered(s, SKIP)
    BY <1>5, <1>6, <1>n, Zenon
  <2>2. RightNow(s, machine, alone[c], SKIP) /\ SKIP \in Int
    BY <1>5, <1>6, <1>u DEF RightNow, SKIP, Untouched
  <2> QED
    BY <1>2, <1>4, <2>1, <2>2, AnsweredOK, AnsweredEnds, Zenon
<1>7. CASE test \in SmiTests
  <2>1. PICK v : v = SmiStatus(test, s.gpus)
    BY Zenon
  <2>2. v \in {PASS, SKIP, WARN, FAIL}
    BY <1>7, <2>1, SmiAnswers, Zenon
  <2>3. t = Answered(s, v)
    BY <1>5, <1>7, <1>n, <2>1, Zenon
  <2>4. RightNow(s, machine, alone[c], v) /\ v \in Int
    BY <1>5, <1>7, <1>u, <2>2, SMTT(30) DEF RightNow, PASS, SKIP, WARN, FAIL, Untouched
  <2> QED
    BY <1>2, <1>4, <2>3, <2>4, AnsweredOK, AnsweredEnds, Zenon
<1>8. CASE test \in TestCases \ SmiTests /\ s.gpus = <<>>
  <2>1. t = Answered(s, Untouched)
    BY <1>8, <1>n, Zenon
  <2>2. RightNow(s, machine, alone[c], Untouched) /\ Untouched \in Int
    BY <1>5, <1>8, <1>u DEF RightNow, Untouched
  <2> QED
    BY <1>2, <1>4, <2>1, <2>2, AnsweredOK, AnsweredEnds, Zenon
<1>9. CASE test \in TestCases \ SmiTests /\ s.gpus # <<>>
  <2>1. Opens(s, pc, t)
    BY <1>9, <1>n, Zenon DEF Opens
  <2>2. t.pc = pc
    BY <1>4, <2>1, OpensIs
  <2>3. CallOK(t, machine, alone[c])
    BY <1>4, <1>5, <1>9, <1>u, <1>p, <2>1, OpensOK, Zenon
  <2> QED
    BY <1>2, <1>p, <2>2, <2>3, Zenon
<1> QED
  BY <1>6, <1>7, <1>8, <1>9, Zenon

\* The choice of the next test keeps the invariant.
LEMMA RunTestStep ==
  ASSUME DiagInv, NEW c \in Callers, RunTest(c)
  PROVE  DiagInv'
<1>1. /\ Changes(c) /\ CallOK(call'[c], machine, alone[c])
      /\ call'[c].pc \in {"done", "test", "open_queue", "open_alloc"}
  BY RunTestOK, Zenon
<1>2. /\ call[c].pc \notin Inside /\ call'[c].pc \notin Inside /\ call'[c].pc \notin Accessing
      /\ UNCHANGED machine /\ UNCHANGED memory /\ UNCHANGED hsa_refs
  BY <1>1, Zenon DEF RunTest, At, Inside, QueuePc, AllocPc, AccessPc, Accessing, Opening
<1>3. hsa_refs' = Cardinality(Holding')
  BY <1>1, <1>2, HoldingKept, Zenon DEF DiagInv
<1> QED
  BY <1>1, <1>2, <1>3, PlainStep, Zenon

\* A call in the places of a test is running it.
LEMMA InTest ==
  ASSUME DiagInv, NEW c \in Callers, call[c].pc \in QueuePc \cup AllocPc \cup AccessPc
  PROVE  /\ CallShape(call[c]) /\ Answering(call[c], machine, alone[c])
         /\ RunningTest(call[c], machine, alone[c])
BY Zenon DEF DiagInv, CallOK, QueuePc, AllocPc, AccessPc

\* So it is when its memory tests have met others since.
LEMMA InTestStill ==
  ASSUME DiagInv, NEW c \in Callers, call[c].pc \in QueuePc \cup AllocPc \cup AccessPc,
         NEW lone, lone => alone[c]
  PROVE  /\ CallShape(call[c]) /\ Answering(call[c], machine, lone)
         /\ RunningTest(call[c], machine, lone)
<1>s. PICK s : s = call[c]
  BY Zenon
<1>1. CallShape(s) /\ Answering(s, machine, alone[c]) /\ RunningTest(s, machine, alone[c])
  BY <1>s, InTest, Zenon
<1>2. \A j : Told(s, machine, alone[c], j) => Told(s, machine, lone, j)
  BY Zenon DEF Told
<1>3. Answering(s, machine, lone)
  BY <1>1, <1>2, Zenon DEF Answering
<1>4. RunningTest(s, machine, lone)
  BY <1>1, Zenon DEF RunningTest
<1> QED
  BY <1>1, <1>3, <1>4, <1>s, Zenon

\* After a test object come the access test, the next GPU or the next test.
LEMMA AfterTestEnds ==
  ASSUME NEW s, CallShape(s), NEW v
  PROVE  AfterTest(s, v).pc \in {"open_access", "open_queue", "open_alloc", "done", "test"}
<1>w. PICK w : w = WithVerdict(s, v)
  BY Zenon
<1>1. CallShape(w)
  BY <1>w, VerdictIs, Zenon
<1>a. PICK again : again = IF s.tests[s.i] = "COMPUTE_QUEUE" THEN "open_queue" ELSE "open_alloc"
  BY Zenon
<1>2. CASE s.pc \in {"open_alloc", "close_alloc"}
  <2>t. PICK t : t = [w EXCEPT !.pc = "open_access"]
    BY ZenonT(20)
  <2>1. AfterTest(s, v) = t
    BY <1>2, <1>w, <2>t, Zenon DEF AfterTest
  <2>2. t.pc = "open_access"
    BY <1>1, <2>t, GoesIs
  <2> QED
    BY <2>1, <2>2, Zenon
<1>3. CASE s.pc \notin {"open_alloc", "close_alloc"} /\ s.g < Len(s.gpus)
  <2>n. PICK n : n = w.g + 1
    BY Zenon
  <2>t. PICK t : Moves(w, again, n, t)
    BY Zenon DEF Moves
  <2>1. AfterTest(s, v) = t
    BY <1>3, <1>1, <1>w, <1>a, <2>n, <2>t, ZenonT(30) DEF AfterTest, Moves
  <2>2. t.pc = again
    BY <1>1, <2>t, MovesIs, SMTT(30)
  <2> QED
    BY <1>a, <2>1, <2>2, Zenon
<1>4. CASE s.pc \notin {"open_alloc", "close_alloc"} /\ ~(s.g < Len(s.gpus))
  <2>1. AfterTest(s, v) = Answered(w, w.status)
    BY <1>4, <1>w, Zenon DEF AfterTest
  <2> QED
    BY <1>1, <2>1, AnsweredEnds, Zenon
<1> QED
  BY <1>2, <1>3, <1>4, Zenon

\* The initialization of a test, with hsa_init, keeps it.
LEMMA SetUpStep ==
  ASSUME DiagInv, NEW c \in Callers, SetUp(c)
  PROVE  DiagInv'
<1>s. PICK s : s = call[c]
  BY Zenon
<1>1. /\ s.pc \in Opening /\ UNCHANGED machine /\ UNCHANGED memory
      /\ hsa_refs = Cardinality(Holding)
  BY <1>s, Zenon DEF SetUp, DiagInv
<1>2. /\ CallShape(s) /\ Answering(s, machine, alone[c]) /\ RunningTest(s, machine, alone[c])
  BY <1>1, <1>s, InTest, Zenon DEF Opening, QueuePc, AllocPc, AccessPc
<1>3. s.pc \notin Inside
  BY <1>1, Zenon DEF Inside
<1>4. CASE machine.init
  <2>p. PICK pc : pc = Body(s.pc)
    BY Zenon
  <2>1. Goto(c, pc) /\ hsa_refs' = hsa_refs + 1
    BY <1>4, <1>s, <2>p, Zenon DEF SetUp
  <2>2. \/ s.pc = "open_queue" /\ pc = "queue"
        \/ s.pc = "open_alloc" /\ pc = "alloc"
        \/ s.pc = "open_access" /\ pc = "cpu_access"
    BY <1>1, <2>p, Zenon DEF Opening, Body
  <2>3. Arrives(c, pc)
    BY <2>1, GotoArrives, Zenon
  <2>4. pc \in Inside /\ pc \notin Accessing /\ pc \notin Opening /\ pc \notin Closing
        /\ pc \notin {"allocate", "dispatch", "compare", "free", "alloc_half", "alloc_free"}
    BY <2>2, Zenon DEF Inside, QueuePc, AllocPc, AccessPc, Opening, Accessing, Closing
  <2>5. \/ pc \in QueuePc /\ s.pc \in QueuePc
        \/ pc \in AllocPc /\ s.pc \in AllocPc
        \/ pc \in AccessPc /\ s.pc \in AccessPc
    BY <2>2, Zenon DEF QueuePc, AllocPc, AccessPc
  <2>6. CallOK(call'[c], machine, alone[c])
    BY <1>2, <1>4, <1>s, <2>3, <2>4, <2>5, StaysRunning, ZenonT(30) DEF Arrives, Closing
  <2>7. hsa_refs' = Cardinality(Holding')
    BY <1>1, <1>3, <1>s, <2>1, <2>3, <2>4, HoldingMore, Zenon DEF Arrives
  <2> QED
    BY <1>1, <2>3, <2>4, <2>6, <2>7, PlainStep, ZenonT(30) DEF Arrives
<1>5. CASE ~machine.init
  <2>t. PICK t : t = AfterTest(s, FAIL)
    BY Zenon
  <2>1. call' = [call EXCEPT ![c] = t] /\ hsa_refs' = hsa_refs
    BY <1>5, <1>s, <2>t, Zenon DEF SetUp, DiagInv
  <2>2. Changes(c) /\ call'[c] = t
    BY <2>1, PutChanges, ZenonT(20)
  <2>3. FAIL = StageSays(machine, s.pc, s.gpus[s.g])
    <3>1. /\ QueueSays(machine, s.gpus[s.g]) = FAIL /\ AllocSays(machine, s.gpus[s.g]) = FAIL
          /\ AccessSays(machine, s.gpus[s.g]) = FAIL
      BY <1>5, Zenon DEF QueueSays, AllocSays, AccessSays
    <3> QED
      BY <3>1, Zenon DEF StageSays
  <2>4. CallOK(t, machine, alone[c])
    BY <1>1, <1>2, <2>t, <2>3, AfterTestOK, Zenon
  <2>5. t.pc \in {"open_access", "open_queue", "open_alloc", "done", "test"}
    BY <1>2, <2>t, AfterTestEnds, Zenon
  <2>6. t.pc \notin Inside /\ t.pc \notin Accessing
    BY <2>5, Zenon DEF Inside, Accessing, Opening, QueuePc, AllocPc, AccessPc
  <2>7. hsa_refs' = Cardinality(Holding')
    BY <1>1, <1>3, <1>s, <2>1, <2>2, <2>6, HoldingKept, ZenonT(30)
  <2> QED
    BY <1>1, <2>2, <2>4, <2>6, <2>7, PlainStep, Zenon
<1> QED
  BY <1>4, <1>5, Zenon

\* The end of a test, with hsa_shut_down, keeps it.
LEMMA CloseStep ==
  ASSUME DiagInv, NEW c \in Callers, Close(c)
  PROVE  DiagInv'
<1>s. PICK s : s = call[c]
  BY Zenon
<1>1. /\ s.pc \in Closing /\ UNCHANGED <<machine, dead, alone, raced>>
      /\ hsa_refs' = hsa_refs - 1 /\ hsa_refs = Cardinality(Holding)
  BY <1>s, Zenon DEF Close, DiagInv, ShutDown, Closing
<1>2. CallShape(s) /\ Answering(s, machine, alone[c]) /\ RunningTest(s, machine, alone[c])
  BY <1>1, <1>s, InTest, Zenon DEF Closing, QueuePc, AllocPc, AccessPc
<1>v. PICK v : v = s.verdict
  BY Zenon
<1>t. PICK t : t = AfterTest(s, v)
  BY Zenon
<1>3. call' = [call EXCEPT ![c] = t]
  BY <1>s, <1>v, <1>t, Zenon DEF Close, DiagInv
<1>4. Changes(c) /\ call'[c] = t
  BY <1>3, PutChanges, Zenon
<1>5. v \in {PASS, SKIP, FAIL}
  BY <1>1, <1>2, <1>v, Zenon DEF RunningTest
<1>6. alone[c] => v = StageSays(machine, s.pc, s.gpus[s.g])
  BY <1>1, <1>2, <1>v, Zenon DEF RunningTest, StageSays, Closing, QueuePc, AllocPc, AccessPc
<1>7. CallOK(t, machine, alone[c])
  BY <1>1, <1>2, <1>5, <1>6, <1>t, AfterTestOK, Zenon
<1>8. t.pc \in {"open_access", "open_queue", "open_alloc", "done", "test"}
  BY <1>2, <1>t, AfterTestEnds, Zenon
<1>9. t.pc \notin Inside /\ t.pc \notin Accessing /\ s.pc \in Inside /\ Accessing \subseteq Inside
  BY <1>1, <1>8, Zenon DEF Inside, Accessing, Opening, Closing, QueuePc, AllocPc, AccessPc
<1>10. /\ hsa_refs' = Cardinality(Holding')
       /\ \A d \in Callers \ {c} : call[d].pc \in Inside => hsa_refs' # 0
  <2>1. /\ Cardinality(Holding') = Cardinality(Holding) - 1
        /\ \A d \in Callers \ {c} : call[d].pc \in Inside => Cardinality(Holding') # 0
    BY <1>4, <1>9, <1>s, HoldingLess, Zenon
  <2> QED
    BY <1>1, <2>1, Zenon
<1>11. /\ args' = [d \in Callers |-> args'[d]] /\ buffers' = [d \in Callers |-> buffers'[d]]
       /\ hsa_refs' # 0 => UNCHANGED <<args, buffers, kernArgs>>
  BY Zenon DEF Close, DiagInv
<1>12. MemoryOK(c)'
  BY <1>4, <1>9, Zenon DEF MemoryOK
<1>13. alone' \in [Callers -> BOOLEAN] /\ (dead' => raced' \/ \E d \in Callers : ~alone'[d])
  BY <1>1, Zenon DEF DiagInv
<1> QED
  BY <1>1, <1>4, <1>7, <1>9, <1>10, <1>11, <1>12, <1>13, MemoryStep, ZenonT(30)

\* The steps of a test object that leave the memory alone and reach pc.
LEMMA QuietStep ==
  ASSUME DiagInv, NEW c \in Callers, NEW pc, Arrives(c, pc), UNCHANGED machine, UNCHANGED memory,
         UNCHANGED hsa_refs, call[c].pc \in Inside, pc \in Inside \ Accessing,
         CallOK(call'[c], machine, alone[c])
  PROVE  DiagInv'
<1>1. hsa_refs' = Cardinality(Holding')
  BY HoldingKept, Zenon DEF Arrives, DiagInv
<1> QED
  BY <1>1, PlainStep, Zenon DEF Arrives

\* The compute queue test on one GPU keeps it.
LEMMA QueueTestStep ==
  ASSUME DiagInv, NEW c \in Callers, QueueTest(c)
  PROVE  DiagInv'
<1>s. PICK s : s = call[c]
  BY Zenon
<1>v. PICK v : v = IF AllocateAndInitBuffers(s.gpus[s.g]) = PASS
                   THEN LoadKernelFromObjFile(s.gpus[s.g]) ELSE FAIL
  BY Zenon
<1>1. Ends(c, v, "close_queue") /\ s.pc = "queue"
  BY <1>s, <1>v, Zenon DEF QueueTest, Gpu, At
<1>2. Arrives(c, "close_queue") /\ call'[c].verdict = v
  BY <1>1, EndsArrives, Zenon
<1>3. /\ CallShape(s) /\ Answering(s, machine, alone[c]) /\ RunningTest(s, machine, alone[c])
  BY <1>1, <1>s, InTest, Zenon DEF QueuePc
<1>4. machine.init
  BY <1>1, <1>3, Zenon DEF RunningTest, Opening
<1>5. v \in {PASS, SKIP, FAIL} /\ v = QueueSays(machine, s.gpus[s.g])
  <2>1. PASS # FAIL
    BY DEF PASS, FAIL
  <2> QED
    BY <1>4, <1>v, <2>1, ZenonT(30) DEF QueueSays, AllocateAndInitBuffers, LoadKernelFromObjFile
<1>6. CallOK(call'[c], machine, alone[c])
  BY <1>1, <1>2, <1>3, <1>4, <1>5, <1>s, StaysRunning, ZenonT(20)
     DEF Arrives, QueuePc, Opening, Accessing
<1>7. s.pc \in Inside /\ "close_queue" \in Inside \ Accessing
  BY <1>1, Zenon DEF Inside, QueuePc, Opening, Accessing
<1> QED
  BY <1>2, <1>6, <1>7, <1>s, QuietStep, ZenonT(30) DEF QueueTest

\* What a call that looks for memory of these GPUs has met.
LEMMA MeetsIs ==
  ASSUME DiagInv, NEW c \in Callers, NEW gpus, Meets(c, gpus)
  PROVE  /\ alone' \in [Callers -> BOOLEAN] /\ \A d \in Callers : alone'[d] => alone[d]
         /\ alone'[c] => ~Crowded(c, gpus)
<1>c. PICK crowded \in BOOLEAN : crowded = Crowded(c, gpus)
  BY Zenon DEF Crowded
<1>1. alone \in [Callers -> BOOLEAN]
  BY Zenon DEF DiagInv
<1>2. alone' = [alone EXCEPT ![c] = alone[c] /\ ~crowded]
  BY <1>1, <1>c, Zenon DEF Meets
<1>3. alone' = [d \in Callers |-> IF d = c THEN alone[c] /\ ~crowded ELSE alone[d]]
  BY <1>1, <1>2, Zenon
<1>4. \A d \in Callers : alone'[d] = IF d = c THEN alone[c] /\ ~crowded ELSE alone[d]
  BY <1>3, Zenon
<1>5. \A d \in Callers : alone[d] \in BOOLEAN /\ alone'[d] \in BOOLEAN
  <2>1. \A d \in Callers : alone[d] \in BOOLEAN
    BY <1>1, Zenon
  <2> QED
    BY <1>4, <2>1, Zenon
<1>6. alone' \in [Callers -> BOOLEAN]
  BY <1>3, <1>4, <1>5, Zenon
<1> QED
  BY <1>4, <1>6, <1>c, Zenon

\* The steps of a test object that look for memory of a GPU and reach pc.
LEMMA MetStep ==
  ASSUME DiagInv, NEW c \in Callers, NEW pc, Arrives(c, pc),
         UNCHANGED <<machine, hsa_refs, kernArgs, args, buffers, dead, raced>>,
         alone' \in [Callers -> BOOLEAN], \A d \in Callers : alone'[d] => alone[d],
         call[c].pc \in Inside, pc \in Inside \ Accessing, CallOK(call'[c], machine, alone'[c])
  PROVE  DiagInv'
<1>1. hsa_refs' = Cardinality(Holding')
  BY HoldingKept, Zenon DEF Arrives, DiagInv
<1>2. /\ args' = [d \in Callers |-> args'[d]] /\ buffers' = [d \in Callers |-> buffers'[d]]
      /\ dead' => raced' \/ \E d \in Callers : ~alone'[d]
  BY Zenon DEF DiagInv
<1>3. MemoryOK(c)' /\ call'[c].pc \notin Accessing /\ Changes(c)
  BY Zenon DEF MemoryOK, Arrives
<1> QED
  BY <1>1, <1>2, <1>3, MemoryStep, ZenonT(30)

\* A call goes on inside the allocation test.
LEMMA AllocStays ==
  ASSUME DiagInv, NEW c \in Callers, call[c].pc \in AllocPc \ Opening, NEW pc, Arrives(c, pc),
         NEW gpu, gpu = Gpu(c), NEW lone, lone => alone[c],
         \/ pc = "alloc_half" /\ HalfNext(machine, gpu)
         \/ pc = "alloc_free" /\ AllocSays(machine, gpu) = PASS
         \/ /\ pc = "close_alloc" /\ call'[c].verdict \in {PASS, FAIL}
            /\ lone => call'[c].verdict = AllocSays(machine, gpu)
  PROVE  /\ CallOK(call'[c], machine, lone)
         /\ call[c].pc \in Inside /\ pc \in Inside \ Accessing
<1>s. PICK s : s = call[c]
  BY Zenon
<1>t. PICK t : t = call'[c]
  BY Zenon
<1>1. CallShape(s) /\ Answering(s, machine, lone) /\ RunningTest(s, machine, lone)
  BY <1>s, InTestStill, Zenon
<1>2. machine.init
  BY <1>1, <1>s, ZenonT(20) DEF RunningTest
<1>3. /\ CallShape(t) /\ t.pc = pc /\ t.gpus = s.gpus /\ t.tests = s.tests /\ t.i = s.i
      /\ t.g = s.g /\ t.status = s.status /\ t.results = s.results /\ gpu = s.gpus[s.g]
  BY <1>s, <1>t, Zenon DEF Arrives, Gpu
<1>4. /\ pc \in AllocPc /\ pc \notin Opening /\ pc \notin Accessing \cup {"allocate"}
      /\ pc \notin {"dispatch", "compare", "free", "close_queue", "close_access"}
      /\ pc \in Closing => pc = "close_alloc"
  BY Zenon DEF AllocPc, Opening, Accessing, Closing
<1>5. t.pc \in Closing => t.verdict \in {PASS, SKIP, FAIL}
  BY <1>3, <1>4, <1>t, Zenon
<1>6. /\ t.pc = "alloc_half" => HalfNext(machine, t.gpus[t.g])
      /\ t.pc = "alloc_free" => AllocSays(machine, t.gpus[t.g]) = PASS
      /\ t.pc = "close_alloc" /\ lone => t.verdict = AllocSays(machine, t.gpus[t.g])
  BY <1>3, <1>t, Zenon
<1>7. CallOK(t, machine, lone)
  BY <1>1, <1>2, <1>3, <1>4, <1>5, <1>6, <1>s, StaysRunning, ZenonT(30)
<1> QED
  BY <1>4, <1>7, <1>t, Zenon DEF Inside

\* What an allocation answers is what it answers on an idle GPU, or a refusal in a
\* crowd.
LEMMA AnswerIs ==
  ASSUME NEW c, NEW answer, NEW got \in MayAnswer(c, answer)
  PROVE  /\ got = answer \/ got = OUT_OF_RESOURCES
         /\ ~Crowded(c, {Gpu(c)}) => got = answer
BY Zenon DEF MayAnswer

\* The allocation test on one GPU keeps it: more than the pool,
LEMMA AllocTestStep ==
  ASSUME DiagInv, NEW c \in Callers, AllocTest(c)
  PROVE  DiagInv'
<1>g. PICK gpu : gpu = Gpu(c)
  BY Zenon
<1>p. PICK pool : pool = machine.pool[gpu]
  BY Zenon
<1>1. /\ call[c].pc = "alloc"
      /\ UNCHANGED <<machine, hsa_refs, kernArgs, args, buffers, dead, raced>>
  BY Zenon DEF AllocTest, At
<1>2. call[c].pc \in AllocPc \ Opening
  BY <1>1, Zenon DEF AllocPc, Opening
<1>3. machine.init
  <2>1. RunningTest(call[c], machine, alone[c])
    BY <1>2, InTest, Zenon
  <2> QED
    BY <1>2, <2>1, Zenon DEF RunningTest
<1>4. AllocSays(machine, gpu) = IF gpu \in machine.healthy /\ PoolSound(pool) THEN PASS ELSE FAIL
  BY <1>3, <1>p, Zenon DEF AllocSays
<1>5. CASE gpu \notin machine.healthy \/ ~pool.applicable
  <2>v. PICK v \in {PASS, FAIL} : v = AllocSays(machine, gpu)
    BY <1>4, Zenon
  <2>1. Ends(c, v, "close_alloc") /\ UNCHANGED alone
    BY <1>4, <1>5, <1>g, <1>p, <2>v, Zenon DEF AllocTest, PoolSound
  <2>2. Arrives(c, "close_alloc") /\ call'[c].verdict = v
    BY <2>1, EndsArrives, Zenon
  <2>3. alone' \in [Callers -> BOOLEAN] /\ \A d \in Callers : alone'[d] => alone[d]
    BY <2>1, Zenon DEF DiagInv
  <2>4. /\ CallOK(call'[c], machine, alone'[c])
        /\ call[c].pc \in Inside /\ "close_alloc" \in Inside \ Accessing
    BY <1>2, <1>g, <2>2, <2>3, <2>v, AllocStays, Zenon
  <2> QED
    BY <1>1, <2>2, <2>3, <2>4, MetStep, Zenon
<1>6. CASE gpu \in machine.healthy /\ pool.applicable
  <2>1. PICK got \in MayAnswer(c, pool.over) :
          CASE got = INVALID_ALLOCATION -> Goto(c, "alloc_half")
            [] got = SUCCESS -> Goto(c, "alloc_free")
            [] OTHER -> Ends(c, FAIL, "close_alloc")
    BY <1>6, <1>g, <1>p, Zenon DEF AllocTest
  <2>2. Meets(c, {Gpu(c)})
    BY <1>6, <1>g, <1>p, Zenon DEF AllocTest
  <2>3. /\ alone' \in [Callers -> BOOLEAN] /\ \A d \in Callers : alone'[d] => alone[d]
        /\ alone'[c] => ~Crowded(c, {Gpu(c)})
    BY <2>2, MeetsIs, Zenon
  <2>4. /\ got = pool.over \/ got = OUT_OF_RESOURCES
        /\ alone'[c] => got = pool.over
    BY <2>1, <2>3, AnswerIs, SMTT(30)
  <2>5. CASE got = INVALID_ALLOCATION
    <3>1. Goto(c, "alloc_half")
      BY <2>1, <2>5, Zenon DEF INVALID_ALLOCATION, SUCCESS
    <3>2. Arrives(c, "alloc_half")
      BY <3>1, GotoArrives, Zenon
    <3>3. HalfNext(machine, gpu)
      BY <1>6, <1>p, <2>4, <2>5, Zenon DEF HalfNext, INVALID_ALLOCATION, OUT_OF_RESOURCES
    <3>4. /\ CallOK(call'[c], machine, alone'[c])
          /\ call[c].pc \in Inside /\ "alloc_half" \in Inside \ Accessing
      BY <1>2, <1>g, <2>3, <3>2, <3>3, AllocStays, Zenon
    <3> QED
      BY <1>1, <2>3, <3>2, <3>4, MetStep, Zenon
  <2>6. CASE got = SUCCESS
    <3>1. Goto(c, "alloc_free")
      BY <2>1, <2>6, Zenon DEF INVALID_ALLOCATION, SUCCESS
    <3>2. Arrives(c, "alloc_free")
      BY <3>1, GotoArrives, Zenon
    <3>3. AllocSays(machine, gpu) = PASS
      BY <1>4, <1>6, <2>4, <2>6, Zenon DEF PoolSound, SUCCESS, OUT_OF_RESOURCES
    <3>4. /\ CallOK(call'[c], machine, alone'[c])
          /\ call[c].pc \in Inside /\ "alloc_free" \in Inside \ Accessing
      BY <1>2, <1>g, <2>3, <3>2, <3>3, AllocStays, Zenon
    <3> QED
      BY <1>1, <2>3, <3>2, <3>4, MetStep, Zenon
  <2>7. CASE got # INVALID_ALLOCATION /\ got # SUCCESS
    <3>1. Ends(c, FAIL, "close_alloc")
      BY <2>1, <2>7, Zenon
    <3>2. Arrives(c, "close_alloc") /\ call'[c].verdict = FAIL
      BY <3>1, EndsArrives, Zenon
    <3>3. alone'[c] => AllocSays(machine, gpu) = FAIL
      BY <1>4, <1>6, <2>4, <2>7, Zenon DEF PoolSound
    <3>4. /\ CallOK(call'[c], machine, alone'[c])
          /\ call[c].pc \in Inside /\ "close_alloc" \in Inside \ Accessing
      BY <1>2, <1>g, <2>3, <3>2, <3>3, AllocStays, Zenon
    <3> QED
      BY <1>1, <2>3, <3>2, <3>4, MetStep, Zenon
  <2> QED
    BY <2>5, <2>6, <2>7, Zenon
<1> QED
  BY <1>5, <1>6, Zenon

\* half of it,
LEMMA AllocHalfStep ==
  ASSUME DiagInv, NEW c \in Callers, AllocHalf(c)
  PROVE  DiagInv'
<1>g. PICK gpu : gpu = Gpu(c)
  BY Zenon
<1>p. PICK pool : pool = machine.pool[gpu]
  BY Zenon
<1>1. /\ call[c].pc = "alloc_half" /\ Meets(c, {Gpu(c)})
      /\ UNCHANGED <<machine, hsa_refs, kernArgs, args, buffers, dead, raced>>
  BY Zenon DEF AllocHalf, At
<1>2. call[c].pc \in AllocPc \ Opening
  BY <1>1, Zenon DEF AllocPc, Opening
<1>3. machine.init /\ HalfNext(machine, gpu)
  <2>1. RunningTest(call[c], machine, alone[c])
    BY <1>2, InTest, Zenon
  <2> QED
    BY <1>1, <1>2, <1>g, <2>1, ZenonT(30) DEF RunningTest, Gpu
<1>4. AllocSays(machine, gpu) = IF pool.half = SUCCESS THEN PASS ELSE FAIL
  BY <1>3, <1>p, Zenon DEF AllocSays, HalfNext, PoolSound, SUCCESS, INVALID_ALLOCATION
<1>5. PICK got \in MayAnswer(c, pool.half) :
        IF got = SUCCESS THEN Goto(c, "alloc_free") ELSE Ends(c, FAIL, "close_alloc")
  BY <1>g, <1>p, Zenon DEF AllocHalf
<1>6. /\ alone' \in [Callers -> BOOLEAN] /\ \A d \in Callers : alone'[d] => alone[d]
      /\ alone'[c] => ~Crowded(c, {Gpu(c)})
  BY <1>1, MeetsIs, Zenon
<1>7. /\ got = pool.half \/ got = OUT_OF_RESOURCES
      /\ alone'[c] => got = pool.half
  BY <1>5, <1>6, AnswerIs, SMTT(30)
<1>8. CASE got = SUCCESS
  <2>1. Arrives(c, "alloc_free")
    BY <1>5, <1>8, GotoArrives, Zenon
  <2>2. AllocSays(machine, gpu) = PASS
    BY <1>4, <1>7, <1>8, Zenon DEF SUCCESS, OUT_OF_RESOURCES
  <2>3. /\ CallOK(call'[c], machine, alone'[c])
        /\ call[c].pc \in Inside /\ "alloc_free" \in Inside \ Accessing
    BY <1>2, <1>g, <1>6, <2>1, <2>2, AllocStays, Zenon
  <2> QED
    BY <1>1, <1>6, <2>1, <2>3, MetStep, Zenon
<1>9. CASE got # SUCCESS
  <2>1. Arrives(c, "close_alloc") /\ call'[c].verdict = FAIL
    BY <1>5, <1>9, EndsArrives, Zenon
  <2>2. alone'[c] => AllocSays(machine, gpu) = FAIL
    BY <1>4, <1>7, <1>9, Zenon
  <2>3. /\ CallOK(call'[c], machine, alone'[c])
        /\ call[c].pc \in Inside /\ "close_alloc" \in Inside \ Accessing
    BY <1>2, <1>g, <1>6, <2>1, <2>2, AllocStays, Zenon
  <2> QED
    BY <1>1, <1>6, <2>1, <2>3, MetStep, Zenon
<1> QED
  BY <1>8, <1>9, Zenon

\* and the release of what was given.
LEMMA AllocFreeStep ==
  ASSUME DiagInv, NEW c \in Callers, AllocFree(c)
  PROVE  DiagInv'
<1>g. PICK gpu : gpu = Gpu(c)
  BY Zenon
<1>1. /\ call[c].pc = "alloc_free" /\ UNCHANGED machine /\ UNCHANGED memory /\ UNCHANGED hsa_refs
  BY Zenon DEF AllocFree, At
<1>2. call[c].pc \in AllocPc \ Opening
  BY <1>1, Zenon DEF AllocPc, Opening
<1>3. AllocSays(machine, gpu) = PASS
  <2>1. RunningTest(call[c], machine, alone[c])
    BY <1>2, InTest, Zenon
  <2> QED
    BY <1>1, <1>g, <2>1, Zenon DEF RunningTest, Gpu
<1>4. Arrives(c, "close_alloc") /\ call'[c].verdict = PASS
  BY EndsArrives, Zenon DEF AllocFree
<1>5. /\ CallOK(call'[c], machine, alone[c])
      /\ call[c].pc \in Inside /\ "close_alloc" \in Inside \ Accessing
  BY <1>2, <1>3, <1>4, <1>g, AllocStays, Zenon
<1> QED
  BY <1>1, <1>4, <1>5, QuietStep, Zenon

\* A call goes on inside the access test.
LEMMA AccessStays ==
  ASSUME DiagInv, NEW c \in Callers, call[c].pc \in AccessPc \ Opening, NEW pc, Arrives(c, pc),
         pc \in AccessPc \ Opening, NEW gpu, gpu = call[c].gpus[call[c].g],
         NEW lone, lone => alone[c],
         pc = "close_access" => call'[c].verdict \in {PASS, SKIP, FAIL},
         pc \in Accessing \cup {"allocate"} => machine.healthy = Gpus /\ gpu \in machine.large_bar,
         pc \in {"dispatch", "compare", "free"} => gpu \in machine.hsaco,
         pc = "free" /\ lone => gpu \in machine.works,
         machine.init /\ pc = "close_access" /\ lone => call'[c].verdict = AccessSays(machine, gpu)
  PROVE  /\ CallOK(call'[c], machine, lone)
         /\ call[c].pc \in Inside /\ pc \in Inside
<1>s. PICK s : s = call[c]
  BY Zenon
<1>t. PICK t : t = call'[c]
  BY Zenon
<1>1. CallShape(s) /\ Answering(s, machine, lone) /\ RunningTest(s, machine, lone)
  BY <1>s, InTestStill, Zenon
<1>2. machine.init
  BY <1>1, <1>s, ZenonT(20) DEF RunningTest
<1>3. /\ CallShape(t) /\ t.pc = pc /\ t.gpus = s.gpus /\ t.tests = s.tests /\ t.i = s.i
      /\ t.g = s.g /\ t.status = s.status /\ t.results = s.results
  BY <1>s, <1>t, Zenon DEF Arrives
<1>4. (pc \in Closing <=> pc = "close_access") /\ pc # "close_queue" /\ pc # "close_alloc"
      /\ pc # "alloc_half" /\ pc # "alloc_free"
      /\ pc \notin Opening
  BY Zenon DEF AccessPc, Closing
<1>5. CallOK(t, machine, lone)
  BY <1>1, <1>2, <1>3, <1>4, <1>s, <1>t, StaysRunning, ZenonT(30)
<1> QED
  BY <1>5, <1>t, Zenon DEF Inside

\* What the place of a call in the access test says of its GPU.
LEMMA AccessPlace ==
  ASSUME DiagInv, NEW c \in Callers, call[c].pc \in AccessPc \ Opening, NEW gpu, gpu = Gpu(c)
  PROVE  /\ call[c].pc \in Accessing \cup {"allocate"} =>
              machine.healthy = Gpus /\ gpu \in machine.large_bar
         /\ call[c].pc \in {"dispatch", "compare", "free"} => gpu \in machine.hsaco
         /\ call[c].pc = "free" /\ alone[c] => gpu \in machine.works
<1>1. RunningTest(call[c], machine, alone[c])
  BY InTest, Zenon
<1> QED
  BY <1>1, ZenonT(20) DEF RunningTest, Gpu

\* The memory access test keeps it: the access of the CPU,
LEMMA CPUAccessStep ==
  ASSUME DiagInv, NEW c \in Callers, CPUAccess(c)
  PROVE  DiagInv'
<1>g. PICK gpu : gpu = Gpu(c)
  BY Zenon
<1>1. /\ call[c].pc = "cpu_access" /\ Meets(c, machine.large_bar)
      /\ UNCHANGED <<machine, hsa_refs, kernArgs, args, buffers, dead, raced>>
  BY Zenon DEF CPUAccess, At
<1>2. call[c].pc \in AccessPc \ Opening /\ call[c].gpus[call[c].g] = gpu
      /\ {"close_access", "allocate"} \subseteq (AccessPc \ Opening) \ Accessing
      /\ "close_access" \notin Accessing \cup {"allocate", "dispatch", "compare", "free"}
  BY <1>1, <1>g, Zenon DEF AccessPc, Opening, Accessing, Gpu
<1>m. /\ alone' \in [Callers -> BOOLEAN] /\ \A d \in Callers : alone'[d] => alone[d]
      /\ alone'[c] => ~Crowded(c, machine.large_bar)
  BY <1>1, MeetsIs, Zenon
<1>3. CASE machine.healthy = Gpus /\ gpu \in machine.large_bar /\ Goto(c, "allocate")
  <2>1. Arrives(c, "allocate")
    BY <1>3, GotoArrives, Zenon
  <2>2. /\ CallOK(call'[c], machine, alone'[c])
        /\ call[c].pc \in Inside /\ "allocate" \in Inside
    BY <1>2, <1>3, <1>m, <2>1, AccessStays, SMTT(30)
  <2> QED
    BY <1>1, <1>2, <1>m, <2>1, <2>2, MetStep, Zenon
<1>4. ASSUME NEW v \in {PASS, FAIL}, Ends(c, v, "close_access"),
             machine.init /\ alone'[c] => v = AccessSays(machine, gpu)
      PROVE  DiagInv'
  <2>1. Arrives(c, "close_access") /\ call'[c].verdict = v
    BY <1>4, EndsArrives, Zenon
  <2>2. /\ CallOK(call'[c], machine, alone'[c])
        /\ call[c].pc \in Inside /\ "close_access" \in Inside
    BY <1>2, <1>4, <1>m, <2>1, AccessStays, Zenon
  <2> QED
    BY <1>1, <1>2, <1>m, <2>1, <2>2, MetStep, Zenon
<1>5. CASE machine.healthy # Gpus /\ Ends(c, FAIL, "close_access")
  <2>1. AccessSays(machine, gpu) = FAIL
    BY <1>5, Zenon DEF AccessSays
  <2> QED
    BY <1>4, <1>5, <2>1, Zenon
<1>6. CASE machine.healthy = Gpus /\ gpu \notin machine.large_bar /\ Ends(c, PASS, "close_access")
  <2>1. machine.init => AccessSays(machine, gpu) = PASS
    BY <1>6, Zenon DEF AccessSays
  <2> QED
    BY <1>4, <1>6, <2>1, Zenon
<1>7. CASE Crowded(c, machine.large_bar) /\ Ends(c, FAIL, "close_access")
  BY <1>4, <1>7, <1>m, Zenon
<1> QED
  BY <1>3, <1>5, <1>6, <1>7, <1>g, Zenon DEF CPUAccess

\* A step of c within the access test: what is left to show is its memory.
LEMMA AccessStep ==
  ASSUME DiagInv, NEW c \in Callers, NEW pc, Arrives(c, pc), UNCHANGED <<machine, hsa_refs, alone>>,
         call[c].pc \in Accessing, call[c].pc \in Inside, pc \in Inside,
         args' = [d \in Callers |-> args'[d]], buffers' = [d \in Callers |-> buffers'[d]],
         CallOK(call'[c], machine, alone[c]), dead' => raced' \/ \E d \in Callers : ~alone[d],
         MemoryOK(c)'
  PROVE  DiagInv'
<1>1. hsa_refs' = Cardinality(Holding')
  BY HoldingKept, Zenon DEF Arrives, DiagInv
<1>2. ASSUME NEW d \in Callers \ {c}, alone[d], call[d].pc \in Accessing PROVE FALSE
  <2>1. MemoryOK(d)
    BY Zenon DEF DiagInv
  <2> QED
    BY <1>2, <2>1, Zenon DEF MemoryOK
<1>3. alone' \in [Callers -> BOOLEAN]
  BY Zenon DEF DiagInv
<1> QED
  BY <1>1, <1>2, <1>3, MemoryStep, Zenon DEF Arrives

\* its allocation,
LEMMA AllocateStep ==
  ASSUME DiagInv, NEW c \in Callers, Allocate(c)
  PROVE  DiagInv'
<1>o. PICK others : others = {d \in Callers \ {c} : call[d].pc \in Accessing}
  BY Zenon
<1>w. PICK crowded : crowded = Crowded(c, {Gpu(c)})
  BY Zenon
<1>1. /\ call[c].pc = "allocate" /\ UNCHANGED <<machine, hsa_refs, dead, raced>>
      /\ kernArgs' = c /\ ~dead
      /\ alone' = [d \in Callers |-> /\ alone[d] /\ d \notin others
                                     /\ d = c => others = {} /\ ~crowded]
  BY <1>o, <1>w, Zenon DEF Allocate, At
<1>2. /\ args' = [d \in Callers |-> args'[d]] /\ args'[c] = "raw"
      /\ buffers' = [d \in Callers |-> buffers'[d]] /\ buffers'[c] = "blank"
  BY ZenonT(20) DEF Allocate, DiagInv
<1>4. /\ call[c].pc \in AccessPc \ Opening
      /\ {"set_args", "close_access"} \subseteq AccessPc \ Opening
      /\ call[c].pc \in Accessing \cup {"allocate"} /\ call[c].pc \notin Accessing
      /\ "close_access" \notin Accessing \cup {"allocate", "dispatch", "compare", "free"}
  BY <1>1, Zenon DEF AccessPc, Opening, Accessing
<1>5. machine.healthy = Gpus /\ Gpu(c) \in machine.large_bar
  BY <1>4, AccessPlace, Zenon
<1>8. /\ alone' \in [Callers -> BOOLEAN]
      /\ \A d \in Callers : alone'[d] => alone[d] /\ d \notin others
      /\ alone'[c] => others = {} /\ ~crowded
  BY <1>1, ZenonT(20)
<1>13. \A d \in Callers \ {c} : ~(alone'[d] /\ call[d].pc \in Accessing)
  BY <1>8, <1>o, Zenon
<1>6. ASSUME NEW pc \in {"set_args", "close_access"}, Arrives(c, pc),
             CallOK(call'[c], machine, alone'[c]), call[c].pc \in Inside, pc \in Inside
      PROVE  DiagInv'
  <2>1. hsa_refs' = Cardinality(Holding')
    BY <1>1, <1>6, HoldingKept, Zenon DEF Arrives, DiagInv
  <2>2. MemoryOK(c)'
    <3>1. alone'[c] => \A d \in Callers \ {c} : call'[d].pc \notin Accessing
      BY <1>6, <1>8, <1>o, Zenon DEF Arrives, Changes
    <3> QED
      BY <1>1, <1>2, <1>4, <1>6, <3>1, ZenonT(30) DEF MemoryOK, Arrives
  <2> QED
    BY <1>1, <1>2, <1>6, <1>8, <1>13, <2>1, <2>2, MemoryStep, ZenonT(30) DEF Arrives
<1>7. CASE Goto(c, "set_args")
  <2>1. Arrives(c, "set_args")
    BY <1>7, GotoArrives, Zenon
  <2>2. /\ CallOK(call'[c], machine, alone'[c])
        /\ call[c].pc \in Inside /\ "set_args" \in Inside
    BY <1>4, <1>5, <1>8, <2>1, AccessStays, SMTT(30) DEF Gpu
  <2> QED
    BY <1>6, <2>1, <2>2, Zenon
<1>9. CASE crowded /\ Ends(c, FAIL, "close_access")
  <2>1. Arrives(c, "close_access") /\ call'[c].verdict = FAIL
    BY <1>9, EndsArrives, Zenon
  <2>2. /\ CallOK(call'[c], machine, alone'[c])
        /\ call[c].pc \in Inside /\ "close_access" \in Inside
    BY <1>4, <1>8, <1>9, <2>1, AccessStays, Zenon
  <2> QED
    BY <1>6, <2>1, <2>2, Zenon
<1> QED
  BY <1>7, <1>9, <1>w, Zenon DEF Allocate

\* the arguments of its kernel,
LEMMA SetArgsStep ==
  ASSUME DiagInv, NEW c \in Callers, SetArgs(c)
  PROVE  DiagInv'
<1>1. /\ call[c].pc = "set_args" /\ ~dead
      /\ UNCHANGED <<machine, hsa_refs, kernArgs, buffers, dead, alone, raced>>
  BY Zenon DEF SetArgs, At
<1>2. Arrives(c, "load")
  BY GotoArrives, Zenon DEF SetArgs
<1>3. /\ call[c].pc \in AccessPc \ Opening /\ "load" \in AccessPc \ Opening
      /\ call[c].pc \in Accessing
  BY <1>1, Zenon DEF AccessPc, Opening, Accessing
<1>4. machine.healthy = Gpus /\ Gpu(c) \in machine.large_bar
  BY <1>3, AccessPlace, ZenonT(30)
<1>5. CallOK(call'[c], machine, alone[c]) /\ call[c].pc \in Inside /\ "load" \in Inside
  BY <1>2, <1>3, <1>4, AccessStays, SMTT(30) DEF Gpu
<1>6. args' = [d \in Callers |-> args'[d]] /\ buffers' = [d \in Callers |-> buffers'[d]]
  BY <1>1, Zenon DEF SetArgs, DiagInv
<1>7. alone[c] => /\ \A d \in Callers \ {c} : call[d].pc \notin Accessing
                  /\ kernArgs = c /\ args[c] = "raw" /\ buffers[c] = "blank"
  BY <1>1, <1>3, Zenon DEF DiagInv, MemoryOK
<1>8. alone[c] => args'[c] = c
  BY <1>7, Zenon DEF SetArgs, DiagInv
<1>9. MemoryOK(c)'
  BY <1>1, <1>2, <1>7, <1>8, Zenon DEF MemoryOK, Arrives, Changes
<1> QED
  BY <1>1, <1>2, <1>3, <1>5, <1>6, <1>9, AccessStep, ZenonT(30)

\* the loading of the kernel,
LEMMA LoadKernelStep ==
  ASSUME DiagInv, NEW c \in Callers, LoadKernel(c)
  PROVE  DiagInv'
<1>g. PICK gpu : gpu = Gpu(c)
  BY Zenon
<1>1. call[c].pc = "load" /\ UNCHANGED <<machine, hsa_refs>> /\ UNCHANGED memory
  BY Zenon DEF LoadKernel, At
<1>2. /\ call[c].pc \in AccessPc \ Opening /\ call[c].pc \in Accessing
      /\ "dispatch" \in AccessPc \ Opening /\ "close_access" \in (AccessPc \ Opening) \ Accessing
      /\ "close_access" \notin Accessing \cup {"allocate", "dispatch", "compare", "free"}
      /\ gpu = call[c].gpus[call[c].g]
  BY <1>1, <1>g, Zenon DEF AccessPc, Opening, Accessing, Gpu
<1>3. machine.healthy = Gpus /\ gpu \in machine.large_bar
  BY <1>2, <1>g, AccessPlace, Zenon
<1>4. CASE gpu \in machine.hsaco
  <2>1. Arrives(c, "dispatch")
    BY <1>4, <1>g, GotoArrives, ZenonT(30) DEF LoadKernel, LoadKernelFromObjFile
  <2>2. CallOK(call'[c], machine, alone[c]) /\ call[c].pc \in Inside /\ "dispatch" \in Inside
    BY <1>2, <1>3, <1>4, <2>1, AccessStays, SMTT(30)
  <2>3. MemoryOK(c)
    BY Zenon DEF DiagInv
  <2>4. MemoryOK(c)'
    BY <1>1, <1>2, <2>1, <2>3, Zenon DEF MemoryOK, Arrives, Changes, memory
  <2>5. /\ args' = [d \in Callers |-> args'[d]] /\ buffers' = [d \in Callers |-> buffers'[d]]
        /\ (dead' => raced' \/ \E d \in Callers : ~alone[d]) /\ UNCHANGED alone
    BY <1>1, Zenon DEF DiagInv, memory
  <2> QED
    BY <1>1, <1>2, <2>1, <2>2, <2>4, <2>5, AccessStep, ZenonT(30)
<1>5. CASE gpu \notin machine.hsaco
  <2>1. Ends(c, SKIP, "close_access")
    BY <1>5, <1>g DEF LoadKernel, LoadKernelFromObjFile, PASS, SKIP
  <2>2. Arrives(c, "close_access") /\ call'[c].verdict = SKIP
    BY <2>1, EndsArrives, Zenon
  <2>3. machine.init => AccessSays(machine, gpu) = SKIP
    BY <1>3, <1>5, Zenon DEF AccessSays
  <2>4. CallOK(call'[c], machine, alone[c]) /\ call[c].pc \in Inside /\ "close_access" \in Inside
    BY <1>2, <2>2, <2>3, AccessStays, ZenonT(20)
  <2> QED
    BY <1>1, <1>2, <2>2, <2>4, QuietStep, Zenon
<1> QED
  BY <1>4, <1>5, Zenon

\* its run on the GPU,
LEMMA DispatchStep ==
  ASSUME DiagInv, NEW c \in Callers, Dispatch(c)
  PROVE  DiagInv'
<1>o. PICK o : o = args[kernArgs]
  BY Zenon
<1>t. PICK there : there = (o \in Callers /\ buffers[o] # "none")
  BY Zenon
<1>1. /\ call[c].pc = "dispatch" /\ UNCHANGED <<machine, hsa_refs, kernArgs, args, alone>>
      /\ buffers' = IF there /\ Gpu(c) \in machine.works
                    THEN [buffers EXCEPT ![o] = "filled"] ELSE buffers
      /\ dead' = ~(there \/ o = "leaked")
  BY <1>o, <1>t, ZenonT(20) DEF Dispatch, At
<1>2. Arrives(c, "compare")
  BY GotoArrives, Zenon DEF Dispatch
<1>3. /\ call[c].pc \in AccessPc \ Opening /\ "compare" \in AccessPc \ Opening
      /\ call[c].pc \in Accessing
  BY <1>1, Zenon DEF AccessPc, Opening, Accessing
<1>4. machine.healthy = Gpus /\ Gpu(c) \in machine.large_bar /\ Gpu(c) \in machine.hsaco
  BY <1>1, <1>3, AccessPlace, ZenonT(30)
<1>5. CallOK(call'[c], machine, alone[c]) /\ call[c].pc \in Inside /\ "compare" \in Inside
  BY <1>2, <1>3, <1>4, AccessStays, SMTT(30) DEF Gpu
<1>6. /\ args' = [d \in Callers |-> args'[d]] /\ buffers' = [d \in Callers |-> buffers'[d]]
      /\ alone[c] \in BOOLEAN
  BY <1>1, Zenon DEF DiagInv
<1>7. alone[c] => /\ \A d \in Callers \ {c} : call[d].pc \notin Accessing
                  /\ kernArgs = c /\ args[c] = c /\ buffers[c] = "blank"
  BY <1>1, <1>3, Zenon DEF DiagInv, MemoryOK
<1>8. alone[c] => o = c /\ there
  BY <1>7, <1>o, <1>t, Zenon
<1>9. dead' => raced' \/ \E d \in Callers : ~alone[d]
  BY <1>1, <1>8, ZenonT(20)
<1>10. alone[c] => (buffers'[c] = "filled" <=> Gpu(c) \in machine.works)
  BY <1>1, <1>7, <1>8, Zenon DEF DiagInv
<1>11. MemoryOK(c)'
  BY <1>1, <1>2, <1>7, <1>10, Zenon DEF MemoryOK, Arrives, Changes, Gpu
<1> QED
  BY <1>1, <1>2, <1>3, <1>5, <1>6, <1>9, <1>11, AccessStep, ZenonT(30)

\* the comparison of what it wrote,
LEMMA CompareStep ==
  ASSUME DiagInv, NEW c \in Callers, Compare(c)
  PROVE  DiagInv'
<1>g. PICK gpu : gpu = Gpu(c)
  BY Zenon
<1>1. call[c].pc = "compare" /\ UNCHANGED <<machine, hsa_refs>> /\ UNCHANGED memory
  BY Zenon DEF Compare, At
<1>2. /\ call[c].pc \in AccessPc \ Opening /\ call[c].pc \in Accessing
      /\ "free" \in AccessPc \ Opening /\ "close_access" \in (AccessPc \ Opening) \ Accessing
      /\ "close_access" \notin Accessing \cup {"allocate", "dispatch", "compare", "free"}
      /\ gpu = call[c].gpus[call[c].g]
  BY <1>1, <1>g, Zenon DEF AccessPc, Opening, Accessing, Gpu
<1>3. machine.healthy = Gpus /\ gpu \in machine.large_bar /\ gpu \in machine.hsaco
  BY <1>1, <1>2, <1>g, AccessPlace, ZenonT(30)
<1>4. alone[c] => /\ \A d \in Callers \ {c} : call[d].pc \notin Accessing
                  /\ kernArgs = c /\ args[c] = c
                  /\ buffers[c] = "filled" <=> gpu \in machine.works
  BY <1>1, <1>2, Zenon DEF DiagInv, MemoryOK
<1>5. CASE buffers[c] = "filled"
  <2>1. Arrives(c, "free")
    BY <1>5, GotoArrives, ZenonT(30) DEF Compare
  <2>2. CallOK(call'[c], machine, alone[c]) /\ call[c].pc \in Inside /\ "free" \in Inside
    BY <1>2, <1>3, <1>4, <1>5, <2>1, AccessStays, SMTT(30)
  <2>3. MemoryOK(c)'
    BY <1>1, <1>4, <2>1, Zenon DEF MemoryOK, Arrives, Changes, memory
  <2>4. /\ args' = [d \in Callers |-> args'[d]] /\ buffers' = [d \in Callers |-> buffers'[d]]
        /\ (dead' => raced' \/ \E d \in Callers : ~alone[d]) /\ UNCHANGED alone
    BY <1>1, Zenon DEF DiagInv, memory
  <2> QED
    BY <1>1, <1>2, <2>1, <2>2, <2>3, <2>4, AccessStep, ZenonT(30)
<1>6. CASE buffers[c] # "filled"
  <2>1. Ends(c, FAIL, "close_access")
    BY <1>6, Zenon DEF Compare
  <2>2. Arrives(c, "close_access") /\ call'[c].verdict = FAIL
    BY <2>1, EndsArrives, Zenon
  <2>3. machine.init /\ alone[c] => AccessSays(machine, gpu) = FAIL
    BY <1>3, <1>4, <1>6, Zenon DEF AccessSays
  <2>4. CallOK(call'[c], machine, alone[c]) /\ call[c].pc \in Inside /\ "close_access" \in Inside
    BY <1>2, <2>2, <2>3, AccessStays, Zenon
  <2> QED
    BY <1>1, <1>2, <2>2, <2>4, QuietStep, ZenonT(30)
<1> QED
  BY <1>5, <1>6, Zenon

\* and the release of the memory.
LEMMA FreeStep ==
  ASSUME DiagInv, NEW c \in Callers, Free(c)
  PROVE  DiagInv'
<1>g. PICK gpu : gpu = Gpu(c)
  BY Zenon
<1>1. call[c].pc = "free" /\ UNCHANGED <<machine, hsa_refs, dead, alone, raced>> /\ ~dead
  BY Zenon DEF Free, At
<1>2. /\ call[c].pc \in AccessPc \ Opening /\ call[c].pc \in Accessing
      /\ "close_access" \in (AccessPc \ Opening) \ Accessing
      /\ "close_access" \notin Accessing \cup {"allocate", "dispatch", "compare", "free"}
      /\ gpu = call[c].gpus[call[c].g]
  BY <1>1, <1>g, Zenon DEF AccessPc, Opening, Accessing, Gpu
<1>3. /\ machine.healthy = Gpus /\ gpu \in machine.large_bar /\ gpu \in machine.hsaco
      /\ alone[c] => gpu \in machine.works
  BY <1>1, <1>2, <1>g, AccessPlace, Zenon
<1>4. Arrives(c, "close_access") /\ call'[c].verdict = PASS
  BY EndsArrives, Zenon DEF Free
<1>5. machine.init /\ alone[c] => AccessSays(machine, gpu) = PASS
  BY <1>3, Zenon DEF AccessSays
<1>6. CallOK(call'[c], machine, alone[c]) /\ call[c].pc \in Inside /\ "close_access" \in Inside
  BY <1>2, <1>4, <1>5, AccessStays, Zenon
<1>7. args' = [d \in Callers |-> args'[d]] /\ buffers' = [d \in Callers |-> buffers'[d]]
  BY ZenonT(20) DEF Free, DiagInv
<1>8. MemoryOK(c)'
  BY <1>2, <1>4, ZenonT(20) DEF MemoryOK, Arrives
<1> QED
  BY <1>1, <1>2, <1>4, <1>6, <1>7, <1>8, AccessStep, ZenonT(30)

-----------------------------------------------------------------------------
\* The invariant holds at the start.
LEMMA DiagStarts == DiagInit => DiagInv
<1> SUFFICES ASSUME DiagInit PROVE DiagInv
  BY Zenon
<1>1. \A c \in Callers : call[c] = NoCall
  BY Zenon DEF DiagInit
<1>2. CallShape(NoCall) /\ NoCall.pc = "idle"
  BY Zenon DEF NoCall, CallShape
<1>3. \A c \in Callers : CallOK(call[c], machine, alone[c]) /\ MemoryOK(c)
  BY <1>1, <1>2, Zenon DEF CallOK, MemoryOK, Accessing
<1>4. Holding = {}
  BY <1>1, <1>2, Zenon DEF Holding, Inside, QueuePc, AllocPc, AccessPc
<1>5. hsa_refs = Cardinality(Holding)
  BY <1>4, FS_EmptySet, Zenon DEF DiagInit
<1> QED
  BY <1>3, <1>5, ZenonT(20) DEF DiagInit, DiagInv

\* A step that changes nothing keeps it.
LEMMA DiagStutters ==
  ASSUME DiagInv, UNCHANGED vars
  PROVE  DiagInv'
<1>1. UNCHANGED <<machine, module_, call, hsa_refs, kernArgs, args, buffers, dead, alone,
                raced>>
  BY Zenon DEF vars
<1>2. Holding' = Holding
  BY <1>1, Zenon DEF Holding
<1>3. \A c \in Callers : MemoryOK(c) => MemoryOK(c)'
  BY <1>1, Zenon DEF MemoryOK
<1> QED
  BY <1>1, <1>2, <1>3, Zenon DEF DiagInv

\* Every step keeps it.
LEMMA DiagKept ==
  ASSUME DiagInv, [DiagNext]_vars
  PROVE  DiagInv'
<1>1. CASE DiagNext
  <2>1. PICK c \in Callers : Begin(c) \/ Step(c)
    BY <1>1, Zenon DEF DiagNext
  <2>2. CASE Begin(c)
    BY <2>2, BeginStep, Zenon
  <2>3. CASE Step(c)
    BY <2>3, ModuleStep, RunTestStep, SetUpStep, CloseStep, QueueTestStep, AllocTestStep,
       AllocHalfStep, AllocFreeStep, CPUAccessStep, AllocateStep, SetArgsStep, LoadKernelStep, DispatchStep, CompareStep,
       FreeStep, ZenonT(30) DEF Step
  <2> QED
    BY <2>1, <2>2, <2>3, Zenon
<1>2. CASE UNCHANGED vars
  BY <1>2, DiagStutters, Zenon
<1> QED
  BY <1>1, <1>2, Zenon

\* The diagnostics keep the invariant: whoever runs them, the references to the
\* runtime are those of the calls inside a test, the results so far are right, and
\* the memory of a memory test that met no other is its own (rdc_diagnostic_run,
\* TestBase, MemoryAccessTest).
THEOREM DiagnosticsInvariant == DiagSpec => []DiagInv
<1>1. DiagInit => DiagInv
  BY DiagStarts, Zenon
<1>2. DiagInv /\ [DiagNext]_vars => DiagInv'
  BY DiagKept, Zenon
<1> QED
  BY <1>1, <1>2, PTL DEF DiagSpec

\* A call that is done has the results of all its tests.
LEMMA DoneTold ==
  ASSUME DiagInv, NEW c \in Callers, call[c].pc = "done"
  PROVE  /\ call[c].gpus \in Seq(Gpus) /\ call[c].tests \in Seq(STRING)
         /\ Len(call[c].results) = Len(call[c].tests)
         /\ \A i \in DOMAIN call[c].tests : Told(call[c], machine, alone[c], i)
<1>s. PICK s : s = call[c]
  BY Zenon
<1>1. CallOK(s, machine, alone[c]) /\ s.pc = "done"
  BY <1>s, Zenon DEF DiagInv
<1>2. Answering(s, machine, alone[c]) /\ s.i = Len(s.tests) + 1
  BY <1>1, ZenonT(20) DEF CallOK, RunningTest, QueuePc, AllocPc, AccessPc
<1>3. /\ s.gpus \in Seq(Gpus) /\ s.tests \in Seq(STRING) /\ Len(s.results) = s.i - 1
      /\ \A j \in 1 .. (s.i - 1) : Told(s, machine, alone[c], j)
  BY <1>2, Zenon DEF Answering
<1>4. s.i - 1 = Len(s.tests) /\ DOMAIN s.tests = 1 .. Len(s.tests)
  <2>1. s.tests \in Seq(STRING) /\ s.i = Len(s.tests) + 1
    BY <1>2, <1>3, Zenon
  <2> QED
    BY <2>1
<1> QED
  BY <1>3, <1>4, <1>s, Zenon

\* Every test of every level has its result when the call returns, and only the
\* rocr tests of an empty group leave what the caller's response held
\* (rdc_diagnostic_run, rdc_diag_test_case_run): for any number of threads, GPUs
\* and tests, and on any machine.
THEOREM AnswersAreSet == DiagSpec => []AnswersSet
<1>1. DiagInv => AnswersSet
  BY DoneTold, Zenon DEF AnswersSet, Told
<1> QED
  BY <1>1, DiagnosticsInvariant, PTL

\* A call whose memory tests met no other call's is told what the machine is like by
\* the tests of librdc_rocr.so: the status of the last GPU that does not pass, or
\* PASS; and only two calls can bring the process down, with two memory tests at a
\* time or a second assignment of the module (run_memory_test, MemoryTest,
\* MemoryAccessTest, get_diagnostic_module): for any number of threads, of GPUs and
\* of tests, and on any machine.
THEOREM ResponsesAreTruthful == DiagSpec => []ResponseTruthful
<1>1. ASSUME DiagInv PROVE ResponseTruthful
  <2>1. ASSUME NEW c \in Callers, call[c].pc = "done", alone[c], call[c].gpus # <<>>,
               machine.loaded, NEW i \in DOMAIN call[c].tests, call[c].tests[i] \in RocrTests
        PROVE  SumOf(machine, call[c].tests[i], call[c].gpus, Len(call[c].gpus),
                     call[c].results[i])
    <3>1. Told(call[c], machine, alone[c], i)
      BY <1>1, <2>1, DoneTold, ZenonT(20)
    <3> QED
      BY <2>1, <3>1, Zenon DEF Told
  <2>2. dead => raced \/ \E c \in Callers : ~alone[c]
    BY <1>1, Zenon DEF DiagInv
  <2> QED
    BY <2>1, <2>2, Zenon DEF ResponseTruthful
<1> QED
  BY <1>1, DiagnosticsInvariant, PTL

-----------------------------------------------------------------------------
(* What the tests compute *)

\* A non-empty set of naturals has a least element.
LEMMA LeastNatural ==
  ASSUME NEW S \in SUBSET Nat, S # {}
  PROVE  \E x \in S : \A y \in S : x <= y
<1>1. \E x \in S : \A y \in S : ~ (<<y, x>> \in OpToRel(<, Nat))
  BY NatLessThanWellFounded, WFMin, Zenon
<1>2. PICK x \in S : \A y \in S : ~ (<<y, x>> \in OpToRel(<, Nat))
  BY <1>1, Zenon
<1>3. ASSUME NEW y \in S PROVE x <= y
  <2>1. <<y, x>> \notin OpToRel(<, Nat)
    BY <1>2, Zenon
  <2>2. ~ (y < x)
    BY <2>1, Zenon DEF OpToRel
  <2> QED BY <2>2
<1> QED BY <1>2, <1>3, Zenon

-----------------------------------------------------------------------------
(* The search of ComputeQueueTest *)

\* What one more pass makes of the bounds b may have.
Pass(input, find_me, divisions, B) ==
  UNION {IF b.sub <= 1 \/ ~b.hit THEN {b}
         ELSE Narrowed(input, find_me, divisions, b.sub, b.left) : b \in B}

\* f gives the bounds after 0, 1, ... n passes.
IsPasses(f, input, find_me, divisions, start, n) ==
  f = [k \in 0 .. n |-> IF k = 0 THEN {start} ELSE Pass(input, find_me, divisions, f[k - 1])]

\* There are such passes, by a least counterexample.
LEMMA PassesExist ==
  ASSUME NEW input, NEW v, NEW d, NEW start, NEW n \in Nat
  PROVE  \E f : IsPasses(f, input, v, d, start, n)
<1>t. PICK T : T = {k \in Nat : ~ \E f : IsPasses(f, input, v, d, start, k)}
  BY ZenonT(20)
<1>1. ASSUME n \in T PROVE FALSE
  <2>1. T \in SUBSET Nat /\ T # {}
    BY <1>1, <1>t, Zenon
  <2>2. PICK x \in T : \A y \in T : x <= y
    BY <2>1, LeastNatural, Zenon
  <2>3. x \in Nat /\ ~ \E f : IsPasses(f, input, v, d, start, x)
    BY <1>t, <2>2, Zenon
  <2>4. CASE x = 0
    <3>f. PICK f : f = [k \in 0 .. 0 |-> {start}]
      BY ZenonT(20)
    <3>0. \A k \in 0 .. 0 : k = 0
      OBVIOUS
    <3>1. IsPasses(f, input, v, d, start, 0)
      BY <3>f, <3>0, Zenon DEF IsPasses
    <3> QED
      BY <2>3, <2>4, <3>1, Zenon
  <2>5. CASE x # 0
    <3>1. x - 1 \in Nat /\ x - 1 \notin T
      BY <2>2, <2>3, <2>5, SMTT(30)
    <3>f. PICK f : IsPasses(f, input, v, d, start, x - 1)
      BY <1>t, <3>1, Zenon
    <3>g. PICK g : g = [k \in 0 .. x |-> IF k = x THEN Pass(input, v, d, f[x - 1]) ELSE f[k]]
      BY Zenon
    <3>2. \A k \in 0 .. x : k = x \/ k \in 0 .. (x - 1)
      BY <2>3
    <3>3. \A k \in 0 .. x : k # 0 => k - 1 \in 0 .. x /\ k - 1 # x /\ k - 1 \in 0 .. (x - 1)
      BY <2>3
    <3>4. \A k \in 0 .. (x - 1) : f[k] = IF k = 0 THEN {start} ELSE Pass(input, v, d, f[k - 1])
      BY <3>f, ZenonT(20) DEF IsPasses
    <3>5. ASSUME NEW k \in 0 .. x
          PROVE  g[k] = IF k = 0 THEN {start} ELSE Pass(input, v, d, g[k - 1])
      <4>1. CASE k = x
        BY <2>5, <3>3, <3>g, <4>1, ZenonT(30)
      <4>2. CASE k # x
        BY <3>2, <3>3, <3>4, <3>g, <4>2, ZenonT(30)
      <4> QED
        BY <4>1, <4>2, Zenon
    <3>6. g = [k \in 0 .. x |-> g[k]]
      BY <3>g, Zenon
    <3>7. IsPasses(g, input, v, d, start, x)
      BY <3>5, <3>6, Zenon DEF IsPasses
    <3> QED
      BY <2>3, <3>7, Zenon
  <2> QED
    BY <2>4, <2>5, Zenon
<1> QED
  BY <1>1, <1>t, Zenon

\* Passes gives what the last pass leaves.
LEMMA PassesIs ==
  ASSUME NEW input, NEW v, NEW d, NEW start, NEW n \in Nat, n = start.sub
  PROVE  \E f : IsPasses(f, input, v, d, start, n) /\ Passes(input, v, d, start) = f[n]
<1>f. PICK f : f = CHOOSE after : IsPasses(after, input, v, d, start, n)
  BY Zenon
<1>1. Passes(input, v, d, start) = f[n]
  BY <1>f, Zenon DEF Passes, IsPasses, Pass
<1>2. \E after : IsPasses(after, input, v, d, start, n)
  BY PassesExist, Zenon
<1>3. IsPasses(f, input, v, d, start, n)
  BY <1>f, <1>2, Zenon
<1> QED
  BY <1>1, <1>3, Zenon

\* The passes, one after the other.
LEMMA PassAt ==
  ASSUME NEW f, NEW input, NEW v, NEW d, NEW start, NEW n \in Nat,
         IsPasses(f, input, v, d, start, n)
  PROVE  /\ f[0] = {start}
         /\ \A k \in 1 .. n : f[k] = Pass(input, v, d, f[k - 1]) /\ k - 1 \in 0 .. n
<1>1. 0 \in 0 .. n /\ \A k \in 1 .. n : k \in 0 .. n /\ k # 0 /\ k - 1 \in 0 .. n
  OBVIOUS
<1> QED
  BY <1>1, Zenon DEF IsPasses

\* The bounds before the first pass.
Whole(length, sub, left) ==
  [lower |-> 0, upper |-> length - 1, sub |-> sub, hit |-> TRUE, left |-> left]

\* When the segments of the first pass have one element, the passes end with the
\* bounds they began with or with those of the first pass.
LEMMA OnePass ==
  ASSUME NEW input, NEW v, NEW d, NEW length, NEW sub \in Nat, NEW left, sub \div d <= 1
  PROVE  \A b \in Passes(input, v, d, Whole(length, sub, left)) :
           b = Whole(length, sub, left) \/ b \in Narrowed(input, v, d, sub, left)
<1>s. PICK start : start = Whole(length, sub, left)
  BY Zenon
<1>0. start.sub = sub /\ sub = start.sub /\ start.left = left /\ left = start.left
  BY <1>s, Zenon DEF Whole
<1>n. PICK N : N = Narrowed(input, v, d, sub, left)
  BY Zenon
<1>1. ASSUME NEW b \in N PROVE b.sub <= 1
  <2>1. PICK tid : b = [lower |-> tid * sub, upper |-> tid * sub + sub - 1, sub |-> sub \div d,
                      hit |-> {t \in 0 .. d - 1 : InSegment(input, v, sub, t)} # {}, left |-> tid]
    BY <1>n, <1>1, Zenon DEF Narrowed
  <2>2. b.sub = sub \div d
    BY <2>1, Zenon
  <2> QED
    BY <2>2, Zenon
<1>f. PICK f : IsPasses(f, input, v, d, start, sub) /\ Passes(input, v, d, start) = f[sub]
  BY <1>0, PassesIs
<1>2. /\ f[0] = {start}
      /\ \A k \in 1 .. sub : f[k] = Pass(input, v, d, f[k - 1]) /\ k - 1 \in 0 .. sub
  BY <1>f, PassAt, Zenon
<1>t. PICK T : T = {k \in 0 .. sub : ~ \A b \in f[k] : b = start \/ b \in N}
  BY Zenon
<1>3. ASSUME T # {} PROVE FALSE
  <2>1. T \in SUBSET Nat
    BY <1>t
  <2>2. PICK x \in T : \A y \in T : x <= y
    BY <1>3, <2>1, LeastNatural, ZenonT(30)
  <2>3. x # 0
    BY <1>2, <1>t, <2>2, Zenon
  <2>4. x \in 1 .. sub
    BY <1>t, <2>2, <2>3, SMTT(30)
  <2>5. x - 1 \notin T /\ x - 1 \in 0 .. sub
    BY <2>2, <2>4, SMTT(30)
  <2>6. \A b \in f[x - 1] : b = start \/ b \in N
    BY <1>t, <2>5, Zenon
  <2>7. ASSUME NEW b \in f[x] PROVE b = start \/ b \in N
    <3>1. PICK a \in f[x - 1] : b \in IF a.sub <= 1 \/ ~a.hit THEN {a}
                                      ELSE Narrowed(input, v, d, a.sub, a.left)
      <4>1. b \in Pass(input, v, d, f[x - 1])
        BY <1>2, <2>4, <2>7, Zenon
      <4> QED
        BY <4>1, Zenon DEF Pass
    <3>2. CASE a = start
      <4>1. Narrowed(input, v, d, a.sub, a.left) = N
        BY <1>0, <1>n, <3>2, SMTT(30)
      <4> QED
        BY <3>1, <3>2, <4>1, Zenon
    <3>3. CASE a \in N
      BY <1>1, <3>1, <3>3, Zenon
    <3> QED
      BY <2>6, <3>2, <3>3, Zenon
  <2> QED
    BY <1>t, <2>2, <2>7, Zenon
<1>4. sub \in 0 .. sub
  OBVIOUS
<1>5. \A b \in f[sub] : b = start \/ b \in N
  BY <1>3, <1>4, <1>t, Zenon
<1> QED
  BY <1>5, <1>f, <1>n, <1>s, Zenon

\* The input is sorted, not only step by step.
LEMMA InputSorted ==
  ASSUME NEW length \in Nat, NEW values \in SUBSET Int, NEW input \in Inputs(length, values),
         NEW i \in 0 .. length - 1, NEW j \in 0 .. length - 1, i <= j
  PROVE  input[i] <= input[j]
<1>1. /\ \A k \in 0 .. length - 1 : input[k] \in Int
      /\ \A k \in 1 .. length - 1 : input[k - 1] <= input[k]
  BY Zenon DEF Inputs
<1>t. PICK T : T = {k \in 0 .. length - 1 : i <= k /\ ~ (input[i] <= input[k])}
  BY Zenon
<1>2. ASSUME T # {} PROVE FALSE
  <2>1. T \in SUBSET Nat
    BY <1>t
  <2>2. PICK x \in T : \A y \in T : x <= y
    BY <1>2, <2>1, LeastNatural, Zenon
  <2>3. x \in 0 .. length - 1 /\ i <= x /\ ~ (input[i] <= input[x])
    BY <1>t, <2>2, Zenon
  <2>4. x # i
    BY <1>1, <2>3, SMTT(30)
  <2>5. x \in 1 .. length - 1 /\ x - 1 \in 0 .. length - 1 /\ i <= x - 1 /\ x - 1 \notin T
    BY <2>2, <2>3, <2>4, SMTT(30)
  <2>6. input[i] <= input[x - 1]
    BY <1>t, <2>5, Zenon
  <2>7. /\ input[i] \in Int /\ input[x - 1] \in Int /\ input[x] \in Int
        /\ input[x - 1] <= input[x]
    BY <1>1, <2>3, <2>5, Zenon
  <2> QED
    BY <2>3, <2>6, <2>7, SMTT(30)
<1> QED
  BY <1>2, <1>t, Zenon

\* A segment lies within the input.
LEMMA SegmentWithin ==
  ASSUME NEW d \in Nat, NEW sub \in Nat, sub # 0, NEW tid \in 0 .. d - 1
  PROVE  /\ tid * sub \in Nat /\ (tid + 1) * sub - 1 = tid * sub + sub - 1
         /\ tid * sub + sub <= d * sub
<1>1. PICK r \in Nat : d = tid + 1 + r
  <2>1. d - tid - 1 \in Nat /\ d = tid + 1 + (d - tid - 1)
    OBVIOUS
  <2> QED
    BY <2>1, Zenon
<1>2. tid * sub \in Nat /\ r * sub \in Nat
  OBVIOUS
<1>3. d * sub = tid * sub + sub + r * sub /\ (tid + 1) * sub = tid * sub + sub
  BY <1>1
<1> QED
  BY <1>2, <1>3

\* Every index lies in a segment.
LEMMA SegmentOf ==
  ASSUME NEW d \in Nat, NEW sub \in Nat, sub # 0, NEW i \in 0 .. d * sub - 1
  PROVE  \E tid \in 0 .. d - 1 : tid * sub <= i /\ i <= tid * sub + sub - 1
<1>t. PICK T : T = {t \in Nat : i < (t + 1) * sub}
  BY Zenon
<1>0. d # 0 /\ i \in Nat
  OBVIOUS
<1>1. T \in SUBSET Nat /\ d - 1 \in T
  BY <1>0, <1>t, SMTT(30)
<1>2. PICK x \in T : \A y \in T : x <= y
  BY <1>1, LeastNatural, Zenon
<1>3. x \in Nat /\ i < (x + 1) * sub /\ x \in 0 .. d - 1
  BY <1>0, <1>1, <1>2, <1>t, SMTT(30)
<1>4. (x + 1) * sub - 1 = x * sub + sub - 1 /\ x * sub \in Nat
  BY <1>3, SegmentWithin
<1>5. x * sub <= i
  <2>1. CASE x = 0
    BY <2>1, <1>0, SMTT(30)
  <2>2. CASE x # 0
    <3>1. x - 1 \in Nat /\ x - 1 \notin T
      BY <1>2, <1>3, <2>2, SMTT(30)
    <3>2. ~ (i < (x - 1 + 1) * sub)
      BY <1>t, <3>1, Zenon
    <3> QED
      BY <1>0, <1>3, <1>4, <3>2, SMTT(30)
  <2> QED
    BY <2>1, <2>2, Zenon
<1> QED
  <2>1. i <= x * sub + sub - 1
    BY <1>0, <1>3, <1>4, SMTT(30)
  <2> QED
    BY <1>3, <1>5, <2>1, Zenon

\* The first of a set of indices.
FirstOf(S) == IF S = {} THEN -1 ELSE CHOOSE i \in S : \A j \in S : i <= j

\* It is one of them.
LEMMA FirstIsIn ==
  ASSUME NEW S \in SUBSET Nat
  PROVE  IF S = {} THEN FirstOf(S) = -1 ELSE FirstOf(S) \in S
<1>1. CASE S = {}
  BY <1>1, Zenon DEF FirstOf
<1>2. CASE S # {}
  <2>1. \E i \in S : \A j \in S : i <= j
    BY <1>2, LeastNatural, ZenonT(30)
  <2> QED
    BY <1>2, <2>1, Zenon DEF FirstOf
<1> QED
  BY <1>1, <1>2, Zenon

\* Whatever bounds the passes end with lie within the input, and hold the value
\* sought if the input does.
LEMMA BoundsHold ==
  ASSUME NEW length \in Nat, NEW d \in Nat, NEW sub \in Nat, sub # 0, length = d * sub, d # 0,
         NEW left \in 0 .. d - 1,
         NEW values \in SUBSET Int, NEW input \in Inputs(length, values), NEW v \in values,
         NEW b, b = Whole(length, sub, left) \/ b \in Narrowed(input, v, d, sub, left)
  PROVE  /\ \A k \in b.lower .. b.upper : k \in 0 .. length - 1
         /\ (\E i \in 0 .. length - 1 : input[i] = v) =>
              \E k \in b.lower .. b.upper : input[k] = v
<1>0. /\ \A k \in 0 .. length - 1 : input[k] \in Int
      /\ v \in Int
  BY Zenon DEF Inputs
<1>1. CASE b = Whole(length, sub, left)
  <2>1. b.lower = 0 /\ b.upper = length - 1
    BY <1>1, Zenon DEF Whole
  <2> QED
    BY <2>1, Zenon
<1>2. CASE b \in Narrowed(input, v, d, sub, left)
  <2>h. PICK hits : hits = {tid \in 0 .. d - 1 : InSegment(input, v, sub, tid)}
    BY Zenon
  <2>1. PICK tid \in IF hits = {} THEN {left} ELSE hits :
          b = [lower |-> tid * sub, upper |-> tid * sub + sub - 1, sub |-> sub \div d,
               hit |-> hits # {}, left |-> tid]
    BY <1>2, <2>h, Zenon DEF Narrowed
  <2>2. b.lower = tid * sub /\ b.upper = tid * sub + sub - 1
    BY <2>1, Zenon
  <2>3. tid \in 0 .. d - 1
    BY <2>1, <2>h, Zenon
  <2>4. /\ tid * sub \in Nat /\ (tid + 1) * sub - 1 = tid * sub + sub - 1
        /\ tid * sub + sub <= length
    BY <2>3, SegmentWithin, Zenon
  <2>5. PICK lo, up : lo = tid * sub /\ up = tid * sub + sub - 1
    BY Zenon
  <2>6. /\ lo \in 0 .. length - 1 /\ up \in 0 .. length - 1 /\ lo <= up
        /\ \A k \in lo .. up : k \in 0 .. length - 1
        /\ lo \in lo .. up /\ up \in lo .. up
    BY <2>4, <2>5, SMTT(30)
  <2>7. ASSUME NEW i \in 0 .. length - 1, input[i] = v
        PROVE  \E k \in lo .. up : input[k] = v
    <3>1. hits # {}
      <4>1. i \in 0 .. d * sub - 1
        BY <2>7, Zenon
      <4>2. PICK t \in 0 .. d - 1 : t * sub <= i /\ i <= t * sub + sub - 1
        BY <4>1, SegmentOf, Zenon
      <4>3. /\ t * sub \in Nat /\ (t + 1) * sub - 1 = t * sub + sub - 1
            /\ t * sub + sub <= length
        BY SegmentWithin, Zenon
      <4>4. t * sub \in 0 .. length - 1 /\ t * sub + sub - 1 \in 0 .. length - 1
        BY <4>2, <4>3, SMTT(30)
      <4>5. input[t * sub] <= input[i] /\ input[i] <= input[t * sub + sub - 1]
        BY <2>7, <4>2, <4>4, InputSorted, ZenonT(30)
      <4>6. InSegment(input, v, sub, t)
        BY <2>7, <4>3, <4>5, Zenon DEF InSegment
      <4> QED
        BY <2>h, <4>2, <4>6, Zenon
    <3>2. InSegment(input, v, sub, tid)
      BY <2>1, <2>h, <3>1, Zenon
    <3>3. input[lo] <= v /\ v <= input[up]
      BY <2>4, <2>5, <3>2, ZenonT(30) DEF InSegment
    <3>4. input[lo] \in Int /\ input[up] \in Int
      BY <1>0, <2>6, Zenon
    <3>5. CASE i < lo
      <4>1. i <= lo
        BY <2>6, <3>5, SMTT(30)
      <4>2. input[i] <= input[lo]
        BY <2>6, <2>7, <4>1, InputSorted, ZenonT(30)
      <4>3. input[lo] = v
        BY <1>0, <2>7, <3>3, <3>4, <4>2, SMTT(30)
      <4> QED
        BY <2>6, <4>3, Zenon
    <3>6. CASE up < i
      <4>1. up <= i
        BY <2>6, <3>6, SMTT(30)
      <4>2. input[up] <= input[i]
        BY <2>6, <2>7, <4>1, InputSorted, ZenonT(30)
      <4>3. input[up] = v
        BY <1>0, <2>7, <3>3, <3>4, <4>2, SMTT(30)
      <4> QED
        BY <2>6, <4>3, ZenonT(30)
    <3>7. CASE i \in lo .. up
      BY <2>7, <3>7, ZenonT(30)
    <3>8. i < lo \/ up < i \/ i \in lo .. up
      BY <2>6, <2>7, SMTT(30)
    <3> QED
      BY <3>5, <3>6, <3>7, <3>8, ZenonT(30)
  <2>8. b.lower = lo /\ b.upper = up
    BY <2>2, <2>5, Zenon
  <2> QED
    BY <2>6, <2>7, <2>8, Zenon
<1> QED
  BY <1>1, <1>2, Zenon

\* The search finds the value exactly when it is in the sorted input, for every
\* length that the divisions divide and that takes one pass, every value, whichever
\* work item of the kernel binarySearch writes last, and whatever segment output[0]
\* named before.
THEOREM SearchIsRight ==
  ASSUME NEW length \in Nat, NEW divisions \in Nat, NEW sub \in Nat,
         divisions # 0, sub # 0, length = divisions * sub, sub = length \div divisions,
         sub \div divisions <= 1, NEW values \in SUBSET Int
  PROVE  SearchFinds(length, divisions, values)
<1> SUFFICES ASSUME NEW input \in Inputs(length, values), NEW v \in values,
                    NEW left \in 0 .. divisions - 1,
                    NEW at \in BinarySearch(input, v, divisions, left)
             PROVE  IF \E i \in DOMAIN input : input[i] = v
                    THEN at \in DOMAIN input /\ input[at] = v ELSE at = -1
  BY Zenon DEF SearchFinds
<1>0. length # 0 /\ 0 \in 0 .. length - 1 /\ length - 1 \in 0 .. length - 1
      /\ \A i \in 0 .. length - 1 : 0 <= i /\ i <= length - 1
  <2>1. divisions * sub \in Nat /\ divisions * sub # 0
    OBVIOUS
  <2> QED
    BY <2>1
<1>1. DOMAIN input = 0 .. length - 1 /\ v \in Int
      /\ \A k \in 0 .. length - 1 : input[k] \in Int
  BY Zenon DEF Inputs
<1>2. Cardinality(DOMAIN input) = length
  <2>1. length - 1 \in Int /\ 0 \in Int
    OBVIOUS
  <2>2. Cardinality(0 .. length - 1) = IF 0 > length - 1 THEN 0 ELSE length - 1 - 0 + 1
    BY <2>1, FS_Interval, Zenon
  <2>3. Cardinality(0 .. length - 1) = length
    BY <1>0, <2>2, SMTT(30)
  <2> QED
    BY <1>1, <2>3, Zenon
<1>3. at \in IF input[0] > v \/ input[length - 1] < v THEN {-1}
             ELSE {FirstOf({i \in b.lower .. b.upper : input[i] = v}) :
                     b \in Passes(input, v, divisions, Whole(length, sub, left))}
  BY <1>2, Zenon DEF BinarySearch, FirstOf, Whole
<1>4. CASE input[0] > v \/ input[length - 1] < v
  <2>1. \A i \in 0 .. length - 1 : input[0] <= input[i] /\ input[i] <= input[length - 1]
    BY <1>0, InputSorted, Zenon
  <2>2. ASSUME NEW i \in 0 .. length - 1, input[i] = v PROVE FALSE
    <3>1. input[0] \in Int /\ input[length - 1] \in Int /\ input[0] <= v /\ v <= input[length - 1]
      BY <1>0, <1>1, <2>1, <2>2, ZenonT(30)
    <3> QED
      BY <1>1, <1>4, <3>1, SMTT(30)
  <2> QED
    BY <1>1, <1>3, <1>4, <2>2, ZenonT(30)
<1>5. CASE ~ (input[0] > v \/ input[length - 1] < v)
  <2>1. PICK b \in Passes(input, v, divisions, Whole(length, sub, left)) :
          at = FirstOf({i \in b.lower .. b.upper : input[i] = v})
    BY <1>3, <1>5, ZenonT(30)
  <2>2. b = Whole(length, sub, left) \/ b \in Narrowed(input, v, divisions, sub, left)
    BY <2>1, OnePass, ZenonT(30)
  <2>3. /\ \A k \in b.lower .. b.upper : k \in 0 .. length - 1
        /\ (\E i \in 0 .. length - 1 : input[i] = v) =>
             \E k \in b.lower .. b.upper : input[k] = v
    BY <2>2, BoundsHold, SMTT(30)
  <2>4. PICK S : S = {i \in b.lower .. b.upper : input[i] = v}
    BY Zenon
  <2>5. S \in SUBSET Nat
    <3>1. \A k \in 0 .. length - 1 : k \in Nat
      OBVIOUS
    <3> QED
      BY <2>3, <2>4, <3>1, ZenonT(30)
  <2>6. IF S = {} THEN at = -1 ELSE at \in S
    BY <2>1, <2>4, <2>5, FirstIsIn, ZenonT(30)
  <2> QED
    BY <1>1, <2>3, <2>4, <2>6, ZenonT(30)
<1> QED
  BY <1>4, <1>5, ZenonT(30)

\* The search as RunBinarySearchTest calls it: 512 elements, in 64 divisions.
THEOREM SearchAsRun == SearchFinds(512, 64, Nat)
<1>1. 512 = 64 * 8 /\ 512 \div 64 = 8 /\ 8 \div 64 <= 1 /\ Nat \in SUBSET Int
  OBVIOUS
<1> QED
  BY <1>1, SearchIsRight

-----------------------------------------------------------------------------
(* The processes *)

\* s gives the members of S in order.
Ascending(s, S) ==
  s \in [1 .. Cardinality(S) -> S] /\ \A i, j \in DOMAIN s : i < j => s[i] < s[j]

\* A finite set of numbers can be put in order: its least one first.
LEMMA AscendingExists ==
  ASSUME NEW S \in SUBSET Nat, IsFiniteSet(S)
  PROVE  \E s : Ascending(s, S)
<1>t. PICK T : T = {n \in Nat : \E U \in SUBSET Nat :
                      IsFiniteSet(U) /\ Cardinality(U) = n /\ ~ \E s : Ascending(s, U)}
  BY Zenon
<1>1. ASSUME T # {} PROVE FALSE
  <2>1. T \in SUBSET Nat
    BY <1>t, Zenon
  <2>2. PICK x \in T : \A y \in T : x <= y
    BY <1>1, <2>1, LeastNatural, ZenonT(30)
  <2>3. x \in Nat
    BY <1>t, <2>2, ZenonT(30)
  <2>u. PICK U \in SUBSET Nat : IsFiniteSet(U) /\ Cardinality(U) = x /\ ~ \E s : Ascending(s, U)
    BY <1>t, <2>2, Zenon
  <2>4. CASE U = {}
    <3>1. Cardinality(U) = 0
      BY <2>4, FS_EmptySet, ZenonT(30)
    <3>2. PICK s : s = [i \in 1 .. 0 |-> i]
      BY Zenon
    <3>3. 1 .. 0 = {}
      OBVIOUS
    <3>4. s \in [1 .. 0 -> U]
      BY <3>2, <3>3, Zenon
    <3>5. \A i, j \in DOMAIN s : i < j => s[i] < s[j]
      BY <3>2, <3>3, Zenon
    <3>6. Ascending(s, U)
      BY <3>1, <3>4, <3>5, ZenonT(30) DEF Ascending
    <3> QED
      BY <2>u, <3>6, Zenon
  <2>5. CASE U # {}
    <3>1. PICK m \in U : \A y \in U : m <= y
      BY <2>5, LeastNatural, Zenon
    <3>v. PICK V : V = U \ {m}
      BY Zenon
    <3>2. IsFiniteSet(V) /\ Cardinality(V) = x - 1 /\ V \in SUBSET Nat
      BY <2>u, <3>1, <3>v, FS_RemoveElement, ZenonT(30)
    <3>3. Cardinality(V) \in Nat
      BY <3>2, FS_CardinalityType, Zenon
    <3>4. x - 1 \in Nat /\ x - 1 \notin T
      BY <2>2, <2>3, <3>2, <3>3, SMTT(30)
    <3>s. PICK s : Ascending(s, V)
      BY <1>t, <3>2, <3>4, Zenon
    <3>5. s \in [1 .. x - 1 -> V] /\ \A i, j \in 1 .. x - 1 : i < j => s[i] < s[j]
      BY <3>2, <3>s, Zenon DEF Ascending
    <3>r. PICK r : r = [i \in 1 .. x |-> IF i = 1 THEN m ELSE s[i - 1]]
      BY Zenon
    <3>6. \A i \in 1 .. x : i # 1 => i - 1 \in 1 .. x - 1
      BY <2>3, SMTT(30)
    <3>7. r \in [1 .. x -> U]
      BY <3>1, <3>5, <3>6, <3>r, <3>v, ZenonT(30)
    <3>8. \A y \in V : m < y
      BY <2>u, <3>1, <3>v, SMTT(30)
    <3>9. ASSUME NEW i \in 1 .. x, NEW j \in 1 .. x, i < j PROVE r[i] < r[j]
      <4>1. j # 1 /\ j - 1 \in 1 .. x - 1
        BY <2>3, <3>9, SMTT(30)
      <4>2. r[j] = s[j - 1] /\ s[j - 1] \in V
        BY <3>5, <3>r, <4>1, Zenon
      <4>3. CASE i = 1
        BY <3>8, <3>r, <4>2, <4>3, ZenonT(30)
      <4>4. CASE i # 1
        <5>1. r[i] = s[i - 1] /\ i - 1 \in 1 .. x - 1
          BY <3>6, <3>r, <4>4, ZenonT(30)
        <5>2. i - 1 < j - 1
          BY <2>3, <3>9, SMTT(30)
        <5> QED
          BY <3>5, <4>1, <4>2, <5>1, <5>2, ZenonT(30)
      <4> QED
        BY <4>3, <4>4, ZenonT(30)
    <3>10. DOMAIN r = 1 .. x
      BY <3>r, Zenon
    <3>11. Ascending(r, U)
      BY <2>u, <3>7, <3>9, <3>10, ZenonT(30) DEF Ascending
    <3> QED
      BY <2>u, <3>11, Zenon
  <2> QED
    BY <2>4, <2>5, Zenon
<1>2. Cardinality(S) \in Nat
  BY FS_CardinalityType, Zenon
<1> QED
  BY <1>1, <1>2, <1>t, Zenon

\* InTurn gives them all.
LEMMA InTurnIs ==
  ASSUME NEW S \in SUBSET Nat, IsFiniteSet(S)
  PROVE  /\ InTurn(S) \in [1 .. Cardinality(S) -> S]
         /\ Range(InTurn(S)) = S
<1>s. PICK s : s = InTurn(S)
  BY Zenon
<1>n. PICK n : n = Cardinality(S)
  BY Zenon
<1>0. n \in Nat
  BY <1>n, FS_CardinalityType, Zenon
<1>1. s \in [1 .. n -> S] /\ \A i, j \in 1 .. n : i < j => s[i] < s[j]
  <2>1. \E r \in [1 .. Cardinality(S) -> S] : \A i, j \in DOMAIN r : i < j => r[i] < r[j]
    BY AscendingExists, Zenon DEF Ascending
  <2>2. s \in [1 .. Cardinality(S) -> S] /\ \A i, j \in DOMAIN s : i < j => s[i] < s[j]
    BY <1>s, <2>1, Zenon DEF InTurn
  <2> QED
    BY <1>n, <2>2, Zenon
<1>2. ASSUME NEW i \in 1 .. n, NEW j \in 1 .. n, s[i] = s[j] PROVE i = j
  <2>1. s[i] \in Nat
    BY <1>1, Zenon
  <2>2. i < j \/ j < i \/ i = j
    BY <1>0, SMTT(30)
  <2>3. ~ (s[i] < s[j]) /\ ~ (s[j] < s[i])
    BY <1>2, <2>1, SMTT(30)
  <2> QED
    BY <1>1, <2>2, <2>3, Zenon
<1>3. IsFiniteSet(1 .. n) /\ Cardinality(1 .. n) = n
  <2>1. IsFiniteSet(1 .. n) /\ Cardinality(1 .. n) = IF 1 > n THEN 0 ELSE n - 1 + 1
    BY <1>0, FS_Interval, SMTT(30)
  <2> QED
    BY <1>0, <2>1, SMTT(30)
<1>4. s \in Injection(1 .. n, S)
  BY <1>1, <1>2, Zenon DEF Injection, IsInjective
<1>5. s \in Surjection(1 .. n, S)
  BY <1>3, <1>4, <1>n, FS_Injection, ZenonT(30)
<1>6. \A y \in S : \E i \in 1 .. n : s[i] = y
  BY <1>5, Zenon DEF Surjection
<1>7. Range(s) = S
  BY <1>1, <1>6, Zenon DEF Range
<1> QED
  BY <1>1, <1>7, <1>n, <1>s, ZenonT(30)

\* The process test fails exactly for a group with an occupied GPU, and lists the
\* occupied GPUs, for every group and every set of processes that are on no more
\* GPUs than gpu_results has room for (check_smi_process_info).
THEOREM BusyGpusAreFound ==
  ASSUME NEW gpus, NEW someprocs, NEW D \in SUBSET Nat, IsFiniteSet(D),
         Cardinality(D) <= RDC_MAX_NUM_DEVICES,
         \A p \in someprocs : p.devices \in SUBSET D
  PROVE  BusyGpusFail(gpus, someprocs)
<1> SUFFICES ASSUME NEW procs \in SUBSET someprocs
             PROVE  LET r == check_smi_process_info(gpus, TRUE, procs)
                    IN  /\ r.status = FAIL <=> \E p \in procs : p.cu_occupancy > 0
                                                 /\ \E i \in DOMAIN gpus : gpus[i] \in p.devices
                        /\ r.status \in {PASS, FAIL}
                        /\ Range(r.per_gpu) = {g \in UNION {p.devices : p \in procs} :
                                                 \E p \in procs : g \in p.devices /\ p.cu_occupancy > 0}
  BY Zenon DEF BusyGpusFail
<1>b. PICK busy : busy = UNION {p.devices : p \in {q \in procs : Occupies(q)}}
  BY Zenon
<1>s. PICK s : s = InTurn(busy)
  BY Zenon
<1>k. PICK k : k = Min({Len(s), RDC_MAX_NUM_DEVICES})
  BY Zenon
<1>r. PICK r : r = check_smi_process_info(gpus, TRUE, procs)
  BY Zenon
<1>1. r = [status  |-> IF busy \cap Range(gpus) # {} THEN FAIL ELSE PASS,
           per_gpu |-> SubSeq(s, 1, k)]
  BY <1>b, <1>k, <1>r, <1>s, ZenonT(30) DEF check_smi_process_info
<1>2. r.status = (IF busy \cap Range(gpus) # {} THEN FAIL ELSE PASS) /\ r.per_gpu = SubSeq(s, 1, k)
  BY <1>1, Zenon
<1>3. \A g : g \in busy <=> \E p \in procs : g \in p.devices /\ p.cu_occupancy > 0
  BY <1>b, Zenon DEF Occupies
<1>4. busy = {g \in UNION {p.devices : p \in procs} :
               \E p \in procs : g \in p.devices /\ p.cu_occupancy > 0}
  BY <1>3, Zenon
<1>5. busy \in SUBSET D
  BY <1>3, Zenon
<1>6. IsFiniteSet(busy) /\ Cardinality(busy) <= Cardinality(D)
  BY <1>5, FS_Subset, Zenon
<1>7. s \in [1 .. Cardinality(busy) -> busy] /\ Range(s) = busy
  BY <1>5, <1>6, <1>s, InTurnIs, ZenonT(30)
<1>8. Range(SubSeq(s, 1, k)) = busy
  <2>1. PICK n : n = Cardinality(busy)
    BY Zenon
  <2>2. n \in Nat /\ n <= RDC_MAX_NUM_DEVICES
    <3>1. Cardinality(busy) \in Nat /\ Cardinality(D) \in Nat
      BY <1>6, FS_CardinalityType, Zenon
    <3> QED
      BY <1>6, <2>1, <3>1, SmiConstants, SMTT(30)
  <2>3. s \in [1 .. n -> busy]
    BY <1>7, <2>1, Zenon
  <2>4. s \in Seq(busy) /\ Len(s) = n
    BY <2>2, <2>3, SMTT(30)
  <2>5. k = n
    <3>1. \E x \in {n, RDC_MAX_NUM_DEVICES} : \A y \in {n, RDC_MAX_NUM_DEVICES} : x <= y
      BY <2>2, SmiConstants, SMTT(30)
    <3>2. k \in {n, RDC_MAX_NUM_DEVICES} /\ \A y \in {n, RDC_MAX_NUM_DEVICES} : k <= y
      BY <1>k, <2>4, <3>1, ZenonT(30) DEF Min
    <3> QED
      BY <2>2, <3>2, SmiConstants, SMTT(30)
  <2>6. SubSeq(s, 1, k) = s
    BY <2>2, <2>4, <2>5, SMTT(30)
  <2> QED
    BY <1>7, <2>6, ZenonT(30)
<1>9. busy \cap Range(gpus) # {} <=>
        \E p \in procs : p.cu_occupancy > 0 /\ \E i \in DOMAIN gpus : gpus[i] \in p.devices
  <2>1. \A g : g \in Range(gpus) <=> \E i \in DOMAIN gpus : gpus[i] = g
    BY Zenon DEF Range
  <2>2. busy \cap Range(gpus) # {} <=> \E g : g \in busy /\ g \in Range(gpus)
    BY Zenon
  <2>3. ASSUME NEW g, g \in busy, g \in Range(gpus)
        PROVE  \E p \in procs : p.cu_occupancy > 0 /\ \E i \in DOMAIN gpus : gpus[i] \in p.devices
    BY <1>3, <2>1, <2>3, ZenonT(60)
  <2>4. ASSUME NEW p \in procs, p.cu_occupancy > 0, NEW i \in DOMAIN gpus, gpus[i] \in p.devices
        PROVE  gpus[i] \in busy /\ gpus[i] \in Range(gpus)
    BY <1>3, <2>1, <2>4, Zenon
  <2> QED
    BY <2>2, <2>3, <2>4, Zenon
<1>10. PASS # FAIL
  BY DEF PASS, FAIL
<1> QED
  BY <1>2, <1>4, <1>8, <1>9, <1>10, <1>r, ZenonT(30)

-----------------------------------------------------------------------------
(* The levels *)

\* A temperature gets the level its limits give it, and a voltage is never failed,
\* for readings of any size (check_temperature_level, check_voltage_level).
THEOREM LevelsAreRight ==
  ASSUME NEW n \in Nat
  PROVE  LevelsRight(n)
<1>0. Readings(n) \in SUBSET Int
  BY DEF Readings, Unread
<1>1. ASSUME NEW t \in SomeTemps(n), Ordered(t)
      PROVE  check_temperature_level(t) = TempLevel(t)
  <2>1. /\ t.current \in Int /\ t.critical \in Int /\ t.emergency \in Int
        /\ t.max \in Int /\ t.min \in Int /\ t.crit_min \in Int
    BY <1>0, SMTT(30) DEF SomeTemps, Unread
  <2>2. CASE t.current = Unread
    BY <2>2, Zenon DEF check_temperature_level, TempLevel
  <2>3. CASE t.current # Unread
    <3>1. (\/ Over(t.current, t.critical)
           \/ t.emergency # Unread /\ t.current >= (IF t.critical = Unread THEN 0 ELSE t.critical)
           \/ Under(t.current, t.crit_min)) <=>
          (Over(t.current, t.critical) \/ Over(t.current, t.emergency) \/ Under(t.current, t.crit_min))
      BY <1>1, <2>1, SMTT(30) DEF Ordered, Over, Unread
    <3> QED
      BY <2>3, <3>1, ZenonT(20) DEF check_temperature_level, TempLevel
  <2> QED
    BY <2>2, <2>3, Zenon
<1>2. ASSUME NEW v \in SomeVolts(n)
      PROVE  check_voltage_level(v) =
               IF v.current # Unread /\ (Over(v.current, v.max) \/ Under(v.current, v.min))
               THEN WARN ELSE PASS
  BY Zenon DEF check_voltage_level, OfNullHandle, Over, Under
<1> QED
  BY <1>1, <1>2, Zenon DEF LevelsRight

\* The tests compute what they are for (TestsRight), whatever the machine.
THEOREM TestsAreRight == DiagSpec => []TestsRight
<1>1. LevelsRight(2)
  BY LevelsAreRight
<1>2. ASSUME NEW group
      PROVE  BusyGpusFail(group, [cu_occupancy : {0, 1}, devices : {{0}, {1}, {0, 1}, {}}])
  <2>1. IsFiniteSet(0 .. 1) /\ Cardinality(0 .. 1) = 2 /\ 0 .. 1 \in SUBSET Nat
    <3>1. IsFiniteSet(0 .. 1) /\ Cardinality(0 .. 1) = IF 0 > 1 THEN 0 ELSE 1 - 0 + 1
      <4>1. 0 \in Int /\ 1 \in Int
        OBVIOUS
      <4> QED
        BY <4>1, FS_Interval, Zenon
    <3> QED
      BY <3>1
  <2>2. \A p \in [cu_occupancy : {0, 1}, devices : {{0}, {1}, {0, 1}, {}}] :
          p.devices \in SUBSET (0 .. 1)
    BY SMTT(30)
  <2> QED
    BY <2>1, <2>2, SmiConstants, BusyGpusAreFound, ZenonT(30)
<1>3. SearchFinds(4, 2, 0 .. 3)
  <2>1. 4 = 2 * 2 /\ 4 \div 2 = 2 /\ 2 \div 2 <= 1 /\ 0 .. 3 \in SUBSET Int
    OBVIOUS
  <2> QED
    BY <2>1, SearchIsRight, SMTT(30)
<1>4. SearchFinds(6, 3, 0 .. 2)
  <2>1. 6 = 3 * 2 /\ 6 \div 3 = 2 /\ 2 \div 3 <= 1 /\ 0 .. 2 \in SUBSET Int
    OBVIOUS
  <2> QED
    BY <2>1, SearchIsRight, SMTT(30)
<1>5. TestsRight
  BY <1>1, <1>2, <1>3, <1>4, Zenon DEF TestsRight
<1> QED
  BY <1>5, PTL
=============================================================================
