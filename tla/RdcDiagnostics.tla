--------------------------- MODULE RdcDiagnostics ---------------------------
(***************************************************************************)
(* The diagnostics of rdcd, as the threads of the server run them: a call  *)
(* gets the diagnostic module, runs the tests its level names one after    *)
(* the other, and the two tests of librdc_rocr.so open the HSA runtime for *)
(* each GPU in turn.  Nothing serialises two calls: they share the pointer *)
(* to the module, the reference count of the runtime, the memory of a GPU  *)
(* and the global kernArgs of MemoryAccess.                                *)
(*                                                                         *)
(* machine is what the tests find, and does not change: init, hsa_init     *)
(* succeeds; healthy, the GPUs HSA answers for; works, the GPUs that run   *)
(* what they are given; large_bar, the GPUs whose memory the CPU may       *)
(* reach; hsaco, the GPUs a kernel is found for; pool, what a pool gives;  *)
(* loaded, librdc_rocr.so could be loaded; and what amd_smi_lib answers.   *)
(***************************************************************************)
EXTENDS RdcSmiDiagnostic, RdcRocrTests

CONSTANTS Callers,   \* threads that serve a diagnostic call each
          Gpus,      \* the GPUs of the machine
          Machines,  \* the machines to look at
          Requests   \* Callers -> the calls each may make: [gpus, tests]

NULL == "NULL"

\* A thread is none of the other things kernArgs and its allocation may hold.
ASSUME DiagConstants ==
  /\ Gpus \subseteq Nat /\ Machines # {}
  /\ IsFiniteSet(Callers) /\ Callers # {}
  /\ Callers \cap {NULL, "none", "raw", "leaked"} = {}
  /\ \A c \in Callers : \A r \in Requests[c] : r.gpus \in Seq(Gpus) /\ r.tests \in Seq(STRING)

VARIABLES machine,
          module_,   \* diagnostic_module_ has been built
          call,      \* Callers -> the state of its call
          hsa_refs,  \* hsa_init calls not yet shut down
          kernArgs,  \* whose allocation the global points to, or NULL
          args,      \* that allocation: none, raw, leaked, or whose buffers it names
          buffers,   \* the buffers of a call's memory test: none, blank, filled
          dead,      \* the process has died of memory that is not there
          alone,     \* a call's memory tests met no other (history)
          raced      \* the module was assigned while another call was at it (history)
vars == <<machine, module_, call, hsa_refs, kernArgs, args, buffers, dead, alone, raced>>
memory == <<kernArgs, args, buffers, dead, alone, raced>>

Untouched == -1   \* what the caller's response held before the call

-----------------------------------------------------------------------------
\* RdcDiagnosticModule::rdc_diagnostic_run: the tests of a level.
LevelTests(level) ==
  (IF level >= 1 THEN <<"COMPUTE_PROCESS", "NODE_TOPOLOGY", "GPU_PARAMETERS",
                        "COMPUTE_QUEUE", "SYS_MEM_CHECK">> ELSE <<>>)
    \o (IF level >= 2 THEN <<"RVS_TEST">> ELSE <<>>)

SmiTests == {"COMPUTE_PROCESS", "NODE_TOPOLOGY", "GPU_PARAMETERS"}
RocrTests == {"COMPUTE_QUEUE", "SYS_MEM_CHECK"}

\* testcases_to_module_: what the modules that were inserted answer for.  The
\* RVS module is not among them.
TestCases == SmiTests \cup (IF machine.loaded THEN RocrTests ELSE {})

\* RdcSmiLib::rdc_test_case_run.
SmiStatus(test, gpus) ==
  CASE test = "COMPUTE_PROCESS" ->
         check_smi_process_info(gpus, machine.listed, machine.procs).status
    [] test = "NODE_TOPOLOGY" -> check_smi_topo_info(gpus, machine.link).status
    [] test = "GPU_PARAMETERS" ->
         check_smi_param_info(gpus, machine.temps, machine.volts).status

-----------------------------------------------------------------------------
At(c, pc) == ~dead /\ call[c].pc = pc
Test(c) == call[c].tests[call[c].i]
Gpu(c) == call[c].gpus[call[c].g]
Goto(c, pc) == call' = [call EXCEPT ![c].pc = pc]

\* rdc_diagnostic_run and rdc_test_case_run of the handler.
Begin(c) ==
  /\ At(c, "idle")
  /\ \E r \in Requests[c] :
       call' = [call EXCEPT ![c] = [pc |-> "module", gpus |-> r.gpus, tests |-> r.tests,
                                    i |-> 1, g |-> 1, status |-> PASS, verdict |-> PASS,
                                    results |-> <<>>]]
  /\ UNCHANGED <<machine, module_, hsa_refs>> /\ UNCHANGED memory

\* A level below RDC_DIAG_LVL_SHORT has no test.
FirstTest(s) == IF s.tests = <<>> THEN "done" ELSE "test"

\* get_diagnostic_module: the look, the assignment of a thread that saw none, and
\* the copy that is returned.  There is no lock: an assignment frees the module
\* another thread may be assigning or copying.
GetModule(c) ==
  /\ At(c, "module")
  /\ Goto(c, IF module_ THEN "copy" ELSE "build")
  /\ UNCHANGED <<machine, module_, hsa_refs>> /\ UNCHANGED memory

BuildModule(c) ==
  /\ At(c, "build")
  /\ module_' = TRUE
  /\ Goto(c, "copy")
  /\ LET race == \E d \in Callers \ {c} : call[d].pc \in {"build", "copy"}
     IN  raced' = (raced \/ race) /\ dead' \in {FALSE, race}
  /\ UNCHANGED <<machine, hsa_refs, kernArgs, args, buffers, alone>>

CopyModule(c) ==
  /\ At(c, "copy")
  /\ Goto(c, FirstTest(call[c]))
  /\ UNCHANGED <<machine, module_, hsa_refs>> /\ UNCHANGED memory

\* Mutant: the last test of the level is not run.
AnsweredEarly(s, status) ==
  [s EXCEPT !.results = Append(@, status), !.i = @ + 1, !.g = 1, !.status = PASS,
            !.verdict = PASS, !.pc = IF s.i >= Len(s.tests) - 1 THEN "done" ELSE "test"]

\* The result of test i is in the response, and the next test follows.
Answered(s, status) ==
  [s EXCEPT !.results = Append(@, status), !.i = @ + 1, !.g = 1, !.status = PASS,
            !.verdict = PASS, !.pc = IF s.i = Len(s.tests) THEN "done" ELSE "test"]

\* A test of no module is skipped; one of amd_smi_lib is a function of the
\* machine; one of librdc_rocr.so refuses an empty group before it writes its
\* result, and is otherwise PASS until a GPU says otherwise.
RunTest(c) ==
  /\ At(c, "test")
  /\ LET test == Test(c)
         s    == call[c]
     IN  call' = [call EXCEPT ![c] =
           CASE test \notin TestCases -> Answered(s, SKIP)
             [] test \in SmiTests -> Answered(s, SmiStatus(test, s.gpus))
             [] test \in TestCases \ SmiTests /\ s.gpus = <<>> -> Answered(s, Untouched)
             [] OTHER -> [s EXCEPT !.status = PASS, !.g = 1,
                                   !.pc = IF test = "COMPUTE_QUEUE" THEN "open_queue"
                                          ELSE "open_alloc"]]
  /\ UNCHANGED <<machine, module_, hsa_refs>> /\ UNCHANGED memory

-----------------------------------------------------------------------------
\* The constructor of TestBase: hsa_init, or an exception.
Body(pc) == CASE pc = "open_queue" -> "queue"
              [] pc = "open_alloc" -> "alloc"
              [] pc = "open_access" -> "cpu_access"

Opening == {"open_queue", "open_alloc", "open_access"}

\* Mutant: a GPU's result replaces what the ones before it gave.
WithVerdictLast(s, v) == [s EXCEPT !.status = v]

\* The catch clauses: a skip or an error replaces the status, a pass leaves it.
WithVerdict(s, v) == [s EXCEPT !.status = IF v = PASS THEN @ ELSE v]

\* Mutant: the access test goes back to the first GPU.
AfterTestAgain(s, v) ==
  LET w     == WithVerdict(s, v)
      again == IF s.tests[s.i] = "COMPUTE_QUEUE" THEN "open_queue" ELSE "open_alloc"
  IN  IF s.pc \in {"open_alloc", "close_alloc"} THEN [w EXCEPT !.pc = "open_access"]
      ELSE IF s.g < Len(s.gpus) THEN [w EXCEPT !.pc = again, !.g = 1]
      ELSE Answered(w, w.status)

\* After the test object of pc, for the GPU of s: the access test follows the
\* allocation test, then comes the next GPU, and after the last the next test.
AfterTest(s, v) ==
  LET w     == WithVerdict(s, v)
      again == IF s.tests[s.i] = "COMPUTE_QUEUE" THEN "open_queue" ELSE "open_alloc"
  IN  IF s.pc \in {"open_alloc", "close_alloc"} THEN [w EXCEPT !.pc = "open_access"]
      ELSE IF s.g < Len(s.gpus) THEN [w EXCEPT !.pc = again, !.g = @ + 1]
      ELSE Answered(w, w.status)

SetUp(c) ==
  /\ ~dead /\ call[c].pc \in Opening
  /\ IF machine.init
     THEN /\ hsa_refs' = hsa_refs + 1
          /\ Goto(c, Body(call[c].pc))
     ELSE /\ call' = [call EXCEPT ![c] = AfterTest(@, FAIL)]
          /\ UNCHANGED hsa_refs
  /\ UNCHANGED <<machine, module_>> /\ UNCHANGED memory

\* A test ends, with or without an exception, and its object is destroyed.
Ends(c, v, closing) == call' = [call EXCEPT ![c].pc = closing, ![c].verdict = v]

\* hsa_shut_down: the last one takes all memory of the runtime with it.
ShutDown(n) == n - 1

Close(c) ==
  /\ ~dead /\ call[c].pc \in {"close_queue", "close_alloc", "close_access"}
  /\ hsa_refs' = ShutDown(hsa_refs)
  /\ call' = [call EXCEPT ![c] = AfterTest(@, @.verdict)]
  /\ IF hsa_refs' = 0
     THEN /\ args' = [d \in Callers |-> "none"]
          /\ buffers' = [d \in Callers |-> "none"]
          /\ kernArgs' = NULL
     ELSE UNCHANGED <<args, buffers, kernArgs>>
  /\ UNCHANGED <<machine, module_, dead, alone, raced>>

\* The calls to HSA that find the pools and fill the buffers of the queue test.
AllocateAndInitBuffers(g) == IF g \in machine.healthy THEN PASS ELSE FAIL

\* The file of the kernels for this kind of GPU is looked for in six places.
LoadKernelFromObjFile(g) == IF g \in machine.hsaco THEN PASS ELSE SKIP

\* ComputeQueueTest::RunBinarySearchTest.  Run does not look at what the search
\* found: a GPU whose signal comes passes.
QueueTest(c) ==
  /\ At(c, "queue")
  /\ Ends(c, IF AllocateAndInitBuffers(Gpu(c)) = PASS THEN LoadKernelFromObjFile(Gpu(c))
             ELSE FAIL, "close_queue")
  /\ UNCHANGED <<machine, module_, hsa_refs>> /\ UNCHANGED memory

\* Another call's allocation test holds memory of one of these GPUs.
Crowded(c, gpus) == \E d \in Callers \ {c} : call[d].pc = "alloc_free" /\ Gpu(d) \in gpus

\* What an allocation on this GPU may answer that gets the answer on an idle one.
MayAnswer(c, answer) ==
  {answer} \cup (IF answer = SUCCESS /\ Crowded(c, {Gpu(c)}) THEN {OUT_OF_RESOURCES} ELSE {})

\* c looks for memory of these GPUs.
Meets(c, gpus) == alone' = [alone EXCEPT ![c] = @ /\ ~Crowded(c, gpus)]

\* MemoryTest::MaxSingleAllocationTest, on the pool of a GPU.  over and half: what
\* TestAllocate answers for more than the pool and for half of it.  The negative
\* test wants the first refused, and returns every other answer.
AllocTest(c) ==
  /\ At(c, "alloc")
  /\ LET pool == machine.pool[Gpu(c)]
     IN  IF Gpu(c) \notin machine.healthy
         THEN Ends(c, FAIL, "close_alloc") /\ UNCHANGED alone
         ELSE IF ~pool.applicable
         THEN Ends(c, PASS, "close_alloc") /\ UNCHANGED alone
         ELSE /\ \E got \in MayAnswer(c, pool.over) :
                   CASE got = INVALID_ALLOCATION -> Goto(c, "alloc_half")
                     [] got = SUCCESS -> Goto(c, "alloc_free")
                     [] OTHER -> Ends(c, FAIL, "close_alloc")
              /\ Meets(c, {Gpu(c)})
  /\ UNCHANGED <<machine, module_, hsa_refs, kernArgs, args, buffers, dead, raced>>

\* The search from half of the pool: "err != SUCCESS || err != OUT_OF_RESOURCES" is
\* always true, so that the first turn returns what it got.
AllocHalf(c) ==
  /\ At(c, "alloc_half")
  /\ \E got \in MayAnswer(c, machine.pool[Gpu(c)].half) :
       IF got = SUCCESS THEN Goto(c, "alloc_free") ELSE Ends(c, FAIL, "close_alloc")
  /\ Meets(c, {Gpu(c)})
  /\ UNCHANGED <<machine, module_, hsa_refs, kernArgs, args, buffers, dead, raced>>

\* TestAllocate frees what it was given.
AllocFree(c) ==
  /\ At(c, "alloc_free")
  /\ Ends(c, PASS, "close_alloc")
  /\ UNCHANGED <<machine, module_, hsa_refs>> /\ UNCHANGED memory

-----------------------------------------------------------------------------
(***************************************************************************)
(* MemoryAccessTest.  CPUAccessToGPUMemoryTest asks every GPU of the       *)
(* machine, and only prints a value that does not come back.               *)
(***************************************************************************)
Accessing == {"set_args", "load", "dispatch", "compare", "free"}

\* It takes a little memory of every GPU that the CPU may reach.
CPUAccess(c) ==
  /\ At(c, "cpu_access")
  /\ \/ machine.healthy # Gpus /\ Ends(c, FAIL, "close_access")
     \/ /\ machine.healthy = Gpus
        /\ IF Gpu(c) \in machine.large_bar THEN Goto(c, "allocate")
           ELSE Ends(c, PASS, "close_access")
     \/ Crowded(c, machine.large_bar) /\ Ends(c, FAIL, "close_access")
  /\ Meets(c, machine.large_bar)
  /\ UNCHANGED <<machine, module_, hsa_refs, kernArgs, args, buffers, dead, raced>>

\* The host buffers and the kernel's arguments, which the global now points to,
\* and a small buffer of the GPU.  What still names the buffers of an earlier test
\* of c names memory that was freed, or that an exception left behind.
Allocate(c) ==
  /\ At(c, "allocate")
  /\ kernArgs' = c
  /\ args' = [d \in Callers |-> IF d = c THEN "raw"
                                ELSE IF args[d] # c THEN args[d]
                                ELSE IF buffers[c] = "none" THEN "raw" ELSE "leaked"]
  /\ buffers' = [buffers EXCEPT ![c] = "blank"]
  /\ LET others == {d \in Callers \ {c} : call[d].pc \in Accessing}
     IN  alone' = [d \in Callers |->
                     /\ alone[d] /\ d \notin others
                     /\ d = c => others = {} /\ ~Crowded(c, {Gpu(c)})]
  /\ \/ Goto(c, "set_args")
     \/ Crowded(c, {Gpu(c)}) /\ Ends(c, FAIL, "close_access")
  /\ UNCHANGED <<machine, module_, hsa_refs, dead, raced>>

\* kernArgs->a = ...: a store to an allocation that was freed is lost.
SetArgs(c) ==
  /\ At(c, "set_args")
  /\ args' = IF args[kernArgs] = "none" THEN args ELSE [args EXCEPT ![kernArgs] = c]
  /\ Goto(c, "load")
  /\ UNCHANGED <<machine, module_, hsa_refs, kernArgs, buffers, dead, alone, raced>>

\* LoadKernelFromObjFile; the exceptions leave what was allocated.
LoadKernel(c) ==
  /\ At(c, "load")
  /\ IF LoadKernelFromObjFile(Gpu(c)) = PASS THEN Goto(c, "dispatch")
     ELSE Ends(c, SKIP, "close_access")
  /\ UNCHANGED <<machine, module_, hsa_refs>> /\ UNCHANGED memory

\* The packet takes the global's address; the kernel writes to the buffers that
\* are named there, or to no memory at all.
Dispatch(c) ==
  /\ At(c, "dispatch")
  /\ LET o == args[kernArgs]
         there == o \in Callers /\ buffers[o] # "none"
     IN  /\ buffers' = IF there /\ Gpu(c) \in machine.works
                       THEN [buffers EXCEPT ![o] = "filled"] ELSE buffers
         /\ dead' = ~(there \/ o = "leaked")
  /\ Goto(c, "compare")
  /\ UNCHANGED <<machine, module_, hsa_refs, kernArgs, args, alone, raced>>

Compare(c) ==
  /\ At(c, "compare")
  /\ IF buffers[c] = "filled" THEN Goto(c, "free") ELSE Ends(c, FAIL, "close_access")
  /\ UNCHANGED <<machine, module_, hsa_refs>> /\ UNCHANGED memory

\* hsa_memory_free of what the global points to; of memory that was freed it
\* only answers an error, which is not looked at.
Free(c) ==
  /\ At(c, "free")
  /\ args' = [args EXCEPT ![kernArgs] = "none"]
  /\ buffers' = [buffers EXCEPT ![c] = "none"]
  /\ Ends(c, PASS, "close_access")
  /\ UNCHANGED <<machine, module_, hsa_refs, kernArgs, dead, alone, raced>>

-----------------------------------------------------------------------------
NoCall == [pc |-> "idle", gpus |-> <<>>, tests |-> <<>>, i |-> 1, g |-> 1,
           status |-> PASS, verdict |-> PASS, results |-> <<>>]

DiagInit ==
  /\ machine \in Machines
  /\ module_ = FALSE
  /\ call = [c \in Callers |-> NoCall]
  /\ hsa_refs = 0
  /\ kernArgs = NULL
  /\ args = [c \in Callers |-> "none"]
  /\ buffers = [c \in Callers |-> "none"]
  /\ dead = FALSE
  /\ alone = [c \in Callers |-> TRUE]
  /\ raced = FALSE

Step(c) ==
  \/ GetModule(c) \/ BuildModule(c) \/ CopyModule(c) \/ RunTest(c)
  \/ SetUp(c) \/ Close(c)
  \/ QueueTest(c) \/ AllocTest(c) \/ AllocHalf(c) \/ AllocFree(c)
  \/ CPUAccess(c) \/ Allocate(c) \/ SetArgs(c) \/ LoadKernel(c)
  \/ Dispatch(c) \/ Compare(c) \/ Free(c)

DiagNext == \E c \in Callers : Begin(c) \/ Step(c)

\* A thread that serves a call goes on; a signal the test waits for comes.
DiagSpec == DiagInit /\ [][DiagNext]_vars /\ \A c \in Callers : WF_vars(Step(c))

AtStart == \A c \in Callers : call[c].pc = "idle"

\* The tests compute what they are for.  Those of amd_smi_lib give a sensor the
\* level its limits say (check_temperature_level, check_voltage_level) and fail
\* exactly for a group with an occupied GPU (check_smi_process_info); the search of
\* ComputeQueueTest finds what is there, for a length that takes one pass over
\* segments of more than one element.
TestsRight ==
  AtStart =>
    /\ LevelsRight(2)
    /\ \A group \in {<<>>, <<0>>, <<1, 0>>} :
         BusyGpusFail(group, [cu_occupancy : {0, 1}, devices : {{0}, {1}, {0, 1}, {}}])
    /\ SearchFinds(4, 2, 0 .. 3) /\ SearchFinds(6, 3, 0 .. 2)

\* What each test object says of a GPU of machine m when nobody is in its way.  A
\* pool passes that refuses more than its size and gives half of it, and one that
\* gives more than its size; the access test asks for every GPU of the machine.
QueueSays(m, gpu) ==
  CASE ~m.init \/ gpu \notin m.healthy -> FAIL
    [] m.init /\ gpu \in m.healthy \ m.hsaco -> SKIP
    [] OTHER -> PASS

PoolSound(p) ==
  p.applicable => p.over = SUCCESS \/ (p.over = INVALID_ALLOCATION /\ p.half = SUCCESS)

AllocSays(m, gpu) ==
  IF m.init /\ gpu \in m.healthy /\ PoolSound(m.pool[gpu]) THEN PASS ELSE FAIL

AccessSays(m, gpu) ==
  CASE ~m.init \/ m.healthy # Gpus -> FAIL
    [] m.init /\ m.healthy = Gpus /\ gpu \in m.large_bar \ m.hsaco -> SKIP
    [] m.init /\ m.healthy = Gpus /\ gpu \in (m.large_bar \cap m.hsaco) \ m.works -> FAIL
    [] OTHER -> PASS

\* The second of the memory tests has the last word, unless it passes.
Says(m, test, gpu) ==
  IF test = "COMPUTE_QUEUE" THEN QueueSays(m, gpu)
  ELSE IF AccessSays(m, gpu) # PASS THEN AccessSays(m, gpu) ELSE AllocSays(m, gpu)

\* status is what the last of the first n GPUs says that does not pass.
SumOf(m, test, gpus, n, status) ==
  \/ status = PASS /\ \A x \in 1 .. n : Says(m, test, gpus[x]) = PASS
  \/ \E x \in 1 .. n :
       /\ status = Says(m, test, gpus[x]) /\ status # PASS
       /\ \A y \in 1 .. n : y > x => Says(m, test, gpus[y]) = PASS

\* A call whose memory tests met no other call's is told what the machine is like: a
\* rocr test is PASS if and only if every GPU of the group passes it, and otherwise
\* what the last GPU says that does not, a skip over an earlier failure included,
\* whatever other calls did to the runtime in between (rdc_diag_test_case_run,
\* run_memory_test, MemoryTest, MemoryAccessTest).  To meet is to ask for memory of
\* a GPU while another call's allocation test holds it, or to be at the access test
\* while another is.  And it takes two calls to bring the process down: two memory
\* tests through the global kernArgs, or a second assignment of the module.
ResponseTruthful ==
  /\ \A c \in Callers :
       call[c].pc = "done" /\ alone[c] /\ call[c].gpus # <<>> /\ machine.loaded =>
         \A i \in DOMAIN call[c].tests :
           call[c].tests[i] \in RocrTests =>
             SumOf(machine, call[c].tests[i], call[c].gpus, Len(call[c].gpus),
                   call[c].results[i])
  /\ dead => raced \/ \E c \in Callers : ~alone[c]

\* Every test of the level has its result when the call returns, and it was
\* written by the test: only the rocr tests of an empty group leave what the
\* caller's response held (rdc_diagnostic_run does not look at their status).
AnswersSet ==
  \A c \in Callers : call[c].pc = "done" =>
    /\ Len(call[c].results) = Len(call[c].tests)
    /\ \A i \in DOMAIN call[c].tests :
         call[c].results[i] = Untouched
           <=> call[c].gpus = <<>> /\ machine.loaded /\ call[c].tests[i] \in RocrTests

\* A diagnosis ends, with its response or with the process.
DiagEnds == \A c \in Callers : call[c].pc # "idle" ~> call[c].pc = "done" \/ dead
=============================================================================
