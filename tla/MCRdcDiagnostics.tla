-------------------------- MODULE MCRdcDiagnostics --------------------------
\* Instances of RdcDiagnostics: two threads, two GPUs, and the machines that
\* make the tests differ.
EXTENDS RdcDiagnostics

MCGpus == {0, 1}

Sound == [init |-> TRUE, healthy |-> {0, 1}, works |-> {0, 1}, large_bar |-> {0, 1},
          hsaco |-> {0, 1}, loaded |-> TRUE,
          pool |-> [g \in {0, 1} |-> [applicable |-> TRUE, over |-> INVALID_ALLOCATION,
                                      half |-> SUCCESS]],
          listed |-> TRUE, procs |-> {}, link |-> {<<0, 0>>, <<1, 1>>},
          temps |-> [g \in {0, 1} |-> {}], volts |-> [g \in {0, 1} |-> {}]]

Hot == [current |-> 2, max |-> 1, min |-> Unread, critical |-> 2, emergency |-> 3,
        crit_min |-> Unread]

MCMachines ==
  {Sound,
   [Sound EXCEPT !.works = {1}, !.temps[0] = {Hot}, !.procs = {[cu_occupancy |-> 1, devices |-> {1}]}],
   [Sound EXCEPT !.large_bar = {1}, !.pool[0].half = OUT_OF_RESOURCES, !.link = {}],
   [Sound EXCEPT !.healthy = {1}, !.pool[1].applicable = FALSE],
   [Sound EXCEPT !.hsaco = {0}, !.works = {1}, !.pool[1].over = OUT_OF_RESOURCES],
   [Sound EXCEPT !.init = FALSE, !.listed = FALSE],
   [Sound EXCEPT !.loaded = FALSE]}

Of(group, tests) == [gpus |-> group, tests |-> tests]
MCRequests ==
  [c \in {"c1", "c2"} |->
     IF c = "c1"
     THEN {Of(<<0, 1>>, LevelTests(1)), Of(<<>>, LevelTests(2)), Of(<<1>>, <<"RVS_TEST">>),
           Of(<<1>>, LevelTests(0))}
     ELSE {Of(<<1, 0>>, LevelTests(1)), Of(<<0, 1>>, <<"SYS_MEM_CHECK">>),
           Of(<<0>>, <<"COMPUTE_QUEUE">>)}]
=============================================================================
