------------------------------ MODULE RdcDaemon ------------------------------
(***************************************************************************)
(* rdcd: how a daemon starts, serves and is shut down, and several daemons *)
(* on one machine.                                                         *)
(*                                                                         *)
(* In a daemon the main thread, the thread of ProcessSignalLoop, the two   *)
(* loops of RdcMetricsUpdaterImpl and the threads of gRPC run side by      *)
(* side.  A signal may come at any time.  Of gRPC it is used that Shutdown *)
(* takes no new calls, returns when those under way have returned, and     *)
(* only then lets Wait return.                                             *)
(***************************************************************************)
EXTENDS Integers, Sequences, FiniteSetsExt

CONSTANTS
  Daemons,                     \* processes of rdcd
  CmdLines,                    \* command lines each daemon may be started with
  MaxInFlight                  \* bound: calls in a daemon at a time

ASSUME DaemonConstants ==
  MaxInFlight \in Nat

VARIABLES
  proc,                        \* daemon -> its threads and objects
  lock,                        \* lock file -> the daemons that hold it
  ahead                        \* history: daemon -> those that held their lock
                               \* when it began to look
dvars == <<proc, lock, ahead>>

\* The lock file of a daemon, by the user it runs as.
LockFile == [root |-> "/var/run/rdcd.lock", other |-> "/tmp/rdcd.lock"]

Users == DOMAIN LockFile

Own(p) == LockFile[proc[p].user]

Loops == {"notif", "update"}

NewProc ==
  [user |-> "root", main |-> "off", sig |-> "none", exit |-> "no",
   args |-> <<>>, unauth |-> FALSE, pinned |-> FALSE, creds |-> "none",
   flag |-> FALSE,             \* sShutDownServer
   permitted |-> FALSE,        \* may CAP_DAC_OVERRIDE be turned on?
   cap |-> FALSE,              \* is it on in the threads that start now?
   workers |-> FALSE,          \* was it on when the other threads started?
   admin |-> FALSE, api |-> FALSE, \* rdc_admin_service_, api_service_
   server |-> "null", lib |-> FALSE, handler |-> "none",
   loops |-> {}, calls |-> 0, raised |-> 0]

DaemonInit ==
  /\ proc = [p \in Daemons |-> NewProc]
  /\ lock = [f \in {LockFile[u] : u \in Users} |-> {}]
  /\ ahead = [p \in Daemons |-> {}]

Alive(p) == proc[p].main # "off" /\ proc[p].exit = "no"

\* The process p is at u now, and nothing else changes.
Step(p, u) == proc' = [proc EXCEPT ![p] = u] /\ UNCHANGED <<lock, ahead>>

\* The process ends and the system takes back its lock and its threads.
Ends(p, code) ==
  /\ proc' = [proc EXCEPT ![p] =
       [NewProc EXCEPT !.main = "ended", !.exit = code, !.flag = proc[p].flag,
                       !.server = proc[p].server, !.api = proc[p].api]]
  /\ lock' = [f \in DOMAIN lock |-> lock[f] \ {p}]
  /\ UNCHANGED ahead

-----------------------------------------------------------------------------
(* Up to the lock *)

\* What an option makes of the command line: "no" when the next one is looked at.
OptionDone(opt) ==
  CASE opt = "--address bad" \/ opt = "--port bad" -> "error"
    [] opt = "--version" \/ opt = "--help" -> "exit"
    [] opt \in {"--unauth_comm", "--pinned_cert", "--address", "--port", "--debug"} -> "no"
    [] OTHER -> "unknown"

\* getopt_long.  Nothing after the first option that ends the loop is looked at.
GetOpts(args) ==
  LET ending == {i \in DOMAIN args : OptionDone(args[i]) # "no"}
      Given(opt) == \E i \in DOMAIN args : args[i] = opt /\ \A j \in ending : i < j
  IN  [done |-> IF ending = {} THEN "no" ELSE OptionDone(args[Min(ending)]),
       unauth |-> Given("--unauth_comm"), pinned |-> Given("--pinned_cert")]

\* ProcessCmdline; after an unknown option the daemon starts all the same, and
\* the check for options that do not go together is skipped.
ProcessCmdline(p, user, args) ==
  LET o == GetOpts(args)
  IN  /\ proc[p].main = "off"
      /\ \/ /\ o.done = "error" \/ (o.done = "no" /\ o.pinned /\ o.unauth)
            /\ Ends(p, "1")
         \/ /\ o.done = "exit"
            /\ Ends(p, "0")
         \/ /\ o.done = "unknown" \/ (o.done = "no" /\ ~(o.pinned /\ o.unauth))
            /\ \E permitted \in BOOLEAN :
                 Step(p, [NewProc EXCEPT !.main = "access", !.user = user, !.args = args,
                                         !.unauth = o.unauth, !.pinned = o.pinned,
                                         !.permitted = permitted, !.cap = permitted])

\* The certificates must be readable, unless there is no authentication.
CheckAccess(p) ==
  /\ proc[p].main = "access"
  /\ \/ /\ proc' = [proc EXCEPT ![p].main = "look_root"]
        /\ ahead' = [ahead EXCEPT ![p] = UNION {lock[f] : f \in DOMAIN lock}]
        /\ UNCHANGED lock
     \/ ~proc[p].unauth /\ Ends(p, "1")

\* FileIsLocked: is there a lock of another process on the file?
FileIsLocked(p, f) == lock[f] \ {p} # {}

\* ExitIfAlreadyRunning looks at both files, whichever user it runs as ...
LookRoot(p) ==
  /\ proc[p].main = "look_root"
  /\ IF FileIsLocked(p, LockFile.root) THEN Ends(p, "1")
     ELSE Step(p, [proc[p] EXCEPT !.main = "look_user"])

LookUser(p) ==
  /\ proc[p].main = "look_user"
  /\ IF FileIsLocked(p, LockFile.other) THEN Ends(p, "1")
     ELSE Step(p, [proc[p] EXCEPT !.main = "lock"])

\* Mutant: the result of lockf is not looked at.
LockfAlways(p) == TRUE

\* lockf(F_TLOCK): the lock is there for the taking.
Lockf(p) == lock[Own(p)] \ {p} = {}

\* ... and takes its own.  Then signals have their handlers.  The file of
\* another user cannot be opened.
Lock(p) ==
  /\ proc[p].main = "lock"
  /\ \/ Ends(p, "1")
     \/ ~Lockf(p) /\ Ends(p, "0")
     \/ /\ Lockf(p)
        /\ lock' = [lock EXCEPT ![Own(p)] = @ \cup {p}]
        /\ proc' = [proc EXCEPT ![p].main = "caps"]
        /\ UNCHANGED ahead

-----------------------------------------------------------------------------
(* Capabilities and the signal thread *)

\* CAP_DAC_OVERRIDE is turned off, as inheritable and as effective.
DropCapability(p) ==
  /\ proc[p].main = "caps"
  /\ \/ Ends(p, "1")
     \/ Step(p, [proc[p] EXCEPT !.main = "thread", !.cap = FALSE])

\* pthread_create(ProcessSignalLoop); a thread starts with the capabilities of
\* the one that makes it.
CreateThread(p) ==
  /\ proc[p].main = "thread"
  /\ \/ Ends(p, "1")
     \/ Step(p, [proc[p] EXCEPT !.main = "creds", !.sig = "poll", !.workers = @ \/ proc[p].cap])

-----------------------------------------------------------------------------
(* RDCServer::Run *)

\* Mutant: without good certificates the server goes on without.
CredsOrInsecure(p) ==
  /\ proc[p].main = "creds"
  /\ \E good \in BOOLEAN :
       Step(p, [proc[p] EXCEPT !.main = "services",
                               !.creds = IF good /\ ~proc[p].unauth THEN "tls" ELSE "insecure"])

\* ConstructSSLOptsPin or ConstructSSLOptsPKI reads three files, which may fail.
Creds(p) ==
  /\ proc[p].main = "creds"
  /\ \/ /\ proc[p].unauth
        /\ Step(p, [proc[p] EXCEPT !.main = "services", !.creds = "insecure"])
     \/ /\ ~proc[p].unauth
        /\ \/ Step(p, [proc[p] EXCEPT !.main = "services", !.creds = "tls"])
           \/ Step(p, [proc[p] EXCEPT !.main = "returning"])

\* The two services are made and registered.
RegisterServices(p) ==
  /\ proc[p].main = "services"
  /\ Step(p, [proc[p] EXCEPT !.main = "load", !.admin = TRUE, !.api = TRUE])

\* rdc_start_embedded loads librdc.so, which may not be there ...
LoadLibrary(p) ==
  /\ proc[p].main = "load"
  /\ \/ Step(p, [proc[p] EXCEPT !.main = "returning"])
     \/ Step(p, [proc[p] EXCEPT !.main = "init", !.lib = TRUE])

\* ... initializes SMI when it is loaded, or throws ...
InitializeSmi(p) ==
  /\ proc[p].main = "init"
  /\ \/ Ends(p, "crash")
     \/ Step(p, [proc[p] EXCEPT !.main = "make"])

\* ... and may have no make_handler.  The handler starts its updater.
MakeHandler(p) ==
  /\ proc[p].main = "make"
  /\ \/ Step(p, [proc[p] EXCEPT !.main = "returning"])
     \/ Step(p, [proc[p] EXCEPT !.main = "build", !.handler = "live", !.loops = Loops])

\* BuildAndStart gives no server when the port is taken, and Wait is called on
\* what it gave.
BuildAndStart(p) ==
  /\ proc[p].main = "build"
  /\ \/ Ends(p, "crash")
     \/ Step(p, [proc[p] EXCEPT !.main = "wait", !.server = "serving"])

Wait(p) ==
  /\ proc[p].main = "wait" /\ proc[p].server = "down"
  /\ Step(p, [proc[p] EXCEPT !.main = "returning"])

\* main returns: the loader is a static object and unloads the library.
StaticDestructors(p) ==
  /\ proc[p].main = "returning"
  /\ Step(p, [proc[p] EXCEPT !.main = "exiting", !.lib = FALSE])

Exit(p) ==
  /\ proc[p].main = "exiting"
  /\ Ends(p, IF proc[p].flag THEN "0" ELSE "1")

MainStep(p) ==
  /\ Alive(p)
  /\ \/ CheckAccess(p) \/ LookRoot(p) \/ LookUser(p) \/ Lock(p)
     \/ DropCapability(p) \/ CreateThread(p)
     \/ Creds(p) \/ RegisterServices(p) \/ LoadLibrary(p) \/ InitializeSmi(p)
     \/ MakeHandler(p) \/ BuildAndStart(p) \/ Wait(p) \/ StaticDestructors(p) \/ Exit(p)

-----------------------------------------------------------------------------
(* ProcessSignalLoop and RDCServer::ShutDown *)

\* A signal kills the process until it has handlers; then it sets a flag.
HandleSignal(p) ==
  /\ Alive(p)
  /\ IF proc[p].main \in {"access", "look_root", "look_user", "lock"}
     THEN Ends(p, "killed")
     ELSE ~proc[p].flag /\ Step(p, [proc[p] EXCEPT !.flag = TRUE])

\* Mutant: a signal that finds no server is dropped.
ShutdownIfServer(p) ==
  /\ proc[p].sig = "poll" /\ proc[p].flag
  /\ IF proc[p].server = "null" THEN Step(p, [proc[p] EXCEPT !.sig = "ended"])
     ELSE Step(p, [proc[p] EXCEPT !.sig = "drain", !.server = "stopping"])

\* server_->Shutdown(), on a null pointer when the server is not built yet.
ShutdownServer(p) ==
  /\ proc[p].sig = "poll" /\ proc[p].flag
  /\ IF proc[p].server = "null" THEN Ends(p, "crash")
     ELSE Step(p, [proc[p] EXCEPT !.sig = "drain", !.server = "stopping"])

\* Mutant: Shutdown does not wait.
DrainedAlways(p) == TRUE

Drained(p) == proc[p].calls = 0

ShutdownReturns(p) ==
  /\ proc[p].sig = "drain" /\ Drained(p)
  /\ Step(p, [proc[p] EXCEPT !.sig = "admin", !.server = "down"])

DeleteAdmin(p) ==
  /\ proc[p].sig = "admin"
  /\ Step(p, [proc[p] EXCEPT !.sig = "api", !.admin = FALSE])

\* ~RdcAPIServiceImpl calls rdc_stop_embedded: the updater is told to stop ...
StopUpdater(p) ==
  /\ proc[p].sig = "api"
  /\ Step(p, [proc[p] EXCEPT !.sig = "join", !.handler = "stopping"])

Joined(p) == proc[p].loops = {}

\* ... and its futures wait for the loops; the handler is gone.
JoinLoops(p) ==
  /\ proc[p].sig = "join" /\ Joined(p)
  /\ Step(p, [proc[p] EXCEPT !.sig = "unload", !.handler = "gone"])

\* rdc_shutdown unloads the library.
RdcShutdown(p) ==
  /\ proc[p].sig = "unload"
  /\ Step(p, [proc[p] EXCEPT !.sig = "ended", !.lib = FALSE, !.api = FALSE])

SignalStep(p) ==
  /\ Alive(p)
  /\ \/ ShutdownServer(p) \/ ShutdownReturns(p) \/ DeleteAdmin(p) \/ StopUpdater(p)
     \/ JoinLoops(p) \/ RdcShutdown(p)

-----------------------------------------------------------------------------
(* The loops and the calls *)

\* A loop ends after the pass in which it finds started_ false.
LoopEnds(p, l) ==
  /\ Alive(p) /\ l \in proc[p].loops /\ proc[p].handler = "stopping"
  /\ Step(p, [proc[p] EXCEPT !.loops = @ \ {l}])

CallArrives(p) ==
  /\ Alive(p) /\ proc[p].server = "serving" /\ proc[p].calls < MaxInFlight
  /\ Step(p, [proc[p] EXCEPT !.calls = @ + 1])

\* ScopedCapability: a call turns the capability on in its own thread ...
CallRaises(p) ==
  /\ Alive(p) /\ proc[p].permitted /\ proc[p].raised < proc[p].calls
  /\ Step(p, [proc[p] EXCEPT !.raised = @ + 1])

\* ... and its destructor turns it off.
CallLowers(p) ==
  /\ Alive(p) /\ proc[p].raised > 0
  /\ Step(p, [proc[p] EXCEPT !.raised = @ - 1])

CallReturns(p) ==
  /\ Alive(p) /\ proc[p].raised < proc[p].calls
  /\ Step(p, [proc[p] EXCEPT !.calls = @ - 1])

\* Code of a library that is no longer there is run.
RunsUnloaded(p) ==
  /\ Alive(p) /\ ~proc[p].lib
  /\ proc[p].loops # {} \/ proc[p].sig \in {"api", "join"}
  /\ Ends(p, "crash")

DaemonNext ==
  \E p \in Daemons :
    \/ \E user \in Users, args \in CmdLines[p] : ProcessCmdline(p, user, args)
    \/ MainStep(p) \/ HandleSignal(p) \/ SignalStep(p)
    \/ \E l \in Loops : LoopEnds(p, l)
    \/ CallArrives(p) \/ CallRaises(p) \/ CallLowers(p) \/ CallReturns(p)
    \/ RunsUnloaded(p)

\* The threads run and no call takes for ever, though it may turn the capability
\* on and off several times.
DaemonFairness ==
  \A p \in Daemons :
    /\ WF_dvars(MainStep(p)) /\ WF_dvars(SignalStep(p))
    /\ WF_dvars(CallLowers(p)) /\ SF_dvars(CallReturns(p))
    /\ \A l \in Loops : WF_dvars(LoopEnds(p, l))

DaemonSpec == DaemonInit /\ [][DaemonNext]_dvars /\ DaemonFairness

-----------------------------------------------------------------------------
(* Properties *)

Running(p) == p \in lock[Own(p)]

\* ExitIfAlreadyRunning: no two daemons of one user run, and a daemon that is
\* started while another runs, as whichever user, does not.  (A daemon of root
\* and one of another user that start together may both run.)
OneDaemon ==
  \A p, q \in Daemons :
    (p # q /\ Running(p) /\ Running(q)) => /\ proc[p].user # proc[q].user
                                         /\ q \notin ahead[p]

\* What is in use is still there, also while the daemon is being shut down: a
\* call under way finds its service, the handler and the code of the library, and
\* the loops of the updater end before the handler whose tables they use
\* (RDCServer::ShutDown, rdc_stop_embedded).
InUseIsThere ==
  \A p \in Daemons :
    /\ proc[p].calls > 0 => proc[p].api /\ proc[p].handler = "live" /\ proc[p].lib
    /\ proc[p].loops # {} => proc[p].handler \in {"live", "stopping"}

\* Connections without authentication are taken only when --unauth_comm was
\* given, whatever else was and whichever certificate is missing; and "Don't allow
\* rwx access to all files": from the first thread on, no thread of a daemon starts
\* with CAP_DAC_OVERRIDE on, which a call has inside a ScopedCapability only.
NoMoreThanAllowed ==
  \A p \in Daemons :
    /\ proc[p].creds = "insecure" =>
         \E i \in DOMAIN proc[p].args : proc[p].args[i] = "--unauth_comm"
    /\ proc[p].sig # "none" => ~proc[p].workers /\ ~proc[p].cap

\* A daemon that was sent a signal ends.
SignalEnds == \A p \in Daemons : proc[p].flag ~> (proc[p].exit # "no")
=============================================================================
