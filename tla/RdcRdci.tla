------------------------------ MODULE RdcRdci -------------------------------
(***************************************************************************)
(* The command line tool rdci (rdci.cc and its subsystems) run by several  *)
(* users at once.  A user runs one command after the other; every API call *)
(* of a command is one step, so the calls of the others come in between.   *)
(* The registry of groups is RdcGroupSettings behind the daemon; of the    *)
(* watch table only the pairs and is_watching are kept, and of the event   *)
(* notifications the GPUs listened on (the calls to amd-smi succeed here;  *)
(* RdcNotification has their failures).  What is printed is left out.      *)
(* Notification samples are filed under the bdf id of the GPU and          *)
(* collect_new_notifs asks by GPU index: it gets NOT_FOUND, and hence has  *)
(* no effect here.                                                         *)
(***************************************************************************)
EXTENDS RdcGroupSettings, RdciOptions, FiniteSetsExt

CONSTANTS
  Users,
  Commands,                    \* user -> the command lines they may run
  MaxCommands                  \* user -> bound on how many they run

\* What main of rdci dispatches on.
SubSystems == {"dmon", "group", "fieldgroup", "stats", "diag", "discovery"}

ASSUME RdciConstants ==
  \A u \in Users :
    /\ MaxCommands[u] \in Nat
    /\ \A c \in Commands[u] : c.sub \in SubSystems

VARIABLES
  watching,                    \* pairs with watch_table_[..].is_watching
  ended,                       \* pairs whose entry may still be there, not watching
  listening,                   \* GPUs whose events the daemon listens for
  lost,                        \* of these, the ones no unwatch will stop any more
  proc                         \* user -> their rdci process

wvars == <<watching, ended, listening, lost>>
tvars == <<gvars, wvars, proc>>

\* rdci between two commands.
NoProcess == [ran |-> 0, sub |-> "none", cmd |-> NotGiven, at |-> "shell",
              todo |-> <<>>, ids |-> {}, made |-> None, group |-> None,
              fgroup |-> None, reg |-> FALSE, cleanup |-> FALSE, turns |-> 0,
              term |-> FALSE, alone |-> TRUE, code |-> "OK"]

Cmd(u) == proc[u].cmd
At(u, place) == proc[u].at = place

\* The process of u goes on as p.
Becomes(u, p) == proc' = [proc EXCEPT ![u] = p]

Goto(u, place) == Becomes(u, [proc[u] EXCEPT !.at = place])

\* The destructor of the subsystem runs clean_up of dmon; then main returns.
ThrowPlace(u) == IF proc[u].cleanup THEN "unwatch" ELSE "exit"

\* An RdcException: main returns its error code.
Throw(u, status) == Becomes(u, [proc[u] EXCEPT !.at = ThrowPlace(u), !.code = status])

\* A user starts rdci: the subsystem, whose constructor calls rdc_init, and
\* its options.
RdciStart(u) ==
  /\ proc[u].at \in {"shell", "exit"}
  /\ proc[u].ran < MaxCommands[u]
  /\ \E c \in Commands[u] :
       LET p == parse_cmd_opts(c.sub, c.opts)
       IN  Becomes(u, [NoProcess EXCEPT
             !.ran = proc[u].ran + 1, !.sub = c.sub, !.cmd = p,
             !.at = IF p.verdict = "throw" THEN "exit" ELSE "connect",
             !.code = IF p.verdict = "throw" THEN "BAD_PARAMETER" ELSE "OK"])
  /\ UNCHANGED <<gvars, wvars>>

\* connect: fails when a certificate cannot be read or the client library
\* cannot be loaded.  The connection itself is only made by the first call.
Connect(u) ==
  /\ At(u, "connect")
  /\ \/ Goto(u, proc[u].sub)
     \/ Throw(u, "BAD_PARAMETER")
  /\ UNCHANGED <<gvars, wvars>>

-----------------------------------------------------------------------------
(* What the subsystems share *)

\* The GPUs on which the watch of pair p is about events: none once a group of
\* p is gone.
EventGpus(p) ==
  {gpu \in GPUs :
    /\ HasFields(p[1], p[2]) /\ gpu \in gpu_group_[p[1]]
    /\ \E f \in field_group_[p[2]] : is_notification_event(f)}

\* A group is destroyed: watch_table_ and the mask of its GPUs stay as they are,
\* and the unwatch to come will not find the GPUs.
Orphaned ==
  /\ lost' = lost \cup (listening \cap UNION {EventGpus(p) \ EventGpus(p)' : p \in watching})
  /\ UNCHANGED <<watching, ended, listening>>

\* u is about to run operation op of subsystem sub.
Runs(u, sub, op) == At(u, sub) /\ Cmd(u).op = op

Exit(u) == Goto(u, "exit")

CanCreate == Cardinality(DOMAIN gpu_group_) < RDC_MAX_NUM_GROUPS

CanAdd(g, gpu) ==
  /\ gpu \in GPUs
  /\ g \in DOMAIN gpu_group_
  /\ gpu \notin gpu_group_[g]
  /\ Cardinality(gpu_group_[g]) < RDC_GROUP_MAX_ENTITIES

CanCreateFields(fields) ==
  /\ Range(fields) \subseteq Fields
  /\ Cardinality(DOMAIN field_group_) < RDC_MAX_NUM_FIELD_GROUPS

\* rdc_group_gpu_create of an empty group; from then on there may be something
\* to clean up.
MakeGroup(u, cleanup) ==
  /\ \/ /\ CanCreate
        /\ GroupGpuCreate
        /\ Becomes(u, [proc[u] EXCEPT !.at = "add", !.made = cur_group_id_,
                                      !.todo = Cmd(u).gpus, !.cleanup = cleanup])
     \/ ~CanCreate /\ Throw(u, "MAX_LIMIT") /\ UNCHANGED gvars
  /\ UNCHANGED wvars

\* rdc_group_field_create, then on as p.
MakeFieldGroup(u, p) ==
  /\ \/ /\ CanCreateFields(Cmd(u).fields)
        /\ GroupFieldCreate(Range(Cmd(u).fields))
        /\ Becomes(u, p)
     \/ /\ ~CanCreateFields(Cmd(u).fields)
        /\ Throw(u, "BAD_PARAMETER")
        /\ UNCHANGED gvars
  /\ UNCHANGED wvars

\* -h of every subsystem, and -l of dmon: only text is printed, though the
\* connection was set up.
ShowHelp(u) ==
  /\ \E sub \in SubSystems :
       Runs(u, sub, "help") \/ (sub = "dmon" /\ Runs(u, sub, "list"))
  /\ Exit(u)
  /\ UNCHANGED <<gvars, wvars>>

\* stats: one call, answered by the daemon.  The object does not initialise
\* stats_ops_: with no operation on the command line any of them may run.
Stats(u) ==
  /\ At(u, "stats") /\ Cmd(u).op # "help"
  /\ Exit(u) \/ Throw(u, "ERROR")
  /\ UNCHANGED <<gvars, wvars>>

Diag(u) ==
  /\ Runs(u, "diag", "run")
  /\ Exit(u) \/ Throw(u, "ERROR")
  /\ UNCHANGED <<gvars, wvars>>

\* show_attributes reports a failure of its first call only.
DiscoveryList(u) ==
  /\ Runs(u, "discovery", "list")
  /\ Exit(u) \/ Throw(u, "ERROR")
  /\ UNCHANGED <<gvars, wvars>>

\* show_version reports none.
DiscoveryVersion(u) ==
  /\ Runs(u, "discovery", "version")
  /\ Exit(u)
  /\ UNCHANGED <<gvars, wvars>>

-----------------------------------------------------------------------------
(* rdci group *)

GroupCreate(u) == Runs(u, "group", "create") /\ MakeGroup(u, FALSE)

GroupAdd(u) ==
  /\ Runs(u, "group", "add")
  /\ IF Cmd(u).group = None THEN Throw(u, "BAD_PARAMETER")
     ELSE Becomes(u, [proc[u] EXCEPT !.at = "add", !.todo = Cmd(u).gpus])
  /\ UNCHANGED <<gvars, wvars>>

\* One turn of the loops over the GPU indexes, here and in dmon.
AddGpu(u) ==
  LET g == IF proc[u].made # None THEN proc[u].made ELSE Cmd(u).group
  IN  /\ At(u, "add") /\ proc[u].todo # <<>>
      /\ \/ /\ CanAdd(g, Head(proc[u].todo))
            /\ GroupGpuAdd(g, Head(proc[u].todo))
            /\ Becomes(u, [proc[u] EXCEPT !.todo = Tail(proc[u].todo)])
         \/ /\ ~CanAdd(g, Head(proc[u].todo))
            /\ Throw(u, "BAD_PARAMETER")
            /\ UNCHANGED gvars
      /\ UNCHANGED wvars

GroupAdded(u) ==
  /\ At(u, "add") /\ proc[u].todo = <<>> /\ proc[u].sub = "group"
  /\ Exit(u)
  /\ UNCHANGED <<gvars, wvars>>

GroupDelete(u) ==
  /\ Runs(u, "group", "delete")
  /\ \/ GroupGpuDestroy(Cmd(u).group) /\ Exit(u)
     \/ /\ Cmd(u).group \notin DOMAIN gpu_group_
        /\ Throw(u, "NOT_FOUND")
        /\ UNCHANGED gvars
  /\ Orphaned

\* The loop of list over the ids, in ascending order and with one call for
\* each: the one that is not known ends it.
ListTurn(u, known) ==
  IF proc[u].ids = {} THEN Exit(u)
  ELSE IF Min(proc[u].ids) \notin known THEN Throw(u, "BAD_PARAMETER")
  ELSE Becomes(u, [proc[u] EXCEPT !.ids = @ \ {Min(@)}])

\* list, first call: the ids.  The client library refuses a reply with as
\* many ids as there may be.
ListIds(u, ids, limit) ==
  IF Cardinality(ids) >= limit THEN Throw(u, "MAX_LIMIT")
  ELSE Becomes(u, [proc[u] EXCEPT !.at = "list", !.ids = ids])

GroupList(u) ==
  /\ \/ Runs(u, "group", "list") /\ ListIds(u, DOMAIN gpu_group_, RDC_MAX_NUM_GROUPS)
     \/ At(u, "list") /\ proc[u].sub = "group" /\ ListTurn(u, DOMAIN gpu_group_)
  /\ UNCHANGED <<gvars, wvars>>

\* info of group and of fieldgroup.
ShowInfo(u, known) ==
  IF Cmd(u).group = None THEN Throw(u, "BAD_PARAMETER")
  ELSE IF Cmd(u).group \notin known THEN Throw(u, "NOT_FOUND")
  ELSE Exit(u)

GroupInfo(u) ==
  /\ Runs(u, "group", "info")
  /\ ShowInfo(u, DOMAIN gpu_group_)
  /\ UNCHANGED <<gvars, wvars>>

-----------------------------------------------------------------------------
(* rdci fieldgroup *)

FieldGroupCreate(u) ==
  /\ Runs(u, "fieldgroup", "create")
  /\ MakeFieldGroup(u, [proc[u] EXCEPT !.at = "exit"])

FieldGroupDelete(u) ==
  /\ Runs(u, "fieldgroup", "delete")
  /\ \/ GroupFieldDestroy(Cmd(u).group) /\ Exit(u)
     \/ /\ Cmd(u).group \notin DOMAIN field_group_ \ {JOB_FIELD_ID}
        /\ Throw(u, "NOT_FOUND")
        /\ UNCHANGED gvars
  /\ Orphaned

\* The reserved field group of the jobs is not listed.
FieldGroupList(u) ==
  /\ \/ /\ Runs(u, "fieldgroup", "list")
        /\ ListIds(u, DOMAIN field_group_ \ {JOB_FIELD_ID}, RDC_MAX_NUM_FIELD_GROUPS)
     \/ At(u, "list") /\ proc[u].sub = "fieldgroup" /\ ListTurn(u, DOMAIN field_group_)
  /\ UNCHANGED <<gvars, wvars>>

FieldGroupInfo(u) ==
  /\ Runs(u, "fieldgroup", "info")
  /\ ShowInfo(u, DOMAIN field_group_)
  /\ UNCHANGED <<gvars, wvars>>

-----------------------------------------------------------------------------
(* rdci dmon *)

\* create_temp_group.
DmonMakeGroup(u) ==
  Runs(u, "dmon", "monitor") /\ Cmd(u).gpus # <<>> /\ MakeGroup(u, TRUE)

\* Its loop is over; only now is OPTIONS_GROUP_ID set.
DmonGroupMade(u) ==
  /\ At(u, "add") /\ proc[u].todo = <<>> /\ proc[u].sub = "dmon"
  /\ Becomes(u, [proc[u] EXCEPT !.at = "temp_fields", !.group = proc[u].made])
  /\ UNCHANGED <<gvars, wvars>>

\* create_temp_field_group.
DmonMakeFieldGroup(u) ==
  /\ At(u, "temp_fields") /\ Cmd(u).fields # <<>>
  /\ MakeFieldGroup(u, [proc[u] EXCEPT !.at = "info", !.fgroup = cur_field_group_id_,
                                       !.cleanup = TRUE])

\* A group or a field group given by its id is used as it is.
DmonGivenGroup(u) ==
  /\ \/ Runs(u, "dmon", "monitor") /\ Cmd(u).gpus = <<>>
        /\ Becomes(u, [proc[u] EXCEPT !.at = "temp_fields", !.group = Cmd(u).group])
     \/ At(u, "temp_fields") /\ Cmd(u).fields = <<>>
        /\ Becomes(u, [proc[u] EXCEPT !.at = "info", !.fgroup = Cmd(u).fgroup])
  /\ UNCHANGED <<gvars, wvars>>

\* rdc_group_gpu_get_info and rdc_group_field_get_info: what they return is
\* used until the end.
DmonGroupInfo(u) ==
  /\ At(u, "info")
  /\ IF proc[u].group \notin DOMAIN gpu_group_ THEN Throw(u, "NOT_FOUND")
     ELSE IF gpu_group_[proc[u].group] = {} THEN Throw(u, "NOT_FOUND")
     ELSE Goto(u, "field_info")
  /\ UNCHANGED <<gvars, wvars>>

DmonFieldInfo(u) ==
  /\ At(u, "field_info")
  /\ IF proc[u].fgroup \notin DOMAIN field_group_ THEN Throw(u, "NOT_FOUND")
     ELSE IF field_group_[proc[u].fgroup] = {} THEN Throw(u, "NOT_FOUND")
     ELSE Becomes(u, [proc[u] EXCEPT !.at = "watch",
            !.reg = \E f \in field_group_[proc[u].fgroup] : ~is_notification_event(f)])
  /\ UNCHANGED <<gvars, wvars>>

Pair(u) == <<proc[u].group, proc[u].fgroup>>

Alone(u) ==
  /\ Pair(u) \notin watching
  /\ \A v \in Users \ {u} : proc[v].at \in {"turn", "unwatch"} => Pair(v) # Pair(u)

\* rdc_field_watch: RDC_ST_CONFLICT when the pair is watched already; an entry
\* that is not watching is erased, also when RDC_ST_NOT_FOUND follows because
\* a group is gone.
FieldWatch(p) ==
  \/ p \in watching /\ UNCHANGED wvars
  \/ /\ p \notin watching
     /\ watching' = IF HasFields(p[1], p[2]) THEN watching \cup {p} ELSE watching
     /\ ended' = ended \ {p}
     /\ listening' = listening \cup EventGpus(p)
     /\ UNCHANGED lost

\* rdc_field_unwatch of a pair with an entry: it is not watching any more, and
\* the GPUs of an event field are not listened on any more, whoever else wants
\* their events.  But update_field_in_table_when_unwatch gives up when a group
\* of this pair, or of any pair still watched, is gone.
FieldUnwatch(p) ==
  LET rest   == watching \ {p}
      walked == \A q \in rest \cup {p} : HasFields(q[1], q[2])
  IN  /\ watching' = rest
      /\ ended' = ended \cup {p}
      /\ listening' = IF walked THEN listening \ EventGpus(p) ELSE listening
      /\ lost' = IF walked THEN lost \ EventGpus(p)
                           ELSE lost \cup (listening \cap EventGpus(p))

\* RDC_ST_NOT_FOUND: there is no entry, or it was there and has aged.
NoEntry(p) == p \notin watching /\ ended' = ended \ {p} /\ UNCHANGED <<watching, listening, lost>>

\* The result of rdc_field_watch is not looked at.  alone records that no other
\* process watches, or is about to unwatch, the pair.
DmonWatch(u) ==
  /\ At(u, "watch")
  /\ FieldWatch(Pair(u))
  /\ proc' = [v \in Users |->
       IF v = u
       THEN [proc[u] EXCEPT !.at = "turn", !.cleanup = TRUE, !.turns = Cmd(u).count,
                            !.alone = Alone(u)]
       ELSE IF Pair(v) = Pair(u) THEN [proc[v] EXCEPT !.alone = FALSE] ELSE proc[v]]
  /\ UNCHANGED gvars

\* Mutant: the flag is only looked at when the turns are over.
DmonTurnDeaf(u) ==
  /\ At(u, "turn")
  /\ IF proc[u].turns = 0 THEN Goto(u, "unwatch")
     ELSE Becomes(u, [proc[u] EXCEPT !.turns = IF @ = Forever THEN Forever ELSE @ - 1])
  /\ UNCHANGED <<gvars, wvars>>

\* One turn of the loop.  is_terminating_ is tested after each value of a
\* regular field, hence never when all the fields are notifications.
DmonTurn(u) ==
  /\ At(u, "turn")
  /\ IF proc[u].turns = 0 \/ (proc[u].reg /\ proc[u].term) THEN Goto(u, "unwatch")
     ELSE Becomes(u, [proc[u] EXCEPT !.turns = IF @ = Forever THEN Forever ELSE @ - 1])
  /\ UNCHANGED <<gvars, wvars>>

\* Mutant: only a process that made its GPU group unwatches.
CleanUpWatchMade(u) ==
  /\ At(u, "unwatch")
  /\ \/ proc[u].made # None /\ Pair(u) \in watching \cup ended /\ FieldUnwatch(Pair(u))
     \/ NoEntry(Pair(u))
     \/ proc[u].made = None /\ UNCHANGED wvars
  /\ Goto(u, "ungroup")
  /\ UNCHANGED gvars

\* clean_up, one call after the other, the errors of which are not looked at.
\* The pair is unwatched whoever asked for its watch; with an id not known yet
\* there is no call, and no entry either.
CleanUpWatch(u) ==
  /\ At(u, "unwatch")
  /\ \/ Pair(u) \in watching \cup ended /\ FieldUnwatch(Pair(u))
     \/ NoEntry(Pair(u))
  /\ Goto(u, "ungroup")
  /\ UNCHANGED gvars

CleanUpGroup(u) ==
  /\ At(u, "ungroup")
  /\ IF Cmd(u).gpus # <<>> /\ proc[u].group \in DOMAIN gpu_group_
     THEN GroupGpuDestroy(proc[u].group) ELSE UNCHANGED gvars
  /\ Goto(u, "unfields")
  /\ Orphaned

\* Mutant: only a process that made a GPU group too looks for its field group.
CleanUpFieldsWithGroup(u) ==
  /\ At(u, "unfields")
  /\ IF Cmd(u).fields # <<>> /\ proc[u].made # None
        /\ proc[u].fgroup \in DOMAIN field_group_ \ {JOB_FIELD_ID}
     THEN GroupFieldDestroy(proc[u].fgroup) ELSE UNCHANGED gvars
  /\ Becomes(u, [proc[u] EXCEPT !.at = "exit", !.cleanup = FALSE])
  /\ Orphaned

CleanUpFields(u) ==
  /\ At(u, "unfields")
  /\ IF Cmd(u).fields # <<>> /\ proc[u].fgroup \in DOMAIN field_group_ \ {JOB_FIELD_ID}
     THEN GroupFieldDestroy(proc[u].fgroup) ELSE UNCHANGED gvars
  /\ Becomes(u, [proc[u] EXCEPT !.at = "exit", !.cleanup = FALSE])
  /\ Orphaned

\* Ctrl-C.  dmon only notes it (set_terminating); every other subsystem is
\* killed where it stands.
Interrupt(u) ==
  /\ proc[u].at \notin {"shell", "exit"} /\ ~proc[u].term
  /\ IF proc[u].sub = "dmon" THEN Becomes(u, [proc[u] EXCEPT !.term = TRUE])
     ELSE Becomes(u, [proc[u] EXCEPT !.at = "exit", !.code = "KILLED"])
  /\ UNCHANGED <<gvars, wvars>>

-----------------------------------------------------------------------------

Step(u) ==
  \/ Connect(u) \/ ShowHelp(u)
  \/ GroupCreate(u) \/ GroupAdd(u) \/ AddGpu(u) \/ GroupAdded(u)
  \/ GroupDelete(u) \/ GroupList(u) \/ GroupInfo(u)
  \/ FieldGroupCreate(u) \/ FieldGroupDelete(u) \/ FieldGroupList(u) \/ FieldGroupInfo(u)
  \/ Stats(u) \/ Diag(u) \/ DiscoveryList(u) \/ DiscoveryVersion(u)
  \/ DmonMakeGroup(u) \/ DmonGroupMade(u) \/ DmonMakeFieldGroup(u) \/ DmonGivenGroup(u)
  \/ DmonGroupInfo(u) \/ DmonFieldInfo(u) \/ DmonWatch(u) \/ DmonTurn(u)
  \/ CleanUpWatch(u) \/ CleanUpGroup(u) \/ CleanUpFields(u)

RdciInit ==
  /\ GroupInit
  /\ watching = {} /\ ended = {} /\ listening = {} /\ lost = {}
  /\ proc = [u \in Users |-> NoProcess]

RdciNext == \E u \in Users : RdciStart(u) \/ Interrupt(u) \/ Step(u)

\* A process that can take its next step is scheduled, and the daemon answers.
RdciSpec == RdciInit /\ [][RdciNext]_tvars /\ \A u \in Users : WF_tvars(Step(u))

-----------------------------------------------------------------------------
(* Properties *)

\* What the users type next is any line of at most three options of a menu.
AtShell == \A u \in Users : At(u, "shell")

\* parse_cmd_opts of dmon: whenever it lets a monitor through, each of the two
\* things to monitor comes from exactly one place, an id or a list of
\* numbers that is not empty; create_temp_group and clean_up decide by the
\* list alone whether the group is theirs to destroy.  parse_cmd_opts of group: -c
\* and -a given together make one create with its GPUs, in whichever order and
\* with whatever options that name no other operation.
OptionsConsistent ==
  AtShell =>
    /\ \A opts \in Lines(DmonMenu) :
         LET p == parse_cmd_opts("dmon", opts)
         IN  p.verdict = "go" /\ p.op = "monitor" =>
               /\ (p.group = None) = (p.gpus # <<>>) /\ AllNumbers(p.gpus)
               /\ (p.fgroup = None) = (p.fields # <<>>) /\ AllNumbers(p.fields)
    /\ \A opts \in Lines(GroupMenu) :
         LET p       == parse_cmd_opts("group", opts)
             letters == {o.opt : o \in Range(opts)}
         IN  {"c", "a"} \subseteq letters /\ "l" \notin letters
             => p.op = "create" /\ p.gpus = <<0>>

\* "Not throw the errors in order to clean up all resources created"
\* (clean_up of dmon): once dmon has ended, in whichever way, the group and
\* the field group it noted are gone and their pair is not watched (unless
\* another dmon watched it too), although the others create, delete and
\* monitor groups meanwhile.
DmonLeavesNothing ==
  \A u \in Users :
    At(u, "exit") /\ proc[u].sub = "dmon" =>
      /\ proc[u].made # None /\ proc[u].group = proc[u].made =>
           proc[u].made \notin DOMAIN gpu_group_
      /\ Cmd(u).fields # <<>> /\ proc[u].fgroup # None =>
           proc[u].fgroup \notin DOMAIN field_group_
      /\ ~proc[u].cleanup
      /\ proc[u].alone /\ (Cmd(u).gpus # <<>> \/ Cmd(u).fields # <<>>) =>
           Pair(u) \notin watching

\* What is watched is watched for somebody: the daemon keeps no watch and
\* listens for no event that only a process which has ended asked for, whichever
\* way the others create, delete, monitor and unwatch the same groups.  The one
\* leak there is, a GPU whose events nobody will stop any more, is kept apart
\* in lost: rdc_field_unwatch gives up when a group was destroyed under a watch.
NothingStaysWatched ==
  /\ \A p \in watching : \E u \in Users : proc[u].at \in {"turn", "unwatch"} /\ Pair(u) = p
  /\ \A gpu \in listening \ lost : \E p \in watching : gpu \in EventGpus(p)

\* "When ctrl-C the program, the SIGINT handler will set the is_terminating to
\* notify the program to clean up": dmon ends after Ctrl-C if it monitors a
\* regular field, whatever the number of turns asked for.
InterruptEndsRegular ==
  \A u \in Users : (proc[u].term /\ proc[u].reg) ~> At(u, "exit")
=============================================================================
