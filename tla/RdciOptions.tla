---------------------------- MODULE RdciOptions -----------------------------
(***************************************************************************)
(* The command lines of rdci: parse_cmd_opts of its six subsystems.        *)
(* An option is its letter and the list of the values of its argument; a   *)
(* field name stands for its id.  --host and --json, which only change     *)
(* where to and how the answer is written, are left out.                   *)
(***************************************************************************)
EXTENDS Integers, Sequences, Functions

None == -2                     \* an id that was not given
NotNumber == -1                \* a value IsNumber, or the list of names, refuses
Forever == -3                  \* the count that is never reached, UINT32_MAX

IsNumber(v) == v >= 0

\* The members of the subsystem before its options are read.
NotGiven == [op |-> "unknown", auth |-> TRUE, group |-> None, fgroup |-> None,
             gpus |-> <<>>, fields |-> <<>>, count |-> None, verdict |-> "go"]

\* throw RdcException(RDC_ST_BAD_PARAMETER, ...)
Refuse(p) == [p EXCEPT !.verdict = "throw"]

Help(p) == [p EXCEPT !.op = "help", !.verdict = "done"]

\* A member that must be a number.
Number(p, member, o) ==
  IF IsNumber(o.arg[1]) THEN [p EXCEPT ![member] = o.arg[1]] ELSE Refuse(p)

\* options_.insert: the first value given stays.
NumberOnce(p, member, o) ==
  IF IsNumber(o.arg[1]) /\ p[member] # None THEN p ELSE Number(p, member, o)

\* -u, and the default case of every switch.
CommonOption(p, o) == IF o.opt = "u" THEN [p EXCEPT !.auth = FALSE] ELSE Refuse(p)

\* group: the last operation counts, but -a after -c is part of the create.
GroupOption(p, o) ==
  CASE o.opt = "h" -> Help(p)
    [] o.opt = "c" -> [p EXCEPT !.op = "create"]
    [] o.opt = "a" -> [p EXCEPT !.op = IF p.op = "create" THEN "create" ELSE "add",
                                !.gpus = o.arg]
    [] o.opt = "g" -> Number(p, "group", o)
    [] o.opt = "d" -> Number([p EXCEPT !.op = "delete"], "group", o)
    [] o.opt = "l" -> [p EXCEPT !.op = "list"]
    [] o.opt = "i" -> [p EXCEPT !.op = "info"]
    [] OTHER -> CommonOption(p, o)

FieldGroupOption(p, o) ==
  CASE o.opt = "h" -> Help(p)
    [] o.opt = "c" -> [p EXCEPT !.op = "create"]
    [] o.opt = "f" -> [p EXCEPT !.fields = o.arg]
    [] o.opt = "g" -> Number(p, "group", o)
    [] o.opt = "d" -> Number([p EXCEPT !.op = "delete"], "group", o)
    [] o.opt = "l" -> [p EXCEPT !.op = "list"]
    [] o.opt = "i" -> [p EXCEPT !.op = "info"]
    [] OTHER -> CommonOption(p, o)

\* The check after the loop, the same in both.
OperationGiven(p) == p.op # "unknown"

StatsOption(p, o) ==
  CASE o.opt = "h" -> Help(p)
    [] o.opt = "s" -> [p EXCEPT !.op = "start"]
    [] o.opt = "x" -> [p EXCEPT !.op = "stop"]
    [] o.opt = "j" -> [p EXCEPT !.op = "display"]
    [] o.opt = "r" -> [p EXCEPT !.op = "remove"]
    [] o.opt = "a" -> [p EXCEPT !.op = "remove_all"]
    [] o.opt = "v" -> p
    [] o.opt = "g" -> Number(p, "group", o)
    [] OTHER -> CommonOption(p, o)

\* stats: the group is needed to start.  With no operation help is shown.
StatsChecked(p) == p.op = "start" => p.group # None

DiagOption(p, o) ==
  CASE o.opt = "h" -> Help(p)
    [] o.opt = "c" -> p
    [] o.opt = "g" -> Number(p, "group", o)
    [] o.opt = "r" -> Number(p, "count", o)
    [] OTHER -> CommonOption(p, o)

\* diag: -g is needed; -r is the run level.
DiagChecked(p) == p.group # None

\* discovery: exactly one of -l and -v.
DiscoveryOption(p, o) ==
  CASE o.opt = "h" -> Help(p)
    [] o.opt = "l" -> [p EXCEPT !.op = IF p.op \in {"version", "both"} THEN "both" ELSE "list"]
    [] o.opt = "v" -> [p EXCEPT !.op = IF p.op \in {"list", "both"} THEN "both" ELSE "version"]
    [] OTHER -> CommonOption(p, o)

DiscoveryChecked(p) == p.op \notin {"unknown", "both"}

DmonOption(p, o) ==
  CASE o.opt = "h" -> Help(p)
    [] o.opt = "t" -> p
    [] o.opt \in {"l", "list-all"} -> [p EXCEPT !.op = "list"]
    [] o.opt = "f" -> NumberOnce(p, "fgroup", o)
    [] o.opt = "g" -> NumberOnce(p, "group", o)
    [] o.opt = "c" -> NumberOnce(p, "count", o)
    [] o.opt = "d" -> IF IsNumber(o.arg[1]) THEN p ELSE Refuse(p)
    [] o.opt = "e" -> [p EXCEPT !.fields = o.arg]
    [] o.opt = "i" -> [p EXCEPT !.gpus = o.arg]
    [] OTHER -> CommonOption(p, o)

AllNumbers(s) == \A v \in Range(s) : IsNumber(v)

\* Mutant: the checks that ids and lists do not co-exist are missing.
DmonCheckedBoth(p) == (p.fgroup # None \/ p.fields # <<>>) /\ (p.group # None \/ p.gpus # <<>>)

\* After the loop: a list only counts when the id is not given, and then the
\* two may not both be there.
DmonChecked(p) ==
  /\ p.fgroup = None => p.fields # <<>> /\ AllNumbers(p.fields)
  /\ p.group = None => p.gpus # <<>> /\ AllNumbers(p.gpus)
  /\ p.group # None => p.gpus = <<>>
  /\ p.fgroup # None => p.fields = <<>>

\* Without -c dmon goes on until it is interrupted.
DmonCount(p) == [p EXCEPT !.count = IF p.count = None THEN Forever ELSE p.count]

Option(sub, p, o) ==
  CASE sub = "dmon"       -> DmonOption(p, o)
    [] sub = "group"      -> GroupOption(p, o)
    [] sub = "fieldgroup" -> FieldGroupOption(p, o)
    [] sub = "stats"      -> StatsOption(p, o)
    [] sub = "diag"       -> DiagOption(p, o)
    [] sub = "discovery"  -> DiscoveryOption(p, o)

\* What the constructors set.
Start(sub) ==
  [NotGiven EXCEPT !.op = CASE sub = "dmon" -> "monitor" [] sub = "diag" -> "run" [] OTHER -> @]

\* The getopt_long loop: -h and a throw leave it at once.
GetOpts(sub, opts) ==
  LET After[i \in 0 .. Len(opts)] ==
        IF i = 0 THEN Start(sub)
        ELSE LET p == After[i - 1]
             IN  IF p.verdict = "go" THEN Option(sub, p, opts[i]) ELSE p
  IN  After[Len(opts)]

\* The checks after the loop.
Checked(sub, p) ==
  CASE sub = "dmon"                    -> p.op = "list" \/ DmonChecked(p)
    [] sub \in {"group", "fieldgroup"} -> OperationGiven(p)
    [] sub = "stats"                   -> StatsChecked(p)
    [] sub = "diag"                    -> DiagChecked(p)
    [] sub = "discovery"               -> DiscoveryChecked(p)

parse_cmd_opts(sub, opts) ==
  LET p == GetOpts(sub, opts)
  IN  IF p.verdict # "go" THEN p
      ELSE IF ~Checked(sub, p) THEN Refuse(p)
      ELSE IF sub = "dmon" /\ p.op = "monitor" THEN DmonCount(p) ELSE p

-----------------------------------------------------------------------------
(* Command lines to parse *)

Opt(letter, arg) == [opt |-> letter, arg |-> arg]

\* At most three options of a menu.
Lines(menu) == UNION {[1 .. n -> menu] : n \in 0 .. 3}

DmonMenu == {Opt("g", <<1>>), Opt("g", <<2>>), Opt("i", <<0, 1>>), Opt("i", <<NotNumber>>),
             Opt("f", <<1>>), Opt("e", <<1>>), Opt("e", <<NotNumber>>), Opt("c", <<0>>),
             Opt("l", <<>>), Opt("h", <<>>), Opt("u", <<>>), Opt("z", <<>>)}

GroupMenu == {Opt("c", <<>>), Opt("a", <<0>>), Opt("g", <<1>>), Opt("u", <<>>), Opt("l", <<>>)}
=============================================================================
