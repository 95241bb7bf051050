---------------------------- MODULE RdcRdciProofs ----------------------------
(***************************************************************************)
(* For any number of users, any command lines and any limits of the        *)
(* registry: dmon leaves nothing of its own behind, and what is watched is *)
(* watched for a process that is still there.  The inductive invariant RInv says of each process what  *)
(* it has made so far (ProcOK) and how that stands to the registry and to  *)
(* the watch table (Linked), and of each two processes that what they made *)
(* differs (Apart).  The last part is about parse_cmd_opts: what it lets   *)
(* through fits together, for command lines of any length.                 *)
(***************************************************************************)
EXTENDS RdcRdci, WellFoundedInduction, TLAPS

-----------------------------------------------------------------------------
(* The inductive invariant *)

\* A process is a record with these fields, whatever the options parsed to.
Shape(p) ==
  p = [ran |-> p.ran, sub |-> p.sub, cmd |-> p.cmd, at |-> p.at, todo |-> p.todo,
       ids |-> p.ids, made |-> p.made, group |-> p.group, fgroup |-> p.fgroup, reg |-> p.reg,
       cleanup |-> p.cleanup, turns |-> p.turns, term |-> p.term, alone |-> p.alone,
       code |-> p.code]

\* The field group in use is the one the process created.
OwnFields(p) == p.cmd.fields # <<>> /\ p.fgroup # None

\* Where dmon is after it began to watch.
Watched == {"turn", "unwatch", "ungroup", "unfields"}

\* Where only dmon can be.
DmonPlaces == {"temp_fields", "info", "field_info", "watch"} \cup Watched

\* dmon has noted what it created, and that it has to clean up, in time.
DmonOK(p, m) ==
  /\ p.made # None => p.cmd.gpus # <<>>
  /\ p.made # None \/ OwnFields(p) => p.cleanup \/ p.at = "exit"
  /\ p.cmd.gpus # <<>> /\ p.group # None => p.group = p.made
  /\ OwnFields(p) => p.fgroup \in 1 .. (m - 1)
  /\ p.cleanup => p.made # None \/ OwnFields(p) \/ p.at \in Watched
  /\ p.at \in Watched => p.cleanup
  /\ p.at = "add" => p.made # None /\ p.group = None
  /\ p.at \in {"connect", "dmon"} => p.made = None /\ p.group = None
  /\ p.at \in {"connect", "dmon", "add", "temp_fields"} => p.fgroup = None

\* n and m are the next ids of the two kinds of groups.
ProcOK(p, n, m) ==
  /\ Shape(p)
  /\ p.cleanup \in BOOLEAN /\ p.alone \in BOOLEAN
  /\ p.at \in SubSystems => p.at = p.sub
  /\ p.at = "connect" => p.sub \in SubSystems
  /\ p.made # None => p.made \in 1 .. (n - 1)
  /\ p.cleanup => p.sub = "dmon" /\ p.at # "exit"
  /\ p.at \in DmonPlaces => p.sub = "dmon"
  /\ p.sub # "dmon" => p.group = None /\ p.fgroup = None
  /\ p.sub = "dmon" => DmonOK(p, m)

\* G and F are the ids of the groups there are, W the pairs watched: what a
\* dmon has cleaned up is gone, and what it alone watched is not watched.
Linked(p, G, F, W) ==
  /\ p.sub = "dmon" /\ p.at \in {"unfields", "exit"} /\ p.made # None /\ p.group = p.made =>
       p.made \notin G
  /\ p.sub = "dmon" /\ p.at = "exit" /\ OwnFields(p) => p.fgroup \notin F
  /\ /\ p.sub = "dmon" /\ p.at \in {"ungroup", "unfields", "exit"} /\ p.alone
     /\ p.cmd.gpus # <<>> \/ p.cmd.fields # <<>>
     => <<p.group, p.fgroup>> \notin W

\* No id is handed out twice.
Apart(p, q) ==
  /\ p.made # None => p.made # q.made
  /\ OwnFields(p) /\ OwnFields(q) => p.fgroup # q.fgroup

Registry(n, m, G, F) ==
  /\ n \in Nat \ {0} /\ m \in Nat \ {0}
  /\ G \subseteq 1 .. (n - 1) /\ F \subseteq 0 .. (m - 1)

RInv ==
  /\ Registry(cur_group_id_, cur_field_group_id_, DOMAIN gpu_group_, DOMAIN field_group_)
  /\ watching \subseteq (1 .. (cur_group_id_ - 1)) \X (0 .. (cur_field_group_id_ - 1))
  /\ proc = [u \in Users |-> proc[u]]
  /\ \A u \in Users : ProcOK(proc[u], cur_group_id_, cur_field_group_id_)
  /\ \A u \in Users : Linked(proc[u], DOMAIN gpu_group_, DOMAIN field_group_, watching)
  /\ \A u, v \in Users : u # v => Apart(proc[u], proc[v])

-----------------------------------------------------------------------------
(* Facts about processes *)

\* The fields that matter to others are those of p.
Same(p, q) ==
  /\ Shape(q)
  /\ q.sub = p.sub /\ q.cmd = p.cmd /\ q.made = p.made
  /\ q.group = p.group /\ q.fgroup = p.fgroup
  /\ q.cleanup = p.cleanup /\ q.alone = p.alone

\* Later ids do not matter to a process.
LEMMA ProcLater ==
  ASSUME NEW p, NEW n \in Nat, NEW m \in Nat, NEW n2 \in Nat, NEW m2 \in Nat,
         n <= n2, m <= m2, ProcOK(p, n, m)
  PROVE  ProcOK(p, n2, m2)
  BY DEF ProcOK, DmonOK

\* The groups there are become fewer, but for new ids (G2, F2).
FewerGroups(n, m, G, F, G2, F2) ==
  /\ \A g \in G2 : g \in G \/ ~(g < n)
  /\ \A f \in F2 : f \in F \/ ~(f < m)

\* A process stays linked when groups go or others are made.
LEMMA LinkedLater ==
  ASSUME NEW p, NEW n \in Nat, NEW m \in Nat, NEW G, NEW F, NEW G2, NEW F2, NEW W,
         ProcOK(p, n, m), Linked(p, G, F, W), FewerGroups(n, m, G, F, G2, F2)
  PROVE  Linked(p, G2, F2, W)
<1>1. OwnFields(p) => p.sub = "dmon" /\ p.fgroup \in 1 .. (m - 1)
  BY Zenon DEF ProcOK, DmonOK, OwnFields
<1>2. p.made # None => p.made \in 1 .. (n - 1)
  BY Zenon DEF ProcOK
<1>3. p.made # None /\ p.made \in G2 => p.made \in G
  BY <1>2 DEF FewerGroups
<1>4. OwnFields(p) /\ p.fgroup \in F2 => p.fgroup \in F
  BY <1>1 DEF FewerGroups
<1> QED
  BY <1>3, <1>4, Zenon DEF Linked

\* What any operation does to the registry.
RegistryStep ==
  /\ Registry(cur_group_id_', cur_field_group_id_', DOMAIN gpu_group_', DOMAIN field_group_')
  /\ cur_group_id_ <= cur_group_id_' /\ cur_field_group_id_ <= cur_field_group_id_'
  /\ FewerGroups(cur_group_id_, cur_field_group_id_, DOMAIN gpu_group_, DOMAIN field_group_,
                 DOMAIN gpu_group_', DOMAIN field_group_')

\* Each call of the registry is such a change of it.
LEMMA RegistrySteps ==
  ASSUME RInv,
         \/ UNCHANGED gvars
         \/ GroupGpuCreate \/ \E g : GroupGpuDestroy(g) \/ \E gpu : GroupGpuAdd(g, gpu)
         \/ \E fields : GroupFieldCreate(fields)
         \/ \E f : GroupFieldDestroy(f)
  PROVE  RegistryStep
<1> USE DEF RInv, Registry, RegistryStep, FewerGroups
<1>1. CASE UNCHANGED gvars
  BY <1>1 DEF gvars
<1>2. CASE GroupGpuCreate
  BY <1>2 DEF GroupGpuCreate, MapPut
<1>3. CASE \E g : GroupGpuDestroy(g)
  BY <1>3 DEF GroupGpuDestroy, MapErase
<1>4. CASE \E g : \E gpu : GroupGpuAdd(g, gpu)
  BY <1>4 DEF GroupGpuAdd, MapPut
<1>5. CASE \E fields : GroupFieldCreate(fields)
  BY <1>5 DEF GroupFieldCreate, MapPut
<1>6. CASE \E f : GroupFieldDestroy(f)
  BY <1>6 DEF GroupFieldDestroy, MapErase
<1> QED
  BY <1>1, <1>2, <1>3, <1>4, <1>5, <1>6, Zenon

\* One process takes a step that changes the registry but not the watch
\* table.
LEMMA StepKeeps ==
  ASSUME RInv, NEW u \in Users, NEW q, Becomes(u, q),
         watching' = watching, RegistryStep,
         ProcOK(q, cur_group_id_', cur_field_group_id_'),
         Linked(q, DOMAIN gpu_group_', DOMAIN field_group_', watching),
         \A v \in Users \ {u} : Apart(q, proc[v]) /\ Apart(proc[v], q)
  PROVE  RInv'
<1>1. /\ proc'[u] = q /\ \A v \in Users \ {u} : proc'[v] = proc[v]
      /\ proc' = [v \in Users |-> proc'[v]]
  BY Zenon DEF RInv, Becomes
<1>2. /\ cur_group_id_ \in Nat /\ cur_field_group_id_ \in Nat
      /\ cur_group_id_' \in Nat /\ cur_field_group_id_' \in Nat
      /\ cur_group_id_ <= cur_group_id_' /\ cur_field_group_id_ <= cur_field_group_id_'
  BY Zenon DEF RInv, Registry, RegistryStep
<1>3. watching' \subseteq (1 .. (cur_group_id_' - 1)) \X (0 .. (cur_field_group_id_' - 1))
  BY <1>2 DEF RInv
<1>4. ASSUME NEW v \in Users
      PROVE  /\ ProcOK(proc'[v], cur_group_id_', cur_field_group_id_')
             /\ Linked(proc'[v], DOMAIN gpu_group_', DOMAIN field_group_', watching')
  <2>1. CASE v = u
    BY <2>1, <1>1, Zenon
  <2>2. CASE v # u
    <3>1. /\ ProcOK(proc[v], cur_group_id_, cur_field_group_id_)
          /\ Linked(proc[v], DOMAIN gpu_group_, DOMAIN field_group_, watching)
      BY Zenon DEF RInv
    <3> QED
      BY <3>1, <2>2, <1>1, <1>2, ProcLater, LinkedLater, Zenon DEF RegistryStep
  <2> QED
    BY <2>1, <2>2, Zenon
<1>5. ASSUME NEW v \in Users, NEW w \in Users, v # w
      PROVE  Apart(proc'[v], proc'[w])
  BY <1>1, <1>5, Zenon DEF RInv
<1> QED
  BY <1>1, <1>3, <1>4, <1>5, Zenon DEF RInv, RegistryStep

\* The ways a process goes on without making or giving up anything: it stays
\* where it is, ends with nothing to clean up, begins to clean up, or goes on
\* to a place that says nothing of its groups.
Moves(p, q) ==
  /\ Same(p, q)
  /\ \/ q.at = p.at
     \/ p.at # "exit" /\ ~p.cleanup /\ q.at = "exit"
     \/ p.cleanup /\ p.at \notin {"unwatch", "ungroup", "unfields"} /\ q.at = "unwatch"
     \/ p.at \in {"info", "field_info"} /\ q.at \in {"field_info", "watch"}
     \/ p.at = "connect" /\ q.at = p.sub
     \/ p.sub # "dmon" /\ q.at \in {"add", "list"}

\* What a process has made so far is not changed by a move,
LEMMA MovesOK ==
  ASSUME NEW p, NEW q, NEW n \in Nat, NEW m \in Nat, ProcOK(p, n, m), Moves(p, q)
  PROVE  ProcOK(q, n, m)
<1> USE DEF Same, ProcOK, DmonOK, OwnFields, DmonPlaces, Watched, SubSystems
<1>1. CASE q.at = p.at
  BY <1>1, ZenonT(30) DEF Moves
<1>2. CASE p.at # "exit" /\ ~p.cleanup /\ q.at = "exit"
  BY <1>2, Zenon DEF Moves
<1>3. CASE p.cleanup /\ p.at \notin {"unwatch", "ungroup", "unfields"} /\ q.at = "unwatch"
  BY <1>3, ZenonT(30) DEF Moves
<1>4. CASE p.at \in {"info", "field_info"} /\ q.at \in {"field_info", "watch"}
  BY <1>4, ZenonT(30) DEF Moves
<1>5. CASE p.at = "connect" /\ q.at = p.sub
  BY <1>5, Zenon DEF Moves
<1>6. CASE p.sub # "dmon" /\ q.at \in {"add", "list"}
  BY <1>6, Zenon DEF Moves
<1> QED
  BY <1>1, <1>2, <1>3, <1>4, <1>5, <1>6, Zenon DEF Moves

\* nor how that stands to the registry and to the watch table,
LEMMA MovesLinked ==
  ASSUME NEW p, NEW q, NEW n \in Nat, NEW m \in Nat, NEW G, NEW F, NEW W,
         W \subseteq (1 .. (n - 1)) \X (0 .. (m - 1)),
         ProcOK(p, n, m), Linked(p, G, F, W), Moves(p, q)
  PROVE  Linked(q, G, F, W)
<1>0. /\ q.sub = p.sub /\ q.cmd = p.cmd /\ q.made = p.made
      /\ q.group = p.group /\ q.fgroup = p.fgroup
      /\ q.cleanup = p.cleanup /\ q.alone = p.alone
      /\ OwnFields(q) = OwnFields(p)
  BY Zenon DEF Moves, Same, OwnFields
<1>1. CASE q.at = p.at
  BY <1>0, <1>1, Zenon DEF Linked
<1>2. CASE p.at # "exit" /\ ~p.cleanup /\ q.at = "exit"
  <2>1. p.sub = "dmon" => p.made = None /\ ~OwnFields(p)
    BY <1>2, Zenon DEF ProcOK, DmonOK
  <2>2. p.sub = "dmon" /\ p.cmd.gpus # <<>> => p.group = None
    BY <2>1, Zenon DEF ProcOK, DmonOK
  <2>3. p.sub = "dmon" /\ p.cmd.fields # <<>> => p.fgroup = None
    BY <2>1, Zenon DEF OwnFields
  <2>4. p.group = None \/ p.fgroup = None => <<p.group, p.fgroup>> \notin W
    BY DEF None
  <2> QED
    BY <1>0, <1>2, <2>1, <2>2, <2>3, <2>4, Zenon DEF Linked
<1>3. CASE p.cleanup /\ p.at \notin {"unwatch", "ungroup", "unfields"} /\ q.at = "unwatch"
  BY <1>3, Zenon DEF Linked
<1>4. CASE p.at \in {"info", "field_info"} /\ q.at \in {"field_info", "watch"}
  BY <1>4, Zenon DEF Linked
<1>5. CASE p.at = "connect" /\ q.at = p.sub
  BY <1>5, Zenon DEF Linked, ProcOK, SubSystems
<1>6. CASE p.sub # "dmon" /\ q.at \in {"add", "list"}
  BY <1>6, Zenon DEF Linked
<1> QED
  BY <1>1, <1>2, <1>3, <1>4, <1>5, <1>6, Zenon DEF Moves

\* nor that it differs from what others made.
LEMMA MovesApart ==
  ASSUME NEW p, NEW q, NEW r, NEW n \in Nat, NEW m \in Nat,
         ProcOK(p, n, m), ProcOK(r, n, m), Apart(p, r), Apart(r, p), Moves(p, q)
  PROVE  Apart(q, r) /\ Apart(r, q)
<1>0. /\ q.sub = p.sub /\ q.cmd = p.cmd /\ q.made = p.made
      /\ q.group = p.group /\ q.fgroup = p.fgroup
      /\ q.cleanup = p.cleanup /\ q.alone = p.alone
      /\ OwnFields(q) = OwnFields(p)
  BY Zenon DEF Moves, Same, OwnFields
<1> QED
  BY <1>0, Zenon DEF Apart

\* A move of one process keeps the invariant.
LEMMA MoveStep ==
  ASSUME RInv, NEW u \in Users, NEW q, Moves(proc[u], q), Becomes(u, q),
         watching' = watching, RegistryStep
  PROVE  RInv'
<1> DEFINE n == cur_group_id_
           m == cur_field_group_id_
<1>1. /\ n \in Nat /\ m \in Nat /\ n' \in Nat /\ m' \in Nat /\ n <= n' /\ m <= m'
      /\ watching \subseteq (1 .. (n - 1)) \X (0 .. (m - 1))
      /\ \A v \in Users : ProcOK(proc[v], n, m)
      /\ Linked(proc[u], DOMAIN gpu_group_, DOMAIN field_group_, watching)
      /\ \A v \in Users \ {u} : Apart(proc[u], proc[v]) /\ Apart(proc[v], proc[u])
  BY Zenon DEF RInv, Registry, RegistryStep
<1>2. ProcOK(q, n, m)
  BY <1>1, MovesOK, Zenon
<1>3. Linked(q, DOMAIN gpu_group_, DOMAIN field_group_, watching)
  BY <1>1, MovesLinked, Zenon
<1>4. ProcOK(q, n', m')
  BY <1>1, <1>2, ProcLater, Zenon
<1>5. Linked(q, DOMAIN gpu_group_', DOMAIN field_group_', watching)
  BY <1>1, <1>2, <1>3, LinkedLater, Zenon DEF RegistryStep
<1>6. \A v \in Users \ {u} : Apart(q, proc[v]) /\ Apart(proc[v], q)
  BY <1>1, MovesApart, Zenon
<1> QED
  BY <1>4, <1>5, <1>6, StepKeeps, Zenon

\* The changes of fields that do not matter to others.
Going(p, a, x, q) ==
  \/ q = [p EXCEPT !.at = a]
  \/ q = [p EXCEPT !.at = a, !.code = x]
  \/ q = [p EXCEPT !.at = a, !.todo = x]
  \/ q = [p EXCEPT !.at = a, !.ids = x]
  \/ q = [p EXCEPT !.at = a, !.reg = x]

Staying(p, x, q) ==
  \/ q = [p EXCEPT !.todo = x]
  \/ q = [p EXCEPT !.ids = x]
  \/ q = [p EXCEPT !.turns = x]
  \/ q = [p EXCEPT !.term = x]

\* A process that goes on, or stays, has made what it had made.
LEMMA SameGoing ==
  ASSUME NEW p, Shape(p), NEW a, NEW x, NEW q, Going(p, a, x, q)
  PROVE  Same(p, q) /\ q.at = a
<1>1. CASE q = [p EXCEPT !.at = a]
  BY <1>1, Zenon DEF Same, Shape
<1>2. CASE q = [p EXCEPT !.at = a, !.code = x]
  BY <1>2, Zenon DEF Same, Shape
<1>3. CASE q = [p EXCEPT !.at = a, !.todo = x]
  BY <1>3, Zenon DEF Same, Shape
<1>4. CASE q = [p EXCEPT !.at = a, !.ids = x]
  BY <1>4, Zenon DEF Same, Shape
<1>5. CASE q = [p EXCEPT !.at = a, !.reg = x]
  BY <1>5, Zenon DEF Same, Shape
<1> QED
  BY <1>1, <1>2, <1>3, <1>4, <1>5, Zenon DEF Going

\* The same for one that stays.
LEMMA SameStaying ==
  ASSUME NEW p, Shape(p), NEW x, NEW q, Staying(p, x, q)
  PROVE  Same(p, q) /\ q.at = p.at
  BY ZenonT(30) DEF Same, Shape, Staying

\* A process that ends with nothing to clean up, and one that throws.
LEMMA ExitMoves ==
  ASSUME RInv, NEW u \in Users, proc[u].at # "exit", ~proc[u].cleanup, Exit(u)
  PROVE  \E q : Moves(proc[u], q) /\ Becomes(u, q)
<1>1. PICK q : Going(proc[u], "exit", 0, q) /\ Becomes(u, q)
  BY Zenon DEF Exit, Goto, Going
<1>2. Shape(proc[u])
  BY Zenon DEF RInv, ProcOK
<1>3. Same(proc[u], q) /\ q.at = "exit"
  BY <1>1, <1>2, SameGoing, Zenon
<1> QED
  BY <1>1, <1>3, Zenon DEF Moves

\* A process that throws ends, or begins to clean up.
LEMMA ThrowMoves ==
  ASSUME RInv, NEW u \in Users, NEW status, Throw(u, status),
         proc[u].at \notin {"exit", "unwatch", "ungroup", "unfields"}
  PROVE  \E q : Moves(proc[u], q) /\ Becomes(u, q)
<1>1. PICK q : Going(proc[u], ThrowPlace(u), status, q) /\ Becomes(u, q)
  BY Zenon DEF Throw, Going
<1>2. Shape(proc[u]) /\ proc[u].cleanup \in BOOLEAN
  BY Zenon DEF RInv, ProcOK
<1>3. Same(proc[u], q) /\ q.at = ThrowPlace(u)
  BY <1>1, <1>2, SameGoing
<1> QED
  BY <1>1, <1>2, <1>3, Zenon DEF Moves, ThrowPlace

-----------------------------------------------------------------------------
(* The steps that make and give up nothing *)

Plain(u) ==
  /\ \E q : Moves(proc[u], q) /\ Becomes(u, q)
  /\ watching' = watching
  /\ RegistryStep

\* Such a step keeps the invariant.
LEMMA PlainKeeps ==
  ASSUME RInv, NEW u \in Users, Plain(u)
  PROVE  RInv'
  BY MoveStep, Zenon DEF Plain

\* Before its first call, and in a subsystem other than dmon, a process has
\* nothing to clean up.
LEMMA NothingYet ==
  ASSUME RInv, NEW u \in Users,
         proc[u].at \in SubSystems \cup {"connect"} \/ proc[u].sub # "dmon"
  PROVE  /\ ~proc[u].cleanup
         /\ proc[u].at \in SubSystems => proc[u].at = proc[u].sub
<1>1. ProcOK(proc[u], cur_group_id_, cur_field_group_id_)
  BY Zenon DEF RInv
<1> QED
  BY <1>1, Zenon DEF ProcOK, DmonOK, OwnFields, SubSystems, Watched

\* A process that goes on elsewhere, or stays, as Moves allows.
LEMMA GoingMoves ==
  ASSUME RInv, NEW u \in Users, NEW a, NEW x, NEW q, Going(proc[u], a, x, q),
         \/ proc[u].at # "exit" /\ ~proc[u].cleanup /\ a = "exit"
         \/ proc[u].at = "turn" /\ a = "unwatch"
         \/ proc[u].at \in {"info", "field_info"} /\ a \in {"field_info", "watch"}
         \/ proc[u].at = "connect" /\ a = proc[u].sub
         \/ proc[u].sub # "dmon" /\ a \in {"add", "list"}
  PROVE  Moves(proc[u], q)
<1>1. ProcOK(proc[u], cur_group_id_, cur_field_group_id_)
  BY Zenon DEF RInv
<1>2. Same(proc[u], q) /\ q.at = a
  BY <1>1, SameGoing DEF ProcOK
<1>3. proc[u].at = "turn" => proc[u].cleanup
  BY <1>1, Zenon DEF ProcOK, DmonOK, DmonPlaces, Watched
<1> QED
  BY <1>2, <1>3, Zenon DEF Moves

\* A process that stays moves.
LEMMA StayingMoves ==
  ASSUME RInv, NEW u \in Users, NEW x, NEW q, Staying(proc[u], x, q)
  PROVE  Moves(proc[u], q)
  BY SameStaying, ZenonT(60) DEF RInv, ProcOK, Moves

\* Calls that change nothing in the registry.
LEMMA ConnectPlain ==
  ASSUME RInv, NEW u \in Users, Connect(u)
  PROVE  Plain(u)
<1>1. CASE Goto(u, proc[u].sub)
  <2>1. \E q : Going(proc[u], proc[u].sub, 0, q) /\ Becomes(u, q)
    BY <1>1, Zenon DEF Goto, Going
  <2> QED
    BY <2>1, GoingMoves, RegistrySteps, Zenon DEF Connect, At, Plain, wvars
<1>2. CASE Throw(u, "BAD_PARAMETER")
  BY <1>2, ThrowMoves, RegistrySteps, Zenon DEF Connect, At, Plain, wvars
<1> QED
  BY <1>1, <1>2, Zenon DEF Connect

\* A command that ends or throws where nothing is to be cleaned up.
LEMMA EndPlain ==
  ASSUME RInv, NEW u \in Users, NEW status, Exit(u) \/ Throw(u, status),
         proc[u].at \in SubSystems \cup {"add", "list"},
         proc[u].at \in SubSystems \/ proc[u].sub # "dmon",
         watching' = watching, RegistryStep
  PROVE  Plain(u)
<1>1. ~proc[u].cleanup
  BY NothingYet, Zenon
<1>2. CASE Exit(u)
  BY <1>1, <1>2, ExitMoves, Zenon DEF Plain, SubSystems
<1>3. CASE Throw(u, status)
  BY <1>3, ThrowMoves, Zenon DEF Plain, SubSystems
<1> QED
  BY <1>2, <1>3, Zenon

\* The commands that only look,
LEMMA LooksPlain ==
  ASSUME RInv, NEW u \in Users,
         \/ ShowHelp(u) \/ Stats(u) \/ Diag(u) \/ DiscoveryList(u) \/ DiscoveryVersion(u)
         \/ GroupInfo(u) \/ FieldGroupInfo(u)
  PROVE  Plain(u)
<1>1. /\ proc[u].at \in SubSystems
      /\ UNCHANGED gvars /\ watching' = watching
      /\ \E status : Exit(u) \/ Throw(u, status)
  BY Zenon DEF ShowHelp, Stats, Diag, DiscoveryList, DiscoveryVersion, GroupInfo, FieldGroupInfo,
         ShowInfo, Runs, At, SubSystems, wvars
<1>2. RegistryStep
  BY <1>1, RegistrySteps, Zenon
<1> QED
  BY <1>1, <1>2, EndPlain, Zenon

\* that delete,
LEMMA DeletePlain ==
  ASSUME RInv, NEW u \in Users, GroupDelete(u) \/ FieldGroupDelete(u)
  PROVE  Plain(u)
<1>1. /\ proc[u].at \in SubSystems /\ watching' = watching
      /\ Exit(u) \/ Throw(u, "NOT_FOUND")
      /\ UNCHANGED gvars \/ (\E g : GroupGpuDestroy(g)) \/ (\E f : GroupFieldDestroy(f))
  BY Zenon DEF GroupDelete, FieldGroupDelete, Orphaned, Runs, At, SubSystems
<1>2. RegistryStep
  BY <1>1, RegistrySteps, Zenon
<1> QED
  BY <1>1, <1>2, EndPlain, Zenon

\* that add to a group,
LEMMA GroupAddPlain ==
  ASSUME RInv, NEW u \in Users, GroupAdd(u) \/ GroupAdded(u)
  PROVE  Plain(u)
<1>1. watching' = watching /\ RegistryStep
  BY RegistrySteps, Zenon DEF GroupAdd, GroupAdded, wvars
<1>2. CASE GroupAdded(u)
  BY <1>1, <1>2, EndPlain, Zenon DEF GroupAdded, At
<1>3. CASE GroupAdd(u)
  <2>1. proc[u].at = "group" /\ proc[u].sub = "group"
    BY <1>3, NothingYet, Zenon DEF GroupAdd, Runs, At, SubSystems
  <2>2. CASE Throw(u, "BAD_PARAMETER")
    BY <1>1, <2>1, <2>2, EndPlain, Zenon DEF SubSystems
  <2>3. CASE Becomes(u, [proc[u] EXCEPT !.at = "add", !.todo = Cmd(u).gpus])
    <3>1. \E q : Going(proc[u], "add", Cmd(u).gpus, q) /\ Becomes(u, q)
      BY <2>3, Zenon DEF Going
    <3> QED
      BY <1>1, <2>1, <3>1, GoingMoves, Zenon DEF Plain
  <2> QED
    BY <1>3, <2>2, <2>3, Zenon DEF GroupAdd
<1> QED
  BY <1>2, <1>3, Zenon

\* GPU by GPU,
LEMMA AddGpuPlain ==
  ASSUME RInv, NEW u \in Users, AddGpu(u)
  PROVE  Plain(u)
<1>1. PICK g, gpu :
        /\ proc[u].at = "add" /\ watching' = watching
        /\ \/ /\ GroupGpuAdd(g, gpu)
              /\ Becomes(u, [proc[u] EXCEPT !.todo = Tail(proc[u].todo)])
           \/ Throw(u, "BAD_PARAMETER") /\ UNCHANGED gvars
  BY Zenon DEF AddGpu, At, wvars
<1>2. RegistryStep
  BY <1>1, RegistrySteps, Zenon
<1>3. CASE Becomes(u, [proc[u] EXCEPT !.todo = Tail(proc[u].todo)])
  <2>1. \E q : Staying(proc[u], Tail(proc[u].todo), q) /\ Becomes(u, q)
    BY <1>3, Zenon DEF Staying
  <2> QED
    BY <1>1, <1>2, <2>1, StayingMoves, Zenon DEF Plain
<1>4. CASE Throw(u, "BAD_PARAMETER")
  BY <1>1, <1>2, <1>4, ThrowMoves, Zenon DEF Plain
<1> QED
  BY <1>1, <1>3, <1>4, Zenon

\* that list,
LEMMA ListPlain ==
  ASSUME RInv, NEW u \in Users, GroupList(u) \/ FieldGroupList(u)
  PROVE  Plain(u)
<1>1. watching' = watching /\ RegistryStep
  BY RegistrySteps, Zenon DEF GroupList, FieldGroupList, wvars
<1>2. /\ proc[u].at \in {"group", "fieldgroup", "list"}
      /\ proc[u].sub \in {"group", "fieldgroup"}
  BY Zenon, NothingYet DEF GroupList, FieldGroupList, Runs, At, SubSystems
<1>3. \/ \E status : Exit(u) \/ Throw(u, status)
      \/ \E x : Becomes(u, [proc[u] EXCEPT !.ids = x])
      \/ \E x : Becomes(u, [proc[u] EXCEPT !.at = "list", !.ids = x])
  BY Zenon DEF GroupList, FieldGroupList, ListTurn, ListIds
<1>4. CASE \E status : Exit(u) \/ Throw(u, status)
  BY <1>1, <1>2, <1>4, EndPlain, Zenon DEF SubSystems
<1>5. CASE \E x : Becomes(u, [proc[u] EXCEPT !.ids = x])
  <2>1. \E q, x : Staying(proc[u], x, q) /\ Becomes(u, q)
    BY <1>5, Zenon DEF Staying
  <2> QED
    BY <1>1, <2>1, StayingMoves, Zenon DEF Plain
<1>6. CASE \E x : Becomes(u, [proc[u] EXCEPT !.at = "list", !.ids = x])
  <2>1. \E q, x : Going(proc[u], "list", x, q) /\ Becomes(u, q)
    BY <1>6, Zenon DEF Going
  <2> QED
    BY <1>1, <1>2, <2>1, GoingMoves, Zenon DEF Plain
<1> QED
  BY <1>3, <1>4, <1>5, <1>6, Zenon

\* that make a field group,
LEMMA FieldGroupCreatePlain ==
  ASSUME RInv, NEW u \in Users, FieldGroupCreate(u)
  PROVE  Plain(u)
<1>1. proc[u].at = "fieldgroup" /\ watching' = watching
  BY Zenon DEF FieldGroupCreate, MakeFieldGroup, Runs, At, wvars
<1>2. Exit(u) \/ Throw(u, "BAD_PARAMETER")
  BY Zenon DEF FieldGroupCreate, MakeFieldGroup, Exit, Goto
<1>3. RegistryStep
  BY Zenon, RegistrySteps DEF FieldGroupCreate, MakeFieldGroup
<1> QED
  BY <1>1, <1>2, <1>3, EndPlain, Zenon DEF SubSystems

\* the checks of dmon,
LEMMA DmonInfoPlain ==
  ASSUME RInv, NEW u \in Users, DmonGroupInfo(u) \/ DmonFieldInfo(u)
  PROVE  Plain(u)
<1>1. watching' = watching /\ RegistryStep
  BY RegistrySteps, Zenon DEF DmonGroupInfo, DmonFieldInfo, wvars
<1>2. proc[u].at \in {"info", "field_info"}
  BY Zenon DEF DmonGroupInfo, DmonFieldInfo, At
<1>3. \/ Throw(u, "NOT_FOUND") \/ Goto(u, "field_info")
      \/ \E x : Becomes(u, [proc[u] EXCEPT !.at = "watch", !.reg = x])
  BY Zenon DEF DmonGroupInfo, DmonFieldInfo
<1>4. CASE Throw(u, "NOT_FOUND")
  BY <1>1, <1>2, <1>4, ThrowMoves, Zenon DEF Plain
<1>5. CASE Goto(u, "field_info") \/ \E x : Becomes(u, [proc[u] EXCEPT !.at = "watch", !.reg = x])
  <2>1. \E q, x : \E a \in {"field_info", "watch"} : Going(proc[u], a, x, q) /\ Becomes(u, q)
    BY <1>5, Zenon DEF Going, Goto
  <2> QED
    BY <1>1, <1>2, <2>1, GoingMoves, Zenon DEF Plain
<1> QED
  BY <1>3, <1>4, <1>5, Zenon

\* its turns,
LEMMA DmonTurnPlain ==
  ASSUME RInv, NEW u \in Users, DmonTurn(u)
  PROVE  Plain(u)
<1>1. watching' = watching /\ RegistryStep /\ proc[u].at = "turn"
  BY RegistrySteps, Zenon DEF DmonTurn, At, wvars
<1>2. CASE Goto(u, "unwatch")
  <2>1. \E q : Going(proc[u], "unwatch", 0, q) /\ Becomes(u, q)
    BY <1>2, Zenon DEF Going, Goto
  <2> QED
    BY <1>1, <2>1, GoingMoves, Zenon DEF Plain
<1>3. CASE \E x : Becomes(u, [proc[u] EXCEPT !.turns = x])
  <2>1. \E q, x : Staying(proc[u], x, q) /\ Becomes(u, q)
    BY <1>3, Zenon DEF Staying
  <2> QED
    BY <1>1, <2>1, StayingMoves, Zenon DEF Plain
<1> QED
  BY <1>2, <1>3, Zenon DEF DmonTurn

\* and a signal make and give up nothing of a dmon.
LEMMA InterruptPlain ==
  ASSUME RInv, NEW u \in Users, Interrupt(u)
  PROVE  Plain(u)
<1>1. watching' = watching /\ RegistryStep /\ proc[u].at # "exit"
  BY RegistrySteps, Zenon DEF Interrupt, wvars
<1>2. CASE proc[u].sub = "dmon" /\ Becomes(u, [proc[u] EXCEPT !.term = TRUE])
  <2>1. \E q : Staying(proc[u], TRUE, q) /\ Becomes(u, q)
    BY <1>2, Zenon DEF Staying
  <2> QED
    BY <1>1, <2>1, StayingMoves, Zenon DEF Plain
<1>3. CASE proc[u].sub # "dmon" /\ Becomes(u, [proc[u] EXCEPT !.at = "exit", !.code = "KILLED"])
  <2>1. \E q : Going(proc[u], "exit", "KILLED", q) /\ Becomes(u, q)
    BY <1>3, Zenon DEF Going
  <2> QED
    BY <1>1, <1>3, <2>1, NothingYet, GoingMoves, Zenon DEF Plain
<1> QED
  BY <1>2, <1>3, Zenon DEF Interrupt

-----------------------------------------------------------------------------
(* The steps that make something *)

\* What RInv says of u, and of u and another process.
LEMMA OfUser ==
  ASSUME RInv, NEW u \in Users
  PROVE  /\ cur_group_id_ \in Nat \ {0} /\ cur_field_group_id_ \in Nat \ {0}
         /\ ProcOK(proc[u], cur_group_id_, cur_field_group_id_)
         /\ Linked(proc[u], DOMAIN gpu_group_, DOMAIN field_group_, watching)
         /\ \A v \in Users \ {u} :
              /\ ProcOK(proc[v], cur_group_id_, cur_field_group_id_)
              /\ Apart(proc[u], proc[v]) /\ Apart(proc[v], proc[u])
  BY Zenon DEF RInv, Registry

\* The ids that both made differ.
LEMMA QuietApart ==
  ASSUME NEW q, NEW r,
         q.made # None => q.made # r.made,
         OwnFields(q) /\ OwnFields(r) => q.fgroup # r.fgroup
  PROVE  Apart(q, r) /\ Apart(r, q)
  BY Zenon DEF Apart

\* A new process has made nothing yet.
LEMMA StartKeeps ==
  ASSUME RInv, NEW u \in Users, RdciStart(u)
  PROVE  RInv'
<1> DEFINE Place(p) == IF p.verdict = "throw" THEN "exit" ELSE "connect"
           Code(p)  == IF p.verdict = "throw" THEN "BAD_PARAMETER" ELSE "OK"
           New(c, p, x, a, s) ==
             [NoProcess EXCEPT !.ran = x, !.sub = c.sub, !.cmd = p, !.at = a, !.code = s]
<1>0. \A p : Place(p) \in {"connect", "exit"}
  BY Zenon
<1>1. PICK c \in Commands[u] :
        LET p == parse_cmd_opts(c.sub, c.opts)
        IN  Becomes(u, New(c, p, proc[u].ran + 1, Place(p), Code(p)))
  BY Zenon DEF RdciStart
<1> HIDE DEF Place, Code, New
<1>a. PICK q, x, s, p : Becomes(u, q) /\ q = New(c, p, x, Place(p), s)
  BY <1>1, Zenon
<1>2. c.sub \in SubSystems
  BY RdciConstants, Zenon
<1>3. /\ Shape(q) /\ q.sub = c.sub /\ q.at \in {"connect", "exit"} /\ q.made = None
      /\ q.group = None /\ q.fgroup = None /\ q.cleanup = FALSE /\ q.alone = TRUE
  <2>1. q = [ran |-> x, sub |-> c.sub, cmd |-> p, at |-> Place(p), todo |-> <<>>, ids |-> {},
             made |-> None, group |-> None, fgroup |-> None, reg |-> FALSE, cleanup |-> FALSE,
             turns |-> 0, term |-> FALSE, alone |-> TRUE, code |-> s]
    BY <1>a, Zenon DEF NoProcess, New
  <2> QED
    BY <2>1, <1>0, Zenon DEF Shape
<1>4. ~OwnFields(q)
  BY <1>3, Zenon DEF OwnFields
<1>5. UNCHANGED gvars /\ watching' = watching
  BY Zenon DEF RdciStart, wvars
<1>6. RegistryStep
  BY <1>5, RegistrySteps, Zenon
<1>7. ProcOK(q, cur_group_id_', cur_field_group_id_')
  BY <1>2, <1>3, <1>4, Zenon DEF ProcOK, DmonOK, SubSystems, DmonPlaces, Watched
<1>8. <<None, None>> \notin watching
  BY DEF RInv, Registry, None
<1>9. Linked(q, DOMAIN gpu_group_', DOMAIN field_group_', watching)
  BY <1>3, <1>4, <1>8, Zenon DEF Linked
<1>10. \A v \in Users \ {u} : Apart(q, proc[v]) /\ Apart(proc[v], q)
  BY <1>3, <1>4, QuietApart, Zenon
<1> QED
  BY <1>a, <1>5, <1>6, <1>7, <1>9, <1>10, StepKeeps, Zenon

\* The id of a new group is that of no other.
LEMMA MakeGroupKeeps ==
  ASSUME RInv, NEW u \in Users, GroupCreate(u) \/ DmonMakeGroup(u)
  PROVE  RInv'
<1>1. PICK c \in BOOLEAN :
        /\ MakeGroup(u, c) /\ watching' = watching
        /\ \/ proc[u].at = "group" /\ c = FALSE
           \/ proc[u].at = "dmon" /\ c = TRUE /\ proc[u].cmd.gpus # <<>>
  BY Zenon DEF GroupCreate, DmonMakeGroup, MakeGroup, Runs, At, Cmd, wvars
<1>2. RegistryStep
  BY <1>1, RegistrySteps, Zenon DEF MakeGroup
<1>3. CASE Throw(u, "MAX_LIMIT")
  BY <1>1, <1>2, <1>3, EndPlain, PlainKeeps, Zenon DEF SubSystems
<1>4. CASE ~Throw(u, "MAX_LIMIT")
  <2>1. PICK q : /\ Becomes(u, q)
                 /\ q = [proc[u] EXCEPT !.at = "add", !.made = cur_group_id_,
                                        !.todo = Cmd(u).gpus, !.cleanup = c]
    BY <1>1, <1>4, Zenon DEF MakeGroup
  <2>2. cur_group_id_' = cur_group_id_ + 1 /\ cur_field_group_id_' = cur_field_group_id_
    BY <1>1, <1>4, Zenon DEF MakeGroup, GroupGpuCreate
  <2>3. Shape(proc[u]) /\ ProcOK(proc[u], cur_group_id_, cur_field_group_id_)
        /\ proc[u].at = proc[u].sub /\ proc[u].fgroup = None /\ proc[u].group = None
    BY <1>1, OfUser, Zenon DEF ProcOK, DmonOK, SubSystems
  <2>4. /\ Shape(q) /\ q.sub = proc[u].sub /\ q.cmd = proc[u].cmd /\ q.at = "add"
        /\ q.made = cur_group_id_ /\ q.group = None /\ q.fgroup = None /\ q.cleanup = c
        /\ q.alone = proc[u].alone
    BY <2>1, <2>3, Zenon DEF Shape
  <2>5. ~OwnFields(q) /\ cur_group_id_ \in Nat \ {0} /\ cur_group_id_ # None
    <3>1. cur_group_id_ \in Nat \ {0}
      BY Zenon DEF RInv, Registry
    <3> QED
      BY <2>4, <3>1 DEF OwnFields, None
  <2>6. ProcOK(q, cur_group_id_', cur_field_group_id_')
    <3>1. q.sub = "dmon" => DmonOK(q, cur_field_group_id_')
      BY <1>1, <2>3, <2>4, <2>5, Zenon DEF DmonOK, Watched
    <3>2. q.cleanup => q.sub = "dmon"
      BY <1>1, <2>3, <2>4, Zenon
    <3>3. q.cleanup \in BOOLEAN /\ q.alone \in BOOLEAN
      BY <1>1, <2>3, <2>4, Zenon DEF ProcOK
    <3>4. q.made \in 1 .. (cur_group_id_' - 1)
      BY <2>2, <2>4, <2>5
    <3> QED
      BY <2>4, <3>1, <3>2, <3>3, <3>4, Zenon DEF ProcOK, SubSystems, DmonPlaces, Watched
  <2>7. Linked(q, DOMAIN gpu_group_', DOMAIN field_group_', watching)
    BY <2>4, Zenon DEF Linked
  <2>8. \A v \in Users \ {u} : proc[v].made # cur_group_id_
    <3>1. ASSUME NEW v \in Users \ {u}, proc[v].made = cur_group_id_
          PROVE  FALSE
      <4>1. ProcOK(proc[v], cur_group_id_, cur_field_group_id_)
        BY OfUser, Zenon
      <4>2. cur_group_id_ \in 1 .. (cur_group_id_ - 1)
        BY <2>5, <3>1, <4>1, Zenon DEF ProcOK
      <4> QED
        BY <2>5, <4>2
    <3> QED
      BY <3>1, Zenon
  <2>9. \A v \in Users \ {u} : Apart(q, proc[v]) /\ Apart(proc[v], q)
    BY <2>4, <2>5, <2>8, QuietApart, Zenon
  <2> QED
    BY <1>1, <1>2, <2>1, <2>6, <2>7, <2>9, StepKeeps, Zenon
<1> QED
  BY <1>3, <1>4, Zenon

\* The GPU group is in use from now on; a group given by its id is not one
\* that was made.
LEMMA GroupKeeps ==
  ASSUME RInv, NEW u \in Users, DmonGroupMade(u) \/ DmonGivenGroup(u)
  PROVE  RInv'
<1>1. UNCHANGED gvars /\ watching' = watching
  BY Zenon DEF DmonGroupMade, DmonGivenGroup, wvars
<1>2. RegistryStep /\ cur_group_id_' = cur_group_id_ /\ cur_field_group_id_' = cur_field_group_id_
  BY <1>1, RegistrySteps, Zenon DEF gvars
<1>3. /\ ProcOK(proc[u], cur_group_id_, cur_field_group_id_) /\ Shape(proc[u])
      /\ \A v \in Users \ {u} : Apart(proc[u], proc[v])
  BY OfUser, Zenon DEF ProcOK
<1>4. SUFFICES ASSUME NEW q, Becomes(u, q), Shape(q), q.sub = proc[u].sub, proc[u].sub = "dmon",
                      q.cmd = proc[u].cmd, q.made = proc[u].made,
                      q.cleanup = proc[u].cleanup, q.alone = proc[u].alone,
                      q.at \in {"temp_fields", "info"},
                      q.at = "temp_fields" => q.fgroup = None,
                      OwnFields(q) = OwnFields(proc[u]), OwnFields(q) => q.fgroup = proc[u].fgroup,
                      proc[u].at \in {"dmon", "add", "temp_fields"},
                      proc[u].cmd.gpus # <<>> /\ q.group # None => q.group = proc[u].made
               PROVE  RInv'
  <2>1. CASE DmonGroupMade(u)
    <3>1. PICK q : Becomes(u, q) /\ q = [proc[u] EXCEPT !.at = "temp_fields", !.group = proc[u].made]
      BY <2>1, Zenon DEF DmonGroupMade
    <3>2. /\ Shape(q) /\ q.sub = proc[u].sub /\ q.cmd = proc[u].cmd /\ q.made = proc[u].made
          /\ q.cleanup = proc[u].cleanup /\ q.alone = proc[u].alone /\ q.at = "temp_fields"
          /\ q.fgroup = proc[u].fgroup /\ q.group = proc[u].made
      BY <1>3, <3>1, Zenon DEF Shape
    <3>3. proc[u].at = "add" /\ proc[u].sub = "dmon"
      BY <2>1, Zenon DEF DmonGroupMade, At
    <3>4. proc[u].fgroup = None
      BY <1>3, <3>3, Zenon DEF ProcOK, DmonOK
    <3> QED
      BY <1>4, <3>1, <3>2, <3>3, <3>4, Zenon DEF OwnFields
  <2>2. CASE /\ Runs(u, "dmon", "monitor") /\ Cmd(u).gpus = <<>>
             /\ Becomes(u, [proc[u] EXCEPT !.at = "temp_fields", !.group = Cmd(u).group])
    <3>1. PICK q, x : Becomes(u, q) /\ q = [proc[u] EXCEPT !.at = "temp_fields", !.group = x]
      BY <2>2, Zenon
    <3>2. /\ Shape(q) /\ q.sub = proc[u].sub /\ q.cmd = proc[u].cmd /\ q.made = proc[u].made
          /\ q.cleanup = proc[u].cleanup /\ q.alone = proc[u].alone /\ q.at = "temp_fields"
          /\ q.fgroup = proc[u].fgroup
      BY <1>3, <3>1, Zenon DEF Shape
    <3>3. proc[u].at = "dmon" /\ proc[u].sub = "dmon" /\ proc[u].cmd.gpus = <<>>
      BY <1>3, <2>2, Zenon DEF Runs, At, Cmd, ProcOK, SubSystems
    <3>4. proc[u].fgroup = None
      BY <1>3, <3>3, Zenon DEF ProcOK, DmonOK
    <3> QED
      BY <1>4, <3>1, <3>2, <3>3, <3>4, Zenon DEF OwnFields
  <2>3. CASE /\ At(u, "temp_fields") /\ Cmd(u).fields = <<>>
             /\ Becomes(u, [proc[u] EXCEPT !.at = "info", !.fgroup = Cmd(u).fgroup])
    <3>1. PICK q, x : Becomes(u, q) /\ q = [proc[u] EXCEPT !.at = "info", !.fgroup = x]
      BY <2>3, Zenon
    <3>2. /\ Shape(q) /\ q.sub = proc[u].sub /\ q.cmd = proc[u].cmd /\ q.made = proc[u].made
          /\ q.cleanup = proc[u].cleanup /\ q.alone = proc[u].alone /\ q.at = "info"
          /\ q.group = proc[u].group
      BY <1>3, <3>1, Zenon DEF Shape
    <3>3. proc[u].at = "temp_fields" /\ proc[u].sub = "dmon" /\ proc[u].cmd.fields = <<>>
      BY <1>3, <2>3, Zenon DEF At, Cmd, ProcOK, DmonPlaces
    <3>4. proc[u].cmd.gpus # <<>> /\ q.group # None => q.group = proc[u].made
      BY <1>3, <3>2, <3>3, Zenon DEF ProcOK, DmonOK
    <3> QED
      BY <1>4, <3>1, <3>2, <3>3, <3>4, Zenon DEF OwnFields
  <2> QED
    BY <2>1, <2>2, <2>3, Zenon DEF DmonGivenGroup
<1>5. ProcOK(q, cur_group_id_', cur_field_group_id_')
  <2>1. DmonOK(proc[u], cur_field_group_id_) /\ proc[u].cleanup \in BOOLEAN
    BY <1>3, <1>4, Zenon DEF ProcOK
  <2>2. DmonOK(q, cur_field_group_id_)
    BY <1>4, <2>1, Zenon DEF DmonOK, Watched
  <2> QED
    BY <1>2, <1>3, <1>4, <2>2, Zenon DEF ProcOK, SubSystems
<1>6. Linked(q, DOMAIN gpu_group_', DOMAIN field_group_', watching)
  BY <1>4, Zenon DEF Linked
<1>7. \A v \in Users \ {u} : Apart(q, proc[v]) /\ Apart(proc[v], q)
  <2>1. \A v \in Users \ {u} :
          /\ q.made # None => q.made # proc[v].made
          /\ OwnFields(q) /\ OwnFields(proc[v]) => q.fgroup # proc[v].fgroup
    BY <1>3, <1>4, Zenon DEF Apart
  <2> QED
    BY <1>4, <2>1, QuietApart, Zenon
<1> QED
  BY <1>1, <1>2, <1>4, <1>5, <1>6, <1>7, StepKeeps, Zenon

\* The id of a new field group is that of no other.
LEMMA MakeFieldsKeeps ==
  ASSUME RInv, NEW u \in Users, DmonMakeFieldGroup(u)
  PROVE  RInv'
<1>1. proc[u].at = "temp_fields" /\ proc[u].cmd.fields # <<>> /\ watching' = watching
  BY Zenon DEF DmonMakeFieldGroup, MakeFieldGroup, At, Cmd, wvars
<1>2. RegistryStep
  BY Zenon, RegistrySteps DEF DmonMakeFieldGroup, MakeFieldGroup
<1>3. CASE Throw(u, "BAD_PARAMETER")
  BY <1>1, <1>2, <1>3, ThrowMoves, PlainKeeps, Zenon DEF Plain
<1>4. CASE ~Throw(u, "BAD_PARAMETER")
  <2>1. PICK q : /\ Becomes(u, q)
                 /\ q = [proc[u] EXCEPT !.at = "info", !.fgroup = cur_field_group_id_,
                                        !.cleanup = TRUE]
    BY <1>4, Zenon DEF DmonMakeFieldGroup, MakeFieldGroup
  <2>2. cur_field_group_id_' = cur_field_group_id_ + 1 /\ cur_group_id_' = cur_group_id_
    BY <1>4, Zenon DEF DmonMakeFieldGroup, MakeFieldGroup, GroupFieldCreate
  <2>3. Shape(proc[u]) /\ ProcOK(proc[u], cur_group_id_, cur_field_group_id_)
        /\ proc[u].sub = "dmon" /\ cur_field_group_id_ \in Nat \ {0}
    BY <1>1, OfUser, Zenon DEF ProcOK, DmonPlaces
  <2>4. /\ Shape(q) /\ q.sub = "dmon" /\ q.cmd = proc[u].cmd /\ q.at = "info"
        /\ q.made = proc[u].made /\ q.group = proc[u].group
        /\ q.fgroup = cur_field_group_id_ /\ q.cleanup = TRUE /\ q.alone = proc[u].alone
    BY <2>1, <2>3, Zenon DEF Shape
  <2>5. OwnFields(q)
    BY <1>1, <2>3, <2>4 DEF OwnFields, None
  <2>6. ProcOK(q, cur_group_id_', cur_field_group_id_')
    <3>1. DmonOK(proc[u], cur_field_group_id_)
      BY <2>3, Zenon DEF ProcOK
    <3>2. DmonOK(q, cur_field_group_id_')
      BY <2>2, <2>3, <2>4, <2>5, <3>1, SMTT(30) DEF DmonOK, Watched
    <3> QED
      BY <2>2, <2>3, <2>4, <3>2, Zenon DEF ProcOK, SubSystems
  <2>7. Linked(q, DOMAIN gpu_group_', DOMAIN field_group_', watching)
    BY <2>4, Zenon DEF Linked
  <2>8. \A v \in Users \ {u} :
          /\ q.made # None => q.made # proc[v].made
          /\ OwnFields(proc[v]) => cur_field_group_id_ # proc[v].fgroup
    <3>1. ASSUME NEW v \in Users \ {u}, OwnFields(proc[v])
          PROVE  proc[v].fgroup \in 1 .. (cur_field_group_id_ - 1)
      <4>1. ProcOK(proc[v], cur_group_id_, cur_field_group_id_)
        BY OfUser, Zenon
      <4> QED
        BY <3>1, <4>1, Zenon DEF ProcOK, DmonOK, OwnFields
    <3>2. ASSUME NEW v \in Users \ {u}, q.made # None
          PROVE  q.made # proc[v].made
      BY <3>2, <2>4, OfUser, ZenonT(30) DEF Apart
    <3> QED
      BY <2>3, <3>1, <3>2
  <2>9. \A v \in Users \ {u} : Apart(q, proc[v]) /\ Apart(proc[v], q)
    BY <2>4, <2>8, QuietApart, Zenon
  <2> QED
    BY <1>1, <1>2, <2>1, <2>6, <2>7, <2>9, StepKeeps, Zenon
<1> QED
  BY <1>3, <1>4, Zenon

-----------------------------------------------------------------------------
(* The steps that watch and that clean up *)

\* rdc_group_gpu_destroy, and then rdc_group_field_destroy, of what was made.
LEMMA CleanUpGroupKeeps ==
  ASSUME RInv, NEW u \in Users, CleanUpGroup(u)
  PROVE  RInv'
<1>1. proc[u].at = "ungroup" /\ watching' = watching
  BY Zenon DEF CleanUpGroup, Orphaned, At
<1>2. RegistryStep
  BY Zenon, RegistrySteps DEF CleanUpGroup
<1>3. cur_group_id_' = cur_group_id_ /\ cur_field_group_id_' = cur_field_group_id_
  BY Zenon DEF CleanUpGroup, GroupGpuDestroy, gvars
<1>4. proc[u].cmd.gpus # <<>> => proc[u].group \notin DOMAIN gpu_group_'
  BY Zenon DEF CleanUpGroup, GroupGpuDestroy, MapErase, gvars, Cmd
<1>5. /\ ProcOK(proc[u], cur_group_id_, cur_field_group_id_) /\ Shape(proc[u])
      /\ proc[u].sub = "dmon" /\ DmonOK(proc[u], cur_field_group_id_)
      /\ Linked(proc[u], DOMAIN gpu_group_, DOMAIN field_group_, watching)
      /\ \A v \in Users \ {u} : Apart(proc[u], proc[v])
  BY <1>1, OfUser, Zenon DEF ProcOK, DmonPlaces, Watched
<1>6. PICK q : Going(proc[u], "unfields", 0, q) /\ Becomes(u, q)
  BY Zenon DEF CleanUpGroup, Goto, Going
<1>7. /\ Shape(q) /\ q.at = "unfields" /\ q.sub = proc[u].sub /\ q.cmd = proc[u].cmd
      /\ q.made = proc[u].made /\ q.group = proc[u].group /\ q.fgroup = proc[u].fgroup
      /\ q.cleanup = proc[u].cleanup /\ q.alone = proc[u].alone
      /\ OwnFields(q) = OwnFields(proc[u])
  <2>1. Same(proc[u], q) /\ q.at = "unfields"
    BY <1>5, <1>6, SameGoing, Zenon
  <2> QED
    BY <2>1, Zenon DEF Same, OwnFields
<1>8. ProcOK(q, cur_group_id_', cur_field_group_id_')
  <2>1. DmonOK(q, cur_field_group_id_)
    BY <1>1, <1>5, <1>7, Zenon DEF DmonOK, Watched
  <2> QED
    BY <1>3, <1>5, <1>7, <2>1, Zenon DEF ProcOK, SubSystems
<1>9. Linked(q, DOMAIN gpu_group_', DOMAIN field_group_', watching)
  BY <1>1, <1>4, <1>5, <1>7, Zenon DEF Linked, DmonOK
<1>10. \A v \in Users \ {u} : Apart(q, proc[v]) /\ Apart(proc[v], q)
  <2>1. \A v \in Users \ {u} :
          /\ q.made # None => q.made # proc[v].made
          /\ OwnFields(q) /\ OwnFields(proc[v]) => q.fgroup # proc[v].fgroup
    BY <1>5, <1>7, Zenon DEF Apart
  <2> QED
    BY <1>7, <2>1, QuietApart, Zenon
<1> QED
  BY <1>1, <1>2, <1>6, <1>8, <1>9, <1>10, StepKeeps, Zenon

\* The last step of clean_up.
LEMMA CleanUpFieldsKeeps ==
  ASSUME RInv, NEW u \in Users, CleanUpFields(u)
  PROVE  RInv'
<1>1. proc[u].at = "unfields" /\ watching' = watching
  BY Zenon DEF CleanUpFields, Orphaned, At
<1>2. RegistryStep
  BY Zenon, RegistrySteps DEF CleanUpFields
<1>3. /\ cur_group_id_' = cur_group_id_ /\ cur_field_group_id_' = cur_field_group_id_
      /\ gpu_group_' = gpu_group_
  BY Zenon DEF CleanUpFields, GroupFieldDestroy, gvars
<1>4. proc[u].cmd.fields # <<>> /\ proc[u].fgroup # JOB_FIELD_ID =>
        proc[u].fgroup \notin DOMAIN field_group_'
  BY Zenon DEF CleanUpFields, GroupFieldDestroy, MapErase, gvars, Cmd
<1>5. /\ ProcOK(proc[u], cur_group_id_, cur_field_group_id_) /\ Shape(proc[u])
      /\ proc[u].sub = "dmon" /\ DmonOK(proc[u], cur_field_group_id_)
      /\ Linked(proc[u], DOMAIN gpu_group_, DOMAIN field_group_, watching)
      /\ \A v \in Users \ {u} : Apart(proc[u], proc[v])
  BY <1>1, OfUser, Zenon DEF ProcOK, DmonPlaces, Watched
<1>6. PICK q : Becomes(u, q) /\ q = [proc[u] EXCEPT !.at = "exit", !.cleanup = FALSE]
  BY Zenon DEF CleanUpFields
<1>7. /\ Shape(q) /\ q.at = "exit" /\ q.sub = proc[u].sub /\ q.cmd = proc[u].cmd
      /\ q.made = proc[u].made /\ q.group = proc[u].group /\ q.fgroup = proc[u].fgroup
      /\ q.cleanup = FALSE /\ q.alone = proc[u].alone
  BY <1>5, <1>6, Zenon DEF Shape
<1>8. OwnFields(q) = OwnFields(proc[u])
  BY <1>7, Zenon DEF OwnFields
<1>9. ProcOK(q, cur_group_id_', cur_field_group_id_')
  <2>1. DmonOK(q, cur_field_group_id_)
    BY <1>1, <1>5, <1>7, <1>8, Zenon DEF DmonOK, Watched
  <2> QED
    BY <1>3, <1>5, <1>7, <2>1, Zenon DEF ProcOK, SubSystems, DmonPlaces, Watched
<1>10. OwnFields(q) => q.fgroup \notin DOMAIN field_group_'
  <2>1. OwnFields(q) => proc[u].fgroup # JOB_FIELD_ID /\ proc[u].cmd.fields # <<>>
    BY <1>5, <1>8 DEF DmonOK, JOB_FIELD_ID, OwnFields
  <2> QED
    BY <1>4, <1>7, <2>1, ZenonT(30)
<1>11. Linked(q, DOMAIN gpu_group_', DOMAIN field_group_', watching)
  BY <1>1, <1>3, <1>5, <1>7, <1>10, Zenon DEF Linked
<1>12. \A v \in Users \ {u} : Apart(q, proc[v]) /\ Apart(proc[v], q)
  <2>1. \A v \in Users \ {u} :
          /\ q.made # None => q.made # proc[v].made
          /\ OwnFields(q) /\ OwnFields(proc[v]) => q.fgroup # proc[v].fgroup
    BY <1>5, <1>7, <1>8, Zenon DEF Apart
  <2> QED
    BY <1>7, <2>1, QuietApart, Zenon
<1> QED
  BY <1>1, <1>2, <1>6, <1>9, <1>11, <1>12, StepKeeps, Zenon

\* rdc_field_unwatch of the pair.
LEMMA CleanUpWatchKeeps ==
  ASSUME RInv, NEW u \in Users, CleanUpWatch(u)
  PROVE  RInv'
<1>1. proc[u].at = "unwatch" /\ UNCHANGED gvars
  BY Zenon DEF CleanUpWatch, At
<1>2. watching' \subseteq watching /\ Pair(u) \notin watching'
  <2>1. CASE FieldUnwatch(Pair(u))
    BY <2>1, Zenon DEF FieldUnwatch
  <2>2. CASE NoEntry(Pair(u))
    BY <2>2, Zenon DEF NoEntry
  <2> QED
    BY <2>1, <2>2, Zenon DEF CleanUpWatch
<1>4. /\ ProcOK(proc[u], cur_group_id_, cur_field_group_id_) /\ Shape(proc[u])
      /\ proc[u].sub = "dmon" /\ DmonOK(proc[u], cur_field_group_id_)
      /\ \A v \in Users \ {u} : Apart(proc[u], proc[v])
  BY <1>1, OfUser, Zenon DEF ProcOK, DmonPlaces, Watched
<1>5. PICK q : Going(proc[u], "ungroup", 0, q) /\ Becomes(u, q)
  BY Zenon DEF CleanUpWatch, Goto, Going
<1>6. /\ Shape(q) /\ q.at = "ungroup" /\ q.sub = proc[u].sub /\ q.cmd = proc[u].cmd
      /\ q.made = proc[u].made /\ q.group = proc[u].group /\ q.fgroup = proc[u].fgroup
      /\ q.cleanup = proc[u].cleanup /\ q.alone = proc[u].alone
      /\ OwnFields(q) = OwnFields(proc[u])
  <2>1. Same(proc[u], q) /\ q.at = "ungroup"
    BY <1>4, <1>5, SameGoing, Zenon
  <2> QED
    BY <2>1, Zenon DEF Same, OwnFields
<1>7. ProcOK(q, cur_group_id_, cur_field_group_id_)
  <2>1. DmonOK(q, cur_field_group_id_)
    BY <1>1, <1>4, <1>6, Zenon DEF DmonOK, Watched
  <2> QED
    BY <1>4, <1>6, <2>1, Zenon DEF ProcOK, SubSystems
<1>8. Linked(q, DOMAIN gpu_group_, DOMAIN field_group_, watching')
  BY <1>2, <1>6, Zenon DEF Linked, Pair
<1>9. ASSUME NEW v \in Users \ {u}
      PROVE  Linked(proc[v], DOMAIN gpu_group_, DOMAIN field_group_, watching')
  <2>1. Linked(proc[v], DOMAIN gpu_group_, DOMAIN field_group_, watching)
    BY Zenon DEF RInv
  <2> QED
    BY <1>2, <2>1, Zenon DEF Linked
<1>10. \A v \in Users \ {u} : Apart(q, proc[v]) /\ Apart(proc[v], q)
  <2>1. \A v \in Users \ {u} :
          /\ q.made # None => q.made # proc[v].made
          /\ OwnFields(q) /\ OwnFields(proc[v]) => q.fgroup # proc[v].fgroup
    BY <1>4, <1>6, Zenon DEF Apart
  <2> QED
    BY <1>6, <2>1, QuietApart, Zenon
<1>11. /\ proc'[u] = q /\ \A v \in Users \ {u} : proc'[v] = proc[v]
       /\ proc' = [v \in Users |-> proc'[v]]
  BY <1>5, Zenon DEF RInv, Becomes
<1>12. \A v, w \in Users : v # w => Apart(proc'[v], proc'[w])
  BY <1>10, <1>11, Zenon DEF RInv
<1>13. \A v \in Users : /\ ProcOK(proc'[v], cur_group_id_, cur_field_group_id_)
                        /\ Linked(proc'[v], DOMAIN gpu_group_, DOMAIN field_group_, watching')
  BY <1>7, <1>8, <1>9, <1>11, Zenon DEF RInv
<1> QED
  BY <1>1, <1>2, <1>11, <1>12, <1>13, Zenon DEF RInv, gvars

\* A process whose pair another one begins to watch is no longer alone.
NoLongerAlone(p, q) == q = [p EXCEPT !.alone = FALSE]

\* A dmon that learns of another one on the same pair.
LEMMA Unalone ==
  ASSUME NEW p, NEW n, NEW m, ProcOK(p, n, m), NEW q, NoLongerAlone(p, q)
  PROVE  /\ ProcOK(q, n, m) /\ ~q.alone
         /\ q.at = p.at /\ q.sub = p.sub /\ q.cmd = p.cmd /\ q.made = p.made
         /\ q.group = p.group /\ q.fgroup = p.fgroup
<1>1. /\ Shape(q) /\ q.alone = FALSE /\ q.cleanup = p.cleanup
      /\ q.at = p.at /\ q.sub = p.sub /\ q.cmd = p.cmd /\ q.made = p.made
      /\ q.group = p.group /\ q.fgroup = p.fgroup
  BY Zenon DEF ProcOK, Shape, NoLongerAlone
<1>2. DmonOK(p, m) => DmonOK(q, m)
  BY <1>1, ZenonT(30) DEF DmonOK, OwnFields
<1> QED
  BY <1>1, <1>2, Zenon DEF ProcOK

\* rdc_field_watch of the pair.
LEMMA WatchKeeps ==
  ASSUME RInv, NEW u \in Users, DmonWatch(u)
  PROVE  RInv'
<1> DEFINE n == cur_group_id_
           m == cur_field_group_id_
           G == DOMAIN gpu_group_
           F == DOMAIN field_group_
<1>1. proc[u].at = "watch" /\ UNCHANGED gvars
  BY Zenon DEF DmonWatch, At
<1>2. /\ \A w \in watching' : w \in watching \/ w = Pair(u)
      /\ \/ Pair(u) \notin watching' \/ Pair(u) \in watching
         \/ proc[u].group \in G /\ proc[u].fgroup \in F
  <2>1. CASE Pair(u) \in watching
    <3>1. watching' = watching
      BY <2>1, Zenon DEF DmonWatch, FieldWatch, wvars
    <3> QED
      BY <2>1, <3>1, Zenon
  <2>2. CASE Pair(u) \notin watching
    <3>1. watching' = IF HasFields(Pair(u)[1], Pair(u)[2]) THEN watching \cup {Pair(u)} ELSE watching
      BY <2>2, Zenon DEF DmonWatch, FieldWatch
    <3>2. Pair(u)[1] = proc[u].group /\ Pair(u)[2] = proc[u].fgroup
      BY DEF Pair
    <3> QED
      BY <2>2, <3>1, <3>2, Zenon DEF HasFields
  <2> QED
    BY <2>1, <2>2, Zenon
<1>3. watching' \subseteq (1 .. (n - 1)) \X (0 .. (m - 1))
  <2> DEFINE T == (1 .. (n - 1)) \X (0 .. (m - 1))
  <2>1. watching \subseteq T
    BY Zenon DEF RInv
  <2>2. proc[u].group \in G /\ proc[u].fgroup \in F => Pair(u) \in T
    BY Zenon DEF RInv, Registry, Pair
  <2>3. ASSUME NEW w \in watching' PROVE w \in T
    <3>1. CASE w \in watching
      BY <2>1, <3>1, Zenon
    <3>2. CASE w = Pair(u) /\ w \notin watching
      <4>1. proc[u].group \in G /\ proc[u].fgroup \in F
        BY <1>2, <3>2, Zenon
      <4> QED
        BY <2>2, <3>2, <4>1, Zenon
    <3> QED
      BY <1>2, <3>1, <3>2, Zenon
  <2> QED
    BY <2>3, Zenon
<1>4. /\ ProcOK(proc[u], n, m) /\ Shape(proc[u]) /\ proc[u].sub = "dmon" /\ DmonOK(proc[u], m)
      /\ \A v \in Users \ {u} : Apart(proc[u], proc[v])
  BY <1>1, OfUser, Zenon DEF ProcOK, DmonPlaces
<1>5. PICK q, t : /\ proc'[u] = q
                  /\ q = [proc[u] EXCEPT !.at = "turn", !.cleanup = TRUE, !.turns = t,
                                         !.alone = Alone(u)]
  BY Zenon DEF DmonWatch
<1>6. /\ Shape(q) /\ q.at = "turn" /\ q.sub = "dmon" /\ q.cmd = proc[u].cmd
      /\ q.made = proc[u].made /\ q.group = proc[u].group /\ q.fgroup = proc[u].fgroup
      /\ q.cleanup = TRUE /\ q.alone = Alone(u)
  BY <1>4, <1>5, ZenonT(30) DEF Shape
<1>7. OwnFields(q) = OwnFields(proc[u]) /\ Alone(u) \in BOOLEAN
  BY <1>6, Zenon DEF OwnFields, Alone
<1>8. ProcOK(q, n, m)
  <2>1. DmonOK(q, m)
    BY <1>1, <1>4, <1>6, <1>7, Zenon DEF DmonOK, Watched
  <2> QED
    BY <1>4, <1>6, <1>7, <2>1, Zenon DEF ProcOK, SubSystems
<1>9. Linked(q, G, F, watching')
  BY <1>6, Zenon DEF Linked
<1>10. ASSUME NEW v \in Users \ {u}
       PROVE  /\ ProcOK(proc'[v], n, m)
              /\ proc'[v].at = proc[v].at /\ proc'[v].sub = proc[v].sub
              /\ proc'[v].cmd = proc[v].cmd /\ proc'[v].made = proc[v].made
              /\ proc'[v].group = proc[v].group /\ proc'[v].fgroup = proc[v].fgroup
              /\ proc'[v].alone => proc[v].alone /\ Pair(v) # Pair(u)
  <2>1. ProcOK(proc[v], n, m)
    BY OfUser, Zenon
  <2>2. CASE Pair(v) = Pair(u)
    <3>1. PICK r : NoLongerAlone(proc[v], r) /\ proc'[v] = r
      BY <2>2, Zenon DEF DmonWatch, NoLongerAlone
    <3>2. /\ ProcOK(r, n, m) /\ ~r.alone
          /\ r.at = proc[v].at /\ r.sub = proc[v].sub /\ r.cmd = proc[v].cmd
          /\ r.made = proc[v].made /\ r.group = proc[v].group /\ r.fgroup = proc[v].fgroup
      BY <2>1, <3>1, Unalone, SMTT(30)
    <3> QED
      BY <3>1, <3>2, Zenon
  <2>3. CASE Pair(v) # Pair(u)
    <3>1. proc'[v] = proc[v]
      BY <2>3, Zenon DEF DmonWatch
    <3> QED
      BY <2>1, <2>3, <3>1, Zenon
  <2> QED
    BY <2>2, <2>3, Zenon
<1>11. \A v \in Users \ {u} : OwnFields(proc'[v]) = OwnFields(proc[v])
  BY <1>10, Zenon DEF OwnFields
<1>12. ASSUME NEW v \in Users \ {u}
       PROVE  Linked(proc'[v], G, F, watching')
  <2>1. Linked(proc[v], G, F, watching)
    BY Zenon DEF RInv
  <2>2. proc'[v].alone /\ <<proc[v].group, proc[v].fgroup>> \in watching' =>
          <<proc[v].group, proc[v].fgroup>> \in watching
    BY <1>2, <1>10, Zenon DEF Pair
  <2> QED
    BY <2>1, <2>2, <1>10, <1>11, Zenon DEF Linked
<1>13. ASSUME NEW v \in Users \ {u}
       PROVE  Apart(q, proc'[v]) /\ Apart(proc'[v], q)
  <2>1. Apart(proc[u], proc[v]) /\ Apart(proc[v], proc[u])
    BY OfUser, Zenon
  <2> QED
    BY <1>6, <1>7, <1>10, <1>11, <2>1, Zenon DEF Apart
<1>14. ASSUME NEW v \in Users \ {u}, NEW w \in Users \ {u}, v # w
       PROVE  Apart(proc'[v], proc'[w])
  <2>1. Apart(proc[v], proc[w])
    BY <1>14, Zenon DEF RInv
  <2> QED
    BY <1>10, <1>11, <2>1, Zenon DEF Apart
<1>15. proc' = [v \in Users |-> proc'[v]]
  BY Zenon DEF DmonWatch
<1>16. \A v \in Users : ProcOK(proc'[v], n, m) /\ Linked(proc'[v], G, F, watching')
  BY <1>5, <1>8, <1>9, <1>10, <1>12, Zenon
<1>17. \A v, w \in Users : v # w => Apart(proc'[v], proc'[w])
  BY <1>5, <1>13, <1>14, ZenonT(30)
<1> QED
  BY <1>1, <1>3, <1>15, <1>16, <1>17, Zenon DEF RInv, gvars

-----------------------------------------------------------------------------
(* The invariant, and what follows from it *)

\* The invariant holds at the start.
LEMMA InitRInv == RdciInit => RInv
<1> SUFFICES ASSUME RdciInit PROVE RInv
  BY Zenon
<1>1. Registry(cur_group_id_, cur_field_group_id_, DOMAIN gpu_group_, DOMAIN field_group_)
  BY DEF RdciInit, GroupInit, EmptyMap, MapPut, JOB_FIELD_ID, Registry
<1>2. watching = {} /\ proc = [u \in Users |-> NoProcess]
  BY Zenon DEF RdciInit
<1>3. \A u \in Users : proc[u] = NoProcess
  BY <1>2, Zenon
<1>4. /\ Shape(NoProcess) /\ NoProcess.sub = "none" /\ NoProcess.at = "shell"
      /\ NoProcess.made = None /\ NoProcess.group = None /\ NoProcess.fgroup = None
      /\ NoProcess.cleanup = FALSE /\ NoProcess.alone = TRUE
  BY Zenon DEF NoProcess, Shape
<1>5. ProcOK(NoProcess, cur_group_id_, cur_field_group_id_)
  BY <1>4, Zenon DEF ProcOK, SubSystems, DmonPlaces, Watched
<1>6. Linked(NoProcess, DOMAIN gpu_group_, DOMAIN field_group_, watching)
  BY <1>4, Zenon DEF Linked
<1>7. Apart(NoProcess, NoProcess)
  BY <1>4, Zenon DEF Apart, OwnFields
<1> QED
  BY <1>1, <1>2, <1>3, <1>5, <1>6, <1>7, Zenon DEF RInv

\* Every step keeps it.
LEMMA NextRInv == RInv /\ [RdciNext]_tvars => RInv'
<1> SUFFICES ASSUME RInv, [RdciNext]_tvars PROVE RInv'
  BY Zenon
<1>1. CASE UNCHANGED tvars
  BY <1>1, Zenon DEF RInv, tvars, gvars, wvars
<1>2. ASSUME NEW u \in Users, RdciStart(u) \/ Interrupt(u) \/ Step(u)
      PROVE  RInv'
  <2>1. CASE RdciStart(u)
    BY <2>1, StartKeeps, Zenon
  <2>2. CASE \/ Interrupt(u) \/ Connect(u) \/ ShowHelp(u) \/ GroupAdd(u) \/ AddGpu(u)
             \/ GroupAdded(u) \/ GroupDelete(u) \/ GroupList(u) \/ GroupInfo(u)
             \/ FieldGroupCreate(u) \/ FieldGroupDelete(u) \/ FieldGroupList(u)
             \/ FieldGroupInfo(u) \/ Stats(u) \/ Diag(u) \/ DiscoveryList(u)
             \/ DiscoveryVersion(u) \/ DmonGroupInfo(u) \/ DmonFieldInfo(u) \/ DmonTurn(u)
    <3>1. Plain(u)
      BY <2>2, InterruptPlain, ConnectPlain, LooksPlain, GroupAddPlain, AddGpuPlain,
         DeletePlain, ListPlain, FieldGroupCreatePlain, DmonInfoPlain, DmonTurnPlain, Zenon
    <3> QED
      BY <3>1, PlainKeeps, Zenon
  <2>3. CASE GroupCreate(u) \/ DmonMakeGroup(u)
    BY <2>3, MakeGroupKeeps, Zenon
  <2>4. CASE DmonGroupMade(u) \/ DmonGivenGroup(u)
    BY <2>4, GroupKeeps, ZenonT(30)
  <2>5. CASE DmonMakeFieldGroup(u)
    BY <2>5, MakeFieldsKeeps, Zenon
  <2>6. CASE DmonWatch(u)
    BY <2>6, WatchKeeps, Zenon
  <2>7. CASE CleanUpWatch(u)
    BY <2>7, CleanUpWatchKeeps, Zenon
  <2>8. CASE CleanUpGroup(u)
    BY <2>8, CleanUpGroupKeeps, Zenon
  <2>9. CASE CleanUpFields(u)
    BY <2>9, CleanUpFieldsKeeps, Zenon
  <2> QED
    BY <1>2, <2>1, <2>2, <2>3, <2>4, <2>5, <2>6, <2>7, <2>8, <2>9, Zenon DEF Step
<1> QED
  BY <1>1, <1>2, Zenon DEF RdciNext

\* It says that a dmon leaves nothing behind.
LEMMA LeavesNothing == RInv => DmonLeavesNothing
<1> SUFFICES ASSUME RInv, NEW u \in Users, At(u, "exit"), proc[u].sub = "dmon"
             PROVE  /\ proc[u].made # None /\ proc[u].group = proc[u].made =>
                         proc[u].made \notin DOMAIN gpu_group_
                    /\ Cmd(u).fields # <<>> /\ proc[u].fgroup # None =>
                         proc[u].fgroup \notin DOMAIN field_group_
                    /\ ~proc[u].cleanup
                    /\ proc[u].alone /\ (Cmd(u).gpus # <<>> \/ Cmd(u).fields # <<>>) =>
                         Pair(u) \notin watching
  BY Zenon DEF DmonLeavesNothing
<1>1. /\ ProcOK(proc[u], cur_group_id_, cur_field_group_id_) /\ proc[u].at = "exit"
      /\ Linked(proc[u], DOMAIN gpu_group_, DOMAIN field_group_, watching)
  BY OfUser, Zenon DEF At
<1>2. ~proc[u].cleanup
  BY <1>1, Zenon DEF ProcOK
<1> QED
  BY <1>1, <1>2, Zenon DEF Linked, OwnFields, Pair, Cmd

-----------------------------------------------------------------------------
(* What is watched is watched for somebody *)

\* A dmon that watches, or is about to unwatch, pair p.
Asked(p) == \E u \in Users : proc[u].at \in {"turn", "unwatch"} /\ Pair(u) = p

\* The calls of the registry that take nothing away.
Grows ==
  \/ UNCHANGED gvars \/ GroupGpuCreate
  \/ \E g, gpu : GroupGpuAdd(g, gpu)
  \/ \E fields : GroupFieldCreate(fields)

\* They take no GPU from a watch either.
LEMMA EventsGrow ==
  ASSUME RInv, Grows, NEW p, NEW gpu \in EventGpus(p)
  PROVE  gpu \in EventGpus(p)'
<1> DEFINE g == p[1]
           f == p[2]
<1>1. /\ g \in DOMAIN gpu_group_ /\ f \in DOMAIN field_group_ /\ gpu \in gpu_group_[g]
      /\ gpu \in GPUs /\ \E x \in field_group_[f] : is_notification_event(x)
  BY Zenon DEF EventGpus, HasFields
<1>2. g # cur_group_id_ /\ f # cur_field_group_id_
  BY <1>1 DEF RInv, Registry
<1> HIDE DEF g, f
<1>3. g \in DOMAIN gpu_group_' /\ gpu \in gpu_group_'[g]
  <2>1. CASE GroupGpuCreate
    BY <2>1, <1>1, <1>2 DEF GroupGpuCreate, MapPut
  <2>2. CASE \E h, x : GroupGpuAdd(h, x)
    BY <2>2, <1>1 DEF GroupGpuAdd, MapPut
  <2>3. CASE gpu_group_' = gpu_group_
    BY <2>3, <1>1, Zenon
  <2> QED
    BY <2>1, <2>2, <2>3, Zenon DEF Grows, gvars, GroupFieldCreate
<1>4. f \in DOMAIN field_group_' /\ \E x \in field_group_'[f] : is_notification_event(x)
  <2>1. CASE \E fields : GroupFieldCreate(fields)
    BY <2>1, <1>1, <1>2 DEF GroupFieldCreate, MapPut
  <2>2. CASE field_group_' = field_group_
    BY <2>2, <1>1, Zenon
  <2> QED
    BY <2>1, <2>2, Zenon DEF Grows, gvars, GroupGpuCreate, GroupGpuAdd
<1> QED
  BY <1>1, <1>3, <1>4, Zenon DEF EventGpus, HasFields, is_notification_event, g, f

\* The four ways in which a step touches the watches.
LEMMA WatchSteps ==
  ASSUME NEW u \in Users, RdciStart(u) \/ Interrupt(u) \/ Step(u)
  PROVE  \/ UNCHANGED wvars /\ Grows
         \/ Orphaned
         \/ DmonWatch(u)
         \/ CleanUpWatch(u)
<1>1. CASE \/ RdciStart(u) \/ Interrupt(u) \/ Connect(u) \/ ShowHelp(u) \/ GroupAdd(u)
           \/ GroupAdded(u) \/ GroupList(u) \/ GroupInfo(u) \/ FieldGroupList(u)
           \/ FieldGroupInfo(u) \/ Stats(u) \/ Diag(u) \/ DiscoveryList(u)
           \/ DiscoveryVersion(u) \/ DmonGroupMade(u) \/ DmonGivenGroup(u)
           \/ DmonGroupInfo(u) \/ DmonFieldInfo(u) \/ DmonTurn(u)
  <2>1. UNCHANGED gvars /\ UNCHANGED wvars
    BY <1>1, ZenonT(30) DEF RdciStart, Interrupt, Connect, ShowHelp, GroupAdd, GroupAdded, GroupList,
       GroupInfo, FieldGroupList, FieldGroupInfo, Stats, Diag, DiscoveryList, DiscoveryVersion,
       DmonGroupMade, DmonGivenGroup, DmonGroupInfo, DmonFieldInfo, DmonTurn
  <2> QED
    BY <2>1, Zenon DEF Grows
<1>2. CASE GroupCreate(u) \/ DmonMakeGroup(u)
  BY <1>2, Zenon DEF GroupCreate, DmonMakeGroup, MakeGroup, Grows
<1>3. CASE FieldGroupCreate(u) \/ DmonMakeFieldGroup(u)
  BY <1>3, Zenon DEF FieldGroupCreate, DmonMakeFieldGroup, MakeFieldGroup, Grows
<1>4. CASE AddGpu(u)
  BY <1>4, Zenon DEF AddGpu, Grows
<1>5. CASE GroupDelete(u) \/ FieldGroupDelete(u) \/ CleanUpGroup(u) \/ CleanUpFields(u)
  BY <1>5, Zenon DEF GroupDelete, FieldGroupDelete, CleanUpGroup, CleanUpFields
<1> QED
  BY <1>1, <1>2, <1>3, <1>4, <1>5, Zenon DEF Step

\* A step that is neither of the last two leaves what u asked for.
LEMMA StillAsked ==
  ASSUME RInv, NEW u \in Users, RdciStart(u) \/ Interrupt(u) \/ Step(u),
         ~DmonWatch(u), ~CleanUpWatch(u), NEW p, Asked(p)
  PROVE  Asked(p)'
<1>1. \E q : /\ Becomes(u, q)
             /\ proc[u].at \in {"turn", "unwatch"} =>
                  /\ q.at \in {"turn", "unwatch"}
                  /\ q.group = proc[u].group /\ q.fgroup = proc[u].fgroup
  <2>1. CASE \/ Interrupt(u) \/ Connect(u) \/ ShowHelp(u) \/ GroupAdd(u) \/ AddGpu(u)
             \/ GroupAdded(u) \/ GroupDelete(u) \/ GroupList(u) \/ GroupInfo(u)
             \/ FieldGroupCreate(u) \/ FieldGroupDelete(u) \/ FieldGroupList(u)
             \/ FieldGroupInfo(u) \/ Stats(u) \/ Diag(u) \/ DiscoveryList(u)
             \/ DiscoveryVersion(u) \/ DmonGroupInfo(u) \/ DmonFieldInfo(u) \/ DmonTurn(u)
    <3>1. Plain(u)
      BY <2>1, InterruptPlain, ConnectPlain, LooksPlain, GroupAddPlain, AddGpuPlain,
         DeletePlain, ListPlain, FieldGroupCreatePlain, DmonInfoPlain, DmonTurnPlain, Zenon
    <3>2. PICK q : Moves(proc[u], q) /\ Becomes(u, q)
      BY <3>1, Zenon DEF Plain
    <3>3. proc[u].at \in {"turn", "unwatch"} => proc[u].sub = "dmon" /\ proc[u].cleanup
      BY OfUser, Zenon DEF ProcOK, DmonOK, DmonPlaces, Watched
    <3>4. proc[u].at \in {"turn", "unwatch"} => q.at \in {"turn", "unwatch"}
      BY <3>2, <3>3, Zenon DEF Moves
    <3> QED
      BY <3>2, <3>4, Zenon DEF Moves, Same
  <2>2. CASE RdciStart(u)
    BY <2>2, Zenon DEF RdciStart
  <2>3. CASE GroupCreate(u) \/ DmonMakeGroup(u)
    BY <2>3, Zenon DEF GroupCreate, DmonMakeGroup, MakeGroup, Runs, At, Throw
  <2>4. CASE DmonGroupMade(u) \/ DmonGivenGroup(u)
    BY <2>4, Zenon DEF DmonGroupMade, DmonGivenGroup, Runs, At
  <2>5. CASE DmonMakeFieldGroup(u)
    BY <2>5, Zenon DEF DmonMakeFieldGroup, MakeFieldGroup, At, Throw
  <2>6. CASE CleanUpGroup(u) \/ CleanUpFields(u)
    BY <2>6, Zenon DEF CleanUpGroup, CleanUpFields, At, Goto
  <2> QED
    BY <2>1, <2>2, <2>3, <2>4, <2>5, <2>6, Zenon DEF Step
<1>2. PICK q : /\ Becomes(u, q)
               /\ proc[u].at \in {"turn", "unwatch"} =>
                    /\ q.at \in {"turn", "unwatch"}
                    /\ q.group = proc[u].group /\ q.fgroup = proc[u].fgroup
  BY <1>1, Zenon
<1>3. proc'[u] = q /\ \A v \in Users \ {u} : proc'[v] = proc[v]
  BY <1>2, Zenon DEF RInv, Becomes
<1>4. PICK v \in Users : proc[v].at \in {"turn", "unwatch"} /\ Pair(v) = p
  BY Zenon DEF Asked
<1>5. proc'[v].at \in {"turn", "unwatch"} /\ <<proc'[v].group, proc'[v].fgroup>> = p
  BY <1>2, <1>3, <1>4, Zenon DEF Pair
<1> QED
  BY <1>5, Zenon DEF Asked, Pair

\* rdc_field_watch is on behalf of u.
LEMMA WatchAsked ==
  ASSUME RInv, NEW u \in Users, DmonWatch(u), \A p \in watching : Asked(p)
  PROVE  \A p \in watching' : Asked(p)'
<1>1. \A p \in watching' : p \in watching \/ p = Pair(u)
  BY Zenon DEF DmonWatch, FieldWatch, wvars
<1>2. Shape(proc[u])
  BY OfUser, Zenon DEF ProcOK
<1>3. PICK t, a : proc'[u] = [proc[u] EXCEPT !.at = "turn", !.cleanup = TRUE, !.turns = t, !.alone = a]
  BY Zenon DEF DmonWatch
<1>4. proc'[u].at = "turn" /\ proc'[u].group = proc[u].group /\ proc'[u].fgroup = proc[u].fgroup
  BY <1>2, <1>3, Zenon DEF Shape
<1>5. ASSUME NEW v \in Users \ {u}
      PROVE  /\ proc'[v].at = proc[v].at
             /\ proc'[v].group = proc[v].group /\ proc'[v].fgroup = proc[v].fgroup
  <2>1. Shape(proc[v])
    BY OfUser, Zenon DEF ProcOK
  <2>2. proc'[v] = proc[v] \/ proc'[v] = [proc[v] EXCEPT !.alone = FALSE]
    BY Zenon DEF DmonWatch
  <2> QED
    BY <2>1, <2>2, Zenon DEF Shape
<1>6. ASSUME NEW p \in watching
      PROVE  Asked(p)'
  <2>1. PICK v \in Users : proc[v].at \in {"turn", "unwatch"} /\ Pair(v) = p
    BY Zenon DEF Asked
  <2>2. v # u
    BY <2>1, Zenon DEF DmonWatch, At
  <2> QED
    BY <2>1, <2>2, <1>5, Zenon DEF Asked, Pair
<1>7. ASSUME NEW p, p = Pair(u)
      PROVE  Asked(p)'
  BY <1>4, <1>7, Zenon DEF Asked, Pair
<1> QED
  BY <1>1, <1>6, <1>7, Zenon

\* rdc_field_unwatch takes away what u asked for, and nothing else.
LEMMA UnwatchAsked ==
  ASSUME RInv, NEW u \in Users, CleanUpWatch(u), \A p \in watching : Asked(p)
  PROVE  \A p \in watching' : Asked(p)'
<1>1. \A p \in watching' : p \in watching /\ p # Pair(u)
  BY Zenon DEF CleanUpWatch, FieldUnwatch, NoEntry
<1>2. \A v \in Users \ {u} : proc'[v] = proc[v]
  BY Zenon DEF CleanUpWatch, Goto, Becomes, RInv
<1>3. ASSUME NEW p \in watching'
      PROVE  Asked(p)'
  <2>1. PICK v \in Users : proc[v].at \in {"turn", "unwatch"} /\ Pair(v) = p
    BY <1>1, Zenon DEF Asked
  <2>2. v \in Users \ {u}
    BY <1>1, <2>1, Zenon
  <2> QED
    BY <1>2, <2>1, <2>2, Zenon DEF Asked, Pair
<1> QED
  BY <1>3, Zenon

\* The GPUs listened on that some unwatch will stop.
Covered(gpu) == \E p \in watching : gpu \in EventGpus(p)

\* They stay covered whatever happens to the groups,
LEMMA StillCovered ==
  ASSUME RInv, (UNCHANGED wvars /\ Grows) \/ Orphaned, \A gpu \in listening \ lost : Covered(gpu)
  PROVE  \A gpu \in (listening \ lost)' : Covered(gpu)'
<1> TAKE gpu \in (listening \ lost)'
<1>1. watching' = watching /\ listening' = listening /\ gpu \in listening \ lost
  BY Zenon DEF wvars, Orphaned
<1>2. PICK p \in watching : gpu \in EventGpus(p)
  BY <1>1, Zenon DEF Covered
<1>3. gpu \in EventGpus(p)'
  <2>1. CASE Grows
    BY <2>1, <1>2, EventsGrow, Zenon
  <2>2. CASE Orphaned
    <3>1. ASSUME gpu \notin EventGpus(p)'
          PROVE  gpu \in lost'
      BY <3>1, <2>2, <1>1, <1>2, SMTT(30) DEF Orphaned
    <3> QED
      BY <3>1, Zenon
  <2> QED
    BY <2>1, <2>2, Zenon
<1> QED
  BY <1>1, <1>2, <1>3, Zenon DEF Covered

\* after a watch,
LEMMA WatchCovered ==
  ASSUME NEW p, FieldWatch(p), UNCHANGED gvars, \A gpu \in listening \ lost : Covered(gpu)
  PROVE  \A gpu \in (listening \ lost)' : Covered(gpu)'
<1>0. \A q : EventGpus(q)' = EventGpus(q)
  BY Zenon DEF EventGpus, HasFields, gvars, is_notification_event
<1> TAKE gpu \in (listening \ lost)'
<1>1. watching \subseteq watching' /\ (gpu \in listening \ lost \/ gpu \in EventGpus(p))
  BY Zenon DEF FieldWatch, wvars
<1>2. CASE gpu \in listening \ lost
  BY <1>0, <1>1, <1>2, Zenon DEF Covered
<1>3. CASE gpu \in EventGpus(p)
  <2>1. HasFields(p[1], p[2])
    BY <1>3, Zenon DEF EventGpus
  <2>2. p \in watching'
    BY <2>1, Zenon DEF FieldWatch, wvars
  <2> QED
    BY <1>0, <1>3, <2>2, Zenon DEF Covered
<1> QED
  BY <1>1, <1>2, <1>3, Zenon

\* and after an unwatch, walked to its end or not.
LEMMA UnwatchCovered ==
  ASSUME NEW p, FieldUnwatch(p) \/ NoEntry(p), UNCHANGED gvars,
         \A gpu \in listening \ lost : Covered(gpu)
  PROVE  \A gpu \in (listening \ lost)' : Covered(gpu)'
<1>0. \A q : EventGpus(q)' = EventGpus(q)
  BY Zenon DEF EventGpus, HasFields, gvars, is_notification_event
<1> TAKE gpu \in (listening \ lost)'
<1>1. CASE NoEntry(p)
  BY <1>0, <1>1, Zenon DEF NoEntry, Covered
<1>2. CASE FieldUnwatch(p)
  <2>1. watching' = watching \ {p} /\ gpu \in listening \ lost /\ gpu \notin EventGpus(p)
    BY <1>2, Zenon DEF FieldUnwatch
  <2>2. PICK q \in watching : gpu \in EventGpus(q)
    BY <2>1, Zenon DEF Covered
  <2> QED
    BY <1>0, <2>1, <2>2, Zenon DEF Covered
<1> QED
  BY <1>1, <1>2, Zenon

\* Every step keeps both halves.
LEMMA NextWatched == RInv /\ NothingStaysWatched /\ [RdciNext]_tvars => NothingStaysWatched'
<1>0. /\ NothingStaysWatched <=> /\ \A p \in watching : Asked(p)
                                 /\ \A gpu \in listening \ lost : Covered(gpu)
      /\ NothingStaysWatched' <=> /\ \A p \in watching' : Asked(p)'
                                  /\ \A gpu \in (listening \ lost)' : Covered(gpu)'
  BY Zenon DEF NothingStaysWatched, Asked, Covered
<1> SUFFICES ASSUME RInv, [RdciNext]_tvars, \A p \in watching : Asked(p),
                    \A gpu \in listening \ lost : Covered(gpu)
             PROVE  /\ \A p \in watching' : Asked(p)'
                    /\ \A gpu \in (listening \ lost)' : Covered(gpu)'
  BY <1>0, Zenon
<1>1. CASE UNCHANGED tvars
  BY <1>1, Zenon DEF tvars, gvars, wvars, Asked, Covered, Pair, EventGpus, HasFields,
     is_notification_event
<1>2. ASSUME NEW u \in Users, RdciStart(u) \/ Interrupt(u) \/ Step(u)
      PROVE  /\ \A p \in watching' : Asked(p)'
             /\ \A gpu \in (listening \ lost)' : Covered(gpu)'
  <2>1. CASE DmonWatch(u)
    BY <2>1, WatchAsked, WatchCovered, Zenon DEF DmonWatch
  <2>2. CASE CleanUpWatch(u)
    BY <2>2, UnwatchAsked, UnwatchCovered, Zenon DEF CleanUpWatch
  <2>3. CASE ~DmonWatch(u) /\ ~CleanUpWatch(u)
    <3>1. (UNCHANGED wvars /\ Grows) \/ Orphaned
      BY <1>2, <2>3, WatchSteps, Zenon
    <3>2. watching' = watching
      BY <3>1, Zenon DEF wvars, Orphaned
    <3> QED
      BY <1>2, <2>3, <3>1, <3>2, StillAsked, StillCovered, Zenon
  <2> QED
    BY <2>1, <2>2, <2>3, Zenon
<1> QED
  BY <1>1, <1>2, Zenon DEF RdciNext

-----------------------------------------------------------------------------
(* The theorems about the registry and the watches *)

\* clean_up of dmon, for any number of users and whatever commands they run
\* meanwhile: when dmon has ended, the group and the field group it noted are
\* gone and their pair is not watched, unless another dmon watched it too.
THEOREM DmonCleansUp == RdciSpec => []DmonLeavesNothing
<1>1. RdciInit => RInv
  BY InitRInv, Zenon
<1>2. RInv /\ [RdciNext]_tvars => RInv'
  BY NextRInv, Zenon
<1>3. RInv => DmonLeavesNothing
  BY LeavesNothing, Zenon
<1> QED
  BY <1>1, <1>2, <1>3, PTL DEF RdciSpec

\* rdc_field_unwatch works by pair and silences whole GPUs, the result of
\* rdc_field_watch is not looked at, and groups go away under a watch.  Still,
\* for any number of users and whatever they run, every watch belongs to a dmon
\* that will unwatch it, and a GPU is listened on without such a watch only
\* if a group was destroyed under a watch (lost).
THEOREM NothingIsLeftWatched == RdciSpec => []NothingStaysWatched
<1>1. RdciInit => RInv /\ NothingStaysWatched
  BY InitRInv, Zenon DEF RdciInit, NothingStaysWatched
<1>2. RInv /\ [RdciNext]_tvars => RInv'
  BY NextRInv, Zenon
<1>3. RInv /\ NothingStaysWatched /\ [RdciNext]_tvars => NothingStaysWatched'
  BY NextWatched, Zenon
<1> QED
  BY <1>1, <1>2, <1>3, PTL DEF RdciSpec

-----------------------------------------------------------------------------
(* The options, one at a time *)

\* A non-empty set of naturals has a least element.
LEMMA LeastNatural ==
  ASSUME NEW S \in SUBSET Nat, S # {}
  PROVE  \E x \in S : \A y \in S : x <= y
<1>1. \E x \in S : \A y \in S : ~ (<<y, x>> \in OpToRel(<, Nat))
  BY NatLessThanWellFounded, WFMin, Zenon
<1>2. PICK x \in S : \A y \in S : ~ (<<y, x>> \in OpToRel(<, Nat))
  BY <1>1, Zenon
<1>3. ASSUME NEW y \in S PROVE x <= y
  <2>1. <<y, x>> \notin OpToRel(<, Nat)
    BY <1>2, Zenon
  <2>2. ~ (y < x)
    BY <2>1, Zenon DEF OpToRel
  <2> QED BY <2>2
<1> QED BY <1>2, <1>3, Zenon


\* One turn of the getopt_long loop.
Turn(sub, p, o) == IF p.verdict = "go" THEN Option(sub, p, o) ELSE p

\* f gives what the subsystem holds after the first 0, 1, ... n options.
IsLoop(f, sub, opts, n) ==
  f = [i \in 0 .. n |-> IF i = 0 THEN Start(sub) ELSE Turn(sub, f[i - 1], opts[i])]

\* There is such a run of the loop, by a least counterexample.
LEMMA LoopsExist ==
  ASSUME NEW sub, NEW opts, NEW n \in Nat
  PROVE  \E f : IsLoop(f, sub, opts, n)
<1>t. PICK T : T = {k \in Nat : ~ \E f : IsLoop(f, sub, opts, k)}
  BY ZenonT(20)
<1>1. ASSUME n \in T PROVE FALSE
  <2>1. T \in SUBSET Nat /\ T # {}
    BY <1>1, <1>t, Zenon
  <2>2. PICK x \in T : \A y \in T : x <= y
    BY <2>1, LeastNatural, Zenon
  <2>3. x \in Nat /\ ~ \E f : IsLoop(f, sub, opts, x)
    BY <1>t, <2>2, Zenon
  <2>4. CASE x = 0
    <3>f. PICK f : f = [k \in 0 .. 0 |-> Start(sub)]
      BY ZenonT(20)
    <3>0. \A k \in 0 .. 0 : k = 0
      OBVIOUS
    <3>1. IsLoop(f, sub, opts, 0)
      BY <3>f, <3>0, Zenon DEF IsLoop
    <3> QED
      BY <2>3, <2>4, <3>1, Zenon
  <2>5. CASE x # 0
    <3>1. x - 1 \in Nat /\ x - 1 \notin T
      BY <2>2, <2>3, <2>5
    <3>f. PICK f : IsLoop(f, sub, opts, x - 1)
      BY <1>t, <3>1, Zenon
    <3>g. PICK g : g = [k \in 0 .. x |-> IF k = x THEN Turn(sub, f[x - 1], opts[x]) ELSE f[k]]
      BY Zenon
    <3>2. \A k \in 0 .. x : k = x \/ k \in 0 .. (x - 1)
      BY <2>3
    <3>3. \A k \in 0 .. x : k # 0 => k - 1 \in 0 .. x /\ k - 1 # x /\ k - 1 \in 0 .. (x - 1)
      BY <2>3
    <3>4. \A k \in 0 .. (x - 1) :
            f[k] = IF k = 0 THEN Start(sub) ELSE Turn(sub, f[k - 1], opts[k])
      BY <3>f, ZenonT(20) DEF IsLoop
    <3>5. ASSUME NEW k \in 0 .. x
          PROVE  g[k] = IF k = 0 THEN Start(sub) ELSE Turn(sub, g[k - 1], opts[k])
      <4>1. CASE k = x
        BY <2>5, <3>3, <3>g, <4>1, Zenon
      <4>2. CASE k # x
        BY <3>2, <3>3, <3>4, <3>g, <4>2, Zenon
      <4> QED
        BY <4>1, <4>2, Zenon
    <3>6. g = [k \in 0 .. x |-> g[k]]
      BY <3>g, Zenon
    <3>7. IsLoop(g, sub, opts, x)
      BY <3>5, <3>6, Zenon DEF IsLoop
    <3> QED
      BY <2>3, <3>7, Zenon
  <2> QED
    BY <2>4, <2>5, Zenon
<1> QED
  BY <1>1, <1>t, Zenon

\* GetOpts is the last turn of the loop.
LEMMA GetOptsIs ==
  ASSUME NEW sub, NEW opts, Len(opts) \in Nat
  PROVE  \E f : IsLoop(f, sub, opts, Len(opts)) /\ GetOpts(sub, opts) = f[Len(opts)]
<1>f. PICK f : f = CHOOSE after : IsLoop(after, sub, opts, Len(opts))
  BY Zenon
<1>1. GetOpts(sub, opts) = f[Len(opts)]
  BY <1>f, Zenon DEF GetOpts, IsLoop, Turn
<1>2. \E after : IsLoop(after, sub, opts, Len(opts))
  BY LoopsExist, Zenon
<1>3. IsLoop(f, sub, opts, Len(opts))
  BY <1>f, <1>2, Zenon
<1> QED
  BY <1>1, <1>3, Zenon

\* The turns of the loop.
LEMMA LoopAt ==
  ASSUME NEW f, NEW sub, NEW opts, NEW n \in Nat, IsLoop(f, sub, opts, n)
  PROVE  /\ f[0] = Start(sub)
         /\ \A k \in 1 .. n : f[k] = Turn(sub, f[k - 1], opts[k]) /\ k - 1 \in 0 .. n
<1>1. 0 \in 0 .. n /\ \A k \in 1 .. n : k \in 0 .. n /\ k # 0 /\ k - 1 \in 0 .. n
  OBVIOUS
<1> QED
  BY <1>1, Zenon DEF IsLoop

\* What a subsystem holds is a record of these members.
Members(p) ==
  p = [op |-> p.op, auth |-> p.auth, group |-> p.group, fgroup |-> p.fgroup,
       gpus |-> p.gpus, fields |-> p.fields, count |-> p.count, verdict |-> p.verdict]

\* One member of it is changed.
Changed(p, x, q) ==
  \/ q = [p EXCEPT !.op = x]
  \/ q = [p EXCEPT !.auth = x]
  \/ q = [p EXCEPT !.group = x]
  \/ q = [p EXCEPT !.fgroup = x]
  \/ q = [p EXCEPT !.gpus = x]
  \/ q = [p EXCEPT !.fields = x]
  \/ q = [p EXCEPT !.count = x]
  \/ q = [p EXCEPT !.verdict = x]

\* A record one of whose members is changed still has these members.
LEMMA MembersKept ==
  ASSUME NEW p, Members(p), NEW x, NEW q, Changed(p, x, q)
  PROVE  Members(q)
<1>1. CASE q = [p EXCEPT !.op = x]
  BY <1>1, Zenon DEF Members
<1>2. CASE q = [p EXCEPT !.auth = x]
  BY <1>2, Zenon DEF Members
<1>3. CASE q = [p EXCEPT !.group = x]
  BY <1>3, Zenon DEF Members
<1>4. CASE q = [p EXCEPT !.fgroup = x]
  BY <1>4, Zenon DEF Members
<1>5. CASE q = [p EXCEPT !.gpus = x]
  BY <1>5, Zenon DEF Members
<1>6. CASE q = [p EXCEPT !.fields = x]
  BY <1>6, Zenon DEF Members
<1>7. CASE q = [p EXCEPT !.count = x]
  BY <1>7, Zenon DEF Members
<1>8. CASE q = [p EXCEPT !.verdict = x]
  BY <1>8, Zenon DEF Members
<1> QED
  BY <1>1, <1>2, <1>3, <1>4, <1>5, <1>6, <1>7, <1>8, Zenon DEF Changed

\* The constructors make one.
LEMMA StartMembers ==
  ASSUME NEW sub \in {"dmon", "group"}
  PROVE  /\ Members(Start(sub)) /\ Start(sub).verdict = "go" /\ Start(sub).gpus = <<>>
         /\ sub = "group" => Start(sub).op = "unknown"
<1>1. PICK op : Start(sub) = [NotGiven EXCEPT !.op = op] /\ (sub = "group" => op = "unknown")
  <2>1. CASE sub = "dmon"
    BY <2>1, Zenon DEF Start
  <2>2. CASE sub = "group"
    BY <2>2, Zenon DEF Start, NotGiven
  <2> QED
    BY <2>1, <2>2, Zenon
<1> QED
  BY <1>1, Zenon DEF NotGiven, Members

\* A turn of the loop of dmon keeps the members, whatever the option.
LEMMA DmonMembers ==
  ASSUME NEW p, Members(p), NEW o
  PROVE  Members(Turn("dmon", p, o))
<1>1. /\ Members(Refuse(p)) /\ Members([p EXCEPT !.op = "list"])
      /\ Members([p EXCEPT !.auth = FALSE]) /\ Members([p EXCEPT !.fields = o.arg])
      /\ Members([p EXCEPT !.gpus = o.arg])
  BY MembersKept, Zenon DEF Refuse, Changed
<1>2. Members(Help(p))
  <2>1. PICK q : q = [p EXCEPT !.op = "help"]
    BY Zenon
  <2>2. Members(q) /\ Members([q EXCEPT !.verdict = "done"])
    BY <2>1, MembersKept, Zenon DEF Changed
  <2>3. Help(p) = [q EXCEPT !.verdict = "done"]
    BY <2>1, Zenon DEF Help
  <2> QED
    BY <2>2, <2>3, Zenon
<1>3. /\ Members(Number(p, "fgroup", o)) /\ Members(Number(p, "group", o))
      /\ Members(Number(p, "count", o))
  <2>1. PICK v : v = o.arg[1]
    BY Zenon
  <2>2. /\ Members([p EXCEPT !.fgroup = v]) /\ Members([p EXCEPT !.group = v])
        /\ Members([p EXCEPT !.count = v])
    BY MembersKept, Zenon DEF Changed
  <2> QED
    BY <1>1, <2>1, <2>2, Zenon DEF Number
<1>4. Members(NumberOnce(p, "fgroup", o)) /\ Members(NumberOnce(p, "group", o))
      /\ Members(NumberOnce(p, "count", o)) /\ Members(CommonOption(p, o))
  BY <1>1, <1>3, Zenon DEF NumberOnce, CommonOption
<1>5. Members(DmonOption(p, o))
  BY <1>1, <1>2, <1>4, Zenon DEF DmonOption
<1> QED
  BY <1>5, Zenon DEF Turn, Option

\* and so does the whole loop.
LEMMA DmonLoop ==
  ASSUME NEW opts, Len(opts) \in Nat
  PROVE  Members(GetOpts("dmon", opts))
<1>n. PICK n : n = Len(opts)
  BY Zenon
<1>f. PICK f : IsLoop(f, "dmon", opts, n) /\ GetOpts("dmon", opts) = f[n]
  BY <1>n, GetOptsIs, Zenon
<1>t. PICK T : T = {k \in 0 .. n : ~Members(f[k])}
  BY Zenon
<1>1. ASSUME T # {} PROVE FALSE
  <2>1. T \in SUBSET Nat /\ n \in Nat
    BY <1>t, <1>n
  <2>2. PICK x \in T : \A y \in T : x <= y
    BY <1>1, <2>1, LeastNatural, Zenon
  <2>3. x \in 0 .. n /\ ~Members(f[x])
    BY <1>t, <2>2, Zenon
  <2>4. x # 0
    BY <1>f, <2>1, <2>3, LoopAt, StartMembers, ZenonT(30)
  <2>5. x \in 1 .. n /\ x - 1 \in 0 .. n /\ ~(x <= x - 1)
    BY <2>1, <2>3, <2>4
  <2>6. Members(f[x - 1])
    BY <1>t, <2>2, <2>5, Zenon
  <2>7. f[x] = Turn("dmon", f[x - 1], opts[x])
    BY <1>f, <2>1, <2>5, LoopAt
  <2> QED
    BY <2>3, <2>6, <2>7, DmonMembers, Zenon
<1>2. n \in 0 .. n
  BY <1>n
<1> QED
  BY <1>1, <1>2, <1>f, <1>t, Zenon

\* parse_cmd_opts of dmon, for every command line: a monitor that is let through
\* has each of the two things to monitor from exactly one place.
THEOREM DmonOptionsFit ==
  ASSUME NEW opts, Len(opts) \in Nat
  PROVE  LET p == parse_cmd_opts("dmon", opts)
         IN  p.verdict = "go" /\ p.op = "monitor" =>
               /\ (p.group = None) = (p.gpus # <<>>) /\ AllNumbers(p.gpus)
               /\ (p.fgroup = None) = (p.fields # <<>>) /\ AllNumbers(p.fields)
<1>q. PICK q : q = GetOpts("dmon", opts)
  BY Zenon
<1>p. PICK p : p = parse_cmd_opts("dmon", opts)
  BY Zenon
<1>1. Members(q)
  BY <1>q, DmonLoop, Zenon
<1>2. SUFFICES ASSUME p.verdict = "go", p.op = "monitor"
      PROVE  /\ (p.group = None) = (p.gpus # <<>>) /\ AllNumbers(p.gpus)
             /\ (p.fgroup = None) = (p.fields # <<>>) /\ AllNumbers(p.fields)
  BY <1>p, Zenon
<1>3. p = IF q.verdict # "go" THEN q
          ELSE IF ~Checked("dmon", q) THEN Refuse(q)
          ELSE IF q.op = "monitor" THEN DmonCount(q) ELSE q
  BY <1>p, <1>q, Zenon DEF parse_cmd_opts
<1>4. Refuse(q).verdict = "throw"
  BY <1>1, SMT DEF Refuse, Members
<1>5. q.verdict = "go" /\ Checked("dmon", q) /\ p = DmonCount(q) /\ q.op = "monitor"
  <2>1. q.verdict = "go"
    BY <1>2, <1>3, Zenon
  <2>2. Checked("dmon", q)
    BY <1>2, <1>3, <1>4, <2>1, Zenon
  <2>3. q.op = "monitor"
    BY <1>2, <1>3, <2>1, <2>2, Zenon
  <2> QED
    BY <1>3, <2>1, <2>2, <2>3, Zenon
<1>6. /\ p.group = q.group /\ p.gpus = q.gpus /\ p.fgroup = q.fgroup /\ p.fields = q.fields
  BY <1>1, <1>5, Zenon DEF DmonCount, Members
<1>7. DmonChecked(q)
  BY <1>5, Zenon DEF Checked
<1>8. AllNumbers(<<>>)
  BY SMT DEF AllNumbers, Range
<1>9. /\ (q.group = None) = (q.gpus # <<>>) /\ (q.fgroup = None) = (q.fields # <<>>)
  BY <1>7, Zenon DEF DmonChecked
<1>10. AllNumbers(q.gpus) /\ AllNumbers(q.fields)
  BY <1>7, <1>8, Zenon DEF DmonChecked
<1> QED
  BY <1>6, <1>9, <1>10, Zenon

\* An option of group that names no operation but -c and -a, and that is taken.
CreateOption(o) == o.opt \in {"c", "a", "u"} \/ (o.opt = "g" /\ IsNumber(o.arg[1]))

\* What such an option does: -a after -c is part of the create.
LEMMA CreateTurn ==
  ASSUME NEW p, Members(p), p.verdict = "go", NEW o, CreateOption(o),
         NEW q, q = Turn("group", p, o)
  PROVE  /\ Members(q) /\ q.verdict = "go"
         /\ q.op = "create" <=> p.op = "create" \/ o.opt = "c"
         /\ q.gpus = IF o.opt = "a" THEN o.arg ELSE p.gpus
<1>1. q = GroupOption(p, o)
  BY Zenon DEF Turn, Option
<1>2. CASE o.opt = "c"
  <2>1. q = [p EXCEPT !.op = "create"]
    BY <1>1, <1>2, Zenon DEF GroupOption
  <2> QED
    BY <1>2, <2>1, Zenon DEF Members
<1>3. CASE o.opt = "a"
  <2>1. PICK op : op = IF p.op = "create" THEN "create" ELSE "add"
    BY Zenon
  <2>2. q = [p EXCEPT !.op = op, !.gpus = o.arg]
    BY <1>1, <1>3, <2>1, Zenon DEF GroupOption
  <2>3. Members(q) /\ q.verdict = p.verdict /\ q.op = op /\ q.gpus = o.arg
    BY <2>2, Zenon DEF Members
  <2> QED
    BY <1>3, <2>1, <2>3, Zenon
<1>4. CASE o.opt = "g"
  <2>1. q = [p EXCEPT !.group = o.arg[1]]
    BY <1>1, <1>4, Zenon DEF GroupOption, CreateOption, Number
  <2> QED
    BY <1>4, <2>1, Zenon DEF Members
<1>5. CASE o.opt = "u"
  <2>1. q = [p EXCEPT !.auth = FALSE]
    BY <1>1, <1>5, Zenon DEF GroupOption, CommonOption
  <2> QED
    BY <1>5, <2>1, Zenon DEF Members
<1> QED
  BY <1>2, <1>3, <1>4, <1>5, Zenon DEF CreateOption

\* What group holds after n such options.
CreateSoFar(p, opts, n) ==
  /\ Members(p) /\ p.verdict = "go"
  /\ (p.op = "create") <=> \E i \in 1 .. n : opts[i].opt = "c"
  /\ (\E i \in 1 .. n : opts[i].opt = "a") =>
       \E i \in 1 .. n : opts[i].opt = "a" /\ p.gpus = opts[i].arg

\* One more option.
LEMMA CreateNext ==
  ASSUME NEW opts, NEW n \in Nat, n # 0, CreateOption(opts[n]), NEW p, CreateSoFar(p, opts, n - 1)
  PROVE  CreateSoFar(Turn("group", p, opts[n]), opts, n)
<1>o. PICK o : o = opts[n]
  BY Zenon
<1>q. PICK q : q = Turn("group", p, o)
  BY Zenon
<1>1. \A i : i \in 1 .. n <=> i \in 1 .. (n - 1) \/ i = n
  OBVIOUS
<1>2. /\ Members(q) /\ q.verdict = "go"
      /\ q.op = "create" <=> p.op = "create" \/ o.opt = "c"
      /\ q.gpus = IF o.opt = "a" THEN o.arg ELSE p.gpus
  <2>1. Members(p) /\ p.verdict = "go" /\ CreateOption(o)
    BY <1>o, Zenon DEF CreateSoFar
  <2> QED
    BY <1>q, <2>1, CreateTurn, Zenon
<1>3. (q.op = "create") <=> \E i \in 1 .. n : opts[i].opt = "c"
  BY <1>1, <1>2, <1>o, Zenon DEF CreateSoFar
<1>4. ASSUME \E i \in 1 .. n : opts[i].opt = "a"
      PROVE  \E i \in 1 .. n : opts[i].opt = "a" /\ q.gpus = opts[i].arg
  <2>1. CASE o.opt = "a"
    BY <1>1, <1>2, <1>o, <2>1, Zenon
  <2>2. CASE o.opt # "a"
    BY <1>1, <1>2, <1>4, <1>o, <2>2, Zenon DEF CreateSoFar
  <2> QED
    BY <2>1, <2>2, Zenon
<1> QED
  BY <1>2, <1>3, <1>4, <1>o, <1>q, ZenonT(30) DEF CreateSoFar

\* parse_cmd_opts of group, for every command line of such options: -c and -a
\* given together make one create, with the GPUs of an -a.
THEOREM CreateOptionsFit ==
  ASSUME NEW opts, Len(opts) \in Nat, \A i \in 1 .. Len(opts) : CreateOption(opts[i]),
         \E i \in 1 .. Len(opts) : opts[i].opt = "c",
         \E i \in 1 .. Len(opts) : opts[i].opt = "a"
  PROVE  LET p == parse_cmd_opts("group", opts)
         IN  /\ p.verdict = "go" /\ p.op = "create"
             /\ \E i \in 1 .. Len(opts) : opts[i].opt = "a" /\ p.gpus = opts[i].arg
<1>n. PICK n : n = Len(opts)
  BY Zenon
<1>f. PICK f : IsLoop(f, "group", opts, n) /\ GetOpts("group", opts) = f[n]
  BY <1>n, GetOptsIs, Zenon
<1>t. PICK T : T = {k \in 0 .. n : ~CreateSoFar(f[k], opts, k)}
  BY Zenon
<1>1. ASSUME T # {} PROVE FALSE
  <2>1. T \in SUBSET Nat /\ n \in Nat
    BY <1>t, <1>n
  <2>2. PICK x \in T : \A y \in T : x <= y
    BY <1>1, <2>1, LeastNatural, Zenon
  <2>3. x \in 0 .. n /\ ~CreateSoFar(f[x], opts, x)
    BY <1>t, <2>2, Zenon
  <2>4. x # 0
    <3>1. f[0] = Start("group")
      BY <1>f, <2>1, LoopAt, Zenon
    <3>2. 1 .. 0 = {}
      OBVIOUS
    <3>3. Members(f[0]) /\ f[0].verdict = "go" /\ f[0].op # "create"
      BY <3>1, StartMembers, Zenon
    <3> QED
      BY <2>3, <3>2, <3>3, Zenon DEF CreateSoFar
  <2>5. x \in 1 .. n /\ x \in Nat /\ x - 1 \in 0 .. n /\ ~(x <= x - 1)
    BY <2>1, <2>3, <2>4
  <2>6. CreateSoFar(f[x - 1], opts, x - 1)
    BY <1>t, <2>2, <2>5, Zenon
  <2>7. f[x] = Turn("group", f[x - 1], opts[x])
    BY <1>f, <2>1, <2>5, LoopAt, SMTT(60)
  <2>8. CreateOption(opts[x])
    BY <1>n, <2>5, Zenon
  <2> QED
    BY <2>3, <2>4, <2>5, <2>6, <2>7, <2>8, CreateNext, Zenon
<1>2. n \in 0 .. n
  BY <1>n
<1>q. PICK q : q = GetOpts("group", opts)
  BY Zenon
<1>3. CreateSoFar(q, opts, n)
  BY <1>1, <1>2, <1>f, <1>t, <1>q, Zenon
<1>4. q.verdict = "go" /\ q.op = "create"
  BY <1>3, <1>n, Zenon DEF CreateSoFar
<1>5. Checked("group", q)
  BY <1>4, Zenon DEF Checked, OperationGiven
<1>6. parse_cmd_opts("group", opts) = q
  BY <1>4, <1>5, <1>q, Zenon DEF parse_cmd_opts
<1> QED
  BY <1>3, <1>4, <1>6, <1>n, Zenon DEF CreateSoFar

\* A line of a menu is a sequence of at most three of its options.
LEMMA LineOf ==
  ASSUME NEW menu, NEW opts \in Lines(menu)
  PROVE  Len(opts) \in Nat /\ DOMAIN opts = 1 .. Len(opts) /\ \A i \in 1 .. Len(opts) : opts[i] \in menu
<1>1. PICK n \in 0 .. 3 : opts \in [1 .. n -> menu]
  BY Zenon DEF Lines
<1> QED
  BY <1>1

\* OptionsConsistent is about the functions alone.
LEMMA OptionsAgree == OptionsConsistent
<1>1. ASSUME NEW opts \in Lines(DmonMenu)
      PROVE  LET p == parse_cmd_opts("dmon", opts)
             IN  p.verdict = "go" /\ p.op = "monitor" =>
                   /\ (p.group = None) = (p.gpus # <<>>) /\ AllNumbers(p.gpus)
                   /\ (p.fgroup = None) = (p.fields # <<>>) /\ AllNumbers(p.fields)
  BY DmonOptionsFit, LineOf, Zenon
<1>2. ASSUME NEW opts \in Lines(GroupMenu), "c" \in {o.opt : o \in Range(opts)},
             "a" \in {o.opt : o \in Range(opts)}, "l" \notin {o.opt : o \in Range(opts)}
      PROVE  LET p == parse_cmd_opts("group", opts) IN p.op = "create" /\ p.gpus = <<0>>
  <2>1. Len(opts) \in Nat /\ DOMAIN opts = 1 .. Len(opts) /\ \A i \in 1 .. Len(opts) : opts[i] \in GroupMenu
    BY LineOf, Zenon
  <2>2. \A o \in GroupMenu : (o.opt = "l" \/ CreateOption(o)) /\ (o.opt = "a" => o.arg = <<0>>)
    BY DEF GroupMenu, Opt, CreateOption, IsNumber
  <2>3. /\ \A i \in 1 .. Len(opts) : opts[i].opt # "l"
        /\ \E i \in 1 .. Len(opts) : opts[i].opt = "c"
        /\ \E i \in 1 .. Len(opts) : opts[i].opt = "a"
    BY <1>2, <2>1, Zenon DEF Range
  <2>4. \A i \in 1 .. Len(opts) : CreateOption(opts[i])
    BY <2>1, <2>2, <2>3, Zenon
  <2>5. LET p == parse_cmd_opts("group", opts)
        IN  /\ p.verdict = "go" /\ p.op = "create"
            /\ \E i \in 1 .. Len(opts) : opts[i].opt = "a" /\ p.gpus = opts[i].arg
    BY <2>1, <2>3, <2>4, CreateOptionsFit, Zenon
  <2> QED
    BY <2>1, <2>2, <2>5, Zenon
<1> QED
  BY <1>1, <1>2, Zenon DEF OptionsConsistent

\* Whatever is typed next, what parse_cmd_opts lets through fits together: a monitor
\* of dmon has its GPUs and its fields from one place each, and -c and -a of group
\* make one create.
THEOREM OptionsAreConsistent == RdciSpec => []OptionsConsistent
BY OptionsAgree, PTL
=============================================================================
