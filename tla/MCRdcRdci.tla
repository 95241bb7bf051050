----------------------------- MODULE MCRdcRdci ------------------------------
(* Two users: one monitors, the other works on the groups meanwhile.         *)
EXTENDS RdcRdci

MCBdf == [g \in GPUs |-> 100 + g]

Line(sub, opts) == [sub |-> sub, opts |-> opts]

I(gpus) == Opt("i", gpus)
E(fields) == Opt("e", fields)
G(id) == Opt("g", <<id>>)
F(id) == Opt("f", <<id>>)
Once == Opt("c", <<1>>)
O(letter) == Opt(letter, <<>>)

\* Field 7 is a notification; GPU 9 and field 99 do not exist.
Monitors ==
  {Line("dmon", o) : o \in
    {<<I(<<0, 1>>), E(<<1>>)>>, <<I(<<0>>), E(<<7>>)>>, <<I(<<0>>), E(<<99>>), Once>>,
     <<G(1), E(<<1>>), Once>>, <<I(<<9>>), F(1)>>, <<G(1), F(1)>>, <<E(<<1>>)>>, <<O("l")>>}}

Looks ==
  {Line("stats", <<Opt("r", <<1>>)>>), Line("diag", <<G(1)>>),
   Line("discovery", <<O("l")>>), Line("discovery", <<O("v")>>),
   Line("group", <<G(1), O("i")>>), Line("fieldgroup", <<G(1), O("i")>>),
   Line("group", <<O("l")>>), Line("fieldgroup", <<O("l")>>)}

Edits ==
  {Line("group", o) : o \in
    {<<O("c"), Opt("a", <<0, 9>>)>>, <<Opt("a", <<1>>), G(1)>>, <<Opt("d", <<1>>)>>}}
  \cup
  {Line("fieldgroup", o) : o \in {<<O("c"), Opt("f", <<1, 7>>)>>, <<Opt("d", <<1>>)>>}}
  \cup
  {Line("dmon", o) : o \in {<<I(<<0>>), E(<<1, 7>>), Once>>, <<G(1), F(1), Once>>}}

MCCommands == <<Monitors \cup Looks, Edits>>
MCMaxCommands == <<1, 2>>
=============================================================================
