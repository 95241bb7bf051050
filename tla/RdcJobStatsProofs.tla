------------------------- MODULE RdcJobStatsProofs --------------------------
(***************************************************************************)
(* Proofs about RdcJobStats, for every list of GPUs, every range of values *)
(* and every number of samples.  The inductive invariant JobStatsInv says  *)
(* of each GPU what its record is in terms of the samples since the start: *)
(* the extremes, the sums of Welford's recurrence, the energy and the ECC  *)
(* counter; and of each call that the counters it has read are not ahead   *)
(* of the driver's, nor behind the start's if it began after that.  The    *)
(* sums are recursive functions; what is needed of them is shown by a      *)
(* least counterexample.                                                   *)
(***************************************************************************)
EXTENDS RdcJobStats, SequenceTheorems, WellFoundedInduction, TLAPS

\* A non-empty set of naturals has a least element.
LEMMA LeastNatural ==
  ASSUME NEW S \in SUBSET Nat, S # {}
  PROVE  \E x \in S : \A y \in S : x <= y
<1>1. \E x \in S : \A y \in S : ~ (<<y, x>> \in OpToRel(<, Nat))
  BY NatLessThanWellFounded, WFMin, Zenon
<1>2. PICK x \in S : \A y \in S : ~ (<<y, x>> \in OpToRel(<, Nat))
  BY <1>1, Zenon
<1>3. ASSUME NEW y \in S PROVE x <= y
  <2>1. <<y, x>> \notin OpToRel(<, Nat)
    BY <1>2, Zenon
  <2>2. ~ (y < x)
    BY <2>1, Zenon DEF OpToRel
  <2> QED BY <2>2
<1> QED BY <1>2, <1>3, Zenon

-----------------------------------------------------------------------------
(* The sum of a sequence, one element at a time *)

\* f gives the sums of the first 0, 1, ... n values.
IsSum(f, vs, n) == f = [k \in 0 .. n |-> IF k = 0 THEN 0 ELSE f[k - 1] + vs[k]]

\* There are such sums, by a least counterexample.
LEMMA SumsExist ==
  ASSUME NEW vs, NEW n \in Nat
  PROVE  \E f : IsSum(f, vs, n)
<1>t. PICK T : T = {k \in Nat : ~ \E f : IsSum(f, vs, k)}
  BY ZenonT(20)
<1>1. ASSUME n \in T PROVE FALSE
  <2>1. T \in SUBSET Nat /\ T # {}
    BY <1>1, <1>t, Zenon
  <2>2. PICK x \in T : \A y \in T : x <= y
    BY <2>1, LeastNatural, Zenon
  <2>3. x \in Nat /\ ~ \E f : IsSum(f, vs, x)
    BY <1>t, <2>2, Zenon
  <2>4. CASE x = 0
    <3>f. PICK f : f = [k \in 0 .. 0 |-> 0]
      BY ZenonT(20)
    <3>1. IsSum(f, vs, 0)
      BY <3>f DEF IsSum
    <3> QED
      BY <2>3, <2>4, <3>1, Zenon
  <2>5. CASE x # 0
    <3>1. x - 1 \in Nat /\ x - 1 \notin T
      BY <2>2, <2>3, <2>5
    <3>f. PICK f : IsSum(f, vs, x - 1)
      BY <1>t, <3>1, Zenon
    <3>g. PICK g : g = [k \in 0 .. x |-> IF k = x THEN f[x - 1] + vs[x] ELSE f[k]]
      BY Zenon
    <3>2. \A k \in 0 .. x : k = x \/ k \in 0 .. (x - 1)
      BY <2>3
    <3>3. \A k \in 0 .. x : k # 0 => k - 1 \in 0 .. x /\ k - 1 # x /\ k - 1 \in 0 .. (x - 1)
      BY <2>3
    <3>4. \A k \in 0 .. (x - 1) : f[k] = IF k = 0 THEN 0 ELSE f[k - 1] + vs[k]
      BY <3>f, ZenonT(20) DEF IsSum
    <3>5. ASSUME NEW k \in 0 .. x PROVE g[k] = IF k = 0 THEN 0 ELSE g[k - 1] + vs[k]
      <4>1. CASE k = x
        BY <2>5, <3>3, <3>g, <4>1, Zenon
      <4>2. CASE k # x
        BY <3>2, <3>3, <3>4, <3>g, <4>2, Zenon
      <4> QED
        BY <4>1, <4>2, Zenon
    <3>6. g = [k \in 0 .. x |-> g[k]]
      BY <3>g, Zenon
    <3>7. IsSum(g, vs, x)
      BY <3>5, <3>6, Zenon DEF IsSum
    <3> QED
      BY <2>3, <3>7, Zenon
  <2> QED
    BY <2>4, <2>5, Zenon
<1> QED
  BY <1>1, <1>t, Zenon

\* The recurrence of the sums.
LEMMA SumAt ==
  ASSUME NEW f, NEW vs, NEW n \in Nat, IsSum(f, vs, n)
  PROVE  f[0] = 0 /\ \A k \in 1 .. n : f[k] = f[k - 1] + vs[k] /\ k - 1 \in 0 .. n
BY DEF IsSum

\* Where the values are the same the sums are.
LEMMA SumsAgree ==
  ASSUME NEW f, NEW g, NEW vs, NEW ws, NEW m \in Nat, NEW n \in Nat, m <= n,
         IsSum(f, vs, m), IsSum(g, ws, n), \A k \in 1 .. m : vs[k] = ws[k]
  PROVE  \A k \in 0 .. m : f[k] = g[k]
<1>t. PICK T : T = {k \in 0 .. m : f[k] # g[k]}
  BY ZenonT(20)
<1>1. ASSUME T # {} PROVE FALSE
  <2>1. T \in SUBSET Nat
    BY <1>t
  <2>2. PICK x \in T : \A y \in T : x <= y
    BY <1>1, <2>1, LeastNatural, Zenon
  <2>3. x \in 0 .. m /\ f[x] # g[x]
    BY <1>t, <2>2, Zenon
  <2>4. x # 0
    BY <2>3, SumAt, Zenon
  <2>5. x \in 1 .. m /\ x \in 1 .. n /\ x - 1 \in 0 .. m
    BY <2>3, <2>4
  <2>6. f[x - 1] = g[x - 1]
    BY <1>t, <2>2, <2>5
  <2>7. f[x] = f[x - 1] + vs[x] /\ g[x] = g[x - 1] + ws[x] /\ vs[x] = ws[x]
    BY <2>5, SumAt
  <2> QED
    BY <2>3, <2>6, <2>7, Zenon
<1> QED
  BY <1>1, <1>t, Zenon

\* The sums of integers are integers.
LEMMA SumsInt ==
  ASSUME NEW f, NEW vs, NEW n \in Nat, IsSum(f, vs, n), \A k \in 1 .. n : vs[k] \in Int
  PROVE  \A k \in 0 .. n : f[k] \in Int
<1>t. PICK T : T = {k \in 0 .. n : f[k] \notin Int}
  BY Zenon
<1>1. ASSUME T # {} PROVE FALSE
  <2>1. T \in SUBSET Nat
    BY <1>t
  <2>2. PICK x \in T : \A y \in T : x <= y
    BY <1>1, <2>1, LeastNatural, Zenon
  <2>3. x \in 0 .. n /\ f[x] \notin Int
    BY <1>t, <2>2, Zenon
  <2>4. x # 0
    BY <2>3, SumAt
  <2>5. x \in 1 .. n /\ x - 1 \in 0 .. n
    BY <2>3, <2>4
  <2>6. f[x - 1] \in Int
    BY <1>t, <2>2, <2>5
  <2>7. f[x] = f[x - 1] + vs[x] /\ vs[x] \in Int
    BY <2>5, SumAt, ZenonT(30)
  <2> QED
    BY <2>3, <2>6, <2>7
<1> QED
  BY <1>1, <1>t, Zenon

\* Total is the last of the sums.
LEMMA TotalIs ==
  ASSUME NEW vs, Len(vs) \in Nat
  PROVE  \E f : IsSum(f, vs, Len(vs)) /\ Total(vs) = f[Len(vs)]
<1>f. PICK f : f = CHOOSE sum : IsSum(sum, vs, Len(vs))
  BY Zenon
<1>1. Total(vs) = f[Len(vs)]
  BY <1>f, Zenon DEF Total, IsSum
<1>2. \E sum : IsSum(sum, vs, Len(vs))
  BY SumsExist, Zenon
<1>3. IsSum(f, vs, Len(vs))
  BY <1>f, <1>2, Zenon
<1> QED
  BY <1>1, <1>3, Zenon

\* The sum of a longer sequence is the sum so far and the last value.
LEMMA TotalAppend ==
  ASSUME NEW vs \in Seq(Int), NEW v \in Int
  PROVE  Total(Append(vs, v)) = Total(vs) + v /\ Total(vs) \in Int
<1>w. PICK ws : ws = Append(vs, v)
  BY ZenonT(20)
<1>n. PICK n : n = Len(vs)
  BY Zenon
<1>1. /\ n \in Nat /\ ws \in Seq(Int) /\ Len(ws) = n + 1 /\ n + 1 \in Nat /\ ws[n + 1] = v
      /\ \A k \in 1 .. n : ws[k] = vs[k] /\ vs[k] \in Int
  BY <1>w, <1>n
<1>f. PICK f : IsSum(f, vs, n) /\ Total(vs) = f[n]
  BY <1>1, <1>n, TotalIs, Zenon
<1>g. PICK g : IsSum(g, ws, n + 1) /\ Total(ws) = g[n + 1]
  BY <1>1, TotalIs, Zenon
<1>2. n \in 0 .. n /\ n + 1 \in 1 .. n + 1 /\ n <= n + 1 /\ (n + 1) - 1 = n
  BY <1>1
<1>3. f[n] = g[n]
  BY <1>1, <1>2, <1>f, <1>g, SumsAgree, SMTT(30)
<1>4. g[n + 1] = g[n] + ws[n + 1]
  <2>1. PICK j : j = n + 1
    BY Zenon
  <2>2. j \in Nat /\ j \in 1 .. j /\ j - 1 = n /\ IsSum(g, ws, j)
    BY <1>1, <1>g, <2>1
  <2>3. g[j] = g[j - 1] + ws[j]
    BY <2>2, SumAt, ZenonT(30)
  <2> QED
    BY <2>1, <2>2, <2>3, Zenon
<1>5. f[n] \in Int
  BY <1>1, <1>2, <1>f, SumsInt, Zenon
<1> QED
  BY <1>1, <1>3, <1>4, <1>5, <1>f, <1>g, <1>w, Zenon

\* No values add up to 0.
LEMMA TotalEmpty == Total(<<>>) = 0
<1>1. Len(<<>>) = 0 /\ 0 \in Nat
  BY Zenon
<1>2. PICK f : IsSum(f, <<>>, 0) /\ Total(<<>>) = f[0]
  BY <1>1, TotalIs, Zenon
<1> QED
  BY <1>1, <1>2, SumAt, Zenon

Empty(e) == e = <<>>

\* One value adds up to itself.
LEMMA TotalOne ==
  ASSUME NEW e, Empty(e), NEW v \in Int, NEW w, w = Append(e, v)
  PROVE  Total(w) = v
<1>1. Total(e) = 0 /\ e \in Seq(Int)
  BY TotalEmpty DEF Empty
<1>2. Total(Append(e, v)) = Total(e) + v
  BY <1>1, TotalAppend, Zenon
<1> QED
  BY <1>1, <1>2

-----------------------------------------------------------------------------
(* The inductive invariant *)

JobSample == [ts : Nat, v : Values]

GpuShape(st) ==
  st = [count |-> st.count, max |-> st.max, min |-> st.min, total |-> st.total, m |-> st.m,
        s |-> st.s, energy |-> st.energy, energy_last_time |-> st.energy_last_time,
        ecc_init |-> st.ecc_init]

ValuesOf(sq) == [i \in DOMAIN sq |-> sq[i].v]
Squares(vs) == [i \in DOMAIN vs |-> vs[i] * vs[i]]
Products(sq) ==
  [i \in DOMAIN sq |-> IF i = 1 THEN 0
                       ELSE ((sq[i].ts - sq[i-1].ts) * sq[i].v) \div EnergyUnit]

\* The running values of a GPU are those of its samples.
MeansOK(st, sq) ==
  /\ st.m \in Int /\ st.s \in Int
  /\ st.total = Total(ValuesOf(sq))
  /\ st.count * st.m = Scale * Total(ValuesOf(sq))
  /\ st.count * st.s =
       Scale * Scale * (Len(sq) * Total(Squares(ValuesOf(sq)))
                          - Total(ValuesOf(sq)) * Total(ValuesOf(sq)))

ExtremesOK(st, sq) ==
  sq # <<>> =>
    /\ \E i \in DOMAIN sq : sq[i].v = st.max
    /\ \E i \in DOMAIN sq : sq[i].v = st.min
    /\ \A i \in DOMAIN sq : st.min <= sq[i].v /\ sq[i].v <= st.max

EnergyOK(st, sq, now) ==
  /\ st.energy \in Int
  /\ st.energy >= Total(Products(sq))
  /\ Len(sq) <= 2 => st.energy = Total(Products(sq))
  /\ sq # <<>> => /\ st.energy_last_time = sq[1].ts
                  /\ sq[1].ts <= sq[Len(sq)].ts /\ sq[Len(sq)].ts <= now

GpuOK(st, sq, now) ==
  /\ GpuShape(st) /\ sq \in Seq(JobSample)
  /\ st.count = Len(sq) /\ Len(sq) <= MaxJobSamples
  /\ MeansOK(st, sq) /\ ExtremesOK(st, sq) /\ EnergyOK(st, sq, now)

\* What is kept of the counter: the reading of the start until a stop reads it
\* again, and then the difference, if the stop is of this run.
EccOK(init, start, stops, g) ==
  /\ init \in Nat /\ start \in Nat
  /\ (\A i \in DOMAIN stops : stops[i].gauges[g] = Missing) => init = start
  /\ \A i \in DOMAIN stops :
       /\ stops[i].gauges[g] # Missing /\ stops[i].fresh
       /\ \A j \in DOMAIN stops : j # i => stops[j].gauges[g] = Missing
       => init = stops[i].gauges[g] - start

Gauges == [JobGpus -> Nat \cup {Missing}]
Stop == [gauges : Gauges, fresh : BOOLEAN]

JobStatsTypes ==
  /\ ticks \in Nat
  /\ entry = [present |-> entry.present, ended |-> entry.ended, gpu_stats |-> entry.gpu_stats]
  /\ entry.gpu_stats = [g \in JobGpus |-> entry.gpu_stats[g]]
  /\ entry.ended = (final # <<>>)
  /\ seen = [g \in JobGpus |-> seen[g]]
  /\ first \in Gauges /\ final \in Seq(Stop)

GpuInv(g) ==
  /\ GpuOK(entry.gpu_stats[g], seen[g], ticks)
  /\ EccOK(entry.gpu_stats[g].ecc_init, FirstReading(g), final, g)

\* A call has read counters that are not ahead of the driver's and, if it began
\* after the start, not behind the start's.
CallGood(k) ==
  /\ k = [op |-> k.op, gauges |-> k.gauges, run |-> k.run]
  /\ k.gauges \in [JobGpus -> Nat \cup {Missing, Unread}]
  /\ k.run \in Nat /\ k.run <= starts
  /\ \A g \in JobGpus :
       k.gauges[g] \in Nat =>
         /\ k.gauges[g] <= errors[g]
         /\ k.run = starts => FirstReading(g) <= k.gauges[g]

CallsInv ==
  /\ starts \in Nat /\ errors \in [JobGpus -> 0 .. MaxErrors]
  /\ \A g \in JobGpus : FirstReading(g) <= errors[g]
  /\ call = [c \in Clients |-> call[c]]
  /\ \A c \in Clients : CallGood(call[c])

StatsInv == JobStatsTypes /\ \A g \in JobGpus : GpuInv(g)
JobStatsInv == StatsInv /\ CallsInv

-----------------------------------------------------------------------------
(* The sequences that are summed grow with the samples *)

\* The factor of the means and the bound of the samples of a job are numbers.
LEMMA ScaleAndLimit == Scale \in Nat \ {0} /\ Scale \in Int /\ MaxJobSamples \in Nat
<1>1. Scale \in Nat \ {0} /\ MaxJobSamples \in Nat
  BY JobStatsConstants, Zenon
<1> QED
  BY <1>1

\* What a sample is made of.
LEMMA SampleIs ==
  ASSUME NEW x \in JobSample
  PROVE  x.ts \in Nat /\ x.v \in Values /\ x.v \in Nat /\ x.v <= UINT64_MAX
BY JobStatsConstants, ZenonT(20) DEF JobSample

\* The values of one more sample.
LEMMA ValuesAppend ==
  ASSUME NEW sq \in Seq(JobSample), NEW x \in JobSample
  PROVE  /\ ValuesOf(Append(sq, x)) = Append(ValuesOf(sq), x.v)
         /\ ValuesOf(sq) \in Seq(Int) /\ Len(ValuesOf(sq)) = Len(sq)
<1>1. \A i \in DOMAIN sq : sq[i].v \in Int
  BY SampleIs
<1>2. ValuesOf(sq) \in Seq(Int) /\ Len(ValuesOf(sq)) = Len(sq)
  BY <1>1 DEF ValuesOf
<1>v. PICK vs : vs = ValuesOf(sq)
  BY Zenon
<1>w. PICK w : w = ValuesOf(Append(sq, x))
  BY Zenon
<1>3. /\ Append(sq, x) \in Seq(JobSample) /\ Len(Append(sq, x)) = Len(sq) + 1
      /\ DOMAIN w = 1 .. Len(sq) + 1 /\ w[Len(sq) + 1] = x.v
      /\ \A i \in 1 .. Len(sq) : w[i] = sq[i].v
      /\ w = [i \in 1 .. Len(sq) + 1 |-> w[i]]
  BY <1>w DEF ValuesOf
<1>4. /\ Append(vs, x.v) = [i \in 1 .. Len(sq) + 1 |-> Append(vs, x.v)[i]]
      /\ Append(vs, x.v)[Len(sq) + 1] = x.v
      /\ \A i \in 1 .. Len(sq) : Append(vs, x.v)[i] = sq[i].v
  BY <1>2, <1>v DEF ValuesOf
<1>5. \A i \in 1 .. Len(sq) + 1 : i \in 1 .. Len(sq) \/ i = Len(sq) + 1
  OBVIOUS
<1> QED
  BY <1>2, <1>3, <1>4, <1>5, <1>v, <1>w, ZenonT(20)

\* The squares of one more value.
LEMMA SquaresAppend ==
  ASSUME NEW vs \in Seq(Int), NEW v \in Int
  PROVE  /\ Squares(Append(vs, v)) = Append(Squares(vs), v * v)
         /\ Squares(vs) \in Seq(Int) /\ v * v \in Int
<1>1. \A i \in DOMAIN vs : vs[i] * vs[i] \in Int
  OBVIOUS
<1>2. Squares(vs) \in Seq(Int) /\ Len(Squares(vs)) = Len(vs) /\ v * v \in Int
  BY <1>1, SMTT(30) DEF Squares
<1>q. PICK q : q = Squares(vs)
  BY Zenon
<1>w. PICK w : w = Squares(Append(vs, v))
  BY Zenon
<1>x. PICK x : x = v * v
  BY Zenon
<1>3. /\ Append(vs, v) \in Seq(Int) /\ Len(Append(vs, v)) = Len(vs) + 1
      /\ w[Len(vs) + 1] = x
      /\ \A i \in 1 .. Len(vs) : w[i] = vs[i] * vs[i]
      /\ w = [i \in 1 .. Len(vs) + 1 |-> w[i]]
  BY <1>w, <1>x DEF Squares
<1>4. /\ Append(q, x) = [i \in 1 .. Len(vs) + 1 |-> Append(q, x)[i]]
      /\ Append(q, x)[Len(vs) + 1] = x
      /\ \A i \in 1 .. Len(vs) : Append(q, x)[i] = vs[i] * vs[i]
  BY <1>2, <1>q, <1>x DEF Squares
<1>5. \A i \in 1 .. Len(vs) + 1 : i \in 1 .. Len(vs) \/ i = Len(vs) + 1
  OBVIOUS
<1> QED
  BY <1>2, <1>3, <1>4, <1>5, <1>q, <1>w, <1>x, ZenonT(20)

\* A truncated quotient is an integer.
LEMMA Quotient ==
  ASSUME NEW a \in Int, NEW d \in Nat \ {0}
  PROVE  a \div d \in Int
OBVIOUS

\* The energies of the samples are integers.
LEMMA ProductsAre ==
  ASSUME NEW sq \in Seq(JobSample)
  PROVE  Products(sq) \in Seq(Int) /\ Len(Products(sq)) = Len(sq)
<1>1. ASSUME NEW i \in DOMAIN sq PROVE Products(sq)[i] \in Int
  <2>1. CASE i = 1
    BY <1>1, <2>1 DEF Products
  <2>2. CASE i # 1
    <3>1. i \in 1 .. Len(sq) /\ i - 1 \in 1 .. Len(sq)
      BY <1>1, <2>2
    <3>2. sq[i] \in JobSample /\ sq[i - 1] \in JobSample
      BY <3>1
    <3>a. PICK a : a = (sq[i].ts - sq[i-1].ts) * sq[i].v
      BY Zenon
    <3>3. a \in Int
      BY <3>2, <3>a, SampleIs
    <3>4. a \div EnergyUnit \in Int
      BY <3>3, Quotient, JobStatsConstants, Zenon
    <3> QED
      BY <1>1, <2>2, <3>a, <3>4, Zenon DEF Products
  <2> QED
    BY <2>1, <2>2, Zenon
<1>2. Products(sq) = [i \in 1 .. Len(sq) |-> Products(sq)[i]]
  BY DEF Products
<1>f. PICK f : f = Products(sq)
  BY Zenon
<1>3. Len(sq) \in Nat /\ DOMAIN sq = 1 .. Len(sq)
  BY LenProperties, Zenon
<1>4. f \in [1 .. Len(sq) -> Int]
  BY <1>1, <1>2, <1>3, <1>f, Zenon
<1>5. f \in Seq(Int) /\ Len(f) = Len(sq)
  BY <1>3, <1>4
<1> QED
  BY <1>5, <1>f, Zenon

\* The energy of one more sample.
LEMMA ProductsAppend ==
  ASSUME NEW sq \in Seq(JobSample), NEW x \in JobSample, NEW p \in Int,
         p = IF sq = <<>> THEN 0 ELSE ((x.ts - sq[Len(sq)].ts) * x.v) \div EnergyUnit
  PROVE  Products(Append(sq, x)) = Append(Products(sq), p)
<1>t. PICK t : t = Append(sq, x)
  BY Zenon
<1>q. PICK q : q = Products(sq)
  BY Zenon
<1>n. PICK n : n = Len(sq)
  BY Zenon
<1>1. /\ t \in Seq(JobSample) /\ Len(t) = n + 1 /\ n \in Nat /\ t[n + 1] = x
      /\ \A i \in 1 .. n : t[i] = sq[i]
  BY <1>t, <1>n
<1>2. q \in Seq(Int) /\ Len(q) = n /\ DOMAIN sq = 1 .. n /\ DOMAIN t = 1 .. n + 1
  BY <1>1, <1>q, <1>n, ProductsAre, SMTT(30)
<1>3. /\ Append(q, p) = [i \in 1 .. n + 1 |-> Append(q, p)[i]]
      /\ Append(q, p)[n + 1] = p /\ \A i \in 1 .. n : Append(q, p)[i] = q[i]
  BY <1>1, <1>2
<1>4. Products(t) = [i \in 1 .. n + 1 |-> Products(t)[i]]
  BY <1>2, Zenon DEF Products
<1>5. ASSUME NEW i \in 1 .. n PROVE Products(t)[i] = q[i]
  <2>1. i \in 1 .. n + 1 /\ t[i] = sq[i] /\ (i # 1 => i - 1 \in 1 .. n)
    BY <1>1
  <2>2. i # 1 => t[i - 1] = sq[i - 1]
    BY <1>1, <2>1, Zenon
  <2> QED
    BY <1>2, <1>q, <2>1, <2>2, Zenon DEF Products
<1>6. Products(t)[n + 1] = p
  <2>1. n + 1 \in 1 .. n + 1 /\ (n + 1) - 1 = n /\ (n + 1 = 1 <=> n = 0) /\ (n = 0 <=> sq = <<>>)
        /\ (n # 0 => n \in 1 .. n)
    BY <1>1, <1>n
  <2>2. CASE n = 0
    BY <1>2, <2>1, <2>2, Zenon DEF Products
  <2>3. CASE n # 0
    <3>1. t[n] = sq[n]
      BY <1>1, <2>1, <2>3, Zenon
    <3> QED
      BY <1>1, <1>2, <1>n, <2>1, <2>3, <3>1, Zenon DEF Products
  <2> QED
    BY <2>2, <2>3, Zenon
<1>7. \A i \in 1 .. n + 1 : i \in 1 .. n \/ i = n + 1
  BY <1>1
<1> QED
  BY <1>3, <1>4, <1>5, <1>6, <1>7, <1>q, <1>t, ZenonT(20)

-----------------------------------------------------------------------------
(* Welford's recurrence *)

\* The quotient of a multiple is exact.
LEMMA Exact ==
  ASSUME NEW k \in Int, NEW d \in Nat \ {0}
  PROVE  (k * d) \div d = k
OBVIOUS

\* A number that leaves no remainder is a multiple.
LEMMA Divides ==
  ASSUME NEW a \in Nat, NEW d \in Nat \ {0}, a % d = 0
  PROVE  \E q \in Nat : a = d * q
OBVIOUS

\* m is the mean of n values with the sum T, and s what their squares, with the
\* sum Q, exceed it by, in units of 1 / Scale.
MeanIs(n, m, T) == n * m = Scale * T
SquareIs(n, s, Q, T) == n * s = Scale * Scale * (n * Q - T * T)

\* The new mean is a multiple of 1 / Scale again: n and n + 1 have no factor in common.
LEMMA WelfordMean ==
  ASSUME NEW n \in Nat \ {0}, NEW m \in Int, NEW T \in Int, NEW v \in Int,
         Scale % n = 0, Scale % (n + 1) = 0, MeanIs(n, m, T), NEW m1,
         m1 = m + (Scale * v - m) \div (n + 1)
  PROVE  m1 \in Int /\ MeanIs(n + 1, m1, T + v)
<1>0. Scale \in Nat \ {0} /\ n + 1 \in Nat \ {0}
  BY ScaleAndLimit
<1>1. PICK a \in Nat : Scale = n * a
  BY <1>0, Divides, ZenonT(20)
<1>2. PICK b \in Nat : Scale = (n + 1) * b
  BY <1>0, Divides, ZenonT(20)
<1>3. Scale = (n * (n + 1)) * (a - b)
  <2>1. (n + 1) * Scale - n * Scale = Scale
    BY <1>0
  <2>2. (n + 1) * Scale = (n + 1) * (n * a) /\ n * Scale = n * ((n + 1) * b)
    BY <1>1, <1>2, Zenon
  <2>3. (n + 1) * (n * a) - n * ((n + 1) * b) = (n * (n + 1)) * (a - b)
    OBVIOUS
  <2> QED
    BY <2>1, <2>2, <2>3, Zenon
<1>4. PICK d \in Int : d = (a - b) * (n * v - T)
  OBVIOUS
<1>5. n * (Scale * v - m) = n * (d * (n + 1))
  <2>1. n * (Scale * v - m) = Scale * (n * v - T)
    BY <1>0 DEF MeanIs
  <2>2. Scale * (n * v - T) = ((n * (n + 1)) * (a - b)) * (n * v - T)
    BY <1>3, Zenon
  <2>3. ((n * (n + 1)) * (a - b)) * (n * v - T) = n * (((a - b) * (n * v - T)) * (n + 1))
    OBVIOUS
  <2> QED
    BY <1>4, <2>1, <2>2, <2>3, Zenon
<1>6. d * (n + 1) = Scale * v - m
  <2>1. PICK x \in Int : x = d * (n + 1)
    BY <1>0
  <2>2. PICK y \in Int : y = Scale * v - m
    BY <1>0
  <2>3. n * x = n * y
    BY <1>5, <2>1, <2>2, Zenon
  <2>4. x = y
    BY <2>3
  <2> QED
    BY <2>1, <2>2, <2>4, ZenonT(20)
<1>7. m1 = m + d /\ m1 \in Int
  <2>1. (d * (n + 1)) \div (n + 1) = d
    BY <1>0, Exact, Zenon
  <2> QED
    BY <1>6, <2>1
<1>8. (n + 1) * m1 = Scale * (T + v)
  <2>1. (n + 1) * (m + d) = n * m + (d * (n + 1) + m)
    BY <1>0
  <2>2. d * (n + 1) + m = Scale * v
    BY <1>0, <1>6
  <2>3. (n + 1) * (m + d) = Scale * T + Scale * v
    BY <2>1, <2>2, Zenon DEF MeanIs
  <2>4. Scale * T + Scale * v = Scale * (T + v)
    BY <1>0
  <2> QED
    BY <1>7, <2>3, <2>4, Zenon
<1> QED
  BY <1>7, <1>8, Zenon DEF MeanIs

\* The square sum is exact when both means are.
LEMMA WelfordSquares ==
  ASSUME NEW n \in Nat \ {0}, NEW m \in Int, NEW s \in Int, NEW T \in Int, NEW Q \in Int,
         NEW v \in Int, NEW m1 \in Int, MeanIs(n, m, T), SquareIs(n, s, Q, T),
         MeanIs(n + 1, m1, T + v), NEW s1, s1 = s + (Scale * v - m) * (Scale * v - m1)
  PROVE  s1 \in Int /\ SquareIs(n + 1, s1, Q + v * v, T + v)
<1>S. PICK S \in Int : S = Scale
  BY ScaleAndLimit
<1>0. n * m = S * T /\ n * s = S * S * (n * Q - T * T) /\ (n + 1) * m1 = S * (T + v)
  BY <1>S, Zenon DEF MeanIs, SquareIs
<1>a. PICK a \in Int : a = S * v - m
  OBVIOUS
<1>b. PICK b \in Int : b = S * v - m1
  OBVIOUS
<1>w. PICK w \in Int : w = S * (n * v - T)
  OBVIOUS
<1>1. n * a = w
  <2>1. n * (S * v - m) = n * (S * v) - n * m
    OBVIOUS
  <2>2. n * (S * v) - S * T = S * (n * v - T)
    OBVIOUS
  <2> QED
    BY <1>0, <1>a, <1>w, <2>1, <2>2, Zenon
<1>2. (n + 1) * b = w
  <2>1. (n + 1) * (S * v - m1) = (n + 1) * (S * v) - (n + 1) * m1
    OBVIOUS
  <2>2. (n + 1) * (S * v) - S * (T + v) = S * (n * v - T)
    OBVIOUS
  <2> QED
    BY <1>0, <1>b, <1>w, <2>1, <2>2, Zenon
<1>3. n * ((n + 1) * (s + a * b)) = (n + 1) * (n * s) + w * w
  <2>1. n * ((n + 1) * (s + a * b)) = (n + 1) * (n * s) + (n * a) * ((n + 1) * b)
    OBVIOUS
  <2> QED
    BY <1>1, <1>2, <2>1, Zenon
<1>4. (n + 1) * (S * S * (n * Q - T * T)) + w * w
        = n * (S * S * ((n + 1) * (Q + v * v) - (T + v) * (T + v)))
  <2>1. (n + 1) * (S * S * (n * Q - T * T)) + (S * (n * v - T)) * (S * (n * v - T))
          = n * (S * S * ((n + 1) * (Q + v * v) - (T + v) * (T + v)))
    OBVIOUS
  <2> QED
    BY <1>w, <2>1, Zenon
<1>x. PICK x \in Int : x = (n + 1) * (s + a * b)
  OBVIOUS
<1>y. PICK y \in Int : y = S * S * ((n + 1) * (Q + v * v) - (T + v) * (T + v))
  OBVIOUS
<1>5. n * x = n * y
  BY <1>0, <1>3, <1>4, <1>x, <1>y, Zenon
<1>6. x = y
  BY <1>5
<1>7. s1 = s + a * b /\ s1 \in Int
  BY <1>S, <1>a, <1>b
<1> QED
  BY <1>6, <1>7, <1>S, <1>x, <1>y, ZenonT(20) DEF SquareIs

-----------------------------------------------------------------------------
(* A sample *)

\* The record of a GPU after its first sample.
LEMMA FirstItemIs ==
  ASSUME NEW st, GpuShape(st), NEW v, NEW ts, NEW t, t = FirstItem(st, v, ts)
  PROVE  /\ GpuShape(t) /\ t.count = 1 /\ t.max = v /\ t.min = v /\ t.total = v
         /\ t.energy_last_time = ts /\ t.m = Scale * v /\ t.s = 0
         /\ t.energy = st.energy /\ t.ecc_init = st.ecc_init
<1>m. PICK m : m = Scale * v
  BY Zenon
<1>1. t = [st EXCEPT !.count = 1, !.max = v, !.min = v, !.total = v,
                     !.energy_last_time = ts, !.m = m, !.s = 0]
  BY <1>m, Zenon DEF FirstItem
<1>2. /\ GpuShape(t) /\ t.count = 1 /\ t.max = v /\ t.min = v /\ t.total = v
      /\ t.energy_last_time = ts /\ t.m = m /\ t.s = 0
      /\ t.energy = st.energy /\ t.ecc_init = st.ecc_init
  BY <1>1, ZenonT(20) DEF GpuShape
<1> QED
  BY <1>2, <1>m, Zenon

\* The record of a GPU after a later sample.
LEMMA NextItemIs ==
  ASSUME NEW st, GpuShape(st), NEW v, NEW ts, NEW t, t = NextItem(st, v, ts), NEW m1,
         m1 = st.m + (Scale * v - st.m) \div (st.count + 1)
  PROVE  /\ GpuShape(t) /\ t.count = st.count + 1 /\ t.total = st.total + v
         /\ t.max = IF v > st.max THEN v ELSE st.max
         /\ t.min = IF v < st.min THEN v ELSE st.min
         /\ t.energy = st.energy + ((ts - st.energy_last_time) * v) \div EnergyUnit
         /\ t.m = m1 /\ t.s = st.s + (Scale * v - st.m) * (Scale * v - m1)
         /\ t.energy_last_time = st.energy_last_time /\ t.ecc_init = st.ecc_init
<1>n. PICK n : n = st.count + 1
  BY Zenon
<1>t. PICK total : total = st.total + v
  BY Zenon
<1>x. PICK max : max = IF v > st.max THEN v ELSE st.max
  BY Zenon
<1>i. PICK min : min = IF v < st.min THEN v ELSE st.min
  BY Zenon
<1>e. PICK energy : energy = st.energy + ((ts - st.energy_last_time) * v) \div EnergyUnit
  BY Zenon
<1>s. PICK s : s = st.s + (Scale * v - st.m) * (Scale * v - m1)
  BY Zenon
<1>1. t = [st EXCEPT !.count = n, !.total = total, !.max = max, !.min = min,
                     !.energy = energy, !.m = m1, !.s = s]
  BY <1>n, <1>t, <1>x, <1>i, <1>e, <1>s, Zenon DEF NextItem
<1>2. /\ GpuShape(t) /\ t.count = n /\ t.total = total /\ t.max = max /\ t.min = min
      /\ t.energy = energy /\ t.m = m1 /\ t.s = s
      /\ t.energy_last_time = st.energy_last_time /\ t.ecc_init = st.ecc_init
  BY <1>1, ZenonT(20) DEF GpuShape
<1> QED
  BY <1>2, <1>n, <1>t, <1>x, <1>i, <1>e, <1>s, Zenon

\* No sample yet.
LEMMA EmptyIs ==
  ASSUME NEW e, Empty(e)
  PROVE  /\ e \in Seq(Int) /\ e \in Seq(JobSample) /\ Len(e) = 0 /\ Total(e) = 0
         /\ ValuesOf(e) = e /\ Squares(e) = e /\ Products(e) = e
BY TotalEmpty DEF Empty, ValuesOf, Squares, Products

\* The first sample of a GPU.
FirstOf(t, sq, st, e, x, now) ==
  /\ now \in Nat /\ x \in JobSample /\ x.ts = now /\ 1 <= MaxJobSamples
  /\ Empty(e) /\ GpuOK(st, e, now)
  /\ t = FirstItem(st, x.v, now) /\ sq = Append(e, x)

\* The first sample: the record is about it alone.
LEMMA FirstSample ==
  ASSUME NEW t, NEW sq, NEW st, NEW e, NEW x, NEW now, FirstOf(t, sq, st, e, x, now)
  PROVE  GpuOK(t, sq, now) /\ t.ecc_init = st.ecc_init
<1> /\ now \in Nat /\ x \in JobSample /\ x.ts = now /\ 1 <= MaxJobSamples
    /\ Empty(e) /\ GpuOK(st, e, now)
    /\ t = FirstItem(st, x.v, now) /\ sq = Append(e, x)
  BY Zenon DEF FirstOf
<1>0. /\ e \in Seq(Int) /\ e \in Seq(JobSample) /\ Len(e) = 0 /\ Total(e) = 0
      /\ ValuesOf(e) = e /\ Squares(e) = e /\ Products(e) = e
  BY EmptyIs, Zenon
<1>v. PICK v : v = x.v
  BY Zenon
<1>1. GpuShape(st) /\ st.energy = Total(e) /\ st.energy \in Int
  BY <1>0 DEF GpuOK, EnergyOK
<1>2. /\ GpuShape(t) /\ t.count = 1 /\ t.max = v /\ t.min = v /\ t.total = v
      /\ t.energy_last_time = now /\ t.m = Scale * v /\ t.s = 0
      /\ t.energy = st.energy /\ t.ecc_init = st.ecc_init
  BY <1>1, <1>v, FirstItemIs
<1>3. /\ v \in Int /\ v * v \in Int
      /\ sq \in Seq(JobSample) /\ Len(sq) = 1 /\ sq[1] = x /\ DOMAIN sq = {1} /\ sq # <<>>
  <2>1. v \in Int
    BY <1>v, SampleIs
  <2>2. sq \in Seq(JobSample) /\ Len(sq) = 1 /\ sq[1] = x /\ DOMAIN sq = {1} /\ sq # <<>>
    BY DEF Empty
  <2> QED
    BY <2>1, <2>2
<1>4. ValuesOf(sq) = Append(e, v)
  BY <1>0, <1>v, ValuesAppend, ZenonT(20)
<1>5. Total(ValuesOf(sq)) = v
  BY <1>3, <1>4, TotalOne, ZenonT(20)
<1>6. Squares(ValuesOf(sq)) = Append(e, v * v)
  BY <1>0, <1>3, <1>4, SquaresAppend, ZenonT(20)
<1>7. Total(Squares(ValuesOf(sq))) = v * v
  BY <1>3, <1>6, TotalOne, ZenonT(20)
<1>8. Total(Products(sq)) = 0
  <2>1. PICK p \in Int : p = 0
    OBVIOUS
  <2>2. p = IF e = <<>> THEN 0 ELSE ((x.ts - e[Len(e)].ts) * x.v) \div EnergyUnit
    BY <2>1, Zenon DEF Empty
  <2>3. Products(Append(e, x)) = Append(Products(e), p)
    BY <1>0, <2>2, ProductsAppend, ZenonT(20)
  <2>4. Total(Append(e, p)) = p
    BY TotalOne, ZenonT(20)
  <2> QED
    BY <1>0, <2>1, <2>3, <2>4, Zenon
<1>10. Scale \in Int /\ Scale * v \in Int
  BY <1>3, ScaleAndLimit, SMTT(30)
<1>11. MeansOK(t, sq)
  <2>1. 1 * (Scale * v) = Scale * v /\ 1 * 0 = Scale * Scale * (1 * (v * v) - v * v)
    BY <1>3, <1>10, SMTT(30)
  <2> QED
    BY <1>2, <1>3, <1>5, <1>7, <1>10, <2>1, SMTT(30) DEF MeansOK
<1>12. ExtremesOK(t, sq)
  BY <1>2, <1>3, <1>v, SMTT(30) DEF ExtremesOK
<1>13. EnergyOK(t, sq, now)
  BY <1>0, <1>1, <1>2, <1>3, <1>8 DEF EnergyOK
<1> QED
  BY <1>2, <1>3, <1>11, <1>12, <1>13, Zenon DEF GpuOK

\* A truncated quotient grows with its numerator.
LEMMA QuotientGrows ==
  ASSUME NEW a \in Int, NEW b \in Int, a <= b, NEW d \in Nat \ {0}
  PROVE  a \div d <= b \div d /\ a \div d \in Int /\ b \div d \in Int
OBVIOUS

\* A later sample: the mean and the square sum.
LEMMA NextMeans ==
  ASSUME NEW st, NEW sq \in Seq(JobSample), MeansOK(st, sq), st.count = Len(sq), sq # <<>>,
         Len(sq) + 1 <= MaxJobSamples, NEW x \in JobSample, NEW t, NEW m1,
         m1 = st.m + (Scale * x.v - st.m) \div (st.count + 1), t.m = m1,
         t.count = st.count + 1, t.total = st.total + x.v,
         t.s = st.s + (Scale * x.v - st.m) * (Scale * x.v - m1)
  PROVE  MeansOK(t, Append(sq, x))
<1>n. PICK n : n = Len(sq)
  BY Zenon
<1>v. PICK v : v = x.v
  BY Zenon
<1>vs. PICK vs : vs = ValuesOf(sq)
  BY Zenon
<1>1. n \in Nat \ {0} /\ n + 1 <= MaxJobSamples /\ Len(Append(sq, x)) = n + 1
  BY <1>n
<1>2. v \in Int /\ v * v \in Int
  BY <1>v, SampleIs
<1>3. ValuesOf(Append(sq, x)) = Append(vs, v) /\ vs \in Seq(Int)
  BY <1>v, <1>vs, ValuesAppend, Zenon
<1>T. PICK T : T = Total(vs)
  BY Zenon
<1>Q. PICK Q : Q = Total(Squares(vs))
  BY Zenon
<1>4. T \in Int /\ Total(Append(vs, v)) = T + v
  BY <1>2, <1>3, <1>T, TotalAppend, Zenon
<1>5. Squares(Append(vs, v)) = Append(Squares(vs), v * v) /\ Squares(vs) \in Seq(Int)
  BY <1>2, <1>3, SquaresAppend, ZenonT(20)
<1>6. Q \in Int /\ Total(Append(Squares(vs), v * v)) = Q + v * v
  BY <1>2, <1>5, <1>Q, TotalAppend, Zenon
<1>m. PICK m : m = st.m
  BY Zenon
<1>s. PICK s : s = st.s
  BY Zenon
<1>7. m \in Int /\ s \in Int /\ st.total = T /\ MeanIs(n, m, T) /\ SquareIs(n, s, Q, T)
  BY <1>n, <1>m, <1>s, <1>vs, <1>T, <1>Q, Zenon DEF MeansOK, MeanIs, SquareIs
<1>8. Scale % n = 0 /\ Scale % (n + 1) = 0
  <2>1. n \in 1 .. MaxJobSamples /\ n + 1 \in 1 .. MaxJobSamples
    BY <1>1, ScaleAndLimit
  <2> QED
    BY <2>1, JobStatsConstants, Zenon
<1>9. m1 = m + (Scale * v - m) \div (n + 1)
  BY <1>n, <1>v, <1>m, Zenon
<1>10. m1 \in Int /\ MeanIs(n + 1, m1, T + v)
  BY <1>1, <1>2, <1>4, <1>7, <1>8, <1>9, WelfordMean, SMTT(30)
<1>11. t.s = s + (Scale * v - m) * (Scale * v - m1)
  BY <1>v, <1>m, <1>s, Zenon
<1>12. t.s \in Int /\ SquareIs(n + 1, t.s, Q + v * v, T + v)
  BY <1>1, <1>2, <1>4, <1>6, <1>7, <1>10, <1>11, WelfordSquares, SMTT(20)
<1>w. PICK ws : ws = Append(sq, x)
  BY ZenonT(20)
<1>14. /\ Total(ValuesOf(ws)) = T + v /\ Total(Squares(ValuesOf(ws))) = Q + v * v
       /\ Len(ws) = n + 1
  BY <1>1, <1>3, <1>4, <1>5, <1>6, <1>w, ZenonT(20)
<1>15. t.m = m1 /\ t.count = n + 1 /\ t.total = T + v
  BY <1>7, <1>n, <1>v, Zenon
<1>16. MeansOK(t, ws)
  BY <1>10, <1>12, <1>14, <1>15, Zenon DEF MeansOK, MeanIs, SquareIs
<1> QED
  BY <1>16, <1>w, Zenon

\* The extremes after one more sample.
LEMMA NextExtremes ==
  ASSUME NEW st, NEW sq \in Seq(JobSample), ExtremesOK(st, sq), sq # <<>>, NEW x \in JobSample, NEW t,
         t.max = IF x.v > st.max THEN x.v ELSE st.max,
         t.min = IF x.v < st.min THEN x.v ELSE st.min
  PROVE  ExtremesOK(t, Append(sq, x))
<1>w. PICK ws : ws = Append(sq, x)
  BY ZenonT(20)
<1>n. PICK n : n = Len(sq)
  BY Zenon
<1>1. /\ n \in Nat /\ DOMAIN sq = 1 .. n /\ DOMAIN ws = 1 .. n + 1 /\ ws[n + 1] = x
      /\ \A i \in 1 .. n : ws[i] = sq[i] /\ sq[i] \in JobSample
  BY <1>n, <1>w
<1>2. /\ n + 1 \in 1 .. n + 1 /\ (\A i \in 1 .. n : i \in 1 .. n + 1)
      /\ \A i \in 1 .. n + 1 : i \in 1 .. n \/ i = n + 1
  BY <1>1
<1>3. x.v \in Nat /\ \A i \in 1 .. n : sq[i].v \in Nat
  BY <1>1, SampleIs, Zenon
<1>4. PICK i \in 1 .. n : sq[i].v = st.max
  BY <1>1, Zenon DEF ExtremesOK
<1>5. PICK j \in 1 .. n : sq[j].v = st.min
  BY <1>1, Zenon DEF ExtremesOK
<1>6. st.max \in Nat /\ st.min \in Nat /\ \A k \in 1 .. n : st.min <= sq[k].v /\ sq[k].v <= st.max
  BY <1>1, <1>3, <1>4, <1>5, ZenonT(20) DEF ExtremesOK
<1>7. t.max \in Nat /\ t.min \in Nat /\ st.max <= t.max /\ x.v <= t.max /\ t.min <= st.min
      /\ t.min <= x.v
  BY <1>3, <1>6
<1>8. \A k \in 1 .. n + 1 : t.min <= ws[k].v /\ ws[k].v <= t.max
  <2>1. \A k \in 1 .. n : t.min <= ws[k].v /\ ws[k].v <= t.max
    BY <1>1, <1>3, <1>6, <1>7, SMTT(30)
  <2> QED
    BY <1>1, <1>2, <1>7, <2>1, Zenon
<1>9. \E k \in 1 .. n + 1 : ws[k].v = t.max
  BY <1>1, <1>2, <1>4, Zenon
<1>10. \E k \in 1 .. n + 1 : ws[k].v = t.min
  BY <1>1, <1>2, <1>5, Zenon
<1>11. ExtremesOK(t, ws)
  BY <1>1, <1>8, <1>9, <1>10, Zenon DEF ExtremesOK
<1> QED
  BY <1>11, <1>w, Zenon

\* A product grows with its factor.
LEMMA ProductGrows ==
  ASSUME NEW p \in Int, NEW q \in Int, p <= q, NEW v \in Nat
  PROVE  p * v \in Int /\ q * v \in Int /\ p * v <= q * v
<1>1. (q - p) * v >= 0 /\ (q - p) * v = q * v - p * v
  OBVIOUS
<1> QED
  BY <1>1

\* The energy after one more sample.  Its time is measured from the first
\* sample, so what is added is at least what should be.
LEMMA NextEnergy ==
  ASSUME NEW st, NEW sq \in Seq(JobSample), NEW now \in Nat, EnergyOK(st, sq, now), sq # <<>>,
         NEW x \in JobSample, x.ts = now, NEW t,
         t.energy = st.energy + ((now - st.energy_last_time) * x.v) \div EnergyUnit,
         t.energy_last_time = st.energy_last_time
  PROVE  EnergyOK(t, Append(sq, x), now)
<1>n. PICK n : n = Len(sq)
  BY Zenon
<1>w. PICK ws : ws = Append(sq, x)
  BY ZenonT(20)
<1>1. /\ n \in Nat /\ n # 0 /\ 1 \in 1 .. n /\ n \in 1 .. n
      /\ Len(ws) = n + 1 /\ ws[n + 1] = x /\ ws # <<>> /\ \A i \in 1 .. n : ws[i] = sq[i]
  BY <1>n, <1>w, SMTT(30)
<1>2. sq[1] \in JobSample /\ sq[n] \in JobSample /\ ws[1] = sq[1]
  BY <1>1, <1>n
<1>3. sq[1].ts \in Nat /\ sq[n].ts \in Nat /\ x.v \in Nat
  BY <1>2, SampleIs, Zenon
<1>4. st.energy_last_time = sq[1].ts /\ sq[1].ts <= sq[n].ts /\ sq[n].ts <= now
      /\ st.energy \in Int
  BY <1>n, Zenon DEF EnergyOK
<1>a. PICK a : a = (now - sq[n].ts) * x.v
  BY Zenon
<1>b. PICK b : b = (now - sq[1].ts) * x.v
  BY Zenon
<1>5. a \in Int /\ b \in Int /\ a <= b
  <2>1. now - sq[n].ts \in Int /\ now - sq[1].ts \in Int /\ now - sq[n].ts <= now - sq[1].ts
    BY <1>3, <1>4, SMTT(30)
  <2> QED
    BY <1>3, <1>a, <1>b, <2>1, ProductGrows, ZenonT(20)
<1>U. EnergyUnit \in Nat \ {0}
  BY JobStatsConstants, Zenon
<1>p. PICK p : p = a \div EnergyUnit
  BY Zenon
<1>q. PICK q : q = b \div EnergyUnit
  BY Zenon
<1>6. p \in Int /\ q \in Int /\ p <= q
  BY <1>5, <1>U, <1>p, <1>q, QuotientGrows, ZenonT(30)
<1>7. p = IF sq = <<>> THEN 0 ELSE ((x.ts - sq[Len(sq)].ts) * x.v) \div EnergyUnit
  BY <1>a, <1>n, <1>p, Zenon
<1>8. Products(ws) = Append(Products(sq), p)
  BY <1>6, <1>7, <1>w, ProductsAppend, Zenon
<1>9. Products(sq) \in Seq(Int)
  BY ProductsAre, Zenon
<1>10. Total(Products(ws)) = Total(Products(sq)) + p /\ Total(Products(sq)) \in Int
  BY <1>6, <1>8, <1>9, TotalAppend, Zenon
<1>11. t.energy = st.energy + q
  BY <1>4, <1>b, <1>q, Zenon
<1>12. t.energy \in Int /\ t.energy >= Total(Products(ws))
  BY <1>4, <1>6, <1>10, <1>11, SMTT(30) DEF EnergyOK
<1>13. Len(ws) <= 2 => t.energy = Total(Products(ws))
  <2>1. SUFFICES ASSUME Len(ws) <= 2 PROVE t.energy = Total(Products(ws))
    BY Zenon
  <2>2. n = 1 /\ Len(sq) <= 2
    BY <1>1, <1>n, <2>1, SMTT(30)
  <2>3. p = q
    BY <1>a, <1>b, <1>p, <1>q, <2>2, Zenon
  <2> QED
    BY <1>10, <1>11, <2>2, <2>3, Zenon DEF EnergyOK
<1>14. ws[1].ts <= ws[Len(ws)].ts /\ ws[Len(ws)].ts <= now /\ t.energy_last_time = ws[1].ts
  BY <1>1, <1>2, <1>3, <1>4, SMTT(30)
<1>15. EnergyOK(t, ws, now)
  BY <1>12, <1>13, <1>14, Zenon DEF EnergyOK
<1> QED
  BY <1>15, <1>w, Zenon

\* A later sample of a GPU.
LEMMA NextSample ==
  ASSUME NEW st, NEW sq, NEW now \in Nat, GpuOK(st, sq, now), ~Empty(sq), NEW x \in JobSample,
         x.ts = now, NEW t, t = NextItem(st, x.v, now), st.count < MaxJobSamples
  PROVE  GpuOK(t, Append(sq, x), now) /\ t.ecc_init = st.ecc_init
<1>1. /\ GpuShape(st) /\ sq \in Seq(JobSample) /\ st.count = Len(sq) /\ sq # <<>>
      /\ MeansOK(st, sq) /\ ExtremesOK(st, sq) /\ EnergyOK(st, sq, now)
  BY Zenon DEF GpuOK, Empty
<1>m. PICK m1 : m1 = st.m + (Scale * x.v - st.m) \div (st.count + 1)
  BY Zenon
<1>2. /\ GpuShape(t) /\ t.count = st.count + 1 /\ t.total = st.total + x.v
      /\ t.max = IF x.v > st.max THEN x.v ELSE st.max
      /\ t.min = IF x.v < st.min THEN x.v ELSE st.min
      /\ t.energy = st.energy + ((now - st.energy_last_time) * x.v) \div EnergyUnit
      /\ t.m = m1 /\ t.s = st.s + (Scale * x.v - st.m) * (Scale * x.v - m1)
      /\ t.energy_last_time = st.energy_last_time /\ t.ecc_init = st.ecc_init
  BY <1>1, <1>m, NextItemIs, SMTT(30)
<1>3. /\ Append(sq, x) \in Seq(JobSample) /\ Len(Append(sq, x)) = Len(sq) + 1
      /\ Len(sq) \in Nat /\ Len(sq) + 1 <= MaxJobSamples
  <2>1. Len(sq) \in Nat /\ MaxJobSamples \in Nat
    BY <1>1, ScaleAndLimit
  <2> QED
    BY <1>1, <2>1
<1>4. MeansOK(t, Append(sq, x))
  BY <1>1, <1>2, <1>3, <1>m, NextMeans, Zenon
<1>5. ExtremesOK(t, Append(sq, x))
  BY <1>1, <1>2, NextExtremes, Zenon
<1>6. EnergyOK(t, Append(sq, x), now)
  BY <1>1, <1>2, NextEnergy, Zenon
<1> QED
  BY <1>1, <1>2, <1>3, <1>4, <1>5, <1>6, Zenon DEF GpuOK

\* The time that passes changes nothing.
LEMMA GpuLater ==
  ASSUME NEW st, NEW sq, NEW now \in Nat, GpuOK(st, sq, now)
  PROVE  GpuOK(st, sq, now + 1)
<1>1. sq \in Seq(JobSample)
  BY Zenon DEF GpuOK
<1>2. sq # <<>> => sq[Len(sq)].ts \in Nat
  <2>1. sq # <<>> => sq[Len(sq)] \in JobSample
    BY <1>1, SMTT(30)
  <2> QED
    BY <2>1, SampleIs, Zenon
<1>3. EnergyOK(st, sq, now + 1)
  BY <1>2 DEF GpuOK, EnergyOK
<1> QED
  BY <1>3, Zenon DEF GpuOK

\* The statistics of a start.
LEMMA NewIs ==
  ASSUME NEW gauge \in Nat \cup {Missing}, NEW st, st = NewGpuStats(gauge), NEW e, Empty(e),
         NEW now
  PROVE  GpuOK(st, e, now) /\ st.ecc_init = IF gauge = Missing THEN 0 ELSE gauge
<1>c. PICK ecc : ecc = IF gauge = Missing THEN 0 ELSE gauge
  BY Zenon
<1>1. /\ GpuShape(st) /\ st.count = 0 /\ st.m = 0 /\ st.s = 0 /\ st.total = 0 /\ st.energy = 0
      /\ st.ecc_init = ecc
  BY <1>c, Zenon DEF NewGpuStats, GpuShape
<1>2. /\ e \in Seq(JobSample) /\ Len(e) = 0 /\ Total(e) = 0
      /\ ValuesOf(e) = e /\ Squares(e) = e /\ Products(e) = e /\ e = <<>>
  BY EmptyIs, Zenon DEF Empty
<1>3. Scale \in Int /\ MaxJobSamples \in Nat
  BY ScaleAndLimit
<1>4. MeansOK(st, e)
  <2>1. 0 * 0 = Scale * 0 /\ 0 * 0 = Scale * Scale * (0 * 0 - 0 * 0)
    BY <1>3
  <2> QED
    BY <1>1, <1>2, <2>1, SMTT(30) DEF MeansOK
<1>5. ExtremesOK(st, e)
  BY <1>2, Zenon DEF ExtremesOK
<1>6. EnergyOK(st, e, now)
  BY <1>1, <1>2 DEF EnergyOK
<1> QED
  BY <1>1, <1>2, <1>3, <1>4, <1>5, <1>6, <1>c, SMTT(30) DEF GpuOK

-----------------------------------------------------------------------------
(* The counter of ECC errors *)

\* The ECC bookkeeping is right at the start of a run.
LEMMA EccStarts ==
  ASSUME NEW e, Empty(e), NEW g, NEW init \in Nat
  PROVE  EccOK(init, init, e, g)
<1>1. DOMAIN e = {}
  BY DEF Empty
<1> QED
  BY <1>1, Zenon DEF EccOK

\* A difference that is not below zero does not wrap.
LEMMA MinusIs ==
  ASSUME NEW a \in Nat, NEW b \in Nat
  PROVE  /\ Minus(a, b) \in Nat
         /\ b <= a /\ a <= MaxErrors => Minus(a, b) = a - b
<1>u. PICK u : u = UINT64_MAX
  BY Zenon
<1>1. u \in Nat /\ MaxErrors \in 0 .. u
  BY <1>u, JobStatsConstants, Zenon
<1>d. PICK d : d = a - b
  BY Zenon
<1>2. d \in Int
  BY <1>d
<1>3. d % (u + 1) \in Nat
  BY <1>1, <1>2
<1>4. b <= a /\ a <= MaxErrors => d \in 0 .. u
  BY <1>1, <1>d
<1>5. d \in 0 .. u => d % (u + 1) = d
  BY <1>1
<1>6. Minus(a, b) = d % (u + 1)
  BY <1>d, <1>u, Zenon DEF Minus
<1> QED
  BY <1>3, <1>4, <1>5, <1>6, <1>d, Zenon

\* It stays right at a stop, whether that reads the counter or not.
LEMMA EccStops ==
  ASSUME NEW init, NEW start, NEW stops \in Seq(Stop), NEW g \in JobGpus,
         EccOK(init, start, stops, g), NEW gauges \in Gauges, NEW fresh \in BOOLEAN,
         gauges[g] # Missing => gauges[g] <= MaxErrors,
         gauges[g] # Missing /\ fresh => start <= gauges[g], NEW s,
         s = [gauges |-> gauges, fresh |-> fresh]
  PROVE  EccOK(EccAtStop(init, gauges[g]), start, Append(stops, s), g)
<1>n. PICK n : n = Len(stops)
  BY Zenon
<1>w. PICK ws : ws = Append(stops, s)
  BY ZenonT(20)
<1>x. PICK x : x = gauges[g]
  BY Zenon
<1>0. s.gauges = gauges /\ s.fresh = fresh /\ s \in Stop
  BY Zenon DEF Stop
<1>1. /\ n \in Nat /\ DOMAIN stops = 1 .. n /\ DOMAIN ws = 1 .. n + 1 /\ ws[n + 1] = s
      /\ \A i \in 1 .. n : ws[i] = stops[i]
  BY <1>0, <1>n, <1>w, SMTT(30)
<1>2. /\ n + 1 \in DOMAIN ws /\ \A i \in DOMAIN ws : i \in DOMAIN stops \/ i = n + 1
      /\ \A i \in DOMAIN stops : i \in DOMAIN ws /\ i # n + 1 /\ ws[i] = stops[i]
  BY <1>1
<1>3. /\ init \in Nat /\ start \in Nat
      /\ (\A i \in DOMAIN stops : stops[i].gauges[g] = Missing) => init = start
      /\ \A i \in DOMAIN stops :
           /\ stops[i].gauges[g] # Missing /\ stops[i].fresh
           /\ \A j \in DOMAIN stops : j # i => stops[j].gauges[g] = Missing
           => init = stops[i].gauges[g] - start
  BY Zenon DEF EccOK
<1>4. CASE x = Missing
  <2>1. EccAtStop(init, gauges[g]) = init
    BY <1>4, <1>x, Zenon DEF EccAtStop
  <2>2. ws[n + 1].gauges[g] = Missing
    BY <1>0, <1>1, <1>4, <1>x, Zenon
  <2>3. (\A i \in DOMAIN ws : ws[i].gauges[g] = Missing) => init = start
    BY <1>2, <1>3, Zenon
  <2>4. ASSUME NEW i \in DOMAIN ws, ws[i].gauges[g] # Missing, ws[i].fresh,
               \A j \in DOMAIN ws : j # i => ws[j].gauges[g] = Missing
        PROVE  init = ws[i].gauges[g] - start
    <3>1. i \in DOMAIN stops /\ stops[i].gauges[g] # Missing /\ stops[i].fresh /\ ws[i] = stops[i]
      BY <1>2, <2>2, <2>4, Zenon
    <3>2. \A j \in DOMAIN stops : j # i => stops[j].gauges[g] = Missing
      BY <1>2, <2>4, Zenon
    <3> QED
      BY <1>3, <3>1, <3>2, Zenon
  <2> QED
    BY <1>3, <1>w, <2>1, <2>3, <2>4, Zenon DEF EccOK
<1>5. CASE x # Missing
  <2>v. PICK v : v = Minus(x, init)
    BY Zenon
  <2>1. EccAtStop(init, gauges[g]) = v
    BY <1>5, <1>x, <2>v, Zenon DEF EccAtStop
  <2>2. ws[n + 1].gauges[g] = x /\ (ws[n + 1].fresh <=> fresh)
    BY <1>0, <1>1, <1>x, Zenon
  <2>3. x \in Nat /\ x <= MaxErrors /\ (fresh => start <= x)
    BY <1>5, <1>x, Zenon DEF Gauges
  <2>4. v \in Nat /\ (init <= x => v = x - init)
    BY <1>3, <2>3, <2>v, MinusIs, Zenon
  <2>5. ASSUME NEW i \in DOMAIN ws, ws[i].gauges[g] # Missing, ws[i].fresh,
               \A j \in DOMAIN ws : j # i => ws[j].gauges[g] = Missing
        PROVE  v = ws[i].gauges[g] - start
    <3>1. i = n + 1
      BY <1>2, <1>5, <2>2, <2>5, Zenon
    <3>2. \A j \in DOMAIN stops : stops[j].gauges[g] = Missing
      BY <1>2, <2>5, <3>1, Zenon
    <3>3. init = start /\ fresh
      BY <1>3, <2>2, <2>5, <3>1, <3>2, Zenon
    <3> QED
      BY <2>2, <2>3, <2>4, <3>1, <3>3, ZenonT(30)
  <2>6. ~ \A i \in DOMAIN ws : ws[i].gauges[g] = Missing
    BY <1>2, <1>5, <2>2, Zenon
  <2> QED
    BY <1>3, <1>w, <2>1, <2>4, <2>5, <2>6, ZenonT(30) DEF EccOK
<1> QED
  BY <1>4, <1>5, Zenon

-----------------------------------------------------------------------------
(* Every step keeps the invariant *)

\* The statistics of a new entry.
LEMMA FreshIs ==
  ASSUME NEW now \in Nat, NEW gauges \in Gauges,
         NEW stats, stats = [g \in JobGpus |-> NewGpuStats(gauges[g])], NEW e, Empty(e),
         NEW g \in JobGpus
  PROVE  /\ GpuOK(stats[g], e, now)
         /\ EccOK(stats[g].ecc_init, IF gauges[g] = Missing THEN 0 ELSE gauges[g], e, g)
<1>1. gauges[g] \in Nat \cup {Missing}
  BY Zenon DEF Gauges
<1>2. stats[g] = NewGpuStats(gauges[g])
  BY Zenon
<1>i. PICK init : init = IF gauges[g] = Missing THEN 0 ELSE gauges[g]
  BY Zenon
<1>3. GpuOK(stats[g], e, now) /\ stats[g].ecc_init = init
  BY <1>1, <1>2, <1>i, NewIs, ZenonT(20)
<1>4. init \in Nat
  BY <1>1, <1>i
<1>5. EccOK(init, init, e, g)
  BY <1>4, EccStarts, ZenonT(30)
<1> QED
  BY <1>3, <1>5, <1>i, Zenon

\* An entry begins again.
LEMMA BeginsAgain ==
  ASSUME ticks' \in Nat, NEW gauges \in Gauges, NEW present,
         entry' = [present |-> present, ended |-> FALSE,
                   gpu_stats |-> [g \in JobGpus |-> NewGpuStats(gauges[g])]],
         seen' = [g \in JobGpus |-> <<>>], first' = gauges, final' = <<>>
  PROVE  StatsInv'
<1>s. PICK stats : stats = [g \in JobGpus |-> NewGpuStats(gauges[g])]
  BY Zenon
<1>e. PICK e : e = <<>> /\ Empty(e)
  BY Zenon DEF Empty
<1>1. /\ entry'.ended = FALSE /\ entry'.gpu_stats = stats
      /\ entry' = [present |-> entry'.present, ended |-> entry'.ended, gpu_stats |-> entry'.gpu_stats]
  BY <1>s, Zenon
<1>2. stats = [g \in JobGpus |-> stats[g]]
  BY <1>s, Zenon
<1>3. final' \in Seq(Stop) /\ ~(final' # <<>>)
  OBVIOUS
<1>4. seen' = [g \in JobGpus |-> seen'[g]] /\ \A g \in JobGpus : seen'[g] = e
  BY <1>e, Zenon
<1>5. JobStatsTypes'
  BY <1>1, <1>2, <1>3, <1>4, ZenonT(20) DEF JobStatsTypes
<1>6. ASSUME NEW g \in JobGpus PROVE GpuInv(g)'
  <2>1. /\ GpuOK(stats[g], e, ticks')
        /\ EccOK(stats[g].ecc_init, IF gauges[g] = Missing THEN 0 ELSE gauges[g], e, g)
    BY <1>e, <1>s, FreshIs, ZenonT(20)
  <2>2. FirstReading(g)' = IF gauges[g] = Missing THEN 0 ELSE gauges[g]
    BY Zenon DEF FirstReading
  <2>3. entry'.gpu_stats[g] = stats[g] /\ seen'[g] = e /\ final' = e
    BY <1>1, <1>4, <1>e, Zenon
  <2> QED
    BY <2>1, <2>2, <2>3, Zenon DEF GpuInv
<1> QED
  BY <1>5, <1>6, Zenon DEF StatsInv

\* A client without a call is in order.
LEMMA NoCallGood ==
  ASSUME starts \in Nat, NEW op, NEW run \in Nat, run <= starts, NEW k,
         k = [op |-> op, gauges |-> AllGauges(Unread), run |-> run]
  PROVE  CallGood(k)
<1>1. k.gauges = [g \in JobGpus |-> Unread] /\ k.run = run
  BY Zenon DEF AllGauges
<1>2. Unread \notin Nat
  BY DEF Unread
<1>3. k.gauges \in [JobGpus -> Nat \cup {Missing, Unread}] /\ \A g \in JobGpus : k.gauges[g] = Unread
  BY <1>1, Zenon
<1>4. k = [op |-> k.op, gauges |-> k.gauges, run |-> k.run]
  BY Zenon
<1> QED
  BY <1>1, <1>2, <1>3, <1>4, Zenon DEF CallGood

\* The invariant holds at the start.
LEMMA InitKeeps == JobStatsInit => JobStatsInv
<1> SUFFICES ASSUME JobStatsInit PROVE JobStatsInv
  BY Zenon
<1>s. PICK stats : stats = [g \in JobGpus |-> NewGpuStats(0)]
  BY ZenonT(20)
<1>e. PICK e : e = <<>> /\ Empty(e)
  BY Zenon DEF Empty
<1>1. /\ entry.ended = FALSE /\ entry.gpu_stats = stats
      /\ entry = [present |-> entry.present, ended |-> entry.ended, gpu_stats |-> entry.gpu_stats]
  BY <1>s, Zenon DEF JobStatsInit
<1>2. stats = [g \in JobGpus |-> stats[g]]
  BY <1>s, Zenon
<1>3. final = e /\ final \in Seq(Stop) /\ ~(final # <<>>)
  BY <1>e DEF JobStatsInit
<1>4. seen = [g \in JobGpus |-> seen[g]] /\ \A g \in JobGpus : seen[g] = e
  BY <1>e, Zenon DEF JobStatsInit
<1>5. ticks \in Nat /\ first \in Gauges /\ \A g \in JobGpus : first[g] = 0
  BY Zenon DEF JobStatsInit, Gauges
<1>6. JobStatsTypes
  BY <1>1, <1>2, <1>3, <1>4, <1>5, ZenonT(20) DEF JobStatsTypes
<1>7. ASSUME NEW g \in JobGpus PROVE GpuInv(g)
  <2>1. stats = [h \in JobGpus |-> NewGpuStats(first[h])]
    BY <1>5, <1>s, Zenon
  <2>2. /\ GpuOK(stats[g], e, ticks)
        /\ EccOK(stats[g].ecc_init, IF first[g] = Missing THEN 0 ELSE first[g], e, g)
    BY <1>5, <1>e, <2>1, FreshIs, SMTT(30)
  <2> QED
    BY <1>1, <1>3, <1>4, <2>2, Zenon DEF GpuInv, FirstReading
<1>8. CallsInv
  <2>1. /\ starts = 0 /\ call = [c \in Clients |-> NoCall] /\ errors = [g \in JobGpus |-> 0]
    BY Zenon DEF JobStatsInit
  <2>2. starts \in Nat /\ errors \in [JobGpus -> 0 .. MaxErrors]
    BY <2>1, JobStatsConstants
  <2>3. ASSUME NEW g \in JobGpus PROVE FirstReading(g) <= errors[g]
    <3>1. first[g] = 0 /\ errors[g] = 0
      BY <1>5, <2>1, Zenon
    <3> QED
      BY <3>1 DEF FirstReading
  <2>4. NoCall = [op |-> "none", gauges |-> AllGauges(Unread), run |-> 0]
    BY Zenon DEF NoCall
  <2>5. 0 \in Nat /\ 0 <= starts
    BY <2>1
  <2>6. CallGood(NoCall)
    BY <2>2, <2>4, <2>5, NoCallGood, Zenon
  <2> QED
    BY <2>1, <2>2, <2>3, <2>6, Zenon DEF CallsInv
<1> QED
  BY <1>6, <1>7, <1>8, Zenon DEF JobStatsInv, StatsInv

\* What the statistics say does not depend on the driver and the calls.
LEMMA SameStats ==
  ASSUME StatsInv, UNCHANGED <<ticks, entry, seen, first, final>>
  PROVE  StatsInv'
<1>1. JobStatsTypes'
  BY Zenon DEF StatsInv, JobStatsTypes
<1>2. ASSUME NEW g \in JobGpus PROVE GpuInv(g)'
  BY Zenon DEF StatsInv, GpuInv, FirstReading
<1> QED
  BY <1>1, <1>2, Zenon DEF StatsInv

\* One client's call moves on.
LEMMA OneCall ==
  ASSUME CallsInv, UNCHANGED <<errors, starts, first>>, NEW c \in Clients, NEW k, CallGood(k),
         call' = [call EXCEPT ![c] = k]
  PROVE  CallsInv'
<1>1. \A g \in JobGpus : FirstReading(g)' = FirstReading(g)
  BY Zenon DEF FirstReading
<1>2. ASSUME NEW j, CallGood(j) PROVE CallGood(j)'
  BY <1>1, <1>2, Zenon DEF CallGood
<1>3. /\ call' = [d \in Clients |-> call'[d]]
      /\ \A d \in Clients : call'[d] = IF d = c THEN k ELSE call[d]
  BY Zenon DEF CallsInv
<1>4. \A d \in Clients : CallGood(call'[d])
  BY <1>3, Zenon DEF CallsInv
<1>5. \A d \in Clients : CallGood(call[d])'
  BY <1>2, <1>4, Zenon
<1> QED
  BY <1>1, <1>3, <1>5, Zenon DEF CallsInv

\* No call changes.
LEMMA SameCalls ==
  ASSUME CallsInv, UNCHANGED <<errors, starts, first, call>>
  PROVE  CallsInv'
BY Zenon DEF CallsInv, CallGood, FirstReading

\* A client whose call is over.
LEMMA CallOver ==
  ASSUME CallsInv
  PROVE  CallGood(NoCall)
<1>1. NoCall = [op |-> "none", gauges |-> AllGauges(Unread), run |-> 0]
  BY Zenon DEF NoCall
<1>2. starts \in Nat
  BY Zenon DEF CallsInv
<1>3. 0 \in Nat /\ 0 <= starts
  BY <1>2
<1> QED
  BY <1>1, <1>2, <1>3, NoCallGood, Zenon

\* The invariant is kept by a client's calling,
LEMMA AskKeeps ==
  ASSUME JobStatsInv, NEW c \in Clients, NEW op, Ask(c, op)
  PROVE  JobStatsInv'
<1>1. UNCHANGED <<ticks, errors, entry, starts, seen, first, final>>
  BY Zenon DEF Ask
<1>k. PICK k : k = [op |-> op, gauges |-> AllGauges(Unread), run |-> starts]
  BY Zenon
<1>2. call' = [call EXCEPT ![c] = k]
  BY <1>k, Zenon DEF Ask
<1>3. starts \in Nat /\ starts <= starts
  BY DEF JobStatsInv, CallsInv
<1>4. CallGood(k)
  BY <1>3, <1>k, NoCallGood, ZenonT(30)
<1>5. CallsInv'
  BY <1>1, <1>2, <1>4, OneCall, Zenon DEF JobStatsInv
<1> QED
  BY <1>1, <1>5, SameStats, Zenon DEF JobStatsInv

\* A call with other gauges.
LEMMA OtherGauges ==
  ASSUME NEW op, NEW gauges, NEW run, NEW k, k = [op |-> op, gauges |-> gauges, run |-> run], NEW gs
  PROVE  [k EXCEPT !.gauges = gs] = [op |-> op, gauges |-> gs, run |-> run]
OBVIOUS

\* by the reading of a gauge,
LEMMA ReadKeeps ==
  ASSUME JobStatsInv, NEW c \in Clients, NEW k \in DOMAIN GpuList, ReadGauge(c, k)
  PROVE  JobStatsInv'
<1>g. PICK g : g = GpuList[k]
  BY Zenon
<1>1. g \in JobGpus
  BY <1>g, Zenon DEF JobGpus, Range
<1>2. UNCHANGED <<ticks, errors, entry, starts, seen, first, final>>
  BY Zenon DEF ReadGauge
<1>3. PICK got \in {errors[g]} \cup (IF g \in FaultyGpus THEN {Missing} ELSE {}) :
        call' = [call EXCEPT ![c].gauges[g] = got]
  BY <1>g, Zenon DEF ReadGauge
<1>4. got = errors[g] \/ got = Missing
  BY <1>3, Zenon
<1>o. PICK old : old = call[c]
  BY Zenon
<1>5. CallGood(old)
  BY <1>o, Zenon DEF JobStatsInv, CallsInv
<1>w. PICK new : new = [op |-> old.op, gauges |-> [old.gauges EXCEPT ![g] = got], run |-> old.run]
  BY Zenon
<1>6. /\ old = [op |-> old.op, gauges |-> old.gauges, run |-> old.run]
      /\ old.gauges \in [JobGpus -> Nat \cup {Missing, Unread}]
  BY <1>5, Zenon DEF CallGood
<1>7. [old EXCEPT !.gauges[g] = got] = new
  <2>1. PICK gs : gs = [old.gauges EXCEPT ![g] = got]
    BY Zenon
  <2>o. PICK op, gauges, run : op = old.op /\ gauges = old.gauges /\ run = old.run
    BY Zenon
  <2>2. old = [op |-> op, gauges |-> gauges, run |-> run]
    BY <1>6, <2>o, Zenon
  <2>3. [old EXCEPT !.gauges = gs] = [op |-> op, gauges |-> gs, run |-> run]
    BY <2>2, OtherGauges
  <2> QED
    BY <1>w, <2>o, <2>1, <2>3, Zenon
<1>8. call' = [call EXCEPT ![c] = new]
  BY <1>3, <1>7, <1>o, Zenon
<1>9. errors[g] \in 0 .. MaxErrors /\ errors[g] \in Nat /\ FirstReading(g) <= errors[g]
      /\ errors[g] <= errors[g]
  BY <1>1 DEF JobStatsInv, CallsInv
<1>10. Missing \notin Nat
  BY DEF Missing
<1>11. CallGood(new)
  <2>1. /\ new = [op |-> new.op, gauges |-> new.gauges, run |-> new.run]
        /\ new.gauges = [old.gauges EXCEPT ![g] = got] /\ new.run = old.run
    BY <1>w, ZenonT(30)
  <2>2. /\ new.gauges \in [JobGpus -> Nat \cup {Missing, Unread}] /\ new.gauges[g] = got
        /\ \A h \in JobGpus : h # g => new.gauges[h] = old.gauges[h]
    BY <1>1, <1>4, <1>6, <1>9, <2>1, ZenonT(30)
  <2>3. new.run \in Nat /\ new.run <= starts
    BY <1>5, <2>1, Zenon DEF CallGood
  <2>4. ASSUME NEW h \in JobGpus, new.gauges[h] \in Nat
        PROVE  new.gauges[h] <= errors[h] /\ (new.run = starts => FirstReading(h) <= new.gauges[h])
    <3>1. CASE h = g
      BY <1>4, <1>9, <1>10, <2>2, <2>4, <3>1, ZenonT(30)
    <3>2. CASE h # g
      BY <1>5, <2>1, <2>2, <2>4, <3>2, Zenon DEF CallGood
    <3> QED
      BY <3>1, <3>2, Zenon
  <2> QED
    BY <2>1, <2>2, <2>3, <2>4, Zenon DEF CallGood
<1>12. CallsInv'
  BY <1>2, <1>8, <1>11, OneCall, Zenon DEF JobStatsInv
<1> QED
  BY <1>2, <1>12, SameStats, Zenon DEF JobStatsInv

\* by an answer that changes no statistics,
LEMMA AnsweredKeeps ==
  ASSUME JobStatsInv, NEW c \in Clients, GaugesFail(c) \/ Returns(c)
  PROVE  JobStatsInv'
<1>1. /\ UNCHANGED <<ticks, errors, entry, starts, seen, first, final>>
      /\ call' = [call EXCEPT ![c] = NoCall]
  BY Zenon DEF GaugesFail, Returns
<1>2. CallsInv'
  BY <1>1, CallOver, OneCall, Zenon DEF JobStatsInv
<1> QED
  BY <1>1, <1>2, SameStats, Zenon DEF JobStatsInv

\* The gauges of a call that has them all.
LEMMA ReadyGauges ==
  ASSUME JobStatsInv, NEW c \in Clients, NEW op, Ready(c, op)
  PROVE  /\ call[c].gauges \in Gauges /\ call[c].run \in Nat /\ call[c].run <= starts
         /\ \A g \in JobGpus :
              call[c].gauges[g] # Missing =>
                /\ call[c].gauges[g] \in Nat
                /\ call[c].gauges[g] <= errors[g] /\ call[c].gauges[g] <= MaxErrors
                /\ call[c].run = starts => FirstReading(g) <= call[c].gauges[g]
<1>k. PICK k : k = call[c]
  BY Zenon
<1>1. CallGood(k) /\ \A g \in JobGpus : k.gauges[g] # Unread
  BY <1>k, Zenon DEF JobStatsInv, CallsInv, Ready
<1>2. k.gauges \in [JobGpus -> Nat \cup {Missing, Unread}] /\ k.run \in Nat /\ k.run <= starts
  BY <1>1, Zenon DEF CallGood
<1>3. k.gauges \in Gauges
  BY <1>1, <1>2, Zenon DEF Gauges
<1>4. ASSUME NEW g \in JobGpus, k.gauges[g] # Missing
      PROVE  /\ k.gauges[g] \in Nat /\ k.gauges[g] <= errors[g] /\ k.gauges[g] <= MaxErrors
             /\ k.run = starts => FirstReading(g) <= k.gauges[g]
  <2>1. k.gauges[g] \in Nat
    BY <1>1, <1>2, <1>4, Zenon
  <2>2. k.gauges[g] <= errors[g] /\ (k.run = starts => FirstReading(g) <= k.gauges[g])
    BY <1>1, <2>1, Zenon DEF CallGood
  <2>3. errors[g] \in 0 .. MaxErrors
    BY Zenon DEF JobStatsInv, CallsInv
  <2>4. MaxErrors \in Nat
    BY JobStatsConstants
  <2>5. k.gauges[g] <= MaxErrors
    BY <2>1, <2>2, <2>3, <2>4, SMTT(30)
  <2> QED
    BY <2>1, <2>2, <2>5, Zenon
<1> QED
  BY <1>2, <1>3, <1>4, <1>k, Zenon

\* by a start of the job,
LEMMA StartKeeps ==
  ASSUME JobStatsInv, NEW c \in Clients, rdc_job_start_stats(c)
  PROVE  JobStatsInv'
<1>1. ticks \in Nat /\ UNCHANGED <<ticks, errors>> /\ Ready(c, "start")
  BY Zenon DEF JobStatsInv, StatsInv, JobStatsTypes, rdc_job_start_stats
<1>s. PICK gauges : gauges = call[c].gauges
  BY Zenon
<1>2. /\ gauges \in Gauges
      /\ \A g \in JobGpus : gauges[g] # Missing => gauges[g] \in Nat /\ gauges[g] <= errors[g]
  BY <1>1, <1>s, ReadyGauges, Zenon
<1>3. /\ entry' = [present |-> TRUE, ended |-> FALSE,
                   gpu_stats |-> [g \in JobGpus |-> NewGpuStats(gauges[g])]]
      /\ seen' = [g \in JobGpus |-> <<>>] /\ first' = gauges /\ final' = <<>>
  BY <1>s, Zenon DEF rdc_job_start_stats, FreshEntry
<1>4. ticks' \in Nat
  BY <1>1, Zenon
<1>5. StatsInv'
  BY <1>2, <1>3, <1>4, BeginsAgain, Zenon
<1>6. /\ starts \in Nat /\ starts' = starts + 1 /\ call' = [call EXCEPT ![c] = NoCall]
      /\ errors \in [JobGpus -> 0 .. MaxErrors] /\ call = [d \in Clients |-> call[d]]
  BY Zenon DEF JobStatsInv, CallsInv, rdc_job_start_stats
<1>7. starts' \in Nat /\ \A n \in Nat : n <= starts => n <= starts' /\ n # starts'
  BY <1>6
<1>8. ASSUME NEW g \in JobGpus PROVE FirstReading(g)' <= errors'[g]
  <2>1. errors[g] \in 0 .. MaxErrors
    BY <1>6, Zenon
  <2>2. 0 <= errors[g]
    BY <2>1, JobStatsConstants, SMTT(30)
  <2> QED
    BY <1>1, <1>2, <1>3, <2>2, Zenon DEF FirstReading
<1>9. ASSUME NEW k, CallGood(k) PROVE CallGood(k)'
  BY <1>1, <1>7, <1>9, Zenon DEF CallGood
<1>10. \A d \in Clients : call'[d] = NoCall \/ call'[d] = call[d]
  BY <1>6, Zenon
<1>11. \A d \in Clients : CallGood(call'[d])
  BY <1>10, CallOver, Zenon DEF JobStatsInv, CallsInv
<1>12. \A d \in Clients : CallGood(call[d])'
  BY <1>9, <1>11, Zenon
<1>13. call' = [d \in Clients |-> call'[d]]
  BY <1>6, Zenon
<1>14. CallsInv'
  BY <1>1, <1>6, <1>7, <1>8, <1>12, <1>13, ZenonT(30) DEF CallsInv
<1> QED
  BY <1>5, <1>14, Zenon DEF JobStatsInv

\* by a removal,
LEMMA RemoveKeeps ==
  ASSUME JobStatsInv, rdc_job_remove
  PROVE  JobStatsInv'
<1>1. ticks \in Nat /\ UNCHANGED <<ticks, errors, call, starts>>
  BY Zenon DEF JobStatsInv, StatsInv, JobStatsTypes, rdc_job_remove
<1>z. PICK none : none = [g \in JobGpus |-> 0]
  BY Zenon
<1>2. none \in Gauges
  BY <1>z DEF Gauges
<1>3. /\ entry' = [present |-> FALSE, ended |-> FALSE,
                   gpu_stats |-> [g \in JobGpus |-> NewGpuStats(none[g])]]
      /\ seen' = [g \in JobGpus |-> <<>>] /\ first' = none /\ final' = <<>>
  BY <1>z, ZenonT(20) DEF rdc_job_remove
<1>4. ticks' \in Nat
  BY <1>1, Zenon
<1>5. StatsInv'
  BY <1>2, <1>3, <1>4, BeginsAgain, Zenon
<1>6. \A g \in JobGpus : FirstReading(g)' = 0
  BY <1>3, <1>z, Zenon DEF FirstReading
<1>7. \A n \in Nat : 0 <= n
  OBVIOUS
<1>8. \A g \in JobGpus : errors[g] \in Nat
  <2>1. MaxErrors \in Nat
    BY JobStatsConstants
  <2> QED
    BY <2>1 DEF JobStatsInv, CallsInv
<1>9. ASSUME NEW k, CallGood(k) PROVE CallGood(k)'
  BY <1>1, <1>6, <1>7, <1>9, Zenon DEF CallGood
<1>10. \A d \in Clients : CallGood(call'[d])
  BY <1>1, Zenon DEF JobStatsInv, CallsInv
<1>11. \A d \in Clients : CallGood(call[d])'
  BY <1>9, <1>10, Zenon
<1>12. CallsInv'
  BY <1>1, <1>6, <1>7, <1>8, <1>11, Zenon DEF JobStatsInv, CallsInv
<1> QED
  BY <1>5, <1>12, Zenon DEF JobStatsInv

\* by an ECC error,
LEMMA EccErrorKeeps ==
  ASSUME JobStatsInv, NEW g \in FaultyGpus, EccError(g)
  PROVE  JobStatsInv'
<1>1. /\ UNCHANGED <<ticks, entry, call, starts, seen, first, final>> /\ g \in JobGpus
      /\ errors \in [JobGpus -> 0 .. MaxErrors] /\ errors' = [errors EXCEPT ![g] = errors[g] + 1]
      /\ errors[g] < MaxErrors
  BY JobStatsConstants, Zenon DEF JobStatsInv, CallsInv, EccError
<1>2. MaxErrors \in Nat
  BY JobStatsConstants
<1>3. errors' \in [JobGpus -> 0 .. MaxErrors] /\ \A h \in JobGpus : errors[h] <= errors'[h]
  BY <1>1, <1>2, SMTT(30)
<1>4. ASSUME NEW h \in JobGpus, NEW n \in Nat, n <= errors[h] PROVE n <= errors'[h]
  BY <1>1, <1>2, <1>3, <1>4, SMTT(30)
<1>5. \A h \in JobGpus : FirstReading(h)' = FirstReading(h)
  BY <1>1, Zenon DEF FirstReading
<1>6. \A h \in JobGpus : FirstReading(h) \in Nat
  BY Zenon DEF JobStatsInv, StatsInv, GpuInv, EccOK
<1>7. ASSUME NEW k, CallGood(k) PROVE CallGood(k)'
  BY <1>1, <1>4, <1>5, <1>7, Zenon DEF CallGood
<1>8. \A d \in Clients : CallGood(call'[d])
  BY <1>1, Zenon DEF JobStatsInv, CallsInv
<1>9. \A d \in Clients : CallGood(call[d])'
  BY <1>7, <1>8, Zenon
<1>10. CallsInv'
  BY <1>1, <1>3, <1>4, <1>5, <1>6, <1>9, ZenonT(30) DEF JobStatsInv, CallsInv
<1> QED
  BY <1>1, <1>10, SameStats, Zenon DEF JobStatsInv

\* by time,
LEMMA TickKeeps ==
  ASSUME JobStatsInv, Tick
  PROVE  JobStatsInv'
<1>1. UNCHANGED <<errors, entry, call, starts, seen, first, final>> /\ ticks \in Nat
      /\ ticks' = ticks + 1
  BY Zenon DEF JobStatsInv, StatsInv, JobStatsTypes, Tick
<1>2. JobStatsTypes'
  BY <1>1 DEF JobStatsInv, StatsInv, JobStatsTypes
<1>3. ASSUME NEW h \in JobGpus PROVE GpuInv(h)'
  <2>1. /\ GpuOK(entry.gpu_stats[h], seen[h], ticks)
        /\ EccOK(entry.gpu_stats[h].ecc_init, FirstReading(h), final, h)
        /\ FirstReading(h)' = FirstReading(h)
    BY <1>1, Zenon DEF JobStatsInv, StatsInv, GpuInv, FirstReading
  <2>2. GpuOK(entry.gpu_stats[h], seen[h], ticks')
    BY <1>1, <2>1, GpuLater, Zenon
  <2> QED
    BY <1>1, <2>1, <2>2, Zenon DEF GpuInv
<1>4. CallsInv'
  BY <1>1, SameCalls, Zenon DEF JobStatsInv
<1> QED
  BY <1>2, <1>3, <1>4, Zenon DEF JobStatsInv, StatsInv

\* Only the counter of a GPU moves.
LEMMA EccMoved ==
  ASSUME NEW st, NEW sq, NEW now, GpuOK(st, sq, now), NEW v, NEW t,
         t = [st EXCEPT !.ecc_init = v]
  PROVE  GpuOK(t, sq, now) /\ t.ecc_init = v
<1>1. GpuShape(st)
  BY Zenon DEF GpuOK
<1>2. /\ GpuShape(t) /\ t.count = st.count /\ t.max = st.max /\ t.min = st.min /\ t.total = st.total
      /\ t.m = st.m /\ t.s = st.s /\ t.energy = st.energy
      /\ t.energy_last_time = st.energy_last_time /\ t.ecc_init = v
  BY <1>1, Zenon DEF GpuShape
<1>3. MeansOK(t, sq)
  BY <1>2, Zenon DEF GpuOK, MeansOK
<1>4. ExtremesOK(t, sq)
  BY <1>2, Zenon DEF GpuOK, ExtremesOK
<1>5. EnergyOK(t, sq, now)
  BY <1>2, Zenon DEF GpuOK, EnergyOK
<1> QED
  BY <1>2, <1>3, <1>4, <1>5, ZenonT(30) DEF GpuOK

\* What a stop leaves of the statistics.
LEMMA StoppedKeeps ==
  ASSUME StatsInv, NEW gauges \in Gauges, NEW fresh \in BOOLEAN, Stopped(gauges, fresh),
         \A g \in JobGpus : gauges[g] # Missing =>
           gauges[g] <= MaxErrors /\ (fresh => FirstReading(g) <= gauges[g])
  PROVE  StatsInv'
<1>f. PICK s : s = [gauges |-> gauges, fresh |-> fresh]
  BY Zenon
<1>1. /\ UNCHANGED <<ticks, errors, seen, first>> /\ final' = Append(final, s)
      /\ final \in Seq(Stop)
  BY <1>f, Zenon DEF StatsInv, JobStatsTypes, Stopped
<1>2. s \in Stop
  BY <1>f, Zenon DEF Stop
<1>s. PICK stats : stats = [g \in JobGpus |->
                   [entry.gpu_stats[g] EXCEPT !.ecc_init =
                      EccAtStop(entry.gpu_stats[g].ecc_init, gauges[g])]]
  BY ZenonT(20)
<1>3. /\ entry = [present |-> entry.present, ended |-> entry.ended, gpu_stats |-> entry.gpu_stats]
      /\ entry' = [entry EXCEPT !.ended = TRUE, !.gpu_stats = stats]
  BY <1>s, Zenon DEF StatsInv, JobStatsTypes, Stopped
<1>4. /\ entry'.ended = TRUE /\ entry'.gpu_stats = stats
      /\ entry' = [present |-> entry'.present, ended |-> entry'.ended, gpu_stats |-> entry'.gpu_stats]
  BY <1>3, ZenonT(20)
<1>5. stats = [g \in JobGpus |-> stats[g]]
  BY <1>s, Zenon
<1>6. final' \in Seq(Stop) /\ (final' # <<>>) = TRUE
  BY <1>1, <1>2
<1>7. JobStatsTypes'
  BY <1>1, <1>4, <1>5, <1>6, ZenonT(20) DEF StatsInv, JobStatsTypes
<1>8. ASSUME NEW g \in JobGpus PROVE GpuInv(g)'
  <2>1. /\ GpuOK(entry.gpu_stats[g], seen[g], ticks)
        /\ EccOK(entry.gpu_stats[g].ecc_init, FirstReading(g), final, g)
        /\ FirstReading(g)' = FirstReading(g)
    BY <1>1, Zenon DEF StatsInv, GpuInv, FirstReading
  <2>v. PICK v : v = EccAtStop(entry.gpu_stats[g].ecc_init, gauges[g])
    BY Zenon
  <2>2. stats[g] = [entry.gpu_stats[g] EXCEPT !.ecc_init = v]
    BY <1>s, <2>v, Zenon
  <2>3. GpuOK(stats[g], seen[g], ticks) /\ stats[g].ecc_init = v
    BY <2>1, <2>2, EccMoved, SMTT(20)
  <2>4. EccOK(v, FirstReading(g), Append(final, s), g)
    BY <1>1, <1>f, <2>1, <2>v, EccStops, ZenonT(30)
  <2> QED
    BY <1>1, <1>4, <2>1, <2>3, <2>4, Zenon DEF GpuInv
<1> QED
  BY <1>7, <1>8, Zenon DEF StatsInv

\* by a stop,
LEMMA StopKeeps ==
  ASSUME JobStatsInv, NEW c \in Clients, rdc_job_stop_stats(c)
  PROVE  JobStatsInv'
<1>s. PICK gauges : gauges = call[c].gauges
  BY Zenon
<1>f. PICK fresh : fresh = (call[c].run = starts)
  BY Zenon
<1>1. /\ Ready(c, "stop") /\ Stopped(gauges, fresh) /\ call' = [call EXCEPT ![c] = NoCall]
      /\ fresh \in BOOLEAN
  BY <1>s, <1>f, Zenon DEF rdc_job_stop_stats
<1>2. /\ gauges \in Gauges
      /\ \A g \in JobGpus : gauges[g] # Missing =>
           gauges[g] <= MaxErrors /\ (fresh => FirstReading(g) <= gauges[g])
  BY <1>1, <1>s, <1>f, ReadyGauges, Zenon
<1>3. StatsInv'
  BY <1>1, <1>2, StoppedKeeps, Zenon DEF JobStatsInv
<1>4. UNCHANGED <<errors, starts, first>>
  BY <1>1, Zenon DEF Stopped
<1>5. CallsInv'
  BY <1>1, <1>4, CallOver, OneCall, ZenonT(30) DEF JobStatsInv
<1> QED
  BY <1>3, <1>5, Zenon DEF JobStatsInv

\* by that of a removal,
LEMMA StopForRemoveKeeps ==
  ASSUME JobStatsInv, StopForRemove
  PROVE  JobStatsInv'
<1>n. PICK none : none = AllGauges(Missing)
  BY Zenon
<1>1. Stopped(none, FALSE) /\ UNCHANGED call
  BY <1>n, Zenon DEF StopForRemove
<1>2. none \in Gauges /\ \A g \in JobGpus : none[g] = Missing
  BY <1>n, Zenon DEF AllGauges, Gauges
<1>3. StatsInv'
  BY <1>1, <1>2, StoppedKeeps, Zenon DEF JobStatsInv
<1>4. UNCHANGED <<errors, starts, first>>
  BY <1>1, Zenon DEF Stopped
<1>5. CallsInv'
  BY <1>1, <1>4, SameCalls, Zenon DEF JobStatsInv
<1> QED
  BY <1>3, <1>5, Zenon DEF JobStatsInv

\* and by a sample.
LEMMA UpdateKeeps ==
  ASSUME JobStatsInv, NEW g \in JobGpus, NEW v \in Values, rdc_update_job_stats(g, v)
  PROVE  JobStatsInv'
<1>st. PICK st : st = entry.gpu_stats[g]
  BY Zenon
<1>t. PICK t : t = IF st.count = 0 THEN FirstItem(st, v, ticks) ELSE NextItem(st, v, ticks)
  BY Zenon
<1>x. PICK x : x = [ts |-> ticks, v |-> v]
  BY Zenon
<1>1. /\ UNCHANGED <<ticks, errors, call, starts, first, final>> /\ st.count < MaxJobSamples /\ ticks \in Nat
      /\ seen' = [seen EXCEPT ![g] = Append(seen[g], x)]
      /\ entry' = [entry EXCEPT !.gpu_stats[g] = t]
  BY <1>st, <1>t, <1>x, ZenonT(20) DEF JobStatsInv, StatsInv, JobStatsTypes, rdc_update_job_stats
<1>2. /\ entry = [present |-> entry.present, ended |-> entry.ended, gpu_stats |-> entry.gpu_stats]
      /\ entry.gpu_stats = [h \in JobGpus |-> entry.gpu_stats[h]]
      /\ seen = [h \in JobGpus |-> seen[h]]
  BY Zenon DEF JobStatsInv, StatsInv, JobStatsTypes
<1>3. /\ entry'.ended = entry.ended
      /\ entry' = [present |-> entry'.present, ended |-> entry'.ended, gpu_stats |-> entry'.gpu_stats]
      /\ entry'.gpu_stats = [entry.gpu_stats EXCEPT ![g] = t]
  BY <1>1, <1>2, ZenonT(20)
<1>4. /\ entry'.gpu_stats = [h \in JobGpus |-> entry'.gpu_stats[h]] /\ entry'.gpu_stats[g] = t
      /\ \A h \in JobGpus : h # g => entry'.gpu_stats[h] = entry.gpu_stats[h]
  BY <1>2, <1>3, Zenon
<1>5. /\ seen' = [h \in JobGpus |-> seen'[h]] /\ seen'[g] = Append(seen[g], x)
      /\ \A h \in JobGpus : h # g => seen'[h] = seen[h]
  BY <1>1, <1>2, ZenonT(20)
<1>6. JobStatsTypes'
  BY <1>1, <1>3, <1>4, <1>5, Zenon DEF JobStatsInv, StatsInv, JobStatsTypes
<1>7. ASSUME NEW h \in JobGpus
      PROVE  /\ GpuOK(entry.gpu_stats[h], seen[h], ticks)
             /\ EccOK(entry.gpu_stats[h].ecc_init, FirstReading(h), final, h)
             /\ FirstReading(h)' = FirstReading(h)
  BY <1>1, Zenon DEF JobStatsInv, StatsInv, GpuInv, FirstReading
<1>8. x \in JobSample /\ x.ts = ticks /\ x.v = v
  BY <1>1, <1>x, Zenon DEF JobSample
<1>sq. PICK sq : sq = seen[g]
  BY Zenon
<1>n. ticks \in Nat /\ st.count < MaxJobSamples
  BY <1>1, Zenon
<1>w. PICK ws : ws = Append(sq, x)
  BY ZenonT(20)
<1>9. GpuOK(st, sq, ticks) /\ sq \in Seq(JobSample) /\ st.count = Len(sq)
  BY <1>7, <1>sq, <1>st, Zenon DEF GpuOK
<1>10. GpuOK(t, ws, ticks) /\ t.ecc_init = st.ecc_init
  <2>1. CASE st.count = 0
    <3>1. Empty(sq)
      BY <1>9, <2>1, EmptySeq, ZenonT(20) DEF Empty
    <3>2. 1 <= MaxJobSamples
      BY <1>n, <2>1, ScaleAndLimit, SMTT(30)
    <3>3. t = FirstItem(st, x.v, ticks)
      BY <1>8, <1>t, <2>1, Zenon
    <3>4. GpuOK(st, sq, ticks) /\ ticks \in Nat /\ x \in JobSample /\ x.ts = ticks
      BY <1>8, <1>9, <1>n, Zenon
    <3>5. FirstOf(t, ws, st, sq, x, ticks)
      BY <1>w, <3>1, <3>2, <3>3, <3>4, ZenonT(30) DEF FirstOf
    <3> QED
      BY <3>5, FirstSample, Zenon
  <2>2. CASE st.count # 0
    <3>1. ~Empty(sq)
      BY <1>9, <2>2, EmptySeq, Zenon DEF Empty
    <3>2. t = NextItem(st, x.v, ticks)
      BY <1>8, <1>t, <2>2, Zenon
    <3> QED
      BY <1>8, <1>9, <1>n, <1>w, <3>1, <3>2, NextSample, SMTT(30)
  <2> QED
    BY <2>1, <2>2, Zenon
<1>11. ASSUME NEW h \in JobGpus PROVE GpuInv(h)'
  <2>1. CASE h = g
    <3>1. EccOK(t.ecc_init, FirstReading(h), final, h)
      BY <1>7, <1>10, <1>st, <2>1, Zenon
    <3> QED
      BY <1>1, <1>4, <1>5, <1>7, <1>10, <1>sq, <1>w, <2>1, <3>1, ZenonT(30) DEF GpuInv
  <2>2. CASE h # g
    BY <1>1, <1>4, <1>5, <1>7, <2>2, Zenon DEF GpuInv
  <2> QED
    BY <2>1, <2>2, Zenon
<1>12. CallsInv'
  BY <1>1, SameCalls, Zenon DEF JobStatsInv
<1> QED
  BY <1>6, <1>11, <1>12, Zenon DEF JobStatsInv, StatsInv

\* Every step keeps it.
LEMMA JobStatsKeeps ==
  ASSUME JobStatsInv, [JobStatsNext]_svars
  PROVE  JobStatsInv'
<1>1. CASE UNCHANGED svars
  <2>1. UNCHANGED <<ticks, errors, entry, call, starts, seen, first, final>>
    BY <1>1, Zenon DEF svars
  <2> QED
    BY <2>1, SameStats, SameCalls, Zenon DEF JobStatsInv
<1>2. CASE JobStatsNext
  <2>1. ASSUME NEW c \in Clients,
               \/ \E op \in {"start", "stop", "get"} : Ask(c, op)
               \/ \E k \in DOMAIN GpuList : ReadGauge(c, k)
               \/ GaugesFail(c)
               \/ rdc_job_start_stats(c) \/ rdc_job_stop_stats(c) \/ Returns(c)
        PROVE  JobStatsInv'
    BY <2>1, AskKeeps, ReadKeeps, AnsweredKeeps, StartKeeps, StopKeeps, Zenon
  <2> QED
    BY <1>2, <2>1, UpdateKeeps, StopForRemoveKeeps, RemoveKeeps, EccErrorKeeps, TickKeeps, ZenonT(30)
       DEF JobStatsNext
<1> QED
  BY <1>1, <1>2, Zenon

\* The record of every GPU of a job is about the samples since the last start,
\* its ECC counter about the readings the start and the stops of this run came
\* with, and the counters any call has read in get_gpu_gauges are neither ahead
\* of the driver's nor, for a call that began after the start, behind the
\* start's (rdc_job_start_stats, rdc_update_job_stats, rdc_job_stop_stats).
THEOREM JobStatsInvariant == JobStatsSpec => []JobStatsInv
<1>1. JobStatsInit => JobStatsInv
  BY InitKeeps, Zenon
<1>2. JobStatsInv /\ [JobStatsNext]_svars => JobStatsInv'
  BY JobStatsKeeps, Zenon
<1> QED
  BY <1>1, <1>2, PTL DEF JobStatsSpec

-----------------------------------------------------------------------------
(* What a client is told *)

\* The members of the answer of rdc_job_get_stats.
LEMMA AnswerIs ==
  ASSUME entry.present
  PROVE  /\ Answer.energy = [g \in JobGpus |-> entry.gpu_stats[g].energy]
         /\ Answer.power = [g \in JobGpus |-> GpuSummary(entry.gpu_stats[g])]
         /\ Answer.summary = JobSummary(entry.gpu_stats)
BY Zenon DEF Answer, rdc_job_get_stats

\* Welford's recurrence in rdc_update_job_stats computes the mean and the
\* variance of the definition, for any number of samples: the sums it keeps
\* are those of all values since the start.
THEOREM WelfordIsExact == JobStatsSpec => []WelfordExact
<1>1. ASSUME JobStatsInv PROVE WelfordExact
  <2>1. ASSUME NEW g \in JobGpus
        PROVE  MeansOK(entry.gpu_stats[g], seen[g]) /\ Len(seen[g]) = Len(ValuesSeen(g))
               /\ ValuesSeen(g) = ValuesOf(seen[g])
    <3>1. seen[g] \in Seq(JobSample) /\ MeansOK(entry.gpu_stats[g], seen[g])
      BY <1>1, ZenonT(20) DEF JobStatsInv, StatsInv, GpuInv, GpuOK
    <3>2. ValuesSeen(g) = ValuesOf(seen[g])
      BY Zenon DEF ValuesSeen, ValuesOf
    <3>3. Len(ValuesOf(seen[g])) = Len(seen[g])
      <4>2. DOMAIN ValuesOf(seen[g]) = 1 .. Len(seen[g])
        BY <3>1 DEF ValuesOf
      <4>3. ValuesOf(seen[g]) \in Seq(Values)
        BY <3>1, SampleIs, SMTT(30) DEF ValuesOf
      <4> QED
        BY <3>1, <4>2, <4>3, SMTT(30)
    <3> QED
      BY <3>1, <3>2, <3>3, Zenon
  <2> QED
    BY <2>1, ZenonT(20) DEF WelfordExact, MeansOK, Squares
<1> QED
  BY <1>1, JobStatsInvariant, PTL

\* The energy rdc_job_get_stats answers is right for up to two samples and
\* never less than the sum over the samples from then on, for any number of
\* samples and any values.
THEOREM EnergyIsNeverLess == JobStatsSpec => []EnergyNeverLess
<1>1. ASSUME JobStatsInv PROVE EnergyNeverLess
  <2> SUFFICES ASSUME entry.present, NEW g \in JobGpus
               PROVE  /\ Answer.energy[g] >= EnergyBySample(g)
                      /\ Len(seen[g]) <= 2 => Answer.energy[g] = EnergyBySample(g)
    BY Zenon DEF EnergyNeverLess
  <2>1. EnergyOK(entry.gpu_stats[g], seen[g], ticks)
    BY <1>1, Zenon DEF JobStatsInv, StatsInv, GpuInv, GpuOK
  <2>2. Answer.energy[g] = entry.gpu_stats[g].energy
    BY AnswerIs, ZenonT(30)
  <2>3. EnergyBySample(g) = Total(Products(seen[g]))
    BY Zenon DEF EnergyBySample, Products
  <2> QED
    BY <2>1, <2>2, <2>3, Zenon DEF EnergyOK
<1> QED
  BY <1>1, JobStatsInvariant, PTL

\* For any number of clients, and whatever they, the counters and the samples do
\* between the steps of a call: a client whose call began after the start of the
\* job is told exactly the ECC errors between the reading of the start and its
\* own, and of a job with one stop that read the counters, and began after the
\* start, exactly those between start and stop.  No difference wraps.
THEOREM EccIsOfThisRun == JobStatsSpec => []EccOfThisRun
<1>1. ASSUME JobStatsInv, entry.present, NEW g \in JobGpus, NEW c \in Clients, Ready(c, "get"),
             NEW got, got = call[c].gauges[g],
             NEW told, told = rdc_job_get_stats(call[c].gauges, JobGpus).ecc[g]
      PROVE  /\ (final = <<>> /\ call[c].run = starts) =>
                  told = IF got = Missing THEN 0 ELSE got - FirstReading(g)
             /\ \A i \in DOMAIN final :
                  (StopsThatRead(g) = {i} /\ final[i].fresh) =>
                    told = final[i].gauges[g] - FirstReading(g)
  <2>1. EccOK(entry.gpu_stats[g].ecc_init, FirstReading(g), final, g)
    BY <1>1, Zenon DEF JobStatsInv, StatsInv, GpuInv
  <2>2. final \in Seq(Stop) /\ entry.ended = (final # <<>>)
    BY <1>1, Zenon DEF JobStatsInv, StatsInv, JobStatsTypes
  <2>3. told = EccOf(entry.gpu_stats[g], got)
    <3>1. rdc_job_get_stats(call[c].gauges, JobGpus).ecc
            = [h \in JobGpus |-> EccOf(entry.gpu_stats[h], call[c].gauges[h])]
      BY <1>1, Zenon DEF rdc_job_get_stats
    <3> QED
      BY <1>1, <3>1, Zenon
  <2>i. PICK init : init = entry.gpu_stats[g].ecc_init
    BY Zenon
  <2>4. ASSUME final = <<>>, call[c].run = starts
        PROVE  told = IF got = Missing THEN 0 ELSE got - FirstReading(g)
    <3>1. DOMAIN final = {}
      BY <2>4
    <3>2. init = FirstReading(g) /\ init \in Nat
      BY <2>1, <2>i, <3>1, Zenon DEF EccOK
    <3>3. ~entry.ended
      BY <2>2, <2>4, Zenon
    <3>4. told = IF got = Missing THEN 0 ELSE Minus(got, init)
      BY <2>3, <2>i, <3>3, Zenon DEF EccOf
    <3>5. got # Missing => got \in Nat /\ init <= got /\ got <= MaxErrors
      BY <1>1, <2>4, <3>2, ReadyGauges, Zenon
    <3>6. got # Missing => Minus(got, init) = got - init
      BY <3>2, <3>5, MinusIs, Zenon
    <3> QED
      BY <3>2, <3>4, <3>6, Zenon
  <2>5. ASSUME NEW i \in DOMAIN final, StopsThatRead(g) = {i}, final[i].fresh
        PROVE  told = final[i].gauges[g] - FirstReading(g)
    <3>1. /\ final[i].gauges[g] # Missing
          /\ \A j \in DOMAIN final : j # i => final[j].gauges[g] = Missing
      BY <2>5, Zenon DEF StopsThatRead
    <3>2. init = final[i].gauges[g] - FirstReading(g)
      BY <2>1, <2>5, <2>i, <3>1, Zenon DEF EccOK
    <3>3. final # <<>>
      BY <2>5
    <3>4. entry.ended
      BY <2>2, <3>3, Zenon
    <3> QED
      BY <2>3, <2>i, <3>2, <3>4, Zenon DEF EccOf
  <2> QED
    BY <2>4, <2>5, Zenon
<1>2. JobStatsInv => EccOfThisRun
  BY <1>1, Zenon DEF EccOfThisRun
<1> QED
  BY <1>2, JobStatsInvariant, PTL

-----------------------------------------------------------------------------
(* Extremes, quotients and bounds of a sum *)

\* A largest element is the maximum.
LEMMA MaxIs ==
  ASSUME NEW S \in SUBSET Int, NEW x \in S, \A y \in S : y <= x
  PROVE  Max(S) = x
<1>1. x \in S /\ \A y \in S : x >= y
  BY Zenon
<1>2. Max(S) \in S /\ \A y \in S : Max(S) >= y
  BY <1>1, Zenon DEF Max
<1>m. PICK m : m = Max(S)
  BY Zenon
<1>3. m \in Int /\ x \in Int /\ m >= x /\ m <= x
  BY <1>2, <1>m, Zenon
<1> QED
  BY <1>3, <1>m

\* A smallest element is the minimum.
LEMMA MinIs ==
  ASSUME NEW S \in SUBSET Int, NEW x \in S, \A y \in S : x <= y
  PROVE  Min(S) = x
<1>1. Min(S) \in S /\ \A y \in S : Min(S) <= y
  BY Zenon DEF Min
<1>m. PICK m : m = Min(S)
  BY Zenon
<1>2. m \in Int /\ x \in Int /\ m <= x /\ x <= m
  BY <1>1, <1>m, Zenon
<1> QED
  BY <1>2, <1>m

\* A bounded set of naturals has a largest and a smallest element.
LEMMA BoundedMax ==
  ASSUME NEW U \in Nat, NEW S \in SUBSET (0 .. U), S # {}
  PROVE  Max(S) \in S /\ \A y \in S : y <= Max(S)
<1>t. PICK T : T = {n \in Nat : \E y \in S : n = U - y}
  BY Zenon
<1>1. T \in SUBSET Nat /\ \A y \in S : U - y \in T
  BY <1>t
<1>2. PICK t \in T : \A n \in T : t <= n
  BY <1>1, LeastNatural, Zenon
<1>3. PICK x \in S : t = U - x
  BY <1>t, <1>2, Zenon
<1>4. \A y \in S : y <= x
  BY <1>1, <1>2, <1>3, SMTT(30)
<1> QED
  BY <1>4, MaxIs

\* A set of naturals has a minimum.
LEMMA BoundedMin ==
  ASSUME NEW S \in SUBSET Nat, S # {}
  PROVE  Min(S) \in S /\ \A y \in S : Min(S) <= y
<1>1. PICK x \in S : \A y \in S : x <= y
  BY LeastNatural, Zenon
<1> QED
  BY <1>1, MinIs

\* The quotient is the number whose multiple is just below the numerator.
LEMMA QuotientIs ==
  ASSUME NEW a \in Int, NEW d \in Nat \ {0}, NEW p \in Int, d * p <= a, a < d * (p + 1)
  PROVE  a \div d = p
<1>q. PICK q \in Int : q = a \div d /\ d * q <= a /\ a < d * q + d
  <2>1. a \div d \in Int /\ d * (a \div d) <= a /\ a < d * (a \div d) + d
    OBVIOUS
  <2> QED
    BY <2>1, Zenon
<1>1. d * q \in Int /\ d * p \in Int /\ d * (p + 1) = d * p + d /\ d * (q + 1) = d * q + d
  OBVIOUS
<1>2. CASE q > p
  <2>1. d * (p + 1) <= d * q
    BY <1>2, ProductGrows, SMTT(30)
  <2> QED
    BY <1>q, <2>1
<1>3. CASE q < p
  <2>1. d * (q + 1) <= d * p
    BY <1>3, ProductGrows
  <2> QED
    BY <1>q, <1>1, <2>1, SMTT(30)
<1> QED
  BY <1>q, <1>2, <1>3

\* A quotient lies between the bounds of its numerator.
LEMMA QuotientBounds ==
  ASSUME NEW a \in Int, NEW d \in Nat \ {0}, NEW lo \in Int, NEW hi \in Int,
         d * lo <= a, a <= d * hi
  PROVE  a \div d \in Int /\ lo <= a \div d /\ a \div d <= hi
<1>q. PICK q \in Int : q = a \div d /\ d * q <= a /\ a < d * q + d
  <2>1. a \div d \in Int /\ d * (a \div d) <= a /\ a < d * (a \div d) + d
    OBVIOUS
  <2> QED
    BY <2>1, Zenon
<1>1. /\ d * q \in Int /\ d * lo \in Int /\ d * hi \in Int
      /\ d * (q + 1) = d * q + d /\ d * (hi + 1) = d * hi + d
  OBVIOUS
<1>2. lo <= q
  <2>1. CASE q < lo
    <3>1. d * (q + 1) <= d * lo
      BY <2>1, ProductGrows
    <3> QED
      BY <1>q, <1>1, <3>1, SMTT(30)
  <2> QED
    BY <2>1
<1>3. q <= hi
  <2>1. CASE hi < q
    <3>1. d * (hi + 1) <= d * q
      BY <2>1, ProductGrows
    <3> QED
      BY <1>q, <1>1, <3>1, SMTT(30)
  <2> QED
    BY <2>1
<1> QED
  BY <1>q, <1>2, <1>3, Zenon

\* A quotient of a quotient.
LEMMA QuotientTwice ==
  ASSUME NEW a \in Nat, NEW b \in Nat \ {0}, NEW c \in Nat \ {0}
  PROVE  (a \div b) \div c = a \div (c * b)
<1>q. PICK q \in Int : q = a \div b /\ b * q <= a /\ a + 1 <= b * (q + 1)
  <2>1. a \div b \in Int /\ b * (a \div b) <= a /\ a + 1 <= b * (a \div b + 1)
    OBVIOUS
  <2> QED
    BY <2>1, Zenon
<1>p. PICK p \in Int : p = q \div c /\ c * p <= q /\ q + 1 <= c * (p + 1)
  <2>1. q \div c \in Int /\ c * (q \div c) <= q /\ q + 1 <= c * (q \div c + 1)
    OBVIOUS
  <2> QED
    BY <2>1, Zenon
<1>d. PICK d \in Nat \ {0} : d = c * b
  <2>1. c * b \in Nat \ {0}
    OBVIOUS
  <2> QED
    BY <2>1, Zenon
<1>1. (c * p) * b <= q * b /\ (c * p) * b \in Int /\ q * b \in Int
  BY <1>p, ProductGrows, SMTT(30)
<1>2. (q + 1) * b <= (c * (p + 1)) * b /\ (q + 1) * b \in Int /\ (c * (p + 1)) * b \in Int
  BY <1>p, ProductGrows
<1>3. d * p = (c * p) * b /\ d * (p + 1) = (c * (p + 1)) * b
  BY <1>d
<1>4. q * b = b * q /\ (q + 1) * b = b * (q + 1)
  OBVIOUS
<1>5. d * p <= a /\ a < d * (p + 1)
  BY <1>q, <1>1, <1>2, <1>3, <1>4, SMTT(30)
<1>6. a \div d = p
  BY <1>5, QuotientIs
<1> QED
  BY <1>q, <1>p, <1>d, <1>6, Zenon

\* A sum lies between as many times the smallest and the largest value.
LEMMA TotalBounds ==
  ASSUME NEW vs, NEW n \in Nat, Len(vs) = n, NEW lo \in Int, NEW hi \in Int,
         \A k \in 1 .. n : vs[k] \in Int /\ lo <= vs[k] /\ vs[k] <= hi
  PROVE  Total(vs) \in Int /\ n * lo <= Total(vs) /\ Total(vs) <= n * hi
<1>f. PICK f : IsSum(f, vs, n) /\ Total(vs) = f[n]
  BY TotalIs, Zenon
<1>1. \A k \in 0 .. n : f[k] \in Int
  BY <1>f, SumsInt, Zenon
<1>t. PICK T : T = {k \in 0 .. n : ~ (k * lo <= f[k] /\ f[k] <= k * hi)}
  BY Zenon
<1>2. ASSUME T # {} PROVE FALSE
  <2>1. T \in SUBSET Nat
    BY <1>t
  <2>2. PICK x \in T : \A y \in T : x <= y
    BY <1>2, <2>1, LeastNatural, Zenon
  <2>3. x \in 0 .. n /\ ~ (x * lo <= f[x] /\ f[x] <= x * hi)
    BY <1>t, <2>2, Zenon
  <2>4. x # 0
    <3>1. f[0] = 0 /\ 0 * lo = 0 /\ 0 * hi = 0
      BY <1>f, SumAt, SMTT(30)
    <3> QED
      BY <2>3, <3>1, SMTT(30)
  <2>5. x \in 1 .. n /\ x - 1 \in 0 .. n /\ ~ (x <= x - 1)
    BY <2>3, <2>4
  <2>6. (x - 1) * lo <= f[x - 1] /\ f[x - 1] <= (x - 1) * hi
    BY <1>t, <2>2, <2>5, Zenon
  <2>7. f[x] = f[x - 1] + vs[x]
    BY <1>f, <2>5, SumAt, ZenonT(30)
  <2>8. f[x - 1] \in Int /\ vs[x] \in Int /\ lo <= vs[x] /\ vs[x] <= hi
    BY <1>1, <2>5, Zenon
  <2>9. /\ (x - 1) * lo = x * lo - lo /\ (x - 1) * hi = x * hi - hi
        /\ x * lo \in Int /\ x * hi \in Int
    BY <2>5
  <2>l. PICK l \in Int : l = x * lo
    BY <2>9, Zenon
  <2>h. PICK h \in Int : h = x * hi
    BY <2>9, Zenon
  <2>10. l - lo <= f[x - 1] /\ f[x - 1] <= h - hi
    BY <2>6, <2>9, <2>l, <2>h, Zenon
  <2>11. l <= f[x] /\ f[x] <= h
    BY <2>7, <2>8, <2>10, SMTT(30)
  <2> QED
    BY <2>3, <2>11, <2>l, <2>h, Zenon
<1>3. n * lo <= f[n] /\ f[n] <= n * hi
  BY <1>t, <1>2, SMTT(30)
<1> QED
  BY <1>f, <1>1, <1>3

-----------------------------------------------------------------------------
(* What a client is told of the values *)

\* The summary of a GPU without a sample, and of one with samples.
LEMMA NoSummary ==
  ASSUME NEW st, NEW sq, NEW now, GpuOK(st, sq, now), sq = <<>>
  PROVE  GpuSummary(st) = [max |-> 0, min |-> UINT64_MAX, average |-> 0] /\ ~ (st.count > 0)
<1>1. st.count = 0
  BY Zenon DEF GpuOK
<1> QED
  BY <1>1 DEF GpuSummary

SummaryIs(a, st, vs) ==
  /\ a = [max |-> a.max, min |-> a.min, average |-> a.average]
  /\ st.count > 0 /\ Len(vs) > 0
  /\ a.max = Max({vs[i] : i \in DOMAIN vs}) \div Adjuster
  /\ a.min = Min({vs[i] : i \in DOMAIN vs}) \div Adjuster
  /\ a.average = Total(vs) \div (Adjuster * Len(vs))
  /\ a.max \in Nat /\ a.max <= UINT64_MAX
  /\ a.min \in Nat /\ a.average \in Nat
  /\ a.min <= a.average /\ a.average <= a.max

\* The summary of a GPU with samples.
LEMMA ASummary ==
  ASSUME NEW st, NEW sq, NEW now, GpuOK(st, sq, now), sq # <<>>, NEW vs, vs = ValuesOf(sq)
  PROVE  SummaryIs(GpuSummary(st), st, vs)
<1>1. /\ sq \in Seq(JobSample) /\ st.count = Len(sq) /\ st.total = Total(vs)
      /\ \E i \in DOMAIN sq : sq[i].v = st.max
      /\ \E i \in DOMAIN sq : sq[i].v = st.min
      /\ \A i \in DOMAIN sq : st.min <= sq[i].v /\ sq[i].v <= st.max
  BY Zenon DEF GpuOK, MeansOK, ExtremesOK
<1>n. PICK n : n = Len(sq)
  BY Zenon
<1>2. n \in Nat \ {0} /\ DOMAIN sq = 1 .. n
  BY <1>1, <1>n, SMTT(30)
<1>3. \A i \in 1 .. n : sq[i].v \in Nat /\ sq[i].v <= UINT64_MAX
  BY <1>1, <1>2, SampleIs, SMTT(30)
<1>4. /\ vs \in Seq(Nat) /\ Len(vs) = n /\ DOMAIN vs = 1 .. n
      /\ \A i \in 1 .. n : vs[i] = sq[i].v
  BY <1>2, <1>3 DEF ValuesOf
<1>h. PICK hi : hi = st.max
  BY Zenon
<1>l. PICK lo : lo = st.min
  BY Zenon
<1>5. /\ hi \in Nat /\ hi <= UINT64_MAX /\ lo \in Nat
      /\ \A i \in 1 .. n : vs[i] \in Nat /\ lo <= vs[i] /\ vs[i] <= hi
      /\ (\E i \in 1 .. n : vs[i] = hi) /\ \E i \in 1 .. n : vs[i] = lo
  BY <1>1, <1>2, <1>3, <1>4, <1>h, <1>l, ZenonT(30)
<1>s. PICK S : S = {vs[i] : i \in DOMAIN vs}
  BY Zenon
<1>6. /\ S \in SUBSET Int /\ hi \in S /\ lo \in S
      /\ \A y \in S : lo <= y /\ y <= hi
  BY <1>4, <1>5, <1>s, SMTT(30)
<1>7. Max(S) = hi /\ Min(S) = lo
  BY <1>6, MaxIs, MinIs, Zenon
<1>t. PICK T : T = Total(vs)
  BY Zenon
<1>8. T \in Int /\ n * lo <= T /\ T <= n * hi
  <2>1. /\ n \in Nat /\ Len(vs) = n /\ lo \in Int /\ hi \in Int
        /\ \A k \in 1 .. n : vs[k] \in Int /\ lo <= vs[k] /\ vs[k] <= hi
    BY <1>2, <1>4, <1>5, SMTT(30)
  <2> QED
    BY <2>1, <1>t, TotalBounds, ZenonT(30)
<1>9. T \in Nat
  <2>1. n * lo >= 0 /\ n * lo \in Int
    BY <1>2, <1>5
  <2> QED
    BY <1>8, <2>1, SMTT(30)
<1>a. PICK d : d = Adjuster
  BY Zenon
<1>10. d \in Nat \ {0} /\ UINT64_MAX \in Nat
  BY <1>a, JobStatsConstants, Zenon
<1>q. PICK q : q = T \div n
  BY Zenon
<1>11. q \in Int /\ lo <= q /\ q <= hi
  <2>1. lo \in Int /\ hi \in Int
    BY <1>5
  <2> QED
    BY <1>2, <1>8, <1>q, <2>1, QuotientBounds, ZenonT(30)
<1>12. /\ lo \div d <= q \div d /\ q \div d <= hi \div d
       /\ lo \div d \in Int /\ q \div d \in Int /\ hi \div d \in Int
  <2>1. lo \in Int /\ hi \in Int /\ d \in Nat \ {0}
    BY <1>5, <1>10, SMTT(30)
  <2> QED
    BY <1>11, <2>1, QuotientGrows, Zenon
<1>13. lo \div d >= 0 /\ hi \div d <= hi
  BY <1>5, <1>10, SMTT(30)
<1>14. q \div d = T \div (d * n)
  BY <1>2, <1>9, <1>10, <1>q, QuotientTwice, Zenon
<1>15. st.count = n /\ st.total = T /\ ~ (n = 0) /\ n > 0
  BY <1>1, <1>2, <1>n, <1>t, SMTT(30)
<1>16. GpuSummary(st) = [max |-> hi \div d, min |-> lo \div d, average |-> q \div d]
  BY <1>15, <1>h, <1>l, <1>q, <1>a, ZenonT(30) DEF GpuSummary
<1>g. PICK a : a = GpuSummary(st)
  BY Zenon
<1>17. /\ a = [max |-> a.max, min |-> a.min, average |-> a.average]
       /\ a.max = hi \div d /\ a.min = lo \div d /\ a.average = q \div d
  BY <1>16, <1>g, SMTT(30)
<1>18. /\ a.max \in Nat /\ a.max <= UINT64_MAX /\ a.min \in Nat /\ a.average \in Nat
       /\ a.min <= a.average /\ a.average <= a.max
  BY <1>5, <1>10, <1>12, <1>13, <1>17, SMTT(30)
<1>19. SummaryIs(a, st, vs)
  BY <1>4, <1>7, <1>14, <1>15, <1>17, <1>18, <1>s, <1>t, <1>a, ZenonT(30) DEF SummaryIs
<1> QED
  BY <1>19, <1>g, Zenon

\* What is needed of the summaries of the GPUs for that of the job.
PartsOK(stats, counts) ==
  /\ counts = {g \in JobGpus : stats[g].count > 0}
  /\ \A g \in counts :
       LET a == GpuSummary(stats[g])
       IN  /\ a.max \in Nat /\ a.max <= UINT64_MAX /\ a.min \in Nat /\ a.average \in Nat
           /\ a.min <= a.average /\ a.average <= a.max
  /\ \A g \in JobGpus \ counts : GpuSummary(stats[g]).average = 0

\* gpu_stats has each GPU of the job, and there is one.
LEMMA ListIs ==
  /\ Len(GpuList) \in Nat \ {0} /\ DOMAIN GpuList = 1 .. Len(GpuList)
  /\ \A i \in 1 .. Len(GpuList) : GpuList[i] \in JobGpus
<1>1. GpuList \in Seq(JobGpus) /\ GpuList # <<>>
  BY JobStatsConstants, Zenon
<1> QED
  BY <1>1

\* The summary of the job encloses those of its GPUs that have samples.
LEMMA JobSummaryIs ==
  ASSUME NEW stats, NEW counts, PartsOK(stats, counts), NEW sum, sum = JobSummary(stats)
  PROVE  /\ \A g \in counts : /\ sum.min <= GpuSummary(stats[g]).min
                              /\ GpuSummary(stats[g]).max <= sum.max
         /\ sum.average <= sum.max
         /\ counts = JobGpus => sum.min <= sum.average
<1>a. PICK a : a = [g \in JobGpus |-> GpuSummary(stats[g])]
  BY Zenon
<1>u. UINT64_MAX \in Nat
  BY JobStatsConstants, Zenon
<1>0. counts \in SUBSET JobGpus
  BY Zenon DEF PartsOK
<1>1. /\ \A g \in counts :
           /\ a[g].max \in Nat /\ a[g].max <= UINT64_MAX /\ a[g].min \in Nat
           /\ a[g].average \in Nat /\ a[g].min <= a[g].average /\ a[g].average <= a[g].max
      /\ \A g \in JobGpus \ counts : a[g].average = 0
  BY <1>a, <1>0, Zenon DEF PartsOK
<1>x. PICK X : X = {GpuSummary(stats[g]).max : g \in counts} \cup {0}
  BY Zenon
<1>n. PICK N : N = {GpuSummary(stats[g]).min : g \in counts} \cup {UINT64_MAX}
  BY Zenon
<1>v. PICK vs : vs = [i \in DOMAIN GpuList |-> GpuSummary(stats[GpuList[i]]).average]
  BY Zenon
<1>l. PICK n : n = Len(GpuList)
  BY Zenon
<1>2. sum.max = Max(X) /\ sum.min = Min(N) /\ sum.average = Total(vs) \div n
  BY <1>x, <1>n, <1>v, <1>l, ZenonT(30) DEF JobSummary, PartsOK
<1>3. X \in SUBSET (0 .. UINT64_MAX) /\ 0 \in X /\ \A g \in counts : a[g].max \in X
  BY <1>u, <1>0, <1>1, <1>a, <1>x, SMTT(30)
<1>4. N \in SUBSET Nat /\ N # {} /\ \A g \in counts : a[g].min \in N
  BY <1>u, <1>0, <1>1, <1>a, <1>n, ZenonT(30)
<1>hi. PICK hi : hi = Max(X)
  BY Zenon
<1>lo. PICK lo : lo = Min(N)
  BY Zenon
<1>5. hi \in Nat /\ \A y \in X : y <= hi
  <2>1. Max(X) \in X /\ \A y \in X : y <= Max(X)
    BY <1>u, <1>3, BoundedMax, Zenon
  <2>2. hi \in X /\ \A y \in X : y <= hi
    BY <1>hi, <2>1, ZenonT(30)
  <2>3. X \in SUBSET Nat
    BY <1>3, <1>u, SMTT(30)
  <2> QED
    BY <2>2, <2>3, Zenon
<1>6. lo \in Nat /\ \A y \in N : lo <= y
  <2>1. Min(N) \in N /\ \A y \in N : Min(N) <= y
    BY <1>4, BoundedMin, Zenon
  <2> QED
    BY <1>4, <1>lo, <2>1, Zenon
<1>7. ASSUME NEW g \in counts PROVE lo <= a[g].min /\ a[g].max <= hi
  BY <1>3, <1>4, <1>5, <1>6, ZenonT(30)
<1>8. n \in Nat \ {0} /\ DOMAIN GpuList = 1 .. n /\ \A i \in 1 .. n : GpuList[i] \in JobGpus
  BY <1>l, ListIs, Zenon
<1>9. vs = [i \in 1 .. n |-> vs[i]] /\ \A i \in 1 .. n : vs[i] = a[GpuList[i]].average
  BY <1>8, <1>a, <1>v, ZenonT(30)
<1>10. Len(vs) = n
  BY <1>8, <1>9, SMTT(30)
<1>11. ASSUME NEW g \in JobGpus PROVE a[g].average \in Int /\ 0 <= a[g].average /\ a[g].average <= hi
  <2>1. CASE g \in counts
    BY <1>1, <1>5, <1>7, <2>1, SMTT(30)
  <2>2. CASE g \notin counts
    BY <1>1, <1>5, <2>2, SMTT(30)
  <2> QED
    BY <2>1, <2>2, ZenonT(30)
<1>t. PICK T : T = Total(vs)
  BY Zenon
<1>12. sum.average <= hi
  <2>1. \A i \in 1 .. n : vs[i] \in Int /\ 0 <= vs[i] /\ vs[i] <= hi
    BY <1>8, <1>9, <1>11, ZenonT(30)
  <2>2. n \in Nat /\ 0 \in Int /\ hi \in Int
    BY <1>5, <1>8, SMTT(30)
  <2>3. T \in Int /\ n * 0 <= T /\ T <= n * hi
    BY <1>10, <1>t, <2>1, <2>2, TotalBounds, ZenonT(30)
  <2>4. T \div n <= hi
    BY <1>8, <2>2, <2>3, QuotientBounds, ZenonT(30)
  <2> QED
    BY <1>2, <1>t, <2>4, Zenon
<1>13. ASSUME counts = JobGpus PROVE lo <= sum.average
  <2>1. ASSUME NEW g \in JobGpus PROVE lo <= a[g].average
    BY <1>1, <1>6, <1>7, <1>13, SMTT(30)
  <2>2. \A i \in 1 .. n : vs[i] \in Int /\ lo <= vs[i] /\ vs[i] <= hi
    BY <1>8, <1>9, <1>11, <2>1, ZenonT(30)
  <2>3. n \in Nat /\ lo \in Int /\ hi \in Int
    BY <1>5, <1>6, <1>8, SMTT(30)
  <2>4. T \in Int /\ n * lo <= T /\ T <= n * hi
    BY <1>10, <1>t, <2>2, <2>3, TotalBounds, ZenonT(30)
  <2>5. lo <= T \div n
    BY <1>8, <2>3, <2>4, QuotientBounds, ZenonT(30)
  <2> QED
    BY <1>2, <1>t, <2>5, ZenonT(30)
<1>14. ASSUME NEW g \in counts
       PROVE  sum.min <= GpuSummary(stats[g]).min /\ GpuSummary(stats[g]).max <= sum.max
  BY <1>0, <1>2, <1>7, <1>a, <1>hi, <1>lo, ZenonT(30)
<1> QED
  BY <1>2, <1>12, <1>13, <1>14, <1>hi, <1>lo, ZenonT(30)

\* What rdc_job_get_stats tells of the values is about the samples since the last
\* start, and the summary of the job encloses those of its GPUs.
THEOREM StatsAreOfThisRun == JobStatsSpec => []StatsOfThisRun
<1>1. ASSUME JobStatsInv, entry.present PROVE StatsOfThisRun
  <2>s. PICK stats : stats = entry.gpu_stats
    BY Zenon
  <2>h. PICK heard : heard = {g \in JobGpus : seen[g] # <<>>}
    BY Zenon
  <2>1. ASSUME NEW g \in JobGpus
        PROVE  GpuOK(stats[g], seen[g], ticks) /\ ValuesSeen(g) = ValuesOf(seen[g])
               /\ Answer.power[g] = GpuSummary(stats[g])
    BY <1>1, <2>s, AnswerIs, Zenon DEF JobStatsInv, StatsInv, GpuInv, ValuesSeen, ValuesOf
  <2>2. ASSUME NEW g \in JobGpus \ heard
        PROVE  GpuSummary(stats[g]) = [max |-> 0, min |-> UINT64_MAX, average |-> 0]
               /\ ~ (stats[g].count > 0)
    <3>1. g \in JobGpus /\ seen[g] = <<>>
      BY <2>h, Zenon
    <3> QED
      BY <2>1, <3>1, NoSummary, Zenon
  <2>3. ASSUME NEW g \in heard
        PROVE  g \in JobGpus /\ SummaryIs(GpuSummary(stats[g]), stats[g], ValuesSeen(g))
    <3>1. g \in JobGpus /\ seen[g] # <<>>
      BY <2>h, Zenon
    <3> QED
      BY <2>1, <3>1, ASummary, Zenon
  <2>4. PartsOK(stats, heard)
    <3>1. heard = {g \in JobGpus : stats[g].count > 0}
      <4>1. heard \in SUBSET JobGpus
        BY <2>h, Zenon
      <4>2. \A g \in heard : stats[g].count > 0
        BY <2>3, Zenon DEF SummaryIs
      <4> QED
        BY <2>2, <4>1, <4>2, Zenon
    <3>2. \A g \in JobGpus \ heard : GpuSummary(stats[g]).average = 0
      BY <2>2
    <3> QED
      BY <2>3, <3>1, <3>2, Zenon DEF PartsOK, SummaryIs
  <2>u. PICK sum : sum = Answer.summary
    BY Zenon
  <2>5. sum = JobSummary(stats)
    BY <1>1, <2>s, <2>u, AnswerIs, Zenon
  <2>6. /\ \A g \in heard : /\ sum.min <= GpuSummary(stats[g]).min
                            /\ GpuSummary(stats[g]).max <= sum.max
        /\ sum.average <= sum.max
        /\ heard = JobGpus => sum.min <= sum.average
    BY <2>4, <2>5, JobSummaryIs, Zenon
  <2>7. \A g \in JobGpus \ heard :
          Answer.power[g] = [max |-> 0, min |-> UINT64_MAX, average |-> 0]
    BY <2>1, <2>2, Zenon
  <2>8. ASSUME NEW g \in heard
        PROVE  LET vs == ValuesSeen(g)
                   at == Answer.power[g]
               IN  /\ at.max = Max({vs[i] : i \in DOMAIN vs}) \div Adjuster
                   /\ at.min = Min({vs[i] : i \in DOMAIN vs}) \div Adjuster
                   /\ at.average = Total(vs) \div (Adjuster * Len(vs))
                   /\ sum.min <= at.min /\ at.max <= sum.max
    <3>1. Answer.power[g] = GpuSummary(stats[g])
      BY <2>1, <2>3, Zenon
    <3> QED
      BY <2>3, <2>6, <3>1, Zenon DEF SummaryIs
  <2> QED
    BY <2>6, <2>7, <2>8, <2>h, <2>u, ZenonT(30) DEF StatsOfThisRun
<1>2. JobStatsInv => StatsOfThisRun
  BY <1>1, Zenon DEF StatsOfThisRun
<1> QED
  BY <1>2, JobStatsInvariant, PTL
=============================================================================
