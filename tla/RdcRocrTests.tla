---------------------------- MODULE RdcRocrTests ----------------------------
(***************************************************************************)
(* What the tests of librdc_rocr.so compute: the n-ary search that         *)
(* ComputeQueueTest runs on a GPU.  How the tests share the process is in  *)
(* RdcDiagnostics.                                                         *)
(***************************************************************************)
EXTENDS Integers, Sequences, FiniteSets

\* hsa_status_t, as far as the tests tell its values apart.
SUCCESS == "SUCCESS"
INVALID_ALLOCATION == "INVALID_ALLOCATION"
OUT_OF_RESOURCES == "OUT_OF_RESOURCES"

-----------------------------------------------------------------------------
(***************************************************************************)
(* ComputeQueueTest::Run.  input is indexed from 0.                        *)
(***************************************************************************)
Inputs(length, values) ==
  {f \in [0 .. length - 1 -> values] :
     f[0] = 0 /\ \A i \in 1 .. length - 1 : f[i-1] <= f[i]}

\* What one work item of the kernel binarySearch looks at.
InSegment(input, find_me, sub, tid) ==
  /\ input[tid * sub] <= find_me
  /\ find_me <= input[(tid + 1) * sub - 1]

\* One pass: the bounds for every work item that may be the last to write.
\* left: what output[0] held before; the pass that finds nothing keeps it.
Narrowed(input, find_me, divisions, sub, left) ==
  LET hits  == {tid \in 0 .. divisions - 1 : InSegment(input, find_me, sub, tid)}
      from(tid) == [lower |-> tid * sub, upper |-> tid * sub + sub - 1,
                    sub |-> sub \div divisions, hit |-> hits # {}, left |-> tid]
  IN  {from(tid) : tid \in IF hits = {} THEN {left} ELSE hits}

\* The bounds the passes may end with.  Every pass makes the segments shorter, so
\* that there are fewer of them than there are elements.
Passes(input, find_me, divisions, start) ==
  LET over(b) == b.sub <= 1 \/ ~b.hit
      after[n \in 0 .. start.sub] ==
        IF n = 0 THEN {start}
        ELSE UNION {IF over(b) THEN {b}
                    ELSE Narrowed(input, find_me, divisions, b.sub, b.left) : b \in after[n - 1]}
  IN  after[start.sub]

\* The outcomes: the index found, or -1.
BinarySearch(input, find_me, divisions, left) ==
  LET length == Cardinality(DOMAIN input)
      start  == [lower |-> 0, upper |-> length - 1, sub |-> length \div divisions,
                 hit |-> TRUE, left |-> left]
      found(b) == {i \in b.lower .. b.upper : input[i] = find_me}
      first(S) == IF S = {} THEN -1 ELSE CHOOSE i \in S : \A j \in S : i <= j
  IN  IF input[0] > find_me \/ input[length - 1] < find_me THEN {-1}
      ELSE {first(found(b)) : b \in Passes(input, find_me, divisions, start)}

-----------------------------------------------------------------------------
\* The search finds find_me exactly when it is in the sorted input, and whichever
\* work item writes last, for a length that the divisions divide and that takes
\* one pass, as 512 and 64 do.  (The later passes would start at index 0 again.)
\* output is allocated and never cleared.  A value between two segments leaves
\* output[0] as it was, and the last look goes to the segment it names; left is
\* every one there is.  (108, which the code looks for, is small beside the steps of
\* its input, and lies in the first segment.)
SearchFinds(length, divisions, values) ==
  \A input \in Inputs(length, values) : \A v \in values : \A left \in 0 .. divisions - 1 :
    \A at \in BinarySearch(input, v, divisions, left) :
      IF \E i \in DOMAIN input : input[i] = v
      THEN at \in DOMAIN input /\ input[at] = v
      ELSE at = -1
=============================================================================
