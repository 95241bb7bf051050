---------------------------- MODULE RdcFieldFeed ----------------------------
(***************************************************************************)
(* What reading the history of a field promises its client, with nothing   *)
(* said of vectors, time stamps to pass on or the settings of a watch:     *)
(* a feed of samples in which each one waits until it is delivered or      *)
(* lost, the oldest always first.                                          *)
(***************************************************************************)
EXTENDS Integers

CONSTANT Times                 \* when samples may be taken

VARIABLES
  pending,                     \* samples that the client has yet to be given
  delivered                    \* samples that it was given

fvars == <<pending, delivered>>

FeedInit == pending = {} /\ delivered = {}

\* A sample is newer than all that there were.
Produce ==
  \E t \in Times :
    /\ \A u \in pending \cup delivered : u < t
    /\ pending' = pending \cup {t}
    /\ UNCHANGED delivered

\* Samples are lost before any that is newer, and only while they wait.
Lose ==
  \E kept \in SUBSET pending :
    /\ \A t \in pending \ kept : \A u \in kept : t < u
    /\ pending' = kept
    /\ UNCHANGED delivered

\* The oldest sample that is left is delivered, and waits no more.
Deliver ==
  \E t \in pending :
    /\ \A u \in pending \ {t} : t < u
    /\ pending' = pending \ {t}
    /\ delivered' = delivered \cup {t}

FeedNext == Produce \/ Lose \/ Deliver

FeedSpec == FeedInit /\ [][FeedNext]_fvars
=============================================================================
