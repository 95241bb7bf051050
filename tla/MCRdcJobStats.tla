---------------------------- MODULE MCRdcJobStats ---------------------------
\* The statistics of a job of two GPUs, for TLC.
EXTENDS RdcJobStats, TLC

MCGpuList == <<0, 1>>

ClientSymmetry == Permutations(Clients)
=============================================================================
