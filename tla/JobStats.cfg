\* The statistics of a job: two GPUs, up to three samples of one and
\* four in all, and three calls of two clients.
SPECIFICATION JobStatsSpec

CONSTANTS
  Clients = {c1, c2}
  GpuList <- MCGpuList
  FaultyGpus = {0}
  Values = {1, 4}
  Adjuster = 2
  EnergyUnit = 3
  Scale = 6
  UINT64_MAX = 1000
  MaxJobSamples = 3
  MaxAllSamples = 4
  MaxTicks = 3
  MaxErrors = 2
  MaxCalls = 3
  CallWork = 2
  MaxWork = 6

SYMMETRY ClientSymmetry

INVARIANTS
  StatsOfThisRun
  WelfordExact
  EnergyNeverLess
  EccOfThisRun

CHECK_DEADLOCK FALSE
