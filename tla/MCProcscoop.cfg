SPECIFICATION Spec
CONSTANTS
  Cpus <- MCCpus
  Insets = {"", "SSE", "AVX", "AVX2", "AVX512", "DEFAULT"}
  Jobs <- MCJobs
INVARIANTS
  ContextReady
  DigestsAgree
  ReportsTrue
  BestReported
