\* Four requests and a health probe; a queue of one result overflows.
SPECIFICATION Spec
CONSTANTS
  Requests = {r1, r2, r3, r4}
  HealthProbes = {h1}
  Kinds = {"rate_limit", "server_error", "concurrency_limit"}
  DefaultKinds = {"rate_limit", "server_error"}
  Policies <- SomePolicies
  MinSamples = 2
  ThresholdNum = 1
  ThresholdDen = 2
  ProbeCount = 2
  QueueSize = 1
SYMMETRY RequestSymmetry
INVARIANTS TypeOK ProbeBudget StuckOnlyByLostProbe RatesAreRates
PROPERTY OpenIsRespected
