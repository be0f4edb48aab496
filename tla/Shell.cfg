SPECIFICATION Spec
CONSTANTS
  DIGIT_BUF = 3
  U64 = 1000
  LINE_MAX = 7
  Names <- MCNames
  Helps <- MCHelps
  Letters <- MCLetters
  Lines <- MCLines
  Times <- MCTimes
  Cpus <- MCCpus
  FeatureNames <- MCFeatureNames
  FEATURE_NAME_LEN = 3
  Addresses = {0, 10, 527}
INVARIANTS RunsFirstWord NoFault EchoVerbatim NumbersReadBack
CHECK_DEADLOCK FALSE
