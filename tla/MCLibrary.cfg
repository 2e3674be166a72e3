SPECIFICATION Spec
INVARIANTS
  NumbersExact
  CurveLaw
  BothEndsAgree
  RoundTrip
  
  CutsDoNotMatter
  ChainVerdict
PROPERTY OddPrimesKept
CHECK_DEADLOCK FALSE
