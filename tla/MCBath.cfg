CONSTANTS
  Traces <- MCTraces
  Reach = 1
SPECIFICATION Spec
INVARIANTS TypeOK Accounted JettonsAccounted Recognised
PROPERTY MergesEnd
