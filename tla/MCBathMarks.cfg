CONSTANTS
  Traces <- MarkTraces
  Reach = 0
SPECIFICATION Spec
INVARIANT FlowOfWholeTrace
