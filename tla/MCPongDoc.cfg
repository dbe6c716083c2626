SPECIFICATION PrepSpec
CONSTANT Setups <- MCPrepAlone
INVARIANT ReachableMeansPonged
CHECK_DEADLOCK FALSE
