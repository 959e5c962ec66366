SPECIFICATION Spec
CONSTANT Compiled <- MCCompiled
INVARIANTS AsSpecified Balanced
CHECK_DEADLOCK FALSE
