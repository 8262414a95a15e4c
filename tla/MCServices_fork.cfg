SPECIFICATION Spec
CONSTANT Cases = {"heap"}
CONSTANT Variant = "fork"
INVARIANT OwnMemory
CHECK_DEADLOCK FALSE
