SPECIFICATION Spec
CONSTANT Cases = {"tree"}
CONSTANT Variant = "wakeup"
INVARIANT NoLostWakeup
CHECK_DEADLOCK FALSE
