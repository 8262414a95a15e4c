SPECIFICATION Spec
CONSTANT Cases = {"far"}
CONSTANT Variant = "crowd"
PROPERTY CreateSessReturns
CHECK_DEADLOCK FALSE
