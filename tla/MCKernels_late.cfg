SPECIFICATION Spec
CONSTANT Cases = {"boot"}
CONSTANT Variant = "late"
PROPERTY AllStart
CHECK_DEADLOCK FALSE
