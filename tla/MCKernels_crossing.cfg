SPECIFICATION Spec
CONSTANT Cases = {"tree"}
CONSTANT Variant = "crossing"
PROPERTY RevocationsEnd
CHECK_DEADLOCK FALSE
