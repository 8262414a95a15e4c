SPECIFICATION Spec
CONSTANT Cases = {"files"}
CONSTANT Variant = "append"
INVARIANT SizeIsWritten
CHECK_DEADLOCK FALSE
