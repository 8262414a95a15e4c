SPECIFICATION Spec
CONSTANT Cases = {"wrap"}
CONSTANT Variant = "ring"
PROPERTY IsPipe
CHECK_DEADLOCK FALSE
