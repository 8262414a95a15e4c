SPECIFICATION Spec
CONSTANT Cases = {"direct", "serv", "wrap", "queue", "near", "far", "files", "shared", "paths", "heap", "image"}
CONSTANT Variant = "usual"
INVARIANTS TypeOK EofIsEnd AnswersCounted SessionsInherit DiskExact WriteLands SizeIsWritten OwnMemory
PROPERTIES IsPipe BothClose SlotsKept QueuesAreFifo CreateSessReturns ReadsToEnd FaultsServed
CHECK_DEADLOCK FALSE
