SPECIFICATION Spec
CONSTANT Cases = {"tree", "idle", "boot", "revoke", "reuse", "memory", "gates", "buffers", "pages", "heap",
                  "threads", "treap"}
CONSTANT Variant = "usual"
INVARIANTS TypeOK InflightExact NoAppLoses NothingAfterRemoval KnownSender OneOwner StartTogether
INVARIANTS NoEscape ReturnMeansGone NoNullPointer HandedOutOnce EndpointHasCap BoundIsUsable AddressSpaceExact
INVARIANTS HeapExact HaltsIdle FindsExactly
PROPERTIES RevocationsEnd AllStop AllStart RevokeReturns CallsReturn
CHECK_DEADLOCK FALSE
