CONSTANTS
    None = None
    ka = ka  kb = kb  kc = kc  va = va  vb = vb  vc = vc
    a1 = a1  a2 = a2  a3 = a3  a4 = a4  b1 = b1  b2 = b2  b3 = b3  c1 = c1  c2 = c2  c3 = c3
    Kernel = {ka, kb}
    Vpe = {va, vb}
    Cap = {a1, b1, a2}
    InitLive = {a1, b1, a2}
    Revocable = {a1, b1}
    Exiting = {}
    Obtainable = {}
    CleanReuse = TRUE
    VpeKernel <- OnePerKernel
    Owner <- TableOf
    InitParent <- Zigzag
SPECIFICATION Spec
INVARIANTS NoNullPointer
CHECK_DEADLOCK FALSE
