CONSTANTS
    None = None
    ka = ka  kb = kb  kc = kc  va = va  vb = vb  vc = vc
    a1 = a1  a2 = a2  a3 = a3  a4 = a4  b1 = b1  b2 = b2  b3 = b3  c1 = c1  c2 = c2  c3 = c3
    Kernel = {ka, kb}
    Vpe = {va, vb}
    Cap = {a1, a2, a3, b1, b2}
    InitLive = {a1, a2, b1, b2}
    Revocable = {a1, a2, a3, b1, b2}
    Exiting = {vb}
    Obtainable = {a3, b2}
    CleanReuse = TRUE
    VpeKernel <- OnePerKernel
    Owner <- TableOf
    InitParent <- Zigzag
SPECIFICATION Spec
INVARIANTS TypeOK RootWaits NoEscape
CHECK_DEADLOCK FALSE
