---------------------------- MODULE MCRevocation ----------------------------
(***************************************************************************)
(* Instances of Revocation for TLC: capability forests over two or three   *)
(* kernels, one VPE per kernel.  A capability is a pair of its VPE and its *)
(* selector.                                                               *)
(***************************************************************************)
EXTENDS Revocation, TLC

CONSTANTS ka, kb, kc, va, vb, vc,
          a1, a2, a3, a4, b1, b2, b3, c1, c2, c3

OnePerKernel == [v \in Vpe |-> IF v = va THEN ka ELSE IF v = vb THEN kb ELSE kc]
TableOf == [c \in Cap |-> IF c \in {a1, a2, a3, a4} THEN va
                          ELSE IF c \in {b1, b2, b3} THEN vb ELSE vc]
Forest(f) == [c \in Cap |-> IF c \in DOMAIN f THEN f[c] ELSE None]

\* A local child with two remote children.
LocalFork == Forest(a2 :> a1 @@ b1 :> a2 @@ b2 :> a2)
\* From one kernel to the other and back.
Zigzag == Forest(b1 :> a1 @@ a2 :> b1)
=============================================================================
