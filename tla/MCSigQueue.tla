----------------------------- MODULE MCSigQueue -----------------------------
(***************************************************************************)
(* Instances of SigQueue for TLC.  The ring has four slots, the smallest   *)
(* the constructor accepts, and enough signals are published to lap it.    *)
(***************************************************************************)
EXTENDS SigQueue, TLC

CONSTANTS p1, p2, r1, r2, s1, s2, d1, d2

\* Two threads read one descriptor.
SharedSubOf == r1 :> s1 @@ r2 :> s1

\* Each thread reads its own.
OwnSubOf == r1 :> s1 @@ r2 :> s2

\* One thread reads one descriptor.
SingleSubOf == r1 :> s1

MCSymmetry == Permutations({p1, p2}) \cup Permutations({d1, d2})
=============================================================================
