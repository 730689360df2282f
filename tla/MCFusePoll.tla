----------------------------- MODULE MCFusePoll -----------------------------
(***************************************************************************)
(* Instances of FusePoll for TLC.                                          *)
(***************************************************************************)
EXTENDS FusePoll, TLC

CONSTANTS a1, a2, fa, fb, w1, w2

\* Each thread polls a descriptor of its own.
OwnFdOf == a1 :> fa @@ a2 :> fb

\* One thread polls one descriptor.
OneFdOf == a1 :> fa
=============================================================================
