------------------------------ MODULE MCFuseIO ------------------------------
(***************************************************************************)
(* Instances of FuseIO for TLC.                                            *)
(***************************************************************************)
EXTENDS FuseIO, TLC

CONSTANTS r1, r2, s1, s2, w1

\* Each thread reads a descriptor of its own.
OwnSubOf == r1 :> s1 @@ r2 :> s2

\* One thread reads one descriptor.
OneSubOf == r1 :> s1

\* Two records; a record and half of another.
MCBuffers == {<<1, 1>>, <<1, Malformed>>}

\* One record.
OneRecord == {<<1>>}

\* Records of two sizes.
TwoSizes == {<<1>>, <<2>>, <<2, 1>>}
=============================================================================
