--------------------------- MODULE MCAccessRights ---------------------------
(***************************************************************************)
(* Instances of AccessRights for TLC: a file in a directory of the root.   *)
(***************************************************************************)
EXTENDS AccessRights, TLC

CONSTANTS root, dir, file, other, u1, u2, g1, t1, t2

MCParent == dir :> root @@ file :> dir @@ other :> dir

\* The directory has two entries of one name.
MCEntries == root :> <<dir>> @@ dir :> <<file, other>>
MCName == dir :> 0 @@ file :> 0 @@ other :> 0
MCDirentSize == Dot :> 4 @@ DotDot :> 4 @@ 0 :> 5

\* Access lists of one id that cascade, reset, do both or neither.
DirLists == {{}, {"reset"}, {"cascade", "reset"}, {"write", "cascade"}}
FileLists == {{}, {"write"}}

Elem(who, tokens) == [id |-> who, access |-> tokens]

\* The root cascades a right to each user; u1 may be listed at the file as well,
\* and is listed twice at dir; the group is listed at dir.
MCConfigs ==
    {[uid |-> root :> <<Elem(u1, {"read", "cascade"}),
                            Elem(u2, {"write", "cascade"})>>
                @@ dir :> <<Elem(u1, b), Elem(u1, Tokens)>>
                @@ file :> <<Elem(u1, c)>> @@ other :> <<>>,
      gid |-> root :> <<>> @@ dir :> <<Elem(g1, {"write", "cascade"})>>
                @@ file :> <<>> @@ other :> <<>>] :
       b \in DirLists, c \in FileLists}

\* Two users of one configuration without resets, in which the root cascades to
\* both.
TwoUsers ==
    {[uid |-> [i \in Inodes |->
                 IF i = root THEN <<Elem(u1, {"read", "cascade"}),
                                    Elem(u2, {"read", "cascade"})>>
                 ELSE <<>>],
      gid |-> [i \in Inodes |-> <<>>]]}

MCSymmetry == Permutations({t1, t2})
=============================================================================
