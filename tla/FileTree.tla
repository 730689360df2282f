------------------------------ MODULE FileTree ------------------------------
(***************************************************************************)
(* The tree of directories and files that the configuration describes      *)
(* (FileSystem, src/fs_filesys.cc, and Directory, src/fs_dir.cc), the      *)
(* look-up of a name in a directory, and the bytes of its listing          *)
(* (dirbuf and do_readdir, src/sigfs.cc).                                  *)
(*                                                                         *)
(* The tree is built once, before the session starts, and is constant.     *)
(* Every object of the configuration becomes an inode with a number of its *)
(* own, also one that no directory refers to as its name is taken.         *)
(***************************************************************************)
EXTENDS Integers, FiniteSetsExt, SequencesExt

CONSTANTS
    Inodes,
    Root,        \* root_inode()
    Files,       \* the inodes without "entries"; the others are directories
    Parent,      \* parent_inode of every inode but the root
    Entries,     \* per directory: its "entries", in the order of the file
    Name,        \* of every inode but the root: numbers, in the maps' order
    DirentSize   \* bytes of the name in a listing

\* The names that dirbuf_add is given for the directory itself and its parent.
Dot == -2
DotDot == -1
DirentNames == {Dot, DotDot} \cup {Name[i] : i \in Inodes \ {Root}}

ASSUME TreeAssumption ==
    /\ Root \in Inodes \ Files
    /\ Parent \in [Inodes \ {Root} -> Inodes \ Files]

ASSUME ListingAssumption ==
    /\ Entries \in [Inodes \ Files -> Seq(Inodes \ {Root})]
    /\ \A d \in Inodes \ Files :
         ToSet(Entries[d]) = {i \in Inodes \ {Root} : Parent[i] = d}
    /\ Name \in [Inodes \ {Root} -> Nat]
    /\ \A name \in DirentNames : DirentSize[name] \in Nat \ {0}

-----------------------------------------------------------------------------
\* entries_: a map, in which a name that is there already is not replaced.
EntriesOf(d) ==
    {Entries[d][k] : k \in {k \in DOMAIN Entries[d] :
        \A j \in 1..(k - 1) : Name[Entries[d][j]] # Name[Entries[d][k]]}}

\* The entry with the name; none if the name is not found.
LookupEntry(d, name) == {i \in EntriesOf(d) : Name[i] = name}

\* The directories that an inode is in: those that every set of inodes with its
\* parent, and with the parent of each of its members, has in common.
Directories == [i \in Inodes |-> {d \in Inodes :
    /\ i # Root
    /\ \A S \in SUBSET Inodes :
         Parent[i] \in S /\ (\A e \in S \ {Root} : Parent[e] \in S) => d \in S}]

\* The inodes that are found by looking up names, from the root on.
Reachable == {i \in Inodes :
    \A e \in ({i} \cup Directories[i]) \ {Root} : e \in EntriesOf(Parent[e])}

-----------------------------------------------------------------------------
\* The entries in the order of the map: by name, as many before each as have a
\* smaller one.
Sorted(entries) ==
    [k \in 1..Cardinality(entries) |-> CHOOSE i \in entries :
        Cardinality({j \in entries : Name[j] < Name[i]}) = k - 1]

\* What do_readdir adds to the buffer, in this order.  The parent of the root is
\* the root itself.
Listing(d) ==
    <<[name |-> Dot, ino |-> d],
      [name |-> DotDot, ino |-> IF d = Root THEN Root ELSE Parent[d]]>>
    \o LET sorted == Sorted(EntriesOf(d))
       IN  [k \in DOMAIN sorted |-> [name |-> Name[sorted[k]], ino |-> sorted[k]]]

\* The size of the buffer after the k-th entry was added; it is also what the
\* entry says of the place where the listing goes on.
Ends(listing) ==
    LET end[k \in 0..Len(listing)] ==
            IF k = 0 THEN 0 ELSE end[k - 1] + DirentSize[listing[k].name]
    IN  end
End(listing, k) == Ends(listing)[k]

\* A mistake that the properties have to notice: the entry says where it starts
\* itself.
OffsetMutant(listing, k) == End(listing, k - 1)
Offset(listing, k) == End(listing, k)

\* reply_buf_limited sends the bytes of the buffer from off on, as many as the
\* kernel has room for; these are the entries that are complete among them.
Complete(listing, off, bytes) ==
    {k \in DOMAIN listing : /\ off <= End(listing, k - 1)
                            /\ End(listing, k) <= off + bytes}
=============================================================================
