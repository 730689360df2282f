---------------------------- MODULE AccessRights ----------------------------
(***************************************************************************)
(* Access control of the file system tree: INode::get_access and           *)
(* pull_cascaded_access_rights (src/fs_inode.cc), AccessControlMap         *)
(* (src/fs_access.cc), and the requests that ask for access rights:        *)
(* do_lookup and do_getattr through setup_stat, and do_open                *)
(* (src/sigfs.cc).                                                         *)
(*                                                                         *)
(* The first request for an inode pulls the rights that its directories    *)
(* cascade into the maps of the inode itself, for the user and the group   *)
(* of that request, and marks the inode as cached.  Nothing is locked: a   *)
(* request takes a step for every directory it looks at, and the FUSE      *)
(* threads interleave.  The accesses to one map are taken to be atomic.    *)
(*                                                                         *)
(* An id that a map does not hold reads like one with no rights and no     *)
(* flags, so a map is total here and an absent entry is the empty set.     *)
(***************************************************************************)
EXTENDS FileTree

CONSTANTS
    Uids,
    Gids,
    Names,       \* that are looked up
    DirRooms,    \* bytes of a listing that the kernel has room for
    Threads,     \* FUSE threads
    Configs      \* configuration files: the access lists of all inodes

Rights == {"read", "write"}
Tokens == Rights \cup {"cascade", "reset"}
Maps(Ids) == [Inodes -> [Ids -> SUBSET Tokens]]
Lists(Ids) == [Inodes -> Seq([id : Ids, access : SUBSET Tokens])]

ASSUME ConfigAssumption ==
    Configs \subseteq [uid : Lists(Uids), gid : Lists(Gids)]

\* Every reply has room for an entry: the kernel asks for a page, and a name has
\* at most 255 bytes.
ASSUME RoomAssumption ==
    \A bytes \in DirRooms : /\ bytes \in Nat
                            /\ \A name \in DirentNames : DirentSize[name] <= bytes

VARIABLES
    config,           \* what the configuration file says
    uid_access,       \* per inode: the map of user ids
    gid_access,       \* per inode: the map of group ids
    access_is_cached, \* per inode
    request,          \* per thread: its latest request
    listed            \* per thread: what the kernel has of a listing

accessVars == <<config, uid_access, gid_access, access_is_cached>>
vars == <<accessVars, request, listed>>

Flags == {"O_RDONLY", "O_WRONLY", "O_RDWR"}
Stat == "stat"        \* do_lookup and do_getattr
Readdir == "readdir"

Request == [phase : {"idle", "uid", "gid", "rights", "list", "done"},
            inode : Inodes,
            at : Inodes,              \* the directory it looks at next
            uid : Uids,
            gid : Gids,
            op : Flags \cup {Stat, Readdir},
            pulled : BOOLEAN,         \* it pulled the cascaded rights itself
            rights : SUBSET Rights,   \* can_read, can_write
            reply : {"none", "attr", "open", "listing",
                     "ENOENT", "EISDIR", "ENOTDIR", "EACCES"}]

TypeOK ==
    /\ config \in Configs
    /\ uid_access \in Maps(Uids)
    /\ gid_access \in Maps(Gids)
    /\ access_is_cached \in [Inodes -> BOOLEAN]
    /\ request \in [Threads -> Request]
    /\ DOMAIN listed = Threads

-----------------------------------------------------------------------------
\* A map holds the first element of its list with an id.
AccessOf(list, id) ==
    LET elems == {k \in DOMAIN list : list[k].id = id}
    IN  IF elems = {} THEN {} ELSE list[Min(elems)].access \cap Tokens

AccessMap(lists, Ids) ==
    [i \in Inodes |-> [id \in Ids |-> AccessOf(lists[i], id)]]

UidConfig == AccessMap(config.uid, Uids)
GidConfig == AccessMap(config.gid, Gids)

\* The first phase of a request, and its reply if that is the last one.
NewRequest(i, u, g, op, phase, reply) ==
    [phase |-> phase, inode |-> i,
     at |-> IF phase = "uid" THEN Parent[i] ELSE Root,
     uid |-> u, gid |-> g, op |-> op, pulled |-> phase = "uid",
     rights |-> {}, reply |-> reply]

Init ==
    /\ config \in Configs
    /\ uid_access = UidConfig
    /\ gid_access = GidConfig
    /\ access_is_cached = [i \in Inodes |-> FALSE]
    /\ request \in [Threads -> {NewRequest(Root, u, g, Stat, "idle", "none") :
                                  u \in Uids, g \in Gids}]
    /\ listed = [t \in Threads |-> <<>>]

\* A request for an inode.  A directory is never opened, and a file not listed.
\* The root and an inode that has its rights cached go straight to their maps.
Arrive(t, i, u, g, op) ==
    LET new(phase, reply) ==
            request' = [request EXCEPT
                          ![t] = NewRequest(i, u, g, op, phase, reply)]
        cached == i = Root \/ access_is_cached[i]
    IN  /\ request[t].phase \in {"idle", "done"}
        /\ CASE op \in Flags /\ i \notin Files -> new("done", "EISDIR")
             [] op = Readdir /\ i \in Files -> new("done", "ENOTDIR")
             [] op = Readdir /\ i \notin Files -> new("list", "none")
             [] OTHER -> new(IF cached THEN "rights" ELSE "uid", "none")
        /\ listed' = [listed EXCEPT ![t] = <<>>]
        /\ UNCHANGED accessVars

\* do_lookup.
Lookup(t, d, name, u, g) ==
    \/ \E i \in LookupEntry(d, name) : Arrive(t, i, u, g, Stat)
    \/ /\ request[t].phase \in {"idle", "done"}
       /\ LookupEntry(d, name) = {}
       /\ request' = [request EXCEPT
                        ![t] = NewRequest(d, u, g, Stat, "done", "ENOENT")]
       /\ listed' = [listed EXCEPT ![t] = <<>>]
       /\ UNCHANGED accessVars

\* One reply of do_readdir, and what the kernel takes from it: it goes on where
\* the last complete entry says, until a reply is empty.
ListEntries(t) ==
    LET listing == Listing(request[t].inode)
        off == IF listed[t] = <<>> THEN 0 ELSE Offset(listing, Len(listed[t]))
    IN  /\ request[t].phase = "list"
        /\ \E bytes \in DirRooms :
             LET taken == Complete(listing, off, bytes)
             IN  \/ /\ taken = {}
                    /\ request' = [request EXCEPT ![t].phase = "done",
                                                  ![t].reply = "listing"]
                    /\ UNCHANGED listed
                 \/ /\ taken # {}
                    /\ listed' = [listed EXCEPT ![t] =
                                    @ \o SubSeq(listing, Min(taken), Max(taken))]
                    /\ UNCHANGED request
        /\ UNCHANGED accessVars

\* The rights that a directory with this access entry hands down.
Cascaded(entry) == IF "cascade" \in entry THEN entry \cap Rights ELSE {}

\* Mistakes that the properties have to notice are named ...Mutant: here, a
\* directory that cascades nothing ends the climb.
TopmostMutant(entry, i) == "cascade" \notin entry \/ i = Root

\* No directory further up is asked.
Topmost(entry, i) == "reset" \in entry \/ i = Root

\* The rights of a directory replace what the inode has.
PullUidMutant(t) ==
    LET r == request[t]
        entry == uid_access[r.at][r.uid]
        last == Topmost(entry, r.at)
    IN  /\ r.phase = "uid"
        /\ uid_access' = [uid_access EXCEPT ![r.inode][r.uid] =
                            Cascaded(entry)]
        /\ request' = [request EXCEPT
                         ![t].phase = IF last THEN "gid" ELSE "uid",
                         ![t].at = Parent[IF last THEN r.inode ELSE r.at]]
        /\ UNCHANGED <<config, gid_access, access_is_cached, listed>>

PullUid(t) ==
    LET r == request[t]
        entry == uid_access[r.at][r.uid]
        last == Topmost(entry, r.at)
    IN  /\ r.phase = "uid"
        /\ uid_access' = [uid_access EXCEPT ![r.inode][r.uid] =
                            @ \cup Cascaded(entry)]
        /\ request' = [request EXCEPT
                         ![t].phase = IF last THEN "gid" ELSE "uid",
                         ![t].at = Parent[IF last THEN r.inode ELSE r.at]]
        /\ UNCHANGED <<config, gid_access, access_is_cached, listed>>

PullGid(t) ==
    LET r == request[t]
        entry == gid_access[r.at][r.gid]
        last == Topmost(entry, r.at)
    IN  /\ r.phase = "gid"
        /\ gid_access' = [gid_access EXCEPT ![r.inode][r.gid] =
                            @ \cup Cascaded(entry)]
        /\ request' = [request EXCEPT
                         ![t].phase = IF last THEN "rights" ELSE "gid",
                         ![t].at = IF last THEN Root ELSE Parent[r.at]]
        /\ access_is_cached' = [access_is_cached EXCEPT ![r.inode] = @ \/ last]
        /\ UNCHANGED <<config, uid_access, listed>>

\* The checks of do_open.  O_RDONLY is 0: a test of the flags for it fails.
Admitted(op, rights) ==
    /\ op # "O_RDWR"
    /\ op = "O_WRONLY" => "write" \in rights

\* The flags are taken for rights; the cached rights are given to everybody.
FlagsMutant(i, u, g) == uid_access[i][u] \cup gid_access[i][g]
CacheMutant(i, u, g) ==
    UNION {uid_access[i][v] \cup gid_access[i][g] : v \in Uids} \cap Rights

\* What the maps of the inode itself say.
OwnRights(i, u, g) == (uid_access[i][u] \cup gid_access[i][g]) \cap Rights

\* The request is answered from the maps of the inode itself.
Answer(t) ==
    LET r == request[t]
        rights == OwnRights(r.inode, r.uid, r.gid)
    IN  /\ r.phase = "rights"
        /\ request' = [request EXCEPT
                         ![t].phase = "done",
                         ![t].rights = rights,
                         ![t].reply = IF r.op = Stat THEN "attr"
                                      ELSE IF Admitted(r.op, rights)
                                           THEN "open" ELSE "EACCES"]
        /\ UNCHANGED <<accessVars, listed>>

Next ==
    \E t \in Threads :
        \/ \E i \in Reachable, u \in Uids, g \in Gids :
              \/ \E op \in Flags \cup {Stat, Readdir} : Arrive(t, i, u, g, op)
              \/ \E name \in Names : i \notin Files /\ Lookup(t, i, name, u, g)
        \/ ListEntries(t)
        \/ PullUid(t)
        \/ PullGid(t)
        \/ Answer(t)

Spec == Init /\ [][Next]_vars

-----------------------------------------------------------------------------
(***************************************************************************)
(* What the access rights of an inode should be (README.md, "JSON          *)
(* uid_access object"), from the configuration alone.                      *)
(***************************************************************************)
\* A reset between the directory and the inode, or at the inode if it is a
\* directory, keeps out what the directory cascades.
CutOff(m, d, i, id) ==
    \E e \in Directories[i] \cup ({i} \ Files) :
        /\ d \in Directories[e]
        /\ "reset" \in m[e][id]

Inherited(m, i, id) ==
    UNION {Cascaded(m[d][id]) :
             d \in {d \in Directories[i] : ~CutOff(m, d, i, id)}}

Documented(i, u, g) ==
    LET own == UidConfig[i][u] \cup GidConfig[i][g]
    IN  (own \cap Rights) \cup Inherited(UidConfig, i, u)
                          \cup Inherited(GidConfig, i, g)

-----------------------------------------------------------------------------
(***************************************************************************)
(* Properties.                                                             *)
(***************************************************************************)
Answered == {r \in {request[t] : t \in Threads} :
                r.reply \in {"attr", "open", "EACCES"}}

\* The answers are the documented rights, whoever asked before for whatever
\* inode.  (README.md: cascade and reset of a uid_access object.)
RightsAsDocumented ==
    \A r \in Answered : r.rights = Documented(r.inode, r.uid, r.gid)

\* The rights of an id that the configuration cascades or gives to an inode,
\* when no reset is looked at.
GivenTo(m, i, id) ==
    (m[i][id] \cap Rights)
        \cup UNION {Cascaded(m[d][id]) : d \in Directories[i]}

\* A right comes from an access list of the inode or of one of its directories
\* that names the user or the group of the request itself: the rights that
\* requests of others left in the maps are not handed out.
RightsWereGiven ==
    \A r \in Answered :
        r.rights \subseteq GivenTo(UidConfig, r.inode, r.uid)
                             \cup GivenTo(GidConfig, r.inode, r.gid)

\* A request that pulled the cascaded rights misses none of the documented
\* ones, also when other requests change the maps that it climbs.
PullerMissesNothing ==
    \A r \in Answered :
        r.pulled => Documented(r.inode, r.uid, r.gid) \subseteq r.rights

\* A right that was granted is not withdrawn: the maps of the inode still hold
\* it, whatever requests pulled at the same time or later.
RightsAreKept ==
    \A r \in Answered :
        r.rights \subseteq uid_access[r.inode][r.uid]
                             \cup gid_access[r.inode][r.gid]

\* A directory lists every name that can be looked up in it once, with the inode
\* that the look-up finds, however the listing is cut into replies.
ListingsMatchLookups ==
    \A t \in Threads :
        LET r == request[t]
            names == {Name[i] : i \in EntriesOf(r.inode)}
            found == {e \in ToSet(listed[t]) : e.name \notin {Dot, DotDot}}
        IN  r.op = Readdir /\ r.inode \notin Files =>
              /\ IsInjective([k \in DOMAIN listed[t] |-> listed[t][k].name])
              /\ \A e \in found : LookupEntry(r.inode, e.name) = {e.ino}
              /\ r.phase = "done" => names = {e.name : e \in found}
=============================================================================
