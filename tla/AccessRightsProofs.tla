------------------------- MODULE AccessRightsProofs -------------------------
(***************************************************************************)
(* Proofs about AccessRights, for every tree, every configuration and any  *)
(* number of users, groups and threads.                                    *)
(***************************************************************************)
EXTENDS AccessRights, FiniteSetTheorems, SequenceTheorems, WellFoundedInduction,
        TLAPS

-----------------------------------------------------------------------------
(***************************************************************************)
(* The directories of an inode.                                            *)
(***************************************************************************)

\* The parent of an inode is one of its directories.
LEMMA ParentIsDirectory ==
    ASSUME NEW i \in Inodes \ {Root}
    PROVE  Parent[i] \in Directories[i]
  BY TreeAssumption DEF Directories

\* So is the parent of each of its directories.
LEMMA GrandparentIsDirectory ==
    ASSUME NEW i \in Inodes, NEW d \in Directories[i], d # Root
    PROVE  Parent[d] \in Directories[i]
  <1>1. d \in Inodes /\ i # Root
    BY DEF Directories
  <1>2. Parent[d] \in Inodes
    BY <1>1, TreeAssumption
  <1> SUFFICES ASSUME NEW S \in SUBSET Inodes,
                      Parent[i] \in S, \A e \in S \ {Root} : Parent[e] \in S
               PROVE  Parent[d] \in S
    BY <1>1, <1>2 DEF Directories
  <1>3. d \in S
    BY <1>1 DEF Directories
  <1> QED BY <1>3

\* The root is in no directory; directories are inodes.
LEMMA DirectoriesType ==
    ASSUME NEW i \in Inodes
    PROVE  /\ Directories[i] \subseteq Inodes
           /\ Directories[Root] = {}
  BY TreeAssumption DEF Directories

\* The directories of a directory of an inode are directories of the inode.
LEMMA DirectoriesTransitive ==
    ASSUME NEW i \in Inodes, NEW d \in Directories[i], NEW e \in Directories[d]
    PROVE  e \in Directories[i]
  <1>1. i # Root /\ d \in Inodes /\ d # Root /\ e \in Inodes
    BY DirectoriesType DEF Directories
  <1> SUFFICES ASSUME NEW S \in SUBSET Inodes,
                      Parent[i] \in S, \A f \in S \ {Root} : Parent[f] \in S
               PROVE  e \in S
    BY <1>1 DEF Directories
  <1>2. d \in S
    BY <1>1 DEF Directories
  <1>3. Parent[d] \in S
    BY <1>1, <1>2
  <1> QED BY <1>1, <1>3 DEF Directories

\* Every directory of an inode is its parent or a directory of its parent.
LEMMA DirectoriesStep ==
    ASSUME NEW i \in Inodes \ {Root}, NEW d \in Directories[i]
    PROVE  d = Parent[i] \/ d \in Directories[Parent[i]]
  <1> DEFINE S == {Parent[i]} \cup Directories[Parent[i]]
  <1>1. Parent[i] \in Inodes
    BY TreeAssumption
  <1>2. S \in SUBSET Inodes
    BY <1>1, DirectoriesType
  <1>3. ASSUME NEW e \in S \ {Root} PROVE Parent[e] \in S
    <2>1. CASE e = Parent[i]
      BY <1>1, <1>3, <2>1, ParentIsDirectory
    <2>2. CASE e \in Directories[Parent[i]]
      BY <1>1, <1>3, <2>2, GrandparentIsDirectory
    <2> QED BY <1>3, <2>1, <2>2
  <1>4. Parent[i] \in S
    OBVIOUS
  <1> HIDE DEF S
  <1>5. d \in S
    BY <1>2, <1>3, <1>4 DEF Directories
  <1> QED BY <1>5 DEF S

-----------------------------------------------------------------------------
(***************************************************************************)
(* Maps of rights and the climb.  m is the map of users or of groups as it *)
(* is, c what the configuration says.                                      *)
(***************************************************************************)

\* The flags are those of the configuration, which never change; rights are
\* added, but only such that the configuration gives or cascades.
FromConfig(m, c, Ids) ==
    \A i \in Inodes, id \in Ids :
        /\ c[i][id] \subseteq m[i][id]
        /\ m[i][id] \ Rights \subseteq c[i][id]
        /\ m[i][id] \cap Rights \subseteq GivenTo(c, i, id)

\* What the inode gets from the directory d is there, or need not be.
Settled(m, c, i, d, id) ==
    CutOff(c, d, i, id) \/ Cascaded(c[d][id]) \subseteq m[i][id]

AllSettled(m, c, i, id) == \A d \in Directories[i] : Settled(m, c, i, d, id)

\* Only directories that the climb has yet to reach are open.
SettledBelow(m, c, i, at, id) ==
    \A d \in Directories[i] :
        d = at \/ d \in Directories[at] \/ Settled(m, c, i, d, id)

Grows(m, n, Ids) == \A i \in Inodes, id \in Ids : m[i][id] \subseteq n[i][id]

Pull(m, i, d, id) == [m EXCEPT ![i][id] = @ \cup Cascaded(m[d][id])]

\* Cascaded rights are rights.
LEMMA CascadedRights ==
    ASSUME NEW entry PROVE Cascaded(entry) \subseteq Rights
  BY DEF Cascaded

\* What a directory hands down, at any time, was given to the inode.
LEMMA CascadedIsGiven ==
    ASSUME NEW Ids, NEW m \in Maps(Ids), NEW c \in Maps(Ids),
           FromConfig(m, c, Ids), NEW i \in Inodes,
           NEW d \in Directories[i], NEW id \in Ids
    PROVE  /\ Cascaded(m[d][id]) \subseteq GivenTo(c, i, id)
           /\ Cascaded(c[d][id]) \subseteq Cascaded(m[d][id])
  <1>1. d \in Inodes
    BY DirectoriesType
  <1>2. Cascaded(c[d][id]) \subseteq Cascaded(m[d][id])
    BY <1>1 DEF FromConfig, Cascaded
  <1>3. ASSUME "cascade" \in m[d][id] PROVE "cascade" \in c[d][id]
    BY <1>1, <1>3 DEF FromConfig, Rights
  <1>4. ASSUME "cascade" \in m[d][id]
        PROVE  m[d][id] \cap Rights \subseteq GivenTo(c, i, id)
    <2>1. m[d][id] \cap Rights \subseteq GivenTo(c, d, id)
      BY <1>1 DEF FromConfig
    <2>2. c[d][id] \cap Rights \subseteq GivenTo(c, i, id)
      BY <1>3, <1>4 DEF GivenTo, Cascaded
    <2>3. ASSUME NEW e \in Directories[d]
          PROVE  Cascaded(c[e][id]) \subseteq GivenTo(c, i, id)
      <3>1. e \in Directories[i]
        BY DirectoriesTransitive
      <3> QED BY <3>1 DEF GivenTo
    <2>4. GivenTo(c, d, id) \subseteq GivenTo(c, i, id)
      BY <2>2, <2>3 DEF GivenTo
    <2> QED BY <2>1, <2>4
  <1>5. Cascaded(m[d][id]) \subseteq GivenTo(c, i, id)
    BY <1>4 DEF Cascaded
  <1> QED BY <1>2, <1>5

\* Pulling what one directory hands down.
LEMMA PullKeeps ==
    ASSUME NEW Ids, NEW m \in Maps(Ids), NEW c \in Maps(Ids),
           FromConfig(m, c, Ids), NEW i \in Inodes,
           NEW d \in Directories[i], NEW id \in Ids
    PROVE  /\ Pull(m, i, d, id) \in Maps(Ids)
           /\ FromConfig(Pull(m, i, d, id), c, Ids)
           /\ Grows(m, Pull(m, i, d, id), Ids)
           /\ Cascaded(c[d][id]) \subseteq Pull(m, i, d, id)[i][id]
  <1> DEFINE n == Pull(m, i, d, id)
             new == Cascaded(m[d][id])
  <1>1. new \subseteq Rights /\ new \subseteq GivenTo(c, i, id)
    BY CascadedRights, CascadedIsGiven
  <1>2. Rights \subseteq Tokens
    BY DEF Tokens
  <1>3. n \in Maps(Ids) /\ n[i][id] = m[i][id] \cup new
    BY <1>1, <1>2 DEF Pull, Maps
  <1>4. \A j \in Inodes, k \in Ids :
          n[j][k] = IF j = i /\ k = id THEN m[j][k] \cup new ELSE m[j][k]
    BY DEF Pull, Maps
  <1>5. Cascaded(c[d][id]) \subseteq new
    BY CascadedIsGiven
  <1> HIDE DEF n, new
  <1>6. Grows(m, n, Ids)
    BY <1>4 DEF Grows
  <1>7. FromConfig(n, c, Ids)
    BY <1>1, <1>4 DEF FromConfig
  <1> QED BY <1>3, <1>5, <1>6, <1>7 DEF n

\* What is settled stays settled.
LEMMA SettledStays ==
    ASSUME NEW Ids, NEW m, NEW n, NEW c, Grows(m, n, Ids),
           NEW i \in Inodes, NEW id \in Ids
    PROVE  /\ \A d : Settled(m, c, i, d, id) => Settled(n, c, i, d, id)
           /\ AllSettled(m, c, i, id) => AllSettled(n, c, i, id)
           /\ \A at : SettledBelow(m, c, i, at, id)
                        => SettledBelow(n, c, i, at, id)
  <1>1. \A d : Settled(m, c, i, d, id) => Settled(n, c, i, d, id)
    BY DEF Grows, Settled
  <1> QED BY <1>1 DEF AllSettled, SettledBelow

\* At the parent nothing is settled yet, and nothing else is open.
LEMMA ClimbStarts ==
    ASSUME NEW m, NEW c, NEW i \in Inodes \ {Root}, NEW id
    PROVE  SettledBelow(m, c, i, Parent[i], id)
  BY DirectoriesStep DEF SettledBelow

\* A step of the climb settles the directory it looks at; the last one, all.
LEMMA ClimbStep ==
    ASSUME NEW Ids, NEW m \in Maps(Ids), NEW c \in Maps(Ids),
           FromConfig(m, c, Ids), NEW i \in Inodes \ {Root},
           NEW at \in Directories[i], NEW id \in Ids,
           SettledBelow(m, c, i, at, id)
    PROVE  LET n == Pull(m, i, at, id)
           IN  IF Topmost(m[at][id], at) THEN AllSettled(n, c, i, id)
               ELSE SettledBelow(n, c, i, Parent[at], id)
  <1> DEFINE n == Pull(m, i, at, id)
  <1>1. /\ Grows(m, n, Ids)
        /\ Cascaded(c[at][id]) \subseteq n[i][id]
    BY PullKeeps
  <1>2. at \in Inodes
    BY DirectoriesType
  <1> HIDE DEF n
  <1>3. SettledBelow(n, c, i, at, id)
    BY <1>1, SettledStays
  <1>4. Settled(n, c, i, at, id)
    BY <1>1 DEF Settled
  <1>5. CASE Topmost(m[at][id], at)
    <2>1. ASSUME NEW d \in Directories[at] PROVE Settled(n, c, i, d, id)
      <3>1. at # Root
        BY <1>2, DirectoriesType
      <3>2. "reset" \in m[at][id]
        BY <1>5, <3>1 DEF Topmost
      <3>3. "reset" \in c[at][id]
        BY <1>2, <3>2 DEF FromConfig, Rights
      <3>4. CutOff(c, d, i, id)
        BY <3>3 DEF CutOff
      <3> QED BY <3>4 DEF Settled
    <2>2. AllSettled(n, c, i, id)
      BY <1>3, <1>4, <2>1 DEF SettledBelow, AllSettled
    <2> QED BY <1>5, <2>2 DEF n
  <1>6. CASE ~Topmost(m[at][id], at)
    <2>1. at # Root
      BY <1>6 DEF Topmost
    <2>2. \A d \in Directories[at] :
            d = Parent[at] \/ d \in Directories[Parent[at]]
      BY <1>2, <2>1, DirectoriesStep
    <2>3. SettledBelow(n, c, i, Parent[at], id)
      BY <1>3, <1>4, <2>2 DEF SettledBelow
    <2> QED BY <1>6, <2>3 DEF n
  <1> QED BY <1>5, <1>6

-----------------------------------------------------------------------------
(***************************************************************************)
(* The inductive invariant.                                                *)
(***************************************************************************)

\* A climb is at a directory of the inode, and only what is above is open: um and
\* gm are the maps, uc and gc what the configuration says.
Progress(r, um, gm, uc, gc) ==
    /\ r.phase \in {"uid", "gid"} =>
         r.pulled /\ r.inode # Root /\ r.at \in Directories[r.inode]
    /\ r.phase = "uid" =>
         SettledBelow(um, uc, r.inode, r.at, r.uid)
    /\ r.phase = "gid" =>
         /\ AllSettled(um, uc, r.inode, r.uid)
         /\ SettledBelow(gm, gc, r.inode, r.at, r.gid)
    /\ r.phase = "rights" /\ r.pulled =>
         /\ AllSettled(um, uc, r.inode, r.uid)
         /\ AllSettled(gm, gc, r.inode, r.gid)

ProgressNow(r) == Progress(r, uid_access, gid_access, UidConfig, GidConfig)

Climbing == \A t \in Threads : ProgressNow(request[t])

\* Only a finished request has a reply.
RepliesEnd == \A t \in Threads : request[t].reply # "none" => request[t].phase = "done"

IInv ==
    /\ TypeOK
    /\ FromConfig(uid_access, UidConfig, Uids)
    /\ FromConfig(gid_access, GidConfig, Gids)
    /\ Climbing
    /\ RepliesEnd
    /\ RightsWereGiven
    /\ PullerMissesNothing
    /\ RightsAreKept

\* The maps that the configuration describes.
LEMMA ConfigType ==
    ASSUME NEW lists, NEW Ids
    PROVE  AccessMap(lists, Ids) \in Maps(Ids)
  <1>1. \A i, id : AccessOf(lists[i], id) \subseteq Tokens
    BY DEF AccessOf
  <1> QED BY <1>1 DEF AccessMap, Maps

\* Inodes that are looked up exist.
LEMMA LookupType ==
    ASSUME NEW d \in Inodes \ Files, NEW name, NEW i \in LookupEntry(d, name)
    PROVE  i \in Inodes
  BY ListingAssumption DEF LookupEntry, EntriesOf

\* A new request is a request.
LEMMA NewRequestType ==
    ASSUME NEW i \in Inodes, NEW u \in Uids, NEW g \in Gids,
           NEW op \in Flags \cup {Stat, Readdir},
           NEW phase \in {"idle", "uid", "rights", "list", "done"},
           phase = "uid" => i # Root,
           NEW reply \in {"none", "ENOENT", "EISDIR", "ENOTDIR"}
    PROVE  NewRequest(i, u, g, op, phase, reply) \in Request
  <1>1. (phase = "uid") \in BOOLEAN
    OBVIOUS
  <1>2. (IF phase = "uid" THEN Parent[i] ELSE Root) \in Inodes
    BY TreeAssumption
  <1>3. {} \in SUBSET Rights
    OBVIOUS
  <1> QED BY <1>1, <1>2, <1>3 DEF NewRequest, Request

\* The initial states satisfy the invariant.
LEMMA InitInv == Init => IInv
  <1> SUFFICES ASSUME Init PROVE IInv
    OBVIOUS
  <1>1. UidConfig \in Maps(Uids) /\ GidConfig \in Maps(Gids)
    BY ConfigType DEF UidConfig, GidConfig
  <1>2. \A t \in Threads : \E u \in Uids, g \in Gids :
          request[t] = NewRequest(Root, u, g, Stat, "idle", "none")
    BY DEF Init
  <1>3. \A t \in Threads : /\ request[t] \in Request
                           /\ request[t].phase = "idle"
                           /\ request[t].reply = "none"
    <2> SUFFICES ASSUME NEW t \in Threads, NEW u \in Uids, NEW g \in Gids,
                        request[t] = NewRequest(Root, u, g, Stat, "idle", "none")
                 PROVE  /\ request[t] \in Request
                        /\ request[t].phase = "idle"
                        /\ request[t].reply = "none"
      BY <1>2
    <2>1. Root \in Inodes
      BY TreeAssumption
    <2>2. request[t] \in Request
      BY <2>1, NewRequestType
    <2> QED BY <2>2 DEF NewRequest
  <1>4. TypeOK
    BY <1>1, <1>3 DEF Init, TypeOK
  <1>5. \A c, Ids : FromConfig(c, c, Ids)
    BY DEF FromConfig, GivenTo
  <1>6. FromConfig(uid_access, UidConfig, Uids) /\ FromConfig(gid_access, GidConfig, Gids)
    BY <1>5 DEF Init
  <1>7. Climbing /\ RepliesEnd
    BY <1>3 DEF Climbing, ProgressNow, Progress, RepliesEnd
  <1>8. Answered = {}
    BY <1>3 DEF Answered
  <1>9. RightsWereGiven /\ PullerMissesNothing /\ RightsAreKept
    BY <1>8 DEF RightsWereGiven, PullerMissesNothing, RightsAreKept
  <1> QED BY <1>4, <1>6, <1>7, <1>9 DEF IInv

-----------------------------------------------------------------------------
(***************************************************************************)
(* The steps.                                                              *)
(***************************************************************************)

\* A request that begins: the maps stay, and nothing was answered yet.
LEMMA ArriveInv ==
    ASSUME IInv, NEW t \in Threads, NEW i \in Inodes, NEW u \in Uids,
           NEW g \in Gids, NEW op \in Flags \cup {Stat, Readdir},
           NEW phase \in {"uid", "rights", "list", "done"},
           phase = "uid" => i # Root,
           NEW reply \in {"none", "ENOENT", "EISDIR", "ENOTDIR"},
           reply # "none" => phase = "done",
           request' = [request EXCEPT ![t] = NewRequest(i, u, g, op, phase, reply)],
           listed' = [listed EXCEPT ![t] = <<>>],
           UNCHANGED accessVars
    PROVE  IInv'
  <1> USE DEF accessVars
  <1> DEFINE new == NewRequest(i, u, g, op, phase, reply)
  <1>1. new \in Request /\ request \in [Threads -> Request] /\ TypeOK
    BY NewRequestType DEF IInv, TypeOK
  <1>2. /\ new.phase = phase /\ new.reply = reply /\ new.inode = i
        /\ new.uid = u /\ new.gid = g
        /\ new.pulled = (phase = "uid")
        /\ phase = "uid" => new.at = Parent[i]
    BY DEF NewRequest
  <1>3. \A s \in Threads : request'[s] = IF s = t THEN new ELSE request[s]
    BY <1>1
  <1> HIDE DEF new
  <1>4. TypeOK'
    BY <1>1 DEF TypeOK, new
  <1>5. UidConfig' = UidConfig /\ GidConfig' = GidConfig
    BY DEF UidConfig, GidConfig
  <1>6. FromConfig(uid_access, UidConfig, Uids)' /\ FromConfig(gid_access, GidConfig, Gids)'
    BY <1>5 DEF IInv, FromConfig
  <1>7. Climbing'
    <2> SUFFICES ASSUME NEW s \in Threads
                 PROVE  Progress(request'[s], uid_access', gid_access',
                                 UidConfig, GidConfig)
      BY <1>5 DEF Climbing, ProgressNow
    <2>1. CASE s # t
      BY <1>3, <2>1 DEF IInv, Climbing, ProgressNow
    <2>2. CASE s = t
      <3>1. request'[s] = new
        BY <1>3, <2>2
      <3>2. phase = "uid" => SettledBelow(uid_access, UidConfig, i, Parent[i], u)
        BY ClimbStarts
      <3>3. phase = "uid" => Parent[i] \in Directories[i]
        BY ParentIsDirectory
      <3> QED BY <1>2, <3>1, <3>2, <3>3 DEF Progress
    <2> QED BY <2>1, <2>2
  <1>8. RepliesEnd'
    BY <1>2, <1>3 DEF IInv, RepliesEnd
  <1>9. Answered' \subseteq Answered
    BY <1>2, <1>3 DEF Answered
  <1>10. RightsWereGiven' /\ PullerMissesNothing' /\ RightsAreKept'
    <2>1. \A r \in Answered' : Documented(r.inode, r.uid, r.gid)'
                                 = Documented(r.inode, r.uid, r.gid)
      BY <1>5 DEF Documented
    <2> QED BY <1>5, <1>9, <2>1
            DEF IInv, RightsWereGiven, PullerMissesNothing, RightsAreKept
  <1> QED BY <1>4, <1>6, <1>7, <1>8, <1>10 DEF IInv

\* The maps grow and no request is answered: the answers stay good.
LEMMA AnswersStay ==
    ASSUME IInv, UNCHANGED config, Answered' \subseteq Answered,
           Grows(uid_access, uid_access', Uids),
           Grows(gid_access, gid_access', Gids)
    PROVE  RightsWereGiven' /\ PullerMissesNothing' /\ RightsAreKept'
  <1>1. UidConfig' = UidConfig /\ GidConfig' = GidConfig
    BY DEF UidConfig, GidConfig
  <1>2. \A r \in Answered : r.inode \in Inodes /\ r.uid \in Uids /\ r.gid \in Gids
    BY DEF IInv, TypeOK, Answered, Request
  <1>3. \A r \in Answered : Documented(r.inode, r.uid, r.gid)'
                              = Documented(r.inode, r.uid, r.gid)
    BY <1>1 DEF Documented
  <1>4. RightsWereGiven' /\ PullerMissesNothing'
    BY <1>1, <1>3 DEF IInv, RightsWereGiven, PullerMissesNothing
  <1>5. ASSUME NEW r \in Answered'
        PROVE  r.rights \subseteq uid_access'[r.inode][r.uid]
                                    \cup gid_access'[r.inode][r.gid]
    <2>1. r \in Answered
      BY <1>5
    <2>2. r.rights \subseteq uid_access[r.inode][r.uid]
                               \cup gid_access[r.inode][r.gid]
      BY <2>1 DEF IInv, RightsAreKept
    <2> QED BY <1>2, <2>1, <2>2 DEF Grows
  <1> QED BY <1>4, <1>5 DEF RightsAreKept

\* The maps of another thread's request grow under it.
LEMMA ProgressStays ==
    ASSUME NEW r \in Request, ProgressNow(r),
           Grows(uid_access, uid_access', Uids),
           Grows(gid_access, gid_access', Gids)
    PROVE  Progress(r, uid_access', gid_access', UidConfig, GidConfig)
  <1>2. r.inode \in Inodes /\ r.uid \in Uids /\ r.gid \in Gids
    BY DEF Request
  <1>3. AllSettled(uid_access, UidConfig, r.inode, r.uid)
          => AllSettled(uid_access', UidConfig, r.inode, r.uid)
    BY <1>2, SettledStays
  <1>4. AllSettled(gid_access, GidConfig, r.inode, r.gid)
          => AllSettled(gid_access', GidConfig, r.inode, r.gid)
    BY <1>2, SettledStays
  <1>5. SettledBelow(uid_access, UidConfig, r.inode, r.at, r.uid)
          => SettledBelow(uid_access', UidConfig, r.inode, r.at, r.uid)
    BY <1>2, SettledStays
  <1>6. SettledBelow(gid_access, GidConfig, r.inode, r.at, r.gid)
          => SettledBelow(gid_access', GidConfig, r.inode, r.at, r.gid)
    BY <1>2, SettledStays
  <1> QED BY <1>3, <1>4, <1>5, <1>6 DEF ProgressNow, Progress

\* One directory's rights for the user are pulled.
LEMMA PullUidInv ==
    ASSUME IInv, NEW t \in Threads, PullUid(t)
    PROVE  IInv'
  <1> DEFINE r == request[t]
             last == Topmost(uid_access[r.at][r.uid], r.at)
             new == [r EXCEPT !.phase = IF last THEN "gid" ELSE "uid",
                              !.at = Parent[IF last THEN r.inode ELSE r.at]]
  <1>1. /\ r \in Request /\ r.phase = "uid" /\ ProgressNow(r)
        /\ request \in [Threads -> Request]
        /\ uid_access \in Maps(Uids)
        /\ UNCHANGED <<config, gid_access, access_is_cached, listed>>
    BY DEF IInv, TypeOK, PullUid, Climbing
  <1>2. /\ r.inode \in Inodes \ {Root} /\ r.uid \in Uids /\ r.gid \in Gids
        /\ r.at \in Directories[r.inode] /\ r.at \in Inodes
        /\ r.pulled
    BY <1>1, DirectoriesType DEF ProgressNow, Progress, Request
  <1>3. /\ uid_access' = Pull(uid_access, r.inode, r.at, r.uid)
        /\ request' = [request EXCEPT ![t] = new]
    BY <1>1 DEF PullUid, Pull
  <1>4. UidConfig' = UidConfig /\ GidConfig' = GidConfig /\ UidConfig \in Maps(Uids)
    BY <1>1, ConfigType DEF UidConfig, GidConfig
  <1>5. /\ uid_access' \in Maps(Uids)
        /\ FromConfig(uid_access', UidConfig, Uids)
        /\ Grows(uid_access, uid_access', Uids)
    BY <1>1, <1>2, <1>3, <1>4, PullKeeps DEF IInv
  <1>6. Grows(gid_access, gid_access', Gids)
    BY <1>1 DEF Grows
  <1>7. /\ new.phase = IF last THEN "gid" ELSE "uid"
        /\ new.at = Parent[IF last THEN r.inode ELSE r.at]
        /\ new.inode = r.inode /\ new.uid = r.uid /\ new.gid = r.gid
        /\ new.pulled = r.pulled /\ new.reply = r.reply
    BY <1>1 DEF Request
  <1>8. ~last => r.at # Root
    BY DEF Topmost
  <1>9. new.at \in Directories[r.inode] /\ new.at \in Inodes
    BY <1>2, <1>7, <1>8, ParentIsDirectory, GrandparentIsDirectory, DirectoriesType
  <1>10. new \in Request
    BY <1>1, <1>7, <1>9 DEF Request
  <1>11. \A s \in Threads : request'[s] = IF s = t THEN new ELSE request[s]
    BY <1>1, <1>3
  <1>12. TypeOK'
    BY <1>1, <1>3, <1>5, <1>10 DEF IInv, TypeOK
  <1>13. IF last THEN AllSettled(uid_access', UidConfig, r.inode, r.uid)
         ELSE SettledBelow(uid_access', UidConfig, r.inode, Parent[r.at], r.uid)
    BY <1>1, <1>2, <1>3, <1>4, ClimbStep DEF IInv, ProgressNow, Progress
  <1>14. SettledBelow(gid_access', GidConfig, r.inode, Parent[r.inode], r.gid)
    BY <1>2, ClimbStarts
  <1> HIDE DEF new, last
  <1>15. Progress(new, uid_access', gid_access', UidConfig, GidConfig)
    BY <1>2, <1>7, <1>9, <1>13, <1>14 DEF Progress
  <1>16. Climbing'
    <2> SUFFICES ASSUME NEW s \in Threads
                 PROVE  Progress(request'[s], uid_access', gid_access',
                                 UidConfig, GidConfig)
      BY <1>4 DEF Climbing, ProgressNow
    <2>1. CASE s = t
      BY <1>11, <1>15, <2>1
    <2>2. CASE s # t
      <3>1. request[s] \in Request /\ ProgressNow(request[s])
        BY <1>1 DEF IInv, Climbing
      <3> QED BY <1>5, <1>6, <1>11, <2>2, <3>1, ProgressStays
    <2> QED BY <2>1, <2>2
  <1>17. RepliesEnd' /\ Answered' \subseteq Answered
    <2>1. r.reply = "none"
      BY <1>1 DEF IInv, RepliesEnd
    <2> QED BY <1>7, <1>11, <2>1 DEF IInv, RepliesEnd, Answered
  <1>18. RightsWereGiven' /\ PullerMissesNothing' /\ RightsAreKept'
    BY <1>1, <1>5, <1>6, <1>17, AnswersStay
  <1>19. FromConfig(gid_access, GidConfig, Gids)'
    BY <1>1, <1>4 DEF IInv, FromConfig
  <1> QED BY <1>4, <1>5, <1>12, <1>16, <1>17, <1>18, <1>19 DEF IInv, FromConfig

\* One directory's rights for the group are pulled; the last one ends the climb.
LEMMA PullGidInv ==
    ASSUME IInv, NEW t \in Threads, PullGid(t)
    PROVE  IInv'
  <1> DEFINE r == request[t]
             last == Topmost(gid_access[r.at][r.gid], r.at)
             new == [r EXCEPT !.phase = IF last THEN "rights" ELSE "gid",
                              !.at = IF last THEN Root ELSE Parent[r.at]]
  <1>1. /\ r \in Request /\ r.phase = "gid" /\ ProgressNow(r)
        /\ request \in [Threads -> Request]
        /\ gid_access \in Maps(Gids)
        /\ UNCHANGED <<config, uid_access, listed>>
    BY DEF IInv, TypeOK, PullGid, Climbing
  <1>2. /\ r.inode \in Inodes \ {Root} /\ r.uid \in Uids /\ r.gid \in Gids
        /\ r.at \in Directories[r.inode] /\ r.at \in Inodes
        /\ r.pulled
    BY <1>1, DirectoriesType DEF ProgressNow, Progress, Request
  <1>3. /\ gid_access' = Pull(gid_access, r.inode, r.at, r.gid)
        /\ request' = [request EXCEPT ![t] = new]
    BY <1>1 DEF PullGid, Pull
  <1>4. UidConfig' = UidConfig /\ GidConfig' = GidConfig /\ GidConfig \in Maps(Gids)
    BY <1>1, ConfigType DEF UidConfig, GidConfig
  <1>5. /\ gid_access' \in Maps(Gids)
        /\ FromConfig(gid_access', GidConfig, Gids)
        /\ Grows(gid_access, gid_access', Gids)
    BY <1>1, <1>2, <1>3, <1>4, PullKeeps DEF IInv
  <1>6. Grows(uid_access, uid_access', Uids)
    BY <1>1 DEF Grows
  <1>7. /\ new.phase = IF last THEN "rights" ELSE "gid"
        /\ new.at = IF last THEN Root ELSE Parent[r.at]
        /\ new.inode = r.inode /\ new.uid = r.uid /\ new.gid = r.gid
        /\ new.pulled = r.pulled /\ new.reply = r.reply
    BY <1>1 DEF Request
  <1>8. ~last => r.at # Root
    BY DEF Topmost
  <1>9. new.at \in Inodes /\ (~last => new.at \in Directories[r.inode])
    BY <1>2, <1>7, <1>8, GrandparentIsDirectory, DirectoriesType, TreeAssumption
  <1>10. new \in Request
    BY <1>1, <1>7, <1>9 DEF Request
  <1>11. \A s \in Threads : request'[s] = IF s = t THEN new ELSE request[s]
    BY <1>1, <1>3
  <1>12. access_is_cached' \in [Inodes -> BOOLEAN]
    <2>1. access_is_cached \in [Inodes -> BOOLEAN]
      BY DEF IInv, TypeOK
    <2>2. (access_is_cached[r.inode] \/ last) \in BOOLEAN
      OBVIOUS
    <2>3. access_is_cached' = [access_is_cached EXCEPT
                                 ![r.inode] = access_is_cached[r.inode] \/ last]
      BY DEF PullGid
    <2> QED BY <2>1, <2>2, <2>3
  <1>13. TypeOK'
    BY <1>1, <1>3, <1>5, <1>10, <1>12 DEF IInv, TypeOK
  <1>14. IF last THEN AllSettled(gid_access', GidConfig, r.inode, r.gid)
         ELSE SettledBelow(gid_access', GidConfig, r.inode, Parent[r.at], r.gid)
    BY <1>1, <1>2, <1>3, <1>4, ClimbStep DEF IInv, ProgressNow, Progress
  <1>15. AllSettled(uid_access', UidConfig, r.inode, r.uid)
    BY <1>1 DEF ProgressNow, Progress
  <1> HIDE DEF new, last
  <1>16. Progress(new, uid_access', gid_access', UidConfig, GidConfig)
    BY <1>2, <1>7, <1>9, <1>14, <1>15 DEF Progress
  <1>17. Climbing'
    <2> SUFFICES ASSUME NEW s \in Threads
                 PROVE  Progress(request'[s], uid_access', gid_access',
                                 UidConfig, GidConfig)
      BY <1>4 DEF Climbing, ProgressNow
    <2>1. CASE s = t
      BY <1>11, <1>16, <2>1
    <2>2. CASE s # t
      <3>1. request[s] \in Request /\ ProgressNow(request[s])
        BY <1>1 DEF IInv, Climbing
      <3> QED BY <1>5, <1>6, <1>11, <2>2, <3>1, ProgressStays
    <2> QED BY <2>1, <2>2
  <1>18. RepliesEnd' /\ Answered' \subseteq Answered
    <2>1. r.reply = "none"
      BY <1>1 DEF IInv, RepliesEnd
    <2> QED BY <1>7, <1>11, <2>1 DEF IInv, RepliesEnd, Answered
  <1>19. RightsWereGiven' /\ PullerMissesNothing' /\ RightsAreKept'
    BY <1>1, <1>5, <1>6, <1>18, AnswersStay
  <1>20. FromConfig(uid_access, UidConfig, Uids)'
    BY <1>1, <1>4 DEF IInv, FromConfig
  <1> QED BY <1>4, <1>5, <1>13, <1>17, <1>18, <1>19, <1>20 DEF IInv, FromConfig

\* The rights that a request is answered with.
LEMMA OwnRightsGood ==
    ASSUME IInv, NEW r \in Request, r.phase = "rights", ProgressNow(r)
    PROVE  LET own == OwnRights(r.inode, r.uid, r.gid)
           IN  /\ own \subseteq GivenTo(UidConfig, r.inode, r.uid)
                                  \cup GivenTo(GidConfig, r.inode, r.gid)
               /\ r.pulled => Documented(r.inode, r.uid, r.gid) \subseteq own
               /\ own \subseteq uid_access[r.inode][r.uid]
                                  \cup gid_access[r.inode][r.gid]
  <1>1. r.inode \in Inodes /\ r.uid \in Uids /\ r.gid \in Gids
    BY DEF Request
  <1> DEFINE i == r.inode
             own == OwnRights(i, r.uid, r.gid)
  <1>2. own \subseteq GivenTo(UidConfig, i, r.uid) \cup GivenTo(GidConfig, i, r.gid)
    BY <1>1 DEF IInv, FromConfig, OwnRights
  <1>3. own \subseteq uid_access[i][r.uid] \cup gid_access[i][r.gid]
    BY DEF OwnRights
  <1>4. ASSUME r.pulled PROVE Documented(i, r.uid, r.gid) \subseteq own
    <2>1. /\ AllSettled(uid_access, UidConfig, i, r.uid)
          /\ AllSettled(gid_access, GidConfig, i, r.gid)
      BY <1>4 DEF ProgressNow, Progress
    <2>2. Inherited(UidConfig, i, r.uid) \subseteq own
      BY <2>1, CascadedRights DEF Inherited, AllSettled, Settled, OwnRights
    <2>3. Inherited(GidConfig, i, r.gid) \subseteq own
      BY <2>1, CascadedRights DEF Inherited, AllSettled, Settled, OwnRights
    <2>4. (UidConfig[i][r.uid] \cup GidConfig[i][r.gid]) \cap Rights \subseteq own
      BY <1>1 DEF IInv, FromConfig, OwnRights
    <2> QED BY <2>2, <2>3, <2>4 DEF Documented
  <1> QED BY <1>2, <1>3, <1>4

\* A request is answered from the maps of its inode.
LEMMA AnswerInv ==
    ASSUME IInv, NEW t \in Threads, Answer(t)
    PROVE  IInv'
  <1> DEFINE r == request[t]
             own == OwnRights(r.inode, r.uid, r.gid)
             reply == IF r.op = Stat THEN "attr"
                      ELSE IF Admitted(r.op, own) THEN "open" ELSE "EACCES"
             new == [r EXCEPT !.phase = "done", !.rights = own, !.reply = reply]
  <1>1. /\ r \in Request /\ r.phase = "rights" /\ ProgressNow(r)
        /\ request \in [Threads -> Request]
        /\ request' = [request EXCEPT ![t] = new]
        /\ UNCHANGED <<config, uid_access, gid_access, access_is_cached, listed>>
    BY DEF IInv, TypeOK, Answer, Climbing, accessVars
  <1>2. /\ own \subseteq Rights
        /\ own \subseteq GivenTo(UidConfig, r.inode, r.uid)
                           \cup GivenTo(GidConfig, r.inode, r.gid)
        /\ r.pulled => Documented(r.inode, r.uid, r.gid) \subseteq own
        /\ own \subseteq uid_access[r.inode][r.uid] \cup gid_access[r.inode][r.gid]
    BY <1>1, OwnRightsGood DEF OwnRights
  <1>3. UidConfig' = UidConfig /\ GidConfig' = GidConfig
    BY <1>1 DEF UidConfig, GidConfig
  <1>4. reply \in {"attr", "open", "EACCES"}
    OBVIOUS
  <1> HIDE DEF own, reply
  <1>5. /\ new.phase = "done" /\ new.rights = own /\ new.reply = reply
        /\ new.inode = r.inode /\ new.uid = r.uid /\ new.gid = r.gid
        /\ new.pulled = r.pulled
    BY <1>1 DEF Request
  <1>6. new \in Request
    BY <1>1, <1>2, <1>4 DEF Request
  <1>7. \A s \in Threads : request'[s] = IF s = t THEN new ELSE request[s]
    BY <1>1
  <1> HIDE DEF new
  <1>8. TypeOK'
    BY <1>1, <1>6 DEF IInv, TypeOK
  <1>9. Climbing'
    BY <1>1, <1>3, <1>5, <1>7 DEF IInv, Climbing, ProgressNow, Progress
  <1>10. RepliesEnd'
    BY <1>5, <1>7 DEF IInv, RepliesEnd
  <1>11. \A s \in Answered' : s = new \/ s \in Answered
    BY <1>7 DEF Answered
  <1>12. \A s : Documented(s.inode, s.uid, s.gid)' = Documented(s.inode, s.uid, s.gid)
    BY <1>3 DEF Documented
  <1>13. RightsWereGiven'
    BY <1>2, <1>3, <1>5, <1>11 DEF IInv, RightsWereGiven
  <1>14. PullerMissesNothing'
    BY <1>2, <1>5, <1>11, <1>12 DEF IInv, PullerMissesNothing
  <1>15. RightsAreKept'
    BY <1>1, <1>2, <1>5, <1>11 DEF IInv, RightsAreKept
  <1>16. FromConfig(uid_access, UidConfig, Uids)' /\ FromConfig(gid_access, GidConfig, Gids)'
    BY <1>1, <1>3 DEF IInv, FromConfig
  <1> QED BY <1>8, <1>9, <1>10, <1>13, <1>14, <1>15, <1>16 DEF IInv

\* A listing changes no map, and asks for no rights.
LEMMA ListEntriesInv ==
    ASSUME IInv, NEW t \in Threads, ListEntries(t)
    PROVE  IInv'
  <1> DEFINE r == request[t]
             new == [r EXCEPT !.phase = "done", !.reply = "listing"]
  <1>1. /\ r \in Request /\ r.phase = "list"
        /\ request \in [Threads -> Request] /\ DOMAIN listed = Threads
        /\ UNCHANGED <<config, uid_access, gid_access, access_is_cached>>
        /\ DOMAIN listed' = DOMAIN listed
        /\ request' = [request EXCEPT ![t] = new] \/ UNCHANGED request
    BY DEF IInv, TypeOK, ListEntries, accessVars
  <1>2. /\ new.phase = "done" /\ new.reply = "listing" /\ new \in Request
    BY <1>1 DEF Request
  <1>3. \A s \in Threads : request'[s] = request[s] \/ request'[s] = new
    BY <1>1
  <1>4. TypeOK'
    BY <1>1, <1>2 DEF IInv, TypeOK
  <1> HIDE DEF new
  <1>5. UidConfig' = UidConfig /\ GidConfig' = GidConfig
    BY <1>1 DEF UidConfig, GidConfig
  <1>6. Climbing'
    BY <1>1, <1>2, <1>3, <1>5 DEF IInv, Climbing, ProgressNow, Progress
  <1>7. RepliesEnd' /\ Answered' \subseteq Answered
    BY <1>2, <1>3 DEF IInv, RepliesEnd, Answered
  <1>8. Grows(uid_access, uid_access', Uids) /\ Grows(gid_access, gid_access', Gids)
    BY <1>1 DEF Grows
  <1>9. RightsWereGiven' /\ PullerMissesNothing' /\ RightsAreKept'
    BY <1>1, <1>7, <1>8, AnswersStay
  <1>10. FromConfig(uid_access, UidConfig, Uids)' /\ FromConfig(gid_access, GidConfig, Gids)'
    BY <1>1, <1>5 DEF IInv, FromConfig
  <1> QED BY <1>4, <1>6, <1>7, <1>9, <1>10 DEF IInv

\* Requests that arrive have one of the forms of ArriveInv.
LEMMA RequestInv ==
    ASSUME IInv, NEW t \in Threads, NEW i \in Inodes, NEW u \in Uids,
           NEW g \in Gids, NEW op \in Flags \cup {Stat, Readdir},
           Arrive(t, i, u, g, op)
    PROVE  IInv'
  <1> DEFINE cached == i = Root \/ access_is_cached[i]
  <1>1. listed' = [listed EXCEPT ![t] = <<>>] /\ UNCHANGED accessVars
    BY DEF Arrive
  <1>2. \/ request' = [request EXCEPT ![t] = NewRequest(i, u, g, op, "done", "EISDIR")]
        \/ request' = [request EXCEPT ![t] = NewRequest(i, u, g, op, "done", "ENOTDIR")]
        \/ request' = [request EXCEPT ![t] = NewRequest(i, u, g, op, "list", "none")]
        \/ request' = [request EXCEPT ![t] = NewRequest(i, u, g, op, "rights", "none")]
        \/ /\ request' = [request EXCEPT ![t] = NewRequest(i, u, g, op, "uid", "none")]
           /\ i # Root
    BY DEF Arrive
  <1> QED BY <1>1, <1>2, ArriveInv

\* A look-up ends as a request for what it finds, or at once.
LEMMA LookupInv ==
    ASSUME IInv, NEW t \in Threads, NEW d \in Inodes \ Files, NEW name,
           NEW u \in Uids, NEW g \in Gids, Lookup(t, d, name, u, g)
    PROVE  IInv'
  <1>1. CASE \E i \in LookupEntry(d, name) : Arrive(t, i, u, g, Stat)
    BY <1>1, LookupType, RequestInv
  <1>2. CASE ~\E i \in LookupEntry(d, name) : Arrive(t, i, u, g, Stat)
    BY <1>2, ArriveInv DEF Lookup
  <1> QED BY <1>1, <1>2

\* Every step keeps the invariant.
LEMMA NextInv == IInv /\ [Next]_vars => IInv'
  <1> SUFFICES ASSUME IInv, [Next]_vars PROVE IInv'
    OBVIOUS
  <1>1. Reachable \subseteq Inodes
    BY DEF Reachable
  <1>2. ASSUME NEW t \in Threads, NEW i \in Reachable, NEW u \in Uids, NEW g \in Gids,
               NEW op \in Flags \cup {Stat, Readdir}, Arrive(t, i, u, g, op)
        PROVE  IInv'
    BY <1>1, <1>2, RequestInv
  <1>3. ASSUME NEW t \in Threads, NEW i \in Reachable, NEW u \in Uids, NEW g \in Gids,
               NEW name \in Names, i \notin Files, Lookup(t, i, name, u, g)
        PROVE  IInv'
    BY <1>1, <1>3, LookupInv
  <1>4. CASE UNCHANGED vars
    <2>1. UidConfig' = UidConfig /\ GidConfig' = GidConfig
      BY <1>4 DEF vars, accessVars, UidConfig, GidConfig
    <2>2. Answered' = Answered
      BY <1>4 DEF vars, Answered
    <2>3. Grows(uid_access, uid_access', Uids) /\ Grows(gid_access, gid_access', Gids)
      BY <1>4 DEF vars, accessVars, Grows
    <2>4. RightsWereGiven' /\ PullerMissesNothing' /\ RightsAreKept'
      BY <1>4, <2>2, <2>3, AnswersStay DEF vars, accessVars
    <2> QED BY <1>4, <2>1, <2>4
            DEF IInv, TypeOK, FromConfig, Climbing, ProgressNow, Progress,
                RepliesEnd, vars, accessVars
  <1> QED BY <1>2, <1>3, <1>4, PullUidInv, PullGidInv, AnswerInv, ListEntriesInv
          DEF Next

\* The invariant holds in every run.
THEOREM Invariance == Spec => []IInv
  BY InitInv, NextInv, PTL DEF Spec

-----------------------------------------------------------------------------
\* The type invariant.
THEOREM TypeCorrect == Spec => []TypeOK
  <1>1. IInv => TypeOK
    BY DEF IInv
  <1> QED BY <1>1, Invariance, PTL

\* No request is answered with a right that the access lists of the inode and of
\* its directories do not give to the user or the group that asks, however the
\* threads' climbs interleave and whatever they left in the maps.
THEOREM NoRightFromNowhere == Spec => []RightsWereGiven
  <1>1. IInv => RightsWereGiven
    BY DEF IInv
  <1> QED BY <1>1, Invariance, PTL

\* A request that climbs itself is answered with all the documented rights, while
\* other threads change the maps that it reads.
THEOREM PullersGetTheirRights == Spec => []PullerMissesNothing
  <1>1. IInv => PullerMissesNothing
    BY DEF IInv
  <1> QED BY <1>1, Invariance, PTL

\* A right that was granted stays in the maps.
THEOREM NoRightWithdrawn == Spec => []RightsAreKept
  <1>1. IInv => RightsAreKept
    BY DEF IInv
  <1> QED BY <1>1, Invariance, PTL

\* A list of the configuration resets what directories further up cascade.
Resets == \/ \E i \in Inodes, u \in Uids : "reset" \in UidConfig[i][u]
          \/ \E i \in Inodes, g \in Gids : "reset" \in GidConfig[i][g]

\* Without a reset, a request that climbs itself is answered with the documented
\* rights exactly: only a reset makes the climb differ from README.md.
THEOREM ExactWithoutResets ==
    Spec => [](~Resets => \A r \in Answered :
                  r.pulled => r.rights = Documented(r.inode, r.uid, r.gid))
  <1> DEFINE Exact == ~Resets => \A r \in Answered :
                        r.pulled => r.rights = Documented(r.inode, r.uid, r.gid)
  <1>1. IInv => Exact
    <2> SUFFICES ASSUME IInv, ~Resets, NEW r \in Answered, r.pulled
                 PROVE  r.rights = Documented(r.inode, r.uid, r.gid)
      OBVIOUS
    <2>1. /\ r \in Request
          /\ r.rights \subseteq GivenTo(UidConfig, r.inode, r.uid)
                                 \cup GivenTo(GidConfig, r.inode, r.gid)
          /\ Documented(r.inode, r.uid, r.gid) \subseteq r.rights
      BY DEF IInv, TypeOK, Answered, RightsWereGiven, PullerMissesNothing
    <2>2. r.inode \in Inodes /\ r.uid \in Uids /\ r.gid \in Gids
      BY <2>1 DEF Request
    <2>3. ASSUME NEW d \in Directories[r.inode]
          PROVE  /\ ~CutOff(UidConfig, d, r.inode, r.uid)
                 /\ ~CutOff(GidConfig, d, r.inode, r.gid)
      BY <2>2, DirectoriesType DEF CutOff, Resets
    <2>4. /\ GivenTo(UidConfig, r.inode, r.uid)
              = (UidConfig[r.inode][r.uid] \cap Rights)
                  \cup Inherited(UidConfig, r.inode, r.uid)
          /\ GivenTo(GidConfig, r.inode, r.gid)
              = (GidConfig[r.inode][r.gid] \cap Rights)
                  \cup Inherited(GidConfig, r.inode, r.gid)
      <3>1. /\ {d \in Directories[r.inode] : ~CutOff(UidConfig, d, r.inode, r.uid)}
               = Directories[r.inode]
            /\ {d \in Directories[r.inode] : ~CutOff(GidConfig, d, r.inode, r.gid)}
               = Directories[r.inode]
        BY <2>3
      <3> QED BY <3>1 DEF GivenTo, Inherited
    <2>5. GivenTo(UidConfig, r.inode, r.uid) \cup GivenTo(GidConfig, r.inode, r.gid)
            \subseteq Documented(r.inode, r.uid, r.gid)
      BY <2>4 DEF Documented
    <2> QED BY <2>1, <2>5
  <1> QED BY <1>1, Invariance, PTL

-----------------------------------------------------------------------------
(***************************************************************************)
(* Induction over the natural numbers.                                     *)
(***************************************************************************)

\* Every set of natural numbers has a least element: 0..n is a smaller set for a
\* smaller n.
LEMMA Least ==
    ASSUME NEW T \in SUBSET Nat, T # {}
    PROVE  \E n \in T : \A m \in T : n <= m
  <1> DEFINE R == StrictSubsetOrdering(Nat)
             F == FiniteSubsetsOf(Nat)
             W == {0..n : n \in T}
  <1>1. IsWellFoundedOn(R, F)
    BY FS_StrictSubsetOrderingWellFounded
  <1>2. W \subseteq F /\ W # {}
    <2>1. ASSUME NEW n \in T PROVE 0..n \in F
      <3>1. 0..n \in SUBSET Nat
        OBVIOUS
      <3>2. IsFiniteSet(0..n)
        BY FS_Interval
      <3> QED BY <3>1, <3>2 DEF FiniteSubsetsOf
    <2> QED BY <2>1
  <1>3. PICK w \in W : \A v \in W : <<v, w>> \notin R
    <2> HIDE DEF R, F, W
    <2> QED BY <1>1, <1>2, WFMin
  <1>4. PICK n \in T : w = 0..n
    OBVIOUS
  <1>5. ASSUME NEW m \in T, m < n PROVE FALSE
    <2>1. 0..m \in SUBSET Nat /\ 0..n \in SUBSET Nat /\ 0..m \subseteq 0..n
      BY <1>5
    <2>2. n \in 0..n /\ n \notin 0..m
      BY <1>5
    <2>3. <<0..m, 0..n>> \in R
      BY <2>1, <2>2 DEF StrictSubsetOrdering
    <2> QED BY <1>3, <1>4, <2>3
  <1> QED BY <1>5

\* A set with 0 that has the successor of each of its members has all numbers.
LEMMA Induction ==
    ASSUME NEW S \in SUBSET Nat, 0 \in S, \A n \in S : n + 1 \in S
    PROVE  S = Nat
  <1> SUFFICES ASSUME Nat \ S # {} PROVE FALSE
    <2>1. S \subseteq Nat
      OBVIOUS
    <2> QED BY <2>1, Zenon
  <1>1. PICK n \in Nat \ S : \A m \in Nat \ S : n <= m
    BY Least
  <1>2. n # 0 /\ n - 1 \in Nat
    BY <1>1
  <1>3. n - 1 \in S
    BY <1>1, <1>2
  <1> QED BY <1>1, <1>2, <1>3

-----------------------------------------------------------------------------
(***************************************************************************)
(* Where the entries of a listing end.                                     *)
(***************************************************************************)

\* The recursion of Ends has a solution.
LEMMA EndsExists ==
    ASSUME NEW listing, NEW len \in Nat
    PROVE  \E f : f = [k \in 0..len |->
             IF k = 0 THEN 0 ELSE f[k - 1] + DirentSize[listing[k].name]]
  <1> DEFINE w(k) == DirentSize[listing[k].name]
             Solves(f, n) == f = [k \in 0..n |-> IF k = 0 THEN 0 ELSE f[k - 1] + w(k)]
             S == {n \in Nat : \E f : Solves(f, n)}
  <1>1. 0 \in S
    <2> DEFINE f == [k \in 0..0 |-> 0]
    <2>1. Solves(f, 0)
      OBVIOUS
    <2> QED BY <2>1
  <1>2. ASSUME NEW n \in S PROVE n + 1 \in S
    <2>1. PICK f : Solves(f, n)
      BY <1>2
    <2> HIDE DEF w
    <2> DEFINE g == [k \in 0..(n + 1) |-> IF k = n + 1 THEN f[n] + w(n + 1) ELSE f[k]]
    <2>2. n \in Nat
      BY <1>2
    <2>3. ASSUME NEW k \in 0..(n + 1)
          PROVE  g[k] = IF k = 0 THEN 0 ELSE g[k - 1] + w(k)
      <3>1. CASE k = 0
        <4>1. 0 \in 0..n /\ 0 # n + 1
          BY <2>2
        <4>2. f[0] = 0
          BY <2>1, <4>1
        <4> QED BY <3>1, <4>1, <4>2
      <3>2. CASE k \in 1..n
        <4>1. k \in 0..n /\ k # 0 /\ k # n + 1 /\ k - 1 \in 0..(n + 1) /\ k - 1 # n + 1
          BY <2>2, <3>2
        <4>2. f[k] = f[k - 1] + w(k)
          BY <2>1, <4>1
        <4> QED BY <4>1, <4>2
      <3>3. CASE k = n + 1
        <4>1. k # 0 /\ k - 1 = n /\ n \in 0..(n + 1) /\ n # n + 1
          BY <2>2, <3>3
        <4> QED BY <3>3, <4>1
      <3>4. k = 0 \/ k \in 1..n \/ k = n + 1
        BY <2>2
      <3> QED BY <3>1, <3>2, <3>3, <3>4
    <2>4. g = [k \in 0..(n + 1) |-> g[k]]
      OBVIOUS
    <2> HIDE DEF g
    <2>5. Solves(g, n + 1)
      BY <2>3, <2>4
    <2> QED BY <2>2, <2>5
  <1> HIDE DEF S
  <1>3. S = Nat
    <2>1. S \in SUBSET Nat
      BY DEF S
    <2> QED BY <1>1, <1>2, <2>1, Induction
  <1>4. len \in S
    BY <1>3
  <1> QED BY <1>4 DEF S

\* An entry ends where the one before ends, and its own size further on.
LEMMA EndsStep ==
    ASSUME NEW listing, Len(listing) \in Nat
    PROVE  /\ End(listing, 0) = 0
           /\ \A k \in 1..Len(listing) :
                End(listing, k) = End(listing, k - 1) + DirentSize[listing[k].name]
  <1> DEFINE len == Len(listing)
             Solves(f) == f = [k \in 0..len |->
               IF k = 0 THEN 0 ELSE f[k - 1] + DirentSize[listing[k].name]]
  <1>1. \E f : Solves(f)
    BY EndsExists
  <1>2. Ends(listing) = CHOOSE f : Solves(f)
    BY DEF Ends
  <1>3. Solves(Ends(listing))
    BY <1>1, <1>2
  <1>4. ASSUME NEW k \in 0..len
        PROVE  Ends(listing)[k] = IF k = 0 THEN 0
                 ELSE Ends(listing)[k - 1] + DirentSize[listing[k].name]
    BY <1>3
  <1> QED BY <1>4 DEF End

\* What do_readdir lists are records with a name that has a size.
Dirents == [name : DirentNames, ino : Inodes]

\* Entries end one after the other.
LEMMA EndsGrow ==
    ASSUME NEW listing \in Seq(Dirents)
    PROVE  \A k \in 0..Len(listing) :
             /\ End(listing, k) \in Nat
             /\ \A j \in 0..(k - 1) : End(listing, j) < End(listing, k)
  <1> DEFINE len == Len(listing)
             Good(k) == k \in 0..len =>
               \A j \in 0..k : /\ End(listing, j) \in Nat
                               /\ j # k => End(listing, j) < End(listing, k)
             S == {k \in Nat : Good(k)}
  <1>1. len \in Nat
    OBVIOUS
  <1>2. \A k \in 1..len : DirentSize[listing[k].name] \in Nat \ {0}
    <2>1. \A k \in 1..len : listing[k] \in Dirents
      BY ElementOfSeq
    <2> QED BY <2>1, ListingAssumption DEF Dirents
  <1>3. /\ End(listing, 0) = 0
        /\ \A k \in 1..len :
             End(listing, k) = End(listing, k - 1) + DirentSize[listing[k].name]
    BY <1>1, EndsStep
  <1> HIDE DEF len
  <1>4. 0 \in S
    BY <1>3
  <1>5. ASSUME NEW k \in S PROVE k + 1 \in S
    <2>1. k \in Nat /\ Good(k)
      BY <1>5
    <2>2. SUFFICES ASSUME k + 1 \in 0..len, NEW j \in 0..(k + 1)
                   PROVE  /\ End(listing, j) \in Nat
                          /\ j # k + 1 => End(listing, j) < End(listing, k + 1)
      BY <2>1
    <2>3. k \in 0..len /\ k + 1 \in 1..len /\ (k + 1) - 1 = k
      BY <1>1, <2>1, <2>2
    <2>4. End(listing, k + 1) = End(listing, k) + DirentSize[listing[k + 1].name]
      BY <1>3, <2>3
    <2>5. DirentSize[listing[k + 1].name] \in Nat \ {0} /\ End(listing, k) \in Nat
      BY <1>2, <2>1, <2>3
    <2>6. End(listing, k + 1) \in Nat /\ End(listing, k) < End(listing, k + 1)
      BY <2>4, <2>5
    <2>7. CASE j = k + 1
      BY <2>6, <2>7
    <2>8. CASE j # k + 1
      <3>1. j \in 0..k
        BY <2>1, <2>8
      <3>2. /\ End(listing, j) \in Nat
            /\ j # k => End(listing, j) < End(listing, k)
        BY <2>1, <2>3, <3>1
      <3> QED BY <2>5, <2>6, <3>2
    <2> QED BY <2>7, <2>8
  <1> HIDE DEF S
  <1>6. S = Nat
    <2>1. S \in SUBSET Nat
      BY DEF S
    <2> QED BY <1>4, <1>5, <2>1, Induction
  <1>7. ASSUME NEW k \in 0..len
        PROVE  /\ End(listing, k) \in Nat
               /\ \A j \in 0..(k - 1) : End(listing, j) < End(listing, k)
    <2>1. k \in Nat /\ k \in S
      BY <1>1, <1>6
    <2> QED BY <2>1 DEF S
  <1> QED BY <1>7 DEF len

\* What a reply completes are the entries that come next, at least one while
\* there are any.
LEMMA CompleteIsNext ==
    ASSUME NEW listing \in Seq(Dirents), NEW n \in 0..Len(listing),
           NEW bytes \in DirRooms
    PROVE  LET taken == Complete(listing, End(listing, n), bytes)
           IN  /\ taken = {} => n = Len(listing)
               /\ taken # {} => /\ Min(taken) = n + 1
                                /\ Max(taken) \in (n + 1)..Len(listing)
  <1> DEFINE len == Len(listing)
             off == End(listing, n)
             taken == Complete(listing, off, bytes)
             end(k) == End(listing, k)
  <1>1. len \in Nat /\ DOMAIN listing = 1..len
    OBVIOUS
  <1>2. \A k \in 0..len : end(k) \in Nat /\ \A j \in 0..(k - 1) : end(j) < end(k)
    BY EndsGrow
  <1>3. bytes \in Nat
    BY RoomAssumption
  <1>4. \A k \in 1..len : end(k) = end(k - 1) + DirentSize[listing[k].name]
    BY <1>1, EndsStep
  <1>5. \A k \in 1..len : DirentSize[listing[k].name] <= bytes
    <2>1. \A k \in 1..len : listing[k] \in Dirents
      BY ElementOfSeq
    <2> QED BY <2>1, RoomAssumption DEF Dirents
  <1>6. taken = {k \in 1..len : off <= end(k - 1) /\ end(k) <= off + bytes}
    BY <1>1 DEF Complete
  <1>7. off = end(n)
    OBVIOUS
  <1>8. n \in 0..len
    OBVIOUS
  <1> HIDE DEF len, off, taken, end
  <1>9. ASSUME NEW k \in taken PROVE k \in (n + 1)..len
    <2>1. k \in 1..len /\ end(n) <= end(k - 1) /\ k - 1 \in 0..len
      BY <1>1, <1>6, <1>7
    <2>2. ~(k - 1 < n)
      <3> SUFFICES ASSUME k - 1 < n PROVE FALSE
        OBVIOUS
      <3>1. k - 1 \in 0..(n - 1)
        BY <1>1, <1>8, <2>1
      <3>2. end(k - 1) < end(n) /\ end(n) \in Nat /\ end(k - 1) \in Nat
        BY <1>2, <1>8, <2>1, <3>1
      <3> QED BY <2>1, <3>2
    <2> QED BY <1>1, <1>8, <2>1, <2>2
  <1>10. ASSUME NEW k \in taken PROVE n + 1 \in taken
    <2>1. k \in (n + 1)..len /\ end(k) <= off + bytes
      BY <1>6, <1>9
    <2>2. n + 1 \in 1..len /\ n + 1 \in 0..len /\ (n + 1) - 1 = n /\ k \in 0..len
      BY <1>1, <1>8, <2>1
    <2>3. end(n) \in Nat /\ end(n + 1) \in Nat /\ end(k) \in Nat
      BY <1>2, <1>8, <2>2
    <2>4. end(n + 1) <= end(k)
      <3>1. CASE k = n + 1
        BY <2>3, <3>1
      <3>2. CASE k # n + 1
        <4>1. n + 1 \in 0..(k - 1)
          BY <1>1, <1>8, <2>1, <3>2
        <4>2. end(n + 1) < end(k)
          BY <1>2, <2>2, <4>1
        <4> QED BY <2>3, <4>2
      <3> QED BY <3>1, <3>2
    <2>5. end(n + 1) <= off + bytes
      BY <1>3, <1>7, <2>1, <2>3, <2>4
    <2>6. off <= end((n + 1) - 1)
      BY <1>7, <2>2, <2>3
    <2> QED BY <1>6, <2>2, <2>5, <2>6
  <1>11. ASSUME n # len PROVE taken # {}
    <2>1. n + 1 \in 1..len /\ (n + 1) - 1 = n
      BY <1>1, <1>8, <1>11
    <2>2. end(n) \in Nat
      BY <1>2, <1>8
    <2>3. DirentSize[listing[n + 1].name] \in Nat
      <3>1. listing[n + 1] \in Dirents
        BY <2>1, ElementOfSeq DEF len
      <3> QED BY <3>1, ListingAssumption DEF Dirents
    <2>4. end(n + 1) <= off + bytes
      BY <1>3, <1>4, <1>5, <1>7, <2>1, <2>2, <2>3
    <2>5. off <= end((n + 1) - 1)
      BY <1>7, <2>1, <2>2
    <2> QED BY <1>6, <2>1, <2>4, <2>5
  <1>12. ASSUME taken # {} PROVE Min(taken) = n + 1
    <2>1. n + 1 \in taken
      BY <1>10, <1>12
    <2>2. \A k \in taken : n + 1 <= k /\ k \in Int
      BY <1>1, <1>8, <1>9
    <2>3. \E x \in taken : \A y \in taken : x <= y
      BY <2>1, <2>2
    <2>4. Min(taken) \in taken /\ \A y \in taken : Min(taken) <= y
      BY <2>3 DEF Min
    <2> QED BY <1>8, <2>1, <2>2, <2>4
  <1>13. ASSUME taken # {} PROVE Max(taken) \in (n + 1)..len
    <2> DEFINE T == {len - k : k \in taken}
    <2>1. T \in SUBSET Nat /\ T # {}
      <3>1. \A k \in taken : len - k \in Nat
        BY <1>1, <1>8, <1>9
      <3> QED BY <1>13, <3>1
    <2>2. PICK m \in T : \A y \in T : m <= y
      <3> HIDE DEF T
      <3> QED BY <2>1, Least
    <2>3. PICK x \in taken : m = len - x
      OBVIOUS
    <2>4. \A y \in taken : x >= y
      <3> SUFFICES ASSUME NEW y \in taken PROVE x >= y
        OBVIOUS
      <3>1. len - x <= len - y
        BY <2>2, <2>3
      <3>2. x \in Int /\ y \in Int
        BY <1>9
      <3> QED BY <1>1, <3>1, <3>2
    <2>5. Max(taken) \in taken
      BY <2>4 DEF Max
    <2> QED BY <1>9, <2>5
  <1> QED BY <1>11, <1>12, <1>13 DEF len, off, taken

-----------------------------------------------------------------------------
(***************************************************************************)
(* The order of the entries.                                               *)
(***************************************************************************)

\* The entries of a directory are finitely many inodes with different names.
LEMMA EntriesFacts ==
    ASSUME NEW d \in Inodes \ Files
    PROVE  /\ EntriesOf(d) \subseteq Inodes \ {Root}
           /\ IsFiniteSet(EntriesOf(d))
           /\ \A i, j \in EntriesOf(d) : Name[i] = Name[j] => i = j
  <1>1. Entries[d] \in Seq(Inodes \ {Root})
    BY ListingAssumption
  <1> DEFINE n == Len(Entries[d])
             K == {k \in 1..n : \A j \in 1..(k - 1) :
                     Name[Entries[d][j]] # Name[Entries[d][k]]}
  <1>2. n \in Nat /\ DOMAIN Entries[d] = 1..n
    BY <1>1
  <1>3. EntriesOf(d) = {Entries[d][k] : k \in K}
    BY <1>2 DEF EntriesOf
  <1>4. IsFiniteSet(EntriesOf(d))
    <2>1. IsFiniteSet(1..n) /\ K \subseteq 1..n
      BY <1>2, FS_Interval
    <2>2. IsFiniteSet(K)
      BY <2>1, FS_Subset
    <2>3. [k \in K |-> Entries[d][k]] \in Surjection(K, EntriesOf(d))
      <3> HIDE DEF K
      <3> QED BY <1>3 DEF Surjection
    <2> HIDE DEF K
    <2> QED BY <2>2, <2>3, FS_Surjection
  <1>5. EntriesOf(d) \subseteq Inodes \ {Root}
    BY <1>1, <1>3, ElementOfSeq
  <1>6. ASSUME NEW i \in EntriesOf(d), NEW j \in EntriesOf(d), Name[i] = Name[j]
        PROVE  i = j
    <2>1. PICK k \in K : i = Entries[d][k]
      BY <1>3
    <2>2. PICK m \in K : j = Entries[d][m]
      BY <1>3
    <2>3. ~(k < m) /\ ~(m < k)
      <3>1. k \in 1..n /\ m \in 1..n
        OBVIOUS
      <3>2. ASSUME k < m PROVE FALSE
        <4>1. k \in 1..(m - 1)
          BY <1>2, <3>1, <3>2
        <4> QED BY <1>6, <2>1, <2>2, <4>1
      <3>3. ASSUME m < k PROVE FALSE
        <4>1. m \in 1..(k - 1)
          BY <1>2, <3>1, <3>3
        <4> QED BY <1>6, <2>1, <2>2, <4>1
      <3> QED BY <3>2, <3>3
    <2>4. k = m
      BY <1>2, <2>3
    <2> QED BY <2>1, <2>2, <2>4
  <1> QED BY <1>4, <1>5, <1>6

\* The entries before an entry.
Before(entries, i) == {j \in entries : Name[j] < Name[i]}

\* For every place there is just one entry with that many before it.
LEMMA RankIsPlace ==
    ASSUME NEW entries \in SUBSET (Inodes \ {Root}), IsFiniteSet(entries),
           \A i, j \in entries : Name[i] = Name[j] => i = j
    PROVE  /\ Cardinality(entries) \in Nat
           /\ \A i \in entries :
                Cardinality(Before(entries, i)) \in 0..(Cardinality(entries) - 1)
           /\ \A i, j \in entries :
                Cardinality(Before(entries, i)) = Cardinality(Before(entries, j))
                  => i = j
           /\ \A k \in 0..(Cardinality(entries) - 1) :
                \E i \in entries : Cardinality(Before(entries, i)) = k
  <1> DEFINE n == Cardinality(entries)
             rank == [i \in entries |-> Cardinality(Before(entries, i))]
  <1>1. n \in Nat
    BY FS_CardinalityType
  <1>2. \A i \in entries : Name[i] \in Nat
    BY ListingAssumption
  <1>3. ASSUME NEW i \in entries, NEW more \in SUBSET (entries \ {i})
        PROVE  /\ IsFiniteSet(more) /\ Cardinality(more) \in Nat
               /\ Cardinality(more) < n
    <2>1. IsFiniteSet(entries \ {i}) /\ Cardinality(entries \ {i}) = n - 1
      BY FS_RemoveElement
    <2>2. IsFiniteSet(more) /\ Cardinality(more) <= Cardinality(entries \ {i})
      BY <2>1, FS_Subset
    <2>3. Cardinality(more) \in Nat
      BY <2>2, FS_CardinalityType
    <2> QED BY <1>1, <2>1, <2>2, <2>3
  <1>4. ASSUME NEW i \in entries
        PROVE  /\ IsFiniteSet(Before(entries, i))
               /\ Cardinality(Before(entries, i)) \in 0..(n - 1)
    <2>1. Before(entries, i) \in SUBSET (entries \ {i})
      BY <1>2 DEF Before
    <2> HIDE DEF n
    <2> QED BY <1>1, <1>3, <2>1
  <1>5. ASSUME NEW i \in entries, NEW j \in entries, Name[i] < Name[j]
        PROVE  Cardinality(Before(entries, i)) < Cardinality(Before(entries, j))
    <2>1. i \in Before(entries, j)
      BY <1>5 DEF Before
    <2>2. Before(entries, i) \in SUBSET (Before(entries, j) \ {i})
      BY <1>2, <1>5 DEF Before
    <2>3. /\ IsFiniteSet(Before(entries, j) \ {i})
          /\ Cardinality(Before(entries, j) \ {i})
               = Cardinality(Before(entries, j)) - 1
      BY <1>4, <2>1, FS_RemoveElement
    <2>4. Cardinality(Before(entries, i)) <= Cardinality(Before(entries, j) \ {i})
      BY <2>2, <2>3, FS_Subset
    <2>5. /\ Cardinality(Before(entries, i)) \in Nat
          /\ Cardinality(Before(entries, j)) \in Nat
      BY <1>1, <1>4
    <2> QED BY <2>3, <2>4, <2>5
  <1>6. ASSUME NEW i \in entries, NEW j \in entries,
               Cardinality(Before(entries, i)) = Cardinality(Before(entries, j))
        PROVE  i = j
    <2>1. /\ Cardinality(Before(entries, i)) \in Nat
          /\ Cardinality(Before(entries, j)) \in Nat
      BY <1>1, <1>4
    <2>2. ~(Name[i] < Name[j]) /\ ~(Name[j] < Name[i])
      BY <1>5, <1>6, <2>1
    <2> QED BY <1>2, <2>2
  <1>7. rank \in Injection(entries, 0..(n - 1))
    <2> HIDE DEF n
    <2> QED BY <1>4, <1>6 DEF Injection, IsInjective
  <1>8. IsFiniteSet(0..(n - 1)) /\ Cardinality(0..(n - 1)) = n
    <2> HIDE DEF n
    <2>1. /\ IsFiniteSet(0..(n - 1))
          /\ Cardinality(0..(n - 1)) = IF 0 > n - 1 THEN 0 ELSE (n - 1) - 0 + 1
      BY <1>1, FS_Interval
    <2> QED BY <1>1, <2>1
  <1>9. rank \in Surjection(entries, 0..(n - 1))
    <2> HIDE DEF rank
    <2> QED BY <1>7, <1>8, FS_Injection
  <1>10. \A k \in 0..(n - 1) : \E i \in entries : rank[i] = k
    <2> HIDE DEF n
    <2> QED BY <1>9 DEF Surjection
  <1> QED BY <1>1, <1>4, <1>6, <1>10

\* The sorted sequence has every entry of the directory once.
LEMMA SortedFacts ==
    ASSUME NEW d \in Inodes \ Files
    PROVE  LET entries == EntriesOf(d)
               n == Cardinality(entries)
           IN  /\ n \in Nat
               /\ Sorted(entries) \in [1..n -> entries]
               /\ \A j, k \in 1..n : Sorted(entries)[j] = Sorted(entries)[k] => j = k
               /\ \A i \in entries : \E k \in 1..n : Sorted(entries)[k] = i
  <1> DEFINE entries == EntriesOf(d)
             n == Cardinality(entries)
             rank(i) == Cardinality(Before(entries, i))
             Place(k) == CHOOSE i \in entries : rank(i) = k - 1
  <1>1. /\ n \in Nat
        /\ \A i \in entries : rank(i) \in 0..(n - 1)
        /\ \A i, j \in entries : rank(i) = rank(j) => i = j
        /\ \A k \in 0..(n - 1) : \E i \in entries : rank(i) = k
    BY EntriesFacts, RankIsPlace
  <1>2. Sorted(entries) = [k \in 1..n |-> Place(k)]
    BY DEF Sorted, Before
  <1> HIDE DEF entries, n, rank
  <1>3. ASSUME NEW k \in 1..n PROVE Place(k) \in entries /\ rank(Place(k)) = k - 1
    <2>1. k - 1 \in 0..(n - 1)
      BY <1>1
    <2>2. \E i \in entries : rank(i) = k - 1
      BY <1>1, <2>1
    <2> QED BY <2>2
  <1>4. ASSUME NEW i \in entries PROVE rank(i) + 1 \in 1..n /\ Place(rank(i) + 1) = i
    <2>1. rank(i) \in 0..(n - 1) /\ rank(i) + 1 \in 1..n
      BY <1>1
    <2>2. /\ Place(rank(i) + 1) \in entries
          /\ rank(Place(rank(i) + 1)) = (rank(i) + 1) - 1
      BY <1>3, <2>1
    <2>3. rank(Place(rank(i) + 1)) = rank(i)
      BY <2>1, <2>2
    <2> QED BY <1>1, <2>1, <2>2, <2>3
  <1>5. ASSUME NEW j \in 1..n, NEW k \in 1..n, Place(j) = Place(k) PROVE j = k
    BY <1>1, <1>3, <1>5
  <1> HIDE DEF Place
  <1>6. Sorted(entries) \in [1..n -> entries]
    BY <1>2, <1>3
  <1>7. \A j, k \in 1..n : Sorted(entries)[j] = Sorted(entries)[k] => j = k
    BY <1>2, <1>5
  <1>8. \A i \in entries : \E k \in 1..n : Sorted(entries)[k] = i
    BY <1>2, <1>4
  <1> QED BY <1>1, <1>6, <1>7, <1>8 DEF entries, n

\* A listing has the two dots and every entry of the directory, each once.
LEMMA ListingFacts ==
    ASSUME NEW d \in Inodes \ Files
    PROVE  LET list == Listing(d)
           IN  /\ list \in Seq(Dirents)
               /\ \A j, k \in 1..Len(list) : list[j].name = list[k].name => j = k
               /\ \A k \in 1..Len(list) : list[k].name \notin {Dot, DotDot} =>
                    /\ list[k].ino \in EntriesOf(d)
                    /\ list[k].name = Name[list[k].ino]
               /\ \A i \in EntriesOf(d) :
                    /\ Name[i] \notin {Dot, DotDot}
                    /\ \E k \in 1..Len(list) : list[k].name = Name[i]
  <1> DEFINE entries == EntriesOf(d)
             n == Cardinality(entries)
             sorted == Sorted(entries)
             dots == <<[name |-> Dot, ino |-> d],
                       [name |-> DotDot, ino |-> IF d = Root THEN Root ELSE Parent[d]]>>
             rest == [k \in 1..n |-> [name |-> Name[sorted[k]], ino |-> sorted[k]]]
             list == dots \o rest
  <1>1. /\ n \in Nat /\ sorted \in [1..n -> entries]
        /\ \A j, k \in 1..n : sorted[j] = sorted[k] => j = k
        /\ \A i \in entries : \E k \in 1..n : sorted[k] = i
    BY SortedFacts
  <1>2. /\ entries \subseteq Inodes \ {Root}
        /\ \A i, j \in entries : Name[i] = Name[j] => i = j
    BY EntriesFacts
  <1>3. Listing(d) = list
    <2>1. DOMAIN sorted = 1..n
      BY <1>1
    <2> HIDE DEF n
    <2> QED BY <2>1 DEF Listing
  <1>4. \A i \in entries : /\ Name[i] \in Nat /\ Name[i] \notin {Dot, DotDot}
                           /\ Name[i] \in DirentNames
    BY <1>2, ListingAssumption DEF Dot, DotDot, DirentNames
  <1>5. dots \in Seq(Dirents) /\ Len(dots) = 2 /\ dots[1].name = Dot /\ dots[2].name = DotDot
    <2>1. d \in Inodes /\ (IF d = Root THEN Root ELSE Parent[d]) \in Inodes
      BY TreeAssumption
    <2>2. Dot \in DirentNames /\ DotDot \in DirentNames
      BY DEF DirentNames
    <2>3. dots[1] \in Dirents /\ dots[2] \in Dirents
      BY <2>1, <2>2 DEF Dirents
    <2> QED BY <2>3
  <1> HIDE DEF entries, n, sorted
  <1>6. ASSUME NEW k \in 1..n
        PROVE  /\ sorted[k] \in entries
               /\ rest[k] = [name |-> Name[sorted[k]], ino |-> sorted[k]]
               /\ rest[k] \in Dirents
    <2>1. sorted[k] \in entries
      BY <1>1
    <2> QED BY <1>2, <1>4, <2>1 DEF Dirents
  <1>7. rest \in Seq(Dirents) /\ Len(rest) = n
    BY <1>1, <1>6
  <1> HIDE DEF dots, rest
  <1>8. /\ list \in Seq(Dirents)
        /\ Len(list) = Len(dots) + Len(rest)
        /\ \A k \in 1..(Len(dots) + Len(rest)) :
             list[k] = IF k <= Len(dots) THEN dots[k] ELSE rest[k - Len(dots)]
    BY <1>5, <1>7, ConcatProperties, Zenon
  <1> HIDE DEF list
  <1>9. Len(list) = n + 2
    BY <1>1, <1>5, <1>7, <1>8
  <1>10. list[1].name = Dot /\ list[2].name = DotDot
    <2>1. 1 \in 1..(n + 2) /\ 2 \in 1..(n + 2) /\ 1 <= 2 /\ 2 <= 2
      BY <1>1
    <2> QED BY <1>5, <1>7, <1>8, <2>1
  <1>11. ASSUME NEW k \in 1..n
         PROVE  /\ k + 2 \in 1..Len(list)
                /\ list[k + 2].name = Name[sorted[k]]
                /\ list[k + 2].ino = sorted[k]
    <2>1. k + 2 \in 1..(2 + n) /\ ~(k + 2 <= 2) /\ (k + 2) - 2 = k
      BY <1>1
    <2>2. list[k + 2] = rest[k]
      BY <1>5, <1>7, <1>8, <2>1
    <2>3. k + 2 \in 1..Len(list)
      BY <1>1, <1>9
    <2>4. rest[k].name = Name[sorted[k]] /\ rest[k].ino = sorted[k]
      <3>1. rest[k] = [name |-> Name[sorted[k]], ino |-> sorted[k]]
        BY <1>6
      <3> QED BY <3>1
    <2> QED BY <2>2, <2>3, <2>4
  <1>12. ASSUME NEW k \in 1..Len(list)
         PROVE  \/ k = 1 \/ k = 2
                \/ k - 2 \in 1..n /\ (k - 2) + 2 = k
    BY <1>1, <1>9
  <1>13. ASSUME NEW k \in 1..Len(list), list[k].name \notin {Dot, DotDot}
         PROVE  list[k].ino \in entries /\ list[k].name = Name[list[k].ino]
    <2>1. k # 1 /\ k # 2
      BY <1>10, <1>13
    <2>2. PICK m \in 1..n : k = m + 2
      BY <1>12, <2>1
    <2>3. sorted[m] \in entries
      BY <1>6
    <2>4. list[k].name = Name[sorted[m]] /\ list[k].ino = sorted[m]
      BY <1>11, <2>2
    <2> QED BY <2>3, <2>4
  <1>14. ASSUME NEW j \in 1..Len(list), NEW k \in 1..Len(list),
                list[j].name = list[k].name
         PROVE  j = k
    <2>1. ASSUME NEW m \in 1..n
          PROVE  /\ list[m + 2].name \notin {Dot, DotDot}
                 /\ sorted[m] \in entries /\ list[m + 2].name = Name[sorted[m]]
      BY <1>4, <1>6, <1>11
    <2>2. Dot # DotDot
      BY DEF Dot, DotDot
    <2>3. ASSUME NEW m \in 1..Len(list), NEW l \in 1..Len(list),
                 list[m].name = list[l].name, m = 1 \/ m = 2
          PROVE  m = l
      <3>1. list[m].name = IF m = 1 THEN Dot ELSE DotDot
        BY <1>10, <2>3
      <3>2. CASE l = 1 \/ l = 2
        BY <1>10, <2>2, <2>3, <3>1, <3>2
      <3>3. CASE ~(l = 1 \/ l = 2)
        <4>1. l - 2 \in 1..n /\ (l - 2) + 2 = l
          BY <1>12, <3>3
        <4>2. list[l].name \notin {Dot, DotDot}
          BY <2>1, <4>1
        <4> QED BY <2>3, <3>1, <4>2
      <3> QED BY <3>2, <3>3
    <2>4. CASE j = 1 \/ j = 2 \/ k = 1 \/ k = 2
      BY <1>14, <2>4, <2>3
    <2>5. CASE ~(j = 1 \/ j = 2 \/ k = 1 \/ k = 2)
      <3>1. /\ j - 2 \in 1..n /\ (j - 2) + 2 = j
            /\ k - 2 \in 1..n /\ (k - 2) + 2 = k
        BY <1>12, <2>5
      <3>2. Name[sorted[j - 2]] = Name[sorted[k - 2]]
        BY <1>14, <2>1, <3>1
      <3>3. sorted[j - 2] = sorted[k - 2]
        BY <1>2, <2>1, <3>1, <3>2
      <3>4. j - 2 = k - 2
        BY <1>1, <3>1, <3>3
      <3> QED BY <3>1, <3>4
    <2> QED BY <2>4, <2>5
  <1>15. ASSUME NEW i \in entries
         PROVE  \E k \in 1..Len(list) : list[k].name = Name[i]
    BY <1>1, <1>11
  <1> QED BY <1>3, <1>4, <1>8, <1>13, <1>14, <1>15 DEF entries

-----------------------------------------------------------------------------
(***************************************************************************)
(* Listings.                                                               *)
(***************************************************************************)

\* What the kernel has is the beginning of the listing, and all of it when the
\* last reply was empty: so are the request and the entries of one thread.
ListGood(r, entries) ==
    /\ r.phase = "list" => r.op = Readdir /\ r.inode \notin Files
    /\ r.op = Readdir => r.phase \in {"list", "done"}
    /\ r.op = Readdir /\ r.inode \notin Files =>
         /\ entries \in Seq(Dirents)
         /\ Len(entries) <= Len(Listing(r.inode))
         /\ \A k \in 1..Len(entries) : entries[k] = Listing(r.inode)[k]
         /\ r.phase = "done" => Len(entries) = Len(Listing(r.inode))

ListInv == \A t \in Threads : ListGood(request[t], listed[t])

\* No thread lists anything at first.
LEMMA InitListInv == Init => ListInv
  <1> SUFFICES ASSUME Init, NEW t \in Threads
               PROVE  ListGood(request[t], listed[t])
    BY DEF ListInv
  <1>1. PICK u \in Uids, g \in Gids :
          request[t] = NewRequest(Root, u, g, Stat, "idle", "none")
    BY DEF Init
  <1>2. request[t].phase = "idle" /\ request[t].op = Stat
    BY <1>1 DEF NewRequest
  <1> QED BY <1>2 DEF ListGood, Stat, Readdir

\* A request that begins has nothing of the listing.
LEMMA NewRequestListGood ==
    ASSUME NEW i \in Inodes, NEW u, NEW g, NEW op, NEW phase, NEW reply,
           \/ op = Readdir /\ i \notin Files /\ phase = "list"
           \/ op = Readdir /\ i \in Files /\ phase = "done"
           \/ op # Readdir /\ phase # "list"
    PROVE  ListGood(NewRequest(i, u, g, op, phase, reply), <<>>)
  <1> DEFINE r == NewRequest(i, u, g, op, phase, reply)
  <1>1. r.inode = i /\ r.op = op /\ r.phase = phase
    BY DEF NewRequest
  <1>2. i \notin Files => Len(Listing(i)) \in Nat
    BY ListingFacts, LenProperties
  <1>3. <<>> \in Seq(Dirents) /\ Len(<<>>) = 0
    OBVIOUS
  <1> HIDE DEF r
  <1>4. ASSUME op = Readdir /\ i \notin Files /\ phase = "list"
        PROVE  ListGood(r, <<>>)
    BY <1>1, <1>2, <1>3, <1>4 DEF ListGood
  <1>5. ASSUME op = Readdir /\ i \in Files /\ phase = "done"
        PROVE  ListGood(r, <<>>)
    BY <1>1, <1>5 DEF ListGood
  <1>6. ASSUME op # Readdir /\ phase # "list"
        PROVE  ListGood(r, <<>>)
    BY <1>1, <1>6 DEF ListGood
  <1>7. ListGood(r, <<>>)
    BY <1>4, <1>5, <1>6
  <1> QED BY <1>7 DEF r

\* A reply goes on where the last one ended.
LEMMA ListEntriesListGood ==
    ASSUME TypeOK, ListInv, NEW t \in Threads, ListEntries(t)
    PROVE  ListGood(request'[t], listed'[t])
  <1> DEFINE r == request[t]
             d == r.inode
             list == Listing(d)
             have == listed[t]
             n == Len(have)
             off == IF have = <<>> THEN 0 ELSE Offset(list, Len(have))
  <1>1. /\ r \in Request /\ request \in [Threads -> Request]
        /\ DOMAIN listed = Threads
        /\ r.phase = "list" /\ ListGood(r, have)
    BY DEF TypeOK, ListInv, ListEntries
  <1>2. r.op = Readdir /\ d \in Inodes \ Files
    BY <1>1 DEF ListGood, Request
  <1>3. /\ have \in Seq(Dirents) /\ n <= Len(list)
        /\ \A k \in 1..n : have[k] = list[k]
    BY <1>1, <1>2 DEF ListGood
  <1>4. list \in Seq(Dirents) /\ Len(list) \in Nat /\ n \in Nat
    BY <1>2, <1>3, ListingFacts, LenProperties
  <1>5. off = End(list, n)
    <2>1. CASE have = <<>>
      <3>1. n = 0
        BY <2>1
      <3> QED BY <1>4, <2>1, <3>1, EndsStep
    <2>2. CASE have # <<>>
      BY <2>2 DEF Offset
    <2> QED BY <2>1, <2>2
  <1>6. PICK bytes \in DirRooms :
          LET taken == Complete(list, off, bytes)
          IN  \/ /\ taken = {}
                 /\ request' = [request EXCEPT ![t].phase = "done",
                                               ![t].reply = "listing"]
                 /\ UNCHANGED listed
              \/ /\ taken # {}
                 /\ listed' = [listed EXCEPT ![t] =
                                 @ \o SubSeq(list, Min(taken), Max(taken))]
                 /\ UNCHANGED request
    BY DEF ListEntries
  <1> DEFINE taken == Complete(list, off, bytes)
  <1>7. /\ taken = {} => n = Len(list)
        /\ taken # {} => Min(taken) = n + 1 /\ Max(taken) \in (n + 1)..Len(list)
    <2>1. n \in 0..Len(list)
      BY <1>3, <1>4
    <2> HIDE DEF list, n, off
    <2> QED BY <1>4, <1>5, <2>1, CompleteIsNext
  <1> HIDE DEF taken, off, list, have
  <1>8. CASE taken = {}
    <2> DEFINE new == [r EXCEPT !.phase = "done", !.reply = "listing"]
    <2>1. request'[t] = new /\ listed' = listed
      BY <1>1, <1>6, <1>8 DEF taken
    <2>2. new.phase = "done" /\ new.op = r.op /\ new.inode = d
      BY <1>1 DEF Request
    <2> HIDE DEF new
    <2> QED BY <1>2, <1>3, <1>7, <1>8, <2>1, <2>2 DEF ListGood, list, have
  <1>9. CASE taken # {}
    <2> DEFINE m == Max(taken)
               more == SubSeq(list, n + 1, m)
    <2>1. m \in (n + 1)..Len(list)
      BY <1>7, <1>9
    <2>2. listed'[t] = have \o more /\ request' = request
      BY <1>1, <1>6, <1>7, <1>9 DEF taken, have
    <2> HIDE DEF m
    <2>3. m \in Int /\ n + 1 \in Int /\ n + 1 <= m /\ m - (n + 1) + 1 = m - n
      BY <1>4, <2>1
    <2>4. \A k \in (n + 1)..m : list[k] \in Dirents
      <3>1. \A k \in (n + 1)..m : k \in 1..Len(list)
        BY <1>4, <2>1
      <3> QED BY <1>4, <3>1, ElementOfSeq
    <2>5. /\ more \in Seq(Dirents)
          /\ Len(more) = m - n
          /\ \A k \in 1..(m - n) : more[k] = list[(n + 1) + k - 1]
      <3> HIDE DEF n
      <3> QED BY <2>3, <2>4, SubSeqProperties
    <2> HIDE DEF more
    <2>6. /\ have \o more \in Seq(Dirents)
          /\ Len(have \o more) = n + Len(more)
          /\ \A k \in 1..(n + Len(more)) :
               (have \o more)[k] = IF k <= n THEN have[k] ELSE more[k - n]
      BY <1>3, <2>5, ConcatProperties, Zenon
    <2>7. Len(have \o more) = m
      BY <1>4, <2>3, <2>5, <2>6
    <2>8. ASSUME NEW k \in 1..m PROVE (have \o more)[k] = list[k]
      <3>1. CASE k <= n
        <4>1. k \in 1..n /\ k \in 1..(n + Len(more))
          BY <1>4, <2>3, <2>5, <3>1
        <4> QED BY <1>3, <2>6, <3>1, <4>1
      <3>2. CASE ~(k <= n)
        <4>1. k - n \in 1..(m - n) /\ k \in 1..(n + Len(more))
              /\ (n + 1) + (k - n) - 1 = k
          BY <1>4, <2>3, <2>5, <3>2
        <4>2. (have \o more)[k] = more[k - n]
          BY <2>6, <3>2, <4>1
        <4>3. more[k - n] = list[(n + 1) + (k - n) - 1]
          BY <2>5, <4>1
        <4> QED BY <4>1, <4>2, <4>3
      <3> QED BY <3>1, <3>2
    <2>9. m <= Len(list)
      BY <1>4, <2>1
    <2> QED BY <1>1, <1>2, <2>2, <2>6, <2>7, <2>8, <2>9 DEF ListGood, list
  <1> QED BY <1>8, <1>9

\* Requests that do not list stay such, and others keep what they listed.
LEMMA ListNextInv == TypeOK /\ ListInv /\ [Next]_vars => ListInv'
  <1> SUFFICES ASSUME TypeOK, ListInv, [Next]_vars, NEW s \in Threads
               PROVE  ListGood(request'[s], listed'[s])
    BY DEF ListInv
  <1>1. /\ request \in [Threads -> Request] /\ DOMAIN listed = Threads
        /\ ListGood(request[s], listed[s])
    BY DEF TypeOK, ListInv
  <1> DEFINE Goal == ListGood(request'[s], listed'[s])
  <1>2. ASSUME NEW t \in Threads, NEW i \in Inodes, NEW u \in Uids, NEW g \in Gids,
               NEW op \in Flags \cup {Stat, Readdir}, Arrive(t, i, u, g, op)
        PROVE  Goal
    <2>1. CASE s # t
      BY <1>1, <1>2, <2>1 DEF Arrive
    <2>2. CASE s = t
      <3>1. listed'[s] = <<>>
        BY <1>1, <1>2, <2>2 DEF Arrive
      <3>2. "stat" # "readdir" /\ Flags = {"O_RDONLY", "O_WRONLY", "O_RDWR"}
            /\ Stat = "stat" /\ Readdir = "readdir"
        BY DEF Flags, Stat, Readdir
      <3>3. ASSUME NEW phase, NEW reply,
                   request' = [request EXCEPT
                                 ![t] = NewRequest(i, u, g, op, phase, reply)],
                   \/ op = Readdir /\ i \notin Files /\ phase = "list"
                   \/ op = Readdir /\ i \in Files /\ phase = "done"
                   \/ op # Readdir /\ phase # "list"
            PROVE  Goal
        <4>1. request'[s] = NewRequest(i, u, g, op, phase, reply)
          BY <1>1, <2>2, <3>3
        <4> QED BY <3>1, <3>3, <4>1, NewRequestListGood
      <3> HIDE DEF Goal
      <3>4. CASE op \in Flags /\ i \notin Files
        <4>1. request' = [request EXCEPT ![t] = NewRequest(i, u, g, op, "done", "EISDIR")]
          BY <1>2, <3>2, <3>4 DEF Arrive
        <4> QED BY <3>2, <3>3, <3>4, <4>1
      <3>5. CASE op = Readdir /\ i \in Files
        <4>1. request' = [request EXCEPT ![t] = NewRequest(i, u, g, op, "done", "ENOTDIR")]
          BY <1>2, <3>2, <3>5 DEF Arrive
        <4> QED BY <3>3, <3>5, <4>1
      <3>6. CASE op = Readdir /\ i \notin Files
        <4>1. request' = [request EXCEPT ![t] = NewRequest(i, u, g, op, "list", "none")]
          BY <1>2, <3>2, <3>6 DEF Arrive
        <4> QED BY <3>3, <3>6, <4>1
      <3>7. CASE op # Readdir /\ ~(op \in Flags /\ i \notin Files)
        <4>1. \/ request' = [request EXCEPT ![t] = NewRequest(i, u, g, op, "rights", "none")]
              \/ request' = [request EXCEPT ![t] = NewRequest(i, u, g, op, "uid", "none")]
          BY <1>2, <3>7 DEF Arrive
        <4> QED BY <3>3, <3>7, <4>1
      <3> QED BY <3>4, <3>5, <3>6, <3>7
    <2> QED BY <2>1, <2>2
  <1>3. ASSUME NEW t \in Threads, NEW d \in Inodes \ Files, NEW name,
               NEW u \in Uids, NEW g \in Gids, Lookup(t, d, name, u, g)
        PROVE  Goal
    <2>1. CASE \E i \in LookupEntry(d, name) : Arrive(t, i, u, g, Stat)
      BY <1>2, <2>1, LookupType
    <2>2. CASE ~\E i \in LookupEntry(d, name) : Arrive(t, i, u, g, Stat)
      <3>1. /\ request' = [request EXCEPT
                             ![t] = NewRequest(d, u, g, Stat, "done", "ENOENT")]
            /\ listed' = [listed EXCEPT ![t] = <<>>]
        BY <1>3, <2>2 DEF Lookup
      <3>2. CASE s # t
        BY <1>1, <3>1, <3>2
      <3>3. CASE s = t
        <4>1. request'[s] = NewRequest(d, u, g, Stat, "done", "ENOENT")
              /\ listed'[s] = <<>>
          BY <1>1, <3>1, <3>3
        <4>2. Stat # Readdir
          BY DEF Stat, Readdir
        <4> QED BY <4>1, <4>2, NewRequestListGood
      <3> QED BY <3>2, <3>3
    <2> QED BY <2>1, <2>2
  <1>4. ASSUME NEW t \in Threads, ListEntries(t) PROVE Goal
    <2>1. CASE s = t
      BY <1>4, <2>1, ListEntriesListGood
    <2>2. CASE s # t
      <3>1. request'[s] = request[s] /\ listed'[s] = listed[s]
        BY <1>1, <1>4, <2>2 DEF ListEntries
      <3> QED BY <1>1, <3>1
    <2> QED BY <2>1, <2>2
  <1>5. ASSUME NEW t \in Threads, PullUid(t) \/ PullGid(t) \/ Answer(t)
        PROVE  Goal
    <2>1. /\ listed' = listed
          /\ request[t].phase \in {"uid", "gid", "rights"}
          /\ s # t => request'[s] = request[s]
      BY <1>1, <1>5 DEF PullUid, PullGid, Answer
    <2>2. CASE s = t
      <3>1. request[t].op # Readdir
        BY <1>1, <2>1, <2>2 DEF ListGood
      <3>2. request'[t].op = request[t].op /\ request'[t].phase # "list"
        BY <1>1, <1>5 DEF PullUid, PullGid, Answer, Request
      <3> QED BY <2>2, <3>1, <3>2 DEF ListGood
    <2> QED BY <1>1, <2>1, <2>2
  <1>6. ASSUME UNCHANGED vars PROVE Goal
    BY <1>1, <1>6 DEF vars
  <1>7. Reachable \subseteq Inodes
    BY DEF Reachable
  <1> QED BY <1>2, <1>3, <1>4, <1>5, <1>6, <1>7 DEF Next

\* What a prefix of the listing says agrees with the look-ups.
LEMMA ListedMatches ==
    ASSUME TypeOK, ListInv PROVE ListingsMatchLookups
  <1> SUFFICES ASSUME NEW t \in Threads, request[t].op = Readdir,
                      request[t].inode \notin Files
               PROVE  LET d == request[t].inode
                          have == listed[t]
                          names == {Name[i] : i \in EntriesOf(d)}
                          found == {e \in ToSet(have) : e.name \notin {Dot, DotDot}}
                      IN  /\ IsInjective([k \in DOMAIN have |-> have[k].name])
                          /\ \A e \in found : LookupEntry(d, e.name) = {e.ino}
                          /\ request[t].phase = "done"
                               => names = {e.name : e \in found}
    BY DEF ListingsMatchLookups
  <1> DEFINE d == request[t].inode
             have == listed[t]
             list == Listing(d)
             names == {Name[i] : i \in EntriesOf(d)}
             found == {e \in ToSet(have) : e.name \notin {Dot, DotDot}}
  <1>1. d \in Inodes \ Files
    BY DEF TypeOK, Request
  <1>2. /\ have \in Seq(Dirents) /\ Len(have) <= Len(list)
        /\ \A k \in 1..Len(have) : have[k] = list[k]
        /\ request[t].phase = "done" => Len(have) = Len(list)
    BY DEF ListInv, ListGood
  <1>3. /\ list \in Seq(Dirents)
        /\ \A j, k \in 1..Len(list) : list[j].name = list[k].name => j = k
        /\ \A k \in 1..Len(list) : list[k].name \notin {Dot, DotDot} =>
             list[k].ino \in EntriesOf(d) /\ list[k].name = Name[list[k].ino]
        /\ \A i \in EntriesOf(d) :
             /\ Name[i] \notin {Dot, DotDot}
             /\ \E k \in 1..Len(list) : list[k].name = Name[i]
    BY <1>1, ListingFacts
  <1>4. \A i, j \in EntriesOf(d) : Name[i] = Name[j] => i = j
    BY <1>1, EntriesFacts
  <1>5. DOMAIN have = 1..Len(have) /\ Len(have) \in Nat /\ Len(list) \in Nat
    BY <1>2, <1>3, LenProperties
  <1>6. \A e : e \in ToSet(have) <=> \E k \in 1..Len(have) : e = list[k]
    BY <1>2, <1>5 DEF ToSet
  <1> HIDE DEF have, list, d
  <1>7. \A k \in 1..Len(have) : k \in 1..Len(list)
    BY <1>2, <1>5
  <1>8. IsInjective([k \in DOMAIN have |-> have[k].name])
    BY <1>2, <1>3, <1>5, <1>7 DEF IsInjective
  <1>9. ASSUME NEW e \in found
        PROVE  e.ino \in EntriesOf(d) /\ e.name = Name[e.ino]
    BY <1>3, <1>6, <1>7
  <1>10. \A e \in found : LookupEntry(d, e.name) = {e.ino}
    BY <1>4, <1>9 DEF LookupEntry
  <1>11. ASSUME request[t].phase = "done" PROVE names = {e.name : e \in found}
    <2>1. ASSUME NEW i \in EntriesOf(d) PROVE \E e \in found : e.name = Name[i]
      <3>1. PICK k \in 1..Len(list) : list[k].name = Name[i]
        BY <1>3
      <3>2. list[k] \in ToSet(have) /\ list[k].name \notin {Dot, DotDot}
        BY <1>2, <1>3, <1>6, <1>11, <3>1
      <3> QED BY <3>1, <3>2
    <2> QED BY <1>9, <2>1
  <1> HIDE DEF found, names
  <1> QED BY <1>8, <1>10, <1>11 DEF have, d, found, names

\* What a thread has of a listing is the beginning of it, in every run.
THEOREM ListingInvariance == Spec => []ListInv
  <1>1. IInv => TypeOK
    BY DEF IInv
  <1> QED BY <1>1, InitListInv, ListNextInv, Invariance, PTL DEF Spec

\* A listing has every name that can be looked up in the directory once, with the
\* inode that a look-up finds, whatever sizes the kernel cuts it into, for every
\* tree of directories and whatever the sizes of the entries.
THEOREM ListingsCorrect == Spec => []ListingsMatchLookups
  <1>1. IInv => TypeOK
    BY DEF IInv
  <1> QED BY <1>1, ListedMatches, Invariance, ListingInvariance, PTL
=============================================================================
