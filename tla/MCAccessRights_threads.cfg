\* Two FUSE threads ask for the rights of two users of one group.
SPECIFICATION Spec
CONSTANTS
    root = root
    dir = dir
    file = file
    other = other
    u1 = u1
    u2 = u2
    g1 = g1
    t1 = t1
    t2 = t2
    Inodes = {root, dir, file, other}
    Root = root
    Files = {file, other}
    Parent <- MCParent
    Entries <- MCEntries
    Name <- MCName
    DirentSize <- MCDirentSize
    Names = {0, 1}
    DirRooms = {6, 10}
    Uids = {u1, u2}
    Gids = {g1}
    Threads = {t1, t2}
    Configs <- MCConfigs
SYMMETRY MCSymmetry
INVARIANTS
    TypeOK
    RightsWereGiven
    PullerMissesNothing
    RightsAreKept
    ListingsMatchLookups
