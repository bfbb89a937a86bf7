CONSTANTS
  u1 = u1  u2 = u2  g1 = g1  g2 = g2
  Fds = {1, 2}
  Uids = {u1, u2}
  Gids = {g1, g2}
  NoUid = NoUid
  NoFd = NoFd
  MaxSessions = 3
  Commands = {"cid", "uid", "gid", "uidmap", "gidmap"}
  Orderly = TRUE
  Rebinds = FALSE
  Drops = {"manage", "status"}
SPECIFICATION Spec
INVARIANTS TypeOK OfflineCleared GroupsMirror UidReachable DownstreamReachesAddressee
SYMMETRY UsersAndGroups
