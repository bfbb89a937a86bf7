CONSTANTS
  u1 = u1  u2 = u2  g1 = g1  g2 = g2
  Fds = {1, 2}
  Uids = {u1}
  Gids = {g1}
  NoUid = NoUid
  NoFd = NoFd
  MaxSessions = 2
  Commands = {"cid", "uid", "gid", "uidmap", "gidmap", "closed"}
  Orderly = FALSE
  Rebinds = TRUE
  Drops = {"stream", "manage"}
SPECIFICATION FairSpec
INVARIANTS SlotIsCurrent 
PROPERTIES StopCompletes
CHECK_DEADLOCK FALSE
