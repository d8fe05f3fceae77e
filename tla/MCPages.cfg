SPECIFICATION Spec
CONSTANTS
  u1 = u1
  u2 = u2
  v1 = v1
  v2 = v2
  User = {u1, u2}
  Video = {v1, v2}
  Comment = {c1}
  UploaderOf <- OneVideoEach
  Me = u1
  Home = Home
  NoVideo = NoVideo
  MaxTurns = 2
CHECK_DEADLOCK FALSE
INVARIANTS WatchShowsItsVideo NothingWaitsInVain SettledListIsTheServers SettledWatchIsTheServers
