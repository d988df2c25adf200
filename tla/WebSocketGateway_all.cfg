SPECIFICATION FairSpec
CONSTANTS
  ann = ann bob = bob root = root chat = chat bare = bare lobby = lobby
  c1 = c1 c2 = c2 None = None
  Sockets = {ann, bob}
  Rooms = {lobby}
  Namespaces = {root, chat}
  Root = root
  Spellings = {root, chat, bare}
  Normal <- MCNormal
  Casts = {c1}
  Raising = {"hook", "listener", "payload"}
INVARIANTS ViewsAgree RoomInNamespace MembersServed
PROPERTIES HangupEnds
CHECK_DEADLOCK FALSE
