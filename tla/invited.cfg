SPECIFICATION OrderlySpec
CONSTANTS
  Fd <- Fd2
  Chan = {c1}
  Nick = {n1, n2}
  NoNick = NoNick
  Key = {NoKey}
  NoKey = NoKey
  Limit = {}
  Unset = Unset
  Topic = {NoTopic}
  NoTopic = NoTopic
  ModeReqs <- AllModes
SYMMETRY Symmetric
INVARIANT InvitedCanJoin
