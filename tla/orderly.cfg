SPECIFICATION OrderlySpec
CONSTANTS
  Fd <- Fd3
  Chan = {c1, c2}
  Nick = {n1}
  NoNick = NoNick
  Key = {NoKey}
  NoKey = NoKey
  Limit = {}
  Unset = Unset
  Topic = {NoTopic}
  NoTopic = NoTopic
  ModeReqs <- OnlyPromote
SYMMETRY Symmetric
INVARIANTS MembershipConsistent StaysUp
PROPERTY RoomsPromise
