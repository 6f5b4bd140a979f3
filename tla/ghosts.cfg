SPECIFICATION Spec
CONSTANTS
  Fd <- Fd2
  Chan = {c1, c2, c3}
  Nick = {n1}
  NoNick = NoNick
  Key = {NoKey}
  NoKey = NoKey
  Limit = {}
  Unset = Unset
  Topic = {NoTopic}
  NoTopic = NoTopic
  ModeReqs <- OnlyPromote
SYMMETRY Symmetric
INVARIANTS OperatorPresent NoDanglingChannel
PROPERTY OperatorsStay
CHECK_DEADLOCK FALSE
