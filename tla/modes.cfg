SPECIFICATION AliveSpec
CONSTANTS
  Fd <- Fd3
  Chan = {c1}
  Nick = {n1}
  NoNick = NoNick
  Key = {NoKey, k1}
  NoKey = NoKey
  Limit = {2}
  Unset = Unset
  Topic = {NoTopic, t1}
  NoTopic = NoTopic
  ModeReqs <- AllModes
SYMMETRY Symmetric
INVARIANTS TypeOK LimitDefined NickUnique
PROPERTIES OperatorsSucceed AdmissionRespected GovernedByOperator
CHECK_DEADLOCK FALSE
