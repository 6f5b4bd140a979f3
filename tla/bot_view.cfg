SPECIFICATION Spec
CONSTANTS
  Fd <- Fds
  Bot = 2
  Name = {ann, bea}
  BotName = ircbot
  NoName = NoName
  MaxUnderWay = 2
  Key <- Keys
  NoKey = NoKey
  Limit = {}
  Unset = Unset
  Topic <- Topics
  NoTopic = NoTopic
INVARIANTS
  TypeOK
  TrustExplained
  OperatorsObeyed
SYMMETRY Symmetric
