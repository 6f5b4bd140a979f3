SPECIFICATION Spec
CONSTANTS
  MaxDials = 2
  MaxCrashes = 1
  Rival = {rival}
  RivalRequest <- OthersSend
  MaxTakes = 1
  Conn <- Connections
  LastNick = 1
  NoNick = NoNick
  Secret = {right, wrong}
  NoPass = NoPass
  Password = right
  BotPass = {right, wrong}
  NoFd = NoFd
INVARIANTS
  TypeOK
  WelcomedWhenKnown
  PasswordFirst
  SocketsAccounted
  PatienceBounded
  KnowsItsNick
  EntersRegistered
PROPERTIES
  ComesToRest
