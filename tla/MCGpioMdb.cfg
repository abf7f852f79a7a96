SPECIFICATION DSpec
CONSTANTS
  Pins = {p1, p2, p3}
  UserPins = {p1, p2}
  WaveIds = {w1, w2, w3}
  NoPort = NoPort
  NoWave = NoWave
  Builds <- MCBuilds
INVARIANT DTypeOK
INVARIANT CallsNameLiveWaves
PROPERTY ImplementsServer
PROPERTY HandlersReturn
