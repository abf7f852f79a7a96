SPECIFICATION Spec
CONSTANTS
  Pins = {p1, p2}
  WaveIds = {w1, w2, w3}
  NoPort = NoPort
  NoWave = NoWave
INVARIANT NoPanic
