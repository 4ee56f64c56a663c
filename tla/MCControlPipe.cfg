CONSTANTS
  g1 = g1
  Games <- MCGames
  SlowPeriod = 2
  FastLimit = 3
  SlowLimit = 6
  Reach = 7
  FirstListen = "listening"
SPECIFICATION ControlSpec
INVARIANTS
  ChannelServesDesktop
  SilentDesktopExpires
