CONSTANTS
  CONSBUFSIZE = 3
  SerialBytes = {98}
  Burst = 3
  Keys = {30}
  KbdQSize = 1
  MaxOwed = 7
SPECIFICATION LossSpec
PROPERTY ZeroMeansNoneWaiting
