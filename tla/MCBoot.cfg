CONSTANTS
  Delay = 2
  LedPeriod = 2
  MaxEvents = 3
SPECIFICATION Spec
INVARIANT TypeOK
INVARIANT HandlersFindTheirDevice
INVARIANT QuietHandover
PROPERTY StartsUp
