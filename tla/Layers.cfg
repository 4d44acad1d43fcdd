SPECIFICATION Spec
CONSTANTS
  Windows = {w1, w2}
  Shadow = shadow
  ScreenRect <- MCScreen
  Places <- MCPlaces
  Origins <- MCOrigins
  Spots <- MCSpots
  Colors = {1, 2}
  Background = 0
  MaxOps = 4
INVARIANTS
  PixelsKept
  Unloadable
PROPERTIES
  ImplementsDesktop
CHECK_DEADLOCK FALSE
