SPECIFICATION Spec
CONSTANTS
  f1 = f1
  Calls = {c1, c2}
  Ids = {i1, i2}
  Causes = {f1}
  CauseOf <- MCCauseOf
  Window = 2
  NoiseFloor = 2
  MaxOcc = 2
  MaxRestarts = 1
CHECK_DEADLOCK FALSE
PROPERTIES
  OncePerWindow
