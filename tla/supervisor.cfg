SPECIFICATION Spec
CONSTANTS
  FailCap = 9
  AgeCap = 64
  SinceCap = 303
INVARIANT TypeOK
PROPERTIES Spaced NotForgotten StableForgets FreshStart
