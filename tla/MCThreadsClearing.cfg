SPECIFICATION Spec
CONSTANTS
  LineOrder <- MCLineOrder
  PoliteHost = FALSE
  SlowProgram = TRUE
PROPERTY WithdrawnByName
