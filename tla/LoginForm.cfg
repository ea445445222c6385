CONSTANTS
  Positions <- MCPositions
  maxLength = 1
  MaxClicks = 1
  MaxKeys = 2
  MaxAttempts = 2
SPECIFICATION Spec
 
PROPERTY PasswordIsRetyped
CHECK_DEADLOCK FALSE
