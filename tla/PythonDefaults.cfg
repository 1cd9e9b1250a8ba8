SPECIFICATION PySpec
CONSTANTS
  Files <- MCFiles
  Databases = {"data"}
  Classes <- MCClasses
  Declares <- MCDeclares
  Asked = {"Mid"}
  MaxOperations = 5
  None = None
  Linearisable <- MCLinearisable
  AttributeOf <- MCAttributeOf
  Values <- MCValues
  Reads <- MCReads
  NotANumber = NotANumber
  Decimal <- MCDecimal
  Pattern <- MCPattern
  Dates <- MCDates
  Limits <- MCLimits
  MaxSize = 15
  MaxLong = 31
  Denotes <- MCDenotes
INVARIANT DefaultConforms
CHECK_DEADLOCK FALSE
