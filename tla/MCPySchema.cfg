SPECIFICATION PySpec
CONSTANTS
  Files <- MCFiles
  Databases = {"data"}
  Classes <- MCClasses
  Declares <- MCDeclares
  Asked = {"Mid"}
  MaxOperations = 5
  None = None
  Linearisable <- MCLinearisable
  AttributeOf <- MCAttributeOf
  Values <- MCValues
  Reads <- MCReads
  NotANumber = NotANumber
  Decimal <- MCDecimal
  Pattern <- MCPattern
  Dates <- MCDates
  Limits <- MCLimits
  MaxSize = 15
  MaxLong = 31
  Denotes <- MCDenotes
INVARIANTS
  TypeOK
  SchemaCurrent
  DescriptionsCurrent
  PythonKnowsClasses
  TypesAreSuperclasses
  PythonSchemaCurrent
  AcceptedConforms
  ConformingAccepted
PROPERTY
  GenerateEnds
CHECK_DEADLOCK FALSE
