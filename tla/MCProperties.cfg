SPECIFICATION Spec
CONSTANTS
  None = None
  Undefined = Undefined
  LengthName = LengthName
  Others = {}
  MaxLength = 2
  f = f
  g = g
  Data <- MCData
  Offers <- MCOffers
  Inherits <- MCInherits
INVARIANTS DefinesAsSpecified ArrayAsSpecified LengthCovers PutTells Fixes
PROPERTIES Permanent
CHECK_DEADLOCK FALSE
