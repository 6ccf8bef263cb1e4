CONSTANTS
  MaxRequests = 3
  HeaderSize = 2
  MaxFrame = 2
  None = None
  Failed = Failed
SPECIFICATION Spec
INVARIANT TypeOK
PROPERTY ImplementsCalls
PROPERTY CallsReturn
