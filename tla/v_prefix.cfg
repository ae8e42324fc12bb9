SPECIFICATION Spec
CONSTANTS
  Letters = {"/", "h", "e", "x", "l", "y", "oic", "p"}
  MaxAppResources = 4
  Offered <- MCOffered
  Requests <- MCRequests
INVARIANT UnsecuredServed
