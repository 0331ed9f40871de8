\* Callers that store an item only when exists() is false.
CONSTANTS
  Items = {i1, i2, i3, i4, i5}
  MaxSize = 3
  Guarded = TRUE
SPECIFICATION Spec
INVARIANTS
  TypeOK
  LookupMatchesWindow

  
