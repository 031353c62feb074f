SPECIFICATION Spec
CONSTANTS
  Unknown = Unknown
  NoGroup = NoGroup
  User = {alice, bob}
  MaxChanges = 2
  MaxNotices = 2
  MaxRows = 2
INVARIANTS ClearBoundsStaleness StrandsAddUp
PROPERTIES IndexIsMonotoneView HeardIsLoaded
