CONSTANTS
  StartDates <- MCStartDates
  MaxUpdates <- MCMaxUpdates
SPECIFICATION Spec
INVARIANT DateConsistent
