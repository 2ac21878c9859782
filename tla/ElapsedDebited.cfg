CONSTANTS
  StartDates <- MCStartDates
  MaxUpdates <- MCMaxUpdates
  Gaps <- MCGaps
  Junk <- MCJunk
SPECIFICATION Spec
INVARIANT ElapsedDebited
