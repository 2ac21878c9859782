CONSTANT KeyCodes <- MCKeyCodes
CONSTANT GarbledBytes <- MCGarbledBytes
SPECIFICATION Spec
INVARIANT ErrorNeverMakesKey
