CONSTANT KeyCodes <- MCKeyCodes
CONSTANT GarbledBytes <- MCNoErrors
SPECIFICATION Spec
INVARIANT KeyPressRoutesKey
