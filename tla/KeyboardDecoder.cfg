CONSTANT KeyCodes <- MCKeyCodes
CONSTANT GarbledBytes <- MCNoErrors
SPECIFICATION Spec
INVARIANT DecoderIdleBetweenKeys
