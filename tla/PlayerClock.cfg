CONSTANT Presets <- MCPresets
SPECIFICATION Spec
INVARIANT TypeOK
INVARIANT FaceShowsClock
PROPERTY ClockNeverIncreases
PROPERTY ClockRunsOut
