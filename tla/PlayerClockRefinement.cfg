CONSTANT Presets <- MCPresets
SPECIFICATION Spec
PROPERTY AbstractSpec
