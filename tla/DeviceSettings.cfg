\* Three sensors, all presets at two rates, and a rate that is refused.
CONSTANTS
  Kinds <- MCKinds
  OptionChoices <- MCOptionChoices
  PresetNames = {"imu", "vru", "gnss"}
  Rates = {3, 4, 100}
  ForeignData <- MCForeignData
SPECIFICATION Spec
INVARIANTS
  TypeOK
  ReadsBack
  SamplesMatchOutputs
