SPECIFICATION Spec
CONSTANTS
  LevelOrder <- TwoLevels
  Ids <- TwoIds
  Unopenable <- BadFiles
  OnDisk <- Files
  Default = "default"
  Settings <- SomeSettings
  Texts <- SomeTexts
  Globals <- SomeGlobals
  PenduoText <- InitText
  MaxSteps = 3
  MaxLines = 3
INVARIANT TypedAgree
INVARIANT OneStreamPerFile
INVARIANT LossIsBounded
PROPERTY ConfiguredAsAsked
CHECK_DEADLOCK FALSE
