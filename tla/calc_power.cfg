\* Every container of up to three devices with every set of links.
SPECIFICATION Spec
CONSTANTS
  Asset <- MCAsset
  Containers <- AnyContainer
  LinkSets <- AnyLinks
INVARIANTS
  TypeOK
  FindsFirstSmart
PROPERTIES
  EveryLevelIsLeft
  EndsUnlessLoop
CHECK_DEADLOCK FALSE
