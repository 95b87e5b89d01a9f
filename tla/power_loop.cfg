\* Two devices that are not smart, linked in any way.
SPECIFICATION Spec
CONSTANTS
  Asset <- MCAsset
  Containers <- TwoDumb
  LinkSets <- LinksOfTwo
PROPERTIES
  AlwaysEnds
CHECK_DEADLOCK FALSE
