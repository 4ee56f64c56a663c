\* One card of the newest series, one of an older one.
CONSTANTS
  Cards = {"c1", "c2"}
  Newest = {"c1"}
  NvInterval = 1
  NvMaxTime = 2
SPECIFICATION NvSpec
INVARIANT MissingIsOmitted
