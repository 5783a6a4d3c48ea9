SPECIFICATION FairSpec
CHECK_DEADLOCK FALSE
CONSTANTS
  Keys = {k1, k2, k3, x}
  Opened = {{k1}, {x}}
  Legacy = {x}
  Ads = {a1, a2}
  None = None
  Old = Old
  MaxImages = 2
  MaxEdits = 1
  MaxFailures = 1
INVARIANTS StoreIsSound OneDraft
PROPERTIES RemovedStaysRemoved TileIsNotLost AutosaveCatchesUp
