SPECIFICATION Spec
CONSTANTS
  Subscriptions <- MCSubscriptions
  Residue <- MCResidue
INVARIANTS
  UnwantedOnlyByFallback
  LostOnlyByResidue
CHECK_DEADLOCK FALSE
