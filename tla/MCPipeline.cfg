CONSTANTS
  sound = sound
  other = other
  refused = refused
  tooMuch = tooMuch
  mainless = mainless
  broken = broken
  None = None
  Sources <- MCSources
  WithTree <- MCWithTree
  WithMain <- MCWithMain
  Translated <- MCTranslated
  Assembling <- MCAssembling
  MaxFaults = 2
SPECIFICATION FairSpec
INVARIANTS TypeOK RunsThisSource
PROPERTY Recovers
