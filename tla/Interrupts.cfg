SPECIFICATION FairSpec
CONSTANTS
  Levels = {3}
  MaxPresses = 1
  MaxPulses = 1
INVARIANTS TypeOK OneResetPerPress
PROPERTIES HeldResetServed InterruptHeard LevelFalls
