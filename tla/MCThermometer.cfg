CONSTANTS
  Width = 3
  FamilyBits = 2
  Roms <- MCRoms
  CountRange = 4
  MaxChanges = 2
SPECIFICATION Spec
INVARIANT TypeOK
INVARIANT EveryDeviceOnce
PROPERTY NoOldReading
PROPERTY FindsAListener
PROPERTY BeginEnds
