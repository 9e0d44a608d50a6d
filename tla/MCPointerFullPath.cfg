SPECIFICATION EntrySpec
CONSTANTS
  Places <- MCPlaces
  Slashes <- MCSlashes
INVARIANT
  FullPathResolves
