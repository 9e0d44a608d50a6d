SPECIFICATION EntrySpec
CONSTANTS
  Places <- MCPlaces
  Slashes <- MCSlashes
INVARIANTS
  IndexFormsResolve
  NeverAnotherPlace
  ReadersAgreeOnNodeValues
