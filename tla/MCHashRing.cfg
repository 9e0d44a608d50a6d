SPECIFICATION Spec
CONSTANTS
  Procs <- MCProcs
  ShardIDs <- MCShardIDs
  VNodesArg = 0
  DefaultVNodes = 2
  Hashes <- MCHashes
  KeyHashes <- MCKeyHashes
INVARIANTS
  TypeOK
  SearchBrackets
  GetFindsAnOwner
  RoutedAlike
