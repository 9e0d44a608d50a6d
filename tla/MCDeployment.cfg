SPECIFICATION DeploymentSpec
CONSTANTS
  Envs <- MCAllEnvs
  Hashes = 6
  MaxIndex = 2
  Required <- MCRequired
  Optional <- MCOptional
  Default <- MCDefault
  Givens <- MCGivens
  Files <- MCFiles
  ShardURLs = "SHARD_URLS"
  Deployments <- MCDeployments
INVARIANTS
  ConfigIsMeant
  BucketsAreTheLeadingOnes
  BlankPartsMoveNoKey
