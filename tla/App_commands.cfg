\* The three commands, each on every world that matters to it.
SPECIFICATION AppSpec
CONSTANTS
  N = 2
  MaxDevs = 16
  RetryBase = 1
  RetryMax = 3
  ScanRetry = 2
  Width = 4
  MaxPass = 2
  Unknown = Unknown
  MaxClasses = 2
  MaxCredentials = 3
  MaxGroups = 3
  MaxPermissions = 6
  MaxProofs = 3
  NoFile = NoFile
  Unreadable = Unreadable
  NotObject = NotObject
  Missing = Missing
  Malformed = Malformed
  NoProof = NoProof
  NoList = NoList
  CommaLists <- MCLists
  NoTree = NoTree
  EachOf = EachOf
  f1 = f1
  f2 = f2
  Order <- MCOrder
  EvenRoots <- MCEvenRoots
  Fp <- MCFp
  Hkdf <- MCHkdf
  HasAria = FALSE
  MaxPayload = 32
  MaxMaps = 2
  Launches <- MCLaunches
  BmRows <- MCBmRows
  Addrs <- MCAddrs
  Rosters <- MCRosters
  Requests <- MCRequests
  Commands <- MCCommands
  Documents <- MCDocuments
  Argvs <- MCArgvs
INVARIANTS
  ButtonOfThisLink ScanEndsWhenFound
  WalksAgree ProofAsDeclared ProofVerifies PiStationary TwoFormsAgree
  AllFreed FaithfulCopy
PROPERTIES
  KeepsTrying PassProgress KeepsContract
