SPECIFICATION MCSpec
CONSTANTS
  Part = {"locations"}
  Chunks = {"c1"}
  ChunkFile = {"f1"}
  FileOf <- Files
  MaxRecords = 2
  CatalogVersion = 1
  None = None
  Writer = {w1}
  Pinner = {p1}
  Kind = {"native", "generic"}
  MaxPins = 1
  MaxFailures = 1
  Restorer = {"r1", "r2"}
  Order <- RestoreOrder
  MaxRestoreFaults = 1
  Object = {"a", "b", "d"}
  EncodedLen <- Lengths
  ChunkHeaderLen = 1
  ChunkFooterLen = 1
  TargetSize = 5
  MaxChunks = 3
  MaxFiles = 3
  MaxRotationFailures = 1
  NoChunk = NoChunk
  Device = {"loop0", "loop1"}
  ImageSize = {1, 2, 3}
  MaxUuid = 2
  MaxImageFaults = 2
  Unset = Unset
  Process = {"p", "q"}
  StateRoot = {"s", "t"}
  RuntimeDir = {"d", "e"}
  MaxStarts = 2
  Nobody = Nobody
  Snapshot = {"s1", "s2"}
  Path = {"m1", "m2"}
  Content = {"v1", "v2"}
  ConfiguredManifests <- ManifestList
  MaxPublicationFaults = 2
  NoManifest = NoManifest
  Prober = {"p", "q"}
  Nonce = {1, 2}
  MaxProbeFaults = 1
  NoInode = NoInode
INVARIANTS LowestSelected
CHECK_DEADLOCK FALSE
