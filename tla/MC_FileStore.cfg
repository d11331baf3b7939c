SPECIFICATION FairSpec
CONSTANTS
  u1 = u1
  u2 = u2
  a1 = a1
  k1 = k1
  k2 = k2
  NoUpload = NoUpload
  Uploads <- TwoUploads
  Artifacts <- OneArtifact
  Keys <- TwoKeys
  MaxFile = 2
  MaxSource = 3
  Limit = 2
  MaxActive = 2
  MaxFaults = 1
  MaxCrashes = 1
INVARIANTS TypeOK Accounting QuotaHeld WholeUntilExpired OneUploadPerKey
PROPERTIES VaultSpec Reclaimed
