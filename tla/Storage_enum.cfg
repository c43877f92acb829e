SPECIFICATION Spec
CONSTANTS
  Clients = {c1, c2}
  Names = {x, y}
  Modes <- OwnerOrReaders
  CreateModes <- Owner
  RetryAfterError = FALSE
  EnumRename = FALSE
  MaxFile = 1
  MaxHash = 4
INVARIANT EnumDirLive
