CONSTANTS
  Bytes = {0, 1}
  RowSize = 2
  RowLimit = 2
  SourceLimit = 3
  ChunkLimit = 2
  Expiry = 2
  Uploads <- MCUploads
  Crc <- MCCrc
  ValidCode <- MCValidCode
  None = None
SPECIFICATION UploadSpec
INVARIANTS UploadTypeOK TerminatorFits
PROPERTIES Promise AcknowledgedStable
