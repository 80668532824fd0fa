CONSTANTS
  HeaderKey = {"h", "hidden"}
  TrailerKey = {"t", "private"}
  NoType = NoType
  OutHeader = {"h"}
  OutTrailer = {"t"}
  ServerMetadata <- MCServerMetadata
  Error <- MCError
  OptionStatus = {0, 201}
  WriteContentLength = TRUE
  NilContext = NilContext
  PlainContext = PlainContext
  NoError = NoError
  MaxMessages = 2
  Field <- MCField
  SubField <- MCSubField
  MaskField = "mask"
  NoField = NoField
  Call <- QueryWithoutFilter
  NilFilter = NilFilter
  NoBytes = NoBytes
  NoMessage = NoMessage
SPECIFICATION PipelineSpec
INVARIANTS
  FilterlessQueryIsBound
CHECK_DEADLOCK FALSE
