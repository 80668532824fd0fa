CONSTANTS
  Input <- Siblings
  Requests <- SiblingRequests
  Muxes <- MCMuxes
  Title <- MCTitle
  Trimmed <- MCTrimmed
  Ident <- MCIdent
  Unclean <- MCUnclean
  Parsed <- MCParsed
  Pieces <- MCPieces
  Stripped <- MCStripped
  Lower <- MCLower
  Binary <- MCBinary
  InvalidKey = {"B@d"}
  Unprintable = {"tab"}
  Base64 <- MCBase64
  Units <- MCUnits
  Width = 8
  MaxNesting = 2
  DefaultContextTimeout = 25
  Unwritable <- MCUnwritable
  MediaType <- MCMediaType
SPECIFICATION Spec
INVARIANT FilterHasPrefixes
CHECK_DEADLOCK FALSE
