CONSTANTS
  Input <- MCInput
  Requests <- MCRequests
  Muxes <- MCMuxes
  Title <- MCTitle
  Trimmed <- MCTrimmed
  Ident <- MCIdent
  Unclean <- MCUnclean
  Parsed <- MCParsed
  Pieces <- MCPieces
  Stripped <- MCStripped
  Lower <- MCLower
  Binary <- MCBinary
  InvalidKey = {"B@d"}
  Unprintable = {"tab"}
  Base64 <- MCBase64
  Units <- MCUnits
  Width = 8
  MaxNesting = 2
  DefaultContextTimeout = 25
  Unwritable <- MCUnwritable
  MediaType <- MCMediaType
SPECIFICATION Spec
INVARIANTS
  BindingTypeOK
  PackagesToldApart
  ReferencesResolve
  RulesAccounted
  GeneratedCodeFits
  ResponseReadsBack
  HeadersBecomeMetadata
  FilterShields
  QueryIsOrderless
  MaskCoversBody
CHECK_DEADLOCK FALSE
