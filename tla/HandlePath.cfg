CONSTANTS
  Comp <- MCComp
  Text <- MCText
  Chars <- MCChars
  AllCharacters = FALSE
  Mode = "exceptReserved"
  Hex <- MCHex
  Byte <- MCByte
  Reserved = {"/", ":", "*"}
  Ident = {"id", "a", "p"}
  Unclean = {"%zz"}
  Tmpl <- MCTmpl
  Url <- MCUrl
  Definition <- MCDefinition
  Lookup <- MCLookup
SPECIFICATION PathSpec
INVARIANTS
  VMTypeOK
  AcceptedNeverPanics
  MachineIsReference
  TemplatesCompile
  PrintedAsWritten
  TrieReadsPattern
  WholeIsPiecewise
CHECK_DEADLOCK FALSE
