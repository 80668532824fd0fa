------------------------------ MODULE Unescape ------------------------------
(***************************************************************************)
(* Percent-decoding of path components, twice in the runtime: unescape      *)
(* (pattern.go) for one component of a Pattern, unescapePath                *)
(* (routing/unescape.go) for a component or for all the components that     *)
(* remain, joined.  A string is a sequence of characters here.              *)
(***************************************************************************)
EXTENDS Integers, Sequences

CONSTANTS
  Hex,        \* characters that are hexadecimal digits
  Byte,       \* [Hex \X Hex -> character]: what two digits stand for
  Reserved    \* characters RFC 6570 reserves; "/" is one

Modes == {"legacy", "exceptReserved", "exceptSlash", "all"}
NotWellFormed == <<"malformed">>

\* shouldUnescape; the legacy mode does not get here.
Decodes(c, mode) ==
  CASE mode = "exceptReserved" -> c \notin Reserved
    [] mode = "exceptSlash"    -> c # "/"
    [] OTHER                   -> TRUE

IsEscape(s, i) == i + 2 <= Len(s) /\ s[i + 1] \in Hex /\ s[i + 2] \in Hex

\* The count of the percent signs, which also checks them.
WellFormed(s) ==
  LET From[i \in 1 .. Len(s) + 3] ==
        IF i > Len(s) THEN TRUE
        ELSE IF s[i] = "%" THEN IsEscape(s, i) /\ From[i + 3] ELSE From[i + 1]
  IN  From[1]

\* An escape that is not decoded is copied: its percent sign here, its digits
\* as the characters that they are.
Decoded(s, mode) ==
  LET From[i \in 1 .. Len(s) + 3] ==
        IF i > Len(s) THEN <<>>
        ELSE IF s[i] = "%" /\ Decodes(Byte[<<s[i + 1], s[i + 2]>>], mode)
             THEN <<Byte[<<s[i + 1], s[i + 2]>>]>> \o From[i + 3]
             ELSE <<s[i]>> \o From[i + 1]
  IN  From[1]

UnescapeAll(s, mode) == IF WellFormed(s) THEN Decoded(s, "all") ELSE NotWellFormed

\* routing/unescape.go, behind unescapeSegment.
UnescapePath(s, mode) ==
  IF mode = "legacy" THEN s
  ELSE IF WellFormed(s) THEN Decoded(s, mode) ELSE NotWellFormed

\* pattern.go: a single segment is decoded whole, whatever the mode.
UnescapeComponent(s, mode, multisegment) ==
  IF mode = "legacy" THEN s
  ELSE IF WellFormed(s) THEN Decoded(s, IF multisegment THEN mode ELSE "all")
       ELSE NotWellFormed

-----------------------------------------------------------------------------
(* Cutting characters, where the runtime cuts paths.                       *)

LastAt(s, c) ==
  LET at == {i \in DOMAIN s : s[i] = c}
  IN  IF at = {} THEN 0 ELSE CHOOSE i \in at : \A j \in at : j <= i

\* findVerbInPath and strings.LastIndex of one component.
Base(s) == IF LastAt(s, ":") = 0 THEN s ELSE SubSeq(s, 1, LastAt(s, ":") - 1)
Verb(s) == IF LastAt(s, ":") = 0 THEN <<>> ELSE SubSeq(s, LastAt(s, ":") + 1, Len(s))

IsEncodedSlash(s, i) ==
  i + 2 <= Len(s) /\ s[i] = "%" /\ s[i + 1] = "2" /\ s[i + 2] \in {"F", "f"}

\* splitPathEncoded of one component: the pieces between encoded slashes.
Pieces(s) ==
  LET From[i \in 1 .. Len(s) + 3] ==
        IF i > Len(s) THEN <<<<>>>>
        ELSE IF IsEncodedSlash(s, i) THEN <<<<>>>> \o From[i + 3]
             ELSE <<<<s[i]>> \o Head(From[i + 1])>> \o Tail(From[i + 1])
  IN  From[1]
=============================================================================
