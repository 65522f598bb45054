------------------------------- MODULE Validation -------------------------------
(***************************************************************************)
(* validate/ and ext/: what ValidateComponent reports of a component, and  *)
(* the scope of an extension name.  A report is a set of codes, each with  *)
(* the property it names; how often a property is reported, severities and *)
(* wording are left out, and the supersession codes, which LedgerEntry     *)
(* has.  Nested components are not looked at, in the code either.  A name  *)
(* that begins with X- is the sequence of the texts between its hyphens.   *)
(***************************************************************************)
EXTENDS CanonicalForm, RecurrenceSets

CONSTANTS StandardProperties,  \* the names of RFC 5545 and RFC 6350
          ExtensionParts       \* [names that begin with X- -> texts behind it]

ASSUME ExtensionsAssumption == StandardProperties \cap DOMAIN ExtensionParts = {}

IsExtension(name) == ToUpper(name) \in DOMAIN ExtensionParts

Parts(name) == ExtensionParts[ToUpper(name)]

\* A hyphen, and something behind it.
HasSuffix(parts) == Len(parts) > 2 \/ (Len(parts) = 2 /\ parts[2] # NoText)

Reserved == {"VSTAR", "EXP"}

ScopeOfParts(parts) ==
  CASE ~HasSuffix(parts) -> "Unknown"
    [] HasSuffix(parts) /\ parts[1] = "VSTAR" -> "VStar"
    [] HasSuffix(parts) /\ parts[1] = "EXP" -> "Experimental"
    [] OTHER -> "System"

\* Slip: scopes are told by the letters as they are written.
ScopeAsWritten(name) ==
  IF name \in DOMAIN ExtensionParts THEN ScopeOfParts(ExtensionParts[name]) ELSE "None"

ScopeOf(name) == IF IsExtension(name) THEN ScopeOfParts(Parts(name)) ELSE "None"

\* The system an extension belongs to, or none.
SystemName(name) ==
  IF IsExtension(name) /\ HasSuffix(Parts(name)) THEN {Parts(name)[1]} \ (Reserved \cup {NoText})
  ELSE {}

ExtensionsByScope(c, scope) ==
  Picked(c.props, {i \in DOMAIN c.props : ScopeOf(c.props[i].name) = scope})

-----------------------------------------------------------------------------
\* hashing.Component: the digest of the canonical form of a component without
\* its calendar; SHA-256 is taken to be free of collisions.
Digest(c) == <<"hash", EncodeComponent(PrepareComponent(c, <<>>))>>

SetXVSTAR(c) == SetProperty(c, Property("X-VSTAR-HASH", <<>>, Digest(c)))

\* VerifyXVSTAR of a component that has a hash.
Stale(c) == \E p \in Get(c, "X-VSTAR-HASH") : p.value # Digest(c)

-----------------------------------------------------------------------------
Finding(code, name) == [code |-> code, name |-> name]

\* A required property that is not there.
Missing(c, name, code) == IF Get(c, name) = {} THEN {Finding(code, name)} ELSE {}

CheckRequiredCommon(c) ==
  Missing(c, "UID", "VS001") \cup Missing(c, "DTSTAMP", "VS002")
    \cup Missing(c, "X-VSTAR-HASH", "VS003")

CheckHashIntegrity(c) == IF Stale(c) THEN {Finding("VS010", "X-VSTAR-HASH")} ELSE {}

CheckExtensionNamespace(c) ==
  {Finding("VS020", ToUpper(p.name)) :
     p \in {q \in ToSet(c.props) :
              ToUpper(q.name) \notin StandardProperties /\ ~IsExtension(q.name)}}

\* An enumerated value, compared without regard to case.
HasValue(c, name, values) ==
  \E p \in Get(c, name) : p.value[1] = "text" /\ ToUpper(p.value[2]) \in values

Lacks(c, names) == \E name \in names : Get(c, name) = {}

CheckTypeSpecific(c) ==
  CASE c.type = "VTODO" ->
         IF /\ Get(c, "DUE") = {}
            /\ HasValue(c, "STATUS", {"COMPLETED"}) => Get(c, "COMPLETED") = {}
         THEN {Finding("VS040", NoText)} ELSE {}
    [] c.type = "VEVENT" -> Missing(c, "DTSTART", "VS041")
    [] c.type = "VFREEBUSY" /\ Lacks(c, {"DTSTART", "DTEND"}) -> {Finding("VS042", NoText)}
    [] c.type = "VCARD" /\ Lacks(c, {"VERSION", "UID"}) -> {Finding("VS043", NoText)}
    [] OTHER -> {}

StatusVocabularies ==
  [VEVENT |-> {"TENTATIVE", "CONFIRMED", "CANCELLED"},
   VTODO |-> {"NEEDS-ACTION", "IN-PROCESS", "COMPLETED", "CANCELLED"},
   VJOURNAL |-> {"DRAFT", "FINAL", "CANCELLED"}]

VocabularyDiagnostic(c, name, allowed, code) ==
  IF Get(c, name) = {} \/ HasValue(c, name, allowed) THEN {} ELSE {Finding(code, name)}

CheckStatusVocabulary(c) ==
  IF c.type \in DOMAIN StatusVocabularies
  THEN VocabularyDiagnostic(c, "STATUS", StatusVocabularies[c.type], "VS044") ELSE {}

CheckClassification(c) ==
  VocabularyDiagnostic(c, "CLASS", {"PUBLIC", "PRIVATE", "CONFIDENTIAL"}, "VS053")
    \cup VocabularyDiagnostic(c, "TRANSP", {"OPAQUE", "TRANSPARENT"}, "VS054")

\* A value "digits" holds the digits it is written with.
IsCanonicalDecimal(value) ==
  /\ value[1] = "digits"
  /\ value[2] # <<>>
  /\ value[2] = <<0>> \/ value[2][1] # 0

IntegerDomains ==
  [name \in {"PRIORITY", "PERCENT-COMPLETE", "SEQUENCE"} |->
     CASE name = "PRIORITY" -> {<<9>>}
       [] name = "PERCENT-COMPLETE" -> {<<1, 0, 0>>}
       [] OTHER -> {}]

CheckIntegerDomains(c) ==
  {Finding("VS055", ToUpper(p.name)) :
     p \in {q \in ToSet(c.props) :
              /\ ToUpper(q.name) \in DOMAIN IntegerDomains
              /\ \/ ~IsCanonicalDecimal(q.value)
                 \/ \E max \in IntegerDomains[ToUpper(q.name)] :
                      ExceedsDigitString(q.value[2], max)}}

CheckRRule(c) ==
  LET unsupported(p) == p.value[1] = "rule" /\ ParseRRule(p.value[2]).error = "unsupported"
  IN  {Finding(IF unsupported(p) THEN "VS050" ELSE "VS051", "RRULE") :
         p \in {q \in ToSet(GetAll(c, "RRULE")) : ParsedRule(q) = {}}}

CheckDuration(c) ==
  LET ill(p) == CASE ToUpper(p.name) = "TRIGGER" -> ParseTrigger(p) = {}
                  [] ToUpper(p.name) = "DURATION" -> ~IsDuration(p.value)
                  [] ToUpper(p.name) = "REPEAT" -> ~IsCanonicalDecimal(p.value)
                  [] OTHER -> FALSE
  IN  {Finding("VS052", ToUpper(p.name)) : p \in {q \in ToSet(c.props) : ill(q)}}

\* All but whether the hash fits.
ContentFindings(c) ==
  CheckRequiredCommon(c) \cup CheckExtensionNamespace(c)
    \cup CheckTypeSpecific(c) \cup CheckStatusVocabulary(c) \cup CheckClassification(c)
    \cup CheckIntegerDomains(c) \cup CheckRRule(c) \cup CheckDuration(c)

ValidateComponent(c) == ContentFindings(c) \cup CheckHashIntegrity(c)
=============================================================================
