SPECIFICATION Spec
CONSTANTS
  Texts <- MCTexts
  Capitals <- MCCapitals
  Composed <- MCComposed
  StandardProperties <- MCStandardProperties
  ExtensionParts <- MCExtensionParts
  Saved <- MCSouthern
  Rewrites <- MCRewrites
  Additions <- MCAdditions
  NestedRewrites <- MCNestedRewrites
  Hashes <- MCHashes
  Dates <- MCDates
  Instants <- MCInstants
  RuleEdits <- MCRuleEdits
  Spares <- MCSpares
  SavedCards <- NoCards
  CardProps <- MCCardProps
  CardUIDs <- MCCardUIDs
  CardKinds <- MCCardKinds
  MaxCardEdits = 0
  MaxEdits = 1
INVARIANT OffsetIsActive
CHECK_DEADLOCK FALSE
