SPECIFICATION Spec
CONSTANTS
  Texts <- MCTexts
  Capitals <- MCCapitals
  Composed <- MCComposed
  StandardProperties <- MCStandardProperties
  ExtensionParts <- MCExtensionParts
  Saved <- MCSaved
  Rewrites <- MCRewrites
  Additions <- MCAdditions
  NestedRewrites <- MCNestedRewrites
  Hashes <- MCHashes
  Dates <- MCDates
  Instants <- MCInstants
  RuleEdits <- MCRuleEdits
  Spares <- MCSpares
  SavedCards <- MCSavedCards
  CardProps <- MCCardProps
  CardUIDs <- MCCardUIDs
  CardKinds <- MCCardKinds
  MaxCardEdits = 2
  MaxEdits = 2
INVARIANTS EqualIffSameContent DiffMatchesEqual CanonicalKeepsAlarms
  RecurrenceRoundTrips TriggersRoundTrip
  RecurrenceIsKept VerdictsFollowContent EndMissesByTheChange
CHECK_DEADLOCK FALSE
