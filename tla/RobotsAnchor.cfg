SPECIFICATION Spec
CONSTANTS
    Synonyms <- MCSynonyms
    Case <- Matching
INVARIANT MatchesAsDocumented
