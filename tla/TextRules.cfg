SPECIFICATION Spec
CONSTANTS
    Synonyms <- MCSynonyms
    Case <- MCCase
INVARIANTS RobotsMatchRight GroupsRight EditDistanceRight ResultsRight PagesRight UrlRulesRight PageRight
