SPECIFICATION SearchSpec
CONSTANTS
    NoText = NoText
    Some = Some
    Nothing = Nothing
    Query = {NoText, Some, Nothing}
    Total <- Catalogue
    PageSize = 2
    MaxSession = 4
    MaxOffset = 6
INVARIANTS
    SearchTypeOK
    LoadingIsLatest
    OnePageAtATime
    FieldSearched
    ListIsResults
PROPERTIES
    LoadingEnds
