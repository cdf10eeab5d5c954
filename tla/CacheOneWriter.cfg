SPECIFICATION Spec
CONSTANTS
    Workers = {w1}
    Keys = {k1, k2}
    Details <- MCDetails
    Fetched <- FetchedItems
    None = None
    Undecodable = Undecodable
    IsCurrent <- ItemIsCurrent
    Size <- MCSize
INVARIANTS
    PersistedSurvives
    PublishedFileDecodes
PROPERTY
    DurableSpec
