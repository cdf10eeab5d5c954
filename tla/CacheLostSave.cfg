SPECIFICATION Spec
CONSTANTS
    Workers = {w1, w2}
    Keys = {k1, k2}
    Details <- MCDetails
    Fetched <- MCFetched
    None = None
    Undecodable = Undecodable
    IsCurrent <- MachineIsCurrent
    Size <- MCSize
INVARIANT
    SettledFileHasAcked
