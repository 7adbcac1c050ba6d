CONSTANTS
    Images = {"i1", "i2"}
    NoImage = NoImage
    Text <- MCText
    Contexts <- MCContexts
    Blank <- MCBlank
    NoBundle <- MCNoBundle
    Policy <- MCPolicy
    Fold <- MCFold
    Times = {1, 2}
    MaxMoments = 3
    MaxLives = 2
    Letters = {"a", "b"}
    Space = " "
    Quote <- MCQuote
    Queries <- MCQueries
    Requests <- MCRequests
    NoApplication <- MCNoApplication
    ResultLimit = 2
SPECIFICATION Spec
INVARIANTS TypeOK IndexFollowsRows ExcludedLeavesNoTrace NoRepeats RemembersLastStored
    SearchFindsWhatIsAsked
