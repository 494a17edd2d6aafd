SPECIFICATION FairSpec
CONSTANTS
    Threads = {t1, t2, t3}
    Listeners = {l1, l2}
    Throwers = {l2}
    Values = {v1}
    Errors = {e1}
    Exceptions = {x1}
    Unwritten = Unwritten
    NoError = NoError
    NoException = NoException
    Default = Default
    NotTold = NotTold
    NotRead = NotRead
INVARIANTS
    FutureInv
    ToldTheOutcome
    NoListenerLost
    NoStrandedWaiter
PROPERTIES
    CompletionIsFinal
    PromiseFairSpec
    WaitersReturn
