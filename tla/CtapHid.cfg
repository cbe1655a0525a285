CONSTANTS
    Hosts = {h1}
    Cancellable = {h1}
    Cids = {c1, c2}
    NoCid = NoCid
    Broadcast = Broadcast
    MaxFrames = 3
    MaxRequest = 2
    MaxInbox = 2
    MaxAttempts = 2
    Timeout = 2
SPECIFICATION FairSpec
INVARIANTS TypeOK AnswerMatches ChannelsDistinct RunsOnce
PROPERTY CallEnds
