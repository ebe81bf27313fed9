\* Two calls about two texts or one, one switch of the address, one expiry.
SPECIFICATION FairSpec
CONSTANTS
    c1 = c1
    c2 = c2
    t1 = t1
    t2 = t2
    u1 = u1
    u2 = u2
    Foreign = Foreign
    Blank = Blank
    Failed = Failed
    Nobody = Nobody
    Calls <- TwoCalls
    Texts <- TwoTexts
    Urls <- TwoUrls
    InitUrl = u1
    BadUrls <- Second
    Replies <- AnyReply
    MaxSwitches = 1
    MaxExpiries = 1
INVARIANTS
    TypeOK
    SingleFlight
    OwnText
    FollowersAgree
    CachedFromBase
PROPERTY
    EveryCallReturns
\* Calls end and nobody has to make more.
CHECK_DEADLOCK FALSE
