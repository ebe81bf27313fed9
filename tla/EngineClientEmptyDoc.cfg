\* An address that does not parse: two calls for one text.
SPECIFICATION Spec
CONSTANTS
    c1 = c1
    c2 = c2
    t1 = t1
    t2 = t2
    u1 = u1
    u2 = u2
    Foreign = Foreign
    Blank = Blank
    Failed = Failed
    Nobody = Nobody
    Calls <- TwoCalls
    Texts <- OneText
    Urls <- OneUrl
    InitUrl = u1
    BadUrls <- OneUrl
    Replies <- AnyReply
    MaxSwitches = 0
    MaxExpiries = 0
INVARIANT
    SuccessIsAnAnswer
\* Calls end and nobody has to make more.
CHECK_DEADLOCK FALSE
