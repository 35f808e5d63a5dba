SPECIFICATION FairSpec
CONSTANTS
    Requests = {p1, p2}
    Limit = 2
    Ttl = 3
    Second = 2
    Slack = 2
    Null = Null
INVARIANTS TypeOK TwoWindowLimit KeepersAreServed RetryAfterSuffices
PROPERTIES BlockEnds
