SPECIFICATION FairSpec
CONSTANTS
    Processes = {p1, p2}
    Quotes = {q1, q2}
    Activators = {a1}
    TermsOf <- TwoTerms
    Distances <- SomeDistances
    MaxActivations = 2
    MaxFaults = 1
    None = None
    Corrupt = Corrupt
INVARIANTS
    QuoteIsCurrent
    FeeCoversCost
PROPERTIES
    QuotesEnd
CHECK_DEADLOCK FALSE
