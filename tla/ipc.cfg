\* A call and a subscription at the same time, one event more than fits.
SPECIFICATION FairSpec
CONSTANTS
    Requests = {r, s}
    Subscribers = {s}
    MaxEvents = 3
    EventCap = 2
INVARIANTS
    AnswersMatch
    EarlyEventsKept
PROPERTIES
    CallsReturn
    SubscribersSeeEnd
CHECK_DEADLOCK FALSE
