\* Four items, so that reasoning, content and calls follow each other in every order.
SPECIFICATION Spec
CONSTANTS
    MaxItems = 4
    Servers <- MCServers
INVARIANTS ContentOnce NothingLost
PROPERTIES LegalStream
\* The translator stops when the stream is over.
CHECK_DEADLOCK FALSE
