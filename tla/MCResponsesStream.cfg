\* Four items, so that text, calls and thinking follow each other in every order.
SPECIFICATION Spec
CONSTANTS
    MaxItems = 4
    Servers <- MCServers
INVARIANTS ContentOnce NothingLost StopReasonTold
PROPERTIES LegalStream
\* The translator stops when the stream is over.
CHECK_DEADLOCK FALSE
