\* Three requests of one conversation, and every failure on the way.
SPECIFICATION ConversationSpec
CONSTANTS
    Tools = {"long", "web"}
    LongNames = {"long"}
    ServerTools = {"web"}
    RecentItems = 1
    Profiles = {"codex", "local", "claude"}
    Provider <- MCProvider
    Backups <- MCBackups
    MaxItems <- MCMaxItems
    Reserve = 3
    Rules <- MCRules
    RouterEnabled = TRUE
    RagEnabled = TRUE
    Compression <- MCCompression
    IdPrefixes <- MCIdPrefixes
    Failing = {"upstream", "summarizer"}
    MaxRequests = 3
INVARIANTS CallsAnswered OmissionsTold NoticeCounts RoundTrips
\* The conversation is over after MaxRequests.
CHECK_DEADLOCK FALSE
