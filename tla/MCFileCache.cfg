\* A cache of two entries for three documents, and every fault.
SPECIFICATION Spec
CONSTANTS
    a = a
    b = b
    d1 = d1
    d2 = d2
    d3 = d3
    Requests = {a, b}
    Documents = {d1, d2, d3}
    Blocks <- MCBlocks
    MaxEntries = 2
    MaxFiles = 3
    Environment = {"disconnect", "upload_fails", "delete_fails"}
INVARIANTS CacheOffersLiveFiles FilesAccountedFor ReliedOnUntilPosted
\* No more files can be uploaded once MaxFiles are.
CHECK_DEADLOCK FALSE
