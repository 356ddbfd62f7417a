------------------------------ MODULE FileCache ------------------------------
(***************************************************************************)
(* The cache of documents and images uploaded to a provider's Files API    *)
(* (src/proxy/file_cache.rs).  Requests share one map from a document's    *)
(* key to the remote file it was uploaded as.  The map is touched in short *)
(* lock scopes; uploads and deletions of remote files happen between them. *)
(*                                                                         *)
(* A request rewrites its media blocks one after the other and is then     *)
(* posted.  Its slot stands for another request afterwards.                *)
(***************************************************************************)
EXTENDS Naturals, Sequences, FiniteSets

CONSTANTS
    Requests,       \* request slots
    Documents,      \* cache keys: profile, account, media type and content
    Blocks,         \* slot -> the documents of its requests' media blocks, in order
    MaxEntries,     \* FILE_CACHE_MAX_ENTRIES (256 in the code)
    MaxFiles,       \* bound on the files ever uploaded
    Environment     \* what may go wrong, a subset of Faults

Faults == {"disconnect", "upload_fails", "delete_fails"}

ASSUME FileCacheAssumption ==
    /\ Blocks \in [Requests -> Seq(Documents)]
    /\ \A r \in Requests : Blocks[r] # << >>
    /\ MaxEntries \in Nat \ {0}
    /\ MaxFiles \in Nat
    /\ Environment \subseteq Faults

VARIABLES
    entries,    \* ProviderFileCache.entries, in the order of last_used_at
    uploads,    \* the number of files uploaded so far: file n is the n-th
    remote,     \* the files the provider still has
    lapsed,     \* the files whose expires_at has passed
    pc,         \* what each request is about to do
    block,      \* the media block it is at
    fresh,      \* the file it has uploaded and not yet cached, 0 for none
    doomed,     \* the files it took out of the map and has to delete
    body,       \* block -> the file its body refers to, 0 for the original payload
    since,      \* history: file -> the documents used since it was last used
    leaked      \* history: the files nobody will delete

requests == <<pc, block, fresh, doomed, body>>
vars == <<entries, uploads, remote, lapsed, requests, since, leaked>>

Files == 1..MaxFiles
FilesOf(s) == {s[i].file : i \in DOMAIN s}
DocumentsOf(s) == {s[i].doc : i \in DOMAIN s}

NoBody(r) == [i \in DOMAIN Blocks[r] |-> 0]

Init ==
    /\ entries = << >> /\ uploads = 0 /\ remote = {} /\ lapsed = {} /\ leaked = {}
    /\ pc = [r \in Requests |-> "lookup"]
    /\ block = [r \in Requests |-> 1]
    /\ fresh = [r \in Requests |-> 0]
    /\ doomed = [r \in Requests |-> {}]
    /\ body = [r \in Requests |-> NoBody(r)]
    /\ since = [f \in Files |-> {}]

Document(r) == Blocks[r][block[r]]

Go(r, where) == pc' = [pc EXCEPT ![r] = where]

\* The block refers to file f from now on (0: it keeps its payload); the next is up.
Rewritten(r, f) ==
    /\ body' = [body EXCEPT ![r][block[r]] = f]
    /\ block' = [block EXCEPT ![r] = @ + 1]
    /\ Go(r, IF block[r] = Len(Blocks[r]) THEN "post" ELSE "lookup")

\* The elements of s at the positions in I, in their order.
Pick(s, I) ==
    LET nth(k) == CHOOSE i \in I : Cardinality({j \in I : j < i}) = k - 1
    IN  [k \in 1..Cardinality(I) |-> s[nth(k)]]

\* evict_expired
Unexpired == Pick(entries, {i \in DOMAIN entries : entries[i].file \notin lapsed})
Expired == FilesOf(entries) \cap lapsed

Without(s, d) == Pick(s, {i \in DOMAIN s : s[i].doc # d})

\* Mutant: the entry to go is the second newest.
WithinLimit_Newest(s) ==
    IF Len(s) > MaxEntries THEN SubSeq(s, 1, MaxEntries - 1) \o <<s[Len(s)]>> ELSE s

\* evict_over_limit: the least recently used go until MaxEntries are left.
WithinLimit(s) ==
    IF Len(s) > MaxEntries THEN SubSeq(s, Len(s) - MaxEntries + 1, Len(s)) ELSE s

\* Document d is used, as file f.
Use(d, f) ==
    since' = [g \in Files |-> IF g = f \/ g > uploads THEN {} ELSE since[g] \cup {d}]

Leak(F) == leaked' = leaked \cup F

\* Mutant: the file is deleted before its entry is out of the map.
Sweep_DeletesFirst(r) ==
    /\ pc[r] = "lookup"
    /\ doomed' = [doomed EXCEPT ![r] = Expired]
    /\ Go(r, "get")
    /\ UNCHANGED <<entries, uploads, remote, lapsed, block, fresh, body, since, leaked>>

\* cache_lookup's first lock scope.
Sweep(r) ==
    /\ pc[r] = "lookup"
    /\ doomed' = [doomed EXCEPT ![r] = Expired]
    /\ entries' = Unexpired
    /\ Go(r, "get")
    /\ UNCHANGED <<uploads, remote, lapsed, block, fresh, body, since, leaked>>

\* delete_remote_files: one request to the provider for each file.
Delete(r) ==
    \E f \in doomed[r] :
        /\ doomed' = [doomed EXCEPT ![r] = @ \ {f}]
        /\ \/ /\ remote' = remote \ {f}
              /\ UNCHANGED leaked
           \/ /\ "delete_fails" \in Environment
              /\ Leak({f})
              /\ UNCHANGED remote
        /\ UNCHANGED <<entries, uploads, lapsed, pc, block, fresh, body, since>>

\* cache_lookup's second lock scope, after the deletions: a hit is used ...
Hit(r) ==
    /\ pc[r] = "get" /\ doomed[r] = {}
    /\ \E i \in DOMAIN entries :
          /\ entries[i].doc = Document(r)
          /\ entries' = Append(Without(entries, Document(r)), entries[i])
          /\ Rewritten(r, entries[i].file)
          /\ Use(Document(r), entries[i].file)
    /\ UNCHANGED <<uploads, remote, lapsed, fresh, doomed, leaked>>

\* ... and a miss is uploaded.
Miss(r) ==
    /\ pc[r] = "get" /\ doomed[r] = {}
    /\ Document(r) \notin DocumentsOf(entries)
    /\ Go(r, "upload")
    /\ UNCHANGED <<entries, uploads, remote, lapsed, block, fresh, doomed, body, since, leaked>>

Upload(r) ==
    /\ pc[r] = "upload" /\ uploads < MaxFiles
    /\ uploads' = uploads + 1
    /\ remote' = remote \cup {uploads + 1}
    /\ fresh' = [fresh EXCEPT ![r] = uploads + 1]
    /\ Go(r, "insert")
    /\ UNCHANGED <<entries, lapsed, block, doomed, body, since, leaked>>

\* The provider refuses the file, or its answer is lost or has no id: the block keeps
\* its payload.
UploadFails(r) ==
    /\ "upload_fails" \in Environment
    /\ pc[r] = "upload"
    /\ \/ UNCHANGED <<uploads, remote, leaked>>
       \/ /\ uploads < MaxFiles
          /\ uploads' = uploads + 1
          /\ remote' = remote \cup {uploads + 1}
          /\ Leak({uploads + 1})
    /\ Rewritten(r, 0)
    /\ UNCHANGED <<entries, lapsed, fresh, doomed, since>>

Inserted(r) == Append(Without(Unexpired, Document(r)), [doc |-> Document(r), file |-> fresh[r]])

\* Mutant: expired entries are dropped from the map and their files kept.
Insert_ForgetsExpired(r) ==
    /\ pc[r] = "insert"
    /\ entries' = WithinLimit(Inserted(r))
    /\ doomed' = [doomed EXCEPT ![r] = FilesOf(Inserted(r)) \ FilesOf(WithinLimit(Inserted(r)))]
    /\ Leak(FilesOf(Unexpired) \ FilesOf(Without(Unexpired, Document(r))))
    /\ Use(Document(r), fresh[r])
    /\ Go(r, "cleanup")
    /\ UNCHANGED <<uploads, remote, lapsed, block, fresh, body>>

\* cache_insert: expired entries go, the file enters, and entries over the limit go.
\* An entry another request has made for the same document meanwhile is overwritten.
Insert(r) ==
    /\ pc[r] = "insert"
    /\ entries' = WithinLimit(Inserted(r))
    /\ doomed' = [doomed EXCEPT ![r] =
                    Expired \cup (FilesOf(Inserted(r)) \ FilesOf(WithinLimit(Inserted(r))))]
    /\ Leak(FilesOf(Unexpired) \ FilesOf(Without(Unexpired, Document(r))))
    /\ Use(Document(r), fresh[r])
    /\ Go(r, "cleanup")
    /\ UNCHANGED <<uploads, remote, lapsed, block, fresh, body>>

\* The evicted files are deleted; the block is rewritten.
CleanedUp(r) ==
    /\ pc[r] = "cleanup" /\ doomed[r] = {}
    /\ Rewritten(r, fresh[r])
    /\ fresh' = [fresh EXCEPT ![r] = 0]
    /\ UNCHANGED <<entries, uploads, remote, lapsed, doomed, since, leaked>>

\* The slot is free for the next request.
Reset(r) ==
    /\ Go(r, "lookup")
    /\ block' = [block EXCEPT ![r] = 1]
    /\ fresh' = [fresh EXCEPT ![r] = 0]
    /\ doomed' = [doomed EXCEPT ![r] = {}]
    /\ body' = [body EXCEPT ![r] = NoBody(r)]

\* The request is translated and sent, for the last time if it is sent more than once.
Post(r) ==
    /\ pc[r] = "post"
    /\ Reset(r)
    /\ UNCHANGED <<entries, uploads, remote, lapsed, since, leaked>>

\* The client hangs up and the future is dropped, with the files it was about to cache
\* or to delete.  (A file whose upload it breaks off is one whose answer is lost.)
Disconnect(r) ==
    /\ "disconnect" \in Environment
    /\ Reset(r)
    /\ Leak(doomed[r] \cup (IF pc[r] = "insert" THEN {fresh[r]} ELSE {}))
    /\ UNCHANGED <<entries, uploads, remote, lapsed, since>>

\* FILE_CACHE_TTL after its insertion.
Expire(f) ==
    /\ f \in FilesOf(entries) \ lapsed
    /\ lapsed' = lapsed \cup {f}
    /\ UNCHANGED <<entries, uploads, remote, requests, since, leaked>>

Next ==
    \/ \E r \in Requests :
          \/ Sweep(r) \/ Delete(r) \/ Hit(r) \/ Miss(r)
          \/ Upload(r) \/ UploadFails(r) \/ Insert(r) \/ CleanedUp(r)
          \/ Post(r) \/ Disconnect(r)
    \/ \E f \in Files : Expire(f)

Spec == Init /\ [][Next]_vars
----------------------------------------------------------------------------
(* Properties.                                                             *)

Doomed == UNION {doomed[r] : r \in Requests}

\* Whatever requests evict, delete and look up at the same time, the cache offers no
\* file that is deleted or that a request is on its way to delete, and never more
\* than its limit.
CacheOffersLiveFiles ==
    /\ FilesOf(entries) \subseteq remote \ Doomed
    /\ Len(entries) <= MaxEntries

\* Every file at the provider is in the cache, or on its way into it or out of the
\* provider, unless it was leaked: by a fault, or by the one race there is, two
\* requests that upload the same document.
FilesAccountedFor ==
    remote = FilesOf(entries) \cup Doomed \cup leaked
             \cup {fresh[r] : r \in {q \in Requests : pc[q] = "insert"}}

\* A file a request relies on is deleted before the request is posted only if it has
\* expired, or at least MaxEntries other documents were used after it.
ReliedOnUntilPosted ==
    \A r \in Requests : \A i \in DOMAIN Blocks[r] :
        body[r][i] \notin remote \cup {0}
            => \/ body[r][i] \in lapsed
               \/ Cardinality(since[body[r][i]]) >= MaxEntries
=============================================================================
