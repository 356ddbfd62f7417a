---------------------------- MODULE TokenManager ----------------------------
(***************************************************************************)
(* The ChatGPT/Codex token of OAuth profiles (src/oauth/manager.rs,        *)
(* exchange.rs, source.rs).  Every claudex session is a process with its   *)
(* own TokenManager: a token cache and a refresh lock per profile.  The    *)
(* credential itself is one file, ~/.codex/auth.json, that all profiles of *)
(* all sessions and the codex CLI share, and its refresh token is good for *)
(* one use: the issuer rotates it.                                         *)
(*                                                                         *)
(* A credential is its generation: access token g and refresh token g were *)
(* issued together, generation g + 1 by the refresh that spent g.          *)
(* A request slot goes back to "idle" when its request ends, and may then  *)
(* stand for another request.                                              *)
(***************************************************************************)
EXTENDS Naturals, FiniteSets

CONSTANTS
    Processes,      \* running claudex sessions
    Profiles,       \* the OAuth profiles of provider chatgpt/openai
    Requests,       \* request slots
    Home,           \* slot -> the session its requests arrive at
    ProfileOf,      \* slot -> the profile its requests are for
    MaxGeneration,  \* bound on the credentials the issuer hands out
    Environment,    \* what may happen to the sessions, a subset of Events
    NoOne           \* the holder of a free lock

Events == {"disconnect", "crash", "lost_reply", "write_error", "external_refresh"}

ASSUME TokenAssumption ==
    /\ Home \in [Requests -> Processes]
    /\ ProfileOf \in [Requests -> Profiles]
    /\ MaxGeneration \in Nat \ {0}
    /\ Environment \subseteq Events
    /\ NoOne \notin Requests

VARIABLES
    file,       \* the generation in ~/.codex/auth.json
    current,    \* the generation the issuer last handed out: the one it accepts
    expired,    \* generations 1..expired are past their expiry less 60 seconds
    rejected,   \* access tokens the API refuses although they have not expired
    cache,      \* TokenManager.cache: key -> generation, 0 when absent
    lock,       \* TokenManager.refresh_locks: key -> the slot holding it
    pc,         \* where each request is
    tok,        \* the generation a request holds
    retried,    \* whether the 401 retry of the request has been spent
    spent,      \* history: <<s, g>> when session s has exchanged refresh token g
    respent,    \* history: the refresh tokens a session posted after that
    lost        \* history: the latest credential was dropped before it was written

vars == <<file, current, expired, rejected, cache, lock, pc, tok, retried, spent, respent, lost>>
issuer == <<current, expired, rejected, spent, respent, lost>>

Keys == Processes \X Profiles
Key(r) == <<Home[r], ProfileOf[r]>>
Generations == 1..MaxGeneration

\* The points of get_token between which other work can happen: before the fast
\* path, waiting for the refresh lock, holding it before the second look at the
\* cache, the refresh posted, its reply on the way, between the two writes of the
\* file, and waiting to insert in the cache.
Holding == {"check", "post", "reply", "written", "insert"}
Waiting == {"fast", "lock"} \cup Holding

Valid(g) == g > expired

Release(r) == lock' = [lock EXCEPT ![Key(r)] = NoOne]

Init ==
    /\ file = 1 /\ current = 1
    /\ expired \in {0, 1}
    /\ rejected = {} /\ spent = {} /\ respent = {} /\ lost = FALSE
    /\ cache = [k \in Keys |-> 0]
    /\ lock = [k \in Keys |-> NoOne]
    /\ pc = [r \in Requests |-> "idle"]
    /\ tok = [r \in Requests |-> 0]
    /\ retried = [r \in Requests |-> FALSE]

GetToken(r) ==
    /\ pc[r] = "idle"
    /\ pc' = [pc EXCEPT ![r] = "fast"]
    /\ UNCHANGED <<file, cache, lock, tok, retried, issuer>>

\* Request r is over and its slot is free.
End(r) ==
    /\ pc' = [pc EXCEPT ![r] = "idle"]
    /\ tok' = [tok EXCEPT ![r] = 0]
    /\ retried' = [retried EXCEPT ![r] = FALSE]

\* The call of get_token returns generation g; the request goes on with it.
Return(r, g) ==
    /\ pc' = [pc EXCEPT ![r] = "use"]
    /\ tok' = [tok EXCEPT ![r] = g]

FastPath(r) ==
    LET g == cache[Key(r)] IN
    /\ pc[r] = "fast"
    /\ \/ Valid(g) /\ Return(r, g)
       \/ ~Valid(g) /\ pc' = [pc EXCEPT ![r] = "lock"] /\ UNCHANGED tok
    /\ UNCHANGED <<file, cache, lock, retried, issuer>>

\* Mutant: the refresh lock is not taken.
Acquire_NoLock(r) ==
    /\ pc[r] = "lock"
    /\ lock' = [lock EXCEPT ![Key(r)] = r]
    /\ pc' = [pc EXCEPT ![r] = "check"]
    /\ UNCHANGED <<file, cache, tok, retried, issuer>>

Acquire(r) ==
    /\ pc[r] = "lock"
    /\ lock[Key(r)] = NoOne
    /\ lock' = [lock EXCEPT ![Key(r)] = r]
    /\ pc' = [pc EXCEPT ![r] = "check"]
    /\ UNCHANGED <<file, cache, tok, retried, issuer>>

\* Mutant: the lock is kept when get_token fails.
Fail_KeepsLock(r) == End(r) /\ UNCHANGED lock

\* get_token returns an error: the guard is dropped and the request ends.
Fail(r) == End(r) /\ Release(r)

\* Under the lock: another request may have refreshed meanwhile.
DoubleCheck(r) ==
    /\ pc[r] = "check"
    /\ Valid(cache[Key(r)])
    /\ Return(r, cache[Key(r)])
    /\ Release(r)
    /\ UNCHANGED <<file, cache, retried, issuer>>

\* load_chatgpt_token: the file's token is good, or it has to be refreshed.
Load(r) ==
    /\ pc[r] = "check"
    /\ ~Valid(cache[Key(r)])
    /\ tok' = [tok EXCEPT ![r] = file]
    /\ pc' = [pc EXCEPT ![r] = IF Valid(file) THEN "insert" ELSE "post"]
    /\ UNCHANGED <<file, cache, lock, retried, issuer>>

\* Mutant: the refresh token that was just spent is the one kept.
Renewed_KeepsOld(g) == g

\* The generation the reply to a refresh of g carries.
Renewed(g) == g + 1

\* Request r posts the refresh token it holds.
Posted(r) ==
    respent' = IF <<Home[r], tok[r]>> \in spent THEN respent \cup {tok[r]} ELSE respent

\* The issuer answers a refresh: it rotates the token if it is the latest ...
IssuerRotates(r) ==
    /\ pc[r] = "post"
    /\ tok[r] = current /\ current < MaxGeneration
    /\ Posted(r)
    /\ spent' = spent \cup {<<Home[r], tok[r]>>}
    /\ current' = current + 1
    /\ tok' = [tok EXCEPT ![r] = Renewed(tok[r])]
    /\ pc' = [pc EXCEPT ![r] = "reply"]
    /\ UNCHANGED <<file, expired, rejected, cache, lock, retried, lost>>

\* ... and refuses it if it was spent before (RefreshError::Reused).
IssuerRefuses(r) ==
    /\ pc[r] = "post"
    /\ tok[r] # current
    /\ Posted(r)
    /\ Fail(r)
    /\ UNCHANGED <<file, current, expired, rejected, cache, spent, lost>>

\* The refresh fails before the issuer has seen it.
PostFails(r) ==
    /\ pc[r] = "post"
    /\ Fail(r)
    /\ UNCHANGED <<file, cache, issuer>>

\* refresh_chatgpt_token writes the file ...
WriteBack(r) ==
    /\ pc[r] = "reply"
    /\ file' = tok[r]
    /\ pc' = [pc EXCEPT ![r] = "written"]
    /\ UNCHANGED <<cache, lock, tok, retried, issuer>>

\* ... and load_chatgpt_token writes it again.
WriteAgain(r) ==
    /\ pc[r] = "written"
    /\ file' = tok[r]
    /\ pc' = [pc EXCEPT ![r] = "insert"]
    /\ UNCHANGED <<cache, lock, tok, retried, issuer>>

\* The requests in R forget the credentials they were given.
Loses(R) == lost' = (lost \/ \E r \in R : pc[r] = "reply" /\ tok[r] = current)

Drops(R) ==
    /\ Loses(R)
    /\ spent' = spent \ {<<Home[r], tok[r] - 1>> : r \in {q \in R : pc[q] = "reply"}}

\* The reply does not arrive or cannot be read, or the file cannot be written.
ReplyLost(r) ==
    /\ Environment \cap {"lost_reply", "write_error"} # {}
    /\ pc[r] = "reply"
    /\ Fail(r)
    /\ Drops({r})
    /\ UNCHANGED <<file, cache, current, expired, rejected, respent>>

\* Mutant: the cache is filled before the credential is on disk.
Insert_BeforeWrite(r) ==
    /\ pc[r] \in {"reply", "insert"}
    /\ cache' = [cache EXCEPT ![Key(r)] = tok[r]]
    /\ Release(r)
    /\ pc' = [pc EXCEPT ![r] = "use"]
    /\ UNCHANGED <<file, tok, retried, issuer>>

Insert(r) ==
    /\ pc[r] = "insert"
    /\ cache' = [cache EXCEPT ![Key(r)] = tok[r]]
    /\ Release(r)
    /\ pc' = [pc EXCEPT ![r] = "use"]
    /\ UNCHANGED <<file, tok, retried, issuer>>

\* The API accepts the token, or answers 401 to the retry as well: the request ends.
Finish(r) ==
    /\ pc[r] = "use"
    /\ tok[r] \notin rejected \/ retried[r]
    /\ End(r)
    /\ UNCHANGED <<file, cache, lock, issuer>>

\* A first 401, for a token that was revoked or has expired by now:
\* invalidate_and_retry removes whatever the cache holds and calls get_token.
Invalidate(r) ==
    /\ pc[r] = "use"
    /\ tok[r] \in rejected \/ ~Valid(tok[r])
    /\ ~retried[r]
    /\ retried' = [retried EXCEPT ![r] = TRUE]
    /\ cache' = [cache EXCEPT ![Key(r)] = 0]
    /\ pc' = [pc EXCEPT ![r] = "fast"]
    /\ UNCHANGED <<file, lock, tok, issuer>>

\* The client hangs up and the future is dropped at the await it is suspended in,
\* the lock's guard with it.  There is no await between the two writes.
Disconnect(r) ==
    /\ "disconnect" \in Environment
    /\ pc[r] \in Waiting \ {"written"}
    /\ End(r)
    /\ IF pc[r] \in Holding THEN Release(r) ELSE UNCHANGED lock
    /\ Drops({r})
    /\ UNCHANGED <<file, cache, current, expired, rejected, respent>>

\* A session ends, with its cache, its locks and its requests, and may start anew.
Crash(p) ==
    /\ "crash" \in Environment
    /\ cache' = [k \in Keys |-> IF k[1] = p THEN 0 ELSE cache[k]]
    /\ lock' = [k \in Keys |-> IF k[1] = p THEN NoOne ELSE lock[k]]
    /\ pc' = [r \in Requests |-> IF Home[r] = p THEN "idle" ELSE pc[r]]
    /\ tok' = [r \in Requests |-> IF Home[r] = p THEN 0 ELSE tok[r]]
    /\ retried' = [r \in Requests |-> Home[r] # p /\ retried[r]]
    /\ Drops({r \in Requests : Home[r] = p})
    /\ UNCHANGED <<file, current, expired, rejected, respent>>

\* The latest token comes within 60 seconds of its expiry.  A token lives longer
\* than the instant between receiving it and storing it.
Expire ==
    /\ expired < current
    /\ \A r \in Requests : pc[r] \notin {"reply", "written", "insert"}
    /\ expired' = current
    /\ UNCHANGED <<file, current, rejected, cache, lock, pc, tok, retried, spent, respent, lost>>

\* The provider stops accepting the latest access token.
Revoke ==
    /\ current \notin rejected
    /\ rejected' = rejected \cup {current}
    /\ UNCHANGED <<file, current, expired, cache, lock, pc, tok, retried, spent, respent, lost>>

\* The codex CLI finds its token expired, refreshes it and writes the file.
ExternalRefresh ==
    /\ "external_refresh" \in Environment
    /\ ~Valid(file) /\ file = current /\ current < MaxGeneration
    /\ current' = current + 1
    /\ file' = current + 1
    /\ UNCHANGED <<expired, rejected, cache, lock, pc, tok, retried, spent, respent, lost>>

Step(r) ==
    \/ FastPath(r) \/ DoubleCheck(r) \/ Load(r)
    \/ IssuerRotates(r) \/ IssuerRefuses(r) \/ PostFails(r)
    \/ WriteBack(r) \/ WriteAgain(r) \/ ReplyLost(r) \/ Insert(r)

Next ==
    \/ \E r \in Requests : GetToken(r) \/ Acquire(r) \/ Step(r)
                           \/ Finish(r) \/ Invalidate(r) \/ Disconnect(r)
    \/ \E p \in Processes : Crash(p)
    \/ Expire \/ Revoke \/ ExternalRefresh

Spec == Init /\ [][Next]_vars

\* Ready tasks are polled and a refresh comes to an end.  No request need get the lock.
FairSpec == Spec /\ \A r \in Requests : WF_vars(Step(r))
----------------------------------------------------------------------------
(* Properties.                                                             *)

\* The refresh lock is held exactly while a request of its session and profile is
\* between taking it and returning: errors, dropped futures and crashes free it.
LockFollowsHolder ==
    /\ \A r \in Requests : pc[r] \in Holding => lock[Key(r)] = r
    /\ \A k \in Keys : lock[k] # NoOne => pc[lock[k]] \in Holding /\ Key(lock[k]) = k

\* A token is shared through the cache only after it is safely in the file, so a
\* crash never leaves sessions on a token whose refresh token nobody kept.
CachedTokenPersisted ==
    \A k \in Keys : cache[k] <= file

\* Whatever sessions refresh at the same time, the file holds the latest refresh
\* token, or the request that was given it is about to write it.  The login is lost in
\* one way only: a fault strikes between the issuer's answer and the first write; no
\* race of refreshes, crashes or late writes does it.
CredentialSurvives ==
    \/ file = current
    \/ lost
    \/ \E r \in Requests : pc[r] = "reply" /\ tok[r] = current

\* Concurrent requests of a session share one refresh (manager.rs:3): a session that
\* has exchanged a refresh token does not post it again, unless a fault took the reply
\* before it was written.
RefreshTokenSpentOnce == respent = {}

\* The refresh lock comes free again and again, whoever takes it and whatever happens to
\* that call.  As tokio's mutexes are first come, first served, every call of get_token
\* then has its turn and comes back, with a token or an error.
LockComesFree ==
    \A k \in Keys : []<>(lock[k] = NoOne)
=============================================================================
