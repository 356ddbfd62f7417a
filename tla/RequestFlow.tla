---------------------------- MODULE RequestFlow ----------------------------
(***************************************************************************)
(* The life of a POST /proxy/{profile}/v1/messages request inside the      *)
(* proxy (src/proxy/handler.rs): early rejections, the OAuth token of the  *)
(* primary profile, the circuit breaker gate, the forward with its 429     *)
(* retries, the one re-authentication after a 401, the failover to the     *)
(* backup providers, and the metrics.  Requests run concurrently on tokio; *)
(* the only state they share is the breaker map and the metrics, each      *)
(* touched in one lock scope, so one action is one stretch between awaits. *)
(* A client that hangs up makes the server drop the handler's future at    *)
(* whichever await it is suspended in (Disconnect).                        *)
(***************************************************************************)
EXTENDS Integers, Sequences, FiniteSets, CircuitBreaker

CONSTANTS
    Requests,       \* the requests that may arrive, each at most once
    Profiles,       \* names of the configured profiles
    Enabled,        \* the profiles whose `enabled' flag is set
    OAuth,          \* the profiles with auth_type = OAuth
    Kind,           \* profile -> provider adapter
    Backups,        \* profile -> its backup_providers, in order
    Unsupported,    \* requests with content the Responses translation rejects
    Answers,        \* the upstream behaviours considered
    MaxRetries      \* 429 answers that are retried per attempt (2 in the code)

Kinds == {"direct", "compatible", "responses"}

\* What an upstream call can come to: an HTTP status, a failed connection, a body
\* that cannot be read or parsed, or (Responses streams only) what the preflight
\* finds in the part of the stream that it buffers.
HttpAnswers == {"ok", "rate_limited", "unauthorized", "client_error",
                "server_error", "unreachable", "bad_body"}

\* preflight_openai_responses_stream stops with the first chunk that tells it
\* something, of all that is buffered by then: an error of the provider, wherever
\* it stands, before an overflow, and an overflow before visible content.  A stream
\* that breaks before that, or says nothing, is the last case.
Preflight(buffered) ==
    LET errors == buffered \cap {"sse_overloaded", "sse_denied"} IN
    IF errors # {} THEN errors
    ELSE IF "sse_overflow" \in buffered THEN {"sse_overflow"}
    ELSE IF "visible" \notin buffered /\ "sse_cut" \in buffered THEN {"sse_cut"}
    ELSE {"ok"}

SseAnswers ==
    UNION {Preflight(buffered) : buffered \in
               SUBSET {"visible", "sse_overloaded", "sse_denied", "sse_overflow", "sse_cut"}}
    \ {"ok"}

ASSUME RequestFlowAssumption ==
    /\ Enabled \subseteq Profiles
    /\ OAuth \subseteq Profiles
    /\ Kind \in [Profiles -> Kinds]
    /\ Backups \in [Profiles -> Seq(Profiles)]
    /\ Unsupported \subseteq Requests
    /\ Answers \subseteq HttpAnswers \cup SseAnswers
    /\ MaxRetries \in Nat

VARIABLES
    breaker,    \* ProxyState.circuit_breakers: profile -> Breaker
    metrics,    \* ProxyState.metrics: profile -> request counters
    pc,         \* where each request's handler is suspended
    profile,    \* the resolved primary profile of each request
    at,         \* 0 for the primary, i for the i-th of its backup_providers
    attempts,   \* 429 retries used by the forward in progress
    reauthed,   \* whether the 401 retry has been spent
    reply,      \* the status returned to the client, 0 before
    tries,      \* history: the result of every try_with_circuit_breaker call
    sends       \* history: how many times the request was posted upstream

vars == <<breaker, metrics, pc, profile, at, attempts, reauthed, reply, tries, sends>>

Locations == {"new", "token", "gate", "forward", "inflight", "backoff", "reauth",
              "done", "gone"}

----------------------------------------------------------------------------
(* Error classification (src/proxy/error_translation.rs).                  *)

ErrorType(u) ==
    CASE u = "rate_limited"   -> "rate_limit_error"
      [] u = "unauthorized"   -> "authentication_error"
      [] u \in {"client_error", "sse_overflow"}            -> "invalid_request_error"
      [] u = "sse_denied"     -> "permission_error"
      [] u = "sse_overloaded" -> "overloaded_error"
      [] OTHER                -> "api_error"

CircuitDecision(type) ==
    IF type \in {"rate_limit_error", "api_error", "timeout_error", "overloaded_error"}
    THEN "Retryable"
    ELSE "Direct"

AnthropicStatus(type) ==
    CASE type = "invalid_request_error" -> 400
      [] type = "authentication_error"  -> 401
      [] type = "permission_error"      -> 403
      [] type = "rate_limit_error"      -> 429
      [] type = "overloaded_error"      -> 529
      [] OTHER                          -> 500

----------------------------------------------------------------------------
(* Candidates.                                                             *)

Candidate(r, i) == IF i = 0 THEN profile[r] ELSE Backups[profile[r]][i]

\* The enabled backups after position i: backup_profiles is filtered by `enabled'.
Later(r, i) == {j \in (i + 1)..Len(Backups[profile[r]]) :
                    Backups[profile[r]][j] \in Enabled}

\* try_forward returns Ok for a 2xx, for every 4xx, for whatever the preflight
\* finds, and for any status of a passthrough provider; it returns Err for the
\* other 5xx, for a failed connection, and for a body or request it cannot translate.
ForwardSucceeds(kind, u) ==
    IF u = "server_error"
    THEN kind = "direct"
    ELSE u \notin {"unreachable", "bad_body", "untranslatable", "refused"}

\* The status the client sees.  A transport failure is translated with its own
\* status, BAD_GATEWAY, and so is every error that is not a translated one: a 5xx of
\* a translated provider too.
StatusOf(kind, u) ==
    CASE u = "ok" -> 200
      [] u = "sse_cut" \/ ~ForwardSucceeds(kind, u) -> 502
      [] OTHER -> AnthropicStatus(ErrorType(u))

\* circuit_decision_for_error: only a failed connection is a translated error;
\* anything else that is Err counts as retryable.
ErrorDecision(u) == IF u = "unreachable" THEN CircuitDecision(ErrorType(u)) ELSE "Retryable"

\* The breaker after try_with_circuit_breaker has recorded outcome u.
AfterOutcome(cb, kind, u) ==
    IF ForwardSucceeds(kind, u) THEN RecordSuccess(cb)
    ELSE IF ErrorDecision(u) = "Retryable" THEN RecordFailure(cb)
    ELSE cb

Attempt(r, u) == [ at     |-> at[r],
                   cause  |-> u,
                   ok     |-> ForwardSucceeds(Kind[Candidate(r, at[r])], u),
                   status |-> StatusOf(Kind[Candidate(r, at[r])], u) ]

----------------------------------------------------------------------------
Init ==
    /\ breaker  = [p \in Profiles |-> NewBreaker]
    /\ metrics  = [p \in Profiles |-> [total |-> 0, success |-> 0, failure |-> 0]]
    /\ pc       = [r \in Requests |-> "new"]
    /\ profile  \in [Requests -> Enabled]
    /\ at       = [r \in Requests |-> 0]
    /\ attempts = [r \in Requests |-> 0]
    /\ reauthed = [r \in Requests |-> FALSE]
    /\ reply    = [r \in Requests |-> 0]
    /\ tries    = [r \in Requests |-> << >>]
    /\ sends    = [r \in Requests |-> 0]

\* The answers given before any provider is chosen: an unreadable body (413),
\* invalid JSON (400), an unknown profile (404), a disabled one (503).
Reject(r) ==
    /\ pc[r] = "new"
    /\ \E status \in {413, 400, 404} \cup (IF Enabled = Profiles THEN {} ELSE {503}) :
           reply' = [reply EXCEPT ![r] = status]
    /\ pc' = [pc EXCEPT ![r] = "done"]
    /\ UNCHANGED <<breaker, metrics, profile, at, attempts, reauthed, tries, sends>>

Accept(r) ==
    /\ pc[r] = "new"
    /\ pc' = [pc EXCEPT ![r] = IF profile[r] \in OAuth THEN "token" ELSE "gate"]
    /\ UNCHANGED <<breaker, metrics, profile, at, attempts, reauthed, reply, tries, sends>>

\* TokenManager::get_token returns a token for the primary profile ...
TokenReady(r) ==
    /\ pc[r] = "token"
    /\ pc' = [pc EXCEPT ![r] = "gate"]
    /\ UNCHANGED <<breaker, metrics, profile, at, attempts, reauthed, reply, tries, sends>>

\* ... or an error, answered with 401 before anything is counted.
TokenFailed(r) ==
    /\ pc[r] = "token"
    /\ pc' = [pc EXCEPT ![r] = "done"]
    /\ reply' = [reply EXCEPT ![r] = 401]
    /\ UNCHANGED <<breaker, metrics, profile, at, attempts, reauthed, tries, sends>>

\* Mutant: the request is counted under the profile that answered it.
Finish_ByCandidate(r, success, status) ==
    /\ pc' = [pc EXCEPT ![r] = "done"]
    /\ reply' = [reply EXCEPT ![r] = status]
    /\ metrics' = [metrics EXCEPT ![Candidate(r, at[r])] =
                     [ total   |-> @.total + 1,
                       success |-> IF success THEN @.success + 1 ELSE @.success,
                       failure |-> IF success THEN @.failure ELSE @.failure + 1 ]]

\* metrics.record_request and the response, at the end of handle_messages.
Finish(r, success, status) ==
    /\ pc' = [pc EXCEPT ![r] = "done"]
    /\ reply' = [reply EXCEPT ![r] = status]
    /\ metrics' = [metrics EXCEPT ![profile[r]] =
                     [ total   |-> @.total + 1,
                       success |-> IF success THEN @.success + 1 ELSE @.success,
                       failure |-> IF success THEN @.failure ELSE @.failure + 1 ]]

\* Mutant: every 401 is retried, not only the first.
NeedsReauth_Always(r, e) ==
    e.ok /\ e.status = 401 /\ at[r] = 0 /\ profile[r] \in OAuth

NeedsReauth(r, e) ==
    e.ok /\ e.status = 401 /\ at[r] = 0 /\ profile[r] \in OAuth /\ ~reauthed[r]

\* What handle_messages does with the result e of a try_with_circuit_breaker call.
Conclude(r, e) ==
    /\ tries' = [tries EXCEPT ![r] = Append(@, e)]
    /\ \/ /\ NeedsReauth(r, e)
          /\ pc' = [pc EXCEPT ![r] = "reauth"]
          /\ reauthed' = [reauthed EXCEPT ![r] = TRUE]
          /\ UNCHANGED <<metrics, at, reply>>
       \/ /\ e.ok
          /\ ~NeedsReauth(r, e)
          /\ Finish(r, TRUE, e.status)
          /\ UNCHANGED <<at, reauthed>>
       \/ /\ ~e.ok
          /\ \E j \in Later(r, at[r]) :
                /\ \A k \in Later(r, at[r]) : j <= k
                /\ at' = [at EXCEPT ![r] = j]
          /\ pc' = [pc EXCEPT ![r] = "gate"]
          /\ UNCHANGED <<metrics, reauthed, reply>>
       \/ /\ ~e.ok
          /\ Later(r, at[r]) = {}
          /\ Finish(r, FALSE, e.status)
          /\ UNCHANGED <<at, reauthed>>

\* The breaker check that opens try_with_circuit_breaker, in one lock scope.
Admit(r) ==
    LET p == Candidate(r, at[r]) IN
    /\ pc[r] = "gate"
    /\ CanAttempt(breaker[p])
    /\ breaker' = [breaker EXCEPT ![p] = AfterCanAttempt(@)]
    /\ pc' = [pc EXCEPT ![r] = "forward"]
    /\ attempts' = [attempts EXCEPT ![r] = 0]
    /\ UNCHANGED <<metrics, profile, at, reauthed, reply, tries, sends>>

\* Mutant: the request waits for the breaker instead of failing over.
Refuse_Waits(r) ==
    pc[r] = "gate" /\ ~CanAttempt(breaker[Candidate(r, at[r])]) /\ UNCHANGED vars

\* The breaker is open: Err without an attempt and without a record.
Refuse(r) ==
    /\ pc[r] = "gate"
    /\ ~CanAttempt(breaker[Candidate(r, at[r])])
    /\ Conclude(r, Attempt(r, "refused"))
    /\ UNCHANGED <<breaker, profile, attempts, sends>>

Untranslatable(r) ==
    r \in Unsupported /\ Kind[Candidate(r, at[r])] = "responses"

\* The second lock scope of try_with_circuit_breaker, then the caller.
RecordAndConclude(r, u) ==
    LET p == Candidate(r, at[r]) IN
    /\ breaker' = [breaker EXCEPT ![p] = AfterOutcome(@, Kind[p], u)]
    /\ Conclude(r, Attempt(r, u))
    /\ UNCHANGED <<profile, attempts, sends>>

\* translate_request(..)? leaves try_forward before anything is sent.
TranslateFails(r) ==
    /\ pc[r] = "forward"
    /\ Untranslatable(r)
    /\ RecordAndConclude(r, "untranslatable")

Post(r) ==
    /\ pc' = [pc EXCEPT ![r] = "inflight"]
    /\ sends' = [sends EXCEPT ![r] = @ + 1]
    /\ UNCHANGED <<breaker, metrics, profile, at, attempts, reauthed, reply, tries>>

Send(r) ==
    /\ pc[r] = "forward"
    /\ ~Untranslatable(r)
    /\ Post(r)

\* Mutant: `<=' for `<'.
RateLimited_OffByOne(r) ==
    /\ pc[r] = "inflight"
    /\ "rate_limited" \in Answers
    /\ attempts[r] <= MaxRetries
    /\ attempts' = [attempts EXCEPT ![r] = @ + 1]
    /\ pc' = [pc EXCEPT ![r] = "backoff"]
    /\ UNCHANGED <<breaker, metrics, profile, at, reauthed, reply, tries, sends>>

\* A 429 with retries left: sleep for retry_after_delay, then post again.
RateLimited(r) ==
    /\ pc[r] = "inflight"
    /\ "rate_limited" \in Answers
    /\ attempts[r] < MaxRetries
    /\ attempts' = [attempts EXCEPT ![r] = @ + 1]
    /\ pc' = [pc EXCEPT ![r] = "backoff"]
    /\ UNCHANGED <<breaker, metrics, profile, at, reauthed, reply, tries, sends>>

Resend(r) ==
    /\ pc[r] = "backoff"
    /\ Post(r)

UpstreamAnswers(r, u) ==
    /\ pc[r] = "inflight"
    /\ u \in SseAnswers => Kind[Candidate(r, at[r])] = "responses"
    /\ u = "rate_limited" => attempts[r] >= MaxRetries
    /\ RecordAndConclude(r, u)

\* invalidate_and_retry returns a token: the primary is tried once more ...
ReauthSucceeds(r) ==
    /\ pc[r] = "reauth"
    /\ pc' = [pc EXCEPT ![r] = "gate"]
    /\ UNCHANGED <<breaker, metrics, profile, at, attempts, reauthed, reply, tries, sends>>

\* ... or an error: the 401 already received is the answer, and counts as a success.
ReauthFails(r) ==
    /\ pc[r] = "reauth"
    /\ Finish(r, TRUE, 401)
    /\ UNCHANGED <<breaker, profile, at, attempts, reauthed, tries, sends>>

Suspended == {"token", "gate", "forward", "inflight", "backoff", "reauth"}

\* The client closes the connection: the future is dropped, nothing is recorded.
Disconnect(r) ==
    /\ pc[r] \in Suspended
    /\ pc' = [pc EXCEPT ![r] = "gone"]
    /\ UNCHANGED <<breaker, metrics, profile, at, attempts, reauthed, reply, tries, sends>>

RecoveryTimeout(p) ==
    /\ breaker[p].last_failure = "recent"
    /\ breaker' = [breaker EXCEPT ![p] = Recovered(@)]
    /\ UNCHANGED <<metrics, pc, profile, at, attempts, reauthed, reply, tries, sends>>

\* One step of request r's handler, or the answer it waits for.
Progress(r) ==
    \/ TokenReady(r) \/ TokenFailed(r)
    \/ Admit(r) \/ Refuse(r)
    \/ TranslateFails(r) \/ Send(r)
    \/ RateLimited(r) \/ Resend(r)
    \/ \E u \in Answers : UpstreamAnswers(r, u)
    \/ ReauthSucceeds(r) \/ ReauthFails(r)

Next ==
    \/ \E r \in Requests : Reject(r) \/ Accept(r) \/ Progress(r) \/ Disconnect(r)
    \/ \E p \in Profiles : RecoveryTimeout(p)

Spec == Init /\ [][Next]_vars

\* Tokio polls every ready task, and what a handler waits for comes: the upstream
\* client has connect and read timeouts, the preflight stops at 2 MiB, the 429
\* sleep is at most 5 seconds.  Nothing is assumed of clients or of the clock.
FairSpec == Spec /\ \A r \in Requests : WF_vars(Progress(r))
----------------------------------------------------------------------------
(* Properties.                                                             *)

TryResult == [at : Nat, cause : Answers \cup {"untranslatable", "refused"},
              ok : BOOLEAN, status : Nat]

\* Every variable keeps the shape the code gives it.
TypeOK ==
    /\ breaker  \in [Profiles -> Breaker]
    /\ metrics  \in [Profiles -> [total : Nat, success : Nat, failure : Nat]]
    /\ pc       \in [Requests -> Locations]
    /\ profile  \in [Requests -> Enabled]
    /\ at       \in [Requests -> Nat]
    /\ attempts \in [Requests -> 0..MaxRetries]
    /\ reauthed \in [Requests -> BOOLEAN]
    /\ reply    \in [Requests -> Nat]
    /\ tries    \in [Requests -> Seq(TryResult)]
    /\ sends    \in [Requests -> Nat]

\* Whatever order concurrent requests check and record in, a breaker's counter,
\* state and failure clock agree: see Coherent.
BreakersCoherent == \A p \in Profiles : Coherent(breaker[p])

\* Failover visits the primary first and then the enabled backups in their
\* configured order, skips none, and goes on only past a candidate that failed;
\* the one exception is the second try of an OAuth primary that answered 401.
FailoverInOrder ==
    \A r \in Requests : LET t == tries[r] IN
        /\ \A k \in 1..(Len(t) - 1) :
              IF t[k].ok
              THEN /\ k = 1 /\ t[1].status = 401 /\ profile[r] \in OAuth
                   /\ t[1].at = 0 /\ t[2].at = 0
              ELSE t[k].at < t[k + 1].at
        /\ t # << >> => t[1].at = 0
        /\ \A j \in 1..Len(Backups[profile[r]]) :
              (t # << >> /\ Backups[profile[r]][j] \in Enabled /\ j < t[Len(t)].at)
                  => \E k \in 1..Len(t) : t[k].at = j

\* The client sees the outcome of the last candidate tried, and a request fails
\* only after the primary and every enabled backup have failed.
AnswerIsLastOutcome ==
    \A r \in Requests : LET t == tries[r] IN
        pc[r] = "done" /\ t # << >> =>
            /\ reply[r] = t[Len(t)].status
            /\ ~t[Len(t)].ok => Later(r, t[Len(t)].at) = {}

\* The counters of a profile account for each request it was the primary of that
\* was handed to a provider and answered, once, under the outcome of its last
\* candidate; rejected and abandoned requests are not counted.
MetricsMatchAnswers ==
    \A p \in Profiles :
        LET served == {r \in Requests : /\ pc[r] = "done" /\ profile[r] = p
                                        /\ tries[r] # << >>}
            good   == {r \in served : tries[r][Len(tries[r])].ok}
        IN  /\ metrics[p].total = Cardinality(served)
            /\ metrics[p].success = Cardinality(good)
            /\ metrics[p].failure = Cardinality(served \ good)

\* What a client is told and what the metrics say of it come from the same try, although
\* the one is returned and the other counted in different places.
AnswersAndCounters == AnswerIsLastOutcome /\ MetricsMatchAnswers

\* The number of times request r was tried against a candidate is bounded by its
\* chain of backups, plus one retry for an OAuth primary that answered 401.
MaxTries(r) ==
    Len(Backups[profile[r]]) + (IF profile[r] \in OAuth THEN 2 ELSE 1)

\* Retries compose: the 429 loop inside the forward, the 401 retry and the
\* failover around it together post one client request a bounded number of times.
SendsBounded ==
    \A r \in Requests : sends[r] <= (MaxRetries + 1) * MaxTries(r)

InFlightAt(p) == {r \in Requests : /\ pc[r] \in {"forward", "inflight", "backoff"}
                                   /\ Candidate(r, at[r]) = p}

\* While a profile's breaker is open and its recovery timeout has not passed, the
\* set of requests working on that provider only shrinks: none joins it, through
\* the primary path, the 401 retry or a failover.
OpenShedsLoad ==
    [][\A p \in Profiles :
          (/\ breaker[p].state = "Open" /\ breaker[p].last_failure = "recent"
           /\ breaker'[p].state = "Open")
              => InFlightAt(p)' \subseteq InFlightAt(p)]_vars

\* Every request that was accepted is answered, unless its client hangs up.
EveryRequestSettles ==
    \A r \in Requests : pc[r] \in Suspended ~> pc[r] \in {"done", "gone"}

\* README.md:129: "while retryable provider-health failures still back off and fail
\* over".  A request that ended on a failure circuit_decision() calls Retryable has
\* no enabled backup left to try.
HealthFailuresFailOver ==
    \A r \in Requests : LET t == tries[r] IN
        (/\ pc[r] = "done" /\ t # << >>
         /\ t[Len(t)].cause \notin {"ok", "untranslatable", "refused"}
         /\ CircuitDecision(ErrorType(t[Len(t)].cause)) = "Retryable")
            => Later(r, t[Len(t)].at) = {}
=============================================================================
