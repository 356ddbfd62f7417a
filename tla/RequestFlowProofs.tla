-------------------------- MODULE RequestFlowProofs --------------------------
(***************************************************************************)
(* Proofs about RequestFlow, for every value of its constants, infinitely  *)
(* many requests included: types and breakers, how often a provider is     *)
(* asked, and in which order, what a request is answered and what is       *)
(* counted.                                                                *)
(***************************************************************************)
EXTENDS RequestFlow, FiniteSetTheorems, TLAPS

Causes == Answers \cup {"untranslatable", "refused"}

----------------------------------------------------------------------------
(* The breaker's methods.                                                  *)

\* A fresh breaker is a coherent breaker.
LEMMA NewBreakerCoherent == NewBreaker \in Breaker /\ Coherent(NewBreaker)
BY ThresholdAssumption DEF NewBreaker, Breaker, CircuitState, Coherent

\* Each method of the breaker returns a breaker, and keeps a coherent one coherent.
LEMMA BreakerMethods ==
  ASSUME NEW cb \in Breaker
  PROVE  /\ AfterCanAttempt(cb) \in Breaker
         /\ RecordSuccess(cb) \in Breaker
         /\ RecordFailure(cb) \in Breaker
         /\ Recovered(cb) \in Breaker
         /\ Coherent(RecordSuccess(cb))
         /\ Coherent(cb) => /\ Coherent(AfterCanAttempt(cb))
                            /\ Coherent(RecordFailure(cb))
                            /\ Coherent(Recovered(cb))
<1> USE ThresholdAssumption DEF Breaker, CircuitState
<1>1. AfterCanAttempt(cb) \in Breaker /\ (Coherent(cb) => Coherent(AfterCanAttempt(cb)))
  BY DEF AfterCanAttempt, Coherent
<1>2. RecordSuccess(cb) \in Breaker /\ Coherent(RecordSuccess(cb))
  BY DEF RecordSuccess, Coherent
<1>3. RecordFailure(cb) \in Breaker /\ (Coherent(cb) => Coherent(RecordFailure(cb)))
  BY DEF RecordFailure, Coherent
<1>4. Recovered(cb) \in Breaker /\ (Coherent(cb) => Coherent(Recovered(cb)))
  BY DEF Recovered, Coherent
<1> QED BY <1>1, <1>2, <1>3, <1>4

\* Recording an outcome is one of the breaker's methods, or leaves it alone.
LEMMA AfterOutcomeBreaker ==
  ASSUME NEW cb \in Breaker, NEW kind, NEW u
  PROVE  /\ AfterOutcome(cb, kind, u) \in Breaker
         /\ Coherent(cb) => Coherent(AfterOutcome(cb, kind, u))
BY BreakerMethods DEF AfterOutcome

----------------------------------------------------------------------------
(* Type correctness.                                                       *)

\* The result of a try is well formed.
LEMMA AttemptType ==
  ASSUME TypeOK, NEW r \in Requests, NEW u \in Causes
  PROVE  Attempt(r, u) \in TryResult
<1>1. StatusOf(Kind[Candidate(r, at[r])], u) \in Nat
  BY DEF StatusOf, AnthropicStatus
<1>2. ForwardSucceeds(Kind[Candidate(r, at[r])], u) \in BOOLEAN
  BY DEF ForwardSucceeds
<1> QED BY <1>1, <1>2 DEF Attempt, TryResult, TypeOK, Causes

\* The candidate a request stands at is a configured profile.
LEMMA LaterType ==
  ASSUME TypeOK, NEW r \in Requests, NEW i \in Nat, NEW j \in Later(r, i)
  PROVE  /\ j \in Nat /\ i < j /\ j \in 1..Len(Backups[profile[r]])
         /\ Backups[profile[r]][j] \in Enabled
<1>1. Len(Backups[profile[r]]) \in Nat
  BY RequestFlowAssumption DEF TypeOK
<1> QED BY <1>1 DEF Later

\* Ending a request keeps the types of what it writes.
LEMMA FinishType ==
  ASSUME TypeOK, NEW r \in Requests, NEW success \in BOOLEAN, NEW status \in Nat,
         Finish(r, success, status)
  PROVE  /\ metrics' \in [Profiles -> [total : Nat, success : Nat, failure : Nat]]
         /\ pc' \in [Requests -> Locations]
         /\ reply' \in [Requests -> Nat]
<1>1. profile[r] \in Profiles
  BY RequestFlowAssumption DEF TypeOK
<1>2. pc' \in [Requests -> Locations] /\ reply' \in [Requests -> Nat]
  BY DEF Finish, TypeOK, Locations
<1>3. metrics' \in [Profiles -> [total : Nat, success : Nat, failure : Nat]]
  <2> DEFINE m == metrics[profile[r]]
             n == [ total   |-> m.total + 1,
                    success |-> IF success THEN m.success + 1 ELSE m.success,
                    failure |-> IF success THEN m.failure ELSE m.failure + 1 ]
  <2>1. m \in [total : Nat, success : Nat, failure : Nat]
    BY <1>1 DEF TypeOK
  <2>2. n \in [total : Nat, success : Nat, failure : Nat]
    BY <2>1
  <2>3. metrics' = [metrics EXCEPT ![profile[r]] = n]
    BY <1>1 DEF Finish, TypeOK
  <2> HIDE DEF n
  <2> QED BY <2>2, <2>3 DEF TypeOK
<1> QED BY <1>2, <1>3

\* Acting on a try's result keeps the types of what it writes.
LEMMA ConcludeType ==
  ASSUME TypeOK, NEW r \in Requests, NEW e \in TryResult, Conclude(r, e)
  PROVE  /\ metrics' \in [Profiles -> [total : Nat, success : Nat, failure : Nat]]
         /\ pc' \in [Requests -> Locations]
         /\ at' \in [Requests -> Nat]
         /\ reauthed' \in [Requests -> BOOLEAN]
         /\ reply' \in [Requests -> Nat]
         /\ tries' \in [Requests -> Seq(TryResult)]
<1>1. tries' \in [Requests -> Seq(TryResult)]
  BY DEF Conclude, TypeOK
<1>2. CASE NeedsReauth(r, e) /\ pc' = [pc EXCEPT ![r] = "reauth"]
           /\ reauthed' = [reauthed EXCEPT ![r] = TRUE]
           /\ UNCHANGED <<metrics, at, reply>>
  BY <1>1, <1>2 DEF TypeOK, Locations
<1>3. CASE (\E s \in BOOLEAN : Finish(r, s, e.status)) /\ UNCHANGED <<at, reauthed>>
  <2>1. e.status \in Nat
    BY DEF TryResult
  <2>2. PICK s \in BOOLEAN : Finish(r, s, e.status)
    BY <1>3
  <2> QED BY <1>1, <1>3, <2>1, <2>2, FinishType DEF TypeOK
<1>4. CASE /\ \E j \in Later(r, at[r]) : at' = [at EXCEPT ![r] = j]
           /\ pc' = [pc EXCEPT ![r] = "gate"]
           /\ UNCHANGED <<metrics, reauthed, reply>>
  <2>1. at[r] \in Nat
    BY DEF TypeOK
  <2>2. PICK j \in Later(r, at[r]) : at' = [at EXCEPT ![r] = j]
    BY <1>4
  <2>3. j \in Nat
    BY <2>1, LaterType
  <2> QED BY <1>1, <1>4, <2>2, <2>3 DEF TypeOK, Locations
<1> QED BY <1>2, <1>3, <1>4 DEF Conclude

\* The step that records an outcome and acts on it keeps every type.
LEMMA RecordType ==
  ASSUME TypeOK, NEW r \in Requests, NEW u \in Causes, RecordAndConclude(r, u)
  PROVE  TypeOK'
<1>1. Attempt(r, u) \in TryResult
  BY AttemptType
<1>2. Conclude(r, Attempt(r, u))
  BY DEF RecordAndConclude
<1>3. breaker' \in [Profiles -> Breaker]
  <2> DEFINE p == Candidate(r, at[r])
  <2>1. breaker' = [breaker EXCEPT ![p] = AfterOutcome(@, Kind[p], u)]
    BY DEF RecordAndConclude
  <2>2. p \in Profiles => AfterOutcome(breaker[p], Kind[p], u) \in Breaker
    BY AfterOutcomeBreaker DEF TypeOK
  <2> QED BY <2>1, <2>2 DEF TypeOK
<1> QED BY <1>1, <1>2, <1>3, ConcludeType DEF RecordAndConclude, TypeOK

\* TypeOK is inductive.
LEMMA TypeStep == TypeOK /\ [Next]_vars => TypeOK'
<1> SUFFICES ASSUME TypeOK, [Next]_vars PROVE TypeOK'
  OBVIOUS
<1> USE RequestFlowAssumption
<1>1. ASSUME NEW r \in Requests, Reject(r) PROVE TypeOK'
  <2>1. pc' \in [Requests -> Locations]
    BY <1>1 DEF Reject, TypeOK, Locations
  <2>2. reply' \in [Requests -> Nat]
    BY <1>1 DEF Reject, TypeOK
  <2> QED BY <1>1, <2>1, <2>2 DEF Reject, TypeOK
<1>2. ASSUME NEW r \in Requests, Accept(r) PROVE TypeOK'
  <2>1. pc' \in [Requests -> Locations]
    BY <1>2 DEF Accept, TypeOK, Locations
  <2> QED BY <1>2, <2>1 DEF Accept, TypeOK
<1>3. ASSUME NEW r \in Requests, TokenReady(r) \/ TokenFailed(r) PROVE TypeOK'
  <2>1. CASE TokenReady(r)
    <3>1. pc' \in [Requests -> Locations]
      BY <2>1 DEF TokenReady, TypeOK, Locations
    <3> QED BY <2>1, <3>1 DEF TokenReady, TypeOK
  <2>2. CASE TokenFailed(r)
    <3>1. pc' \in [Requests -> Locations]
      BY <2>2 DEF TokenFailed, TypeOK, Locations
    <3>2. reply' \in [Requests -> Nat]
      BY <2>2 DEF TokenFailed, TypeOK
    <3> QED BY <2>2, <3>1, <3>2 DEF TokenFailed, TypeOK
  <2> QED BY <1>3, <2>1, <2>2
<1>4. ASSUME NEW r \in Requests, Admit(r) PROVE TypeOK'
  <2> DEFINE p == Candidate(r, at[r])
  <2>1. breaker' = [breaker EXCEPT ![p] = AfterCanAttempt(@)]
    BY <1>4 DEF Admit
  <2>2. breaker' \in [Profiles -> Breaker]
    BY <2>1, BreakerMethods DEF TypeOK
  <2>3. pc' \in [Requests -> Locations] /\ attempts' \in [Requests -> 0..MaxRetries]
    BY <1>4 DEF Admit, TypeOK, Locations
  <2> QED BY <1>4, <2>2, <2>3 DEF Admit, TypeOK
<1>5. ASSUME NEW r \in Requests, Refuse(r) PROVE TypeOK'
  <2>1. Attempt(r, "refused") \in TryResult
    BY AttemptType DEF Causes
  <2> QED BY <1>5, <2>1, ConcludeType DEF Refuse, TypeOK
<1>6. ASSUME NEW r \in Requests, TranslateFails(r) PROVE TypeOK'
  BY <1>6, RecordType DEF TranslateFails, Causes
<1>7. ASSUME NEW r \in Requests, Send(r) \/ Resend(r) PROVE TypeOK'
  <2>1. Post(r)
    BY <1>7 DEF Send, Resend
  <2>2. pc' \in [Requests -> Locations] /\ sends' \in [Requests -> Nat]
    BY <2>1 DEF Post, TypeOK, Locations
  <2> QED BY <2>1, <2>2 DEF Post, TypeOK
<1>8. ASSUME NEW r \in Requests, RateLimited(r) PROVE TypeOK'
  <2>1. pc' \in [Requests -> Locations] /\ attempts' \in [Requests -> 0..MaxRetries]
    BY <1>8 DEF RateLimited, TypeOK, Locations
  <2> QED BY <1>8, <2>1 DEF RateLimited, TypeOK
<1>9. ASSUME NEW r \in Requests, NEW u \in Answers, UpstreamAnswers(r, u) PROVE TypeOK'
  BY <1>9, RecordType DEF UpstreamAnswers, Causes
<1>10. ASSUME NEW r \in Requests, ReauthSucceeds(r) PROVE TypeOK'
  BY <1>10 DEF ReauthSucceeds, TypeOK, Locations
<1>11. ASSUME NEW r \in Requests, ReauthFails(r) PROVE TypeOK'
  <2>1. Finish(r, TRUE, 401)
    BY <1>11 DEF ReauthFails
  <2>2. /\ metrics' \in [Profiles -> [total : Nat, success : Nat, failure : Nat]]
        /\ pc' \in [Requests -> Locations]
        /\ reply' \in [Requests -> Nat]
    <3>1. TRUE \in BOOLEAN /\ 401 \in Nat
      OBVIOUS
    <3> QED BY <2>1, <3>1, FinishType, Zenon
  <2> QED BY <1>11, <2>2 DEF ReauthFails, TypeOK
<1>12. ASSUME NEW r \in Requests, Disconnect(r) PROVE TypeOK'
  BY <1>12 DEF Disconnect, TypeOK, Locations
<1>13. ASSUME NEW p \in Profiles, RecoveryTimeout(p) PROVE TypeOK'
  BY <1>13, BreakerMethods DEF RecoveryTimeout, TypeOK
<1>14. CASE UNCHANGED vars
  BY <1>14 DEF vars, TypeOK
<1> QED
  BY <1>1, <1>2, <1>3, <1>4, <1>5, <1>6, <1>7, <1>8, <1>9, <1>10, <1>11, <1>12,
     <1>13, <1>14 DEF Next, Progress

\* In every behaviour the breakers, counters and request states keep their types.
THEOREM TypeCorrect == Spec => []TypeOK
<1>1. Init => TypeOK
  BY NewBreakerCoherent, RequestFlowAssumption DEF Init, TypeOK, Locations
<1>2. TypeOK /\ [Next]_vars => TypeOK'
  BY TypeStep
<1> QED BY <1>1, <1>2, PTL DEF Spec

----------------------------------------------------------------------------
(* The breakers stay coherent.  TypeOK and BreakersCoherent are inductive  *)
(* together: a step changes one breaker, by one of the breaker's methods.  *)

\* What a step may do to the map of breakers.
LEMMA BreakerChange ==
  ASSUME TypeOK, [Next]_vars
  PROVE  \/ UNCHANGED breaker
         \/ \E p \in Profiles : breaker' = [breaker EXCEPT ![p] = AfterCanAttempt(@)]
         \/ \E p \in Profiles : breaker' = [breaker EXCEPT ![p] = Recovered(@)]
         \/ \E p \in Profiles, u \in Causes :
                breaker' = [breaker EXCEPT ![p] = AfterOutcome(@, Kind[p], u)]
<1> USE DEF TypeOK
<1> DEFINE Goal ==
      \/ UNCHANGED breaker
      \/ \E p \in Profiles : breaker' = [breaker EXCEPT ![p] = AfterCanAttempt(@)]
      \/ \E p \in Profiles : breaker' = [breaker EXCEPT ![p] = Recovered(@)]
      \/ \E p \in Profiles, u \in Causes :
             breaker' = [breaker EXCEPT ![p] = AfterOutcome(@, Kind[p], u)]
<1>2. ASSUME NEW r \in Requests, NEW u \in Causes, RecordAndConclude(r, u)
      PROVE  Goal
  BY <1>2 DEF RecordAndConclude
<1>3. ASSUME NEW r \in Requests, Admit(r)
      PROVE  Goal
  BY <1>3 DEF Admit
<1>4. ASSUME NEW r \in Requests,
             Reject(r) \/ Accept(r) \/ TokenReady(r) \/ TokenFailed(r) \/ Refuse(r)
             \/ Send(r) \/ RateLimited(r) \/ Resend(r) \/ ReauthSucceeds(r)
             \/ ReauthFails(r) \/ Disconnect(r)
      PROVE  Goal
  BY <1>4 DEF Reject, Accept, TokenReady, TokenFailed, Refuse, Send, RateLimited, Resend,
              Post, ReauthSucceeds, ReauthFails, Disconnect
<1>5. ASSUME NEW r \in Requests, TranslateFails(r) \/ \E u \in Answers : UpstreamAnswers(r, u)
      PROVE  Goal
  <2>1. PICK u \in Causes : RecordAndConclude(r, u)
    BY <1>5 DEF TranslateFails, UpstreamAnswers, Causes
  <2> QED BY <2>1, <1>2
<1>6. ASSUME NEW p \in Profiles, RecoveryTimeout(p)
      PROVE  Goal
  BY <1>6 DEF RecoveryTimeout
<1>7. CASE UNCHANGED vars
  BY <1>7 DEF vars
<1> QED
  BY <1>3, <1>4, <1>5, <1>6, <1>7 DEF Next, Progress

\* However the requests interleave, state, counter and failure clock of every
\* breaker agree.
THEOREM BreakersStayCoherent == Spec => []BreakersCoherent
<1>1. Init => BreakersCoherent
  BY NewBreakerCoherent DEF Init, BreakersCoherent
<1>2. TypeOK /\ BreakersCoherent /\ [Next]_vars => BreakersCoherent'
  <2> SUFFICES ASSUME TypeOK, BreakersCoherent, [Next]_vars, NEW q \in Profiles
               PROVE  Coherent(breaker'[q])
    BY DEF BreakersCoherent
  <2>1. breaker[q] \in Breaker /\ Coherent(breaker[q])
    BY DEF TypeOK, BreakersCoherent
  <2>2. \/ breaker'[q] = breaker[q]
        \/ breaker'[q] = AfterCanAttempt(breaker[q])
        \/ breaker'[q] = Recovered(breaker[q])
        \/ \E u \in Causes : breaker'[q] = AfterOutcome(breaker[q], Kind[q], u)
    BY BreakerChange DEF TypeOK
  <2> QED BY <2>1, <2>2, BreakerMethods, AfterOutcomeBreaker
<1> QED BY <1>1, <1>2, TypeCorrect, PTL DEF Spec

----------------------------------------------------------------------------
(* An open breaker sheds load.                                             *)

Working == {"forward", "inflight", "backoff"}

\* Acting on a result never leaves a request at work on a provider.
LEMMA ConcludeStops ==
  ASSUME TypeOK, NEW r \in Requests, NEW e, Conclude(r, e)
  PROVE  /\ pc'[r] \notin Working
         /\ \A q \in Requests : q # r => pc'[q] = pc[q] /\ at'[q] = at[q]
BY DEF Conclude, Finish, TypeOK, Working

\* A request at work after a step was already at work on the same candidate
\* before it, or has just passed its breaker.
LEMMA WorkBegins ==
  ASSUME TypeOK, [Next]_vars, NEW q \in Requests, pc'[q] \in Working
  PROVE  \/ Admit(q) /\ Candidate(q, at[q])' = Candidate(q, at[q])
         \/ pc[q] \in Working /\ Candidate(q, at[q])' = Candidate(q, at[q])
<1> DEFINE Same == Candidate(q, at[q])' = Candidate(q, at[q])
           Goal == (Admit(q) /\ Same) \/ (pc[q] \in Working /\ Same)
<1>1. ASSUME profile' = profile, at'[q] = at[q] PROVE Same
  BY <1>1 DEF Candidate
<1>2. ASSUME NEW r \in Requests,
             Refuse(r) \/ TranslateFails(r) \/ \E u \in Answers : UpstreamAnswers(r, u)
      PROVE  Goal
  <2>1. PICK e : Conclude(r, e)
    BY <1>2 DEF Refuse, TranslateFails, UpstreamAnswers, RecordAndConclude
  <2>2. profile' = profile
    BY <1>2 DEF Refuse, TranslateFails, UpstreamAnswers, RecordAndConclude
  <2>3. q # r
    BY <2>1, ConcludeStops
  <2> QED BY <2>1, <2>2, <2>3, ConcludeStops, <1>1
<1>3. ASSUME NEW r \in Requests, Admit(r) PROVE Goal
  BY <1>3, <1>1 DEF Admit, TypeOK
<1>4. ASSUME NEW r \in Requests,
             Reject(r) \/ Accept(r) \/ TokenReady(r) \/ TokenFailed(r)
             \/ ReauthSucceeds(r) \/ ReauthFails(r) \/ Disconnect(r)
      PROVE  Goal
  BY <1>4, <1>1 DEF Reject, Accept, TokenReady, TokenFailed, ReauthSucceeds, ReauthFails,
                    Finish, Disconnect, TypeOK, Working
<1>5. ASSUME NEW r \in Requests, Send(r) \/ Resend(r) \/ RateLimited(r) PROVE Goal
  BY <1>5, <1>1 DEF Send, Resend, Post, RateLimited, TypeOK, Working
<1>6. ASSUME NEW p \in Profiles, RecoveryTimeout(p) PROVE Goal
  BY <1>6, <1>1 DEF RecoveryTimeout
<1>7. CASE UNCHANGED vars
  BY <1>7, <1>1 DEF vars
<1> QED
  BY <1>2, <1>3, <1>4, <1>5, <1>6, <1>7 DEF Next, Progress

\* While a breaker is open and its recovery timeout has not passed, no request
\* joins those already at work on that provider.
THEOREM OpenBreakerShedsLoad == Spec => OpenShedsLoad
<1>1. TypeOK /\ [Next]_vars =>
        [\A p \in Profiles :
           (/\ breaker[p].state = "Open" /\ breaker[p].last_failure = "recent"
            /\ breaker'[p].state = "Open")
              => InFlightAt(p)' \subseteq InFlightAt(p)]_vars
  <2> SUFFICES ASSUME TypeOK, [Next]_vars, NEW p \in Profiles,
                      breaker[p].state = "Open", breaker[p].last_failure = "recent",
                      NEW q \in InFlightAt(p)'
               PROVE  q \in InFlightAt(p)
    OBVIOUS
  <2>1. q \in Requests /\ pc'[q] \in Working /\ Candidate(q, at[q])' = p
    BY DEF InFlightAt, Working
  <2>2. ~(Admit(q) /\ Candidate(q, at[q]) = p)
    BY DEF Admit, CanAttempt
  <2> QED BY <2>1, <2>2, WorkBegins DEF InFlightAt, Working
<1> QED BY <1>1, TypeCorrect, PTL DEF Spec, OpenShedsLoad

----------------------------------------------------------------------------
(* The number of upstream posts per client request.  The bound is not      *)
(* inductive: SendBudget strengthens it with what each location may have   *)
(* spent, counted in completed tries (at the current candidate's position, *)
(* plus the one 401 retry) of at most MaxRetries + 1 posts each.           *)

Budget(n) == (MaxRetries + 1) * n

\* The tries request r can have completed before the one it is in.
Spent(r) == at[r] + (IF reauthed[r] THEN 1 ELSE 0)

\* What request r may have spent at each location.
Within(r) ==
    /\ at[r] <= Len(Backups[profile[r]])
    /\ reauthed[r] => profile[r] \in OAuth
    /\ pc[r] \in {"new", "token", "gate", "forward", "reauth"}
          => sends[r] <= Budget(Spent(r))
    /\ pc[r] = "inflight" => sends[r] <= Budget(Spent(r)) + attempts[r] + 1
    /\ pc[r] = "backoff"  => sends[r] <= Budget(Spent(r)) + attempts[r]
    /\ pc[r] \in {"done", "gone"} => sends[r] <= Budget(Spent(r) + 1)

SendBudget == \A r \in Requests : Within(r)

\* More tries have a larger budget, and one more try adds MaxRetries + 1 posts.
LEMMA BudgetGrows ==
  ASSUME NEW m \in Nat, NEW n \in Nat, m <= n
  PROVE  /\ Budget(m) \in Nat
         /\ Budget(m) <= Budget(n)
         /\ Budget(m + 1) = Budget(m) + MaxRetries + 1
<1>1. MaxRetries \in Nat
  BY RequestFlowAssumption
<1>2. PICK k \in Nat : n = m + k
  <2>1. n - m \in Nat /\ n = m + (n - m)
    OBVIOUS
  <2> QED BY <2>1
<1>3. (MaxRetries + 1) * (m + k) = (MaxRetries + 1) * m + (MaxRetries + 1) * k
  BY <1>1, <1>2
<1>4. (MaxRetries + 1) * m \in Nat /\ (MaxRetries + 1) * k \in Nat
  BY <1>1, <1>2
<1>5. (MaxRetries + 1) * (m + 1) = (MaxRetries + 1) * m + MaxRetries + 1
  BY <1>1
<1> QED BY <1>2, <1>3, <1>4, <1>5 DEF Budget

\* At most a whole try's worth of posts has gone out when a try ends.
LEMMA TryCost ==
  ASSUME TypeOK, SendBudget, NEW r \in Requests, pc[r] # "done", pc[r] # "gone"
  PROVE  /\ Spent(r) \in Nat
         /\ sends[r] <= Budget(Spent(r) + 1)
         /\ pc[r] \notin {"inflight", "backoff"} => sends[r] <= Budget(Spent(r))
<1>1. MaxRetries \in Nat /\ attempts[r] \in 0..MaxRetries /\ sends[r] \in Nat
  BY RequestFlowAssumption DEF TypeOK
<1>2. Spent(r) \in Nat
  BY DEF TypeOK, Spent
<1>3. Budget(Spent(r)) \in Nat /\ Budget(Spent(r) + 1) = Budget(Spent(r)) + MaxRetries + 1
  BY <1>2, BudgetGrows
<1> QED BY <1>1, <1>2, <1>3 DEF SendBudget, Within, TypeOK, Locations

\* Acting on a result keeps request r within its budget.
LEMMA ConcludeWithin ==
  ASSUME TypeOK, SendBudget, NEW r \in Requests, NEW e, Conclude(r, e),
         pc[r] \notin {"done", "gone"},
         UNCHANGED <<profile, attempts, sends>>
  PROVE  Within(r)'
<1>1. /\ Spent(r) \in Nat
      /\ sends[r] <= Budget(Spent(r) + 1)
      /\ sends[r] \in Nat /\ at[r] \in Nat
  BY TryCost DEF TypeOK
<1>2. at[r] <= Len(Backups[profile[r]]) /\ (reauthed[r] => profile[r] \in OAuth)
  BY DEF SendBudget, Within
<1>3. CASE /\ NeedsReauth(r, e) /\ pc' = [pc EXCEPT ![r] = "reauth"]
           /\ reauthed' = [reauthed EXCEPT ![r] = TRUE]
           /\ UNCHANGED <<metrics, at, reply>>
  <2>1. Spent(r)' = Spent(r) + 1
    BY <1>3 DEF NeedsReauth, Spent, TypeOK
  <2> QED BY <1>1, <1>2, <1>3, <2>1 DEF Within, TypeOK, NeedsReauth, Budget
<1>4. CASE (\E s \in BOOLEAN : Finish(r, s, e.status)) /\ UNCHANGED <<at, reauthed>>
  <2>1. Spent(r)' = Spent(r) /\ pc'[r] = "done"
    BY <1>4 DEF Spent, Finish, TypeOK
  <2> QED BY <1>1, <1>2, <1>4, <2>1 DEF Within, Budget
<1>5. CASE /\ \E j \in Later(r, at[r]) : at' = [at EXCEPT ![r] = j]
           /\ pc' = [pc EXCEPT ![r] = "gate"]
           /\ UNCHANGED <<metrics, reauthed, reply>>
  <2>1. PICK j \in Later(r, at[r]) : at' = [at EXCEPT ![r] = j]
    BY <1>5
  <2>2. j \in Nat /\ at[r] < j /\ j <= Len(Backups[profile[r]])
    <3>1. j \in Nat /\ at[r] < j /\ j \in 1..Len(Backups[profile[r]])
      BY <1>1, LaterType
    <3>2. Len(Backups[profile[r]]) \in Nat
      BY RequestFlowAssumption DEF TypeOK
    <3> QED BY <3>1, <3>2
  <2>3. at'[r] = j /\ pc'[r] = "gate" /\ reauthed'[r] = reauthed[r] /\ profile' = profile
    BY <1>5, <2>1 DEF TypeOK
  <2>4. Spent(r)' \in Nat /\ Spent(r) + 1 <= Spent(r)'
    BY <1>1, <2>2, <2>3 DEF Spent, TypeOK
  <2>5. Budget(Spent(r) + 1) \in Nat /\ Budget(Spent(r)') \in Nat
        /\ Budget(Spent(r) + 1) <= Budget(Spent(r)')
    BY <1>1, <2>4, BudgetGrows
  <2>6. sends'[r] <= Budget(Spent(r)')
    BY <1>1, <2>5
  <2> QED BY <1>2, <2>2, <2>3, <2>6 DEF Within, Budget
<1> QED BY <1>3, <1>4, <1>5 DEF Conclude

\* A step changes what one request at most has spent, and keeps it in its budget.
LEMMA SendBudgetStep == TypeOK /\ SendBudget /\ [Next]_vars => SendBudget'
<1> SUFFICES ASSUME TypeOK, SendBudget, [Next]_vars, NEW q \in Requests
             PROVE  Within(q)'
  BY DEF SendBudget
<1> DEFINE Kept(r) == /\ pc'[r] = pc[r] /\ at'[r] = at[r] /\ reauthed'[r] = reauthed[r]
                      /\ attempts'[r] = attempts[r] /\ sends'[r] = sends[r]
                      /\ profile' = profile
<1>0. /\ Within(q) /\ Spent(q) \in Nat /\ sends[q] \in Nat /\ attempts[q] \in 0..MaxRetries
      /\ MaxRetries \in Nat
  BY RequestFlowAssumption DEF TypeOK, SendBudget, Spent
<1>1. /\ Budget(Spent(q)) \in Nat
      /\ Budget(Spent(q)) <= Budget(Spent(q) + 1)
      /\ Budget(Spent(q) + 1) \in Nat
  BY <1>0, BudgetGrows
<1>2. ASSUME Kept(q) PROVE Within(q)'
  BY <1>0, <1>2 DEF Within, Spent, Budget
<1>3. ASSUME NEW r \in Requests,
             Refuse(r) \/ TranslateFails(r) \/ \E u \in Answers : UpstreamAnswers(r, u)
      PROVE  Within(q)'
  <2>1. PICK e : Conclude(r, e)
    BY <1>3 DEF Refuse, TranslateFails, UpstreamAnswers, RecordAndConclude
  <2>2. UNCHANGED <<profile, attempts, sends>> /\ pc[r] \notin {"done", "gone"}
    BY <1>3 DEF Refuse, TranslateFails, UpstreamAnswers, RecordAndConclude
  <2>3. CASE q = r
    BY <2>1, <2>2, <2>3, ConcludeWithin
  <2>4. CASE q # r
    <3>1. pc'[q] = pc[q] /\ at'[q] = at[q] /\ reauthed'[q] = reauthed[q]
      BY <2>1, <2>4 DEF Conclude, Finish, TypeOK
    <3> QED BY <3>1, <2>2, <1>2
  <2> QED BY <2>3, <2>4
<1>4. ASSUME NEW r \in Requests,
             Reject(r) \/ Accept(r) \/ TokenReady(r) \/ TokenFailed(r)
             \/ ReauthSucceeds(r) \/ ReauthFails(r)
      PROVE  Within(q)'
  <2>1. /\ UNCHANGED <<profile, at, reauthed, attempts, sends>>
        /\ q # r => pc'[q] = pc[q]
        /\ q = r => /\ pc[q] \in {"new", "token", "reauth"}
                    /\ pc'[q] \in {"token", "gate", "done"}
    BY <1>4 DEF Reject, Accept, TokenReady, TokenFailed, ReauthSucceeds, ReauthFails,
                Finish, TypeOK
  <2>2. CASE q # r
    BY <2>1, <2>2, <1>2
  <2>3. CASE q = r
    BY <2>1, <2>3, <1>0, <1>1 DEF Within, Spent, Budget
  <2> QED BY <2>2, <2>3
<1>5. ASSUME NEW r \in Requests, Disconnect(r) PROVE Within(q)'
  <2>1. CASE q # r
    BY <1>5, <2>1, <1>2 DEF Disconnect, TypeOK
  <2>2. CASE q = r
    <3>1. sends[q] <= Budget(Spent(q) + 1)
      BY <1>5, <2>2, TryCost DEF Disconnect, Suspended
    <3>2. pc'[q] = "gone" /\ UNCHANGED <<profile, at, reauthed, attempts, sends>>
      BY <1>5, <2>2 DEF Disconnect, TypeOK
    <3> QED BY <3>1, <3>2, <1>0 DEF Within, Spent, Budget
  <2> QED BY <2>1, <2>2
<1>6. ASSUME NEW r \in Requests, Admit(r) PROVE Within(q)'
  <2>1. CASE q # r
    BY <1>6, <2>1, <1>2 DEF Admit, TypeOK
  <2>2. CASE q = r
    <3>1. /\ pc[q] = "gate" /\ pc'[q] = "forward"
          /\ UNCHANGED <<profile, at, reauthed, sends>>
      BY <1>6, <2>2 DEF Admit, TypeOK
    <3> QED BY <3>1, <1>0 DEF Within, Spent, Budget
  <2> QED BY <2>1, <2>2
<1>7. ASSUME NEW r \in Requests, Send(r) \/ Resend(r) \/ RateLimited(r) PROVE Within(q)'
  <2>1. CASE q # r
    BY <1>7, <2>1, <1>2 DEF Send, Resend, Post, RateLimited, TypeOK
  <2>2. CASE q = r
    <3>1. UNCHANGED <<profile, at, reauthed>>
      BY <1>7 DEF Send, Resend, Post, RateLimited
    <3>2. \/ /\ pc[q] \in {"forward", "backoff"} /\ pc'[q] = "inflight"
             /\ sends'[q] = sends[q] + 1 /\ attempts' = attempts
          \/ /\ pc[q] = "inflight" /\ pc'[q] = "backoff"
             /\ attempts'[q] = attempts[q] + 1 /\ sends' = sends
      BY <1>7, <2>2 DEF Send, Resend, Post, RateLimited, TypeOK
    <3>3. Budget(Spent(q))' = Budget(Spent(q))
      BY <3>1 DEF Spent, Budget
    <3>4. /\ at'[q] <= Len(Backups[profile'[q]])
          /\ reauthed'[q] => profile'[q] \in OAuth
      BY <3>1, <1>0 DEF Within
    <3>5. CASE pc'[q] = "inflight"
      <4>1. sends'[q] <= Budget(Spent(q)) + attempts'[q] + 1
        BY <3>2, <3>5, <1>0, <1>1 DEF Within
      <4> QED BY <3>3, <3>4, <3>5, <4>1 DEF Within
    <3>6. CASE pc'[q] = "backoff"
      <4>1. sends'[q] <= Budget(Spent(q)) + attempts'[q]
        BY <3>2, <3>6, <1>0, <1>1 DEF Within
      <4> QED BY <3>3, <3>4, <3>6, <4>1 DEF Within
    <3> QED BY <3>2, <3>5, <3>6
  <2> QED BY <2>1, <2>2
<1>8. ASSUME NEW p \in Profiles, RecoveryTimeout(p) PROVE Within(q)'
  BY <1>8, <1>2 DEF RecoveryTimeout
<1>9. CASE UNCHANGED vars
  BY <1>9, <1>2 DEF vars
<1> QED
  BY <1>3, <1>4, <1>5, <1>6, <1>7, <1>8, <1>9 DEF Next, Progress

\* One client request is posted upstream at most MaxRetries + 1 times per try, and
\* tried at most once per candidate plus the one retry after a 401.
THEOREM SendsAreBounded == Spec => []SendsBounded
<1>1. Init => SendBudget
  <2> SUFFICES ASSUME Init, NEW r \in Requests PROVE Within(r)
    BY DEF SendBudget
  <2>1. Len(Backups[profile[r]]) \in Nat
    BY RequestFlowAssumption DEF Init
  <2>2. Spent(r) = 0 /\ Budget(0) = 0
    BY RequestFlowAssumption DEF Init, Spent, Budget
  <2> QED BY <2>1, <2>2 DEF Init, Within
<1>2. TypeOK /\ SendBudget /\ [Next]_vars => SendBudget'
  BY SendBudgetStep
<1>3. TypeOK /\ SendBudget => SendsBounded
  <2> SUFFICES ASSUME TypeOK, SendBudget, NEW r \in Requests
               PROVE  sends[r] <= Budget(MaxTries(r))
    BY DEF SendsBounded, Budget
  <2>1. Within(r) /\ at[r] \in Nat /\ sends[r] \in Nat /\ Len(Backups[profile[r]]) \in Nat
    BY RequestFlowAssumption DEF TypeOK, SendBudget
  <2>2. Spent(r) + 1 \in Nat /\ MaxTries(r) \in Nat /\ Spent(r) + 1 <= MaxTries(r)
    <3>1. reauthed[r] \in BOOLEAN
      BY DEF TypeOK
    <3>2. CASE profile[r] \in OAuth
      BY <2>1, <3>1, <3>2 DEF Within, Spent, MaxTries
    <3>3. CASE profile[r] \notin OAuth
      BY <2>1, <3>1, <3>3 DEF Within, Spent, MaxTries
    <3> QED BY <3>2, <3>3
  <2>3. Budget(Spent(r) + 1) \in Nat /\ Budget(MaxTries(r)) \in Nat
        /\ Budget(Spent(r) + 1) <= Budget(MaxTries(r))
    BY <2>2, BudgetGrows
  <2>4. sends[r] <= Budget(Spent(r) + 1)
    BY <2>1, TryCost DEF Within
  <2> QED BY <2>1, <2>3, <2>4
<1> QED BY <1>1, <1>2, <1>3, TypeCorrect, PTL DEF Spec

----------------------------------------------------------------------------
(* The order of the tries, and what is answered and counted.               *)

LastTry(r) == tries[r][Len(tries[r])]

Visited(r, i) == \E k \in 1..Len(tries[r]) : tries[r][k].at = i

\* Where a request stands that has to be tried at position at[r]: at its primary, for
\* the first time or for the second after a 401, or behind a candidate that failed,
\* with no enabled backup left out.
Standing(r) ==
    /\ tries[r] = << >> => at[r] = 0
    /\ tries[r] # << >> =>
         IF LastTry(r).ok
         THEN /\ Len(tries[r]) = 1 /\ LastTry(r).status = 401 /\ LastTry(r).at = 0
              /\ at[r] = 0 /\ profile[r] \in OAuth /\ reauthed[r]
         ELSE LastTry(r).at < at[r]
    /\ \A j \in 1..Len(Backups[profile[r]]) :
          Backups[profile[r]][j] \in Enabled /\ j < at[r] => Visited(r, j)

\* How the history of request r agrees with where its handler is.
Tracks(r) ==
    /\ pc[r] \in {"new", "token"} => tries[r] = << >> /\ at[r] = 0
    /\ pc[r] \in {"gate", "forward", "inflight", "backoff", "reauth"} => Standing(r)
    /\ pc[r] = "reauth" => tries[r] # << >> /\ LastTry(r).ok

\* FailoverInOrder and AnswerIsLastOutcome, for one request.
Tried(r) == tries[r] # << >>

Ordered(r) ==
    /\ \A k \in 1..(Len(tries[r]) - 1) :
          IF tries[r][k].ok
          THEN /\ k = 1 /\ tries[r][1].status = 401 /\ profile[r] \in OAuth
               /\ tries[r][1].at = 0 /\ tries[r][2].at = 0
          ELSE tries[r][k].at < tries[r][k + 1].at
    /\ Tried(r) => tries[r][1].at = 0
    /\ \A j \in 1..Len(Backups[profile[r]]) :
          Tried(r) /\ Backups[profile[r]][j] \in Enabled /\ j < LastTry(r).at => Visited(r, j)

Answered(r) ==
    pc[r] = "done" /\ Tried(r) =>
        /\ reply[r] = LastTry(r).status
        /\ ~LastTry(r).ok => Later(r, LastTry(r).at) = {}

OrderInv == \A r \in Requests : Ordered(r) /\ Answered(r) /\ Tracks(r)

\* The invariant implies the two properties the runs check.
LEMMA OrderInvSays == OrderInv => FailoverInOrder /\ AnswerIsLastOutcome
BY DEF OrderInv, FailoverInOrder, AnswerIsLastOutcome, Ordered, Answered, Tried, LastTry, Visited

\* What is said of a request stays true of it as long as none of its own state changes.
LEMMA OrderUnmoved ==
  ASSUME NEW q \in Requests, Ordered(q) /\ Answered(q) /\ Tracks(q),
         pc'[q] = pc[q], at'[q] = at[q], reauthed'[q] = reauthed[q],
         reply'[q] = reply[q], tries'[q] = tries[q], profile'[q] = profile[q]
  PROVE  (Ordered(q) /\ Answered(q) /\ Tracks(q))'
<1>1. LastTry(q)' = LastTry(q) /\ Tried(q)' = Tried(q)
  BY DEF LastTry, Tried
<1>2. \A i : Visited(q, i)' <=> Visited(q, i)
  BY DEF Visited
<1>3. Ordered(q)'
  BY <1>1, <1>2 DEF Ordered
<1>4. Answered(q)'
  <2>1. Later(q, LastTry(q).at)' = Later(q, LastTry(q).at)
    BY <1>1 DEF Later
  <2> QED BY <1>1, <2>1 DEF Answered
<1>5. Standing(q)' <=> Standing(q)
  BY <1>1, <1>2 DEF Standing
<1>6. Tracks(q)'
  BY <1>1, <1>5 DEF Tracks
<1> QED BY <1>3, <1>4, <1>6

\* The history after a try.
LEMMA TriesAfter ==
  ASSUME TypeOK, NEW r \in Requests, NEW e \in TryResult, Conclude(r, e)
  PROVE  /\ Len(tries[r]) \in Nat
         /\ Len(tries'[r]) = Len(tries[r]) + 1
         /\ \A k \in 1..Len(tries[r]) : tries'[r][k] = tries[r][k]
         /\ tries'[r][Len(tries[r]) + 1] = e
         /\ tries'[r] # << >>
         /\ LastTry(r)' = e
<1>1. tries[r] \in Seq(TryResult) /\ tries'[r] = Append(tries[r], e)
  BY DEF TypeOK, Conclude
<1>2. PICK before \in Seq(TryResult) : before = tries[r]
  BY <1>1
<1>3. PICK after : after = Append(before, e)
  OBVIOUS
<1>4. /\ Len(before) \in Nat /\ Len(after) = Len(before) + 1
      /\ \A k \in 1..Len(before) : after[k] = before[k]
      /\ after[Len(before) + 1] = e
  BY <1>3
<1>5. after # << >> /\ after[Len(after)] = e
  BY <1>4
<1>6. tries'[r] = after
  BY <1>1, <1>2, <1>3
<1> QED BY <1>2, <1>4, <1>5, <1>6 DEF LastTry

\* A try visits the position it is at, and what was visited stays visited.
LEMMA VisitedAfter ==
  ASSUME TypeOK, NEW r \in Requests, NEW e \in TryResult, Conclude(r, e)
  PROVE  \A i : Visited(r, i) \/ i = e.at => Visited(r, i)'
<1> SUFFICES ASSUME NEW i, Visited(r, i) \/ i = e.at PROVE Visited(r, i)'
  OBVIOUS
<1>1. CASE Visited(r, i)
  <2>1. PICK k \in 1..Len(tries[r]) : tries[r][k].at = i
    BY <1>1 DEF Visited
  <2>2. k \in 1..Len(tries'[r]) /\ tries'[r][k].at = i
    BY <2>1, TriesAfter
  <2> QED BY <2>2 DEF Visited
<1>2. CASE i = e.at
  <2>1. Len(tries[r]) + 1 \in 1..Len(tries'[r]) /\ tries'[r][Len(tries[r]) + 1].at = i
    BY <1>2, TriesAfter
  <2> QED BY <2>1 DEF Visited
<1> QED BY <1>1, <1>2

\* The result of a try from where the request stands extends its history in order.
LEMMA ConcludeOrdered ==
  ASSUME TypeOK, NEW r \in Requests, NEW e \in TryResult, Conclude(r, e),
         Ordered(r), Standing(r), e.at = at[r], profile' = profile
  PROVE  Ordered(r)'
<1> DEFINE n == Len(tries[r])
           t == tries'[r]
<1>1. /\ n \in Nat /\ Len(t) = n + 1 /\ t[n + 1] = e /\ LastTry(r)' = e
      /\ \A k \in 1..n : t[k] = tries[r][k]
      /\ Tried(r)' /\ (Tried(r) <=> n # 0)
  BY TriesAfter DEF Tried, TypeOK
<1> HIDE DEF n, t
<1>2. ASSUME NEW k \in 1..(Len(t) - 1)
      PROVE  IF t[k].ok
             THEN /\ k = 1 /\ t[1].status = 401 /\ profile[r] \in OAuth
                  /\ t[1].at = 0 /\ t[2].at = 0
             ELSE t[k].at < t[k + 1].at
  <2>1. CASE k < n
    <3>1. /\ k \in 1..n /\ k + 1 \in 1..n /\ k \in 1..(n - 1) /\ n >= 2
          /\ 1 \in 1..n /\ 2 \in 1..n
      BY <1>1, <2>1
    <3>2. t[k] = tries[r][k] /\ t[k + 1] = tries[r][k + 1]
          /\ t[1] = tries[r][1] /\ t[2] = tries[r][2]
      BY <1>1, <3>1
    <3> QED BY <3>1, <3>2 DEF Ordered, n
  <2>2. CASE k = n
    <3>1. t[n] = LastTry(r) /\ t[n + 1].at = at[r] /\ Tried(r) /\ n \in 1..n
      BY <1>1, <2>2 DEF LastTry, n
    <3> QED BY <1>1, <2>2, <3>1 DEF Standing, Tried, n
  <2> QED BY <1>1, <2>1, <2>2
<1>3. t[1].at = 0
  <2>1. CASE n = 0
    BY <1>1, <2>1 DEF Standing, Tried
  <2>2. CASE n # 0
    BY <1>1, <2>2 DEF Ordered
  <2> QED BY <2>1, <2>2
<1>4. ASSUME NEW j \in 1..Len(Backups[profile[r]]),
             Backups[profile[r]][j] \in Enabled, j < e.at
      PROVE  Visited(r, j)'
  BY <1>4, VisitedAfter DEF Standing
<1> QED BY <1>1, <1>2, <1>3, <1>4 DEF Ordered, t

\* The answer, if the try is the last, is its outcome.
LEMMA ConcludeAnswered ==
  ASSUME TypeOK, NEW r \in Requests, NEW e \in TryResult, Conclude(r, e),
         e.at = at[r], profile' = profile
  PROVE  Answered(r)'
<1>1. LastTry(r)' = e /\ Later(r, e.at)' = Later(r, at[r])
  BY TriesAfter DEF Later
<1>2. CASE pc'[r] # "done"
  BY <1>2 DEF Answered
<1>3. CASE pc'[r] = "done"
  <2>1. \E s \in BOOLEAN : Finish(r, s, e.status) /\ (~e.ok => Later(r, at[r]) = {})
    BY <1>3 DEF Conclude, TypeOK, Locations
  <2>2. reply'[r] = e.status
    BY <2>1 DEF Finish, TypeOK
  <2> QED BY <1>1, <2>1, <2>2 DEF Answered
<1> QED BY <1>2, <1>3

\* A request that goes on after a try stands where it may be tried next.
LEMMA ConcludeTracks ==
  ASSUME TypeOK, NEW r \in Requests, NEW e \in TryResult, Conclude(r, e),
         Standing(r), e.at = at[r], profile' = profile
  PROVE  Tracks(r)'
<1>1. /\ LastTry(r)' = e /\ tries'[r] # << >>
      /\ at[r] \in Nat /\ Len(Backups[profile[r]]) \in Nat
      /\ Len(tries[r]) \in Nat /\ Len(tries'[r]) = Len(tries[r]) + 1
  BY TriesAfter, RequestFlowAssumption DEF TypeOK
<1>2. CASE /\ NeedsReauth(r, e) /\ pc' = [pc EXCEPT ![r] = "reauth"]
           /\ reauthed' = [reauthed EXCEPT ![r] = TRUE]
           /\ UNCHANGED <<metrics, at, reply>>
  <2>1. /\ e.ok /\ e.status = 401 /\ at[r] = 0 /\ at'[r] = 0 /\ profile[r] \in OAuth
        /\ reauthed'[r] /\ ~reauthed[r] /\ pc'[r] = "reauth"
    BY <1>2 DEF NeedsReauth, TypeOK
  <2>2. tries[r] = << >>
    <3>1. tries[r] # << >> => LastTry(r).at \in Nat
      <4>1. tries[r] # << >> => tries[r][Len(tries[r])] \in TryResult
        BY DEF TypeOK
      <4> QED BY <4>1 DEF LastTry, TryResult
    <3> QED BY <2>1, <3>1 DEF Standing
  <2>3. Len(tries'[r]) = 1
    BY <1>1, <2>2
  <2>4. Standing(r)'
    <3>1. /\ LastTry(r)'.ok /\ LastTry(r)'.status = 401 /\ LastTry(r)'.at = 0
          /\ profile'[r] \in OAuth
      BY <1>1, <2>1
    <3>2. \A j \in 1..Len(Backups[profile[r]]) : ~(j < 0)
      BY <1>1
    <3>3. \A j \in 1..Len(Backups[profile[r]]) : ~(j < at'[r])
      BY <2>1, <3>2
    <3> QED BY <1>1, <2>1, <2>3, <3>1, <3>3, Zenon DEF Standing
  <2> QED BY <1>1, <2>1, <2>4 DEF Tracks
<1>3. CASE \E s \in BOOLEAN : Finish(r, s, e.status)
  <2>1. pc'[r] = "done"
    BY <1>3 DEF Finish, TypeOK
  <2> QED BY <2>1 DEF Tracks
<1>4. CASE /\ ~e.ok
           /\ \E j \in Later(r, at[r]) : /\ \A k \in Later(r, at[r]) : j <= k
                                         /\ at' = [at EXCEPT ![r] = j]
           /\ pc' = [pc EXCEPT ![r] = "gate"]
           /\ UNCHANGED <<metrics, reauthed, reply>>
  <2>1. PICK j \in Later(r, at[r]) : /\ \A k \in Later(r, at[r]) : j <= k
                                     /\ at' = [at EXCEPT ![r] = j]
    BY <1>4
  <2>2. j \in Nat /\ at[r] < j /\ at'[r] = j /\ pc'[r] = "gate"
    BY <1>1, <1>4, <2>1, LaterType DEF TypeOK
  <2>3. ASSUME NEW i \in 1..Len(Backups[profile[r]]), Backups[profile[r]][i] \in Enabled, i < j
        PROVE  Visited(r, i)'
    <3>1. CASE i < at[r]
      BY <2>3, <3>1, VisitedAfter DEF Standing
    <3>2. CASE i = at[r]
      BY <3>2, VisitedAfter
    <3>3. CASE at[r] < i
      <4>1. i \in Later(r, at[r])
        BY <1>1, <2>3, <3>3 DEF Later
      <4> QED BY <1>1, <2>1, <2>2, <2>3, <4>1
    <3> QED BY <1>1, <3>1, <3>2, <3>3
  <2>4. Standing(r)'
    BY <1>1, <1>4, <2>2, <2>3 DEF Standing
  <2> QED BY <2>2, <2>4 DEF Tracks
<1> QED BY <1>2, <1>3, <1>4 DEF Conclude

\* OrderInv is preserved by every step.
LEMMA OrderStep == TypeOK /\ OrderInv /\ [Next]_vars => OrderInv'
<1> DEFINE Local(q) == Ordered(q) /\ Answered(q) /\ Tracks(q)
<1> SUFFICES ASSUME TypeOK, OrderInv, [Next]_vars, NEW q \in Requests
             PROVE  Local(q)'
  BY DEF OrderInv
<1>0. Local(q)
  BY DEF OrderInv
<1> DEFINE Kept == /\ pc'[q] = pc[q] /\ at'[q] = at[q] /\ reauthed'[q] = reauthed[q]
                   /\ reply'[q] = reply[q] /\ tries'[q] = tries[q] /\ profile'[q] = profile[q]
           Moved == /\ at'[q] = at[q] /\ reauthed'[q] = reauthed[q]
                    /\ tries'[q] = tries[q] /\ profile'[q] = profile[q]
<1>1. Kept => Local(q)'
  BY <1>0, OrderUnmoved
<1>2. Moved => /\ Ordered(q)' /\ (Standing(q)' <=> Standing(q))
               /\ LastTry(q)' = LastTry(q) /\ Tried(q)' = Tried(q)
  <2> SUFFICES ASSUME Moved PROVE /\ Ordered(q)' /\ (Standing(q)' <=> Standing(q))
                                  /\ LastTry(q)' = LastTry(q) /\ Tried(q)' = Tried(q)
    OBVIOUS
  <2>1. LastTry(q)' = LastTry(q) /\ Tried(q)' = Tried(q)
    BY DEF LastTry, Tried
  <2>2. \A i : Visited(q, i)' <=> Visited(q, i)
    BY DEF Visited
  <2>3. Ordered(q)'
    BY <1>0, <2>1, <2>2 DEF Ordered
  <2>4. Standing(q)' <=> Standing(q)
    BY <2>1, <2>2 DEF Standing
  <2> QED BY <2>1, <2>3, <2>4
<1>3. ASSUME NEW r \in Requests,
             Refuse(r) \/ TranslateFails(r) \/ \E u \in Answers : UpstreamAnswers(r, u)
      PROVE  Local(q)'
  <2>1. PICK u \in Causes : Conclude(r, Attempt(r, u))
    BY <1>3 DEF Refuse, TranslateFails, UpstreamAnswers, RecordAndConclude, Causes
  <2>2. profile' = profile /\ pc[r] \in {"gate", "forward", "inflight"}
    BY <1>3 DEF Refuse, TranslateFails, UpstreamAnswers, RecordAndConclude
  <2>3. CASE q = r
    <3>1. Attempt(r, u) \in TryResult /\ Attempt(r, u).at = at[r]
      BY AttemptType DEF Attempt
    <3>2. Ordered(r) /\ Standing(r)
      BY <1>0, <2>2, <2>3 DEF Tracks
    <3> HIDE DEF Local
    <3>3. Ordered(r)' /\ Answered(r)' /\ Tracks(r)'
      BY <2>1, <2>2, <3>1, <3>2, ConcludeOrdered, ConcludeAnswered, ConcludeTracks
    <3> QED BY <2>3, <3>3 DEF Local
  <2>4. CASE q # r
    <3>1. Kept
      BY <2>1, <2>2, <2>4 DEF Conclude, Finish, TypeOK
    <3> QED BY <1>1, <3>1
  <2> QED BY <2>3, <2>4
<1>4. ASSUME NEW r \in Requests, Reject(r) \/ TokenFailed(r) PROVE Local(q)'
  <2>1. CASE q = r
    <3>1. Moved /\ pc'[q] = "done" /\ pc[q] \in {"new", "token"}
      BY <1>4, <2>1 DEF Reject, TokenFailed, TypeOK
    <3> QED BY <1>0, <1>2, <3>1 DEF Tracks, Answered, Tried
  <2>2. CASE q # r
    BY <1>1, <1>4, <2>2 DEF Reject, TokenFailed, TypeOK
  <2> QED BY <2>1, <2>2
<1>5. ASSUME NEW r \in Requests, Accept(r) \/ TokenReady(r) PROVE Local(q)'
  <2>1. CASE q = r
    <3>1. Moved /\ pc'[q] \in {"token", "gate"} /\ pc[q] \in {"new", "token"}
      BY <1>5, <2>1 DEF Accept, TokenReady, TypeOK
    <3>2. tries[q] = << >> /\ at[q] = 0
      BY <1>0, <3>1 DEF Tracks
    <3>3. Standing(q)
      BY <3>2 DEF Standing
    <3>4. Answered(q)'
      BY <3>1 DEF Answered
    <3>5. Tracks(q)'
      BY <1>2, <3>1, <3>2, <3>3 DEF Tracks
    <3> QED BY <1>2, <3>1, <3>4, <3>5
  <2>2. CASE q # r
    BY <1>1, <1>5, <2>2 DEF Accept, TokenReady, TypeOK
  <2> QED BY <2>1, <2>2
<1>6. ASSUME NEW r \in Requests,
             Admit(r) \/ Send(r) \/ RateLimited(r) \/ Resend(r) \/ ReauthSucceeds(r)
      PROVE  Local(q)'
  <2>1. CASE q = r
    <3>1. /\ Moved
          /\ pc[q] \in {"gate", "forward", "inflight", "backoff", "reauth"}
          /\ pc'[q] \in {"gate", "forward", "inflight", "backoff"}
      BY <1>6, <2>1 DEF Admit, Send, RateLimited, Resend, Post, ReauthSucceeds, TypeOK
    <3>2. Answered(q)'
      BY <3>1 DEF Answered
    <3>3. Tracks(q)'
      BY <1>0, <1>2, <3>1 DEF Tracks
    <3> QED BY <1>2, <3>1, <3>2, <3>3
  <2>2. CASE q # r
    BY <1>1, <1>6, <2>2 DEF Admit, Send, RateLimited, Resend, Post, ReauthSucceeds, TypeOK
  <2> QED BY <2>1, <2>2
<1>7. ASSUME NEW r \in Requests, ReauthFails(r) PROVE Local(q)'
  <2>1. CASE q = r
    <3>1. Moved /\ pc[q] = "reauth" /\ pc'[q] = "done" /\ reply'[q] = 401
      BY <1>7, <2>1 DEF ReauthFails, Finish, TypeOK
    <3>2. LastTry(q).ok /\ LastTry(q).status = 401
      BY <1>0, <3>1 DEF Tracks, Standing
    <3>3. Answered(q)'
      BY <1>2, <3>1, <3>2 DEF Answered
    <3>4. Tracks(q)'
      BY <3>1 DEF Tracks
    <3> QED BY <1>2, <3>1, <3>3, <3>4
  <2>2. CASE q # r
    BY <1>1, <1>7, <2>2 DEF ReauthFails, Finish, TypeOK
  <2> QED BY <2>1, <2>2
<1>8. ASSUME NEW r \in Requests, Disconnect(r) PROVE Local(q)'
  <2>1. CASE q = r
    <3>1. Moved /\ pc'[q] = "gone"
      BY <1>8, <2>1 DEF Disconnect, TypeOK
    <3> QED BY <1>2, <3>1 DEF Tracks, Answered
  <2>2. CASE q # r
    BY <1>1, <1>8, <2>2 DEF Disconnect, TypeOK
  <2> QED BY <2>1, <2>2
<1>9. ASSUME NEW p \in Profiles, RecoveryTimeout(p) PROVE Local(q)'
  BY <1>1, <1>9 DEF RecoveryTimeout
<1>10. CASE UNCHANGED vars
  BY <1>1, <1>10 DEF vars
<1> QED
  BY <1>3, <1>4, <1>5, <1>6, <1>7, <1>8, <1>9, <1>10 DEF Next, Progress

\* It holds at the start and every step keeps it.
LEMMA OrderInductive == Spec => []OrderInv
<1>1. Init => OrderInv
  <2> SUFFICES ASSUME Init, NEW r \in Requests
               PROVE  Ordered(r) /\ Answered(r) /\ Tracks(r)
    BY DEF OrderInv
  <2> QED BY DEF Init, Ordered, Answered, Tracks, Tried
<1>2. TypeOK /\ OrderInv /\ [Next]_vars => OrderInv'
  BY OrderStep
<1> QED BY <1>1, <1>2, TypeCorrect, PTL DEF Spec

\* However breakers open and requests fail, each request walks its primary and its
\* enabled backups in their configured order, leaves none out, and tries a provider
\* that has answered again only once, after a 401.
THEOREM FailoverKeepsOrder == Spec => []FailoverInOrder
<1>1. OrderInv => FailoverInOrder
  BY OrderInvSays
<1> QED BY <1>1, OrderInductive, PTL

----------------------------------------------------------------------------
(* What is counted.  The sets of answered requests the counters stand for  *)
(* are finite in every state, whether or not the set of requests is.       *)

Counts(r) == pc[r] = "done" /\ Tried(r)

Served(p) == {r \in Requests : Counts(r) /\ profile[r] = p}
Good(p)   == {r \in Served(p) : LastTry(r).ok}

Counted(p) ==
    /\ IsFiniteSet(Served(p))
    /\ metrics[p].total = Cardinality(Served(p))
    /\ metrics[p].success = Cardinality(Good(p))
    /\ metrics[p].failure = Cardinality(Served(p) \ Good(p))

MetricsInv == \A p \in Profiles : Counted(p)

\* The counters by profile imply the property, which spells the sets out.
LEMMA MetricsInvSays == MetricsInv => MetricsMatchAnswers
<1> SUFFICES ASSUME MetricsInv, NEW p \in Profiles
             PROVE  LET served == {r \in Requests : /\ pc[r] = "done" /\ profile[r] = p
                                                     /\ tries[r] # << >>}
                        good   == {r \in served : tries[r][Len(tries[r])].ok}
                    IN  /\ metrics[p].total = Cardinality(served)
                        /\ metrics[p].success = Cardinality(good)
                        /\ metrics[p].failure = Cardinality(served \ good)
  BY DEF MetricsMatchAnswers
<1>1. Served(p) = {r \in Requests : /\ pc[r] = "done" /\ profile[r] = p
                                    /\ tries[r] # << >>}
  BY DEF Served, Counts, Tried
<1>2. Good(p) = {r \in Served(p) : tries[r][Len(tries[r])].ok}
  BY DEF Good, LastTry
<1> QED BY <1>1, <1>2 DEF MetricsInv, Counted

\* A step leaves what is counted of request q as it is.
Recounts(q) == /\ Counts(q)' <=> Counts(q)
               /\ Counts(q) => LastTry(q)' = LastTry(q)

\* A step answers request r, for the first time, and counts it as its last try says.
CountedNow(r) ==
    /\ ~Counts(r) /\ Counts(r)'
    /\ \E success \in BOOLEAN, status \in Nat :
          Finish(r, success, status) /\ (LastTry(r)'.ok <=> success)
    /\ \A q \in Requests \ {r} : Recounts(q)

\* The counters change exactly when a request that was tried is answered.
LEMMA CountingStep ==
  ASSUME TypeOK, OrderInv, [Next]_vars
  PROVE  /\ profile' = profile
         /\ \/ UNCHANGED metrics /\ \A q \in Requests : Recounts(q)
            \/ \E r \in Requests : CountedNow(r)
<1> DEFINE Goal == /\ profile' = profile
                   /\ \/ UNCHANGED metrics /\ \A q \in Requests : Recounts(q)
                      \/ \E r \in Requests : CountedNow(r)
<1>1. ASSUME NEW q \in Requests, tries'[q] = tries[q],
             pc'[q] = pc[q] \/ ~Tried(q) \/ (pc[q] # "done" /\ pc'[q] # "done")
      PROVE  Recounts(q)
  <2>1. Tried(q)' <=> Tried(q)
    BY <1>1 DEF Tried
  <2>2. LastTry(q)' = LastTry(q)
    BY <1>1 DEF LastTry
  <2> QED BY <1>1, <2>1, <2>2 DEF Recounts, Counts
<1>2. ASSUME NEW r \in Requests,
             Refuse(r) \/ TranslateFails(r) \/ \E u \in Answers : UpstreamAnswers(r, u)
      PROVE  Goal
  <2>1. PICK u \in Causes : Conclude(r, Attempt(r, u))
    BY <1>2 DEF Refuse, TranslateFails, UpstreamAnswers, RecordAndConclude, Causes
  <2>2. profile' = profile /\ pc[r] \in {"gate", "forward", "inflight"}
    BY <1>2 DEF Refuse, TranslateFails, UpstreamAnswers, RecordAndConclude
  <2> DEFINE e == Attempt(r, u)
  <2>3. e \in TryResult
    BY AttemptType
  <2>4. e.status \in Nat
    BY <2>3 DEF TryResult
  <2> HIDE DEF e
  <2>5. LastTry(r)' = e /\ Tried(r)'
    BY <2>1, <2>3, TriesAfter DEF e, Tried
  <2>6. \A q \in Requests \ {r} : Recounts(q)
    <3>1. \A q \in Requests \ {r} : pc'[q] = pc[q] /\ tries'[q] = tries[q]
      BY <2>1 DEF Conclude, Finish, TypeOK
    <3> QED BY <1>1, <3>1
  <2>7. ~Counts(r)
    BY <2>2 DEF Counts
  <2>8. CASE pc'[r] = "done"
    <3>1. \E success \in BOOLEAN : Finish(r, success, e.status) /\ (e.ok <=> success)
      BY <2>1, <2>8 DEF Conclude, TypeOK, e
    <3> QED BY <2>2, <2>4, <2>5, <2>6, <2>7, <2>8, <3>1 DEF CountedNow, Counts
  <2>9. CASE pc'[r] # "done"
    <3>1. UNCHANGED metrics
      BY <2>1, <2>9 DEF Conclude, Finish, TypeOK
    <3>2. Recounts(r)
      BY <2>7, <2>9 DEF Recounts, Counts
    <3> QED BY <2>2, <2>6, <3>1, <3>2
  <2> QED BY <2>8, <2>9
<1>3. ASSUME NEW r \in Requests, ReauthFails(r) PROVE Goal
  <2>1. /\ Finish(r, TRUE, 401) /\ pc[r] = "reauth" /\ pc'[r] = "done"
        /\ tries' = tries /\ profile' = profile
        /\ \A q \in Requests \ {r} : pc'[q] = pc[q]
    BY <1>3 DEF ReauthFails, Finish, TypeOK
  <2>2. LastTry(r).ok /\ Tried(r)
    BY <2>1 DEF OrderInv, Tracks, Tried
  <2>3. LastTry(r)' = LastTry(r) /\ Tried(r)' = Tried(r)
    BY <2>1 DEF LastTry, Tried
  <2>4. \A q \in Requests \ {r} : Recounts(q)
    BY <1>1, <2>1
  <2>5. TRUE \in BOOLEAN /\ 401 \in Nat /\ (LastTry(r)'.ok <=> TRUE)
    BY <2>2, <2>3
  <2>6. ~Counts(r) /\ Counts(r)'
    BY <2>1, <2>2, <2>3 DEF Counts
  <2> QED BY <2>1, <2>4, <2>5, <2>6, Zenon DEF CountedNow
<1>4. ASSUME NEW r \in Requests, Reject(r) \/ TokenFailed(r) PROVE Goal
  <2>1. /\ pc[r] \in {"new", "token"} /\ UNCHANGED <<metrics, profile, tries>>
        /\ \A q \in Requests \ {r} : pc'[q] = pc[q]
    BY <1>4 DEF Reject, TokenFailed, TypeOK
  <2>2. ~Tried(r)
    BY <2>1 DEF OrderInv, Tracks, Tried
  <2> QED BY <1>1, <2>1, <2>2
<1>5. ASSUME NEW r \in Requests,
             Accept(r) \/ TokenReady(r) \/ Admit(r) \/ Send(r) \/ RateLimited(r)
             \/ Resend(r) \/ ReauthSucceeds(r) \/ Disconnect(r)
      PROVE  Goal
  <2>1. UNCHANGED <<metrics, profile, tries>>
    BY <1>5 DEF Accept, TokenReady, Admit, Send, RateLimited, Resend, Post, ReauthSucceeds,
                Disconnect
  <2>2. pc[r] # "done" /\ pc'[r] # "done" /\ \A q \in Requests \ {r} : pc'[q] = pc[q]
    BY <1>5 DEF Accept, TokenReady, Admit, Send, RateLimited, Resend, Post, ReauthSucceeds,
                Disconnect, Suspended, TypeOK
  <2> QED BY <1>1, <2>1, <2>2
<1>6. ASSUME NEW p \in Profiles, RecoveryTimeout(p) PROVE Goal
  BY <1>1, <1>6 DEF RecoveryTimeout
<1>7. CASE UNCHANGED vars
  BY <1>1, <1>7 DEF vars
<1> QED
  BY <1>2, <1>3, <1>4, <1>5, <1>6, <1>7 DEF Next, Progress

\* Counting one request more, or none.
LEMMA CountingKeeps ==
  ASSUME TypeOK, profile' = profile, NEW p \in Profiles, Counted(p),
         metrics'[p] = metrics[p],
         \A q \in Requests : profile[q] = p => Recounts(q)
  PROVE  Counted(p)'
<1>1. Served(p)' = Served(p)
  BY DEF Served, Recounts
<1>2. Good(p)' = Good(p)
  BY <1>1 DEF Good, Served, Recounts
<1> QED BY <1>1, <1>2 DEF Counted

\* A request that is answered enters the sets its profile counts, and its counters
\* with it.
LEMMA CountingAdds ==
  ASSUME TypeOK, profile' = profile, NEW r \in Requests, CountedNow(r), Counted(profile[r])
  PROVE  Counted(profile[r])'
<1> DEFINE p == profile[r]
           S == Served(p)
           G == Good(p)
           B == Served(p) \ Good(p)
<1>1. /\ IsFiniteSet(S) /\ IsFiniteSet(G) /\ IsFiniteSet(B)
      /\ r \notin S /\ r \notin G /\ r \notin B
  <2>1. IsFiniteSet(S) /\ G \subseteq S /\ B \subseteq S
    BY DEF Counted, Good
  <2>2. r \notin S
    BY DEF Served, CountedNow
  <2> QED BY <2>1, <2>2, FS_Subset
<1>2. Served(p)' = S \cup {r}
  BY DEF Served, CountedNow, Recounts
<1>3. PICK success \in BOOLEAN, status \in Nat :
         Finish(r, success, status) /\ (LastTry(r)'.ok <=> success)
  BY DEF CountedNow
<1>4. Good(p)' = IF success THEN G \cup {r} ELSE G
  <2>1. \A q \in S : LastTry(q)' = LastTry(q)
    <3>1. \A q \in S : q \in Requests \ {r} /\ Counts(q)
      BY <1>1 DEF Served
    <3> QED BY <3>1 DEF CountedNow, Recounts
  <2>2. Good(p)' = {q \in S \cup {r} : LastTry(q)'.ok}
    BY <1>2 DEF Good
  <2>3. \A q : q \in Good(p)' <=> IF q = r THEN success ELSE q \in G
    BY <1>1, <1>3, <2>1, <2>2 DEF Good
  <2> QED BY <1>1, <2>3
<1>5. /\ metrics[p] \in [total : Nat, success : Nat, failure : Nat]
      /\ metrics'[p].total = metrics[p].total + 1
      /\ success  => /\ metrics'[p].success = metrics[p].success + 1
                     /\ metrics'[p].failure = metrics[p].failure
      /\ ~success => /\ metrics'[p].success = metrics[p].success
                     /\ metrics'[p].failure = metrics[p].failure + 1
  <2>1. p \in Profiles
    BY RequestFlowAssumption DEF TypeOK
  <2> QED BY <1>3, <2>1 DEF Finish, TypeOK
<1>6. /\ IsFiniteSet(S \cup {r}) /\ Cardinality(S \cup {r}) = Cardinality(S) + 1
      /\ Cardinality(G \cup {r}) = Cardinality(G) + 1
      /\ Cardinality(B \cup {r}) = Cardinality(B) + 1
  BY <1>1, FS_AddElement
<1>7. /\ metrics[p].total = Cardinality(S)
      /\ metrics[p].success = Cardinality(G)
      /\ metrics[p].failure = Cardinality(B)
  BY DEF Counted
<1>8. (Served(p) \ Good(p))' = IF success THEN B ELSE B \cup {r}
  BY <1>1, <1>2, <1>4
<1> HIDE DEF p, S, G, B
<1>9. /\ IsFiniteSet(Served(p)') /\ metrics'[p].total = Cardinality(Served(p)')
      /\ metrics'[p].success = Cardinality(Good(p)')
      /\ metrics'[p].failure = Cardinality((Served(p) \ Good(p))')
  BY <1>2, <1>3, <1>4, <1>5, <1>6, <1>7, <1>8
<1>10. p' = p
  BY DEF p
<1> QED BY <1>9, <1>10 DEF Counted, p

\* Every step keeps the counters of every profile true to the requests answered.
LEMMA MetricsStep == TypeOK /\ OrderInv /\ MetricsInv /\ [Next]_vars => MetricsInv'
<1> SUFFICES ASSUME TypeOK, OrderInv, MetricsInv, [Next]_vars, NEW p \in Profiles
             PROVE  Counted(p)'
  BY DEF MetricsInv
<1>1. Counted(p) /\ profile' = profile
  BY CountingStep DEF MetricsInv
<1>2. CASE UNCHANGED metrics /\ \A q \in Requests : Recounts(q)
  BY <1>1, <1>2, CountingKeeps
<1>3. ASSUME NEW r \in Requests, CountedNow(r) PROVE Counted(p)'
  <2>1. CASE p = profile[r]
    BY <1>1, <1>3, <2>1, CountingAdds
  <2>2. CASE p # profile[r]
    <3>1. metrics'[p] = metrics[p]
      BY <1>3, <2>2 DEF CountedNow, Finish, TypeOK
    <3>2. \A q \in Requests : profile[q] = p => Recounts(q)
      BY <1>3, <2>2 DEF CountedNow
    <3> QED BY <1>1, <3>1, <3>2, CountingKeeps
  <2> QED BY <2>1, <2>2
<1> QED BY <1>2, <1>3, CountingStep

\* What a client is told is the outcome of the last candidate of its request, a failure
\* only when none is left, and the counters of each profile agree with those answers.
THEOREM AnswersMatchCounters == Spec => []AnswersAndCounters
<1>1. Init => MetricsInv
  <2> SUFFICES ASSUME Init, NEW p \in Profiles PROVE Counted(p)
    BY DEF MetricsInv
  <2>1. Served(p) = {} /\ Good(p) = {} /\ Served(p) \ Good(p) = {}
    BY DEF Init, Served, Good, Counts, Tried
  <2> QED BY <2>1, FS_EmptySet DEF Init, Counted
<1>2. TypeOK /\ OrderInv /\ MetricsInv /\ [Next]_vars => MetricsInv'
  BY MetricsStep
<1>3. OrderInv /\ MetricsInv => AnswersAndCounters
  BY OrderInvSays, MetricsInvSays DEF AnswersAndCounters
<1> QED BY <1>1, <1>2, <1>3, TypeCorrect, OrderInductive, PTL DEF Spec
=============================================================================
