------------------------- MODULE TokenManagerProofs -------------------------
(***************************************************************************)
(* Proofs about TokenManager, for any number of sessions, profiles,        *)
(* requests and refreshes, and whatever faults the environment may cause.  *)
(***************************************************************************)
EXTENDS TokenManager, TLAPS

Locations == {"idle", "use"} \cup Waiting

\* The values the variables range over.
Types ==
    /\ file \in Nat /\ current \in Nat /\ expired \in Nat
    /\ rejected \subseteq Nat
    /\ cache \in [Keys -> Nat]
    /\ lock \in [Keys -> Requests \cup {NoOne}]
    /\ pc \in [Requests -> Locations]
    /\ tok \in [Requests -> Nat]
    /\ retried \in [Requests -> BOOLEAN]
    /\ lost \in BOOLEAN

\* Who holds a credential the others do not have yet.  A refresh is posted only with
\* a token that has expired, and while its reply is on the way to the file and the
\* cache the latest token has not; so nobody else refreshes then, and what is written
\* to the file is always the latest.
OneRefreshAtATime ==
    /\ file <= current /\ expired <= current
    /\ \A r \in Requests :
          /\ pc[r] = "post" => tok[r] <= expired
          /\ pc[r] \in {"reply", "written", "insert"} => expired < current
          /\ pc[r] = "reply" => tok[r] = current
          /\ pc[r] = "written" => tok[r] = current /\ file = current
          /\ pc[r] = "insert" => tok[r] <= file

IInv == Types /\ LockFollowsHolder /\ OneRefreshAtATime /\ CachedTokenPersisted /\ CredentialSurvives

\* The key of a request is one of the keys.
LEMMA KeyType == \A r \in Requests : Key(r) \in Keys
BY TokenAssumption DEF Key, Keys

\* Initially no lock is held, nothing is cached and the file has the latest credential.
LEMMA InitIInv == Init => IInv
<1> SUFFICES ASSUME Init PROVE IInv
  OBVIOUS
<1>1. expired \in Nat /\ expired <= 1
  BY DEF Init
<1>2. Types
  <2>1. cache \in [Keys -> Nat] /\ tok \in [Requests -> Nat]
    BY DEF Init
  <2>2. /\ lock \in [Keys -> Requests \cup {NoOne}]
        /\ pc \in [Requests -> Locations]
        /\ retried \in [Requests -> BOOLEAN]
        /\ lost \in BOOLEAN
    BY DEF Init, Locations
  <2> QED BY <1>1, <2>1, <2>2 DEF Types, Init
<1>3. LockFollowsHolder
  BY DEF Init, LockFollowsHolder, Holding
<1>4. OneRefreshAtATime
  BY <1>1 DEF Init, OneRefreshAtATime
<1>5. CachedTokenPersisted
  BY DEF Init, CachedTokenPersisted
<1>6. CredentialSurvives
  BY DEF Init, CredentialSurvives
<1> QED
  BY <1>2, <1>3, <1>4, <1>5, <1>6 DEF IInv

----------------------------------------------------------------------------
(* Types.                                                                  *)

\* What ends a request keeps the types of what it writes.
LEMMA EndTypes ==
  ASSUME Types, NEW r \in Requests
  PROVE  /\ End(r) => /\ pc' \in [Requests -> Locations]
                      /\ tok' \in [Requests -> Nat]
                      /\ retried' \in [Requests -> BOOLEAN]
         /\ Release(r) => lock' \in [Keys -> Requests \cup {NoOne}]
<1>1. End(r) => /\ pc' \in [Requests -> Locations]
                /\ tok' \in [Requests -> Nat]
                /\ retried' \in [Requests -> BOOLEAN]
  BY DEF End, Types, Locations
<1>2. Release(r) => lock' \in [Keys -> Requests \cup {NoOne}]
  BY DEF Release, Types
<1> QED BY <1>1, <1>2

\* Types is inductive.
LEMMA TypesStep == Types /\ [Next]_vars => Types'
<1> SUFFICES ASSUME Types, [Next]_vars PROVE Types'
  OBVIOUS
<1>1. ASSUME NEW r \in Requests, GetToken(r) \/ Acquire(r) \/ Load(r) PROVE Types'
  BY <1>1 DEF GetToken, Acquire, Load, Types, Locations, Waiting, Holding, issuer
<1>2. ASSUME NEW r \in Requests, FastPath(r) \/ DoubleCheck(r) \/ Insert(r) PROVE Types'
  <2>1. cache[Key(r)] \in Nat
    BY KeyType DEF Types
  <2>2. cache' \in [Keys -> Nat]
    BY <1>2 DEF FastPath, DoubleCheck, Insert, Types
  <2> QED BY <1>2, <2>1, <2>2, EndTypes
          DEF FastPath, DoubleCheck, Insert, Return, Types, Locations, Waiting, Holding, issuer
<1>3. ASSUME NEW r \in Requests, IssuerRotates(r) PROVE Types'
  BY <1>3 DEF IssuerRotates, Renewed, Types, Locations, Waiting, Holding
<1>4. ASSUME NEW r \in Requests, IssuerRefuses(r) \/ PostFails(r) \/ Finish(r) PROVE Types'
  BY <1>4, EndTypes DEF IssuerRefuses, PostFails, Finish, Fail, Types, issuer
<1>5. ASSUME NEW r \in Requests, WriteBack(r) \/ WriteAgain(r) PROVE Types'
  BY <1>5 DEF WriteBack, WriteAgain, Types, Locations, Waiting, Holding, issuer
<1>6. ASSUME NEW r \in Requests, ReplyLost(r) \/ Disconnect(r) PROVE Types'
  <2>1. lost' \in BOOLEAN
    BY <1>6, Zenon DEF ReplyLost, Disconnect, Drops, Loses
  <2> QED BY <1>6, <2>1, EndTypes DEF ReplyLost, Disconnect, Fail, Types
<1>7. ASSUME NEW r \in Requests, Invalidate(r) PROVE Types'
  BY <1>7 DEF Invalidate, Types, Locations, Waiting, Holding, issuer
<1>8. ASSUME NEW p \in Processes, Crash(p) PROVE Types'
  <2>1. lost' \in BOOLEAN
    BY <1>8, Zenon DEF Crash, Drops, Loses
  <2>2. cache' \in [Keys -> Nat] /\ tok' \in [Requests -> Nat]
    BY <1>8 DEF Crash, Types
  <2>3. lock' \in [Keys -> Requests \cup {NoOne}] /\ pc' \in [Requests -> Locations]
    BY <1>8 DEF Crash, Types, Locations
  <2>4. retried' \in [Requests -> BOOLEAN]
    BY <1>8, Zenon DEF Crash, Types
  <2> QED BY <1>8, <2>1, <2>2, <2>3, <2>4 DEF Crash, Types
<1>9. CASE Expire \/ Revoke \/ ExternalRefresh
  <2>1. CASE Expire
    BY <2>1 DEF Expire, Types
  <2>2. CASE Revoke
    <3>1. rejected' \subseteq Nat
      BY <2>2 DEF Revoke, Types
    <3> QED BY <2>2, <3>1 DEF Revoke, Types
  <2>3. CASE ExternalRefresh
    BY <2>3 DEF ExternalRefresh, Types
  <2> QED BY <1>9, <2>1, <2>2, <2>3
<1>10. CASE UNCHANGED vars
  BY <1>10 DEF vars, Types
<1> QED
  BY <1>1, <1>2, <1>3, <1>4, <1>5, <1>6, <1>7, <1>8, <1>9, <1>10 DEF Next, Step

----------------------------------------------------------------------------
(* The refresh lock.                                                       *)

\* A step of request r that moves it and leaves the lock alone does not cross the
\* border of the locked region; one that enters it takes the free lock; one that
\* leaves it releases the lock.
LEMMA LockMoves ==
  ASSUME Types, LockFollowsHolder, NEW r \in Requests, NEW where \in Locations,
         pc' = [pc EXCEPT ![r] = where],
         \/ /\ UNCHANGED lock
            /\ pc[r] \in Holding <=> where \in Holding
         \/ /\ lock[Key(r)] = NoOne /\ where \in Holding
            /\ lock' = [lock EXCEPT ![Key(r)] = r]
         \/ /\ pc[r] \in Holding /\ where \notin Holding
            /\ Release(r)
  PROVE  LockFollowsHolder'
<1> USE KeyType DEF Types
<1>1. \A q \in Requests : pc'[q] = IF q = r THEN where ELSE pc[q]
  OBVIOUS
<1>2. CASE UNCHANGED lock /\ (pc[r] \in Holding <=> where \in Holding)
  BY <1>1, <1>2, TokenAssumption DEF LockFollowsHolder
<1>3. CASE /\ lock[Key(r)] = NoOne /\ where \in Holding
           /\ lock' = [lock EXCEPT ![Key(r)] = r]
  <2>1. \A k \in Keys : lock'[k] = IF k = Key(r) THEN r ELSE lock[k]
    BY <1>3
  <2>2. \A q \in Requests : Key(q)' = Key(q)
    BY DEF Key
  <2> QED BY <1>1, <1>3, <2>1, <2>2, TokenAssumption DEF LockFollowsHolder
<1>4. CASE pc[r] \in Holding /\ where \notin Holding /\ Release(r)
  <2>1. \A k \in Keys : lock'[k] = IF k = Key(r) THEN NoOne ELSE lock[k]
    BY <1>4 DEF Release
  <2>2. \A q \in Requests : Key(q)' = Key(q)
    BY DEF Key
  <2> QED BY <1>1, <1>4, <2>1, <2>2, TokenAssumption DEF LockFollowsHolder
<1> QED BY <1>2, <1>3, <1>4

\* LockFollowsHolder is preserved by every step.
LEMMA LockStep == Types /\ LockFollowsHolder /\ [Next]_vars => LockFollowsHolder'
<1> SUFFICES ASSUME Types, LockFollowsHolder, [Next]_vars PROVE LockFollowsHolder'
  OBVIOUS
<1> USE DEF Locations, Waiting, Holding
<1>1. ASSUME NEW r \in Requests,
             GetToken(r) \/ Load(r) \/ WriteBack(r) \/ WriteAgain(r) \/ Finish(r)
             \/ Invalidate(r) \/ IssuerRotates(r)
      PROVE  LockFollowsHolder'
  <2>1. /\ UNCHANGED lock
        /\ \E where \in Locations : /\ pc' = [pc EXCEPT ![r] = where]
                                    /\ pc[r] \in Holding <=> where \in Holding
    BY <1>1 DEF GetToken, Load, WriteBack, WriteAgain, Finish, Invalidate, IssuerRotates, End
  <2> QED BY <2>1, LockMoves
<1>2. ASSUME NEW r \in Requests, FastPath(r) PROVE LockFollowsHolder'
  <2>1. /\ UNCHANGED lock
        /\ \E where \in Locations : /\ pc' = [pc EXCEPT ![r] = where]
                                    /\ pc[r] \in Holding <=> where \in Holding
    BY <1>2 DEF FastPath, Return
  <2> QED BY <2>1, LockMoves
<1>3. ASSUME NEW r \in Requests, Acquire(r) PROVE LockFollowsHolder'
  <2>1. pc' = [pc EXCEPT ![r] = "check"] /\ "check" \in Locations /\ "check" \in Holding
    BY <1>3 DEF Acquire
  <2>2. lock[Key(r)] = NoOne /\ lock' = [lock EXCEPT ![Key(r)] = r]
    BY <1>3 DEF Acquire
  <2> QED BY <2>1, <2>2, LockMoves
<1>4. ASSUME NEW r \in Requests,
             DoubleCheck(r) \/ Insert(r) \/ IssuerRefuses(r) \/ PostFails(r) \/ ReplyLost(r)
      PROVE  LockFollowsHolder'
  <2>1. /\ Release(r) /\ pc[r] \in Holding
        /\ \E where \in Locations \ Holding : pc' = [pc EXCEPT ![r] = where]
    BY <1>4 DEF DoubleCheck, Insert, IssuerRefuses, PostFails, ReplyLost, Fail, End, Return
  <2> QED BY <2>1, LockMoves
<1>5. ASSUME NEW r \in Requests, Disconnect(r) PROVE LockFollowsHolder'
  <2>1. pc' = [pc EXCEPT ![r] = "idle"] /\ "idle" \in Locations /\ "idle" \notin Holding
    BY <1>5 DEF Disconnect, End
  <2>2. IF pc[r] \in Holding THEN Release(r) ELSE UNCHANGED lock
    BY <1>5 DEF Disconnect
  <2> QED BY <2>1, <2>2, LockMoves
<1>6. ASSUME NEW p \in Processes, Crash(p) PROVE LockFollowsHolder'
  <2>1. \A r \in Requests : pc'[r] = IF Home[r] = p THEN "idle" ELSE pc[r]
    BY <1>6 DEF Crash
  <2>2. \A k \in Keys : lock'[k] = IF k[1] = p THEN NoOne ELSE lock[k]
    BY <1>6 DEF Crash
  <2>3. \A r \in Requests : Key(r)[1] = Home[r] /\ Key(r)' = Key(r)
    BY DEF Key
  <2> QED BY <2>1, <2>2, <2>3, KeyType, TokenAssumption DEF LockFollowsHolder, Types
<1>7. CASE Expire \/ Revoke \/ ExternalRefresh \/ UNCHANGED vars
  <2>1. UNCHANGED <<pc, lock>>
    BY <1>7 DEF Expire, Revoke, ExternalRefresh, vars
  <2> QED BY <2>1 DEF LockFollowsHolder, Key
<1> QED
  BY <1>1, <1>2, <1>3, <1>4, <1>5, <1>6, <1>7 DEF Next, Step

----------------------------------------------------------------------------
(* The credential.                                                         *)

\* Only one refresh can be under way at the issuer: the token it rotates has expired,
\* and then nobody is between the issuer's answer and the cache.
LEMMA RotationIsAlone ==
  ASSUME Types, OneRefreshAtATime, current <= expired
  PROVE  expired = current /\ \A r \in Requests : pc[r] \notin {"reply", "written", "insert"}
BY DEF Types, OneRefreshAtATime

\* Where the credential is, as one invariant.
Credential == OneRefreshAtATime /\ CachedTokenPersisted /\ CredentialSurvives

\* Requests that give up, and caches that are emptied, leave the credential where it
\* was, or its loss is on record.
LEMMA RequestsLeave ==
  ASSUME Types, Credential, NEW R \in SUBSET Requests,
         Types', Loses(R),
         \A r \in R : pc'[r] \notin {"post", "reply", "written", "insert"},
         \A r \in Requests \ R : pc'[r] = pc[r] /\ tok'[r] = tok[r],
         \A k \in Keys : cache'[k] \in {0, cache[k]},
         UNCHANGED <<file, current, expired>>
  PROVE  Credential'
<1>1. OneRefreshAtATime'
  BY DEF Credential, OneRefreshAtATime
<1>2. CachedTokenPersisted'
  BY DEF Credential, CachedTokenPersisted, Types
<1>3. CredentialSurvives'
  BY DEF Credential, CredentialSurvives, Loses
<1> QED BY <1>1, <1>2, <1>3 DEF Credential

\* Credential is preserved by every step.
LEMMA CredentialStep == IInv /\ [Next]_vars => Credential'
<1> SUFFICES ASSUME IInv, [Next]_vars PROVE Credential'
  OBVIOUS
<1>1. Types /\ Types' /\ Credential
  BY TypesStep DEF IInv, Credential
<1>2. ASSUME NEW r \in Requests,
             GetToken(r) \/ FastPath(r) \/ Acquire(r) \/ DoubleCheck(r)
             \/ IssuerRefuses(r) \/ PostFails(r) \/ Finish(r) \/ Invalidate(r)
      PROVE  Credential'
  <2>1. /\ pc[r] # "reply" /\ lost' = lost
        /\ UNCHANGED <<file, current, expired>>
    BY <1>2 DEF GetToken, FastPath, Acquire, DoubleCheck, IssuerRefuses, PostFails, Finish,
                Invalidate, issuer
  <2>2. /\ pc'[r] \notin {"post", "reply", "written", "insert"}
        /\ \A q \in Requests \ {r} : pc'[q] = pc[q] /\ tok'[q] = tok[q]
    BY <1>1, <1>2 DEF GetToken, FastPath, Acquire, DoubleCheck, IssuerRefuses, PostFails,
                      Finish, Invalidate, Fail, End, Return, Types
  <2>3. \A k \in Keys : cache'[k] \in {0, cache[k]}
    BY <1>1, <1>2 DEF GetToken, FastPath, Acquire, DoubleCheck, IssuerRefuses, PostFails,
                      Finish, Invalidate, Types
  <2>4. Loses({r})
    <3>1. lost \in BOOLEAN
      BY <1>1 DEF Types
    <3>2. ~ \E q \in {r} : pc[q] = "reply" /\ tok[q] = current
      BY <2>1
    <3> QED BY <2>1, <3>1, <3>2, Zenon DEF Loses
  <2> QED BY <1>1, <2>1, <2>2, <2>3, <2>4, RequestsLeave
<1>3. ASSUME NEW r \in Requests, Load(r) PROVE Credential'
  BY <1>1, <1>3 DEF Load, Valid, issuer, Types, Credential, OneRefreshAtATime,
                    CachedTokenPersisted, CredentialSurvives
<1>4. ASSUME NEW r \in Requests, IssuerRotates(r) PROVE Credential'
  <2>1. \A q \in Requests : pc[q] \notin {"reply", "written", "insert"}
    BY <1>1, <1>4, RotationIsAlone DEF IssuerRotates, Credential, OneRefreshAtATime
  <2>2. /\ pc'[r] = "reply" /\ tok'[r] = current + 1
        /\ \A q \in Requests \ {r} : pc'[q] = pc[q] /\ tok'[q] = tok[q]
    BY <1>1, <1>4 DEF IssuerRotates, Renewed, Types
  <2>3. current' = current + 1 /\ UNCHANGED <<file, expired, cache>>
    BY <1>4 DEF IssuerRotates
  <2> QED BY <1>1, <2>1, <2>2, <2>3
          DEF Credential, OneRefreshAtATime, CachedTokenPersisted, CredentialSurvives, Types
<1>5. ASSUME NEW r \in Requests, WriteBack(r) \/ WriteAgain(r) PROVE Credential'
  <2>1. tok[r] = current /\ file' = current
    BY <1>1, <1>5 DEF WriteBack, WriteAgain, Credential, OneRefreshAtATime
  <2>2. /\ pc[r] \in {"reply", "written"} /\ pc'[r] \in {"written", "insert"}
        /\ \A q \in Requests \ {r} : pc'[q] = pc[q]
        /\ UNCHANGED <<tok, cache, current, expired>>
    BY <1>1, <1>5 DEF WriteBack, WriteAgain, issuer, Types
  <2>3. OneRefreshAtATime'
    BY <1>1, <2>1, <2>2 DEF Credential, OneRefreshAtATime, Types
  <2>4. CachedTokenPersisted' /\ CredentialSurvives'
    BY <1>1, <2>1, <2>2
       DEF Credential, OneRefreshAtATime, CachedTokenPersisted, CredentialSurvives, Types
  <2> QED BY <2>3, <2>4 DEF Credential
<1>6. ASSUME NEW r \in Requests, ReplyLost(r) \/ Disconnect(r) PROVE Credential'
  <2>1. Loses({r}) /\ UNCHANGED <<file, cache, current, expired>>
    BY <1>6 DEF ReplyLost, Disconnect, Drops
  <2>2. /\ pc'[r] = "idle"
        /\ \A q \in Requests \ {r} : pc'[q] = pc[q] /\ tok'[q] = tok[q]
    BY <1>1, <1>6 DEF ReplyLost, Disconnect, Fail, End, Types
  <2> QED BY <1>1, <2>1, <2>2, RequestsLeave
<1>7. ASSUME NEW r \in Requests, Insert(r) PROVE Credential'
  <2>1. /\ tok[r] <= file /\ pc'[r] = "use"
        /\ pc[r] = "insert"
        /\ \A q \in Requests \ {r} : pc'[q] = pc[q]
        /\ \A k \in Keys : cache'[k] \in {tok[r], cache[k]}
        /\ UNCHANGED <<file, tok, current, expired, lost>>
    BY <1>1, <1>7 DEF Insert, issuer, Types, Credential, OneRefreshAtATime
  <2> QED BY <1>1, <2>1
          DEF Credential, OneRefreshAtATime, CachedTokenPersisted, CredentialSurvives, Types
<1>8. ASSUME NEW p \in Processes, Crash(p) PROVE Credential'
  <2> DEFINE R == {r \in Requests : Home[r] = p}
  <2>1. Loses(R) /\ UNCHANGED <<file, current, expired>>
    BY <1>8 DEF Crash, Drops
  <2>2. /\ \A r \in R : pc'[r] = "idle"
        /\ \A r \in Requests \ R : pc'[r] = pc[r] /\ tok'[r] = tok[r]
        /\ \A k \in Keys : cache'[k] \in {0, cache[k]}
    BY <1>8 DEF Crash
  <2> QED BY <1>1, <2>1, <2>2, RequestsLeave
<1>9. CASE Expire
  BY <1>1, <1>9 DEF Expire, Types, Credential, OneRefreshAtATime, CachedTokenPersisted,
                    CredentialSurvives
<1>10. CASE ExternalRefresh
  <2>1. \A q \in Requests : pc[q] \notin {"reply", "written", "insert"}
    BY <1>1, <1>10, RotationIsAlone DEF ExternalRefresh, Valid, Types, Credential
  <2> QED BY <1>1, <1>10, <2>1
          DEF ExternalRefresh, Types, Credential, OneRefreshAtATime, CachedTokenPersisted,
              CredentialSurvives
<1>11. CASE Revoke \/ UNCHANGED vars
  BY <1>1, <1>11 DEF Revoke, vars, Credential, OneRefreshAtATime, CachedTokenPersisted,
                     CredentialSurvives
<1> QED
  BY <1>2, <1>3, <1>4, <1>5, <1>6, <1>7, <1>8, <1>9, <1>10, <1>11 DEF Next, Step

----------------------------------------------------------------------------
(* The theorems.                                                           *)

\* IInv is an invariant.
LEMMA Inductive == Spec => []IInv
<1>1. IInv /\ [Next]_vars => IInv'
  <2> SUFFICES ASSUME IInv, [Next]_vars PROVE IInv'
    OBVIOUS
  <2>1. Types' /\ LockFollowsHolder' /\ Credential'
    BY TypesStep, LockStep, CredentialStep DEF IInv
  <2> QED BY <2>1 DEF IInv, Credential
<1> QED BY <1>1, InitIInv, PTL DEF Spec

\* A profile's refresh lock is held exactly by the request that is in the locked part
\* of get_token, through errors, hang-ups and crashes.
THEOREM LockIsNeverLost == Spec => []LockFollowsHolder
<1>1. IInv => LockFollowsHolder
  BY DEF IInv
<1> QED BY <1>1, Inductive, PTL

\* No session shares a token whose refresh token is not on disk.
THEOREM CacheFollowsFile == Spec => []CachedTokenPersisted
<1>1. IInv => CachedTokenPersisted
  BY DEF IInv
<1> QED BY <1>1, Inductive, PTL

\* However many sessions refresh at once, the login survives in the file, unless a
\* fault strikes between the issuer's answer and the first write.
THEOREM LoginSurvives == Spec => []CredentialSurvives
<1>1. IInv => CredentialSurvives
  BY DEF IInv
<1> QED BY <1>1, Inductive, PTL

----------------------------------------------------------------------------
(* Refresh tokens.  The refresh lock is the profile's: the promise that    *)
(* the requests of a session share one refresh is the code's for a login   *)
(* that one profile of the session uses.                                   *)

OneProfileEach ==
    \A r, q \in Requests : Home[r] = Home[q] => ProfileOf[r] = ProfileOf[q]

\* What a session has exchanged is older than the file, or the reply is on its way to
\* it, under the lock; and what it is about to post it has not exchanged.
SpentInv ==
    /\ spent \subseteq Processes \X Nat
    /\ \A x \in spent : \/ x[2] < file
                        \/ \E r \in Requests : /\ Home[r] = x[1] /\ pc[r] = "reply"
                                               /\ tok[r] = x[2] + 1
    /\ \A r \in Requests : pc[r] = "post" => <<Home[r], tok[r]>> \notin spent
    /\ respent = {}

\* With one profile in each session, the locked part of get_token has one request of a
\* session in it at most.
LEMMA OneHolderEach ==
  ASSUME OneProfileEach, LockFollowsHolder, NEW r \in Requests, NEW q \in Requests,
         Home[r] = Home[q], pc[r] \in Holding, pc[q] \in Holding
  PROVE  r = q
BY DEF OneProfileEach, LockFollowsHolder, Key

\* A step that spends nothing, writes no older credential and lets nobody begin a
\* refresh or forget a reply.
LEMMA SpentUnmoved ==
  ASSUME Types, SpentInv, UNCHANGED <<spent, respent>>, file <= file', file' \in Nat,
         \A r \in Requests : \/ pc'[r] = pc[r] /\ tok'[r] = tok[r]
                             \/ pc[r] # "reply" /\ pc'[r] # "post"
  PROVE  SpentInv'
<1>1. ASSUME NEW x \in spent
      PROVE  \/ x[2] < file'
             \/ \E r \in Requests : /\ Home[r] = x[1] /\ pc'[r] = "reply"
                                    /\ tok'[r] = x[2] + 1
  <2>1. x[2] \in Nat /\ file \in Nat
    BY DEF SpentInv, Types
  <2> QED BY <2>1 DEF SpentInv
<1> QED BY <1>1 DEF SpentInv

\* The requests in R give up, and the refreshes they had no answer of are forgotten.
LEMMA SpentDropped ==
  ASSUME Types, SpentInv, NEW R \in SUBSET Requests, Drops(R), UNCHANGED <<file, respent>>,
         \A r \in R : pc'[r] # "post",
         \A r \in Requests \ R : pc'[r] = pc[r] /\ tok'[r] = tok[r]
  PROVE  SpentInv'
<1>1. spent' = spent \ {<<Home[r], tok[r] - 1>> : r \in {q \in R : pc[q] = "reply"}}
  BY DEF Drops
<1>2. ASSUME NEW x \in spent'
      PROVE  \/ x[2] < file
             \/ \E r \in Requests : /\ Home[r] = x[1] /\ pc'[r] = "reply"
                                    /\ tok'[r] = x[2] + 1
  <2>1. x \in spent /\ x = <<x[1], x[2]>> /\ x[2] \in Nat
    BY <1>1 DEF SpentInv
  <2>2. ASSUME NEW r \in R, Home[r] = x[1], pc[r] = "reply", tok[r] = x[2] + 1
        PROVE  FALSE
    <3>1. tok[r] - 1 = x[2]
      BY <2>1, <2>2
    <3> QED BY <1>1, <2>1, <2>2, <3>1
  <2> QED BY <2>1, <2>2 DEF SpentInv
<1> QED BY <1>1, <1>2 DEF SpentInv

\* Every step of the specification keeps it, if a session refreshes one profile
\* only.
LEMMA SpentStep ==
  ASSUME OneProfileEach, IInv, SpentInv, [Next]_vars
  PROVE  SpentInv'
<1>0. Types /\ Types' /\ LockFollowsHolder /\ OneRefreshAtATime
  BY TypesStep DEF IInv
<1>1. ASSUME NEW r \in Requests,
             GetToken(r) \/ FastPath(r) \/ Acquire(r) \/ DoubleCheck(r) \/ PostFails(r)
             \/ Insert(r) \/ Finish(r) \/ Invalidate(r)
      PROVE  SpentInv'
  <2>1. UNCHANGED <<spent, respent, file>>
    BY <1>1 DEF GetToken, FastPath, Acquire, DoubleCheck, PostFails, Insert, Finish, Invalidate,
                issuer
  <2>2. /\ pc[r] # "reply" /\ pc'[r] # "post"
        /\ \A q \in Requests \ {r} : pc'[q] = pc[q] /\ tok'[q] = tok[q]
    BY <1>0, <1>1 DEF GetToken, FastPath, Acquire, DoubleCheck, PostFails, Insert, Finish,
                      Invalidate, Fail, End, Return, Types
  <2>3. file <= file' /\ file' \in Nat
    BY <1>0, <2>1 DEF Types
  <2> QED BY <1>0, <2>1, <2>2, <2>3, SpentUnmoved
<1>2. ASSUME NEW r \in Requests, IssuerRefuses(r) PROVE SpentInv'
  <2>1. respent' = respent
    BY <1>2, Zenon DEF IssuerRefuses, Posted, SpentInv
  <2>2. UNCHANGED <<spent, file>> /\ pc[r] = "post" /\ pc'[r] = "idle"
    BY <1>0, <1>2 DEF IssuerRefuses, Fail, End, Types
  <2>3. \A q \in Requests \ {r} : pc'[q] = pc[q] /\ tok'[q] = tok[q]
    BY <1>0, <1>2 DEF IssuerRefuses, Fail, End, Types
  <2>4. file <= file' /\ file' \in Nat
    BY <1>0, <2>2 DEF Types
  <2> QED BY <1>0, <2>1, <2>2, <2>3, <2>4, SpentUnmoved
<1>3. ASSUME NEW r \in Requests, Load(r) PROVE SpentInv'
  <2>1. /\ UNCHANGED <<spent, respent, file>>
        /\ pc[r] = "check" /\ pc'[r] \in {"insert", "post"} /\ tok'[r] = file
        /\ \A q \in Requests \ {r} : pc'[q] = pc[q] /\ tok'[q] = tok[q]
    BY <1>0, <1>3 DEF Load, issuer, Types
  <2>2. <<Home[r], file>> \notin spent
    <3>1. ~ \E q \in Requests : Home[q] = Home[r] /\ pc[q] = "reply"
      BY <1>0, <2>1, OneHolderEach DEF Holding
    <3>2. ~(file < file)
      BY <1>0 DEF Types
    <3> QED BY <3>1, <3>2 DEF SpentInv
  <2>3. ASSUME NEW x \in spent
        PROVE  \/ x[2] < file
               \/ \E q \in Requests : /\ Home[q] = x[1] /\ pc'[q] = "reply"
                                      /\ tok'[q] = x[2] + 1
    BY <2>1 DEF SpentInv
  <2> QED BY <2>1, <2>2, <2>3 DEF SpentInv
<1>4. ASSUME NEW r \in Requests, IssuerRotates(r) PROVE SpentInv'
  <2>1. /\ pc[r] = "post" /\ pc'[r] = "reply" /\ tok'[r] = tok[r] + 1
        /\ \A q \in Requests \ {r} : pc'[q] = pc[q] /\ tok'[q] = tok[q]
        /\ spent' = spent \cup {<<Home[r], tok[r]>>} /\ file' = file
        /\ Home[r] \in Processes /\ tok[r] \in Nat
    BY <1>0, <1>4, TokenAssumption DEF IssuerRotates, Renewed, Types
  <2>2. respent' = respent
    BY <1>4, Zenon DEF IssuerRotates, Posted, SpentInv
  <2>3. \A q \in Requests \ {r} : pc[q] = "post" => Home[q] # Home[r]
    BY <1>0, <2>1, OneHolderEach DEF Holding
  <2>4. \A q \in Requests : pc'[q] = "post" => <<Home[q], tok'[q]>> \notin spent'
    BY <2>1, <2>3 DEF SpentInv
  <2>5. ASSUME NEW x \in spent'
        PROVE  \/ x[2] < file
               \/ \E q \in Requests : /\ Home[q] = x[1] /\ pc'[q] = "reply"
                                      /\ tok'[q] = x[2] + 1
    <3>1. CASE x \in spent
      BY <2>1, <3>1 DEF SpentInv
    <3>2. CASE x = <<Home[r], tok[r]>>
      BY <2>1, <3>2
    <3> QED BY <2>1, <3>1, <3>2
  <2>6. spent' \subseteq Processes \X Nat
    BY <2>1 DEF SpentInv
  <2> QED BY <2>1, <2>2, <2>4, <2>5, <2>6 DEF SpentInv
<1>5. ASSUME NEW r \in Requests, WriteBack(r) \/ WriteAgain(r) PROVE SpentInv'
  <2>1. /\ UNCHANGED <<spent, respent, tok>> /\ file' = tok[r]
        /\ pc'[r] \notin {"post", "reply"}
        /\ \A q \in Requests \ {r} : pc'[q] = pc[q]
    BY <1>0, <1>5 DEF WriteBack, WriteAgain, issuer, Types
  <2>2. file \in Nat /\ tok[r] \in Nat /\ file <= tok[r]
    BY <1>0, <1>5 DEF WriteBack, WriteAgain, OneRefreshAtATime, Types
  <2>3. ASSUME NEW x \in spent
        PROVE  \/ x[2] < file'
               \/ \E q \in Requests : /\ Home[q] = x[1] /\ pc'[q] = "reply"
                                      /\ tok'[q] = x[2] + 1
    <3>1. x[2] \in Nat
      BY DEF SpentInv
    <3> QED BY <2>1, <2>2, <3>1 DEF SpentInv
  <2> QED BY <2>1, <2>3 DEF SpentInv
<1>6. ASSUME NEW r \in Requests, ReplyLost(r) \/ Disconnect(r) PROVE SpentInv'
  <2>1. Drops({r}) /\ UNCHANGED <<file, respent>>
    BY <1>6 DEF ReplyLost, Disconnect
  <2>2. /\ pc'[r] = "idle"
        /\ \A q \in Requests \ {r} : pc'[q] = pc[q] /\ tok'[q] = tok[q]
    BY <1>0, <1>6 DEF ReplyLost, Disconnect, Fail, End, Types
  <2> QED BY <1>0, <2>1, <2>2, SpentDropped
<1>7. ASSUME NEW p \in Processes, Crash(p) PROVE SpentInv'
  <2> DEFINE R == {r \in Requests : Home[r] = p}
  <2>1. Drops(R) /\ UNCHANGED <<file, respent>>
    BY <1>7 DEF Crash
  <2>2. /\ \A r \in R : pc'[r] = "idle"
        /\ \A r \in Requests \ R : pc'[r] = pc[r] /\ tok'[r] = tok[r]
    BY <1>7 DEF Crash
  <2> QED BY <1>0, <2>1, <2>2, SpentDropped
<1>8. CASE Expire \/ Revoke \/ ExternalRefresh \/ UNCHANGED vars
  <2>1. UNCHANGED <<spent, respent, pc, tok>>
    BY <1>8 DEF Expire, Revoke, ExternalRefresh, vars
  <2>2. file <= file' /\ file' \in Nat
    BY <1>0, <1>8 DEF Expire, Revoke, ExternalRefresh, vars, Types
  <2> QED BY <1>0, <2>1, <2>2, SpentUnmoved
<1> QED
  BY <1>1, <1>2, <1>3, <1>4, <1>5, <1>6, <1>7, <1>8 DEF Next, Step

\* Concurrent requests of a session share one refresh, if they are for one profile: the
\* session never posts a refresh token again that it has exchanged, unless a fault took
\* the reply before it was written.
THEOREM SessionsShareRefresh ==
  ASSUME OneProfileEach
  PROVE  Spec => []RefreshTokenSpentOnce
<1>1. Init => SpentInv
  BY DEF Init, SpentInv
<1>2. IInv /\ SpentInv /\ [Next]_vars => SpentInv'
  BY SpentStep
<1>3. SpentInv => RefreshTokenSpentOnce
  BY DEF SpentInv, RefreshTokenSpentOnce
<1> QED BY <1>1, <1>2, <1>3, Inductive, PTL DEF Spec
=============================================================================
