--------------------------- MODULE FileCacheProofs ---------------------------
(***************************************************************************)
(* Proofs about FileCache: which files it offers, who answers for each     *)
(* file at the provider, and when a file goes that a request relies on,    *)
(* for any number of requests, documents, blocks and entries.  The second  *)
(* part is about Conversation: what becomes of the history that a client   *)
(* sends, for any profiles, tools, limits and number of requests.          *)
(***************************************************************************)
EXTENDS FileCache, Conversation, SequenceTheorems, FiniteSetTheorems, WellFoundedInduction, TLAPS

-----------------------------------------------------------------------------
(* The invariant *)

Sites == {"lookup", "get", "upload", "insert", "cleanup", "post"}
Entries == [doc : Documents, file : Files]

\* The files each request has in its hands: it will delete them, or cache one.
hands == [r \in Requests |->
            doomed[r] \cup (IF pc[r] = "insert" THEN {fresh[r]} ELSE {})]

\* Each of the files R is in one place only: in E, in L or in one request's hands.
Owned(R, E, L, H) ==
    /\ R = E \cup L \cup UNION {H[r] : r \in Requests}
    /\ E \cap L = {}
    /\ \A r \in Requests : H[r] \cap (E \cup L) = {}
    /\ \A r, q \in Requests : r # q => H[r] \cap H[q] = {}

\* No document and no file has two entries.
Apart(s) ==
    \A i, j \in DOMAIN s : i # j => s[i].doc # s[j].doc /\ s[i].file # s[j].file

\* The documents of later entries were used after those of earlier ones.
Recency(s, used) ==
    \A i, j \in DOMAIN s : i < j => s[j].doc \in used[s[i].file]

TypeOK ==
    /\ entries \in Seq(Entries)
    /\ uploads \in 0..MaxFiles
    /\ remote \in SUBSET Files
    /\ lapsed \in SUBSET Files
    /\ pc \in [Requests -> Sites]
    /\ block \in [Requests -> Nat]
    /\ fresh \in [Requests -> Nat]
    /\ doomed \in [Requests -> SUBSET Files]
    /\ DOMAIN body = Requests
    /\ since \in [Files -> SUBSET Documents]

\* What each request is at, and the files there can be.
Progress ==
    /\ \A f \in remote : f <= uploads
    /\ \A r \in Requests :
          /\ pc[r] # "post" => block[r] \in DOMAIN Blocks[r]
          /\ pc[r] \in {"insert", "cleanup"} => fresh[r] \in Files
          /\ fresh[r] \in 0..uploads
          /\ doomed[r] # {} => pc[r] \in {"get", "cleanup"}
          /\ body[r] \in [DOMAIN Blocks[r] -> 0..uploads]

\* A file at the provider is in the cache, in one request's hands, or leaked: in one
\* of these places only.
OneOwner == Owned(remote, FilesOf(entries), leaked, hands)

\* The cache is in the order of use, and within its limit.
Ordered ==
    /\ Apart(entries)
    /\ Recency(entries, since)
    /\ Len(entries) <= MaxEntries

\* A file goes only if it has expired, or MaxEntries documents were used after it.
AgedOut ==
    \A f \in 1..uploads :
        \/ f \in remote \ Doomed
        \/ f \in lapsed
        \/ Cardinality(since[f]) >= MaxEntries

SinceFinite == \A f \in Files : IsFiniteSet(since[f])

IInv == TypeOK /\ Progress /\ OneOwner /\ Ordered /\ AgedOut /\ SinceFinite

-----------------------------------------------------------------------------
(* Picking elements of a sequence *)

\* Pick goes through the positions in their order and leaves none out.
LEMMA PickPositions ==
  ASSUME NEW S, NEW s \in Seq(S), NEW I \in SUBSET DOMAIN s
  PROVE  /\ Cardinality(I) \in 0..Len(s)
         /\ \E nth \in [1..Cardinality(I) -> I] :
              /\ Pick(s, I) = [k \in 1..Cardinality(I) |-> s[nth[k]]]
              /\ \A i \in I : \E k \in 1..Cardinality(I) : nth[k] = i
              /\ \A j, k \in 1..Cardinality(I) : j < k => nth[j] < nth[k]
<1> DEFINE n == Cardinality(I)
           before(i) == {j \in I : j < i}
           rank == [i \in I |-> Cardinality(before(i)) + 1]
           nth == [k \in 1..n |-> CHOOSE i \in I : Cardinality(before(i)) = k - 1]
<1>1. IsFiniteSet(I) /\ n \in Nat /\ n <= Len(s) /\ I \subseteq Nat
  <2>1. DOMAIN s = 1..Len(s) /\ Len(s) \in Nat /\ Len(s) \in Int /\ 1 \in Int
    OBVIOUS
  <2>2. IsFiniteSet(1..Len(s))
        /\ Cardinality(1..Len(s)) = IF 1 > Len(s) THEN 0 ELSE Len(s) - 1 + 1
    BY <2>1, FS_Interval
  <2>3. Cardinality(1..Len(s)) = Len(s)
    BY <2>1, <2>2
  <2> QED
    BY <2>1, <2>2, <2>3, FS_Subset, FS_CardinalityType
<1>2. \A i \in I : /\ before(i) \in SUBSET I /\ i \notin before(i)
                   /\ before(i) \cup {i} \in SUBSET I
  BY <1>1
<1>3. \A i, k \in I : i < k => before(i) \cup {i} \in SUBSET before(k)
  BY <1>1
<1>4. Pick(s, I) = [k \in 1..n |-> s[nth[k]]]
  BY DEF Pick
<1>5. \A i \in I : rank[i] = Cardinality(before(i)) + 1
  OBVIOUS
<1>6. \A k \in 1..n : (\E i \in I : Cardinality(before(i)) = k - 1)
                       => nth[k] \in I /\ Cardinality(before(nth[k])) = k - 1
  OBVIOUS
<1>7. /\ (\A i \in I : rank[i] \in 1..n) => rank \in [I -> 1..n]
      /\ (\A k \in 1..n : nth[k] \in I) => nth \in [1..n -> I]
  OBVIOUS
<1> HIDE DEF n, before, rank, nth
<1>8. ASSUME NEW i \in I
      PROVE  /\ IsFiniteSet(before(i)) /\ Cardinality(before(i)) \in Nat
             /\ IsFiniteSet(before(i) \cup {i})
             /\ Cardinality(before(i) \cup {i}) = Cardinality(before(i)) + 1
             /\ Cardinality(before(i) \cup {i}) <= n
  BY <1>1, <1>2, FS_Subset, FS_CardinalityType, FS_AddElement DEF n
<1>9. \A i \in I : rank[i] \in 1..n
  <2>1. SUFFICES ASSUME NEW i \in I
                 PROVE  rank[i] \in 1..n
    OBVIOUS
  <2>2. Cardinality(before(i)) \in Nat /\ Cardinality(before(i)) + 1 <= n
    BY <1>8
  <2>3. rank[i] = Cardinality(before(i)) + 1
    BY <1>5
  <2> QED
    BY <1>1, <2>2, <2>3
<1>10. ASSUME NEW i \in I, NEW k \in I, i < k
       PROVE  rank[i] < rank[k]
  <2>1. Cardinality(before(i) \cup {i}) <= Cardinality(before(k))
    BY <1>3, <1>8, <1>10, FS_Subset
  <2>2. /\ Cardinality(before(i)) \in Nat /\ Cardinality(before(k)) \in Nat
        /\ Cardinality(before(i)) + 1 <= Cardinality(before(k))
    BY <1>8, <2>1
  <2>3. rank[i] = Cardinality(before(i)) + 1 /\ rank[k] = Cardinality(before(k)) + 1
    BY <1>5
  <2> QED
    BY <2>2, <2>3
<1>11. \A i, k \in I : rank[i] = rank[k] => i = k
  <2>1. \A i, k \in I : i # k => i < k \/ k < i
    BY <1>1
  <2>2. \A i \in I : rank[i] \in Nat
    BY <1>9
  <2> QED
    BY <1>10, <2>1, <2>2
<1>12. rank \in Surjection(I, 1..n)
  <2>1. rank \in Injection(I, 1..n)
    BY <1>7, <1>9, <1>11 DEF Injection, IsInjective
  <2>2. n \in Int /\ 1 \in Int
    BY <1>1
  <2>3. IsFiniteSet(1..n) /\ Cardinality(1..n) = IF 1 > n THEN 0 ELSE n - 1 + 1
    BY <2>2, FS_Interval
  <2>4. Cardinality(1..n) = n
    BY <1>1, <2>3
  <2> QED
    BY <2>1, <2>3, <2>4, FS_Injection DEF n
<1>13. ASSUME NEW k \in 1..n
       PROVE  nth[k] \in I /\ rank[nth[k]] = k
  <2>1. PICK i \in I : rank[i] = k
    BY <1>12 DEF Surjection
  <2>2. Cardinality(before(i)) = k - 1
    <3>1. Cardinality(before(i)) \in Nat
      BY <1>8
    <3>2. k = Cardinality(before(i)) + 1
      BY <1>5, <2>1
    <3> QED
      BY <3>1, <3>2
  <2>3. nth[k] \in I /\ Cardinality(before(nth[k])) = k - 1
    BY <1>6, <2>2
  <2> QED
    BY <1>5, <1>1, <2>3
<1>14. \A i \in I : \E k \in 1..n : nth[k] = i
  <2>1. ASSUME NEW i \in I
        PROVE  nth[rank[i]] = i
    BY <1>9, <1>11, <1>13
  <2> QED
    BY <1>9, <2>1
<1>15. \A j, k \in 1..n : j < k => nth[j] < nth[k]
  <2>1. SUFFICES ASSUME NEW j \in 1..n, NEW k \in 1..n, j < k
                 PROVE  nth[j] < nth[k]
    OBVIOUS
  <2>2. nth[j] \in I /\ nth[k] \in I /\ rank[nth[j]] = j /\ rank[nth[k]] = k
    BY <1>13
  <2>3. nth[j] < nth[k] \/ nth[k] < nth[j] \/ nth[j] = nth[k]
    BY <1>1, <2>2
  <2>4. CASE nth[k] < nth[j]
    BY <1>1, <1>10, <2>1, <2>2, <2>4
  <2> QED
    BY <1>1, <2>1, <2>2, <2>3, <2>4
<1>16. nth \in [1..n -> I]
  BY <1>7, <1>13
<1>17. n \in 0..Len(s)
  BY <1>1
<1> QED
  BY <1>4, <1>14, <1>15, <1>16, <1>17 DEF n

\* What Pick leaves of a sequence of entries: those at the positions, each after
\* those it was after.
LEMMA PickEntries ==
  ASSUME NEW s \in Seq(Entries), NEW I \in SUBSET DOMAIN s
  PROVE  /\ Pick(s, I) \in Seq(Entries)
         /\ Len(Pick(s, I)) = Cardinality(I) /\ Len(Pick(s, I)) <= Len(s)
         /\ FilesOf(Pick(s, I)) = {s[i].file : i \in I}
         /\ DocumentsOf(Pick(s, I)) = {s[i].doc : i \in I}
         /\ Apart(s) => Apart(Pick(s, I))
         /\ \A used : Recency(s, used) => Recency(Pick(s, I), used)
<1> DEFINE n == Cardinality(I)
<1>1. n \in Nat /\ n <= Len(s)
  BY PickPositions
<1>2. PICK nth \in [1..n -> I] :
        /\ Pick(s, I) = [k \in 1..n |-> s[nth[k]]]
        /\ \A i \in I : \E k \in 1..n : nth[k] = i
        /\ \A j, k \in 1..n : j < k => nth[j] < nth[k]
  BY PickPositions
<1> DEFINE p == Pick(s, I)
<1>3. I \subseteq Nat
  OBVIOUS
<1> HIDE DEF n
<1>4. /\ p \in Seq(Entries) /\ Len(p) = n /\ DOMAIN p = 1..n
      /\ \A k \in 1..n : p[k] = s[nth[k]] /\ nth[k] \in I
  <2>1. \A i \in DOMAIN s : s[i] \in Entries
    OBVIOUS
  <2>2. [k \in 1..n |-> s[nth[k]]] \in [1..n -> Entries]
    BY <1>2, <2>1
  <2>3. p \in [1..n -> Entries]
    BY <1>2, <2>2
  <2> QED
    BY <1>1, <1>2, <2>3
<1> HIDE DEF p
<1>5. FilesOf(p) = {s[i].file : i \in I} /\ DocumentsOf(p) = {s[i].doc : i \in I}
  <2>1. \A k \in 1..n : p[k].file = s[nth[k]].file /\ p[k].doc = s[nth[k]].doc
    BY <1>4
  <2>2. FilesOf(p) = {s[nth[k]].file : k \in 1..n}
    <3>1. FilesOf(p) = {p[k].file : k \in 1..n}
      BY <1>4 DEF FilesOf
    <3> QED
      BY <2>1, <3>1
  <2>3. DocumentsOf(p) = {s[nth[k]].doc : k \in 1..n}
    <3>1. DocumentsOf(p) = {p[k].doc : k \in 1..n}
      BY <1>4 DEF DocumentsOf
    <3> QED
      BY <2>1, <3>1
  <2>4. {s[nth[k]].file : k \in 1..n} = {s[i].file : i \in I}
    BY <1>2, <1>4
  <2>5. {s[nth[k]].doc : k \in 1..n} = {s[i].doc : i \in I}
    BY <1>2, <1>4
  <2> QED
    BY <2>2, <2>3, <2>4, <2>5
<1>6. \A j, k \in 1..n : j # k => nth[j] # nth[k]
  <2>1. SUFFICES ASSUME NEW j \in 1..n, NEW k \in 1..n, j # k
                 PROVE  nth[j] # nth[k]
    OBVIOUS
  <2>2. j < k \/ k < j
    BY <1>1, <2>1
  <2>3. nth[j] \in Nat /\ nth[k] \in Nat
    BY <1>3, <1>4
  <2> QED
    BY <1>2, <2>2, <2>3
<1>7. Apart(s) => Apart(p)
  BY <1>4, <1>6 DEF Apart
<1>8. \A used : Recency(s, used) => Recency(p, used)
  BY <1>2, <1>4 DEF Recency
<1> QED
  BY <1>1, <1>4, <1>5, <1>7, <1>8 DEF n, p

\* Dropping the entry of a document.
LEMMA WithoutEntries ==
  ASSUME NEW s \in Seq(Entries), Apart(s), NEW d \in Documents
  PROVE  /\ Without(s, d) \in Seq(Entries)
         /\ Len(Without(s, d)) <= Len(s)
         /\ Apart(Without(s, d))
         /\ \A used : Recency(s, used) => Recency(Without(s, d), used)
         /\ d \notin DocumentsOf(Without(s, d))
         /\ FilesOf(Without(s, d)) \subseteq FilesOf(s)
         /\ \A i \in DOMAIN s : s[i].doc = d
              => /\ FilesOf(Without(s, d)) = FilesOf(s) \ {s[i].file}
                 /\ Len(Without(s, d)) < Len(s)
<1> DEFINE I == {i \in DOMAIN s : s[i].doc # d}
           w == Without(s, d)
<1>1. /\ w \in Seq(Entries) /\ Len(w) = Cardinality(I) /\ Len(w) <= Len(s)
      /\ FilesOf(w) = {s[i].file : i \in I}
      /\ DocumentsOf(w) = {s[i].doc : i \in I}
      /\ Apart(w)
      /\ \A used : Recency(s, used) => Recency(w, used)
  BY PickEntries DEF Without
<1> HIDE DEF w
<1>2. d \notin DocumentsOf(w) /\ FilesOf(w) \subseteq FilesOf(s)
  BY <1>1 DEF FilesOf
<1>3. ASSUME NEW i \in DOMAIN s, s[i].doc = d
      PROVE  FilesOf(w) = FilesOf(s) \ {s[i].file} /\ Len(w) < Len(s)
  <2>1. I = DOMAIN s \ {i}
    BY <1>3 DEF Apart
  <2>2. FilesOf(w) = FilesOf(s) \ {s[i].file}
    <3>1. \A j \in DOMAIN s : j # i => s[j].file # s[i].file
      BY <1>3 DEF Apart
    <3> QED
      BY <1>1, <2>1, <3>1 DEF FilesOf
  <2>3. IsFiniteSet(DOMAIN s) /\ Cardinality(DOMAIN s) = Len(s)
    <3>1. DOMAIN s = 1..Len(s) /\ Len(s) \in Nat /\ Len(s) \in Int /\ 1 \in Int
      OBVIOUS
    <3>2. /\ IsFiniteSet(1..Len(s))
          /\ Cardinality(1..Len(s)) = IF 1 > Len(s) THEN 0 ELSE Len(s) - 1 + 1
      BY <3>1, FS_Interval
    <3> QED
      BY <3>1, <3>2
  <2>4. Cardinality(I) = Len(s) - 1
    BY <1>3, <2>1, <2>3, FS_RemoveElement
  <2>5. Len(s) \in Nat
    OBVIOUS
  <2> QED
    BY <1>1, <2>2, <2>4, <2>5
<1> QED
  BY <1>1, <1>2, <1>3 DEF w

\* Using a document as a file, as the newest entry.
LEMMA AppendEntries ==
  ASSUME NEW s \in Seq(Entries), NEW e \in Entries, Apart(s),
         e.doc \notin DocumentsOf(s), e.file \notin FilesOf(s)
  PROVE  /\ Append(s, e) \in Seq(Entries)
         /\ Len(Append(s, e)) = Len(s) + 1
         /\ FilesOf(Append(s, e)) = FilesOf(s) \cup {e.file}
         /\ Apart(Append(s, e))
         /\ \A used, after :
              /\ Recency(s, used)
              /\ \A f \in FilesOf(s) : used[f] \cup {e.doc} \subseteq after[f]
              => Recency(Append(s, e), after)
<1> DEFINE a == Append(s, e)
<1>1. /\ a \in Seq(Entries) /\ Len(a) = Len(s) + 1 /\ Len(s) \in Nat
      /\ DOMAIN s = 1..Len(s) /\ DOMAIN a = 1..(Len(s) + 1)
      /\ \A i \in DOMAIN s : a[i] = s[i]
      /\ a[Len(s) + 1] = e
  OBVIOUS
<1> HIDE DEF a
<1>2. DOMAIN a = DOMAIN s \cup {Len(s) + 1} /\ Len(s) + 1 \notin DOMAIN s
  BY <1>1
<1>3. \A i \in DOMAIN s : s[i].doc # e.doc /\ s[i].file # e.file
  BY DEF FilesOf, DocumentsOf
<1>4. FilesOf(a) = FilesOf(s) \cup {e.file}
  BY <1>1, <1>2 DEF FilesOf
<1>5. Apart(a)
  BY <1>1, <1>2, <1>3 DEF Apart
<1>6. ASSUME NEW used, NEW after, Recency(s, used),
             \A f \in FilesOf(s) : used[f] \cup {e.doc} \subseteq after[f]
      PROVE  Recency(a, after)
  <2>1. SUFFICES ASSUME NEW i \in DOMAIN a, NEW j \in DOMAIN a, i < j
                 PROVE  a[j].doc \in after[a[i].file]
    BY DEF Recency
  <2>2. i \in DOMAIN s
    BY <1>1, <2>1
  <2>3. used[s[i].file] \cup {e.doc} \subseteq after[s[i].file]
    BY <1>6, <2>2 DEF FilesOf
  <2>4. CASE j \in DOMAIN s
    BY <1>1, <1>6, <2>1, <2>2, <2>3, <2>4 DEF Recency
  <2>5. CASE j = Len(s) + 1
    BY <1>1, <2>2, <2>3, <2>5
  <2> QED
    BY <1>2, <2>4, <2>5
<1> QED
  BY <1>1, <1>4, <1>5, <1>6 DEF a

\* What evict_over_limit leaves, and what it takes.
LEMMA WithinLimitEntries ==
  ASSUME NEW s \in Seq(Entries), Apart(s), NEW used, Recency(s, used),
         \A f \in FilesOf(s) : IsFiniteSet(used[f])
  PROVE  /\ WithinLimit(s) \in Seq(Entries)
         /\ Len(WithinLimit(s)) <= MaxEntries
         /\ Apart(WithinLimit(s))
         /\ Recency(WithinLimit(s), used)
         /\ FilesOf(WithinLimit(s)) \subseteq FilesOf(s)
         /\ \A f \in FilesOf(s) \ FilesOf(WithinLimit(s)) :
              Cardinality(used[f]) >= MaxEntries
<1>1. MaxEntries \in Nat \ {0} /\ Len(s) \in Nat /\ DOMAIN s = 1..Len(s)
  BY FileCacheAssumption
<1>2. CASE Len(s) <= MaxEntries
  BY <1>1, <1>2 DEF WithinLimit
<1>3. CASE Len(s) > MaxEntries
  <2> DEFINE m == Len(s) - MaxEntries
             w == WithinLimit(s)
  <2>1. w = SubSeq(s, m + 1, Len(s))
    BY <1>3 DEF WithinLimit
  <2>2. /\ m \in Nat /\ m >= 1 /\ MaxEntries \in Nat /\ MaxEntries >= 1
        /\ m + MaxEntries = Len(s) /\ m + 1 <= Len(s) /\ Len(s) - (m + 1) + 1 = MaxEntries
    BY <1>1, <1>3
  <2> HIDE DEF m, w
  <2>3. /\ w \in Seq(Entries) /\ Len(w) = MaxEntries /\ DOMAIN w = 1..MaxEntries
        /\ \A k \in 1..MaxEntries : w[k] = s[m + k] /\ m + k \in DOMAIN s
    <3>1. \A k \in 1..MaxEntries : m + k \in DOMAIN s /\ (m + 1) + k - 1 = m + k
      BY <1>1, <2>2
    <3>2. m + 1 \in 1..Len(s) /\ Len(s) - (m + 1) + 1 = MaxEntries
      <4>1. Len(s) \in Nat /\ m + 1 \in Nat /\ 1 <= m + 1 /\ m + 1 <= Len(s)
        BY <1>1, <2>2
      <4>2. m + 1 \in 1..Len(s)
        BY <4>1
      <4> QED
        BY <2>2, <4>2
    <3>3. /\ w \in Seq(Entries) /\ Len(w) = MaxEntries /\ DOMAIN w = 1..MaxEntries
          /\ \A k \in 1..MaxEntries : w[k] = s[(m + 1) + k - 1]
      BY <1>1, <2>1, <3>2
    <3> QED
      BY <3>1, <3>3
  <2>4. \A j, k \in 1..MaxEntries : /\ j # k => m + j # m + k
                                    /\ j < k => m + j < m + k
    BY <1>1, <2>2
  <2>5. Apart(w)
    BY <2>3, <2>4 DEF Apart
  <2>6. Recency(w, used)
    BY <2>3, <2>4 DEF Recency
  <2>7. FilesOf(w) \subseteq FilesOf(s)
    BY <2>3 DEF FilesOf
  <2>8. ASSUME NEW f \in FilesOf(s) \ FilesOf(w)
        PROVE  Cardinality(used[f]) >= MaxEntries
    <3>1. PICK i \in DOMAIN s : s[i].file = f
      BY DEF FilesOf
    <3>2. i <= m
      <4>1. SUFFICES ASSUME i > m
                     PROVE  FALSE
        BY <1>1, <2>2
      <4>2. i - m \in 1..MaxEntries /\ m + (i - m) = i
        BY <1>1, <2>2, <4>1
      <4>3. w[i - m].file = f /\ i - m \in DOMAIN w
        BY <2>3, <3>1, <4>2
      <4> QED
        BY <4>3 DEF FilesOf
    <3> DEFINE g == [k \in 1..MaxEntries |-> s[m + k].doc]
    <3>3. \A k \in 1..MaxEntries : s[m + k].doc \in used[f]
      <4>1. \A k \in 1..MaxEntries : i < m + k /\ m + k \in DOMAIN s
        BY <1>1, <2>2, <2>3, <3>2
      <4> QED
        BY <3>1, <4>1 DEF Recency
    <3>4. \A j, k \in 1..MaxEntries : j # k => s[m + j].doc # s[m + k].doc
      BY <2>3, <2>4 DEF Apart
    <3>5. g \in Injection(1..MaxEntries, used[f])
      BY <3>3, <3>4 DEF Injection, IsInjective
    <3>6. Cardinality(1..MaxEntries) <= Cardinality(used[f])
      BY <3>5, FS_Injection
    <3>7. MaxEntries \in Int /\ 1 \in Int
      BY <1>1
    <3>8. Cardinality(1..MaxEntries) = IF 1 > MaxEntries THEN 0 ELSE MaxEntries - 1 + 1
      BY <3>7, FS_Interval
    <3>9. Cardinality(used[f]) \in Nat
      BY FS_CardinalityType
    <3> QED
      BY <1>1, <3>6, <3>8, <3>9
  <2> QED
    BY <1>1, <2>3, <2>5, <2>6, <2>7, <2>8 DEF w
<1> QED
  BY <1>1, <1>2, <1>3
-----------------------------------------------------------------------------
(* Who has a file *)

\* One request's step: it takes files from the cache or gives it some, brings some
\* to the provider (A) or has some deleted (D).
LEMMA OwnershipMoves ==
  ASSUME NEW R, NEW E, NEW L, NEW H, DOMAIN H = Requests, Owned(R, E, L, H),
         NEW r \in Requests, NEW A, NEW D, A \cap R = {},
         NEW E2, NEW L2, NEW X,
         E2 \cup L2 \cup X = (E \cup L \cup H[r] \cup A) \ D,
         D \subseteq E \cup L \cup H[r] \cup A,
         E2 \cap L2 = {}, X \cap (E2 \cup L2) = {}
  PROVE  Owned((R \cup A) \ D, E2, L2, [H EXCEPT ![r] = X])
<1> DEFINE H2 == [H EXCEPT ![r] = X]
<1>1. H2[r] = X /\ \A q \in Requests : q # r => H2[q] = H[q]
  OBVIOUS
<1> HIDE DEF H2
<1>2. \A q \in Requests : q # r => H[q] \cap (E \cup L \cup H[r] \cup A) = {}
  BY DEF Owned
<1>3. \A q \in Requests : q # r => H[q] \cap (E2 \cup L2 \cup X \cup D) = {}
  BY <1>2
<1>4. (R \cup A) \ D = E2 \cup L2 \cup UNION {H2[q] : q \in Requests}
  <2>1. ASSUME NEW f
        PROVE  f \in (R \cup A) \ D
                 <=> \/ f \in E2 \cup L2 \cup X
                     \/ \E q \in Requests : q # r /\ f \in H[q]
    <3>1. f \in R <=> f \in E \cup L \/ \E q \in Requests : f \in H[q]
      BY DEF Owned
    <3> QED
      BY <1>3, <3>1
  <2>2. ASSUME NEW f
        PROVE  f \in E2 \cup L2 \cup UNION {H2[q] : q \in Requests}
                 <=> \/ f \in E2 \cup L2 \cup X
                     \/ \E q \in Requests : q # r /\ f \in H[q]
    BY <1>1
  <2> QED
    BY <2>1, <2>2
<1>5. \A q \in Requests : H2[q] \cap (E2 \cup L2) = {}
  BY <1>1, <1>3
<1>6. \A p, q \in Requests : p # q => H2[p] \cap H2[q] = {}
  BY <1>1, <1>3 DEF Owned
<1> QED
  BY <1>4, <1>5, <1>6 DEF Owned, H2

\* One request's step that leaves the provider's files as they are.
LEMMA FilesPass ==
  ASSUME NEW R, NEW E, NEW L, NEW H, DOMAIN H = Requests, Owned(R, E, L, H),
         NEW r \in Requests, NEW E2, NEW L2, NEW X,
         E2 \cup L2 \cup X = E \cup L \cup H[r],
         E2 \cap L2 = {}, X \cap (E2 \cup L2) = {}
  PROVE  Owned(R, E2, L2, [H EXCEPT ![r] = X])
<1>1. /\ {} \cap R = {} /\ {} \subseteq E \cup L \cup H[r] \cup {}
      /\ E2 \cup L2 \cup X = (E \cup L \cup H[r] \cup {}) \ {}
  OBVIOUS
<1>2. Owned((R \cup {}) \ {}, E2, L2, [H EXCEPT ![r] = X])
  BY <1>1, OwnershipMoves
<1>3. (R \cup {}) \ {} = R
  OBVIOUS
<1> QED
  BY <1>2, <1>3

\* One request's deletion of files it has in its hands.
LEMMA FilesDeleted ==
  ASSUME NEW R, NEW E, NEW L, NEW H, DOMAIN H = Requests, Owned(R, E, L, H),
         NEW r \in Requests, NEW D \in SUBSET H[r]
  PROVE  Owned(R \ D, E, L, [H EXCEPT ![r] = H[r] \ D])
<1> DEFINE H2 == [H EXCEPT ![r] = H[r] \ D]
<1>1. H2[r] = H[r] \ D /\ \A q \in Requests : q # r => H2[q] = H[q]
  OBVIOUS
<1> HIDE DEF H2
<1>2. \A q \in Requests : q # r => H[q] \cap H[r] = {}
  BY DEF Owned
<1>3. ASSUME NEW f
      PROVE  f \in R \ D <=> f \in E \cup L \/ \E q \in Requests : f \in H2[q]
  <2>1. f \in R <=> f \in E \cup L \/ \E q \in Requests : f \in H[q]
    BY DEF Owned
  <2>2. H[r] \cap (E \cup L) = {}
    BY DEF Owned
  <2> QED
    BY <1>1, <1>2, <2>1, <2>2
<1>4. R \ D = E \cup L \cup UNION {H2[q] : q \in Requests}
  BY <1>3
<1>5. \A q \in Requests : H2[q] \subseteq H[q]
  BY <1>1
<1> QED
  BY <1>4, <1>5 DEF Owned, H2

\* A step that moves no file leaves the hands as they are.
LEMMA HandsSame ==
  ASSUME NEW r \in Requests, pc[r] # "insert", pc'[r] # "insert", doomed'[r] = doomed[r],
         \A q \in Requests : q # r => /\ pc'[q] = pc[q]
                                      /\ fresh'[q] = fresh[q]
                                      /\ doomed'[q] = doomed[q]
  PROVE  hands' = hands
BY DEF hands

\* The hands of the others do not change with those of r.
LEMMA HandsOf ==
  ASSUME NEW r \in Requests,
         \A q \in Requests : q # r => /\ pc'[q] = pc[q]
                                      /\ fresh'[q] = fresh[q]
                                      /\ doomed'[q] = doomed[q]
  PROVE  /\ pc'[r] = "insert"
              => hands' = [hands EXCEPT ![r] = doomed'[r] \cup {fresh'[r]}]
         /\ pc'[r] # "insert" => hands' = [hands EXCEPT ![r] = doomed'[r]]
<1> DEFINE held(p, n, F) == F \cup (IF p = "insert" THEN {n} ELSE {})
<1>1. /\ hands' = [q \in Requests |-> held(pc'[q], fresh'[q], doomed'[q])]
      /\ hands = [q \in Requests |-> held(pc[q], fresh[q], doomed[q])]
  BY DEF hands
<1>2. held(pc'[r], fresh'[r], doomed'[r])
        = IF pc'[r] = "insert" THEN doomed'[r] \cup {fresh'[r]} ELSE doomed'[r]
  OBVIOUS
<1> HIDE DEF held
<1>3. hands' = [hands EXCEPT ![r] = held(pc'[r], fresh'[r], doomed'[r])]
  BY <1>1
<1> QED
  BY <1>2, <1>3

\* What a request has in its hands at each place.
LEMMA HandsAt ==
  ASSUME TypeOK, Progress, OneOwner, NEW r \in Requests
  PROVE  /\ hands[r] = doomed[r] \cup (IF pc[r] = "insert" THEN {fresh[r]} ELSE {})
         /\ pc[r] \notin {"get", "cleanup"} => doomed[r] = {}
         /\ doomed[r] \subseteq remote
         /\ pc[r] = "insert" => fresh[r] \in remote /\ fresh[r] \notin Doomed
         /\ hands[r] \cap (FilesOf(entries) \cup leaked) = {}
         /\ doomed[r] \subseteq Doomed
         /\ FilesOf(entries) \subseteq remote \ Doomed
         /\ leaked \subseteq remote
<1>1. \A q \in Requests :
        hands[q] = doomed[q] \cup (IF pc[q] = "insert" THEN {fresh[q]} ELSE {})
  BY DEF hands
<1>2. \A q \in Requests : /\ hands[q] \subseteq remote
                          /\ hands[q] \cap (FilesOf(entries) \cup leaked) = {}
  BY DEF OneOwner, Owned
<1>3. FilesOf(entries) \cup leaked \subseteq remote
  BY DEF OneOwner, Owned
<1>4. pc[r] \notin {"get", "cleanup"} => doomed[r] = {}
  BY DEF Progress
<1>5. ASSUME pc[r] = "insert"
      PROVE  fresh[r] \in remote /\ fresh[r] \notin Doomed
  <2>1. fresh[r] \in hands[r] /\ doomed[r] = {}
    BY <1>1, <1>4, <1>5
  <2>2. \A q \in Requests : q # r => fresh[r] \notin doomed[q]
    BY <1>1, <2>1 DEF OneOwner, Owned
  <2> QED
    BY <1>2, <2>1, <2>2 DEF Doomed
<1>6. FilesOf(entries) \subseteq remote \ Doomed
  BY <1>1, <1>2, <1>3 DEF Doomed
<1> QED
  BY <1>1, <1>2, <1>3, <1>4, <1>5, <1>6 DEF Doomed

-----------------------------------------------------------------------------
(* The cache in a step *)

\* What evict_expired leaves.
LEMMA UnexpiredEntries ==
  ASSUME TypeOK, Ordered
  PROVE  /\ Unexpired \in Seq(Entries) /\ Len(Unexpired) <= Len(entries)
         /\ Apart(Unexpired) /\ Recency(Unexpired, since)
         /\ FilesOf(Unexpired) = FilesOf(entries) \ lapsed
<1> DEFINE I == {i \in DOMAIN entries : entries[i].file \notin lapsed}
<1>1. {entries[i].file : i \in I} = FilesOf(entries) \ lapsed
  BY DEF FilesOf
<1>2. entries \in Seq(Entries) /\ I \in SUBSET DOMAIN entries
  BY DEF TypeOK
<1> QED
  BY <1>1, <1>2, PickEntries DEF Unexpired, Ordered

\* The document of the block a request is at.
LEMMA DocumentTyped ==
  ASSUME Progress, NEW r \in Requests, pc[r] # "post"
  PROVE  Document(r) \in Documents
BY FileCacheAssumption DEF Progress, Document

\* Using a document adds it to what was used after every other file.
LEMMA Used ==
  ASSUME TypeOK, SinceFinite, NEW d \in Documents, NEW f \in Files, Use(d, f)
  PROVE  /\ since' \in [Files -> SUBSET Documents] /\ SinceFinite'
         /\ since'[f] = {}
         /\ \A g \in 1..uploads : g # f =>
              /\ since'[g] = since[g] \cup {d}
              /\ Cardinality(since[g]) <= Cardinality(since'[g])
              /\ Cardinality(since[g]) \in Nat /\ Cardinality(since'[g]) \in Nat
<1>1. /\ since' \in [Files -> SUBSET Documents]
      /\ \A g \in Files : since'[g] = IF g = f \/ g > uploads THEN {} ELSE since[g] \cup {d}
  BY DEF Use, TypeOK
<1>2. SinceFinite'
  <2>1. ASSUME NEW g \in Files
        PROVE  IsFiniteSet(since'[g])
    <3>1. IsFiniteSet(since[g])
      BY DEF SinceFinite
    <3>2. IsFiniteSet(since[g] \cup {d})
      BY <3>1, FS_AddElement
    <3>3. since'[g] = {} \/ since'[g] = since[g] \cup {d}
      BY <1>1
    <3> QED
      BY <3>2, <3>3, FS_EmptySet
  <2> QED
    BY <2>1 DEF SinceFinite
<1>3. ASSUME NEW g \in 1..uploads, g # f
      PROVE  /\ since'[g] = since[g] \cup {d}
             /\ Cardinality(since[g]) <= Cardinality(since'[g])
             /\ Cardinality(since[g]) \in Nat /\ Cardinality(since'[g]) \in Nat
  <2>1. g \in Files /\ ~(g > uploads)
    BY FileCacheAssumption DEF TypeOK, Files
  <2>2. since'[g] = since[g] \cup {d}
    BY <1>1, <1>3, <2>1
  <2>3. IsFiniteSet(since[g]) /\ IsFiniteSet(since'[g])
    BY <1>2, <2>1 DEF SinceFinite
  <2> QED
    BY <2>2, <2>3, FS_Subset, FS_CardinalityType
<1> QED
  BY <1>1, <1>2, <1>3

\* The hit of a document is the newest entry, in place of its old one.
LEMMA HitEntries ==
  ASSUME IInv, NEW r \in Requests, pc[r] # "post", NEW i \in DOMAIN entries,
         entries[i].doc = Document(r),
         entries' = Append(Without(entries, Document(r)), entries[i]),
         Use(Document(r), entries[i].file)
  PROVE  /\ entries' \in Seq(Entries) /\ Ordered'
         /\ FilesOf(entries') = FilesOf(entries)
         /\ entries[i].file \in 1..uploads
<1> DEFINE d == Document(r)
           w == Without(entries, d)
           e == entries[i]
<1>1. d \in Documents
  BY DocumentTyped DEF IInv
<1>2. /\ entries \in Seq(Entries) /\ Apart(entries) /\ Recency(entries, since)
      /\ Len(entries) <= MaxEntries
  BY DEF IInv, TypeOK, Ordered
<1>3. e \in Entries /\ e.doc = d
  BY <1>2
<1>4. /\ w \in Seq(Entries) /\ Len(w) < Len(entries) /\ Apart(w) /\ Recency(w, since)
      /\ d \notin DocumentsOf(w) /\ FilesOf(w) = FilesOf(entries) \ {e.file}
  BY <1>1, <1>2, <1>3, WithoutEntries
<1>5. FilesOf(entries) \subseteq 1..uploads /\ e.file \in FilesOf(entries)
  <2>1. FilesOf(entries) \subseteq remote
    BY DEF IInv, OneOwner, Owned
  <2>2. remote \subseteq 1..uploads
    BY FileCacheAssumption DEF IInv, TypeOK, Progress, Files
  <2> QED
    BY <2>1, <2>2 DEF FilesOf
<1> HIDE DEF w
<1>6. \A f \in FilesOf(w) : since[f] \cup {e.doc} \subseteq since'[f]
  <2>1. e.file \in Files
    BY <1>3 DEF Entries
  <2>2. \A g \in 1..uploads : g # e.file => since'[g] = since[g] \cup {d}
    BY <1>1, <2>1, Used DEF IInv
  <2> QED
    BY <1>3, <1>4, <1>5, <2>2
<1>7. /\ Append(w, e) \in Seq(Entries) /\ Len(Append(w, e)) = Len(w) + 1
      /\ FilesOf(Append(w, e)) = FilesOf(w) \cup {e.file}
      /\ Apart(Append(w, e)) /\ Recency(Append(w, e), since')
  <2>1. e.doc \notin DocumentsOf(w) /\ e.file \notin FilesOf(w)
    BY <1>3, <1>4
  <2> QED
    BY <1>3, <1>4, <1>6, <2>1, AppendEntries
<1>8. entries' = Append(w, e)
  BY DEF w
<1>9. Len(entries') <= MaxEntries
  <2>1. Len(w) \in Nat /\ Len(entries) \in Nat /\ MaxEntries \in Nat
    BY <1>2, <1>4, FileCacheAssumption
  <2> QED
    BY <1>2, <1>4, <1>7, <1>8, <2>1
<1>10. FilesOf(entries') = FilesOf(entries)
  BY <1>4, <1>5, <1>7, <1>8
<1> QED
  BY <1>5, <1>7, <1>8, <1>9, <1>10 DEF Ordered

\* The new file enters last, and what goes was used longest ago.
LEMMA InsertEntries ==
  ASSUME IInv, NEW r \in Requests, pc[r] = "insert",
         entries' = WithinLimit(Inserted(r)),
         Use(Document(r), fresh[r])
  PROVE  /\ entries' \in Seq(Entries) /\ Ordered'
         /\ fresh[r] \in 1..uploads
         /\ FilesOf(Inserted(r))
              = FilesOf(Without(Unexpired, Document(r))) \cup {fresh[r]}
         /\ FilesOf(Without(Unexpired, Document(r))) \subseteq FilesOf(Unexpired)
         /\ FilesOf(Unexpired) = FilesOf(entries) \ lapsed
         /\ FilesOf(WithinLimit(Inserted(r))) \subseteq FilesOf(Inserted(r))
         /\ \A f \in FilesOf(Inserted(r)) \ FilesOf(WithinLimit(Inserted(r))) :
              Cardinality(since'[f]) >= MaxEntries
<1> DEFINE d == Document(r)
           u == Unexpired
           w == Without(u, d)
           e == [doc |-> d, file |-> fresh[r]]
           s == Append(w, e)
<1>1. d \in Documents
  BY DocumentTyped DEF IInv
<1>2. /\ u \in Seq(Entries) /\ Apart(u) /\ Recency(u, since)
      /\ FilesOf(u) = FilesOf(entries) \ lapsed
  BY UnexpiredEntries DEF IInv
<1> HIDE DEF u
<1>3. /\ w \in Seq(Entries) /\ Apart(w) /\ Recency(w, since)
      /\ d \notin DocumentsOf(w) /\ FilesOf(w) \subseteq FilesOf(u)
  BY <1>1, <1>2, WithoutEntries
<1> HIDE DEF w, d
<1>4. /\ FilesOf(entries) \subseteq 1..uploads
      /\ fresh[r] \in Files /\ fresh[r] \in 1..uploads /\ fresh[r] \notin FilesOf(entries)
  <2>1. FilesOf(entries) \subseteq remote
    BY DEF IInv, OneOwner, Owned
  <2>2. remote \subseteq 1..uploads
    BY FileCacheAssumption DEF IInv, TypeOK, Progress, Files
  <2>3. fresh[r] \in remote /\ fresh[r] \notin FilesOf(entries)
    BY HandsAt DEF IInv
  <2>4. fresh[r] \in Files
    BY DEF IInv, Progress
  <2> QED
    BY <2>1, <2>2, <2>3, <2>4
<1>5. e \in Entries /\ e.doc = d /\ e.file = fresh[r]
  BY <1>1, <1>4 DEF Entries
<1> HIDE DEF e
<1>6. \A f \in FilesOf(w) : since[f] \cup {e.doc} \subseteq since'[f]
  <2>1. \A g \in 1..uploads : g # fresh[r] => since'[g] = since[g] \cup {d}
    BY <1>1, <1>4, Used DEF IInv, d
  <2> QED
    BY <1>2, <1>3, <1>4, <1>5, <2>1
<1>7. /\ s \in Seq(Entries) /\ FilesOf(s) = FilesOf(w) \cup {e.file}
      /\ Apart(s) /\ Recency(s, since')
  <2>1. e.doc \notin DocumentsOf(w) /\ e.file \notin FilesOf(w)
    BY <1>2, <1>3, <1>4, <1>5
  <2> QED
    BY <1>3, <1>5, <1>6, <2>1, AppendEntries
<1> HIDE DEF s
<1>8. \A f \in FilesOf(s) : IsFiniteSet(since'[f])
  <2>1. SinceFinite'
    BY <1>1, <1>4, Used DEF IInv, d
  <2>2. FilesOf(s) \subseteq Files
    <3>1. \A j \in DOMAIN s : s[j] \in Entries
      BY <1>7
    <3>2. \A x \in Entries : x.file \in Files
      BY DEF Entries
    <3> QED
      BY <3>1, <3>2 DEF FilesOf
  <2> QED
    BY <2>1, <2>2 DEF SinceFinite
<1>9. /\ WithinLimit(s) \in Seq(Entries) /\ Len(WithinLimit(s)) <= MaxEntries
      /\ Apart(WithinLimit(s)) /\ Recency(WithinLimit(s), since')
      /\ FilesOf(WithinLimit(s)) \subseteq FilesOf(s)
      /\ \A f \in FilesOf(s) \ FilesOf(WithinLimit(s)) :
           Cardinality(since'[f]) >= MaxEntries
  BY <1>7, <1>8, WithinLimitEntries
<1>10. Inserted(r) = s
  BY DEF Inserted, s, e, w, d, u
<1>11. Ordered'
  BY <1>9, <1>10 DEF Ordered
<1> QED
  BY <1>2, <1>3, <1>4, <1>5, <1>7, <1>9, <1>10, <1>11 DEF w, u, d
-----------------------------------------------------------------------------
(* The invariant is inductive *)

\* Nothing is cached, uploaded or relied on at first.
LEMMA InitHolds == Init => IInv
<1> SUFFICES ASSUME Init PROVE IInv
  OBVIOUS
<1> USE DEF Init
<1>1. TypeOK
  BY FileCacheAssumption DEF TypeOK, Sites, Files
<1>2. Progress
  <2>1. \A r \in Requests : 1 \in DOMAIN Blocks[r]
    BY FileCacheAssumption
  <2>2. \A r \in Requests : body[r] \in [DOMAIN Blocks[r] -> 0..uploads]
    BY DEF NoBody
  <2> QED
    BY <2>1, <2>2 DEF Progress
<1>3. FilesOf(entries) = {}
  BY DEF FilesOf
<1>4. OneOwner
  <2>1. \A r \in Requests : hands[r] = {}
    BY DEF hands
  <2> QED
    BY <1>3, <2>1 DEF OneOwner, Owned
<1>5. Ordered
  BY FileCacheAssumption DEF Ordered, Apart, Recency
<1>6. AgedOut
  BY DEF AgedOut
<1>7. SinceFinite
  BY FS_EmptySet DEF SinceFinite
<1> QED
  BY <1>1, <1>2, <1>4, <1>5, <1>6, <1>7 DEF IInv

\* The place of a request and the files it can know of, one step on.
LEMMA RewrittenKept ==
  ASSUME IInv, NEW r \in Requests, NEW f \in 0..uploads, pc[r] # "post",
         Rewritten(r, f)
  PROVE  /\ pc' \in [Requests -> Sites] /\ block' \in [Requests -> Nat]
         /\ DOMAIN body' = Requests
         /\ pc'[r] \in {"lookup", "post"}
         /\ pc'[r] # "post" => block'[r] \in DOMAIN Blocks[r]
         /\ body'[r] \in [DOMAIN Blocks[r] -> 0..uploads]
         /\ \A q \in Requests : q # r => /\ pc'[q] = pc[q] /\ block'[q] = block[q]
                                         /\ body'[q] = body[q]
<1>1. /\ pc \in [Requests -> Sites] /\ block \in [Requests -> Nat] /\ DOMAIN body = Requests
      /\ block[r] \in DOMAIN Blocks[r]
      /\ body[r] \in [DOMAIN Blocks[r] -> 0..uploads]
  BY DEF IInv, TypeOK, Progress
<1>2. Blocks[r] \in Seq(Documents)
  BY FileCacheAssumption
<1>3. block' = [block EXCEPT ![r] = block[r] + 1]
  BY DEF Rewritten
<1>4. pc' = [pc EXCEPT ![r] = IF block[r] = Len(Blocks[r]) THEN "post" ELSE "lookup"]
  BY DEF Rewritten, Go
<1>5. body' = [body EXCEPT ![r] = [body[r] EXCEPT ![block[r]] = f]]
  BY DEF Rewritten
<1>6. body'[r] = [body[r] EXCEPT ![block[r]] = f]
  BY <1>1, <1>5
<1>7. pc'[r] # "post" => block'[r] \in DOMAIN Blocks[r]
  BY <1>1, <1>2, <1>3, <1>4
<1>8. body'[r] \in [DOMAIN Blocks[r] -> 0..uploads]
  BY <1>1, <1>6
<1>9. pc' \in [Requests -> Sites] /\ pc'[r] \in {"lookup", "post"}
  BY <1>1, <1>4 DEF Sites
<1>10. block' \in [Requests -> Nat]
  BY <1>1, <1>3
<1> QED
  BY <1>1, <1>3, <1>4, <1>5, <1>7, <1>8, <1>9, <1>10

\* A free slot is in its first place.
LEMMA ResetKept ==
  ASSUME IInv, NEW r \in Requests, Reset(r)
  PROVE  /\ pc' = [pc EXCEPT ![r] = "lookup"]
         /\ fresh' = [fresh EXCEPT ![r] = 0]
         /\ doomed' = [doomed EXCEPT ![r] = {}]
         /\ block' \in [Requests -> Nat] /\ block'[r] \in DOMAIN Blocks[r]
         /\ DOMAIN body' = Requests
         /\ body'[r] \in [DOMAIN Blocks[r] -> 0..uploads]
         /\ \A q \in Requests : q # r => block'[q] = block[q] /\ body'[q] = body[q]
<1>1. block \in [Requests -> Nat] /\ DOMAIN body = Requests /\ uploads \in Nat
  BY FileCacheAssumption DEF IInv, TypeOK
<1>2. 1 \in DOMAIN Blocks[r]
  BY FileCacheAssumption
<1>3. NoBody(r) \in [DOMAIN Blocks[r] -> 0..uploads]
  BY <1>1 DEF NoBody
<1> QED
  BY <1>1, <1>2, <1>3 DEF Reset, Go

\* A step that changes nothing keeps the invariant.
LEMMA Unchanged == IInv /\ UNCHANGED vars => IInv'
<1> SUFFICES ASSUME IInv, UNCHANGED vars
             PROVE  IInv'
  OBVIOUS
<1>1. UNCHANGED <<entries, uploads, remote, lapsed, pc, block, fresh, doomed, body,
                  since, leaked>>
  BY DEF vars, requests
<1>2. hands' = hands /\ Doomed' = Doomed
  BY <1>1 DEF hands, Doomed
<1>3. TypeOK' /\ Progress'
  BY <1>1 DEF IInv, TypeOK, Progress
<1>4. OneOwner' /\ Ordered'
  BY <1>1, <1>2 DEF IInv, OneOwner, Ordered
<1>5. AgedOut' /\ SinceFinite'
  BY <1>1, <1>2 DEF IInv, AgedOut, SinceFinite
<1> QED
  BY <1>3, <1>4, <1>5 DEF IInv

\* Expired entries leave the cache for the hands of the request that found them.
LEMMA SweepKeeps ==
  ASSUME IInv, NEW r \in Requests, Sweep(r)
  PROVE  IInv'
<1>1. /\ pc[r] = "lookup" /\ doomed' = [doomed EXCEPT ![r] = Expired]
      /\ entries' = Unexpired /\ pc' = [pc EXCEPT ![r] = "get"]
      /\ UNCHANGED <<uploads, remote, lapsed, block, fresh, body, since, leaked>>
  BY DEF Sweep, Go
<1>2. /\ Unexpired \in Seq(Entries) /\ Len(Unexpired) <= Len(entries)
      /\ Apart(Unexpired) /\ Recency(Unexpired, since)
      /\ FilesOf(Unexpired) = FilesOf(entries) \ lapsed
  BY UnexpiredEntries DEF IInv
<1>3. Expired = FilesOf(entries) \cap lapsed /\ FilesOf(entries) \subseteq remote \ Doomed
  BY HandsAt DEF IInv, Expired
<1> HIDE DEF Expired
<1>4. TypeOK /\ Progress /\ Ordered /\ AgedOut /\ SinceFinite /\ OneOwner
  BY DEF IInv
<1>5. TypeOK'
  BY <1>1, <1>2, <1>3, <1>4 DEF TypeOK, Sites
<1>6. Progress'
  BY <1>1, <1>4 DEF Progress, TypeOK
<1>7. Ordered'
  <2>1. Len(entries) \in Nat /\ Len(Unexpired) \in Nat /\ MaxEntries \in Nat
    BY <1>2, <1>4, FileCacheAssumption DEF TypeOK
  <2> QED
    BY <1>1, <1>2, <1>4, <2>1 DEF Ordered
<1>8. OneOwner'
  <2>1. /\ pc'[r] # "insert" /\ doomed'[r] = Expired
        /\ \A q \in Requests : q # r => /\ pc'[q] = pc[q]
                                        /\ fresh'[q] = fresh[q]
                                        /\ doomed'[q] = doomed[q]
    BY <1>1, <1>4 DEF TypeOK
  <2>2. hands' = [hands EXCEPT ![r] = Expired]
    BY <2>1, HandsOf
  <2>3. hands[r] = {} /\ FilesOf(entries) \cap leaked = {} /\ DOMAIN hands = Requests
    BY <1>1, <1>4, HandsAt DEF OneOwner, Owned, hands
  <2>4. /\ FilesOf(Unexpired) \cup leaked \cup Expired
             = FilesOf(entries) \cup leaked \cup hands[r]
        /\ FilesOf(Unexpired) \cap leaked = {}
        /\ Expired \cap (FilesOf(Unexpired) \cup leaked) = {}
    BY <1>2, <1>3, <2>3
  <2>5. Owned(remote, FilesOf(Unexpired), leaked, [hands EXCEPT ![r] = Expired])
    BY <1>4, <2>3, <2>4, FilesPass DEF OneOwner
  <2> QED
    BY <1>1, <2>2, <2>5 DEF OneOwner
<1>9. AgedOut'
  <2>1. Doomed' \subseteq Doomed \cup Expired
    BY <1>1, <1>4 DEF Doomed, TypeOK
  <2>2. Expired \subseteq lapsed
    BY <1>3
  <2> QED
    BY <1>1, <1>4, <2>1, <2>2 DEF AgedOut
<1>10. SinceFinite'
  BY <1>1, <1>4 DEF SinceFinite
<1> QED
  BY <1>5, <1>6, <1>7, <1>8, <1>9, <1>10 DEF IInv

\* A file leaves a request's hands for nowhere, or leaks.
LEMMA DeleteKeeps ==
  ASSUME IInv, NEW r \in Requests, Delete(r)
  PROVE  IInv'
<1>1. PICK f \in doomed[r] :
        /\ doomed' = [doomed EXCEPT ![r] = doomed[r] \ {f}]
        /\ \/ remote' = remote \ {f} /\ leaked' = leaked
           \/ remote' = remote /\ leaked' = leaked \cup {f}
        /\ UNCHANGED <<entries, uploads, lapsed, pc, block, fresh, body, since>>
  BY DEF Delete, Leak
<1>2. TypeOK /\ Progress /\ Ordered /\ AgedOut /\ SinceFinite /\ OneOwner
  BY DEF IInv
<1>3. /\ doomed[r] \subseteq remote /\ doomed[r] \subseteq Doomed
      /\ hands[r] = doomed[r] /\ pc[r] # "insert"
      /\ hands[r] \cap (FilesOf(entries) \cup leaked) = {}
      /\ FilesOf(entries) \cap leaked = {}
  <2>1. pc[r] # "insert"
    BY <1>1, <1>2 DEF Progress
  <2>2. hands[r] = doomed[r]
    BY <1>2, <2>1, HandsAt
  <2>3. FilesOf(entries) \cap leaked = {}
    BY <1>2 DEF OneOwner, Owned
  <2> QED
    BY <1>2, <2>1, <2>2, <2>3, HandsAt
<1>4. TypeOK'
  BY <1>1, <1>2 DEF TypeOK
<1>5. Progress'
  BY <1>1, <1>2 DEF Progress, TypeOK
<1>6. Ordered' /\ SinceFinite'
  BY <1>1, <1>2 DEF Ordered, SinceFinite
<1>7. OneOwner'
  <2>1. /\ pc'[r] # "insert" /\ doomed'[r] = doomed[r] \ {f}
        /\ \A q \in Requests : q # r => /\ pc'[q] = pc[q]
                                        /\ fresh'[q] = fresh[q]
                                        /\ doomed'[q] = doomed[q]
    BY <1>1, <1>2, <1>3 DEF TypeOK
  <2>2. hands' = [hands EXCEPT ![r] = doomed[r] \ {f}] /\ DOMAIN hands = Requests
    BY <2>1, HandsOf DEF hands
  <2>3. CASE remote' = remote \ {f} /\ leaked' = leaked
    <3>1. /\ {f} \subseteq hands[r] /\ doomed[r] \ {f} = hands[r] \ {f}
      BY <1>3
    <3>2. Owned(remote \ {f}, FilesOf(entries), leaked, [hands EXCEPT ![r] = hands[r] \ {f}])
      BY <1>2, <2>2, <3>1, FilesDeleted DEF OneOwner
    <3> QED
      BY <1>1, <2>2, <2>3, <3>1, <3>2 DEF OneOwner
  <2>4. CASE remote' = remote /\ leaked' = leaked \cup {f}
    <3>1. /\ FilesOf(entries) \cup (leaked \cup {f}) \cup (doomed[r] \ {f})
               = FilesOf(entries) \cup leaked \cup hands[r]
          /\ FilesOf(entries) \cap (leaked \cup {f}) = {}
          /\ (doomed[r] \ {f}) \cap (FilesOf(entries) \cup (leaked \cup {f})) = {}
      BY <1>3
    <3>2. Owned(remote, FilesOf(entries), leaked \cup {f},
                [hands EXCEPT ![r] = doomed[r] \ {f}])
      BY <1>2, <2>2, <3>1, FilesPass DEF OneOwner
    <3> QED
      BY <1>1, <2>2, <2>4, <3>2 DEF OneOwner
  <2> QED
    BY <1>1, <2>3, <2>4
<1>8. AgedOut'
  <2>1. Doomed' \subseteq Doomed
    BY <1>1, <1>2 DEF Doomed, TypeOK
  <2>2. remote \ Doomed \subseteq remote'
    BY <1>1, <1>3
  <2> QED
    BY <1>1, <1>2, <2>1, <2>2 DEF AgedOut
<1> QED
  BY <1>4, <1>5, <1>6, <1>7, <1>8 DEF IInv

\* A hit moves no file; the one used starts its count of later documents anew.
LEMMA HitKeeps ==
  ASSUME IInv, NEW r \in Requests, Hit(r)
  PROVE  IInv'
<1>1. PICK i \in DOMAIN entries :
        /\ pc[r] = "get" /\ doomed[r] = {}
        /\ entries[i].doc = Document(r)
        /\ entries' = Append(Without(entries, Document(r)), entries[i])
        /\ Rewritten(r, entries[i].file)
        /\ Use(Document(r), entries[i].file)
        /\ UNCHANGED <<uploads, remote, lapsed, fresh, doomed, leaked>>
  BY DEF Hit
<1>2. TypeOK /\ Progress /\ Ordered /\ AgedOut /\ SinceFinite /\ OneOwner
  BY DEF IInv
<1> DEFINE f == entries[i].file
<1>3. /\ entries' \in Seq(Entries) /\ Ordered'
      /\ FilesOf(entries') = FilesOf(entries)
      /\ f \in 1..uploads
  BY <1>1, HitEntries
<1>4. f \in FilesOf(entries) /\ f \in Files
  <2>1. entries[i] \in Entries
    BY <1>2 DEF TypeOK
  <2> QED
    BY <2>1 DEF FilesOf, Entries
<1> HIDE DEF f
<1>5. /\ since' \in [Files -> SUBSET Documents] /\ SinceFinite'
      /\ \A g \in 1..uploads : g # f =>
           /\ Cardinality(since[g]) <= Cardinality(since'[g])
           /\ Cardinality(since[g]) \in Nat /\ Cardinality(since'[g]) \in Nat
  BY <1>1, <1>2, <1>4, DocumentTyped, Used DEF f
<1>6. /\ pc' \in [Requests -> Sites] /\ block' \in [Requests -> Nat]
      /\ DOMAIN body' = Requests
      /\ pc'[r] \in {"lookup", "post"}
      /\ pc'[r] # "post" => block'[r] \in DOMAIN Blocks[r]
      /\ body'[r] \in [DOMAIN Blocks[r] -> 0..uploads]
      /\ \A q \in Requests : q # r => /\ pc'[q] = pc[q] /\ block'[q] = block[q]
                                      /\ body'[q] = body[q]
  <2>1. f \in 0..uploads
    BY <1>3
  <2> QED
    BY <1>1, <2>1, RewrittenKept DEF f
<1>7. TypeOK'
  BY <1>1, <1>2, <1>3, <1>5, <1>6 DEF TypeOK
<1>8. Progress'
  BY <1>1, <1>2, <1>6 DEF Progress
<1>9. OneOwner'
  <2>1. /\ pc'[r] # "insert" /\ doomed'[r] = doomed[r]
        /\ \A q \in Requests : q # r => /\ pc'[q] = pc[q]
                                        /\ fresh'[q] = fresh[q]
                                        /\ doomed'[q] = doomed[q]
    BY <1>1, <1>6
  <2>2. hands' = hands
    BY <1>1, <2>1, HandsSame
  <2> QED
    BY <1>1, <1>2, <1>3, <2>2 DEF OneOwner
<1>10. AgedOut'
  <2>1. Doomed' = Doomed
    BY <1>1 DEF Doomed
  <2>2. f \in remote \ Doomed
    BY <1>2, <1>4, HandsAt
  <2>3. MaxEntries \in Nat
    BY FileCacheAssumption
  <2> QED
    BY <1>1, <1>2, <1>5, <2>1, <2>2, <2>3 DEF AgedOut
<1> QED
  BY <1>3, <1>5, <1>7, <1>8, <1>9, <1>10 DEF IInv

\* A miss moves nothing.
LEMMA MissKeeps ==
  ASSUME IInv, NEW r \in Requests, Miss(r)
  PROVE  IInv'
<1>1. /\ pc[r] = "get" /\ doomed[r] = {} /\ pc' = [pc EXCEPT ![r] = "upload"]
      /\ UNCHANGED <<entries, uploads, remote, lapsed, block, fresh, doomed, body, since, leaked>>
  BY DEF Miss, Go
<1>2. TypeOK /\ Progress /\ Ordered /\ AgedOut /\ SinceFinite /\ OneOwner
  BY DEF IInv
<1>3. TypeOK'
  BY <1>1, <1>2 DEF TypeOK, Sites
<1>4. Progress'
  BY <1>1, <1>2 DEF Progress, TypeOK
<1>5. Ordered' /\ SinceFinite'
  BY <1>1, <1>2 DEF Ordered, SinceFinite
<1>6. OneOwner'
  <2>1. /\ pc'[r] # "insert" /\ doomed'[r] = doomed[r]
        /\ \A q \in Requests : q # r => /\ pc'[q] = pc[q]
                                        /\ fresh'[q] = fresh[q]
                                        /\ doomed'[q] = doomed[q]
    BY <1>1, <1>2 DEF TypeOK
  <2>2. hands' = hands
    BY <1>1, <2>1, HandsSame
  <2> QED
    BY <1>1, <1>2, <2>2 DEF OneOwner
<1>7. AgedOut'
  <2>1. Doomed' = Doomed
    BY <1>1 DEF Doomed
  <2> QED
    BY <1>1, <1>2, <2>1 DEF AgedOut
<1> QED
  BY <1>3, <1>4, <1>5, <1>6, <1>7 DEF IInv

\* A new file is in the hands of the request that uploaded it.
LEMMA UploadKeeps ==
  ASSUME IInv, NEW r \in Requests, Upload(r)
  PROVE  IInv'
<1> DEFINE f == uploads + 1
<1>1. /\ pc[r] = "upload" /\ uploads < MaxFiles
      /\ uploads' = f /\ remote' = remote \cup {f}
      /\ fresh' = [fresh EXCEPT ![r] = f] /\ pc' = [pc EXCEPT ![r] = "insert"]
      /\ UNCHANGED <<entries, lapsed, block, doomed, body, since, leaked>>
  BY DEF Upload, Go
<1>2. TypeOK /\ Progress /\ Ordered /\ AgedOut /\ SinceFinite /\ OneOwner
  BY DEF IInv
<1>3. /\ uploads \in Nat /\ f \in Nat /\ f \in 1..MaxFiles /\ f \in Files /\ f \notin remote
      /\ 0..uploads \subseteq 0..f /\ 1..f = 1..uploads \cup {f} /\ f \in 0..f
  BY <1>1, <1>2, FileCacheAssumption DEF TypeOK, Progress, Files
<1>4. Doomed \subseteq remote
  BY <1>2, HandsAt DEF Doomed
<1> HIDE DEF f
<1>5. TypeOK'
  BY <1>1, <1>2, <1>3 DEF TypeOK, Sites
<1>6. Progress'
  <2>1. \A g \in remote' : g <= uploads'
    BY <1>1, <1>2, <1>3 DEF Progress, TypeOK, Files, f
  <2>2. \A q \in Requests : body[q] \in [DOMAIN Blocks[q] -> 0..f]
    BY <1>2, <1>3 DEF Progress
  <2>3. \A q \in Requests : fresh[q] \in 0..f
    BY <1>2, <1>3 DEF Progress
  <2> QED
    BY <1>1, <1>2, <1>3, <2>1, <2>2, <2>3 DEF Progress, TypeOK
<1>7. Ordered' /\ SinceFinite'
  BY <1>1, <1>2 DEF Ordered, SinceFinite
<1>8. OneOwner'
  <2>1. /\ pc'[r] = "insert" /\ doomed'[r] = {} /\ fresh'[r] = f /\ hands[r] = {}
        /\ \A q \in Requests : q # r => /\ pc'[q] = pc[q]
                                        /\ fresh'[q] = fresh[q]
                                        /\ doomed'[q] = doomed[q]
    BY <1>1, <1>2, HandsAt DEF TypeOK
  <2>2. hands' = [hands EXCEPT ![r] = {f}] /\ DOMAIN hands = Requests
    <3>1. {} \cup {f} = {f}
      OBVIOUS
    <3> QED
      BY <2>1, <3>1, HandsOf DEF hands
  <2>3. /\ {f} \cap remote = {} /\ {} \subseteq FilesOf(entries) \cup leaked \cup hands[r] \cup {f}
        /\ FilesOf(entries) \cup leaked \cup {f}
             = (FilesOf(entries) \cup leaked \cup hands[r] \cup {f}) \ {}
        /\ FilesOf(entries) \cap leaked = {}
        /\ {f} \cap (FilesOf(entries) \cup leaked) = {}
    BY <1>2, <1>3, <2>1, HandsAt DEF OneOwner, Owned
  <2>4. Owned((remote \cup {f}) \ {}, FilesOf(entries), leaked, [hands EXCEPT ![r] = {f}])
    BY <1>2, <2>2, <2>3, OwnershipMoves DEF OneOwner
  <2>5. (remote \cup {f}) \ {} = remote'
    BY <1>1
  <2> QED
    BY <1>1, <2>2, <2>4, <2>5 DEF OneOwner
<1>9. AgedOut'
  <2>1. Doomed' = Doomed
    BY <1>1 DEF Doomed
  <2> QED
    BY <1>1, <1>2, <1>3, <1>4, <2>1 DEF AgedOut
<1> QED
  BY <1>5, <1>6, <1>7, <1>8, <1>9 DEF IInv

\* What the provider kept of a failed upload leaks.
LEMMA UploadFailsKeeps ==
  ASSUME IInv, NEW r \in Requests, UploadFails(r)
  PROVE  IInv'
<1>1. /\ pc[r] = "upload" /\ Rewritten(r, 0)
      /\ \/ UNCHANGED <<uploads, remote, leaked>>
         \/ /\ uploads < MaxFiles /\ uploads' = uploads + 1
            /\ remote' = remote \cup {uploads + 1} /\ leaked' = leaked \cup {uploads + 1}
      /\ UNCHANGED <<entries, lapsed, fresh, doomed, since>>
  BY DEF UploadFails, Leak
<1>2. TypeOK /\ Progress /\ Ordered /\ AgedOut /\ SinceFinite /\ OneOwner
  BY DEF IInv
<1>3. PICK N \in {{}, {uploads + 1}} :
        /\ uploads' \in Nat /\ uploads' <= MaxFiles /\ uploads <= uploads'
        /\ remote' = remote \cup N /\ leaked' = leaked \cup N
        /\ N \cap remote = {} /\ \A f \in N : f = uploads'
        /\ 1..uploads' = 1..uploads \cup N
  <2>1. uploads \in Nat /\ uploads <= MaxFiles /\ MaxFiles \in Nat
    BY <1>2, FileCacheAssumption DEF TypeOK
  <2>2. CASE UNCHANGED <<uploads, remote, leaked>>
    BY <2>1, <2>2
  <2>3. CASE /\ uploads < MaxFiles /\ uploads' = uploads + 1
             /\ remote' = remote \cup {uploads + 1} /\ leaked' = leaked \cup {uploads + 1}
    <3>1. uploads + 1 \notin remote
      BY <1>2, <2>1 DEF Progress
    <3>2. 1..(uploads + 1) = 1..uploads \cup {uploads + 1}
      BY <2>1
    <3>3. uploads' \in Nat /\ uploads' <= MaxFiles /\ uploads <= uploads'
      BY <2>1, <2>3
    <3> QED
      BY <2>3, <3>1, <3>2, <3>3
  <2> QED
    BY <1>1, <2>2, <2>3
<1>4. /\ pc' \in [Requests -> Sites] /\ block' \in [Requests -> Nat]
      /\ DOMAIN body' = Requests
      /\ pc'[r] \in {"lookup", "post"}
      /\ pc'[r] # "post" => block'[r] \in DOMAIN Blocks[r]
      /\ body'[r] \in [DOMAIN Blocks[r] -> 0..uploads]
      /\ \A q \in Requests : q # r => /\ pc'[q] = pc[q] /\ block'[q] = block[q]
                                      /\ body'[q] = body[q]
  <2>1. 0 \in 0..uploads
    BY <1>2 DEF TypeOK
  <2> QED
    BY <1>1, <2>1, RewrittenKept
<1>5. uploads \in Nat /\ 0..uploads \subseteq 0..uploads' /\ N \subseteq Files
  <2>1. uploads \in Nat
    BY <1>2 DEF TypeOK
  <2>2. 0..uploads \subseteq 0..uploads'
    BY <1>3, <2>1
  <2>3. N \subseteq 1..uploads' /\ 1..uploads' \subseteq Files
    BY <1>3, FileCacheAssumption DEF Files
  <2> QED
    BY <2>1, <2>2, <2>3
<1>6. TypeOK'
  <2>1. uploads' \in 0..MaxFiles
    BY <1>3, FileCacheAssumption
  <2>2. remote' \in SUBSET Files
    BY <1>2, <1>3, <1>5 DEF TypeOK
  <2> QED
    BY <1>1, <1>2, <1>4, <2>1, <2>2 DEF TypeOK
<1>7. Progress'
  <2>1. ASSUME NEW f \in remote'
        PROVE  f <= uploads'
    <3>1. CASE f \in remote
      <4>1. f <= uploads
        BY <1>2, <3>1 DEF Progress
      <4>2. f \in 1..MaxFiles
        BY <1>2, <3>1 DEF TypeOK, Files
      <4>3. f \in Nat
        BY <4>2, FileCacheAssumption
      <4> QED
        BY <1>3, <1>5, <4>1, <4>3
    <3>2. CASE f \in N
      <4>1. f = uploads'
        BY <1>3, <3>2
      <4> QED
        BY <1>3, <4>1
    <3> QED
      BY <1>3, <3>1, <3>2
  <2>2. \A q \in Requests : /\ fresh[q] \in 0..uploads'
                            /\ body'[q] \in [DOMAIN Blocks[q] -> 0..uploads']
    <3>1. \A q \in Requests : body'[q] \in [DOMAIN Blocks[q] -> 0..uploads]
      BY <1>2, <1>4 DEF Progress
    <3> QED
      BY <1>2, <1>5, <3>1 DEF Progress
  <2> QED
    BY <1>1, <1>2, <1>4, <2>1, <2>2 DEF Progress
<1>8. Ordered' /\ SinceFinite'
  BY <1>1, <1>2 DEF Ordered, SinceFinite
<1>9. OneOwner'
  <2>1. /\ pc[r] # "insert" /\ pc'[r] # "insert" /\ doomed'[r] = doomed[r]
        /\ \A q \in Requests : q # r => /\ pc'[q] = pc[q]
                                        /\ fresh'[q] = fresh[q]
                                        /\ doomed'[q] = doomed[q]
    BY <1>1, <1>4
  <2>2. hands' = hands
    BY <2>1, HandsSame
  <2>3. \A q \in Requests : hands[q] \subseteq remote
    BY <1>2 DEF OneOwner, Owned
  <2>4. FilesOf(entries) \subseteq remote
    BY <1>2 DEF OneOwner, Owned
  <2>5. Owned(remote', FilesOf(entries), leaked', hands)
    BY <1>2, <1>3, <2>3, <2>4 DEF OneOwner, Owned
  <2> QED
    BY <1>1, <2>2, <2>5 DEF OneOwner
<1>10. AgedOut'
  <2>1. Doomed' = Doomed
    BY <1>1 DEF Doomed
  <2>2. Doomed \subseteq remote
    BY <1>2, HandsAt DEF Doomed
  <2> QED
    BY <1>1, <1>2, <1>3, <2>1, <2>2 DEF AgedOut
<1> QED
  BY <1>6, <1>7, <1>8, <1>9, <1>10 DEF IInv

\* The uploaded file enters the cache; expired files and those over the limit leave
\* it for the request's hands, and an entry that is overwritten leaks.
LEMMA InsertKeeps ==
  ASSUME IInv, NEW r \in Requests, Insert(r)
  PROVE  IInv'
<1> DEFINE ins == FilesOf(Inserted(r))
           kept == FilesOf(WithinLimit(Inserted(r)))
           unx == FilesOf(Unexpired)
           rest == FilesOf(Without(Unexpired, Document(r)))
<1>1. /\ pc[r] = "insert" /\ entries' = WithinLimit(Inserted(r))
      /\ doomed' = [doomed EXCEPT ![r] = Expired \cup (ins \ kept)]
      /\ leaked' = leaked \cup (unx \ rest)
      /\ Use(Document(r), fresh[r]) /\ pc' = [pc EXCEPT ![r] = "cleanup"]
      /\ UNCHANGED <<uploads, remote, lapsed, block, fresh, body>>
  BY DEF Insert, Leak, Go
<1>2. TypeOK /\ Progress /\ Ordered /\ AgedOut /\ SinceFinite /\ OneOwner
  BY DEF IInv
<1>3. /\ entries' \in Seq(Entries) /\ Ordered'
      /\ fresh[r] \in 1..uploads
      /\ ins = rest \cup {fresh[r]} /\ rest \subseteq unx
      /\ unx = FilesOf(entries) \ lapsed /\ kept \subseteq ins
      /\ \A f \in ins \ kept : Cardinality(since'[f]) >= MaxEntries
  BY <1>1, InsertEntries
<1>4. FilesOf(entries') = kept
  BY <1>1
<1>5. Expired = FilesOf(entries) \cap lapsed
  BY DEF Expired
<1> HIDE DEF ins, kept, unx, rest, Expired
<1>6. fresh[r] \in Files
  BY <1>1, <1>2 DEF Progress
<1>7. /\ since' \in [Files -> SUBSET Documents] /\ SinceFinite'
      /\ \A g \in 1..uploads : g # fresh[r] =>
           /\ Cardinality(since[g]) <= Cardinality(since'[g])
           /\ Cardinality(since[g]) \in Nat /\ Cardinality(since'[g]) \in Nat
  BY <1>1, <1>2, <1>6, DocumentTyped, Used
<1>8. /\ hands[r] = {fresh[r]} /\ doomed[r] = {}
      /\ fresh[r] \in remote /\ fresh[r] \notin Doomed
      /\ fresh[r] \notin FilesOf(entries) \cup leaked
      /\ FilesOf(entries) \cap leaked = {}
      /\ FilesOf(entries) \subseteq remote
  <2>1. doomed[r] = {} /\ hands[r] = doomed[r] \cup {fresh[r]}
    BY <1>1, <1>2, HandsAt
  <2>2. FilesOf(entries) \cap leaked = {} /\ FilesOf(entries) \subseteq remote
    BY <1>2 DEF OneOwner, Owned
  <2>3. hands[r] = {fresh[r]}
    BY <2>1
  <2> QED
    BY <1>1, <1>2, <2>1, <2>2, <2>3, HandsAt
<1>9. TypeOK'
  <2>1. Expired \cup (ins \ kept) \in SUBSET Files
    BY <1>2, <1>3, <1>5, <1>6, <1>8 DEF TypeOK
  <2>2. doomed' \in [Requests -> SUBSET Files]
    BY <1>1, <1>2, <2>1 DEF TypeOK
  <2>3. pc' \in [Requests -> Sites]
    BY <1>1, <1>2 DEF TypeOK, Sites
  <2> QED
    BY <1>1, <1>2, <1>3, <1>7, <2>2, <2>3 DEF TypeOK
<1>10. Progress'
  <2>1. /\ pc'[r] = "cleanup"
        /\ \A q \in Requests : q # r => pc'[q] = pc[q] /\ doomed'[q] = doomed[q]
    BY <1>1, <1>2 DEF TypeOK
  <2> QED
    BY <1>1, <1>2, <2>1 DEF Progress
<1>11. OneOwner'
  <2>1. /\ pc'[r] # "insert" /\ doomed'[r] = Expired \cup (ins \ kept)
        /\ \A q \in Requests : q # r => /\ pc'[q] = pc[q]
                                        /\ fresh'[q] = fresh[q]
                                        /\ doomed'[q] = doomed[q]
    BY <1>1, <1>2 DEF TypeOK
  <2>2. hands' = [hands EXCEPT ![r] = Expired \cup (ins \ kept)] /\ DOMAIN hands = Requests
    <3>1. DOMAIN hands = Requests
      BY DEF hands
    <3> QED
      BY <2>1, <3>1, HandsOf
  <2>3. /\ kept \cup leaked' \cup (Expired \cup (ins \ kept))
             = FilesOf(entries) \cup leaked \cup hands[r]
        /\ kept \cap leaked' = {}
        /\ (Expired \cup (ins \ kept)) \cap (kept \cup leaked') = {}
    BY <1>1, <1>3, <1>5, <1>8
  <2>4. Owned(remote, kept, leaked', [hands EXCEPT ![r] = Expired \cup (ins \ kept)])
    BY <1>2, <2>2, <2>3, FilesPass DEF OneOwner
  <2> QED
    BY <1>1, <1>4, <2>2, <2>4 DEF OneOwner
<1>12. AgedOut'
  <2>1. Doomed' \subseteq Doomed \cup Expired \cup (ins \ kept)
    BY <1>1, <1>2 DEF Doomed, TypeOK
  <2>2. MaxEntries \in Nat
    BY FileCacheAssumption
  <2>3. SUFFICES ASSUME NEW f \in 1..uploads
                 PROVE  \/ f \in remote \ Doomed'
                        \/ f \in lapsed
                        \/ Cardinality(since'[f]) >= MaxEntries
    BY <1>1 DEF AgedOut
  <2>4. CASE f \in Expired \cup (ins \ kept)
    BY <1>3, <1>5, <2>4
  <2>5. CASE f \notin Expired \cup (ins \ kept) /\ f = fresh[r]
    BY <1>8, <2>1, <2>5
  <2>6. CASE f \notin Expired \cup (ins \ kept) /\ f # fresh[r]
    BY <1>2, <1>7, <2>1, <2>2, <2>6 DEF AgedOut
  <2> QED
    BY <2>4, <2>5, <2>6
<1> QED
  BY <1>3, <1>7, <1>9, <1>10, <1>11, <1>12 DEF IInv

\* With its hands empty a request goes on.
LEMMA CleanedUpKeeps ==
  ASSUME IInv, NEW r \in Requests, CleanedUp(r)
  PROVE  IInv'
<1>1. /\ pc[r] = "cleanup" /\ doomed[r] = {} /\ Rewritten(r, fresh[r])
      /\ fresh' = [fresh EXCEPT ![r] = 0]
      /\ UNCHANGED <<entries, uploads, remote, lapsed, doomed, since, leaked>>
  BY DEF CleanedUp
<1>2. TypeOK /\ Progress /\ Ordered /\ AgedOut /\ SinceFinite /\ OneOwner
  BY DEF IInv
<1>3. /\ pc' \in [Requests -> Sites] /\ block' \in [Requests -> Nat]
      /\ DOMAIN body' = Requests
      /\ pc'[r] \in {"lookup", "post"}
      /\ pc'[r] # "post" => block'[r] \in DOMAIN Blocks[r]
      /\ body'[r] \in [DOMAIN Blocks[r] -> 0..uploads]
      /\ \A q \in Requests : q # r => /\ pc'[q] = pc[q] /\ block'[q] = block[q]
                                      /\ body'[q] = body[q]
  <2>1. fresh[r] \in 0..uploads
    BY <1>2 DEF Progress
  <2> QED
    BY <1>1, <2>1, RewrittenKept
<1>4. /\ fresh' \in [Requests -> Nat] /\ fresh'[r] = 0
      /\ \A q \in Requests : q # r => fresh'[q] = fresh[q]
  BY <1>1, <1>2 DEF TypeOK
<1>5. TypeOK'
  BY <1>1, <1>2, <1>3, <1>4 DEF TypeOK
<1>6. Progress'
  <2>1. 0 \in 0..uploads
    BY <1>2 DEF TypeOK
  <2> QED
    BY <1>1, <1>2, <1>3, <1>4, <2>1 DEF Progress
<1>7. Ordered' /\ SinceFinite'
  BY <1>1, <1>2 DEF Ordered, SinceFinite
<1>8. OneOwner'
  <2>1. /\ pc[r] # "insert" /\ pc'[r] # "insert" /\ doomed'[r] = doomed[r]
        /\ \A q \in Requests : q # r => /\ pc'[q] = pc[q]
                                        /\ fresh'[q] = fresh[q]
                                        /\ doomed'[q] = doomed[q]
    BY <1>1, <1>3, <1>4
  <2>2. hands' = hands
    BY <2>1, HandsSame
  <2> QED
    BY <1>1, <1>2, <2>2 DEF OneOwner
<1>9. AgedOut'
  <2>1. Doomed' = Doomed
    BY <1>1 DEF Doomed
  <2> QED
    BY <1>1, <1>2, <2>1 DEF AgedOut
<1> QED
  BY <1>5, <1>6, <1>7, <1>8, <1>9 DEF IInv

\* A slot that is freed leaks what its request had in its hands.
LEMMA FreedKeeps ==
  ASSUME IInv, NEW r \in Requests, Reset(r), leaked' = leaked \cup hands[r],
         UNCHANGED <<entries, uploads, remote, lapsed, since>>
  PROVE  IInv'
<1>1. /\ pc' = [pc EXCEPT ![r] = "lookup"]
      /\ fresh' = [fresh EXCEPT ![r] = 0]
      /\ doomed' = [doomed EXCEPT ![r] = {}]
      /\ block' \in [Requests -> Nat] /\ block'[r] \in DOMAIN Blocks[r]
      /\ DOMAIN body' = Requests
      /\ body'[r] \in [DOMAIN Blocks[r] -> 0..uploads]
      /\ \A q \in Requests : q # r => block'[q] = block[q] /\ body'[q] = body[q]
  BY ResetKept
<1>2. TypeOK /\ Progress /\ Ordered /\ AgedOut /\ SinceFinite /\ OneOwner
  BY DEF IInv
<1>3. /\ pc' \in [Requests -> Sites] /\ fresh' \in [Requests -> Nat]
      /\ doomed' \in [Requests -> SUBSET Files]
      /\ pc'[r] = "lookup" /\ fresh'[r] = 0 /\ doomed'[r] = {}
      /\ \A q \in Requests : q # r => /\ pc'[q] = pc[q]
                                      /\ fresh'[q] = fresh[q]
                                      /\ doomed'[q] = doomed[q]
  BY <1>1, <1>2 DEF TypeOK, Sites
<1>4. TypeOK'
  BY <1>1, <1>2, <1>3 DEF TypeOK
<1>5. Progress'
  <2>1. 0 \in 0..uploads
    BY <1>2 DEF TypeOK
  <2> QED
    BY <1>1, <1>2, <1>3, <2>1 DEF Progress
<1>6. Ordered' /\ SinceFinite'
  BY <1>2 DEF Ordered, SinceFinite
<1>7. OneOwner'
  <2>1. hands' = [hands EXCEPT ![r] = {}] /\ DOMAIN hands = Requests
    <3>1. pc'[r] # "insert" /\ DOMAIN hands = Requests
      BY <1>3 DEF hands
    <3> QED
      BY <1>3, <3>1, HandsOf
  <2>2. hands[r] \cap FilesOf(entries) = {} /\ FilesOf(entries) \cap leaked = {}
    BY <1>2 DEF OneOwner, Owned
  <2>3. /\ FilesOf(entries) \cup leaked' \cup {} = FilesOf(entries) \cup leaked \cup hands[r]
        /\ FilesOf(entries) \cap leaked' = {}
        /\ {} \cap (FilesOf(entries) \cup leaked') = {}
    BY <2>2
  <2>4. Owned(remote, FilesOf(entries), leaked', [hands EXCEPT ![r] = {}])
    BY <1>2, <2>1, <2>3, FilesPass DEF OneOwner
  <2> QED
    BY <2>1, <2>4 DEF OneOwner
<1>8. AgedOut'
  <2>1. Doomed' \subseteq Doomed
    BY <1>3 DEF Doomed
  <2> QED
    BY <1>2, <2>1 DEF AgedOut
<1> QED
  BY <1>4, <1>5, <1>6, <1>7, <1>8 DEF IInv

\* Time moves no file.
LEMMA ExpireKeeps ==
  ASSUME IInv, NEW f \in Files, Expire(f)
  PROVE  IInv'
<1>1. /\ lapsed' = lapsed \cup {f}
      /\ UNCHANGED <<entries, uploads, remote, pc, block, fresh, doomed, body, since, leaked>>
  BY DEF Expire, requests
<1>2. hands' = hands /\ Doomed' = Doomed
  BY <1>1 DEF hands, Doomed
<1>3. TypeOK' /\ Progress'
  BY <1>1 DEF IInv, TypeOK, Progress
<1>4. OneOwner' /\ Ordered'
  BY <1>1, <1>2 DEF IInv, OneOwner, Ordered
<1>5. AgedOut' /\ SinceFinite'
  BY <1>1, <1>2 DEF IInv, AgedOut, SinceFinite
<1> QED
  BY <1>3, <1>4, <1>5 DEF IInv

\* Every step keeps the invariant: one lemma per action.
LEMMA NextKeeps == IInv /\ [Next]_vars => IInv'
<1> SUFFICES ASSUME IInv, [Next]_vars
             PROVE  IInv'
  OBVIOUS
<1>1. ASSUME NEW r \in Requests, Post(r)
      PROVE  IInv'
  <2>1. /\ Reset(r) /\ pc[r] = "post"
        /\ UNCHANGED <<entries, uploads, remote, lapsed, since, leaked>>
    BY <1>1 DEF Post
  <2>2. hands[r] = {}
    BY <2>1, HandsAt DEF IInv
  <2>3. leaked' = leaked \cup hands[r]
    BY <2>1, <2>2
  <2> QED
    BY <2>1, <2>3, FreedKeeps
<1>2. ASSUME NEW r \in Requests, Disconnect(r)
      PROVE  IInv'
  <2>1. /\ Reset(r) /\ UNCHANGED <<entries, uploads, remote, lapsed, since>>
        /\ leaked' = leaked \cup (doomed[r] \cup (IF pc[r] = "insert" THEN {fresh[r]} ELSE {}))
    BY <1>2 DEF Disconnect, Leak
  <2>2. hands[r] = doomed[r] \cup (IF pc[r] = "insert" THEN {fresh[r]} ELSE {})
    BY DEF hands
  <2> QED
    BY <2>1, <2>2, FreedKeeps
<1>3. CASE UNCHANGED vars
  BY <1>3, Unchanged
<1> QED
  BY <1>1, <1>2, <1>3, SweepKeeps, DeleteKeeps, HitKeeps, MissKeeps, UploadKeeps,
     UploadFailsKeeps, InsertKeeps, CleanedUpKeeps, ExpireKeeps DEF Next

\* The invariant holds of every behaviour.
THEOREM InvariantHolds == Spec => []IInv
BY InitHolds, NextKeeps, PTL DEF Spec

-----------------------------------------------------------------------------
(* The properties *)

\* However many requests evict, delete, look up and insert at the same time, the cache
\* offers only files the provider has and nobody is about to delete, and no more of
\* them than its limit.
THEOREM OnlyLiveFilesOffered == Spec => []CacheOffersLiveFiles
<1>1. IInv => CacheOffersLiveFiles
  <2> SUFFICES ASSUME IInv PROVE CacheOffersLiveFiles
    OBVIOUS
  <2>1. FilesOf(entries) \subseteq remote
    BY DEF IInv, OneOwner, Owned
  <2>2. \A r \in Requests : doomed[r] \cap FilesOf(entries) = {}
    BY DEF IInv, OneOwner, Owned, hands
  <2> QED
    BY <2>1, <2>2 DEF IInv, Ordered, CacheOffersLiveFiles, Doomed
<1> QED
  BY <1>1, InvariantHolds, PTL

\* No file is forgotten at the provider but by a fault, or by the one race in which two
\* requests upload the same document.
THEOREM NoFileForgotten == Spec => []FilesAccountedFor
<1>1. IInv => FilesAccountedFor
  <2> SUFFICES ASSUME IInv PROVE FilesAccountedFor
    OBVIOUS
  <2>1. remote = FilesOf(entries) \cup leaked \cup UNION {hands[r] : r \in Requests}
    BY DEF IInv, OneOwner, Owned
  <2>2. UNION {hands[r] : r \in Requests}
          = Doomed \cup {fresh[r] : r \in {q \in Requests : pc[q] = "insert"}}
    <3>1. \A r \in Requests :
            hands[r] = doomed[r] \cup (IF pc[r] = "insert" THEN {fresh[r]} ELSE {})
      BY DEF hands
    <3> QED
      BY <3>1 DEF Doomed
  <2> QED
    BY <2>1, <2>2 DEF FilesAccountedFor
<1> QED
  BY <1>1, InvariantHolds, PTL

\* A file goes before the request that relies on it is posted only if it has expired, or
\* as many documents as the cache holds were used after it.
THEOREM FilesOutliveTheirUse == Spec => []ReliedOnUntilPosted
<1>1. IInv => ReliedOnUntilPosted
  <2> SUFFICES ASSUME IInv, NEW r \in Requests, NEW i \in DOMAIN Blocks[r],
                      body[r][i] \notin remote \cup {0}
               PROVE  \/ body[r][i] \in lapsed
                      \/ Cardinality(since[body[r][i]]) >= MaxEntries
    BY DEF ReliedOnUntilPosted
  <2>1. body[r][i] \in 0..uploads
    BY DEF IInv, Progress
  <2>2. body[r][i] \in 1..uploads
    BY <2>1
  <2> QED
    BY <2>2 DEF IInv, AgedOut
<1> QED
  BY <1>1, InvariantHolds, PTL

-----------------------------------------------------------------------------
(* Induction, and lists put together of lists                              *)

\* Induction up to a number, for the set of the numbers that have a property.
LEMMA UpTo ==
  ASSUME NEW n \in Nat, NEW P \in SUBSET (0..n), 0 \in P,
         \A i \in 1..n : i - 1 \in P => i \in P
  PROVE  n \in P
<1> DEFINE R == OpToRel(<, Nat)
           I == (0..n) \ P
<1>1. IsWellFoundedOn(R, Nat)
  BY NatLessThanWellFounded
<1>2. \A i, j \in Nat : <<j, i>> \in R <=> j < i
  BY DEF OpToRel
<1> HIDE DEF R
<1>3. I \in SUBSET Nat
  OBVIOUS
<1>4. \A i \in I : i \in Nat /\ i \in 1..n /\ i - 1 \in 0..n /\ i - 1 \in Nat /\ i - 1 < i
  OBVIOUS
<1>5. \A i \in I : i - 1 \in I
  BY <1>4
<1> HIDE DEF I
<1>6. ASSUME I # {} PROVE FALSE
  <2>1. PICK i \in I : \A j \in I : ~ (<<j, i>> \in R)
    BY <1>1, <1>3, <1>6, WFMin
  <2>2. <<i - 1, i>> \in R
    BY <1>2, <1>4
  <2> QED
    BY <1>5, <2>1, <2>2
<1>7. n \in 0..n /\ n \notin I
  BY <1>6
<1> QED
  BY <1>7 DEF I

\* Two lists, one after the other: for the provers without what is known of \o.
Join(a, b) == a \o b

LEMMA JoinIs ==
  ASSUME NEW S, NEW a \in Seq(S), NEW b \in Seq(S)
  PROVE  /\ Join(a, b) \in Seq(S) /\ Len(Join(a, b)) = Len(a) + Len(b)
         /\ Join(a, << >>) = a /\ Join(<< >>, a) = a
BY ConcatProperties, ConcatEmptySeq DEF Join

LEMMA JoinJoin ==
  ASSUME NEW S, NEW a \in Seq(S), NEW b \in Seq(S), NEW c \in Seq(S)
  PROVE  Join(Join(a, b), c) = Join(a, Join(b, c))
BY ConcatAssociative DEF Join

\* f is what the first lists give together, up to the k-th.
HeadsTo(S, s, k, f) ==
  /\ f \in [0..k -> Seq(S)]
  /\ f[0] = << >>
  /\ \A i \in 1..k : f[i] = Join(f[i - 1], s[i])

Heads(S, s, f) == HeadsTo(S, s, Len(s), f)

LEMMA HeadsFurther ==
  ASSUME NEW S, NEW s, NEW k \in Nat \ {0}, s[k] \in Seq(S), NEW f, HeadsTo(S, s, k - 1, f)
  PROVE  \E g : HeadsTo(S, s, k, g)
<1> DEFINE t == Join(f[k - 1], s[k])
           g == [i \in 0..k |-> IF i = k THEN t ELSE f[i]]
<1>1. f \in [0..(k - 1) -> Seq(S)] /\ f[0] = << >> /\ \A i \in 1..(k - 1) : f[i] = Join(f[i - 1], s[i])
  BY DEF HeadsTo
<1>2. t \in Seq(S)
  <2>1. f[k - 1] \in Seq(S)
    BY <1>1
  <2> QED
    BY <2>1, JoinIs
<1>3. \A i \in 0..(k - 1) : g[i] = f[i] /\ i # k /\ f[i] \in Seq(S)
  BY <1>1
<1>4. g[k] = Join(f[k - 1], s[k])
  OBVIOUS
<1> HIDE DEF t
<1>5. g \in [0..k -> Seq(S)]
  BY <1>1, <1>2
<1> HIDE DEF g
<1>6. \A i \in 1..k : g[i] = Join(g[i - 1], s[i])
  <2> SUFFICES ASSUME NEW i \in 1..k PROVE g[i] = Join(g[i - 1], s[i])
    OBVIOUS
  <2>1. i - 1 \in 0..(k - 1) /\ g[i - 1] = f[i - 1]
    BY <1>3
  <2>2. CASE i = k
    BY <1>4, <2>1, <2>2
  <2>3. CASE i # k
    <3>1. i \in 0..(k - 1) /\ i \in 1..(k - 1)
      BY <2>3
    <3> QED
      BY <1>1, <1>3, <2>1, <3>1
  <2> QED
    BY <2>2, <2>3
<1>7. g[0] = << >>
  BY <1>1, <1>3
<1> QED
  BY <1>5, <1>6, <1>7 DEF HeadsTo

LEMMA HeadsExist ==
  ASSUME NEW S, NEW s \in Seq(Seq(S))
  PROVE  \E f : Heads(S, s, f)
<1> DEFINE n == Len(s)
           P == {k \in 0..n : \E f : HeadsTo(S, s, k, f)}
<1>1. n \in Nat /\ \A k \in 1..n : s[k] \in Seq(S)
  OBVIOUS
<1>2. P \in SUBSET (0..n)
  OBVIOUS
<1>3. 0 \in P
  <2>1. HeadsTo(S, s, 0, [i \in 0..0 |-> << >>])
    BY EmptySeq DEF HeadsTo
  <2> QED
    BY <1>1, <2>1
<1>4. ASSUME NEW k \in 1..n, k - 1 \in P PROVE k \in P
  <2>1. PICK f : HeadsTo(S, s, k - 1, f)
    BY <1>4
  <2>2. \E g : HeadsTo(S, s, k, g)
    BY <1>1, <2>1, HeadsFurther
  <2> QED
    BY <1>1, <2>2
<1> HIDE DEF P
<1>5. n \in P
  BY <1>1, <1>2, <1>3, <1>4, UpTo
<1> QED
  BY <1>5 DEF P, Heads

LEMMA HeadsAre ==
  ASSUME NEW S, NEW s \in Seq(Seq(S)), NEW f, Heads(S, s, f)
  PROVE  /\ Len(s) \in Nat /\ f[0] = << >>
         /\ \A i \in 0..Len(s) : f[i] \in Seq(S)
         /\ \A i \in 1..Len(s) : f[i] = Join(f[i - 1], s[i]) /\ s[i] \in Seq(S)
<1>1. Len(s) \in Nat /\ \A i \in 1..Len(s) : s[i] \in Seq(S)
  OBVIOUS
<1>2. /\ f \in [0..Len(s) -> Seq(S)] /\ f[0] = << >>
      /\ \A i \in 1..Len(s) : f[i] = Join(f[i - 1], s[i])
  BY DEF Heads, HeadsTo
<1>3. \A i \in 0..Len(s) : f[i] \in Seq(S)
  BY <1>2
<1> QED
  BY <1>1, <1>2, <1>3

\* FlattenSeq is the last of them.
LEMMA FlattenIs ==
  ASSUME NEW S, NEW s \in Seq(Seq(S)), NEW f, Heads(S, s, f)
  PROVE  FlattenSeq(s) = f[Len(s)]
<1> DEFINE n == Len(s)
           Step(g, i) == IF i = 1 THEN s[i] ELSE Join(g[i - 1], s[i])
           Chosen(g) == g = [i \in 1..n |-> Step(g, i)]
           c == CHOOSE g : Chosen(g)
<1>1. n \in Nat /\ f[0] = << >> /\ (\A i \in 0..n : f[i] \in Seq(S))
      /\ \A i \in 1..n : f[i] = Join(f[i - 1], s[i]) /\ s[i] \in Seq(S)
  BY HeadsAre
<1>2. CASE n = 0
  <2>1. s = << >>
    BY <1>2
  <2>2. FlattenSeq(s) = s
    BY <1>2 DEF FlattenSeq
  <2> QED
    BY <1>1, <1>2, <2>1, <2>2
<1>3. CASE n # 0
  <2>1. f[1] = s[1]
    <3>1. 1 \in 1..n /\ f[1] = Join(<< >>, s[1]) /\ s[1] \in Seq(S)
      BY <1>1, <1>3
    <3> QED
      BY <3>1, JoinIs
  <2> DEFINE h == [i \in 1..n |-> f[i]]
  <2>2. \A i \in 1..n : h[i] = Step(h, i)
    <3> SUFFICES ASSUME NEW i \in 1..n PROVE h[i] = Step(h, i)
      OBVIOUS
    <3>1. CASE i = 1
      BY <2>1, <3>1
    <3>2. CASE i # 1
      <4>1. i - 1 \in 1..n
        BY <3>2
      <4>2. h[i - 1] = f[i - 1] /\ h[i] = f[i]
        BY <4>1
      <4> QED
        BY <1>1, <3>2, <4>2
    <3> QED
      BY <3>1, <3>2
  <2>3. Chosen(h)
    <3> HIDE DEF Step
    <3>1. h = [i \in 1..n |-> h[i]]
      OBVIOUS
    <3> QED
      BY <2>2, <3>1
  <2>4. Chosen(c)
    <3> HIDE DEF Chosen
    <3> QED
      BY <2>3
  <2> HIDE DEF c
  <2>5. \A i \in 1..n : c[i] = Step(c, i)
    <3> HIDE DEF Step
    <3> QED
      BY <2>4
  <2> DEFINE P == {i \in 0..n : i = 0 \/ c[i] = f[i]}
  <2>6. P \in SUBSET (0..n) /\ 0 \in P
    BY <1>1
  <2>7. ASSUME NEW i \in 1..n, i - 1 \in P PROVE i \in P
    <3>1. CASE i = 1
      <4>1. c[1] = s[1]
        BY <2>5, <3>1
      <4>2. c[1] = f[1] /\ 1 \in 0..n
        BY <2>1, <3>1, <4>1
      <4> QED
        BY <3>1, <4>2
    <3>2. CASE i # 1
      <4>1. c[i - 1] = f[i - 1]
        BY <2>7, <3>2
      <4>2. c[i] = Join(c[i - 1], s[i])
        BY <2>5, <3>2
      <4> QED
        BY <1>1, <4>1, <4>2
    <3> QED
      BY <3>1, <3>2
  <2> HIDE DEF P
  <2>8. n \in P
    BY <1>1, <2>6, <2>7, UpTo
  <2>9. c[n] = f[n]
    BY <1>3, <2>8 DEF P
  <2>10. FlattenSeq(s) = c[n]
    BY <1>3 DEF FlattenSeq, c, Join
  <2> QED
    BY <2>9, <2>10
<1> QED
  BY <1>2, <1>3

LEMMA FlattenType ==
  ASSUME NEW S, NEW s \in Seq(Seq(S))
  PROVE  FlattenSeq(s) \in Seq(S)
<1>1. PICK f : Heads(S, s, f)
  BY HeadsExist
<1>2. Len(s) \in 0..Len(s)
  OBVIOUS
<1> QED
  BY <1>1, <1>2, HeadsAre, FlattenIs

LEMMA FlattenOne ==
  ASSUME NEW S, NEW t \in Seq(S)
  PROVE  FlattenSeq(<<t>>) = t
<1> DEFINE s == <<t>>
<1>1. s \in Seq(Seq(S)) /\ Len(s) = 1 /\ s[1] = t
  OBVIOUS
<1> HIDE DEF s
<1>2. PICK f : Heads(S, s, f)
  BY <1>1, HeadsExist
<1>3. f[0] = << >> /\ f[1] = Join(f[0], t)
  <2>1. 1 \in 1..Len(s) /\ 1 - 1 = 0
    BY <1>1
  <2>2. f[0] = << >> /\ \A i \in 1..Len(s) : f[i] = Join(f[i - 1], s[i])
    BY <1>1, <1>2, HeadsAre
  <2> QED
    BY <1>1, <2>1, <2>2
<1>4. f[1] = t
  BY <1>3, JoinIs
<1>5. FlattenSeq(s) = f[1]
  BY <1>1, <1>2, FlattenIs
<1> QED
  BY <1>4, <1>5 DEF s

LEMMA FlattenJoin ==
  ASSUME NEW S, NEW s \in Seq(Seq(S)), NEW t \in Seq(Seq(S))
  PROVE  FlattenSeq(s \o t) = FlattenSeq(s) \o FlattenSeq(t)
<1> DEFINE n == Len(s)
           m == Len(t)
           a == s \o t
<1>1. a \in Seq(Seq(S)) /\ Len(a) = n + m /\ n \in Nat /\ m \in Nat
      /\ (\A i \in 1..n : a[i] = s[i]) /\ (\A i \in 1..m : a[n + i] = t[i])
  OBVIOUS
<1> HIDE DEF n, m, a
<1>2. PICK f : Heads(S, a, f)
  BY <1>1, HeadsExist
<1>3. PICK h : Heads(S, t, h)
  BY HeadsExist
<1>4. /\ f[0] = << >> /\ \A i \in 0..(n + m) : f[i] \in Seq(S)
      /\ \A i \in 1..(n + m) : f[i] = Join(f[i - 1], a[i])
  <2>1. a \in Seq(Seq(S))
    BY <1>1
  <2>2. /\ f[0] = << >> /\ \A i \in 0..Len(a) : f[i] \in Seq(S)
        /\ \A i \in 1..Len(a) : f[i] = Join(f[i - 1], a[i]) /\ a[i] \in Seq(S)
    BY <1>2, <2>1, HeadsAre
  <2> QED
    BY <1>1, <2>2
<1>5. /\ h[0] = << >> /\ \A i \in 0..m : h[i] \in Seq(S)
      /\ \A i \in 1..m : h[i] = Join(h[i - 1], t[i]) /\ t[i] \in Seq(S)
  BY <1>3, HeadsAre DEF m
<1> DEFINE g == [i \in 0..n |-> f[i]]
<1>6. Heads(S, s, g)
  <2>1. \A i \in 0..n : g[i] = f[i] /\ f[i] \in Seq(S)
    BY <1>1, <1>4
  <2>2. g \in [0..n -> Seq(S)]
    BY <2>1
  <2> HIDE DEF g
  <2>3. \A i \in 1..n : g[i] = Join(g[i - 1], s[i])
    <3>1. \A i \in 1..n : i \in 1..(n + m) /\ i - 1 \in 0..n /\ i \in 0..n
      BY <1>1
    <3> QED
      BY <1>1, <1>4, <2>1, <3>1
  <2>4. g[0] = << >>
    BY <1>1, <1>4, <2>1
  <2> QED
    BY <2>2, <2>3, <2>4 DEF Heads, HeadsTo, n
<1>7. g[n] = f[n] /\ n \in 0..n
  BY <1>1
<1> HIDE DEF g
<1>8. FlattenSeq(s) = f[n]
  BY <1>6, <1>7, FlattenIs DEF n
<1> DEFINE P == {i \in 0..m : f[n + i] = Join(f[n], h[i])}
<1>9. f[n] \in Seq(S)
  BY <1>1, <1>4
<1>10. P \in SUBSET (0..m) /\ 0 \in P
  <2>1. Join(f[n], << >>) = f[n]
    BY <1>9, JoinIs
  <2>2. n + 0 = n
    BY <1>1
  <2> QED
    BY <1>1, <1>5, <2>1, <2>2
<1>11. ASSUME NEW i \in 1..m, i - 1 \in P PROVE i \in P
  <2>1. n + i \in 1..(n + m) /\ (n + i) - 1 = n + (i - 1) /\ i - 1 \in 0..m /\ i \in 0..m
    BY <1>1
  <2>2. f[n + i] = Join(f[n + (i - 1)], t[i])
    BY <1>1, <1>4, <2>1
  <2>3. f[n + (i - 1)] = Join(f[n], h[i - 1])
    BY <1>11
  <2>4. h[i] = Join(h[i - 1], t[i]) /\ h[i - 1] \in Seq(S) /\ t[i] \in Seq(S)
    BY <1>5, <2>1
  <2>5. Join(Join(f[n], h[i - 1]), t[i]) = Join(f[n], Join(h[i - 1], t[i]))
    BY <1>9, <2>4, JoinJoin
  <2>6. f[n + i] = Join(f[n], h[i])
    BY <2>2, <2>3, <2>4, <2>5
  <2> QED
    BY <2>1, <2>6
<1> HIDE DEF P
<1>12. m \in P
  BY <1>1, <1>10, <1>11, UpTo
<1>13. f[n + m] = Join(f[n], h[m])
  BY <1>12 DEF P
<1>14. FlattenSeq(a) = f[n + m] /\ FlattenSeq(t) = h[m]
  BY <1>1, <1>2, <1>3, FlattenIs DEF m
<1> QED
  BY <1>8, <1>13, <1>14 DEF a, Join

LEMMA RangeJoin ==
  ASSUME NEW S, NEW a \in Seq(S), NEW b \in Seq(S)
  PROVE  Range(Join(a, b)) = Range(a) \cup Range(b)
<1> DEFINE c == Join(a, b)
<1>1. DOMAIN c = 1..(Len(a) + Len(b)) /\ DOMAIN a = 1..Len(a) /\ DOMAIN b = 1..Len(b)
      /\ Len(a) \in Nat /\ Len(b) \in Nat
  BY ConcatProperties DEF Join
<1>2. \A i \in 1..(Len(a) + Len(b)) : c[i] = IF i <= Len(a) THEN a[i] ELSE b[i - Len(a)]
  BY ConcatProperties DEF Join
<1> HIDE DEF c
<1>3. Range(c) \subseteq Range(a) \cup Range(b)
  <2> SUFFICES ASSUME NEW i \in DOMAIN c PROVE c[i] \in Range(a) \cup Range(b)
    BY DEF Range
  <2>1. CASE i <= Len(a)
    BY <1>1, <1>2, <2>1 DEF Range
  <2>2. CASE ~(i <= Len(a))
    <3>1. i - Len(a) \in DOMAIN b
      BY <1>1, <2>2
    <3> QED
      BY <1>1, <1>2, <2>2, <3>1 DEF Range
  <2> QED
    BY <2>1, <2>2
<1>4. Range(a) \subseteq Range(c)
  <2> SUFFICES ASSUME NEW i \in DOMAIN a PROVE a[i] \in Range(c)
    BY DEF Range
  <2>1. i \in DOMAIN c /\ c[i] = a[i]
    BY <1>1, <1>2
  <2> QED
    BY <2>1 DEF Range
<1>5. Range(b) \subseteq Range(c)
  <2> SUFFICES ASSUME NEW i \in DOMAIN b PROVE b[i] \in Range(c)
    BY DEF Range
  <2>1. Len(a) + i \in 1..(Len(a) + Len(b)) /\ ~(Len(a) + i <= Len(a)) /\ (Len(a) + i) - Len(a) = i
    BY <1>1
  <2>2. c[Len(a) + i] = b[i]
    BY <1>2, <2>1
  <2> QED
    BY <1>1, <2>1, <2>2 DEF Range
<1> QED
  BY <1>3, <1>4, <1>5 DEF c

\* What is in the whole is in one of the lists.
LEMMA FlattenHolds ==
  ASSUME NEW S, NEW s \in Seq(Seq(S))
  PROVE  Range(FlattenSeq(s)) = UNION {Range(s[i]) : i \in DOMAIN s}
<1> DEFINE n == Len(s)
           U(k) == UNION {Range(s[i]) : i \in 1..k}
<1>1. PICK f : Heads(S, s, f)
  BY HeadsExist
<1>2. /\ n \in Nat /\ f[0] = << >> /\ \A i \in 0..n : f[i] \in Seq(S)
      /\ \A i \in 1..n : f[i] = Join(f[i - 1], s[i]) /\ s[i] \in Seq(S)
  BY <1>1, HeadsAre
<1> DEFINE P == {k \in 0..n : Range(f[k]) = U(k)}
<1>3. P \in SUBSET (0..n) /\ DOMAIN s = 1..n
  OBVIOUS
<1>4. 0 \in P
  <2>1. Range(<< >>) = {} /\ U(0) = {}
    BY DEF Range
  <2> QED
    BY <1>2, <2>1
<1>5. ASSUME NEW k \in 1..n, k - 1 \in P PROVE k \in P
  <2>1. k - 1 \in 0..n /\ k \in 0..n
    BY <1>2
  <2>2. Range(f[k]) = Range(f[k - 1]) \cup Range(s[k])
    <3>1. f[k] = Join(f[k - 1], s[k]) /\ f[k - 1] \in Seq(S) /\ s[k] \in Seq(S)
      BY <1>2, <2>1
    <3> QED
      BY <3>1, RangeJoin
  <2>3. 1..k = (1..(k - 1)) \cup {k}
    BY <1>2
  <2>4. U(k) = U(k - 1) \cup Range(s[k])
    BY <2>3
  <2> HIDE DEF U
  <2>5. Range(f[k - 1]) = U(k - 1)
    BY <1>5
  <2> QED
    BY <2>1, <2>2, <2>4, <2>5
<1> HIDE DEF P
<1>6. n \in P
  BY <1>2, <1>3, <1>4, <1>5, UpTo
<1> QED
  BY <1>1, <1>3, <1>6, FlattenIs DEF P

LEMMA FlattenSingles ==
  ASSUME NEW S, NEW s \in Seq(S)
  PROVE  FlattenSeq([i \in DOMAIN s |-> <<s[i]>>]) = s
<1> DEFINE n == Len(s)
           q == [i \in DOMAIN s |-> <<s[i]>>]
           f == [k \in 0..n |-> SubSeq(s, 1, k)]
<1>1. n \in Nat /\ DOMAIN s = 1..n /\ \A i \in 1..n : s[i] \in S
  OBVIOUS
<1>2. q \in Seq(Seq(S)) /\ Len(q) = n /\ \A i \in 1..n : q[i] = <<s[i]>>
  <2>1. \A i \in 1..n : <<s[i]>> \in Seq(S)
    BY <1>1
  <2>2. q \in [1..n -> Seq(S)]
    BY <1>1, <2>1
  <2> QED
    BY <1>1, <2>2
<1>3. \A k \in 0..n : SubSeq(s, 1, k) \in Seq(S)
  OBVIOUS
<1>4. \A k \in 1..n : SubSeq(s, 1, k) = SubSeq(s, 1, k - 1) \o <<s[k]>>
  <2>1. \A k \in 1..n : 1 \in 1..n /\ k \in 1..n
    BY <1>1
  <2> QED
    BY <2>1, SubSeqRecursiveSecond
<1>5. SubSeq(s, 1, 0) = << >> /\ SubSeq(s, 1, n) = s
  BY SubSeqEmpty, SubSeqFull
<1>6. f \in [0..n -> Seq(S)] /\ \A k \in 0..n : f[k] = SubSeq(s, 1, k)
  BY <1>3
<1> HIDE DEF q, f
<1>7. \A k \in 1..n : f[k] = Join(f[k - 1], q[k])
  <2>1. \A k \in 1..n : k \in 0..n /\ k - 1 \in 0..n
    BY <1>1
  <2> QED
    BY <1>2, <1>4, <1>6, <2>1 DEF Join
<1>8. Heads(S, q, f)
  BY <1>1, <1>2, <1>5, <1>6, <1>7 DEF Heads, HeadsTo
<1>9. FlattenSeq(q) = f[n]
  BY <1>2, <1>8, FlattenIs
<1> QED
  BY <1>1, <1>5, <1>6, <1>9 DEF q

-----------------------------------------------------------------------------
(* Lists made of the elements of another list                              *)

LEMMA ListOf ==
  ASSUME NEW B, NEW n \in Nat, NEW q \in [1..n -> B]
  PROVE  q \in Seq(B) /\ Len(q) = n /\ DOMAIN q = 1..n
OBVIOUS

LEMMA InRange ==
  ASSUME NEW S, NEW c \in Seq(S)
  PROVE  /\ Range(c) \subseteq S
         /\ \A i \in DOMAIN c : c[i] \in Range(c) /\ c[i] \in S
         /\ \A x \in Range(c) : \E i \in DOMAIN c : c[i] = x
BY DEF Range

\* The elements of a list that are in a set, in their order.
Picked(c, T) == FlattenSeq([i \in DOMAIN c |-> IF c[i] \in T THEN <<c[i]>> ELSE << >>])

LEMMA PickedIs ==
  ASSUME NEW S, NEW c \in Seq(S), NEW T
  PROVE  /\ Picked(c, T) \in Seq(S \cap T)
         /\ Range(Picked(c, T)) = Range(c) \cap T
<1> DEFINE n == Len(c)
           q == [i \in DOMAIN c |-> IF c[i] \in T THEN <<c[i]>> ELSE << >>]
<1>1. n \in Nat /\ DOMAIN c = 1..n /\ \A i \in 1..n : c[i] \in S
  OBVIOUS
<1>2. \A i \in 1..n : (IF c[i] \in T THEN <<c[i]>> ELSE << >>) \in Seq(S \cap T)
  <2> SUFFICES ASSUME NEW i \in 1..n PROVE (IF c[i] \in T THEN <<c[i]>> ELSE << >>) \in Seq(S \cap T)
    OBVIOUS
  <2>1. c[i] \in T => <<c[i]>> \in Seq(S \cap T)
    BY <1>1
  <2>2. << >> \in Seq(S \cap T)
    OBVIOUS
  <2> QED
    BY <2>1, <2>2
<1>3. q \in [1..n -> Seq(S \cap T)] /\ \A i \in 1..n : q[i] = IF c[i] \in T THEN <<c[i]>> ELSE << >>
  BY <1>1, <1>2
<1> HIDE DEF q
<1>4. q \in Seq(Seq(S \cap T)) /\ DOMAIN q = 1..n
  BY <1>1, <1>3, ListOf
<1>5. FlattenSeq(q) \in Seq(S \cap T) /\ Range(FlattenSeq(q)) = UNION {Range(q[i]) : i \in DOMAIN q}
  BY <1>4, FlattenType, FlattenHolds
<1>6. \A i \in 1..n : Range(q[i]) = {c[i]} \cap T
  <2> SUFFICES ASSUME NEW i \in 1..n PROVE Range(q[i]) = {c[i]} \cap T
    OBVIOUS
  <2>1. CASE c[i] \in T
    <3>1. q[i] = <<c[i]>>
      BY <1>3, <2>1
    <3>2. DOMAIN <<c[i]>> = {1} /\ <<c[i]>>[1] = c[i]
      OBVIOUS
    <3> QED
      BY <2>1, <3>1, <3>2 DEF Range
  <2>2. CASE c[i] \notin T
    <3>1. q[i] = << >>
      BY <1>3, <2>2
    <3>2. DOMAIN << >> = {}
      OBVIOUS
    <3> QED
      BY <2>2, <3>1, <3>2 DEF Range
  <2> QED
    BY <2>1, <2>2
<1>7. UNION {Range(q[i]) : i \in DOMAIN q} = Range(c) \cap T
  BY <1>1, <1>4, <1>6 DEF Range
<1> QED
  BY <1>5, <1>7 DEF Picked, q

\* OfType and OfItem pick by a field.
LEMMA OfTypeIs ==
  ASSUME NEW S, NEW c \in Seq(S), NEW type
  PROVE  /\ OfType(c, type) = Picked(c, {b \in S : b.type = type})
         /\ OfType(c, type) \in Seq({b \in S : b.type = type})
         /\ Range(OfType(c, type)) = {b \in Range(c) : b.type = type}
<1> DEFINE T == {b \in S : b.type = type}
<1>1. \A i \in DOMAIN c : c[i] \in S
  OBVIOUS
<1>2. [i \in DOMAIN c |-> IF c[i].type = type THEN <<c[i]>> ELSE << >>]
      = [i \in DOMAIN c |-> IF c[i] \in T THEN <<c[i]>> ELSE << >>]
  BY <1>1
<1>3. OfType(c, type) = FlattenSeq([i \in DOMAIN c |-> IF c[i].type = type THEN <<c[i]>> ELSE << >>])
  BY DEF OfType, FlatMap
<1>4. OfType(c, type) = Picked(c, T)
  BY <1>2, <1>3 DEF Picked
<1>5. S \cap T = T /\ Range(c) \cap T = {b \in Range(c) : b.type = type}
  BY InRange
<1> HIDE DEF T
<1>6. Picked(c, T) \in Seq(S \cap T) /\ Range(Picked(c, T)) = Range(c) \cap T
  BY PickedIs
<1> QED
  BY <1>4, <1>5, <1>6 DEF T

Typed(S, type) == {b \in S : b.type = type}

LEMMA OfTypeTyped ==
  ASSUME NEW S, NEW c \in Seq(S), NEW type
  PROVE  OfType(c, type) \in Seq(Typed(S, type)) /\ Range(OfType(c, type)) = Typed(Range(c), type)
BY OfTypeIs DEF Typed

\* A list each of whose elements is turned into a list.
ListsFor(q, c, B) == q \in [DOMAIN c -> Seq(B)]

LEMMA MapIs ==
  ASSUME NEW A, NEW B, NEW c \in Seq(A), NEW q, ListsFor(q, c, B)
  PROVE  q \in Seq(Seq(B)) /\ Len(q) = Len(c)
<1>1. DOMAIN c = 1..Len(c) /\ Len(c) \in Nat
  OBVIOUS
<1>2. q \in [1..Len(c) -> Seq(B)]
  BY <1>1 DEF ListsFor
<1> QED
  BY <1>1, <1>2, ListOf

LEMMA RangeOne ==
  ASSUME NEW x
  PROVE  Range(<<x>>) = {x}
<1>1. DOMAIN <<x>> = {1} /\ <<x>>[1] = x
  OBVIOUS
<1> QED
  BY <1>1 DEF Range

LEMMA RangeNone == Range(<< >>) = {}
BY DEF Range

-----------------------------------------------------------------------------
(* What a conversation is made of                                          *)

Names == Offered \cup {<<"shortened", t>> : t \in Tools}
\* The strings, those in the model named once more: the provers do not know that a literal
\* is a string.
Strings == STRING \cup {"toolu_", "openai_", "call_", "text_", "client", "code", "handoff",
                       "prompt", "/compact", "summarize", "small", "large", "answer", "written call",
                       "image omitted", "summary", "no summary", "notice"}
Ids == [prefix : Seq(Strings), n : Nat]
Words == Strings \X (Nat \cup Names)

TextBlocks == [type : {"text"}, text : Words]
ImageBlocks == [type : {"image"}, image : Nat]
ShownBlocks == TextBlocks \cup ImageBlocks
UseBlocks == [type : {"tool_use"}, id : Ids, name : Names]

\* What a tool gives: a text before anything else, and none that stands for another.
Given == {c \in Seq(ShownBlocks) :
            /\ c # << >> /\ c[1] \in TextBlocks
            /\ \A b \in Range(c) : b.type = "text" => b.text[1] # "duplicate of"}
ResultBlocks == [type : {"tool_result"}, id : Ids, content : Given]
AllBlocks == ShownBlocks \cup UseBlocks \cup ResultBlocks

UserMessages == [role : {"user"}, plain : BOOLEAN, content : Seq(ShownBlocks \cup ResultBlocks)]
AssistantMessages == [role : {"assistant"}, plain : {FALSE}, content : Seq(TextBlocks \cup UseBlocks)]
Messages == UserMessages \cup AssistantMessages

\* Something, and none of the words that only the proxy puts in a message.
Unmarked(m) ==
  /\ m.content # << >>
  /\ \A b \in Range(m.content) : b.type = "text" => b.text[1] \notin {"notice", "summary", "no summary"}

\* The ids of the blocks of a type, in their order.
IdsAt(content, type) ==
  FlattenSeq([i \in DOMAIN content |-> IF content[i].type = type THEN <<content[i].id>> ELSE << >>])
CallIds(m) == IdsAt(m.content, "tool_use")
ResultIds(m) == IdsAt(m.content, "tool_result")

\* In a history the results in each message are those of the calls in the one before, which
\* are none for a user's.
History(ms) ==
  /\ ms \in Seq(Messages)
  /\ \A i \in 1..Len(ms) : Unmarked(ms[i])
  /\ ms # << >> => ResultIds(ms[1]) = << >>
  /\ \A i \in 1..(Len(ms) - 1) : ResultIds(ms[i + 1]) = CallIds(ms[i])

\* Whose turn it is.
TurnOK ==
  IF stage = "client"
  THEN IF stop = "tool_use" THEN messages # << >> /\ Calls(Last(messages)) # << >>
       ELSE messages # << >> => Calls(Last(messages)) = << >>
  ELSE messages # << >> /\ Last(messages).role = "user"

\* Which ids the client has been given, and for which of the upstreams'.
IdsKnown ==
  /\ IsFiniteSet(DOMAIN issued)
  /\ \A i \in DOMAIN messages : \A b \in Range(Calls(messages[i])) :
       b.id \in DOMAIN issued \cup {ToAnthropic(WrittenId)}
  /\ \A id \in DOMAIN issued : id \in Ids /\ issued[id] = ToUpstream(id)

\* What becomes of a history before it is forwarded.
PreparedFrom(ms) ==
  {ms} \cup {Compressed(ms, word) : word \in {w \in {"summary", "no summary"} : Len(ms) > Compression.keep_recent}}

PreparedOK ==
  /\ prepared \in [system : Seq(Strings \X Nat), messages : Seq(Messages), tools : SUBSET Offered]
  /\ stage \in {"enrich", "compress"} => prepared.messages = PruneImages(messages)
  /\ stage \in {"forward", "posted"} => prepared.messages \in PreparedFrom(PruneImages(messages))

SentOK ==
  /\ chain \in Seq(Profiles)
  /\ stage = "posted" => chain # << >> /\ sent = Translated(prepared, chain[1])

ConversationInv ==
  /\ History(messages) /\ TurnOK /\ IdsKnown /\ NamesRestored /\ PreparedOK /\ SentOK

-----------------------------------------------------------------------------
(* Blocks and messages                                                     *)

LEMMA BlockIs ==
  ASSUME NEW b \in AllBlocks
  PROVE  /\ b.type \in {"text", "image", "tool_use", "tool_result"}
         /\ b.type = "text" <=> b \in TextBlocks
         /\ b.type = "image" <=> b \in ImageBlocks
         /\ b.type = "tool_use" <=> b \in UseBlocks
         /\ b.type = "tool_result" <=> b \in ResultBlocks
         /\ b \in TextBlocks => b.text \in Words /\ b = Text(b.text)
         /\ b \in ImageBlocks => b.image \in Nat
         /\ b \in UseBlocks => b.id \in Ids /\ b.name \in Names
         /\ b \in ResultBlocks => b.id \in Ids /\ b.content \in Given
BY DEF AllBlocks, ShownBlocks, TextBlocks, ImageBlocks, UseBlocks, ResultBlocks, Text

LEMMA MessageIs ==
  ASSUME NEW m \in Messages
  PROVE  /\ m.role \in {"user", "assistant"} /\ m.plain \in BOOLEAN
         /\ m.content \in Seq(AllBlocks)
         /\ m.role = "user" => m \in UserMessages /\ m.content \in Seq(ShownBlocks \cup ResultBlocks)
         /\ m.role = "assistant" => m \in AssistantMessages /\ m.content \in Seq(TextBlocks \cup UseBlocks)
<1>1. ShownBlocks \cup ResultBlocks \subseteq AllBlocks /\ TextBlocks \cup UseBlocks \subseteq AllBlocks
  BY DEF AllBlocks, ShownBlocks
<1>2. CASE m \in UserMessages
  <2>1. m.role = "user" /\ m.plain \in BOOLEAN /\ m.content \in Seq(ShownBlocks \cup ResultBlocks)
    BY <1>2 DEF UserMessages
  <2>2. m.content \in Seq(AllBlocks)
    BY <1>1, <2>1, SeqMonotonic
  <2> QED
    BY <1>2, <2>1, <2>2
<1>3. CASE m \in AssistantMessages
  <2>1. m.role = "assistant" /\ m.plain \in BOOLEAN /\ m.content \in Seq(TextBlocks \cup UseBlocks)
    BY <1>3 DEF AssistantMessages
  <2>2. m.content \in Seq(AllBlocks)
    BY <1>1, <2>1, SeqMonotonic
  <2> QED
    BY <1>3, <2>1, <2>2
<1> QED
  BY <1>2, <1>3 DEF Messages

LEMMA JoinAt ==
  ASSUME NEW S, NEW a \in Seq(S), NEW b \in Seq(S)
  PROVE  /\ Join(a, b) \in Seq(S) /\ Len(Join(a, b)) = Len(a) + Len(b)
         /\ \A j \in 1..(Len(a) + Len(b)) : Join(a, b)[j] = IF j <= Len(a) THEN a[j] ELSE b[j - Len(a)]
BY ConcatProperties DEF Join

\* The lists in t are those in s with each element turned into its value under g.
Mapped(s, t, g) == Len(t) = Len(s) /\ \A i \in 1..Len(s) : t[i] = [j \in DOMAIN s[i] |-> g[s[i][j]]]

\* A list put together of others, each element of which is turned into something.
LEMMA FlattenMapped ==
  ASSUME NEW S, NEW T, NEW g \in [S -> T], NEW s \in Seq(Seq(S)), NEW t \in Seq(Seq(T)), Mapped(s, t, g)
  PROVE  FlattenSeq(t) = [j \in DOMAIN FlattenSeq(s) |-> g[FlattenSeq(s)[j]]]
<1> DEFINE n == Len(s)
           M(a) == [j \in DOMAIN a |-> g[a[j]]]
<1>1. PICK f : Heads(S, s, f)
  BY HeadsExist
<1>2. PICK h : Heads(T, t, h)
  BY HeadsExist
<1>0. Len(t) = Len(s)
  BY DEF Mapped
<1>3. /\ n \in Nat /\ f[0] = << >> /\ \A i \in 0..n : f[i] \in Seq(S)
      /\ \A i \in 1..n : f[i] = Join(f[i - 1], s[i]) /\ s[i] \in Seq(S)
  BY <1>1, HeadsAre
<1>4. /\ h[0] = << >> /\ \A i \in 1..n : h[i] = Join(h[i - 1], t[i])
  <2>1. h[0] = << >> /\ \A i \in 1..Len(t) : h[i] = Join(h[i - 1], t[i]) /\ t[i] \in Seq(T)
    BY <1>2, HeadsAre
  <2> QED
    BY <1>0, <2>1
<1> DEFINE P == {i \in 0..n : h[i] = M(f[i])}
<1>5. P \in SUBSET (0..n) /\ 0 \in P
  <2>1. M(<< >>) = << >>
    OBVIOUS
  <2> HIDE DEF M
  <2> QED
    BY <1>3, <1>4, <2>1
<1>6. ASSUME NEW a \in Seq(S), NEW b \in Seq(S) PROVE M(Join(a, b)) = Join(M(a), M(b))
  <2>1. M(a) \in Seq(T) /\ Len(M(a)) = Len(a) /\ \A j \in 1..Len(a) : M(a)[j] = g[a[j]]
    <3>1. DOMAIN a = 1..Len(a) /\ Len(a) \in Nat /\ \A j \in 1..Len(a) : g[a[j]] \in T
      OBVIOUS
    <3>2. M(a) \in [1..Len(a) -> T]
      BY <3>1
    <3> QED
      BY <3>1, <3>2, ListOf
  <2>2. M(b) \in Seq(T) /\ Len(M(b)) = Len(b) /\ \A j \in 1..Len(b) : M(b)[j] = g[b[j]]
    <3>1. DOMAIN b = 1..Len(b) /\ Len(b) \in Nat /\ \A j \in 1..Len(b) : g[b[j]] \in T
      OBVIOUS
    <3>2. M(b) \in [1..Len(b) -> T]
      BY <3>1
    <3> QED
      BY <3>1, <3>2, ListOf
  <2> DEFINE c == Join(a, b)
  <2>3. /\ c \in Seq(S) /\ Len(c) = Len(a) + Len(b)
        /\ \A j \in 1..(Len(a) + Len(b)) : c[j] = IF j <= Len(a) THEN a[j] ELSE b[j - Len(a)]
    BY JoinAt
  <2> HIDE DEF c
  <2>4. M(c) \in Seq(T) /\ Len(M(c)) = Len(c) /\ \A j \in 1..Len(c) : M(c)[j] = g[c[j]]
    <3>1. DOMAIN c = 1..Len(c) /\ Len(c) \in Nat /\ \A j \in 1..Len(c) : g[c[j]] \in T
      BY <2>3
    <3>2. M(c) \in [1..Len(c) -> T]
      BY <3>1
    <3> QED
      BY <3>1, <3>2, ListOf
  <2> DEFINE u == M(a)
             v == M(b)
             d == Join(u, v)
  <2>5. u \in Seq(T) /\ v \in Seq(T) /\ Len(u) = Len(a) /\ Len(v) = Len(b)
    BY <2>1, <2>2
  <2> HIDE DEF M, u, v
  <2>6. /\ d \in Seq(T) /\ Len(d) = Len(a) + Len(b)
        /\ \A j \in 1..(Len(a) + Len(b)) : d[j] = IF j <= Len(a) THEN u[j] ELSE v[j - Len(a)]
    <3>1. /\ d \in Seq(T) /\ Len(d) = Len(u) + Len(v)
          /\ \A j \in 1..(Len(u) + Len(v)) : d[j] = IF j <= Len(u) THEN u[j] ELSE v[j - Len(u)]
      BY <2>5, JoinAt
    <3> QED
      BY <2>5, <3>1
  <2> HIDE DEF d
  <2>7. ASSUME NEW j \in 1..(Len(a) + Len(b)) PROVE M(c)[j] = d[j]
    <3>1. Len(a) \in Nat /\ Len(b) \in Nat
      OBVIOUS
    <3>2. M(c)[j] = g[c[j]]
      BY <2>3, <2>4
    <3>3. CASE j <= Len(a)
      <4>1. j \in 1..Len(a)
        BY <3>1, <3>3
      <4>2. c[j] = a[j] /\ d[j] = u[j]
        BY <2>3, <2>6, <3>3
      <4>3. u[j] = g[a[j]]
        BY <2>1, <4>1 DEF u
      <4> QED
        BY <3>2, <4>2, <4>3
    <3>4. CASE ~(j <= Len(a))
      <4>1. j - Len(a) \in 1..Len(b)
        BY <3>1, <3>4
      <4>2. c[j] = b[j - Len(a)] /\ d[j] = v[j - Len(a)]
        BY <2>3, <2>6, <3>4
      <4>3. v[j - Len(a)] = g[b[j - Len(a)]]
        BY <2>2, <4>1 DEF v
      <4> QED
        BY <3>2, <4>2, <4>3
    <3> QED
      BY <3>3, <3>4
  <2>8. M(c) = d
    <3>1. M(c) \in Seq(T) /\ Len(M(c)) = Len(a) + Len(b) /\ d \in Seq(T) /\ Len(d) = Len(a) + Len(b)
      BY <2>3, <2>4, <2>6
    <3> QED
      BY <2>7, <3>1, SeqEqual
  <2> QED
    BY <2>8 DEF c, d, u, v
<1>7. \A i \in 1..n : t[i] = M(s[i])
  BY DEF Mapped
<1> HIDE DEF M
<1>8. ASSUME NEW i \in 1..n, i - 1 \in P PROVE i \in P
  <2>1. f[i] = Join(f[i - 1], s[i]) /\ f[i - 1] \in Seq(S) /\ s[i] \in Seq(S) /\ i \in 0..n
    BY <1>3
  <2>2. h[i - 1] = M(f[i - 1])
    BY <1>8
  <2> QED
    BY <1>4, <1>6, <1>7, <2>1, <2>2
<1> HIDE DEF P
<1>9. n \in P
  BY <1>3, <1>5, <1>8, UpTo
<1>10. h[n] = M(f[n])
  BY <1>9 DEF P
<1>11. FlattenSeq(s) = f[n] /\ FlattenSeq(t) = h[n]
  BY <1>0, <1>1, <1>2, FlattenIs
<1>12. FlattenSeq(t) = M(FlattenSeq(s))
  BY <1>10, <1>11
<1> QED
  BY <1>12 DEF M

LEMMA IdsAtIs ==
  ASSUME NEW c \in Seq(AllBlocks), NEW type \in {"tool_use", "tool_result"}
  PROVE  /\ IdsAt(c, type) \in Seq(Ids)
         /\ IdsAt(c, type) = [i \in DOMAIN OfType(c, type) |-> OfType(c, type)[i].id]
         /\ Range(IdsAt(c, type)) = {b.id : b \in {b \in Range(c) : b.type = type}}
<1> DEFINE S == {b \in AllBlocks : b.type = type}
           g == [b \in S |-> b.id]
           s == [i \in DOMAIN c |-> IF c[i].type = type THEN <<c[i]>> ELSE << >>]
           t == [i \in DOMAIN c |-> IF c[i].type = type THEN <<c[i].id>> ELSE << >>]
<1>1. \A i \in DOMAIN c : c[i] \in AllBlocks
  OBVIOUS
<1>2. \A b \in S : b.id \in Ids
  BY BlockIs
<1>3. g \in [S -> Ids]
  BY <1>2
<1>4. \A i \in DOMAIN c : s[i] \in Seq(S)
  <2> SUFFICES ASSUME NEW i \in DOMAIN c PROVE s[i] \in Seq(S)
    OBVIOUS
  <2>1. CASE c[i].type = type
    <3>1. c[i] \in S /\ s[i] = <<c[i]>>
      BY <1>1, <2>1
    <3> HIDE DEF S, s
    <3> QED
      BY <3>1
  <2>2. CASE c[i].type # type
    <3>1. s[i] = << >>
      BY <2>2
    <3> QED
      BY <3>1, EmptySeq
  <2> QED
    BY <2>1, <2>2
<1>5. \A i \in DOMAIN c : t[i] \in Seq(Ids)
  <2>1. \A i \in DOMAIN c : c[i].type = type => <<c[i].id>> \in Seq(Ids)
    BY <1>1, <1>2
  <2> QED
    BY <2>1
<1>6. \A i \in DOMAIN c : t[i] = [j \in DOMAIN s[i] |-> g[s[i][j]]]
  <2> SUFFICES ASSUME NEW i \in DOMAIN c PROVE t[i] = [j \in DOMAIN s[i] |-> g[s[i][j]]]
    OBVIOUS
  <2>1. CASE c[i].type = type
    <3>1. s[i] = <<c[i]>> /\ t[i] = <<c[i].id>> /\ g[c[i]] = c[i].id
      BY <1>1, <2>1
    <3> HIDE DEF g, s, t
    <3> QED
      BY <3>1
  <2>2. CASE c[i].type # type
    <3>1. s[i] = << >> /\ t[i] = << >>
      BY <2>2
    <3> HIDE DEF g, s, t
    <3> QED
      BY <3>1
  <2> QED
    BY <2>1, <2>2
<1>7. /\ DOMAIN s = DOMAIN c /\ s = [i \in DOMAIN c |-> s[i]]
      /\ DOMAIN t = DOMAIN c /\ t = [i \in DOMAIN c |-> t[i]]
  OBVIOUS
<1>8. FlattenSeq(s) = OfType(c, type) /\ FlattenSeq(t) = IdsAt(c, type)
  BY DEF OfType, FlatMap, IdsAt
<1>9. Range(OfType(c, type)) = {b \in Range(c) : b.type = type} /\ OfType(c, type) \in Seq(S)
  BY OfTypeIs
<1> HIDE DEF s, t, S, g
<1>10. s \in Seq(Seq(S)) /\ Len(s) = Len(c)
  <2>1. ListsFor(s, c, S)
    BY <1>4, <1>7 DEF ListsFor
  <2> QED
    BY <2>1, MapIs
<1>11. t \in Seq(Seq(Ids)) /\ Len(t) = Len(c) /\ FlattenSeq(t) \in Seq(Ids)
  <2>1. t \in Seq(Seq(Ids)) /\ Len(t) = Len(c)
    <3>1. ListsFor(t, c, Ids)
      BY <1>5, <1>7 DEF ListsFor
    <3> QED
      BY <3>1, MapIs
  <2> QED
    BY <2>1, FlattenType
<1>12. DOMAIN c = 1..Len(c)
  OBVIOUS
<1>13. FlattenSeq(t) = [j \in DOMAIN FlattenSeq(s) |-> g[FlattenSeq(s)[j]]]
  <2>1. \A i \in 1..Len(s) : t[i] = [j \in DOMAIN s[i] |-> g[s[i][j]]]
    BY <1>6, <1>10, <1>12
  <2>2. s \in Seq(Seq(S)) /\ t \in Seq(Seq(Ids)) /\ Mapped(s, t, g)
    BY <1>10, <1>11, <2>1 DEF Mapped
  <2> QED
    BY <1>3, <2>2, FlattenMapped
<1> DEFINE o == OfType(c, type)
<1>14. \A i \in DOMAIN o : o[i] \in S
  BY <1>9
<1> HIDE DEF o
<1>15. \A i \in DOMAIN o : g[o[i]] = o[i].id
  BY <1>14 DEF g
<1>16. IdsAt(c, type) = [i \in DOMAIN o |-> o[i].id]
  BY <1>8, <1>13, <1>15 DEF o
<1>17. Range(IdsAt(c, type)) = {b.id : b \in Range(o)}
  BY <1>16 DEF Range
<1> QED
  BY <1>8, <1>9, <1>11, <1>16, <1>17 DEF o

LEMMA CallsAre ==
  ASSUME NEW m \in Messages
  PROVE  /\ Calls(m) \in Seq(UseBlocks) /\ CallIds(m) \in Seq(Ids) /\ ResultIds(m) \in Seq(Ids)
         /\ CallIds(m) = [i \in DOMAIN Calls(m) |-> Calls(m)[i].id]
         /\ Range(CallIds(m)) = {b.id : b \in {b \in Range(m.content) : b.type = "tool_use"}}
         /\ Range(ResultIds(m)) = {b.id : b \in {b \in Range(m.content) : b.type = "tool_result"}}
         /\ Range(Calls(m)) = {b \in Range(m.content) : b.type = "tool_use"}
         /\ m.role = "user" => CallIds(m) = << >> /\ Calls(m) = << >>
         /\ m.role = "assistant" => ResultIds(m) = << >>
<1>1. m.content \in Seq(AllBlocks)
  BY MessageIs
<1>2. /\ CallIds(m) \in Seq(Ids) /\ ResultIds(m) \in Seq(Ids)
      /\ CallIds(m) = [i \in DOMAIN Calls(m) |-> Calls(m)[i].id]
      /\ Range(CallIds(m)) = {b.id : b \in {b \in Range(m.content) : b.type = "tool_use"}}
      /\ Range(ResultIds(m)) = {b.id : b \in {b \in Range(m.content) : b.type = "tool_result"}}
  BY <1>1, IdsAtIs DEF CallIds, ResultIds, Calls
<1>3. /\ Calls(m) \in Seq({b \in AllBlocks : b.type = "tool_use"})
      /\ Range(Calls(m)) = {b \in Range(m.content) : b.type = "tool_use"}
  BY <1>1, OfTypeIs DEF Calls
<1>4. {b \in AllBlocks : b.type = "tool_use"} \subseteq UseBlocks
  BY BlockIs
<1>5. Calls(m) \in Seq(UseBlocks)
  BY <1>3, <1>4, SeqMonotonic
<1>6. ASSUME NEW S, NEW q \in Seq(S), Range(q) = {} PROVE q = << >>
  <2>1. DOMAIN q = 1..Len(q) /\ Len(q) \in Nat
    OBVIOUS
  <2>2. \A i \in DOMAIN q : q[i] \in Range(q)
    BY DEF Range
  <2>3. Len(q) = 0
    BY <1>6, <2>1, <2>2
  <2> QED
    BY <2>3
<1>7. m.role = "user" => \A b \in Range(m.content) : b.type # "tool_use"
  <2> SUFFICES ASSUME m.role = "user", NEW b \in Range(m.content) PROVE b.type # "tool_use"
    OBVIOUS
  <2>1. m.content \in Seq(ShownBlocks \cup ResultBlocks)
    BY MessageIs
  <2>2. b \in ShownBlocks \cup ResultBlocks
    BY <2>1, InRange
  <2> QED
    BY <2>2 DEF ShownBlocks, TextBlocks, ImageBlocks, ResultBlocks
<1>8. m.role = "assistant" => \A b \in Range(m.content) : b.type # "tool_result"
  <2> SUFFICES ASSUME m.role = "assistant", NEW b \in Range(m.content) PROVE b.type # "tool_result"
    OBVIOUS
  <2>1. m.content \in Seq(TextBlocks \cup UseBlocks)
    BY MessageIs
  <2>2. b \in TextBlocks \cup UseBlocks
    BY <2>1, InRange
  <2> QED
    BY <2>2 DEF TextBlocks, UseBlocks
<1>9. m.role = "user" => CallIds(m) = << >> /\ Calls(m) = << >>
  <2> SUFFICES ASSUME m.role = "user" PROVE CallIds(m) = << >> /\ Calls(m) = << >>
    OBVIOUS
  <2>1. {b \in Range(m.content) : b.type = "tool_use"} = {}
    BY <1>7
  <2>2. Range(Calls(m)) = {} /\ Range(CallIds(m)) = {}
    BY <1>2, <1>3, <2>1
  <2> QED
    BY <1>2, <1>5, <1>6, <2>2
<1>10. m.role = "assistant" => ResultIds(m) = << >>
  <2> SUFFICES ASSUME m.role = "assistant" PROVE ResultIds(m) = << >>
    OBVIOUS
  <2>1. {b \in Range(m.content) : b.type = "tool_result"} = {}
    BY <1>8
  <2>2. Range(ResultIds(m)) = {}
    BY <1>2, <2>1
  <2> QED
    BY <1>2, <1>6, <2>2
<1> QED
  BY <1>2, <1>3, <1>5, <1>9, <1>10

LEMMA NotEmpty ==
  ASSUME NEW S, NEW s \in Seq(S), s # << >>
  PROVE  Len(s) \in Nat /\ Len(s) >= 1 /\ 1 \in DOMAIN s /\ Len(s) \in DOMAIN s /\ s[1] \in S /\ s[Len(s)] \in S
OBVIOUS

-----------------------------------------------------------------------------
(* Counting in lists                                                       *)

\* How many of the first k elements of q are in G.
NumTo(q, G, k) == Cardinality({i \in 1..k : q[i] \in G})
Num(q, G) == NumTo(q, G, Len(q))

LEMMA NumToIs ==
  ASSUME NEW q, NEW G, NEW k \in Nat
  PROVE  /\ NumTo(q, G, k) \in Nat
         /\ NumTo(q, G, 0) = 0
         /\ k > 0 => NumTo(q, G, k) = NumTo(q, G, k - 1) + (IF q[k] \in G THEN 1 ELSE 0)
         /\ \A j \in 0..k : NumTo(q, G, j) \in Nat /\ NumTo(q, G, j) <= NumTo(q, G, k)
<1> DEFINE At(j) == {i \in 1..j : q[i] \in G}
<1>1. \A j \in Nat : IsFiniteSet(At(j)) /\ Cardinality(At(j)) \in Nat
  <2> SUFFICES ASSUME NEW j \in Nat PROVE IsFiniteSet(At(j)) /\ Cardinality(At(j)) \in Nat
    OBVIOUS
  <2>1. IsFiniteSet(1..j)
    BY FS_Interval
  <2>2. At(j) \subseteq 1..j
    OBVIOUS
  <2>3. IsFiniteSet(At(j))
    BY <2>1, <2>2, FS_Subset
  <2> QED
    BY <2>3, FS_CardinalityType
<1>2. Cardinality(At(0)) = 0
  <2>1. At(0) = {}
    OBVIOUS
  <2> HIDE DEF At
  <2> QED
    BY <2>1, FS_EmptySet
<1>3. k > 0 => Cardinality(At(k)) = Cardinality(At(k - 1)) + (IF q[k] \in G THEN 1 ELSE 0)
  <2> SUFFICES ASSUME k > 0
               PROVE  Cardinality(At(k)) = Cardinality(At(k - 1)) + (IF q[k] \in G THEN 1 ELSE 0)
    OBVIOUS
  <2>1. k - 1 \in Nat /\ k \notin At(k - 1) /\ IsFiniteSet(At(k - 1)) /\ Cardinality(At(k - 1)) \in Nat
    <3>1. k - 1 \in Nat /\ k \notin At(k - 1)
      OBVIOUS
    <3> QED
      BY <1>1, <3>1
  <2>2. CASE q[k] \in G
    <3>1. At(k) = At(k - 1) \cup {k}
      BY <2>2
    <3> HIDE DEF At
    <3>2. Cardinality(At(k - 1) \cup {k}) = Cardinality(At(k - 1)) + 1
      BY <2>1, FS_AddElement
    <3> QED
      BY <2>2, <3>1, <3>2
  <2>3. CASE q[k] \notin G
    <3>1. At(k) = At(k - 1)
      BY <2>3
    <3> HIDE DEF At
    <3> QED
      BY <2>1, <2>3, <3>1
  <2> QED
    BY <2>2, <2>3
<1>4. ASSUME NEW j \in 0..k PROVE Cardinality(At(j)) \in Nat /\ Cardinality(At(j)) <= Cardinality(At(k))
  <2>1. At(j) \subseteq At(k) /\ j \in Nat
    OBVIOUS
  <2> HIDE DEF At
  <2> QED
    BY <1>1, <2>1, FS_Subset
<1> QED
  BY <1>1, <1>2, <1>3, <1>4 DEF NumTo

LEMMA NumNext ==
  ASSUME NEW q, NEW G, NEW k \in Nat, k > 0
  PROVE  NumTo(q, G, k) = NumTo(q, G, k - 1) + (IF q[k] \in G THEN 1 ELSE 0)
BY NumToIs

LEMMA NumSame ==
  ASSUME NEW q, NEW G, NEW r, NEW H, NEW k \in Nat, \A i \in 1..k : q[i] \in G <=> r[i] \in H
  PROVE  NumTo(q, G, k) = NumTo(r, H, k)
<1>1. {i \in 1..k : q[i] \in G} = {i \in 1..k : r[i] \in H}
  OBVIOUS
<1> QED
  BY <1>1 DEF NumTo

LEMMA NumNone ==
  ASSUME NEW S, NEW q \in Seq(S), NEW G
  PROVE  /\ Num(q, G) \in Nat
         /\ Num(q, G) = 0 <=> \A i \in 1..Len(q) : q[i] \notin G
<1> DEFINE A == {i \in 1..Len(q) : q[i] \in G}
<1>1. Len(q) \in Nat
  OBVIOUS
<1>2. IsFiniteSet(1..Len(q)) /\ A \subseteq 1..Len(q)
  BY <1>1, FS_Interval
<1>3. IsFiniteSet(A)
  BY <1>2, FS_Subset
<1>4. Num(q, G) = Cardinality(A)
  BY DEF Num, NumTo
<1>5. A = {} <=> \A i \in 1..Len(q) : q[i] \notin G
  OBVIOUS
<1> HIDE DEF A
<1> QED
  BY <1>3, <1>4, <1>5, FS_EmptySet, FS_CardinalityType

LEMMA NumOne ==
  ASSUME NEW x, NEW G
  PROVE  Num(<<x>>, G) = IF x \in G THEN 1 ELSE 0
<1> DEFINE q == <<x>>
<1>1. Len(q) = 1 /\ q[1] = x
  OBVIOUS
<1> HIDE DEF q
<1>2. NumTo(q, G, 1) = NumTo(q, G, 0) + (IF q[1] \in G THEN 1 ELSE 0) /\ NumTo(q, G, 0) = 0
  BY NumToIs
<1>3. Num(q, G) = IF x \in G THEN 1 ELSE 0
  BY <1>1, <1>2 DEF Num
<1> QED
  BY <1>3 DEF q

LEMMA NumEmpty ==
  ASSUME NEW G
  PROVE  Num(<< >>, G) = 0
<1> DEFINE q == << >>
<1>1. Len(q) = 0
  OBVIOUS
<1> HIDE DEF q
<1>2. Num(q, G) = 0
  BY <1>1, NumToIs DEF Num
<1> QED
  BY <1>2 DEF q

LEMMA NumHead ==
  ASSUME NEW S, NEW a \in Seq(S), NEW b \in Seq(S), NEW G, NEW k \in 0..Len(a)
  PROVE  NumTo(Join(a, b), G, k) = NumTo(a, G, k)
<1> DEFINE c == Join(a, b)
<1>1. \A j \in 1..(Len(a) + Len(b)) : c[j] = IF j <= Len(a) THEN a[j] ELSE b[j - Len(a)]
  BY JoinAt
<1> HIDE DEF c
<1>2. k \in Nat /\ \A i \in 1..k : c[i] = a[i]
  <2>1. Len(a) \in Nat /\ Len(b) \in Nat
    OBVIOUS
  <2> QED
    BY <1>1, <2>1
<1>3. NumTo(c, G, k) = NumTo(a, G, k)
  BY <1>2, NumSame
<1> QED
  BY <1>3 DEF c

LEMMA NumJoin ==
  ASSUME NEW S, NEW a \in Seq(S), NEW b \in Seq(S), NEW G
  PROVE  /\ \A k \in 0..Len(a) : NumTo(Join(a, b), G, k) = NumTo(a, G, k)
         /\ \A r \in 0..Len(b) : NumTo(Join(a, b), G, Len(a) + r) = Num(a, G) + NumTo(b, G, r)
         /\ Num(Join(a, b), G) = Num(a, G) + Num(b, G)
<1> DEFINE c == Join(a, b)
           m == Len(a)
           n == Len(b)
<1>1. /\ m \in Nat /\ n \in Nat /\ Len(c) = m + n
      /\ \A j \in 1..(m + n) : c[j] = IF j <= m THEN a[j] ELSE b[j - m]
  <2>1. m \in Nat /\ n \in Nat
    OBVIOUS
  <2>2. Len(Join(a, b)) = m + n /\ \A j \in 1..(m + n) : Join(a, b)[j] = IF j <= m THEN a[j] ELSE b[j - m]
    BY JoinAt
  <2> QED
    BY <2>1, <2>2
<1> HIDE DEF c
<1>2. ASSUME NEW k \in 0..m PROVE NumTo(c, G, k) = NumTo(a, G, k)
  <2>1. k \in Nat /\ \A i \in 1..k : c[i] = a[i]
    BY <1>1
  <2> QED
    BY <2>1, NumSame
<1> DEFINE P == {r \in 0..n : NumTo(c, G, m + r) = NumTo(a, G, m) + NumTo(b, G, r)}
<1>3. P \in SUBSET (0..n) /\ 0 \in P
  <2>1. NumTo(c, G, m + 0) = NumTo(a, G, m) /\ NumTo(b, G, 0) = 0 /\ NumTo(a, G, m) \in Nat
    BY <1>1, <1>2, NumToIs
  <2> QED
    BY <1>1, <2>1
<1>4. ASSUME NEW r \in 1..n, r - 1 \in P PROVE r \in P
  <2>1. /\ r \in Nat /\ r > 0 /\ r - 1 \in Nat /\ m + r \in Nat /\ m + r > 0 /\ (m + r) - 1 = m + (r - 1)
        /\ m + r \in 1..(m + n) /\ ~(m + r <= m) /\ (m + r) - m = r /\ r \in 0..n
    BY <1>1
  <2>2. c[m + r] = b[r]
    BY <1>1, <2>1
  <2>3. NumTo(c, G, m + r) = NumTo(c, G, m + (r - 1)) + (IF b[r] \in G THEN 1 ELSE 0)
    <3> DEFINE k == m + r
    <3>1. k \in Nat /\ k > 0 /\ k - 1 = m + (r - 1) /\ c[k] = b[r]
      BY <2>1, <2>2
    <3> HIDE DEF k, P, m, n
    <3>2. NumTo(c, G, k) = NumTo(c, G, k - 1) + (IF c[k] \in G THEN 1 ELSE 0)
      BY <3>1, NumNext
    <3> QED
      BY <3>1, <3>2 DEF k
  <2>4. NumTo(b, G, r) = NumTo(b, G, r - 1) + (IF b[r] \in G THEN 1 ELSE 0)
    BY <2>1, NumToIs
  <2>5. NumTo(c, G, m + (r - 1)) = NumTo(a, G, m) + NumTo(b, G, r - 1)
    BY <1>4
  <2>6. NumTo(a, G, m) \in Nat /\ NumTo(b, G, r - 1) \in Nat
    BY <1>1, <2>1, NumToIs
  <2>7. NumTo(c, G, m + r) = NumTo(a, G, m) + NumTo(b, G, r)
    BY <2>3, <2>4, <2>5, <2>6
  <2> QED
    BY <2>1, <2>7
<1>5. \A r \in 0..n : NumTo(c, G, m + r) = NumTo(a, G, m) + NumTo(b, G, r)
  <2> SUFFICES ASSUME NEW r \in 0..n PROVE r \in P
    OBVIOUS
  <2> DEFINE Q == P \cap (0..r)
  <2>1. r \in Nat /\ Q \in SUBSET (0..r) /\ 0 \in Q
    BY <1>1, <1>3
  <2>2. \A i \in 1..r : i - 1 \in Q => i \in Q
    <3> SUFFICES ASSUME NEW i \in 1..r, i - 1 \in Q PROVE i \in Q
      OBVIOUS
    <3>1. i \in 1..n /\ i - 1 \in P /\ i \in 0..r
      BY <1>1
    <3> HIDE DEF P
    <3> QED
      BY <1>4, <3>1
  <2> HIDE DEF Q
  <2>3. r \in Q
    BY <2>1, <2>2, UpTo
  <2> QED
    BY <2>3 DEF Q
<1>6. NumTo(c, G, m + n) = NumTo(a, G, m) + NumTo(b, G, n)
  BY <1>1, <1>5
<1> QED
  BY <1>1, <1>2, <1>5, <1>6 DEF Num, c

\* Lists put together of lists with equal counts have equal counts.
CountEqually(s, G, t, H) == Len(s) = Len(t) /\ \A i \in 1..Len(s) : Num(s[i], G) = Num(t[i], H)

LEMMA FlattenCounts ==
  ASSUME NEW S, NEW s \in Seq(Seq(S)), NEW T, NEW t \in Seq(Seq(T)), NEW G, NEW H, CountEqually(s, G, t, H)
  PROVE  Num(FlattenSeq(s), G) = Num(FlattenSeq(t), H)
<1> DEFINE n == Len(s)
<1>0. Len(t) = n
  BY DEF CountEqually
<1>1. PICK f : Heads(S, s, f)
  BY HeadsExist
<1>2. PICK h : Heads(T, t, h)
  BY HeadsExist
<1>3. /\ n \in Nat /\ f[0] = << >> /\ \A i \in 0..n : f[i] \in Seq(S)
      /\ \A i \in 1..n : f[i] = Join(f[i - 1], s[i]) /\ s[i] \in Seq(S)
  BY <1>1, HeadsAre
<1>4. /\ h[0] = << >> /\ \A i \in 0..n : h[i] \in Seq(T)
      /\ \A i \in 1..n : h[i] = Join(h[i - 1], t[i]) /\ t[i] \in Seq(T)
  BY <1>0, <1>2, HeadsAre
<1> HIDE DEF n
<1> DEFINE P == {i \in 0..n : Num(f[i], G) = Num(h[i], H)}
<1>5. P \in SUBSET (0..n) /\ 0 \in P
  <2>1. Num(<< >>, G) = 0 /\ Num(<< >>, H) = 0
    BY NumEmpty
  <2> QED
    BY <1>3, <1>4, <2>1
<1>6. ASSUME NEW i \in 1..n, i - 1 \in P PROVE i \in P
  <2>1. f[i] = Join(f[i - 1], s[i]) /\ f[i - 1] \in Seq(S) /\ s[i] \in Seq(S) /\ i \in 0..n
    BY <1>3
  <2>2. h[i] = Join(h[i - 1], t[i]) /\ h[i - 1] \in Seq(T) /\ t[i] \in Seq(T)
    BY <1>3, <1>4
  <2>3. Num(f[i], G) = Num(f[i - 1], G) + Num(s[i], G)
    BY <2>1, NumJoin
  <2>4. Num(h[i], H) = Num(h[i - 1], H) + Num(t[i], H)
    BY <2>2, NumJoin
  <2>5. Num(f[i - 1], G) = Num(h[i - 1], H)
    BY <1>6
  <2>6. Num(s[i], G) = Num(t[i], H)
    BY DEF n, CountEqually
  <2> QED
    BY <2>1, <2>3, <2>4, <2>5, <2>6
<1>7. n \in P
  <2> HIDE DEF P
  <2> QED
    BY <1>3, <1>5, <1>6, UpTo
<1>8. Num(f[n], G) = Num(h[n], H)
  BY <1>7
<1>9. FlattenSeq(s) = f[n] /\ FlattenSeq(t) = h[n]
  BY <1>0, <1>1, <1>2, FlattenIs DEF n
<1> QED
  BY <1>8, <1>9

\* When the G's of each list are as many as the H's of the next, and the first has no H's and
\* the last no G's, each H has its G before it in what the lists are put together to.
LEMMA FlattenBalanced ==
  ASSUME NEW S, NEW s \in Seq(Seq(S)), s # << >>, NEW G, NEW H,
         Num(s[1], H) = 0, Num(s[Len(s)], G) = 0,
         \A i \in 1..(Len(s) - 1) : Num(s[i + 1], H) = Num(s[i], G)
  PROVE  /\ Num(FlattenSeq(s), H) = Num(FlattenSeq(s), G)
         /\ \A k \in 0..Len(FlattenSeq(s)) : NumTo(FlattenSeq(s), H, k) <= NumTo(FlattenSeq(s), G, k)
<1> DEFINE n == Len(s)
           c == [i \in 0..n |-> IF i = 0 THEN 0 ELSE Num(s[i], G)]
<1>1. PICK f : Heads(S, s, f)
  BY HeadsExist
<1>2. /\ n \in Nat /\ f[0] = << >> /\ \A i \in 0..n : f[i] \in Seq(S)
      /\ \A i \in 1..n : f[i] = Join(f[i - 1], s[i]) /\ s[i] \in Seq(S)
  BY <1>1, HeadsAre
<1>3. n > 0
  <2>1. n # 0
    BY EmptySeq
  <2> QED
    BY <1>2, <2>1
<1>4. \A i \in 1..n : c[i] = Num(s[i], G)
  OBVIOUS
<1>5. \A i \in 0..n : c[i] \in Nat
  <2> SUFFICES ASSUME NEW i \in 0..n PROVE c[i] \in Nat
    OBVIOUS
  <2>1. CASE i = 0
    BY <2>1
  <2>2. CASE i # 0
    <3>1. i \in 1..n /\ s[i] \in Seq(S)
      BY <1>2, <2>2
    <3>2. Num(s[i], G) \in Nat
      BY <3>1, NumNone
    <3> QED
      BY <1>4, <3>1, <3>2
  <2> QED
    BY <2>1, <2>2
<1>6. \A i \in 1..n : Num(s[i], H) = c[i - 1]
  <2> SUFFICES ASSUME NEW i \in 1..n PROVE Num(s[i], H) = c[i - 1]
    OBVIOUS
  <2>1. CASE i = 1
    BY <1>3, <2>1
  <2>2. CASE i # 1
    <3>1. i - 1 \in 1..(n - 1) /\ i - 1 \in 1..n /\ (i - 1) + 1 = i
      BY <1>2, <2>2
    <3>2. Num(s[(i - 1) + 1], H) = Num(s[i - 1], G)
      BY <3>1
    <3> QED
      BY <1>4, <3>1, <3>2
  <2> QED
    BY <2>1, <2>2
<1>7. c[0] = 0 /\ c[n] = 0
  BY <1>3, <1>4
<1> HIDE DEF n, c
<1> DEFINE Even(i) == Num(f[i], G) = Num(f[i], H) + c[i]
           Before(i) == \A k \in 0..Len(f[i]) : NumTo(f[i], H, k) <= NumTo(f[i], G, k)
           P == {i \in 0..n : Even(i) /\ Before(i)}
<1>8. P \in SUBSET (0..n) /\ 0 \in P
  <2>1. Num(<< >>, G) = 0 /\ Num(<< >>, H) = 0
    BY NumEmpty
  <2>2. Even(0)
    BY <1>2, <1>7, <2>1
  <2>3. Before(0)
    <3>1. Len(f[0]) = 0
      BY <1>2
    <3>2. NumTo(f[0], H, 0) = 0 /\ NumTo(f[0], G, 0) = 0
      BY NumToIs
    <3>3. \A k \in 0..0 : k = 0
      OBVIOUS
    <3> QED
      BY <3>1, <3>2, <3>3
  <2>4. 0 \in 0..n
    BY <1>2
  <2> HIDE DEF Even, Before
  <2> QED
    BY <2>2, <2>3, <2>4
<1>9. ASSUME NEW i \in 1..n, i - 1 \in P PROVE i \in P
  <2> DEFINE a == f[i - 1]
             b == s[i]
  <2>1. f[i] = Join(a, b) /\ a \in Seq(S) /\ b \in Seq(S) /\ i \in 0..n /\ i - 1 \in 0..n
    BY <1>2
  <2>2. /\ Num(a, G) \in Nat /\ Num(a, H) \in Nat /\ Num(b, G) \in Nat /\ Num(b, H) \in Nat
        /\ Len(a) \in Nat /\ Len(b) \in Nat
    <3> HIDE DEF a, b
    <3> QED
      BY <2>1, NumNone
  <2>3. Num(a, G) = Num(a, H) + c[i - 1] /\ \A k \in 0..Len(a) : NumTo(a, H, k) <= NumTo(a, G, k)
    BY <1>9
  <2>4. Num(b, H) = c[i - 1] /\ Num(b, G) = c[i]
    BY <1>4, <1>6
  <2> HIDE DEF a, b, P
  <2>5. /\ Num(f[i], G) = Num(a, G) + Num(b, G) /\ Num(f[i], H) = Num(a, H) + Num(b, H)
        /\ \A k \in 0..Len(a) : NumTo(f[i], G, k) = NumTo(a, G, k) /\ NumTo(f[i], H, k) = NumTo(a, H, k)
        /\ \A r \in 0..Len(b) : /\ NumTo(f[i], G, Len(a) + r) = Num(a, G) + NumTo(b, G, r)
                                /\ NumTo(f[i], H, Len(a) + r) = Num(a, H) + NumTo(b, H, r)
        /\ Len(f[i]) = Len(a) + Len(b)
    <3>1. \A K : /\ \A k \in 0..Len(a) : NumTo(Join(a, b), K, k) = NumTo(a, K, k)
                 /\ \A r \in 0..Len(b) : NumTo(Join(a, b), K, Len(a) + r) = Num(a, K) + NumTo(b, K, r)
                 /\ Num(Join(a, b), K) = Num(a, K) + Num(b, K)
      <4> SUFFICES ASSUME NEW K
                   PROVE  /\ \A k \in 0..Len(a) : NumTo(Join(a, b), K, k) = NumTo(a, K, k)
                          /\ \A r \in 0..Len(b) : NumTo(Join(a, b), K, Len(a) + r) = Num(a, K) + NumTo(b, K, r)
                          /\ Num(Join(a, b), K) = Num(a, K) + Num(b, K)
        OBVIOUS
      <4>1. a \in Seq(S) /\ b \in Seq(S)
        BY <2>1
      <4>2. \A k \in 0..Len(a) : NumTo(Join(a, b), K, k) = NumTo(a, K, k)
        BY <4>1, NumHead
      <4>3. \A r \in 0..Len(b) : NumTo(Join(a, b), K, Len(a) + r) = Num(a, K) + NumTo(b, K, r)
        BY <4>1, NumJoin
      <4>4. Num(Join(a, b), K) = Num(a, K) + Num(b, K)
        BY <4>1, NumJoin
      <4> QED
        BY <4>2, <4>3, <4>4
    <3>2. Len(Join(a, b)) = Len(a) + Len(b)
      BY <2>1, JoinAt
    <3> QED
      BY <2>1, <3>1, <3>2
  <2>6. Even(i)
    BY <2>2, <2>3, <2>4, <2>5
  <2>7. Before(i)
    <3> SUFFICES ASSUME NEW k \in 0..Len(f[i]) PROVE NumTo(f[i], H, k) <= NumTo(f[i], G, k)
      OBVIOUS
    <3>1. CASE k <= Len(a)
      <4>1. k \in 0..Len(a)
        BY <2>2, <3>1
      <4> QED
        BY <2>3, <2>5, <4>1
    <3>2. CASE ~(k <= Len(a))
      <4> DEFINE r == k - Len(a)
      <4>1. r \in 0..Len(b) /\ k = Len(a) + r /\ Len(b) \in Nat
        BY <2>2, <2>5, <3>2
      <4> HIDE DEF r
      <4>2. NumTo(b, G, r) \in Nat /\ NumTo(b, H, r) \in Nat /\ NumTo(b, H, r) <= NumTo(b, H, Len(b))
        BY <4>1, NumToIs
      <4>3. NumTo(b, H, r) <= Num(b, H)
        BY <4>2 DEF Num
      <4>4. NumTo(f[i], G, k) = Num(a, G) + NumTo(b, G, r) /\ NumTo(f[i], H, k) = Num(a, H) + NumTo(b, H, r)
        BY <2>5, <4>1
      <4>5. Num(a, H) + NumTo(b, H, r) <= Num(a, G)
        BY <2>2, <2>3, <2>4, <4>2, <4>3
      <4>6. Num(a, G) <= Num(a, G) + NumTo(b, G, r)
        BY <2>2, <4>2
      <4>7. /\ Num(a, H) + NumTo(b, H, r) \in Nat /\ Num(a, G) \in Nat
            /\ Num(a, G) + NumTo(b, G, r) \in Nat
        <5>1. Num(a, H) \in Nat /\ Num(a, G) \in Nat /\ NumTo(b, G, r) \in Nat /\ NumTo(b, H, r) \in Nat
          BY <2>2, <4>2
        <5> QED
          BY <5>1
      <4>8. Num(a, H) + NumTo(b, H, r) <= Num(a, G) + NumTo(b, G, r)
        BY <4>5, <4>6, <4>7
      <4> QED
        BY <4>4, <4>8
    <3> QED
      BY <3>1, <3>2
  <2> HIDE DEF Even, Before
  <2> QED
    BY <2>1, <2>6, <2>7 DEF P
<1>10. n \in P
  <2> HIDE DEF P
  <2> QED
    BY <1>2, <1>8, <1>9, UpTo
<1>11. FlattenSeq(s) = f[n]
  BY <1>1, FlattenIs DEF n
<1>12. Num(f[n], G) = Num(f[n], H)
  <2>1. Num(f[n], G) = Num(f[n], H) + 0 /\ f[n] \in Seq(S)
    BY <1>2, <1>7, <1>10
  <2>2. Num(f[n], H) \in Nat
    BY <2>1, NumNone
  <2> QED
    BY <2>1, <2>2
<1> QED
  BY <1>10, <1>11, <1>12

-----------------------------------------------------------------------------
(* Pruning images                                                          *)

LEMMA PlaceholderIs ==
  ASSUME NEW b \in ShownBlocks
  PROVE  /\ Placeholder(b) \in TextBlocks
         /\ b.type = "text" => Placeholder(b) = b
         /\ b.type # "text" => Placeholder(b).text[1] = "image omitted"
<1>1. CASE b \in TextBlocks
  <2>1. b.type = "text"
    BY <1>1 DEF TextBlocks
  <2> QED
    BY <1>1, <2>1 DEF Placeholder
<1>2. CASE b \in ImageBlocks
  <2>1. b.type = "image" /\ b.image \in Nat
    BY <1>2 DEF ImageBlocks
  <2> DEFINE w == <<"image omitted", b.image>>
  <2>2. w[1] = "image omitted" /\ Text(w) \in TextBlocks /\ Text(w).text = w
    <3>1. b.image \in Nat \cup Names /\ "image omitted" \in Strings
      BY <2>1 DEF Strings
    <3>2. /\ <<"image omitted", b.image>>[1] = "image omitted"
          /\ Text(<<"image omitted", b.image>>) \in TextBlocks
          /\ Text(<<"image omitted", b.image>>).text = <<"image omitted", b.image>>
      BY <3>1 DEF Words, Text, TextBlocks
    <3> QED
      BY <3>2
  <2>3. Placeholder(b) = Text(w)
    BY <2>1 DEF Placeholder
  <2> HIDE DEF w
  <2> QED
    BY <2>1, <2>2, <2>3
<1> QED
  BY <1>1, <1>2 DEF ShownBlocks

LEMMA PrunedIs ==
  ASSUME NEW b \in AllBlocks
  PROVE  /\ b.type \in {"text", "tool_use"} => Pruned(b) = b
         /\ b.type = "image" => Pruned(b) \in TextBlocks /\ Pruned(b).text[1] = "image omitted"
         /\ b.type = "tool_result" => Pruned(b) \in ResultBlocks /\ Pruned(b).id = b.id
         /\ b \in ShownBlocks \cup ResultBlocks => Pruned(b) \in ShownBlocks \cup ResultBlocks
         /\ b \in TextBlocks \cup UseBlocks => Pruned(b) \in TextBlocks \cup UseBlocks
<1>1. CASE b.type \in {"text", "tool_use"}
  <2>1. Pruned(b) = b
    BY <1>1 DEF Pruned, Placeholder
  <2> QED
    BY <1>1, <2>1
<1>2. CASE b.type = "image"
  <2>1. b \in ImageBlocks /\ b \in ShownBlocks
    BY <1>2, BlockIs DEF ShownBlocks
  <2>2. Pruned(b) = Placeholder(b)
    BY <1>2 DEF Pruned
  <2>3. Pruned(b) \in TextBlocks /\ Pruned(b).text[1] = "image omitted"
    BY <1>2, <2>1, <2>2, PlaceholderIs
  <2>4. b \notin TextBlocks \cup UseBlocks
    BY <1>2 DEF TextBlocks, UseBlocks
  <2> QED
    BY <1>2, <2>3, <2>4 DEF ShownBlocks
<1>3. CASE b.type = "tool_result"
  <2>1. b \in ResultBlocks /\ b.id \in Ids /\ b.content \in Given
    BY <1>3, BlockIs
  <2> DEFINE c == b.content
             d == [i \in DOMAIN c |-> Placeholder(c[i])]
  <2>2. c \in Seq(ShownBlocks) /\ c # << >> /\ c[1] \in TextBlocks
    BY <2>1 DEF Given
  <2>3. \A b1 \in Range(c) : b1.type = "text" => b1.text[1] # "duplicate of"
    BY <2>1 DEF Given
  <2>4. Pruned(b) = [type |-> "tool_result", id |-> b.id, content |-> d]
    <3>1. Pruned(b) = [b EXCEPT !.content = d]
      BY <1>3 DEF Pruned
    <3>2. b = [type |-> "tool_result", id |-> b.id, content |-> c]
      BY <2>1 DEF ResultBlocks
    <3> HIDE DEF c, d
    <3> QED
      BY <3>1, <3>2
  <2> HIDE DEF c
  <2>5. d \in Seq(ShownBlocks) /\ DOMAIN d = DOMAIN c /\ Len(d) = Len(c)
    <3>1. \A i \in 1..Len(c) : Placeholder(c[i]) \in ShownBlocks
      <4> SUFFICES ASSUME NEW i \in 1..Len(c) PROVE Placeholder(c[i]) \in ShownBlocks
        OBVIOUS
      <4>1. c[i] \in ShownBlocks
        BY <2>2
      <4>2. Placeholder(c[i]) \in TextBlocks
        BY <4>1, PlaceholderIs
      <4> QED
        BY <4>2 DEF ShownBlocks
    <3>2. Len(c) \in Nat /\ DOMAIN c = 1..Len(c)
      BY <2>2
    <3>3. d \in [1..Len(c) -> ShownBlocks]
      BY <3>1, <3>2
    <3> HIDE DEF d
    <3> QED
      BY <3>2, <3>3, ListOf
  <2>6. 1 \in DOMAIN c /\ d # << >>
    <3>1. Len(c) \in Nat /\ DOMAIN c = 1..Len(c) /\ Len(c) # 0
      BY <2>2, EmptySeq
    <3> HIDE DEF d
    <3> QED
      BY <2>5, <3>1
  <2>7. d[1] \in TextBlocks
    BY <2>2, <2>6, PlaceholderIs DEF ShownBlocks
  <2>8. ASSUME NEW b1 \in Range(d), b1.type = "text" PROVE b1.text[1] # "duplicate of"
    <3>1. PICK i \in DOMAIN c : b1 = Placeholder(c[i])
      BY DEF Range
    <3>2. c[i] \in ShownBlocks /\ c[i] \in Range(c)
      BY <2>2, InRange
    <3>3. CASE c[i].type = "text"
      BY <2>3, <3>1, <3>2, <3>3, PlaceholderIs
    <3>4. CASE c[i].type # "text"
      BY <3>1, <3>2, <3>4, PlaceholderIs
    <3> QED
      BY <3>3, <3>4
  <2> HIDE DEF d
  <2>9. d \in Given
    BY <2>5, <2>6, <2>7, <2>8 DEF Given
  <2>10. Pruned(b) \in ResultBlocks /\ Pruned(b).id = b.id
    BY <2>1, <2>4, <2>9 DEF ResultBlocks
  <2>11. b \notin TextBlocks \cup UseBlocks
    BY <1>3 DEF TextBlocks, UseBlocks
  <2> QED
    BY <1>3, <2>10, <2>11
<1> QED
  BY <1>1, <1>2, <1>3, BlockIs

PrunedMessage(m) == [m EXCEPT !.content = [k \in DOMAIN @ |-> Pruned(@[k])]]

LEMMA IdsAtSame ==
  ASSUME NEW c, NEW d, NEW type, DOMAIN d = DOMAIN c,
         \A i \in DOMAIN c : /\ d[i].type = type <=> c[i].type = type
                             /\ c[i].type = type => d[i].id = c[i].id
  PROVE  IdsAt(d, type) = IdsAt(c, type)
<1>1. \A i \in DOMAIN c : (IF d[i].type = type THEN <<d[i].id>> ELSE << >>) = (IF c[i].type = type THEN <<c[i].id>> ELSE << >>)
  OBVIOUS
<1>2. [i \in DOMAIN d |-> IF d[i].type = type THEN <<d[i].id>> ELSE << >>]
      = [i \in DOMAIN c |-> IF c[i].type = type THEN <<c[i].id>> ELSE << >>]
  BY <1>1
<1> QED
  BY <1>2 DEF IdsAt

LEMMA PrunedMessageIs ==
  ASSUME NEW m \in Messages
  PROVE  /\ PrunedMessage(m) \in Messages
         /\ PrunedMessage(m).role = m.role /\ PrunedMessage(m).plain = m.plain
         /\ CallIds(PrunedMessage(m)) = CallIds(m) /\ ResultIds(PrunedMessage(m)) = ResultIds(m)
         /\ Unmarked(m) => Unmarked(PrunedMessage(m))
         /\ \A b \in Range(m.content) : b.type = "text" => b \in Range(PrunedMessage(m).content)
         /\ Holds(PrunedMessage(m).content, "tool_result") => Holds(m.content, "tool_result")
<1> DEFINE c == m.content
           d == [k \in DOMAIN c |-> Pruned(c[k])]
           p == PrunedMessage(m)
<1>1. /\ m.role \in {"user", "assistant"} /\ m.plain \in BOOLEAN /\ c \in Seq(AllBlocks)
      /\ m = [role |-> m.role, plain |-> m.plain, content |-> c]
      /\ m.role = "user" => c \in Seq(ShownBlocks \cup ResultBlocks)
      /\ m.role = "assistant" => c \in Seq(TextBlocks \cup UseBlocks) /\ m.plain = FALSE
  <2>1. m = [role |-> m.role, plain |-> m.plain, content |-> m.content]
    BY DEF Messages, UserMessages, AssistantMessages
  <2>2. m.role = "assistant" => m.plain = FALSE
    BY DEF Messages, UserMessages, AssistantMessages
  <2> QED
    BY <2>1, <2>2, MessageIs
<1>2. p = [role |-> m.role, plain |-> m.plain, content |-> d]
  <2>1. p = [m EXCEPT !.content = d]
    BY DEF PrunedMessage
  <2> HIDE DEF d, p, c
  <2> QED
    BY <1>1, <2>1
<1> HIDE DEF c, p
<1>3. Len(c) \in Nat /\ DOMAIN c = 1..Len(c) /\ \A k \in DOMAIN c : c[k] \in AllBlocks
  BY <1>1
<1>4. ASSUME NEW S, \A k \in DOMAIN c : Pruned(c[k]) \in S PROVE d \in Seq(S) /\ Len(d) = Len(c)
  <2>1. d \in [1..Len(c) -> S]
    BY <1>3, <1>4
  <2> HIDE DEF d
  <2> QED
    BY <1>3, <2>1, ListOf
<1>5. p \in Messages
  <2>1. CASE m.role = "user"
    <3>1. \A k \in DOMAIN c : c[k] \in ShownBlocks \cup ResultBlocks
      BY <1>1, <2>1
    <3>2. \A k \in DOMAIN c : Pruned(c[k]) \in ShownBlocks \cup ResultBlocks
      BY <1>3, <3>1, PrunedIs
    <3>3. d \in Seq(ShownBlocks \cup ResultBlocks)
      BY <1>4, <3>2
    <3> HIDE DEF d
    <3> QED
      BY <1>1, <1>2, <2>1, <3>3 DEF Messages, UserMessages
  <2>2. CASE m.role = "assistant"
    <3>1. \A k \in DOMAIN c : c[k] \in TextBlocks \cup UseBlocks
      BY <1>1, <2>2
    <3>2. \A k \in DOMAIN c : Pruned(c[k]) \in TextBlocks \cup UseBlocks
      BY <1>3, <3>1, PrunedIs
    <3>3. d \in Seq(TextBlocks \cup UseBlocks)
      BY <1>4, <3>2
    <3> HIDE DEF d
    <3> QED
      BY <1>1, <1>2, <2>2, <3>3 DEF Messages, AssistantMessages
  <2> QED
    BY <1>1, <2>1, <2>2
<1>6. DOMAIN d = DOMAIN c /\ \A k \in DOMAIN c : d[k] = Pruned(c[k])
  OBVIOUS
<1>7. \A k \in DOMAIN c : /\ d[k].type = "tool_use" <=> c[k].type = "tool_use"
                          /\ d[k].type = "tool_result" <=> c[k].type = "tool_result"
                          /\ c[k].type = "tool_use" => d[k].id = c[k].id
                          /\ c[k].type = "tool_result" => d[k].id = c[k].id
                          /\ c[k].type = "text" => d[k] = c[k]
                          /\ c[k].type # "text" /\ d[k].type = "text" => d[k].text[1] = "image omitted"
  <2> SUFFICES ASSUME NEW k \in DOMAIN c
               PROVE  /\ d[k].type = "tool_use" <=> c[k].type = "tool_use"
                      /\ d[k].type = "tool_result" <=> c[k].type = "tool_result"
                      /\ c[k].type = "tool_use" => d[k].id = c[k].id
                      /\ c[k].type = "tool_result" => d[k].id = c[k].id
                      /\ c[k].type = "text" => d[k] = c[k]
                      /\ c[k].type # "text" /\ d[k].type = "text" => d[k].text[1] = "image omitted"
    OBVIOUS
  <2>1. c[k] \in AllBlocks /\ d[k] = Pruned(c[k])
    BY <1>3
  <2> HIDE DEF d
  <2>2. CASE c[k].type \in {"text", "tool_use"}
    <3>1. d[k] = c[k]
      BY <2>1, <2>2, PrunedIs
    <3> QED
      BY <2>2, <3>1
  <2>3. CASE c[k].type = "image"
    <3>1. d[k] \in TextBlocks /\ d[k].text[1] = "image omitted"
      BY <2>1, <2>3, PrunedIs
    <3>2. d[k].type = "text"
      BY <3>1 DEF TextBlocks
    <3> QED
      BY <2>3, <3>1, <3>2
  <2>4. CASE c[k].type = "tool_result"
    <3>1. d[k] \in ResultBlocks /\ d[k].id = c[k].id
      BY <2>1, <2>4, PrunedIs
    <3>2. d[k].type = "tool_result"
      BY <3>1 DEF ResultBlocks
    <3> QED
      BY <2>4, <3>1, <3>2
  <2> QED
    BY <2>1, <2>2, <2>3, <2>4, BlockIs
<1>8. p.content = d /\ p.role = m.role /\ p.plain = m.plain
  <2> HIDE DEF d
  <2> QED
    BY <1>2
<1> HIDE DEF d
<1>9. CallIds(p) = CallIds(m) /\ ResultIds(p) = ResultIds(m)
  <2>1. IdsAt(d, "tool_use") = IdsAt(c, "tool_use") /\ IdsAt(d, "tool_result") = IdsAt(c, "tool_result")
    <3>1. IdsAt(d, "tool_use") = IdsAt(c, "tool_use")
      <4>1. \A k \in DOMAIN c : /\ d[k].type = "tool_use" <=> c[k].type = "tool_use"
                                /\ c[k].type = "tool_use" => d[k].id = c[k].id
        BY <1>7
      <4>2. DOMAIN d = DOMAIN c
        BY <1>6
      <4> QED
        BY <4>1, <4>2, IdsAtSame
    <3>2. IdsAt(d, "tool_result") = IdsAt(c, "tool_result")
      <4>1. \A k \in DOMAIN c : /\ d[k].type = "tool_result" <=> c[k].type = "tool_result"
                                /\ c[k].type = "tool_result" => d[k].id = c[k].id
        BY <1>7
      <4>2. DOMAIN d = DOMAIN c
        BY <1>6
      <4> QED
        BY <4>1, <4>2, IdsAtSame
    <3> QED
      BY <3>1, <3>2
  <2> QED
    BY <1>8, <2>1 DEF CallIds, ResultIds, c
<1>10. Unmarked(m) => Unmarked(p)
  <2> SUFFICES ASSUME Unmarked(m) PROVE Unmarked(p)
    OBVIOUS
  <2>1. c # << >> /\ \A b \in Range(c) : b.type = "text" => b.text[1] \notin {"notice", "summary", "no summary"}
    BY DEF Unmarked, c
  <2>2. d # << >>
    <3>1. DOMAIN << >> = {}
      OBVIOUS
    <3>2. 1 \in DOMAIN c
      BY <1>1, <2>1, NotEmpty
    <3> QED
      BY <1>6, <3>1, <3>2
  <2>3. ASSUME NEW b \in Range(d), b.type = "text" PROVE b.text[1] \notin {"notice", "summary", "no summary"}
    <3>1. PICK k \in DOMAIN c : b = d[k]
      BY <1>6 DEF Range
    <3>2. CASE c[k].type = "text"
      <4>1. b = c[k] /\ c[k] \in Range(c)
        BY <1>7, <3>1, <3>2 DEF Range
      <4> QED
        BY <2>1, <2>3, <4>1
    <3>3. CASE c[k].type # "text"
      BY <1>7, <2>3, <3>1, <3>3
    <3> QED
      BY <3>2, <3>3
  <2> QED
    BY <1>8, <2>2, <2>3 DEF Unmarked
<1>11. \A b \in Range(c) : b.type = "text" => b \in Range(d)
  <2> SUFFICES ASSUME NEW b \in Range(c), b.type = "text" PROVE b \in Range(d)
    OBVIOUS
  <2>1. PICK k \in DOMAIN c : b = c[k]
    BY DEF Range
  <2>2. d[k] = b /\ k \in DOMAIN d
    BY <1>6, <1>7, <2>1
  <2> QED
    BY <2>2 DEF Range
<1>12. Holds(d, "tool_result") => Holds(c, "tool_result")
  BY <1>6, <1>7 DEF Holds
<1> QED
  BY <1>5, <1>8, <1>9, <1>10, <1>11, <1>12 DEF p, c

LEMMA PruneImagesIs ==
  ASSUME NEW ms \in Seq(Messages)
  PROVE  /\ PruneImages(ms) \in Seq(Messages) /\ Len(PruneImages(ms)) = Len(ms)
         /\ \A i \in 1..Len(ms) : PruneImages(ms)[i] \in {ms[i], PrunedMessage(ms[i])}
<1> DEFINE with == {i \in DOMAIN ms : HasImage(ms[i].content)}
           kept == IF with = {} THEN 0 ELSE CHOOSE i \in with : \A j \in with : j <= i
           Now(i) == IF i = kept THEN ms[i] ELSE PrunedMessage(ms[i])
           p == [i \in DOMAIN ms |-> Now(i)]
<1>1. PruneImages(ms) = p
  BY DEF PruneImages, PrunedMessage
<1> HIDE DEF with, kept
<1>2. Len(ms) \in Nat /\ DOMAIN ms = 1..Len(ms) /\ \A i \in 1..Len(ms) : ms[i] \in Messages
  OBVIOUS
<1>3. \A i \in 1..Len(ms) : Now(i) \in {ms[i], PrunedMessage(ms[i])} /\ Now(i) \in Messages
  BY <1>2, PrunedMessageIs
<1> HIDE DEF Now
<1>4. p \in [1..Len(ms) -> Messages] /\ \A i \in 1..Len(ms) : p[i] = Now(i)
  BY <1>2, <1>3
<1> HIDE DEF p
<1>5. p \in Seq(Messages) /\ Len(p) = Len(ms)
  BY <1>2, <1>4, ListOf
<1> QED
  BY <1>1, <1>3, <1>4, <1>5

\* Without its older images a history is still one, with the same texts, calls and results.
LEMMA HistoryPruned ==
  ASSUME NEW ms, History(ms)
  PROVE  /\ History(PruneImages(ms)) /\ Len(PruneImages(ms)) = Len(ms)
         /\ \A i \in 1..Len(ms) :
              /\ PruneImages(ms)[i].role = ms[i].role /\ PruneImages(ms)[i].plain = ms[i].plain
              /\ CallIds(PruneImages(ms)[i]) = CallIds(ms[i])
              /\ \A b \in Range(ms[i].content) : b.type = "text" => b \in Range(PruneImages(ms)[i].content)
              /\ Holds(PruneImages(ms)[i].content, "tool_result") => Holds(ms[i].content, "tool_result")
<1> DEFINE p == PruneImages(ms)
           n == Len(ms)
<1>1. /\ ms \in Seq(Messages) /\ \A i \in 1..n : Unmarked(ms[i])
      /\ ms # << >> => ResultIds(ms[1]) = << >>
      /\ \A i \in 1..(n - 1) : ResultIds(ms[i + 1]) = CallIds(ms[i])
  BY DEF History
<1>2. p \in Seq(Messages) /\ Len(p) = n /\ \A i \in 1..n : p[i] \in {ms[i], PrunedMessage(ms[i])}
  BY <1>1, PruneImagesIs
<1>3. n \in Nat /\ \A i \in 1..n : ms[i] \in Messages
  BY <1>1
<1> HIDE DEF p
<1>4. ASSUME NEW i \in 1..n
      PROVE  /\ p[i].role = ms[i].role /\ p[i].plain = ms[i].plain /\ Unmarked(p[i])
             /\ CallIds(p[i]) = CallIds(ms[i]) /\ ResultIds(p[i]) = ResultIds(ms[i])
             /\ \A b \in Range(ms[i].content) : b.type = "text" => b \in Range(p[i].content)
             /\ Holds(p[i].content, "tool_result") => Holds(ms[i].content, "tool_result")
  <2>1. CASE p[i] = ms[i]
    BY <1>1, <2>1
  <2>2. CASE p[i] = PrunedMessage(ms[i])
    BY <1>1, <1>3, <2>2, PrunedMessageIs
  <2> QED
    BY <1>2, <2>1, <2>2
<1>5. p # << >> => ResultIds(p[1]) = << >>
  <2> SUFFICES ASSUME p # << >> PROVE ResultIds(p[1]) = << >>
    OBVIOUS
  <2>1. n # 0
    BY <1>2, EmptySeq
  <2>2. 1 \in 1..n /\ ms # << >>
    BY <1>1, <1>3, <2>1
  <2> QED
    BY <1>1, <1>4, <2>2
<1>6. \A i \in 1..(n - 1) : ResultIds(p[i + 1]) = CallIds(p[i])
  <2>1. \A i \in 1..(n - 1) : i \in 1..n /\ i + 1 \in 1..n
    BY <1>3
  <2> QED
    BY <1>1, <1>4, <2>1
<1>7. History(p)
  BY <1>2, <1>4, <1>5, <1>6 DEF History
<1> QED
  BY <1>2, <1>4, <1>7 DEF p

-----------------------------------------------------------------------------
(* The items that a message becomes                                        *)

\* What a result may be sent as, unless it is a reference.
Outs == {c \in Seq(ShownBlocks) : c # << >> => c[1] \in TextBlocks /\ c[1].text[1] # "duplicate of"}

SaidItems == [item : {"said"}, text : Words]
UserItems == [item : {"user"}, content : Seq(AllBlocks)]
CallItems == [item : {"call"}, id : Ids, name : Names]
OutputItems == [item : {"output"}, id : Ids, output : Outs]
AllItems == SaidItems \cup UserItems \cup CallItems \cup OutputItems

CallsOf(id) == {it \in AllItems : it.item = "call" /\ it.id = id}
OutputsOf(id) == {it \in AllItems : it.item = "output" /\ it.id = id}

\* What a provider's upstream knows each of the client's ids as.
Upstream(provider) == [id \in Ids |-> IF provider = "direct" THEN id ELSE ToUpstream(id)]
IdsFrom(up, id) == {x \in Ids : up[x] = id}

TextsIn(it) ==
  IF it.item = "said" THEN {it.text}
  ELSE IF it.item = "user" THEN {b.text : b \in Range(Texts(it.content))} ELSE {}
TextsOf(items) == UNION {TextsIn(it) : it \in Range(items)}
TextsAt(content) == {b.text : b \in {b \in Range(content) : b.type = "text"}}

\* These items are the texts, the calls and the results in the content.
Renders(items, content, up) ==
  /\ items \in Seq(AllItems)
  /\ TextsOf(items) = TextsAt(content)
  /\ \A id \in Ids : /\ Num(items, CallsOf(id)) = Num(IdsAt(content, "tool_use"), IdsFrom(up, id))
                     /\ Num(items, OutputsOf(id)) = Num(IdsAt(content, "tool_result"), IdsFrom(up, id))

\* What is left of a list without its first k elements.
Rest(s, k) == SubSeq(s, k + 1, Len(s))

LEMMA RestIs ==
  ASSUME NEW S, NEW s \in Seq(S), NEW k \in 0..Len(s)
  PROVE  /\ Rest(s, k) \in Seq(S) /\ Len(Rest(s, k)) = Len(s) - k
         /\ \A i \in 1..(Len(s) - k) : Rest(s, k)[i] = s[k + i]
<1> DEFINE m == k + 1
           n == Len(s)
<1>1. n \in Nat /\ k \in Nat /\ k <= n /\ \A i \in 1..n : s[i] \in S
  OBVIOUS
<1>2. m \in Int /\ n \in Int /\ \A i \in m..n : s[i] \in S
  BY <1>1
<1>3. /\ SubSeq(s, m, n) \in Seq(S) /\ Len(SubSeq(s, m, n)) = IF m <= n THEN n - m + 1 ELSE 0
      /\ \A i \in 1..(n - m + 1) : SubSeq(s, m, n)[i] = s[m + i - 1]
  <2> HIDE DEF m, n
  <2> QED
    BY <1>2, SubSeqProperties
<1>4. /\ (IF m <= n THEN n - m + 1 ELSE 0) = n - k /\ n - m + 1 = n - k
      /\ \A i \in 1..(n - k) : m + i - 1 = k + i
  BY <1>1
<1> HIDE DEF m
<1> QED
  BY <1>3, <1>4 DEF Rest, m

\* How an id begins.
Begins(p, a) == Len(p) >= 1 /\ p[1] = a
BeginsWith(p, a, b) == Len(p) >= 2 /\ p[1] = a /\ p[2] = b

LEMMA IsPrefixIs ==
  ASSUME NEW S, NEW p \in Seq(S), NEW q, Len(q) \in Nat, q = [i \in 1..Len(q) |-> q[i]]
  PROVE  IsPrefix(q, p) <=> Len(q) <= Len(p) /\ \A i \in 1..Len(q) : p[i] = q[i]
<1> DEFINE k == Len(q)
<1>1. SubSeq(q, 1, k) = q
  <2>1. SubSeq(q, 1, k) = [i \in 1..k |-> q[i]]
    OBVIOUS
  <2> QED
    BY <2>1
<1>2. SubSeq(p, 1, k) = [i \in 1..k |-> p[i]]
  OBVIOUS
<1> HIDE DEF k
<1>3. q = [i \in 1..k |-> q[i]]
  BY DEF k
<1>4. q = [i \in 1..k |-> p[i]] <=> \A i \in 1..k : p[i] = q[i]
  BY <1>3
<1> QED
  BY <1>1, <1>2, <1>4 DEF IsPrefix, k

LEMMA StartsIs ==
  ASSUME NEW id \in Ids, NEW a, NEW b
  PROVE  /\ StartsWith(id, <<a>>) <=> Begins(id.prefix, a)
         /\ StartsWith(id, <<a, b>>) <=> BeginsWith(id.prefix, a, b)
<1> DEFINE p == id.prefix
           q == <<a>>
           r == <<a, b>>
<1>1. p \in Seq(Strings)
  BY DEF Ids
<1>2. Len(q) = 1 /\ q = [i \in 1..1 |-> q[i]] /\ q[1] = a
  OBVIOUS
<1>3. Len(r) = 2 /\ r = [i \in 1..2 |-> r[i]] /\ r[1] = a /\ r[2] = b
  OBVIOUS
<1> HIDE DEF p, q, r
<1>4. IsPrefix(q, p) <=> 1 <= Len(p) /\ \A i \in 1..1 : p[i] = q[i]
  <2>1. Len(q) \in Nat /\ q = [i \in 1..Len(q) |-> q[i]]
    BY <1>2
  <2>2. IsPrefix(q, p) <=> Len(q) <= Len(p) /\ \A i \in 1..Len(q) : p[i] = q[i]
    BY <1>1, <2>1, IsPrefixIs
  <2> QED
    BY <1>2, <2>2
<1>5. IsPrefix(r, p) <=> 2 <= Len(p) /\ \A i \in 1..2 : p[i] = r[i]
  BY <1>1, <1>3, IsPrefixIs
<1>6. (\A i \in 1..1 : p[i] = q[i]) <=> p[1] = a
  BY <1>2
<1>7. (\A i \in 1..2 : p[i] = r[i]) <=> p[1] = a /\ p[2] = b
  BY <1>3
<1>8. Len(p) \in Nat
  BY <1>1
<1> QED
  BY <1>4, <1>5, <1>6, <1>7, <1>8 DEF StartsWith, p, q, r, Begins, BeginsWith

LEMMA StripIs ==
  ASSUME NEW id \in Ids, NEW k \in 0..Len(id.prefix)
  PROVE  Strip(id, k) = [prefix |-> Rest(id.prefix, k), n |-> id.n] /\ Strip(id, k) \in Ids
<1>1. id = [prefix |-> id.prefix, n |-> id.n] /\ id.prefix \in Seq(Strings) /\ id.n \in Nat
  BY DEF Ids
<1>2. Strip(id, k) = [prefix |-> Rest(id.prefix, k), n |-> id.n]
  <2> DEFINE r == Rest(id.prefix, k)
  <2>1. Strip(id, k) = [id EXCEPT !.prefix = r]
    BY DEF Strip, Rest
  <2> HIDE DEF r
  <2>2. Strip(id, k) = [prefix |-> r, n |-> id.n]
    BY <1>1, <2>1
  <2> QED
    BY <2>2 DEF r
<1>3. Rest(id.prefix, k) \in Seq(Strings)
  BY <1>1, RestIs
<1> QED
  BY <1>1, <1>2, <1>3 DEF Ids

LEMMA UpstreamIn ==
  ASSUME NEW id \in Ids
  PROVE  ToUpstream(id) \in Ids
<1>1. id.prefix \in Seq(Strings) /\ Len(id.prefix) \in Nat
  BY DEF Ids
<1>2. StartsWith(id, <<"toolu_", "openai_">>) => 2 \in 0..Len(id.prefix)
  <2>1. StartsWith(id, <<"toolu_", "openai_">>) <=> BeginsWith(id.prefix, "toolu_", "openai_")
    BY StartsIs
  <2> QED
    BY <1>1, <2>1 DEF BeginsWith
<1>3. StartsWith(id, <<"toolu_", "call_">>) => 1 \in 0..Len(id.prefix)
  <2>1. StartsWith(id, <<"toolu_", "call_">>) <=> BeginsWith(id.prefix, "toolu_", "call_")
    BY StartsIs
  <2> QED
    BY <1>1, <2>1 DEF BeginsWith
<1> QED
  BY <1>2, <1>3, StripIs DEF ToUpstream

\* An id comes back from the client as the upstream gave it (tool_id.rs).
LEMMA UpstreamIs ==
  ASSUME NEW id \in Ids
  PROVE  /\ ToUpstream(id) \in Ids /\ ToAnthropic(id) \in Ids
         /\ ToUpstream(ToAnthropic(id)) = id
<1> DEFINE p == id.prefix
           h == IF StartsWith(id, <<"call_">>) THEN <<"toolu_">> ELSE <<"toolu_", "openai_">>
           q == Join(h, p)
           new == ToAnthropic(id)
<1>1. p \in Seq(Strings) /\ id.n \in Nat /\ id = [prefix |-> p, n |-> id.n] /\ Len(p) \in Nat
  BY DEF Ids
<1>2. h \in Seq(Strings)
  <2>1. "toolu_" \in Strings /\ "openai_" \in Strings
    BY DEF Strings
  <2>2. <<"toolu_">> \in Seq(Strings) /\ <<"toolu_", "openai_">> \in Seq(Strings)
    BY <2>1
  <2> QED
    BY <2>2
<1>3. /\ q \in Seq(Strings) /\ Len(q) = Len(h) + Len(p)
      /\ \A j \in 1..(Len(h) + Len(p)) : q[j] = IF j <= Len(h) THEN h[j] ELSE p[j - Len(h)]
  <2> HIDE DEF h, p
  <2> QED
    BY <1>1, <1>2, JoinAt
<1>4. new = [prefix |-> q, n |-> id.n]
  <2>1. new = [id EXCEPT !.prefix = q]
    BY DEF ToAnthropic, Join
  <2> HIDE DEF q, new
  <2> QED
    BY <1>1, <2>1
<1> HIDE DEF p, q, new
<1>5. new \in Ids /\ new.prefix = q /\ new.n = id.n
  BY <1>1, <1>3, <1>4 DEF Ids
<1>7. CASE StartsWith(id, <<"call_">>)
  <2>1. Len(p) >= 1 /\ p[1] = "call_"
    BY <1>7, StartsIs DEF Begins, p
  <2>2. h = <<"toolu_">> /\ Len(h) = 1 /\ h[1] = "toolu_"
    BY <1>7
  <2> HIDE DEF h
  <2>3. Len(q) = 1 + Len(p) /\ q[1] = "toolu_" /\ q[2] = "call_"
    <3>1. Len(q) = 1 + Len(p) /\ \A j \in 1..(1 + Len(p)) : q[j] = IF j <= 1 THEN h[j] ELSE p[j - 1]
      BY <1>3, <2>2
    <3>2. 1 \in 1..(1 + Len(p)) /\ 2 \in 1..(1 + Len(p)) /\ 1 <= 1 /\ ~(2 <= 1) /\ 2 - 1 = 1
      BY <1>1, <2>1
    <3>3. q[1] = h[1] /\ q[2] = p[1]
      BY <3>1, <3>2
    <3> QED
      BY <2>1, <2>2, <3>1, <3>3
  <2>4. ~BeginsWith(q, "toolu_", "openai_") /\ BeginsWith(q, "toolu_", "call_")
    BY <1>1, <2>1, <2>3 DEF BeginsWith
  <2>5. ~StartsWith(new, <<"toolu_", "openai_">>) /\ StartsWith(new, <<"toolu_", "call_">>)
    BY <1>5, <2>4, StartsIs
  <2>6. ToUpstream(new) = Strip(new, 1)
    BY <2>5 DEF ToUpstream
  <2>7. Strip(new, 1) = [prefix |-> Rest(q, 1), n |-> id.n]
    <3>1. 1 \in 0..Len(new.prefix)
      BY <1>1, <1>5, <2>3
    <3> QED
      BY <1>5, <3>1, StripIs
  <2>8. Rest(q, 1) = p
    <3>1. 1 \in 0..Len(q)
      BY <1>1, <2>3
    <3>2. Rest(q, 1) \in Seq(Strings) /\ Len(Rest(q, 1)) = Len(q) - 1 /\ \A i \in 1..(Len(q) - 1) : Rest(q, 1)[i] = q[1 + i]
      BY <1>3, <3>1, RestIs
    <3>3. Len(q) - 1 = Len(p)
      BY <1>1, <2>3
    <3>4. \A i \in 1..Len(p) : q[1 + i] = p[i]
      BY <1>1, <1>3, <2>2
    <3> QED
      BY <1>1, <3>2, <3>3, <3>4, SeqEqual
  <2> QED
    BY <1>1, <1>5, <2>6, <2>7, <2>8, UpstreamIn DEF new
<1>8. CASE ~StartsWith(id, <<"call_">>)
  <2>2. h = <<"toolu_", "openai_">> /\ Len(h) = 2 /\ h[1] = "toolu_" /\ h[2] = "openai_"
    BY <1>8
  <2> HIDE DEF h
  <2>3. Len(q) = 2 + Len(p) /\ q[1] = "toolu_" /\ q[2] = "openai_"
    BY <1>1, <1>3, <2>2
  <2>4. BeginsWith(q, "toolu_", "openai_")
    BY <1>1, <2>3 DEF BeginsWith
  <2>5. StartsWith(new, <<"toolu_", "openai_">>)
    BY <1>5, <2>4, StartsIs
  <2>6. ToUpstream(new) = Strip(new, 2)
    BY <2>5 DEF ToUpstream
  <2>7. Strip(new, 2) = [prefix |-> Rest(q, 2), n |-> id.n]
    <3>1. 2 \in 0..Len(new.prefix)
      BY <1>1, <1>5, <2>3
    <3> QED
      BY <1>5, <3>1, StripIs
  <2>8. Rest(q, 2) = p
    <3>1. 2 \in 0..Len(q)
      BY <1>1, <2>3
    <3>2. Rest(q, 2) \in Seq(Strings) /\ Len(Rest(q, 2)) = Len(q) - 2 /\ \A i \in 1..(Len(q) - 2) : Rest(q, 2)[i] = q[2 + i]
      <4>1. q \in Seq(Strings)
        BY <1>3
      <4> DEFINE k == 2
      <4>2. k \in 0..Len(q)
        BY <3>1
      <4> HIDE DEF k
      <4>3. Rest(q, k) \in Seq(Strings) /\ Len(Rest(q, k)) = Len(q) - k /\ \A i \in 1..(Len(q) - k) : Rest(q, k)[i] = q[k + i]
        BY <4>1, <4>2, RestIs
      <4> QED
        BY <4>3 DEF k
    <3>3. Len(q) - 2 = Len(p)
      BY <1>1, <2>3
    <3>4. \A i \in 1..Len(p) : q[2 + i] = p[i]
      BY <1>1, <1>3, <2>2
    <3> QED
      BY <1>1, <3>2, <3>3, <3>4, SeqEqual
  <2> QED
    BY <1>1, <1>5, <2>6, <2>7, <2>8, UpstreamIn DEF new
<1> QED
  BY <1>7, <1>8

LEMMA ItemIs ==
  ASSUME NEW it \in AllItems
  PROVE  /\ it.item = "said" => it.text \in Words
         /\ it.item = "user" => it.content \in Seq(AllBlocks)
         /\ it.item = "call" => it.id \in Ids /\ it.name \in Names
         /\ it.item = "output" => it.id \in Ids /\ it.output \in Outs
         /\ it.item \in {"said", "user", "call", "output"}
BY DEF AllItems, SaidItems, UserItems, CallItems, OutputItems

LEMMA TextsAre ==
  ASSUME NEW c \in Seq(AllBlocks)
  PROVE  {b.text : b \in Range(Texts(c))} = TextsAt(c)
<1>1. /\ OfType(c, "text") \in Seq({b \in AllBlocks : b.type = "text"})
      /\ Range(OfType(c, "text")) = {b \in Range(c) : b.type = "text"}
  BY OfTypeIs
<1> QED
  BY <1>1 DEF Texts, TextsAt

LEMMA TextsOfJoin ==
  ASSUME NEW a \in Seq(AllItems), NEW b \in Seq(AllItems)
  PROVE  TextsOf(Join(a, b)) = TextsOf(a) \cup TextsOf(b)
<1>1. Range(Join(a, b)) = Range(a) \cup Range(b)
  BY RangeJoin
<1> QED
  BY <1>1 DEF TextsOf

\* Single items.
LEMMA SaidOne ==
  ASSUME NEW b \in TextBlocks
  PROVE  /\ <<SaidItem(b.text)>> \in Seq(AllItems) /\ TextsOf(<<SaidItem(b.text)>>) = {b.text}
         /\ \A id \in Ids : /\ Num(<<SaidItem(b.text)>>, CallsOf(id)) = 0
                            /\ Num(<<SaidItem(b.text)>>, OutputsOf(id)) = 0
<1> DEFINE it == SaidItem(b.text)
<1>1. it \in AllItems /\ it.item = "said" /\ it.text = b.text
  BY DEF SaidItem, AllItems, SaidItems, TextBlocks
<1> HIDE DEF it
<1>2. <<it>> \in Seq(AllItems) /\ Range(<<it>>) = {it}
  BY <1>1, RangeOne
<1>3. TextsOf(<<it>>) = {b.text}
  BY <1>1, <1>2 DEF TextsOf, TextsIn
<1>4. \A id : it \notin CallsOf(id) /\ it \notin OutputsOf(id)
  BY <1>1 DEF CallsOf, OutputsOf
<1>5. \A id \in Ids : Num(<<it>>, CallsOf(id)) = 0 /\ Num(<<it>>, OutputsOf(id)) = 0
  BY <1>4, NumOne
<1> QED
  BY <1>2, <1>3, <1>5 DEF it

LEMMA UserOne ==
  ASSUME NEW c \in Seq(AllBlocks)
  PROVE  /\ <<UserItem(c)>> \in Seq(AllItems) /\ TextsOf(<<UserItem(c)>>) = TextsAt(c)
         /\ \A id \in Ids : /\ Num(<<UserItem(c)>>, CallsOf(id)) = 0
                            /\ Num(<<UserItem(c)>>, OutputsOf(id)) = 0
<1> DEFINE it == UserItem(c)
<1>1. it \in AllItems /\ it.item = "user" /\ it.content = c
  BY DEF UserItem, AllItems, UserItems
<1> HIDE DEF it
<1>2. <<it>> \in Seq(AllItems) /\ Range(<<it>>) = {it}
  BY <1>1, RangeOne
<1>3. TextsIn(it) = TextsAt(c)
  BY <1>1, TextsAre DEF TextsIn
<1>4. TextsOf(<<it>>) = TextsAt(c)
  BY <1>2, <1>3 DEF TextsOf
<1>5. \A id : it \notin CallsOf(id) /\ it \notin OutputsOf(id)
  BY <1>1 DEF CallsOf, OutputsOf
<1>6. \A id \in Ids : Num(<<it>>, CallsOf(id)) = 0 /\ Num(<<it>>, OutputsOf(id)) = 0
  BY <1>5, NumOne
<1> QED
  BY <1>2, <1>4, <1>6 DEF it

LEMMA CallOne ==
  ASSUME NEW x \in Ids, NEW name \in Names
  PROVE  /\ <<CallItem(x, name)>> \in Seq(AllItems) /\ TextsOf(<<CallItem(x, name)>>) = {}
         /\ \A id \in Ids : /\ Num(<<CallItem(x, name)>>, CallsOf(id)) = IF x = id THEN 1 ELSE 0
                            /\ Num(<<CallItem(x, name)>>, OutputsOf(id)) = 0
<1> DEFINE it == CallItem(x, name)
<1>1. it \in AllItems /\ it.item = "call" /\ it.id = x
  BY DEF CallItem, AllItems, CallItems
<1> HIDE DEF it
<1>2. <<it>> \in Seq(AllItems) /\ Range(<<it>>) = {it}
  BY <1>1, RangeOne
<1>3. TextsOf(<<it>>) = {}
  BY <1>1, <1>2 DEF TextsOf, TextsIn
<1>4. \A id : (it \in CallsOf(id) <=> x = id) /\ it \notin OutputsOf(id)
  BY <1>1 DEF CallsOf, OutputsOf
<1>5. \A id \in Ids : Num(<<it>>, CallsOf(id)) = (IF x = id THEN 1 ELSE 0) /\ Num(<<it>>, OutputsOf(id)) = 0
  BY <1>4, NumOne
<1> QED
  BY <1>2, <1>3, <1>5 DEF it

LEMMA OutputOne ==
  ASSUME NEW x \in Ids, NEW c \in Outs
  PROVE  /\ <<OutputItem(x, c)>> \in Seq(AllItems) /\ TextsOf(<<OutputItem(x, c)>>) = {}
         /\ \A id \in Ids : /\ Num(<<OutputItem(x, c)>>, CallsOf(id)) = 0
                            /\ Num(<<OutputItem(x, c)>>, OutputsOf(id)) = IF x = id THEN 1 ELSE 0
<1> DEFINE it == OutputItem(x, c)
<1>1. it \in AllItems /\ it.item = "output" /\ it.id = x
  BY DEF OutputItem, AllItems, OutputItems
<1> HIDE DEF it
<1>2. <<it>> \in Seq(AllItems) /\ Range(<<it>>) = {it}
  BY <1>1, RangeOne
<1>3. TextsOf(<<it>>) = {}
  BY <1>1, <1>2 DEF TextsOf, TextsIn
<1>4. \A id : (it \in OutputsOf(id) <=> x = id) /\ it \notin CallsOf(id)
  BY <1>1 DEF CallsOf, OutputsOf
<1>5. \A id \in Ids : Num(<<it>>, OutputsOf(id)) = (IF x = id THEN 1 ELSE 0) /\ Num(<<it>>, CallsOf(id)) = 0
  BY <1>4, NumOne
<1> QED
  BY <1>2, <1>3, <1>5 DEF it

\* What one block becomes.
BlockRenders(items, b, up) ==
  /\ items \in Seq(AllItems)
  /\ TextsOf(items) = IF b.type = "text" THEN {b.text} ELSE {}
  /\ \A id \in Ids : /\ Num(items, CallsOf(id)) = IF b.type = "tool_use" /\ up[b.id] = id THEN 1 ELSE 0
                     /\ Num(items, OutputsOf(id)) = IF b.type = "tool_result" /\ up[b.id] = id THEN 1 ELSE 0

LEMMA IdAt ==
  ASSUME NEW b \in AllBlocks, NEW type \in {"tool_use", "tool_result"}, NEW up, NEW id \in Ids
  PROVE  /\ (IF b.type = type THEN <<b.id>> ELSE << >>) \in Seq(Ids)
         /\ Num(IF b.type = type THEN <<b.id>> ELSE << >>, IdsFrom(up, id)) = IF b.type = type /\ up[b.id] = id THEN 1 ELSE 0
<1>1. CASE b.type = type
  <2>1. b.id \in Ids
    BY <1>1, BlockIs
  <2>2. <<b.id>> \in Seq(Ids)
    BY <2>1
  <2>3. b.id \in IdsFrom(up, id) <=> up[b.id] = id
    BY <2>1 DEF IdsFrom
  <2>4. Num(<<b.id>>, IdsFrom(up, id)) = IF b.id \in IdsFrom(up, id) THEN 1 ELSE 0
    BY NumOne
  <2> QED
    BY <1>1, <2>2, <2>3, <2>4
<1>2. CASE b.type # type
  <2>1. Num(<< >>, IdsFrom(up, id)) = 0
    BY NumEmpty
  <2>2. << >> \in Seq(Ids)
    OBVIOUS
  <2> QED
    BY <1>2, <2>1, <2>2
<1> QED
  BY <1>1, <1>2

LEMMA FlatRenders ==
  ASSUME NEW c \in Seq(AllBlocks), NEW up, NEW q, DOMAIN q = DOMAIN c, q = [i \in DOMAIN c |-> q[i]],
         \A i \in DOMAIN c : BlockRenders(q[i], c[i], up)
  PROVE  Renders(FlattenSeq(q), c, up)
<1> DEFINE t(type) == [i \in DOMAIN c |-> IF c[i].type = type THEN <<c[i].id>> ELSE << >>]
           Types == {"tool_use", "tool_result"}
<1>1. \A i \in DOMAIN c : c[i] \in AllBlocks
  OBVIOUS
<1>0. \A i \in DOMAIN c : q[i] \in Seq(AllItems)
  BY DEF BlockRenders
<1>2. /\ q \in Seq(Seq(AllItems)) /\ Len(q) = Len(c) /\ FlattenSeq(q) \in Seq(AllItems)
      /\ Range(FlattenSeq(q)) = UNION {Range(q[i]) : i \in DOMAIN c}
  <2>1. ListsFor(q, c, AllItems)
    BY <1>0 DEF ListsFor
  <2>2. q \in Seq(Seq(AllItems)) /\ Len(q) = Len(c)
    BY <2>1, MapIs
  <2> QED
    BY <2>2, FlattenType, FlattenHolds
<1>3. DOMAIN c = 1..Len(c)
  OBVIOUS
<1>4. ASSUME NEW type \in Types PROVE t(type) \in Seq(Seq(Ids)) /\ Len(t(type)) = Len(c) /\ FlattenSeq(t(type)) = IdsAt(c, type)
  <2>1. \A i \in DOMAIN c : (IF c[i].type = type THEN <<c[i].id>> ELSE << >>) \in Seq(Ids)
    <3> SUFFICES ASSUME NEW i \in DOMAIN c PROVE (IF c[i].type = type THEN <<c[i].id>> ELSE << >>) \in Seq(Ids)
      OBVIOUS
    <3> DEFINE b == c[i]
    <3>1. b \in AllBlocks
      BY <1>1
    <3> HIDE DEF b
    <3>2. CASE b.type = type
      <4>1. b.id \in Ids
        BY <3>1, <3>2, BlockIs
      <4>2. <<b.id>> \in Seq(Ids)
        BY <4>1
      <4> QED
        BY <3>2, <4>2 DEF b
    <3>3. CASE b.type # type
      <4>1. << >> \in Seq(Ids)
        OBVIOUS
      <4> QED
        BY <3>3, <4>1 DEF b
    <3> QED
      BY <3>2, <3>3
  <2> DEFINE s == t(type)
  <2>2. DOMAIN s = DOMAIN c /\ s = [i \in DOMAIN c |-> s[i]] /\ \A i \in DOMAIN c : s[i] \in Seq(Ids)
    BY <2>1
  <2>3. FlattenSeq(s) = IdsAt(c, type)
    BY DEF IdsAt
  <2> HIDE DEF s
  <2>4. s \in Seq(Seq(Ids)) /\ Len(s) = Len(c)
    <3>1. ListsFor(s, c, Ids)
      BY <2>2 DEF ListsFor
    <3> QED
      BY <3>1, MapIs
  <2> QED
    BY <2>3, <2>4 DEF s
<1>5. ASSUME NEW id \in Ids, NEW type \in Types, NEW G, \A i \in DOMAIN c : Num(q[i], G) = IF c[i].type = type /\ up[c[i].id] = id THEN 1 ELSE 0
      PROVE  Num(FlattenSeq(q), G) = Num(IdsAt(c, type), IdsFrom(up, id))
  <2> DEFINE s == t(type)
  <2>1. ASSUME NEW i \in 1..Len(q) PROVE Num(q[i], G) = Num(s[i], IdsFrom(up, id))
    <3>1. i \in DOMAIN c /\ c[i] \in AllBlocks
      BY <1>1, <1>2, <1>3
    <3>2. s[i] = IF c[i].type = type THEN <<c[i].id>> ELSE << >>
      BY <3>1
    <3> HIDE DEF s
    <3>3. Num(IF c[i].type = type THEN <<c[i].id>> ELSE << >>, IdsFrom(up, id)) = IF c[i].type = type /\ up[c[i].id] = id THEN 1 ELSE 0
      BY <3>1, IdAt
    <3> QED
      BY <1>5, <3>1, <3>2, <3>3
  <2>2. s \in Seq(Seq(Ids)) /\ Len(q) = Len(s) /\ FlattenSeq(s) = IdsAt(c, type)
    BY <1>2, <1>4
  <2> DEFINE H == IdsFrom(up, id)
  <2>3. \A i \in 1..Len(q) : Num(q[i], G) = Num(s[i], H)
    BY <2>1
  <2>4. q \in Seq(Seq(AllItems))
    BY <1>2
  <2> HIDE DEF s, H
  <2>5. Num(FlattenSeq(q), G) = Num(FlattenSeq(s), H)
    <3>1. CountEqually(q, G, s, H)
      BY <2>2, <2>3 DEF CountEqually
    <3> QED
      BY <2>2, <2>4, <3>1, FlattenCounts
  <2> QED
    BY <2>2, <2>5 DEF H
<1>6. ASSUME NEW id \in Ids
      PROVE  /\ Num(FlattenSeq(q), CallsOf(id)) = Num(IdsAt(c, "tool_use"), IdsFrom(up, id))
             /\ Num(FlattenSeq(q), OutputsOf(id)) = Num(IdsAt(c, "tool_result"), IdsFrom(up, id))
  <2>1. \A i \in DOMAIN c :
          /\ Num(q[i], CallsOf(id)) = IF c[i].type = "tool_use" /\ up[c[i].id] = id THEN 1 ELSE 0
          /\ Num(q[i], OutputsOf(id)) = IF c[i].type = "tool_result" /\ up[c[i].id] = id THEN 1 ELSE 0
    BY <1>6 DEF BlockRenders
  <2>2. "tool_use" \in Types /\ "tool_result" \in Types
    OBVIOUS
  <2> HIDE DEF Types
  <2> QED
    BY <1>5, <2>1, <2>2
<1>7. TextsOf(FlattenSeq(q)) = TextsAt(c)
  <2>1. TextsOf(FlattenSeq(q)) = UNION {TextsOf(q[i]) : i \in DOMAIN c}
    <3> DEFINE f == FlattenSeq(q)
    <3>1. \A it : it \in Range(f) <=> \E i \in DOMAIN c : it \in Range(q[i])
      BY <1>2
    <3> HIDE DEF f
    <3>2. UNION {TextsIn(it) : it \in Range(f)} = UNION {UNION {TextsIn(it) : it \in Range(q[i])} : i \in DOMAIN c}
      BY <3>1
    <3> QED
      BY <3>2 DEF f, TextsOf
  <2>2. \A i \in DOMAIN c : TextsOf(q[i]) = IF c[i].type = "text" THEN {c[i].text} ELSE {}
    BY DEF BlockRenders
  <2>3. TextsAt(c) = UNION {IF c[i].type = "text" THEN {c[i].text} ELSE {} : i \in DOMAIN c}
    BY DEF TextsAt, Range
  <2> QED
    BY <2>1, <2>2, <2>3
<1> QED
  BY <1>2, <1>6, <1>7 DEF Renders

-----------------------------------------------------------------------------
(* What each protocol makes of a message                                   *)

LEMMA TruncateIs ==
  ASSUME NEW n \in Names
  PROVE  /\ Truncate(n) \in Names
         /\ Truncate(n) # n => n \in Offered /\ Truncate(n)[1] = "shortened"
<1>1. PICK t \in Tools : n = <<"tool", t>> \/ n = <<"shortened", t>>
  BY DEF Names, Offered, Named
<1>2. n[2] = t
  BY <1>1
<1>3. CASE t \in LongNames
  <2>1. Truncate(n) = <<"shortened", t>>
    BY <1>2, <1>3 DEF Truncate
  <2>2. Truncate(n) \in Names /\ Truncate(n)[1] = "shortened"
    BY <2>1 DEF Names
  <2>3. n # <<"shortened", t>> => n \in Offered
    BY <1>1 DEF Offered, Named
  <2> QED
    BY <2>1, <2>2, <2>3
<1>4. CASE t \notin LongNames
  BY <1>2, <1>4 DEF Truncate
<1> QED
  BY <1>3, <1>4

LEMMA UpstreamAt ==
  ASSUME NEW provider, NEW id \in Ids
  PROVE  /\ Upstream(provider)[id] \in Ids
         /\ Upstream(provider)[id] = IF provider = "direct" THEN id ELSE ToUpstream(id)
BY UpstreamIs DEF Upstream

\* What a tool gave, as it is or its texts alone, may be sent.
LEMMA GivenIs ==
  ASSUME NEW c \in Given
  PROVE  /\ c \in Outs /\ Texts(c) \in Outs
         /\ OfType(c, "image") \in Seq(AllBlocks) /\ TextsAt(OfType(c, "image")) = {}
<1>1. /\ c \in Seq(ShownBlocks) /\ c # << >> /\ c[1] \in TextBlocks
      /\ \A b \in Range(c) : b.type = "text" => b.text[1] # "duplicate of"
  BY DEF Given
<1>2. \A b \in TextBlocks : b.type = "text"
  BY DEF TextBlocks
<1>3. c \in Outs
  <2>1. c[1] \in Range(c)
    BY <1>1, NotEmpty, InRange
  <2>2. c[1].text[1] # "duplicate of"
    BY <1>1, <1>2, <2>1
  <2> QED
    BY <1>1, <2>2 DEF Outs
<1>4. /\ Texts(c) \in Seq({b \in ShownBlocks : b.type = "text"})
      /\ Range(Texts(c)) = {b \in Range(c) : b.type = "text"}
  <2>1. OfType(c, "text") \in Seq(Typed(ShownBlocks, "text")) /\ Range(OfType(c, "text")) = Typed(Range(c), "text")
    BY <1>1, OfTypeTyped
  <2> QED
    BY <2>1 DEF Texts, Typed
<1>5. {b \in ShownBlocks : b.type = "text"} \subseteq ShownBlocks /\ {b \in ShownBlocks : b.type = "text"} \subseteq TextBlocks
  BY DEF ShownBlocks, ImageBlocks
<1>6. Texts(c) \in Outs
  <2> DEFINE t == Texts(c)
  <2>1. t \in Seq(ShownBlocks)
    BY <1>4, <1>5, SeqMonotonic
  <2>2. t \in Seq(TextBlocks)
    BY <1>4, <1>5, SeqMonotonic
  <2>3. \A b \in Range(t) : b.text[1] # "duplicate of"
    BY <1>1, <1>4
  <2> HIDE DEF t
  <2>4. t # << >> => t[1] \in TextBlocks /\ t[1] \in Range(t)
    BY <2>2, NotEmpty, InRange
  <2> QED
    BY <2>1, <2>3, <2>4 DEF Outs, t
<1>7. /\ OfType(c, "image") \in Seq({b \in ShownBlocks : b.type = "image"})
      /\ Range(OfType(c, "image")) = {b \in Range(c) : b.type = "image"}
  <2>1. OfType(c, "image") \in Seq(Typed(ShownBlocks, "image")) /\ Range(OfType(c, "image")) = Typed(Range(c), "image")
    BY <1>1, OfTypeTyped
  <2> QED
    BY <2>1 DEF Typed
<1>8. {b \in ShownBlocks : b.type = "image"} \subseteq AllBlocks
  BY DEF AllBlocks
<1>9. OfType(c, "image") \in Seq(AllBlocks)
  BY <1>7, <1>8, SeqMonotonic
<1>10. TextsAt(OfType(c, "image")) = {}
  BY <1>7 DEF TextsAt
<1> QED
  BY <1>3, <1>6, <1>9, <1>10

LEMMA SaidRenders ==
  ASSUME NEW b \in TextBlocks, NEW up
  PROVE  BlockRenders(<<SaidItem(b.text)>>, b, up)
<1>1. b.type = "text"
  BY DEF TextBlocks
<1> QED
  BY <1>1, SaidOne DEF BlockRenders

LEMMA UserRenders ==
  ASSUME NEW b \in ShownBlocks, NEW up
  PROVE  BlockRenders(<<UserItem(<<b>>)>>, b, up)
<1> DEFINE c == <<b>>
<1>1. b \in AllBlocks /\ b.type # "tool_use" /\ b.type # "tool_result"
  BY DEF AllBlocks, ShownBlocks, TextBlocks, ImageBlocks
<1>2. c \in Seq(AllBlocks) /\ Range(c) = {b}
  BY <1>1, RangeOne
<1>3. TextsAt(c) = IF b.type = "text" THEN {b.text} ELSE {}
  <2> HIDE DEF c
  <2> QED
    BY <1>2 DEF TextsAt
<1> HIDE DEF c
<1>4. /\ <<UserItem(c)>> \in Seq(AllItems) /\ TextsOf(<<UserItem(c)>>) = TextsAt(c)
      /\ \A id \in Ids : /\ Num(<<UserItem(c)>>, CallsOf(id)) = 0
                         /\ Num(<<UserItem(c)>>, OutputsOf(id)) = 0
  BY <1>2, UserOne
<1>5. BlockRenders(<<UserItem(c)>>, b, up)
  BY <1>1, <1>3, <1>4 DEF BlockRenders
<1> QED
  BY <1>5 DEF c

LEMMA CallRenders ==
  ASSUME NEW b \in UseBlocks, NEW up, NEW x \in Ids, up[b.id] = x, NEW name \in Names
  PROVE  BlockRenders(<<CallItem(x, name)>>, b, up)
<1>1. b.type = "tool_use"
  BY DEF UseBlocks
<1> QED
  BY <1>1, CallOne DEF BlockRenders

LEMMA OutputRenders ==
  ASSUME NEW b \in ResultBlocks, NEW up, NEW x \in Ids, up[b.id] = x, NEW c \in Outs
  PROVE  BlockRenders(<<OutputItem(x, c)>>, b, up)
<1>1. b.type = "tool_result"
  BY DEF ResultBlocks
<1> QED
  BY <1>1, OutputOne DEF BlockRenders

LEMMA OutputImagesRender ==
  ASSUME NEW b \in ResultBlocks, NEW up, NEW x \in Ids, up[b.id] = x, NEW c \in Outs,
         NEW d \in Seq(AllBlocks), TextsAt(d) = {}
  PROVE  BlockRenders(Join(<<OutputItem(x, c)>>, <<UserItem(d)>>), b, up)
<1> DEFINE i == <<OutputItem(x, c)>>
           j == <<UserItem(d)>>
<1>1. b.type = "tool_result"
  BY DEF ResultBlocks
<1>2. /\ i \in Seq(AllItems) /\ TextsOf(i) = {}
      /\ \A id \in Ids : Num(i, CallsOf(id)) = 0 /\ Num(i, OutputsOf(id)) = IF x = id THEN 1 ELSE 0
  BY OutputOne
<1>3. /\ j \in Seq(AllItems) /\ TextsOf(j) = {}
      /\ \A id \in Ids : Num(j, CallsOf(id)) = 0 /\ Num(j, OutputsOf(id)) = 0
  BY UserOne
<1> HIDE DEF i, j
<1>4. Join(i, j) \in Seq(AllItems) /\ TextsOf(Join(i, j)) = {}
  <2>1. Join(i, j) \in Seq(AllItems)
    BY <1>2, <1>3, JoinIs
  <2>2. TextsOf(Join(i, j)) = TextsOf(i) \cup TextsOf(j)
    BY <1>2, <1>3, TextsOfJoin
  <2> QED
    BY <1>2, <1>3, <2>1, <2>2
<1>5. \A G : Num(Join(i, j), G) = Num(i, G) + Num(j, G)
  BY <1>2, <1>3, NumJoin
<1>6. BlockRenders(Join(i, j), b, up)
  BY <1>1, <1>2, <1>3, <1>4, <1>5 DEF BlockRenders
<1> QED
  BY <1>6 DEF i, j

\* The blocks of one type alone have its ids and no others.
LEMMA IdsAtNone ==
  ASSUME NEW c \in Seq(AllBlocks), NEW type \in {"tool_use", "tool_result"}, \A b \in Range(c) : b.type # type
  PROVE  IdsAt(c, type) = << >>
<1>1. IdsAt(c, type) \in Seq(Ids) /\ Range(IdsAt(c, type)) = {b.id : b \in {b \in Range(c) : b.type = type}}
  BY IdsAtIs
<1> DEFINE q == IdsAt(c, type)
<1>2. Range(q) = {} /\ q \in Seq(Ids)
  BY <1>1
<1> HIDE DEF q
<1>3. q # << >> => q[1] \in Range(q)
  BY <1>2, NotEmpty, InRange
<1> QED
  BY <1>2, <1>3 DEF q

LEMMA PartIs ==
  ASSUME NEW c \in Seq(AllBlocks), NEW type \in {"text", "tool_use", "tool_result"}
  PROVE  /\ OfType(c, type) \in Seq(AllBlocks)
         /\ \A i \in DOMAIN OfType(c, type) : OfType(c, type)[i] \in AllBlocks /\ OfType(c, type)[i].type = type
         /\ TextsAt(OfType(c, type)) = IF type = "text" THEN TextsAt(c) ELSE {}
         /\ \A ids \in {"tool_use", "tool_result"} :
              IdsAt(OfType(c, type), ids) = IF ids = type THEN IdsAt(c, ids) ELSE << >>
<1> DEFINE o == OfType(c, type)
           T == {b \in AllBlocks : b.type = type}
<1>1. o \in Seq(T) /\ Range(o) = {b \in Range(c) : b.type = type}
  BY OfTypeIs
<1>2. T \subseteq AllBlocks /\ \A b \in T : b.type = type
  OBVIOUS
<1> HIDE DEF T
<1>3. o \in Seq(AllBlocks)
  BY <1>1, <1>2, SeqMonotonic
<1>4. \A i \in DOMAIN o : o[i] \in AllBlocks /\ o[i].type = type
  BY <1>1, <1>2
<1>5. TextsAt(o) = IF type = "text" THEN TextsAt(c) ELSE {}
  BY <1>1 DEF TextsAt
<1>6. ASSUME NEW ids \in {"tool_use", "tool_result"}
      PROVE  IdsAt(o, ids) = IF ids = type THEN IdsAt(c, ids) ELSE << >>
  <2>1. CASE ids # type
    <3>1. \A b \in Range(o) : b.type # ids
      BY <1>1, <2>1
    <3> HIDE DEF o
    <3>2. IdsAt(o, ids) = << >>
      BY <1>3, <3>1, IdsAtNone
    <3> QED
      BY <2>1, <3>2
  <2>2. CASE ids = type
    <3>1. IdsAt(c, type) = [i \in DOMAIN o |-> o[i].id]
      BY <2>2, IdsAtIs
    <3> HIDE DEF o
    <3>2. IdsAt(o, type) = FlattenSeq([i \in DOMAIN o |-> <<o[i].id>>])
      BY <1>4 DEF IdsAt
    <3> DEFINE q == [i \in DOMAIN o |-> o[i].id]
    <3>3. q \in Seq(Ids)
      <4>1. \A i \in DOMAIN o : o[i].id \in Ids
        BY <1>4, <2>2, BlockIs
      <4>2. Len(o) \in Nat /\ DOMAIN o = 1..Len(o)
        BY <1>3
      <4>3. q \in [1..Len(o) -> Ids]
        BY <4>1, <4>2
      <4> HIDE DEF q
      <4> QED
        BY <4>2, <4>3, ListOf
    <3>4. [i \in DOMAIN o |-> <<o[i].id>>] = [i \in DOMAIN q |-> <<q[i]>>]
      OBVIOUS
    <3> HIDE DEF q
    <3>5. FlattenSeq([i \in DOMAIN q |-> <<q[i]>>]) = q
      BY <3>3, FlattenSingles
    <3>6. IdsAt(o, type) = IdsAt(c, type)
      BY <3>1, <3>2, <3>4, <3>5 DEF q
    <3> QED
      BY <2>2, <3>6
  <2> QED
    BY <2>1, <2>2
<1> QED
  BY <1>3, <1>4, <1>5, <1>6

LEMMA RendersJoin ==
  ASSUME NEW c, NEW c1, NEW c2, NEW up, NEW i, NEW j, Renders(i, c1, up), Renders(j, c2, up),
         TextsAt(c) = TextsAt(c1) \cup TextsAt(c2),
         \A type \in {"tool_use", "tool_result"} :
           \/ IdsAt(c, type) = IdsAt(c1, type) /\ IdsAt(c2, type) = << >>
           \/ IdsAt(c, type) = IdsAt(c2, type) /\ IdsAt(c1, type) = << >>
  PROVE  Renders(Join(i, j), c, up)
<1>1. i \in Seq(AllItems) /\ j \in Seq(AllItems) /\ TextsOf(i) = TextsAt(c1) /\ TextsOf(j) = TextsAt(c2)
  BY DEF Renders
<1>2. Join(i, j) \in Seq(AllItems)
  BY <1>1, JoinIs
<1>3. TextsOf(Join(i, j)) = TextsAt(c)
  <2>1. TextsOf(Join(i, j)) = TextsOf(i) \cup TextsOf(j)
    BY <1>1, TextsOfJoin
  <2> QED
    BY <1>1, <2>1
<1>4. ASSUME NEW id \in Ids
      PROVE  /\ Num(Join(i, j), CallsOf(id)) = Num(IdsAt(c, "tool_use"), IdsFrom(up, id))
             /\ Num(Join(i, j), OutputsOf(id)) = Num(IdsAt(c, "tool_result"), IdsFrom(up, id))
  <2> DEFINE F == IdsFrom(up, id)
  <2>1. /\ Num(i, CallsOf(id)) = Num(IdsAt(c1, "tool_use"), F) /\ Num(j, CallsOf(id)) = Num(IdsAt(c2, "tool_use"), F)
        /\ Num(i, OutputsOf(id)) = Num(IdsAt(c1, "tool_result"), F) /\ Num(j, OutputsOf(id)) = Num(IdsAt(c2, "tool_result"), F)
    BY <1>4 DEF Renders
  <2> HIDE DEF F
  <2>2. \A G : /\ Num(Join(i, j), G) = Num(i, G) + Num(j, G)
               /\ Num(i, G) \in Nat /\ Num(j, G) \in Nat
    BY <1>1, NumJoin, NumNone
  <2>3. Num(<< >>, F) = 0
    BY NumEmpty
  <2>4. \/ IdsAt(c, "tool_use") = IdsAt(c1, "tool_use") /\ IdsAt(c2, "tool_use") = << >>
        \/ IdsAt(c, "tool_use") = IdsAt(c2, "tool_use") /\ IdsAt(c1, "tool_use") = << >>
    OBVIOUS
  <2>5. \/ IdsAt(c, "tool_result") = IdsAt(c1, "tool_result") /\ IdsAt(c2, "tool_result") = << >>
        \/ IdsAt(c, "tool_result") = IdsAt(c2, "tool_result") /\ IdsAt(c1, "tool_result") = << >>
    OBVIOUS
  <2>6. Num(Join(i, j), CallsOf(id)) = Num(IdsAt(c, "tool_use"), F)
    BY <2>1, <2>2, <2>3, <2>4
  <2>7. Num(Join(i, j), OutputsOf(id)) = Num(IdsAt(c, "tool_result"), F)
    BY <2>1, <2>2, <2>3, <2>5
  <2> QED
    BY <2>6, <2>7 DEF F
<1> QED
  BY <1>2, <1>3, <1>4 DEF Renders

\* A message of the user's that is one item.
LEMMA UserMessageRenders ==
  ASSUME NEW c \in Seq(AllBlocks), NEW up, \A b \in Range(c) : b.type \notin {"tool_use", "tool_result"}
  PROVE  Renders(<<UserItem(c)>>, c, up)
<1>1. IdsAt(c, "tool_use") = << >>
  <2>1. \A b \in Range(c) : b.type # "tool_use"
    OBVIOUS
  <2> QED
    BY <2>1, IdsAtNone
<1>2. IdsAt(c, "tool_result") = << >>
  <2>1. \A b \in Range(c) : b.type # "tool_result"
    OBVIOUS
  <2> QED
    BY <2>1, IdsAtNone
<1>3. /\ <<UserItem(c)>> \in Seq(AllItems) /\ TextsOf(<<UserItem(c)>>) = TextsAt(c)
      /\ \A id \in Ids : Num(<<UserItem(c)>>, CallsOf(id)) = 0 /\ Num(<<UserItem(c)>>, OutputsOf(id)) = 0
  BY UserOne
<1>4. \A id \in Ids : Num(<< >>, IdsFrom(up, id)) = 0
  BY NumEmpty
<1> QED
  BY <1>1, <1>2, <1>3, <1>4 DEF Renders

\* An assistant's message, each block an item.
LEMMA AssistantRenders ==
  ASSUME NEW m \in Messages, m.role = "assistant"
  PROVE  Renders(ResponsesItems(m), m.content, Upstream("responses"))
<1> DEFINE up == Upstream("responses")
           c == m.content
           q == [i \in DOMAIN c |-> IF c[i].type = "text" THEN <<SaidItem(c[i].text)>>
                                    ELSE <<CallItem(ToUpstream(c[i].id), Truncate(c[i].name))>>]
<1>2. c \in Seq(TextBlocks \cup UseBlocks) /\ c \in Seq(AllBlocks)
  BY MessageIs
<1>0. ~Holds(m.content, "tool_result")
  <2>1. \A i \in DOMAIN c : c[i] \in TextBlocks \cup UseBlocks
    BY <1>2
  <2> QED
    BY <2>1 DEF Holds, TextBlocks, UseBlocks
<1>1. ResponsesItems(m) = FlattenSeq(q)
  BY <1>0 DEF ResponsesItems, FlatMap
<1>3. ASSUME NEW i \in DOMAIN c PROVE BlockRenders(q[i], c[i], up)
  <2> DEFINE b == c[i]
  <2>1. b \in TextBlocks \cup UseBlocks
    BY <1>2
  <2>2. q[i] = IF b.type = "text" THEN <<SaidItem(b.text)>> ELSE <<CallItem(ToUpstream(b.id), Truncate(b.name))>>
    OBVIOUS
  <2> HIDE DEF b, q, up
  <2>3. CASE b \in TextBlocks
    <3>1. b.type = "text"
      BY <2>3 DEF TextBlocks
    <3>2. q[i] = <<SaidItem(b.text)>>
      BY <2>2, <3>1
    <3> QED
      BY <2>3, <3>2, SaidRenders DEF b
  <2>4. CASE b \in UseBlocks
    <3>1. b.type = "tool_use" /\ b.id \in Ids /\ b.name \in Names
      BY <2>4 DEF UseBlocks
    <3>2. q[i] = <<CallItem(ToUpstream(b.id), Truncate(b.name))>>
      BY <2>2, <3>1
    <3>3. up[b.id] = ToUpstream(b.id) /\ ToUpstream(b.id) \in Ids
      BY <3>1, UpstreamIs DEF up, Upstream
    <3>4. Truncate(b.name) \in Names
      BY <3>1, TruncateIs
    <3>5. BlockRenders(<<CallItem(ToUpstream(b.id), Truncate(b.name))>>, b, up)
      BY <2>4, <3>3, <3>4, CallRenders
    <3> QED
      BY <3>2, <3>5 DEF b
  <2> QED
    BY <2>1, <2>3, <2>4
<1>4. DOMAIN q = DOMAIN c /\ q = [i \in DOMAIN c |-> q[i]]
  OBVIOUS
<1> HIDE DEF q, up, c
<1>5. Renders(FlattenSeq(q), c, up)
  BY <1>2, <1>3, <1>4, FlatRenders
<1> QED
  BY <1>1, <1>5 DEF c, up

LEMMA UserBlocksAre ==
  ASSUME NEW m \in Messages, m.role = "user"
  PROVE  /\ m.content \in Seq(AllBlocks) /\ \A b \in Range(m.content) : b.type # "tool_use"
         /\ ~Holds(m.content, "tool_result") => \A b \in Range(m.content) : b.type # "tool_result"
         /\ \A i \in DOMAIN m.content : m.content[i] \in ShownBlocks \cup ResultBlocks
<1>1. m.content \in Seq(AllBlocks) /\ m.content \in Seq(ShownBlocks \cup ResultBlocks)
  BY MessageIs
<1>2. \A b \in ShownBlocks \cup ResultBlocks : b.type # "tool_use"
  BY DEF ShownBlocks, TextBlocks, ImageBlocks, ResultBlocks
<1>3. \A b \in Range(m.content) : b \in ShownBlocks \cup ResultBlocks
  BY <1>1, InRange
<1>4. ~Holds(m.content, "tool_result") => \A b \in Range(m.content) : b.type # "tool_result"
  BY DEF Holds, Range
<1>5. \A i \in DOMAIN m.content : m.content[i] \in ShownBlocks \cup ResultBlocks
  BY <1>1
<1> QED
  BY <1>1, <1>2, <1>3, <1>4, <1>5

\* What of a message reaches an upstream: its texts but those beside a result on their way to
\* the Responses API, and each call and result under the upstream's id.
Arrives(items, m, provider) ==
  /\ items \in Seq(AllItems)
  /\ TextsOf(items) \subseteq TextsAt(m.content)
  /\ TextsAt(m.content) \subseteq TextsOf(items) \/ (provider = "responses" /\ Holds(m.content, "tool_result"))
  /\ \A id \in Ids : /\ Num(items, CallsOf(id)) = Num(CallIds(m), IdsFrom(Upstream(provider), id))
                     /\ Num(items, OutputsOf(id)) = Num(ResultIds(m), IdsFrom(Upstream(provider), id))

LEMMA RendersArrives ==
  ASSUME NEW items, NEW m, NEW provider, Renders(items, m.content, Upstream(provider))
  PROVE  Arrives(items, m, provider)
<1>1. /\ items \in Seq(AllItems) /\ TextsOf(items) = TextsAt(m.content)
      /\ \A id \in Ids : /\ Num(items, CallsOf(id)) = Num(CallIds(m), IdsFrom(Upstream(provider), id))
                         /\ Num(items, OutputsOf(id)) = Num(ResultIds(m), IdsFrom(Upstream(provider), id))
  BY DEF Renders, CallIds, ResultIds
<1>2. TextsOf(items) \subseteq TextsAt(m.content) /\ TextsAt(m.content) \subseteq TextsOf(items)
  BY <1>1
<1>3. TextsAt(m.content) \subseteq TextsOf(items) \/ (provider = "responses" /\ Holds(m.content, "tool_result"))
  BY <1>2
<1> QED
  BY <1>1, <1>2, <1>3 DEF Arrives

LEMMA ResponsesArrives ==
  ASSUME NEW m \in Messages
  PROVE  Arrives(ResponsesItems(m), m, "responses")
<1> DEFINE up == Upstream("responses")
           c == m.content
<1>1. CASE m.role = "assistant"
  BY <1>1, AssistantRenders, RendersArrives
<1>2. CASE m.role = "user" /\ ~Holds(c, "tool_result")
  <2>1. c \in Seq(AllBlocks) /\ \A b \in Range(c) : b.type \notin {"tool_use", "tool_result"}
    BY <1>2, UserBlocksAre
  <2>2. ResponsesItems(m) = <<UserItem(c)>>
    BY <1>2 DEF ResponsesItems
  <2> HIDE DEF c, up
  <2>3. Renders(<<UserItem(c)>>, c, up)
    BY <2>1, UserMessageRenders
  <2> QED
    BY <2>2, <2>3, RendersArrives DEF c, up
<1>3. CASE m.role = "user" /\ Holds(c, "tool_result")
  <2> DEFINE o == OfType(c, "tool_result")
             Result(b) == <<OutputItem(ToUpstream(b.id), Texts(b.content))>> \o
                          (IF Holds(b.content, "image") THEN <<UserItem(OfType(b.content, "image"))>> ELSE << >>)
             q == [i \in DOMAIN o |-> Result(o[i])]
  <2>1. c \in Seq(AllBlocks) /\ \A b \in Range(c) : b.type # "tool_use"
    BY <1>3, UserBlocksAre
  <2>2. ResponsesItems(m) = FlattenSeq(q)
    BY <1>3 DEF ResponsesItems, FlatMap
  <2> HIDE DEF c
  <2>3. /\ o \in Seq(AllBlocks) /\ \A i \in DOMAIN o : o[i] \in AllBlocks /\ o[i].type = "tool_result"
        /\ TextsAt(o) = {}
        /\ IdsAt(o, "tool_use") = << >> /\ IdsAt(o, "tool_result") = IdsAt(c, "tool_result")
    BY <2>1, PartIs
  <2>4. IdsAt(c, "tool_use") = << >>
    BY <2>1, IdsAtNone
  <2> HIDE DEF o, up
  <2>5. ASSUME NEW b \in ResultBlocks PROVE BlockRenders(Result(b), b, up)
    <3>1. b.id \in Ids /\ b.content \in Given
      BY DEF ResultBlocks
    <3> DEFINE x == ToUpstream(b.id)
               t == Texts(b.content)
               d == OfType(b.content, "image")
    <3>2. up[b.id] = x /\ x \in Ids
      BY <3>1, UpstreamIs DEF up, Upstream
    <3>3. t \in Outs /\ d \in Seq(AllBlocks) /\ TextsAt(d) = {}
      BY <3>1, GivenIs
    <3> HIDE DEF x, t, d
    <3>4. BlockRenders(<<OutputItem(x, t)>>, b, up) /\ BlockRenders(Join(<<OutputItem(x, t)>>, <<UserItem(d)>>), b, up)
      BY <3>2, <3>3, OutputRenders, OutputImagesRender
    <3>5. <<OutputItem(x, t)>> \in Seq(AllItems)
      BY <3>2, <3>3, OutputOne
    <3>6. Join(<<OutputItem(x, t)>>, << >>) = <<OutputItem(x, t)>>
      BY <3>5, JoinIs
    <3>7. Result(b) = IF Holds(b.content, "image") THEN Join(<<OutputItem(x, t)>>, <<UserItem(d)>>)
                      ELSE Join(<<OutputItem(x, t)>>, << >>)
      BY DEF Join, x, t, d
    <3> HIDE DEF Result
    <3> QED
      BY <3>4, <3>6, <3>7
  <2>6. \A i \in DOMAIN o : o[i] \in ResultBlocks
    BY <2>3, BlockIs
  <2>7. DOMAIN q = DOMAIN o /\ q = [i \in DOMAIN o |-> q[i]] /\ \A i \in DOMAIN o : q[i] = Result(o[i])
    OBVIOUS
  <2> HIDE DEF Result, q
  <2>8. \A i \in DOMAIN o : BlockRenders(q[i], o[i], up)
    BY <2>5, <2>6, <2>7
  <2>9. Renders(FlattenSeq(q), o, up)
    BY <2>3, <2>7, <2>8, FlatRenders
  <2>10. /\ FlattenSeq(q) \in Seq(AllItems) /\ TextsOf(FlattenSeq(q)) = {}
         /\ \A id \in Ids : /\ Num(FlattenSeq(q), CallsOf(id)) = Num(IdsAt(c, "tool_use"), IdsFrom(up, id))
                            /\ Num(FlattenSeq(q), OutputsOf(id)) = Num(IdsAt(c, "tool_result"), IdsFrom(up, id))
    BY <2>3, <2>4, <2>9 DEF Renders
  <2> QED
    BY <1>3, <2>2, <2>10 DEF Arrives, CallIds, ResultIds, c, up
<1> QED
  BY <1>1, <1>2, <1>3, MessageIs

LEMMA ChatArrives ==
  ASSUME NEW m \in Messages
  PROVE  Arrives(ChatItems(m), m, "chat")
<1> DEFINE up == Upstream("chat")
           c == m.content
           t == Texts(c)
           u == OfType(c, "tool_use")
           r == OfType(c, "tool_result")
<1>1. c \in Seq(AllBlocks)
  BY MessageIs
<1>2. /\ t \in Seq(AllBlocks) /\ \A i \in DOMAIN t : t[i] \in AllBlocks /\ t[i].type = "text"
      /\ TextsAt(t) = TextsAt(c) /\ IdsAt(t, "tool_use") = << >> /\ IdsAt(t, "tool_result") = << >>
  <2> HIDE DEF c
  <2> QED
    BY <1>1, PartIs DEF Texts
<1>3. /\ u \in Seq(AllBlocks) /\ \A i \in DOMAIN u : u[i] \in AllBlocks /\ u[i].type = "tool_use"
      /\ TextsAt(u) = {} /\ IdsAt(u, "tool_use") = IdsAt(c, "tool_use") /\ IdsAt(u, "tool_result") = << >>
  <2> HIDE DEF c
  <2> QED
    BY <1>1, PartIs
<1>4. /\ r \in Seq(AllBlocks) /\ \A i \in DOMAIN r : r[i] \in AllBlocks /\ r[i].type = "tool_result"
      /\ TextsAt(r) = {} /\ IdsAt(r, "tool_use") = << >> /\ IdsAt(r, "tool_result") = IdsAt(c, "tool_result")
  <2> HIDE DEF c
  <2> QED
    BY <1>1, PartIs
<1>5. CASE m.role = "assistant"
  <2> DEFINE q == [i \in DOMAIN t |-> <<SaidItem(t[i].text)>>]
             v == [i \in DOMAIN u |-> <<CallItem(ToUpstream(u[i].id), Truncate(u[i].name))>>]
  <2>1. \A b \in Range(c) : b.type # "tool_result"
    <3>1. c \in Seq(TextBlocks \cup UseBlocks)
      BY <1>5, MessageIs
    <3>2. \A b \in Range(c) : b \in TextBlocks \cup UseBlocks
      <4> HIDE DEF c
      <4> QED
        BY <3>1, InRange
    <3> QED
      BY <3>2 DEF TextBlocks, UseBlocks
  <2>2. ~Holds(c, "tool_result")
    BY <2>1 DEF Holds, Range
  <2>3. ChatItems(m) = Join(FlattenSeq(q), FlattenSeq(v))
    BY <1>5, <2>2 DEF ChatItems, FlatMap, Join
  <2>4. IdsAt(c, "tool_result") = << >>
    <3> HIDE DEF c
    <3> QED
      BY <1>1, <2>1, IdsAtNone
  <2> HIDE DEF c, t, u, r, up
  <2>5. ASSUME NEW i \in DOMAIN t PROVE BlockRenders(q[i], t[i], up)
    <3>1. t[i] \in TextBlocks
      BY <1>2, BlockIs
    <3>2. q[i] = <<SaidItem(t[i].text)>>
      OBVIOUS
    <3> HIDE DEF q
    <3> QED
      BY <3>1, <3>2, SaidRenders
  <2>6. ASSUME NEW i \in DOMAIN u PROVE BlockRenders(v[i], u[i], up)
    <3> DEFINE b == u[i]
    <3>1. b \in UseBlocks
      BY <1>3, BlockIs
    <3>2. v[i] = <<CallItem(ToUpstream(b.id), Truncate(b.name))>>
      OBVIOUS
    <3> HIDE DEF v, b
    <3>3. b.id \in Ids /\ b.name \in Names
      BY <3>1 DEF UseBlocks
    <3>4. up[b.id] = ToUpstream(b.id) /\ ToUpstream(b.id) \in Ids
      BY <3>3, UpstreamIs DEF up, Upstream
    <3>5. Truncate(b.name) \in Names
      BY <3>3, TruncateIs
    <3>6. BlockRenders(<<CallItem(ToUpstream(b.id), Truncate(b.name))>>, b, up)
      BY <3>1, <3>4, <3>5, CallRenders
    <3> QED
      BY <3>2, <3>6 DEF b
  <2>7. DOMAIN q = DOMAIN t /\ q = [i \in DOMAIN t |-> q[i]] /\ DOMAIN v = DOMAIN u /\ v = [i \in DOMAIN u |-> v[i]]
    OBVIOUS
  <2> HIDE DEF q, v
  <2>8. Renders(FlattenSeq(q), t, up)
    BY <1>2, <2>5, <2>7, FlatRenders
  <2>9. Renders(FlattenSeq(v), u, up)
    BY <1>3, <2>6, <2>7, FlatRenders
  <2>10. Renders(Join(FlattenSeq(q), FlattenSeq(v)), c, up)
    <3>1. TextsAt(c) = TextsAt(t) \cup TextsAt(u)
      BY <1>2, <1>3
    <3>2. \A type \in {"tool_use", "tool_result"} : IdsAt(c, type) = IdsAt(u, type) /\ IdsAt(t, type) = << >>
      BY <1>2, <1>3, <2>4
    <3> QED
      BY <2>8, <2>9, <3>1, <3>2, RendersJoin
  <2> QED
    BY <2>3, <2>10, RendersArrives DEF c, up
<1>6. CASE m.role = "user" /\ ~Holds(c, "tool_result")
  <2>1. \A b \in Range(c) : b.type \notin {"tool_use", "tool_result"}
    BY <1>6, UserBlocksAre
  <2>2. ChatItems(m) = <<UserItem(c)>>
    BY <1>6 DEF ChatItems
  <2> HIDE DEF c, up
  <2>3. Renders(<<UserItem(c)>>, c, up)
    BY <1>1, <2>1, UserMessageRenders
  <2> QED
    BY <2>2, <2>3, RendersArrives DEF c, up
<1>7. CASE m.role = "user" /\ Holds(c, "tool_result")
  <2> DEFINE q == [i \in DOMAIN r |-> <<OutputItem(ToUpstream(r[i].id), Texts(r[i].content))>>]
             beside == IF Holds(c, "text") THEN <<UserItem(t)>> ELSE << >>
  <2>1. \A b \in Range(c) : b.type # "tool_use"
    BY <1>7, UserBlocksAre
  <2>2. ChatItems(m) = Join(FlattenSeq(q), beside)
    BY <1>7 DEF ChatItems, FlatMap, Join
  <2>3. IdsAt(c, "tool_use") = << >>
    <3> HIDE DEF c
    <3> QED
      BY <1>1, <2>1, IdsAtNone
  <2>4. Renders(beside, t, up)
    <3>1. CASE Holds(c, "text")
      <4>1. \A b \in Range(t) : b.type \notin {"tool_use", "tool_result"}
        <5> HIDE DEF t, c
        <5> QED
          BY <1>2 DEF Range
      <4> HIDE DEF t, c, up
      <4>2. Renders(<<UserItem(t)>>, t, up)
        BY <1>2, <4>1, UserMessageRenders
      <4> QED
        BY <3>1, <4>2
    <3>2. CASE ~Holds(c, "text")
      <4>1. TextsAt(c) = {}
        BY <3>2 DEF TextsAt, Holds, Range
      <4>2. TextsOf(<< >>) = {} /\ << >> \in Seq(AllItems)
        BY RangeNone, EmptySeq DEF TextsOf
      <4>3. \A G : Num(<< >>, G) = 0
        BY NumEmpty
      <4> HIDE DEF t, c, up
      <4> QED
        BY <1>2, <3>2, <4>1, <4>2, <4>3 DEF Renders
    <3> QED
      BY <3>1, <3>2
  <2> HIDE DEF c, t, u, r, up, beside
  <2>5. ASSUME NEW i \in DOMAIN r PROVE BlockRenders(q[i], r[i], up)
    <3> DEFINE b == r[i]
    <3>1. b \in ResultBlocks
      BY <1>4, BlockIs
    <3>2. q[i] = <<OutputItem(ToUpstream(b.id), Texts(b.content))>>
      OBVIOUS
    <3> HIDE DEF q, b
    <3>3. b.id \in Ids /\ b.content \in Given
      BY <3>1 DEF ResultBlocks
    <3>4. up[b.id] = ToUpstream(b.id) /\ ToUpstream(b.id) \in Ids
      BY <3>3, UpstreamIs DEF up, Upstream
    <3>5. Texts(b.content) \in Outs
      BY <3>3, GivenIs
    <3>6. BlockRenders(<<OutputItem(ToUpstream(b.id), Texts(b.content))>>, b, up)
      BY <3>1, <3>4, <3>5, OutputRenders
    <3> QED
      BY <3>2, <3>6 DEF b
  <2>6. DOMAIN q = DOMAIN r /\ q = [i \in DOMAIN r |-> q[i]]
    OBVIOUS
  <2> HIDE DEF q
  <2>7. Renders(FlattenSeq(q), r, up)
    BY <1>4, <2>5, <2>6, FlatRenders
  <2>8. Renders(Join(FlattenSeq(q), beside), c, up)
    <3>1. TextsAt(c) = TextsAt(r) \cup TextsAt(t)
      BY <1>2, <1>4
    <3>2. \A type \in {"tool_use", "tool_result"} : IdsAt(c, type) = IdsAt(r, type) /\ IdsAt(t, type) = << >>
      BY <1>2, <1>4, <2>3
    <3> QED
      BY <2>4, <2>7, <3>1, <3>2, RendersJoin
  <2> QED
    BY <2>2, <2>8, RendersArrives DEF c, up
<1> QED
  BY <1>5, <1>6, <1>7, MessageIs

LEMMA DirectArrives ==
  ASSUME NEW m \in Messages
  PROVE  Arrives(DirectItems(m), m, "direct")
<1> DEFINE up == Upstream("direct")
           c == m.content
           Block(b) == CASE b.type = "tool_result" -> <<OutputItem(b.id, b.content)>>
                         [] b.type = "tool_use"    -> <<CallItem(b.id, b.name)>>
                         [] OTHER                  -> IF m.role = "user" THEN <<UserItem(<<b>>)>> ELSE <<SaidItem(b.text)>>
           q == [i \in DOMAIN c |-> Block(c[i])]
<1>1. DirectItems(m) = FlattenSeq(q)
  BY DEF DirectItems, FlatMap
<1>2. /\ c \in Seq(AllBlocks)
      /\ m.role = "assistant" => c \in Seq(TextBlocks \cup UseBlocks)
      /\ m.role = "user" => c \in Seq(ShownBlocks \cup ResultBlocks)
      /\ m.role \in {"user", "assistant"}
  BY MessageIs
<1> HIDE DEF c
<1>3. ASSUME NEW i \in DOMAIN c PROVE BlockRenders(q[i], c[i], up)
  <2> DEFINE b == c[i]
  <2>1. /\ b \in AllBlocks /\ m.role \in {"user", "assistant"}
        /\ m.role = "assistant" => b \in TextBlocks \cup UseBlocks
        /\ m.role = "user" => b \in ShownBlocks \cup ResultBlocks
    BY <1>2
  <2>2. q[i] = Block(b)
    OBVIOUS
  <2> HIDE DEF b, q
  <2>3. CASE b.type = "tool_result"
    <3>1. b \in ResultBlocks /\ b.id \in Ids /\ b.content \in Given
      BY <2>1, <2>3, BlockIs
    <3>2. q[i] = <<OutputItem(b.id, b.content)>>
      BY <2>2, <2>3
    <3> HIDE DEF Block
    <3>3. up[b.id] = b.id
      BY <3>1 DEF Upstream
    <3>4. b.content \in Outs
      BY <3>1, GivenIs
    <3> HIDE DEF up
    <3>5. BlockRenders(<<OutputItem(b.id, b.content)>>, b, up)
      BY <3>1, <3>3, <3>4, OutputRenders
    <3> QED
      BY <3>2, <3>5 DEF b
  <2>4. CASE b.type = "tool_use"
    <3>1. b \in UseBlocks /\ b.id \in Ids /\ b.name \in Names
      BY <2>1, <2>4, BlockIs
    <3>2. q[i] = <<CallItem(b.id, b.name)>>
      BY <2>2, <2>4
    <3> HIDE DEF Block
    <3>3. up[b.id] = b.id
      BY <3>1 DEF Upstream
    <3> HIDE DEF up
    <3>4. BlockRenders(<<CallItem(b.id, b.name)>>, b, up)
      BY <3>1, <3>3, CallRenders
    <3> QED
      BY <3>2, <3>4 DEF b
  <2>5. CASE b.type \in {"text", "image"} /\ m.role = "user"
    <3>1. q[i] = <<UserItem(<<b>>)>>
      BY <2>2, <2>5
    <3>2. b \in ShownBlocks
      BY <2>1, <2>5, BlockIs DEF ShownBlocks
    <3> HIDE DEF Block, up
    <3>3. BlockRenders(<<UserItem(<<b>>)>>, b, up)
      BY <3>2, UserRenders
    <3> QED
      BY <3>1, <3>3 DEF b
  <2>6. CASE b.type \in {"text", "image"} /\ m.role = "assistant"
    <3>1. q[i] = <<SaidItem(b.text)>>
      BY <2>2, <2>6
    <3>2. b \in TextBlocks
      BY <2>1, <2>6 DEF UseBlocks
    <3> HIDE DEF Block, up
    <3>3. BlockRenders(<<SaidItem(b.text)>>, b, up)
      BY <3>2, SaidRenders
    <3> QED
      BY <3>1, <3>3 DEF b
  <2> QED
    BY <2>1, <2>3, <2>4, <2>5, <2>6, BlockIs
<1>4. DOMAIN q = DOMAIN c /\ q = [i \in DOMAIN c |-> q[i]]
  <2> HIDE DEF Block
  <2> QED
    OBVIOUS
<1> HIDE DEF q, up
<1>5. Renders(FlattenSeq(q), c, up)
  BY <1>2, <1>3, <1>4, FlatRenders
<1> QED
  BY <1>1, <1>5, RendersArrives DEF c, up

-----------------------------------------------------------------------------
(* The items that a request becomes                                        *)

MessageItems(m, provider) ==
  IF provider = "responses" THEN ResponsesItems(m) ELSE IF provider = "chat" THEN ChatItems(m) ELSE DirectItems(m)

RequestItems(ms, provider) == FlattenSeq([i \in DOMAIN ms |-> MessageItems(ms[i], provider)])

LEMMA MessageArrives ==
  ASSUME NEW m \in Messages, NEW provider \in Providers
  PROVE  Arrives(MessageItems(m, provider), m, provider)
<1>1. CASE provider = "responses"
  BY <1>1, ResponsesArrives DEF MessageItems
<1>2. CASE provider = "chat"
  BY <1>2, ChatArrives DEF MessageItems
<1>3. CASE provider = "direct"
  BY <1>3, DirectArrives DEF MessageItems
<1> QED
  BY <1>1, <1>2, <1>3 DEF Providers

LEMMA RequestItemsAre ==
  ASSUME NEW ms \in Seq(Messages), NEW provider \in Providers
  PROVE  /\ [i \in DOMAIN ms |-> MessageItems(ms[i], provider)] \in Seq(Seq(AllItems))
         /\ RequestItems(ms, provider) \in Seq(AllItems)
         /\ \A i \in DOMAIN ms : Arrives(MessageItems(ms[i], provider), ms[i], provider)
         /\ Range(RequestItems(ms, provider)) = UNION {Range(MessageItems(ms[i], provider)) : i \in DOMAIN ms}
<1> DEFINE q == [i \in DOMAIN ms |-> MessageItems(ms[i], provider)]
<1>1. \A i \in DOMAIN ms : ms[i] \in Messages
  OBVIOUS
<1>2. \A i \in DOMAIN ms : Arrives(MessageItems(ms[i], provider), ms[i], provider)
  BY <1>1, MessageArrives
<1>3. \A i \in DOMAIN ms : MessageItems(ms[i], provider) \in Seq(AllItems)
  BY <1>2 DEF Arrives
<1>4. DOMAIN q = DOMAIN ms /\ \A i \in DOMAIN ms : q[i] = MessageItems(ms[i], provider)
  OBVIOUS
<1>5. ListsFor(q, ms, AllItems)
  BY <1>3 DEF ListsFor
<1>6. RequestItems(ms, provider) = FlattenSeq(q)
  BY DEF RequestItems
<1> HIDE DEF q
<1>7. q \in Seq(Seq(AllItems))
  BY <1>5, MapIs
<1>8. FlattenSeq(q) \in Seq(AllItems) /\ Range(FlattenSeq(q)) = UNION {Range(q[i]) : i \in DOMAIN q}
  BY <1>7, FlattenType, FlattenHolds
<1>9. Range(FlattenSeq(q)) = UNION {Range(MessageItems(ms[i], provider)) : i \in DOMAIN ms}
  BY <1>4, <1>8
<1> QED
  BY <1>2, <1>6, <1>7, <1>8, <1>9 DEF q

\* The texts in a request's items are those in its messages.
LEMMA RequestTexts ==
  ASSUME NEW ms \in Seq(Messages), NEW provider \in Providers
  PROVE  /\ \A t \in TextsOf(RequestItems(ms, provider)) : \E i \in DOMAIN ms : t \in TextsAt(ms[i].content)
         /\ \A i \in DOMAIN ms : \/ TextsAt(ms[i].content) \subseteq TextsOf(RequestItems(ms, provider))
                                 \/ (provider = "responses" /\ Holds(ms[i].content, "tool_result"))
<1> DEFINE f == RequestItems(ms, provider)
           I(i) == MessageItems(ms[i], provider)
<1>1. /\ Range(f) = UNION {Range(I(i)) : i \in DOMAIN ms}
      /\ \A i \in DOMAIN ms : Arrives(I(i), ms[i], provider)
  BY RequestItemsAre
<1> HIDE DEF f, I
<1>2. ASSUME NEW t \in TextsOf(f) PROVE \E i \in DOMAIN ms : t \in TextsAt(ms[i].content)
  <2>1. PICK it \in Range(f) : t \in TextsIn(it)
    BY DEF TextsOf
  <2>2. PICK i \in DOMAIN ms : it \in Range(I(i))
    BY <1>1
  <2>3. t \in TextsOf(I(i))
    BY <2>1, <2>2 DEF TextsOf
  <2>4. TextsOf(I(i)) \subseteq TextsAt(ms[i].content)
    BY <1>1 DEF Arrives
  <2> QED
    BY <2>3, <2>4
<1>3. ASSUME NEW i \in DOMAIN ms
      PROVE  \/ TextsAt(ms[i].content) \subseteq TextsOf(f)
             \/ (provider = "responses" /\ Holds(ms[i].content, "tool_result"))
  <2>1. Range(I(i)) \subseteq Range(f)
    BY <1>1
  <2>2. TextsOf(I(i)) \subseteq TextsOf(f)
    BY <2>1 DEF TextsOf
  <2>3. \/ TextsAt(ms[i].content) \subseteq TextsOf(I(i))
        \/ (provider = "responses" /\ Holds(ms[i].content, "tool_result"))
    BY <1>1 DEF Arrives
  <2> QED
    BY <2>2, <2>3
<1> QED
  BY <1>2, <1>3 DEF f

\* The calls and the outputs in a request's items are those of calls and results in its messages.
LEMMA RequestIds ==
  ASSUME NEW ms \in Seq(Messages), NEW provider \in Providers, NEW it \in Range(RequestItems(ms, provider)),
         it.item \in {"call", "output"}
  PROVE  /\ it.id \in Ids
         /\ \E i \in DOMAIN ms : \E x \in Range(CallIds(ms[i])) \cup Range(ResultIds(ms[i])) :
              x \in Ids /\ it.id = Upstream(provider)[x]
<1> DEFINE f == RequestItems(ms, provider)
           I(i) == MessageItems(ms[i], provider)
           up == Upstream(provider)
<1>1. /\ f \in Seq(AllItems) /\ Range(f) = UNION {Range(I(i)) : i \in DOMAIN ms}
      /\ \A i \in DOMAIN ms : Arrives(I(i), ms[i], provider)
  BY RequestItemsAre
<1> HIDE DEF f, I, up
<1>2. it \in AllItems
  <2>1. it \in Range(f)
    BY DEF f
  <2> QED
    BY <1>1, <2>1, InRange
<1>3. it.id \in Ids
  BY <1>2, ItemIs
<1>4. PICK i \in DOMAIN ms : it \in Range(I(i))
  BY <1>1 DEF f
<1>5. I(i) \in Seq(AllItems) /\ ms[i] \in Messages
  BY <1>1 DEF Arrives
<1>6. CallIds(ms[i]) \in Seq(Ids) /\ ResultIds(ms[i]) \in Seq(Ids)
  BY <1>5, CallsAre
<1>7. ASSUME NEW G, it \in G, NEW q \in Seq(Ids), Num(I(i), G) = Num(q, IdsFrom(up, it.id))
      PROVE  \E x \in Range(q) : x \in Ids /\ it.id = up[x]
  <2>1. PICK j \in DOMAIN I(i) : I(i)[j] = it
    BY <1>4 DEF Range
  <2>2. j \in 1..Len(I(i))
    BY <1>5, <2>1
  <2>3. Num(I(i), G) # 0
    BY <1>5, <1>7, <2>1, <2>2, NumNone
  <2>4. PICK k \in 1..Len(q) : q[k] \in IdsFrom(up, it.id)
    BY <1>7, <2>3, NumNone
  <2>5. q[k] \in Range(q)
    BY <2>4 DEF Range
  <2> QED
    BY <2>4, <2>5 DEF IdsFrom
<1>8. CASE it.item = "call"
  <2>1. it \in CallsOf(it.id)
    BY <1>2, <1>8 DEF CallsOf
  <2>2. Num(I(i), CallsOf(it.id)) = Num(CallIds(ms[i]), IdsFrom(up, it.id))
    BY <1>1, <1>3 DEF Arrives, up
  <2>3. \E x \in Range(CallIds(ms[i])) : x \in Ids /\ it.id = up[x]
    BY <1>6, <1>7, <2>1, <2>2
  <2> QED
    BY <1>3, <2>3 DEF up
<1>9. CASE it.item = "output"
  <2>1. it \in OutputsOf(it.id)
    BY <1>2, <1>9 DEF OutputsOf
  <2>2. Num(I(i), OutputsOf(it.id)) = Num(ResultIds(ms[i]), IdsFrom(up, it.id))
    BY <1>1, <1>3 DEF Arrives, up
  <2>3. \E x \in Range(ResultIds(ms[i])) : x \in Ids /\ it.id = up[x]
    BY <1>6, <1>7, <2>1, <2>2
  <2> QED
    BY <1>3, <2>3 DEF up
<1> QED
  BY <1>8, <1>9

\* The results in each message are those of the calls in the one before, but for the ids in X.
Answered(ms, X) ==
  /\ ms # << >> /\ Range(ResultIds(ms[1])) \subseteq X /\ CallIds(ms[Len(ms)]) = << >>
  /\ \A i \in 1..(Len(ms) - 1) : \/ ResultIds(ms[i + 1]) = CallIds(ms[i])
                                 \/ (CallIds(ms[i]) = << >> /\ Range(ResultIds(ms[i + 1])) \subseteq X)

\* Then each output in the request's items has its call before it.
LEMMA RequestAnswered ==
  ASSUME NEW ms \in Seq(Messages), NEW provider \in Providers, NEW X, Answered(ms, X),
         NEW id \in Ids, \A x \in X \cap Ids : Upstream(provider)[x] # id
  PROVE  /\ Num(RequestItems(ms, provider), OutputsOf(id)) = Num(RequestItems(ms, provider), CallsOf(id))
         /\ \A k \in 0..Len(RequestItems(ms, provider)) :
              NumTo(RequestItems(ms, provider), OutputsOf(id), k) <= NumTo(RequestItems(ms, provider), CallsOf(id), k)
<1> DEFINE q == [i \in DOMAIN ms |-> MessageItems(ms[i], provider)]
           G == CallsOf(id)
           H == OutputsOf(id)
           F == IdsFrom(Upstream(provider), id)
<1>1. q \in Seq(Seq(AllItems)) /\ \A i \in DOMAIN ms : Arrives(MessageItems(ms[i], provider), ms[i], provider)
  BY RequestItemsAre
<1>2. DOMAIN q = DOMAIN ms /\ \A i \in DOMAIN ms : q[i] = MessageItems(ms[i], provider)
  OBVIOUS
<1>3. RequestItems(ms, provider) = FlattenSeq(q)
  BY DEF RequestItems
<1> HIDE DEF q
<1>4. \A i \in DOMAIN ms : Num(q[i], G) = Num(CallIds(ms[i]), F) /\ Num(q[i], H) = Num(ResultIds(ms[i]), F)
  BY <1>1, <1>2 DEF Arrives
<1>5. Len(q) = Len(ms) /\ DOMAIN ms = 1..Len(ms) /\ Len(ms) \in Nat /\ Len(ms) >= 1
  <2>1. Len(ms) \in Nat /\ Len(ms) >= 1 /\ DOMAIN ms = 1..Len(ms)
    BY NotEmpty DEF Answered
  <2>2. DOMAIN q = 1..Len(q) /\ Len(q) \in Nat
    BY <1>1
  <2> QED
    BY <1>2, <2>1, <2>2
<1> HIDE DEF G, H
<1>6. Num(<< >>, F) = 0
  BY NumEmpty
<1>7. ASSUME NEW i \in DOMAIN ms, Range(ResultIds(ms[i])) \subseteq X PROVE Num(q[i], H) = 0
  <2>1. ms[i] \in Messages
    OBVIOUS
  <2>2. ResultIds(ms[i]) \in Seq(Ids)
    BY <2>1, CallsAre
  <2> DEFINE r == ResultIds(ms[i])
  <2>3. \A k \in 1..Len(r) : r[k] \in X /\ r[k] \in Ids
    BY <1>7, <2>2, InRange
  <2>4. \A k \in 1..Len(r) : r[k] \notin F
    BY <2>3 DEF IdsFrom
  <2> HIDE DEF r, F
  <2>5. Num(r, F) = 0
    BY <2>2, <2>4, NumNone DEF r
  <2> QED
    BY <1>4, <2>5 DEF r
<1> HIDE DEF F
<1>8. Num(q[1], H) = 0 /\ Num(q[Len(q)], G) = 0
  <2>1. 1 \in DOMAIN ms /\ Len(ms) \in DOMAIN ms
    BY <1>5
  <2> QED
    BY <1>4, <1>5, <1>6, <1>7, <2>1 DEF Answered
<1>9. ASSUME NEW i \in 1..(Len(q) - 1) PROVE Num(q[i + 1], H) = Num(q[i], G)
  <2>1. i \in DOMAIN ms /\ i + 1 \in DOMAIN ms /\ i \in 1..(Len(ms) - 1)
    BY <1>5
  <2>2. CASE ResultIds(ms[i + 1]) = CallIds(ms[i])
    BY <1>4, <2>1, <2>2
  <2>3. CASE CallIds(ms[i]) = << >> /\ Range(ResultIds(ms[i + 1])) \subseteq X
    BY <1>4, <1>6, <1>7, <2>1, <2>3
  <2> QED
    BY <2>1, <2>2, <2>3 DEF Answered
<1>10. q # << >>
  BY <1>5
<1>11. /\ Num(FlattenSeq(q), H) = Num(FlattenSeq(q), G)
       /\ \A k \in 0..Len(FlattenSeq(q)) : NumTo(FlattenSeq(q), H, k) <= NumTo(FlattenSeq(q), G, k)
  BY <1>1, <1>8, <1>9, <1>10, FlattenBalanced
<1> QED
  BY <1>3, <1>11 DEF G, H

\* The output of item i is there, or names one before it that is (the Whole of Conversation).
WholeIn(items, i) ==
  (items[i].output # << >> /\ items[i].output[1].text[1] = "duplicate of") =>
      \E j \in 1..(i - 1) : /\ items[j].item = "output" /\ items[j].id = items[i].output[1].text[2]
                            /\ Large(items[j].output)

\* What is sent of these items: the same, some outputs as references.
Sends(sends, items) ==
  /\ DOMAIN sends = 1..Len(items) /\ Len(sends) = Len(items)
  /\ \A i \in 1..Len(items) :
       /\ sends[i].item = items[i].item
       /\ items[i].item # "output" => sends[i] = items[i]
       /\ items[i].item = "output" => sends[i].id = items[i].id /\ WholeIn(sends, i)

LEMMA OutputsWhole ==
  ASSUME NEW items \in Seq(AllItems)
  PROVE  Sends(items, items)
<1>1. \A i \in 1..Len(items) : items[i] \in AllItems
  OBVIOUS
<1>2. ASSUME NEW i \in 1..Len(items), items[i].item = "output" PROVE WholeIn(items, i)
  <2>1. items[i].output \in Outs
    BY <1>1, <1>2, ItemIs
  <2>2. items[i].output # << >> => items[i].output[1].text[1] # "duplicate of"
    BY <2>1 DEF Outs
  <2> QED
    BY <2>2 DEF WholeIn
<1>3. DOMAIN items = 1..Len(items)
  OBVIOUS
<1> QED
  BY <1>2, <1>3 DEF Sends

\* The first of the numbers that a condition holds for.
LEMMA Smallest ==
  ASSUME NEW n \in Nat, NEW T \in SUBSET (1..n), T # {}
  PROVE  \E j \in T : \A k \in 1..(j - 1) : k \notin T
<1> DEFINE P == {i \in 0..n : \A k \in 1..i : k \notin T}
<1>1. SUFFICES ASSUME \A j \in T : \E k \in 1..(j - 1) : k \in T PROVE FALSE
  OBVIOUS
<1>2. P \in SUBSET (0..n) /\ 0 \in P
  OBVIOUS
<1>3. \A i \in 1..n : i - 1 \in P => i \in P
  <2> SUFFICES ASSUME NEW i \in 1..n, i - 1 \in P PROVE i \in P
    OBVIOUS
  <2>1. \A k \in 1..(i - 1) : k \notin T
    OBVIOUS
  <2>2. i \notin T
    BY <1>1, <2>1
  <2>3. \A k \in 1..i : k = i \/ k \in 1..(i - 1)
    OBVIOUS
  <2> QED
    BY <2>1, <2>2, <2>3
<1> HIDE DEF P
<1>4. n \in P
  BY <1>2, <1>3, UpTo
<1> QED
  BY <1>4 DEF P

LEMMA ReferenceIs ==
  ASSUME NEW x
  PROVE  Reference(x)[1].text[2] = x
<1> DEFINE t == <<"duplicate of", x>>
<1>1. t[2] = x
  OBVIOUS
<1> HIDE DEF t
<1> DEFINE b == [type |-> "text", text |-> t]
<1>2. b.text = t
  OBVIOUS
<1> HIDE DEF b
<1>3. <<b>>[1] = b
  OBVIOUS
<1>4. Reference(x) = <<b>>
  BY DEF Reference, b, t
<1> QED
  BY <1>1, <1>2, <1>3, <1>4

LEMMA DedupeIs ==
  ASSUME NEW items \in Seq(AllItems)
  PROVE  Sends(Dedupe(items), items)
<1> DEFINE n == Len(items)
           Same(i, j) == items[j].item = "output" /\ items[j].output = items[i].output
           IsFirst(i, j) == /\ items[j].item = "output" /\ items[j].output = items[i].output
                            /\ \A k \in 1..(j - 1) : items[k].item # "output" \/ items[k].output # items[i].output
           First(i) == CHOOSE j \in 1..i : IsFirst(i, j)
           Stays(i) == \/ items[i].item # "output"
                      \/ ~Large(items[i].output)
                      \/ i + RecentItems > Len(items)
                      \/ First(i) = i
           d == [i \in DOMAIN items |-> IF Stays(i) THEN items[i] ELSE [items[i] EXCEPT !.output = Reference(items[First(i)].id)]]
<1>1. Dedupe(items) = d
  BY DEF Dedupe
<1>2. n \in Nat /\ DOMAIN items = 1..n /\ \A i \in 1..n : items[i] \in AllItems
  OBVIOUS
<1>3. \A i, j : IsFirst(i, j) <=> Same(i, j) /\ \A k \in 1..(j - 1) : ~Same(i, k)
  OBVIOUS
<1>4. ASSUME NEW i \in 1..n, items[i].item = "output"
      PROVE  First(i) \in 1..i /\ IsFirst(i, First(i))
  <2> DEFINE T == {j \in 1..i : Same(i, j)}
  <2>1. i \in Nat /\ T \in SUBSET (1..i) /\ i \in T
    BY <1>4
  <2> HIDE DEF T
  <2>2. PICK j \in T : \A k \in 1..(j - 1) : k \notin T
    BY <2>1, Smallest
  <2>3. j \in 1..i /\ Same(i, j) /\ \A k \in 1..(j - 1) : k \in 1..i
    BY <2>1 DEF T
  <2>4. \A k \in 1..(j - 1) : ~Same(i, k)
    BY <2>2, <2>3 DEF T
  <2> HIDE DEF Same
  <2>5. IsFirst(i, j)
    BY <1>3, <2>3, <2>4
  <2> HIDE DEF IsFirst
  <2> QED
    BY <2>3, <2>5
<1>5. ASSUME NEW i \in 1..n, items[i].item = "output" PROVE First(First(i)) = First(i) /\ First(i) \in 1..n
  <2> DEFINE j == First(i)
             h == First(j)
  <2>1. j \in 1..i /\ j \in 1..n /\ IsFirst(i, j)
    <3> HIDE DEF IsFirst, First
    <3> QED
      BY <1>2, <1>4, <1>5
  <2>2. Same(i, j) /\ \A k \in 1..(j - 1) : ~Same(i, k)
    BY <1>3, <2>1
  <2>3. items[j].item = "output"
    BY <2>2
  <2>4. h \in 1..j /\ IsFirst(j, h)
    <3> HIDE DEF IsFirst, First, j
    <3> QED
      BY <1>4, <2>1, <2>3 DEF h
  <2>5. Same(j, h)
    BY <1>3, <2>4
  <2>6. Same(i, h)
    BY <2>2, <2>5
  <2> HIDE DEF Same, IsFirst, First, j, h
  <2>7. h = j
    <3>1. h \in 1..(j - 1) \/ h = j
      BY <2>1, <2>4
    <3> QED
      BY <2>2, <2>6, <3>1
  <2> QED
    BY <2>1, <2>7 DEF h, j
<1> HIDE DEF First
<1>6. \A i \in 1..n : d[i] = IF Stays(i) THEN items[i] ELSE [items[i] EXCEPT !.output = Reference(items[First(i)].id)]
  BY <1>2
<1>7. DOMAIN d = 1..n /\ Len(d) = n
  <2>1. d = [i \in 1..n |-> d[i]]
    BY <1>2
  <2> HIDE DEF d
  <2> QED
    BY <1>2, <2>1
<1> HIDE DEF d
<1>8. ASSUME NEW i \in 1..n, ~Stays(i)
      PROVE  /\ items[i].item = "output" /\ Large(items[i].output) /\ First(i) # i
             /\ d[i].item = "output" /\ d[i].id = items[i].id /\ d[i].output = Reference(items[First(i)].id)
  <2>1. items[i].item = "output" /\ Large(items[i].output) /\ First(i) # i
    BY <1>8
  <2>2. items[i] \in OutputItems
    BY <1>2, <2>1 DEF AllItems, SaidItems, UserItems, CallItems
  <2> DEFINE r == Reference(items[First(i)].id)
  <2>3. d[i] = [items[i] EXCEPT !.output = r]
    BY <1>6, <1>8
  <2> HIDE DEF r, Stays
  <2>4. d[i].item = "output" /\ d[i].id = items[i].id /\ d[i].output = r
    BY <2>1, <2>2, <2>3 DEF OutputItems
  <2> QED
    BY <2>1, <2>4 DEF r
<1>9. ASSUME NEW i \in 1..n, items[i].item = "output" PROVE d[i].id = items[i].id /\ d[i].item = "output" /\ WholeIn(d, i)
  <2>1. CASE Stays(i)
    <3>1. d[i] = items[i]
      BY <1>6, <2>1
    <3>2. items[i].output \in Outs
      BY <1>2, <1>9, ItemIs
    <3>3. items[i].output # << >> => items[i].output[1].text[1] # "duplicate of"
      BY <3>2 DEF Outs
    <3> QED
      BY <1>9, <3>1, <3>3 DEF WholeIn
  <2>2. CASE ~Stays(i)
    <3> DEFINE j == First(i)
    <3>1. /\ Large(items[i].output) /\ j # i /\ d[i].item = "output" /\ d[i].id = items[i].id
          /\ d[i].output = Reference(items[j].id)
      BY <1>8, <2>2
    <3>2. j \in 1..i /\ j \in 1..n /\ IsFirst(i, j) /\ First(j) = j
      <4> HIDE DEF IsFirst
      <4> QED
        BY <1>4, <1>5, <1>9
    <3>3. items[j].item = "output" /\ items[j].output = items[i].output
      BY <3>2
    <3>4. Stays(j)
      BY <3>2
    <3>5. d[j] = items[j]
      BY <1>6, <3>2, <3>4
    <3>6. j \in 1..(i - 1)
      BY <3>1, <3>2
    <3> HIDE DEF Stays, IsFirst, j
    <3>7. d[i].output[1].text[2] = items[j].id
      BY <3>1, ReferenceIs
    <3> QED
      BY <3>1, <3>3, <3>5, <3>6, <3>7 DEF WholeIn
  <2> QED
    BY <2>1, <2>2
<1>10. ASSUME NEW i \in 1..n, items[i].item # "output" PROVE d[i] = items[i]
  BY <1>6, <1>10
<1>11. Sends(d, items)
  BY <1>7, <1>9, <1>10 DEF Sends
<1> QED
  BY <1>1, <1>11

\* What is sent holds the same texts, and as many calls and outputs up to each item.
LEMMA SendsIs ==
  ASSUME NEW items \in Seq(AllItems), NEW sends, Sends(sends, items)
  PROVE  /\ TextsOf(sends) = TextsOf(items)
         /\ \A k \in 0..Len(items) : \A item \in {"call", "output"} : \A id :
              {i \in 1..k : sends[i].item = item /\ sends[i].id = id} = {i \in 1..k : items[i].item = item /\ items[i].id = id}
         /\ \A it \in Range(sends) : it.item \in {"call", "output"} =>
              \E was \in Range(items) : was.item = it.item /\ was.id = it.id
<1>1. /\ DOMAIN sends = 1..Len(items) /\ DOMAIN items = 1..Len(items) /\ Len(items) \in Nat
      /\ \A i \in 1..Len(items) : /\ sends[i].item = items[i].item
                                  /\ items[i].item # "output" => sends[i] = items[i]
                                  /\ items[i].item = "output" => sends[i].id = items[i].id
  BY DEF Sends
<1>2. \A i \in 1..Len(items) : items[i].item \in {"call", "output"} => sends[i].id = items[i].id
  BY <1>1
<1>3. TextsOf(sends) = TextsOf(items)
  <2>1. \A i \in 1..Len(items) : TextsIn(sends[i]) = TextsIn(items[i])
    <3> SUFFICES ASSUME NEW i \in 1..Len(items) PROVE TextsIn(sends[i]) = TextsIn(items[i])
      OBVIOUS
    <3>1. CASE items[i].item = "output"
      <4>1. sends[i].item = "output"
        BY <1>1, <3>1
      <4> QED
        BY <3>1, <4>1 DEF TextsIn
    <3>2. CASE items[i].item # "output"
      BY <1>1, <3>2
    <3> QED
      BY <3>1, <3>2
  <2>2. TextsOf(sends) = UNION {TextsIn(sends[i]) : i \in 1..Len(items)}
    BY <1>1 DEF TextsOf, Range
  <2>3. TextsOf(items) = UNION {TextsIn(items[i]) : i \in 1..Len(items)}
    BY <1>1 DEF TextsOf, Range
  <2> QED
    BY <2>1, <2>2, <2>3
<1>4. ASSUME NEW k \in 0..Len(items), NEW item \in {"call", "output"}, NEW id
      PROVE  {i \in 1..k : sends[i].item = item /\ sends[i].id = id} = {i \in 1..k : items[i].item = item /\ items[i].id = id}
  <2>1. \A i \in 1..k : i \in 1..Len(items)
    BY <1>1
  <2>2. \A i \in 1..k : (sends[i].item = item /\ sends[i].id = id) <=> (items[i].item = item /\ items[i].id = id)
    BY <1>1, <1>2, <2>1
  <2> QED
    BY <2>2
<1>5. ASSUME NEW it \in Range(sends), it.item \in {"call", "output"}
      PROVE  \E was \in Range(items) : was.item = it.item /\ was.id = it.id
  <2>1. PICK i \in 1..Len(items) : it = sends[i]
    BY <1>1 DEF Range
  <2>2. items[i] \in Range(items) /\ items[i].item = it.item /\ items[i].id = it.id
    BY <1>1, <1>2, <1>5, <2>1 DEF Range
  <2> QED
    BY <2>2
<1> QED
  BY <1>3, <1>4, <1>5

-----------------------------------------------------------------------------
(* What is posted                                                          *)

Bodies == [system : Seq(Strings \X Nat), messages : Seq(Messages), tools : SUBSET Offered]

\* This request of a provider's adapter is for these messages and these tools.
RequestsFor(r, ms, tools, provider) ==
  /\ Sends(r.items, RequestItems(ms, provider))
  /\ r.map = IF provider = "direct" THEN << >> ELSE NameMap(ms, tools)
  /\ r.tools \subseteq IF provider = "direct" THEN tools ELSE {Truncate(t) : t \in tools}

LEMMA RequestIs ==
  ASSUME NEW b \in Bodies, NEW provider \in Providers
  PROVE  /\ RequestsFor(Request(b, provider), b.messages, b.tools, provider)
         /\ Request(b, provider) = [items |-> Request(b, provider).items, map |-> Request(b, provider).map,
                                    tools |-> Request(b, provider).tools, system |-> Request(b, provider).system]
<1> DEFINE ms == b.messages
           f == RequestItems(ms, provider)
<1>1. ms \in Seq(Messages)
  BY DEF Bodies
<1>2. f \in Seq(AllItems)
  BY <1>1, RequestItemsAre
<1>3. CASE provider = "responses"
  <2> DEFINE g == FlatMap(ResponsesItems, ms)
             d == Dedupe(g)
             m == NameMap(ms, b.tools)
  <2>1. f = g
    BY <1>3 DEF RequestItems, MessageItems, FlatMap
  <2>2. Sends(d, f)
    <3> HIDE DEF f, g
    <3> QED
      BY <1>2, <2>1, DedupeIs
  <2> HIDE DEF d, f, m
  <2>3. Request(b, provider) = [items |-> d, map |-> m, tools |-> {Truncate(t) : t \in b.tools}, system |-> b.system]
    BY <1>3 DEF Request, ResponsesRequest, d, m
  <2> QED
    BY <1>3, <2>2, <2>3 DEF RequestsFor, f, m
<1>4. CASE provider = "chat"
  <2> DEFINE m == NameMap(ms, b.tools)
  <2>1. f = FlatMap(ChatItems, ms)
    BY <1>4 DEF RequestItems, MessageItems, FlatMap
  <2>2. Sends(f, f)
    <3> HIDE DEF f
    <3> QED
      BY <1>2, OutputsWhole
  <2> HIDE DEF f, m
  <2>3. Request(b, provider) = [items |-> f, map |-> m, tools |-> {Truncate(t) : t \in b.tools}, system |-> b.system]
    BY <1>4, <2>1 DEF Request, ChatRequest, m
  <2> QED
    BY <1>4, <2>2, <2>3 DEF RequestsFor, f, m
<1>5. CASE provider = "direct"
  <2>1. f = FlatMap(DirectItems, ms)
    BY <1>5 DEF RequestItems, MessageItems, FlatMap
  <2>2. Sends(f, f)
    <3> HIDE DEF f
    <3> QED
      BY <1>2, OutputsWhole
  <2> HIDE DEF f
  <2>3. Request(b, provider) = [items |-> f, map |-> << >>, tools |-> b.tools, system |-> b.system]
    BY <1>5, <2>1 DEF Request, DirectRequest
  <2> QED
    BY <1>5, <2>2, <2>3 DEF RequestsFor, f
<1> QED
  BY <1>3, <1>4, <1>5 DEF Providers

\* For a request to summarise there is an instruction more and nothing to call.
LEMMA OverridesIs ==
  ASSUME NEW r, r = [items |-> r.items, map |-> r.map, tools |-> r.tools, system |-> r.system], NEW ms, NEW provider
  PROVE  /\ CompactOverrides(r, ms, provider).items = r.items
         /\ CompactOverrides(r, ms, provider).map = r.map
         /\ CompactOverrides(r, ms, provider).tools \in {{}, r.tools}
<1>1. CASE ~CompactRequest(ms, r.items, provider)
  BY <1>1 DEF CompactOverrides
<1>2. CASE CompactRequest(ms, r.items, provider)
  <2> DEFINE s == Append(r.system, <<"handoff", 0>>)
  <2> HIDE DEF s
  <2>1. CompactOverrides(r, ms, provider) = [r EXCEPT !.tools = {}, !.system = s]
    BY <1>2 DEF CompactOverrides, s
  <2> QED
    BY <2>1
<1> QED
  BY <1>1, <1>2

LEMMA TranslatedIs ==
  ASSUME NEW b \in Bodies, NEW p \in Profiles, AutoCompacted(b.messages, p) \in Seq(Messages)
  PROVE  /\ Provider[p] \in Providers
         /\ Translated(b, p).profile = p
         /\ Translated(b, p).body = AutoCompacted(b.messages, p)
         /\ RequestsFor(Translated(b, p), AutoCompacted(b.messages, p), b.tools, Provider[p])
<1> DEFINE ms == AutoCompacted(b.messages, p)
           c == [b EXCEPT !.messages = ms]
           r == Request(c, Provider[p])
           o == CompactOverrides(r, ms, Provider[p])
           t == [profile |-> p, body |-> ms, items |-> o.items, map |-> o.map, tools |-> o.tools, system |-> o.system]
<1>1. Translated(b, p) = t
  BY DEF Translated
<1>2. Provider[p] \in Providers
  BY ConversationAssumption
<1> HIDE DEF ms
<1>3. ms \in Seq(Messages)
  BY DEF ms
<1>4. c \in Bodies /\ c.messages = ms /\ c.tools = b.tools
  BY <1>3 DEF Bodies
<1> HIDE DEF c
<1>5. /\ RequestsFor(r, ms, b.tools, Provider[p])
      /\ r = [items |-> r.items, map |-> r.map, tools |-> r.tools, system |-> r.system]
  BY <1>2, <1>4, RequestIs
<1> HIDE DEF r
<1>6. o.items = r.items /\ o.map = r.map /\ o.tools \in {{}, r.tools}
  BY <1>5, OverridesIs
<1> HIDE DEF o
<1>7. t.profile = p /\ t.body = ms /\ t.items = r.items /\ t.map = r.map /\ t.tools \in {{}, r.tools}
  BY <1>6
<1> HIDE DEF t
<1>8. RequestsFor(t, ms, b.tools, Provider[p])
  BY <1>5, <1>7 DEF RequestsFor
<1> QED
  BY <1>1, <1>2, <1>7, <1>8 DEF ms

-----------------------------------------------------------------------------
(* Where an old part of the history is cut off                             *)

LEMMA Largest ==
  ASSUME NEW n \in Nat, NEW T \in SUBSET (0..n), T # {}
  PROVE  \E j \in T : \A k \in T : k <= j
<1> DEFINE P == {i \in 0..n : (\E k \in T : k <= i) => \E j \in T : j <= i /\ \A k \in T : k <= i => k <= j}
<1>1. P \in SUBSET (0..n) /\ \A k \in T : k \in 0..n
  OBVIOUS
<1>2. 0 \in P
  BY <1>1
<1>3. \A i \in 1..n : i - 1 \in P => i \in P
  <2> SUFFICES ASSUME NEW i \in 1..n, i - 1 \in P PROVE i \in P
    OBVIOUS
  <2>1. CASE i \in T
    BY <1>1, <2>1
  <2>2. CASE i \notin T
    <3>1. \A k \in T : k <= i <=> k <= i - 1
      BY <1>1, <2>2
    <3>2. (\E k \in T : k <= i) => \E j \in T : j <= i /\ \A k \in T : k <= i => k <= j
      BY <1>1, <3>1
    <3> QED
      BY <3>2
  <2> QED
    BY <2>1, <2>2
<1>4. n \in P
  <2> HIDE DEF P
  <2> QED
    BY <1>1, <1>2, <1>3, UpTo
<1>5. (\E k \in T : k <= n) => \E j \in T : j <= n /\ \A k \in T : k <= n => k <= j
  BY <1>4
<1>6. \A k \in T : k <= n
  BY <1>1
<1> HIDE DEF P
<1> QED
  BY <1>5, <1>6

LEMMA IdsOfIs ==
  ASSUME NEW ms \in Seq(Messages), NEW type \in {"tool_use", "tool_result"}, NEW x
  PROVE  x \in IdsOf(ms, type) <=> \E i \in DOMAIN ms : x \in Range(IdsAt(ms[i].content, type))
<1>1. \A i \in DOMAIN ms : ms[i].content \in Seq(AllBlocks)
  <2> SUFFICES ASSUME NEW i \in DOMAIN ms PROVE ms[i].content \in Seq(AllBlocks)
    OBVIOUS
  <2>1. ms[i] \in Messages
    OBVIOUS
  <2> QED
    BY <2>1, MessageIs
<1>2. \A i \in DOMAIN ms : Range(IdsAt(ms[i].content, type)) = {b.id : b \in Range(OfType(ms[i].content, type))}
  <2> SUFFICES ASSUME NEW i \in DOMAIN ms
               PROVE  Range(IdsAt(ms[i].content, type)) = {b.id : b \in Range(OfType(ms[i].content, type))}
    OBVIOUS
  <2> DEFINE c == ms[i].content
  <2>1. c \in Seq(AllBlocks)
    BY <1>1
  <2> HIDE DEF c
  <2>2. Range(OfType(c, type)) = {b \in Range(c) : b.type = type}
    <3>1. Range(OfType(c, type)) = Typed(Range(c), type)
      BY <2>1, OfTypeTyped
    <3> QED
      BY <3>1 DEF Typed
  <2>3. Range(IdsAt(c, type)) = {b.id : b \in {b \in Range(c) : b.type = type}}
    BY <2>1, IdsAtIs
  <2> QED
    BY <2>2, <2>3 DEF c
<1>3. x \in IdsOf(ms, type) <=> \E i \in DOMAIN ms : \E b \in Range(OfType(ms[i].content, type)) : x = b.id
  BY DEF IdsOf
<1> QED
  BY <1>2, <1>3

\* The first n messages can go: what comes next has no result for a call in them.
CutAt(ms, n) ==
  /\ n \in 1..(Len(ms) - 1)
  /\ \A i \in 1..n : Range(ResultIds(ms[n + 1])) \cap Range(CallIds(ms[i])) = {}

LEMMA KeepFromIs ==
  ASSUME NEW ms \in Seq(Messages), NEW max \in Nat \ {0}, KeepFrom(ms, max) # 0
  PROVE  CutAt(ms, KeepFrom(ms, max))
<1> DEFINE target == Len(ms) - max
           late == SubSeq(ms, target + 1, Len(ms))
           early(k) == SubSeq(ms, 1, k)
           results == IdsOf(late, "tool_result")
           free == {k \in 0..target : IdsOf(early(k), "tool_use") \cap results = {}}
           n == CHOOSE k \in free : \A j \in free : j <= k
<1>1. Len(ms) \in Nat /\ max \in Nat /\ max # 0 /\ Len(ms) > max /\ KeepFrom(ms, max) = n
  <2>1. Len(ms) \in Nat /\ max \in Nat /\ max # 0
    OBVIOUS
  <2>2. ~(Len(ms) <= max)
    BY DEF KeepFrom
  <2>3. KeepFrom(ms, max) = n
    BY <2>2 DEF KeepFrom
  <2> QED
    BY <2>1, <2>2, <2>3
<1>2. target \in Nat /\ target < Len(ms)
  BY <1>1
<1>3. late \in Seq(Messages) /\ Len(late) = Len(ms) - target /\ \A i \in 1..(Len(ms) - target) : late[i] = ms[target + i]
  <2> HIDE DEF target
  <2>1. target \in 0..Len(ms)
    BY <1>1, <1>2
  <2> QED
    BY <2>1, RestIs DEF Rest
<1>4. \A k \in 0..target : early(k) \in Seq(Messages) /\ Len(early(k)) = k /\ \A i \in 1..k : early(k)[i] = ms[i]
  <2> SUFFICES ASSUME NEW k \in 0..target
               PROVE  early(k) \in Seq(Messages) /\ Len(early(k)) = k /\ \A i \in 1..k : early(k)[i] = ms[i]
    OBVIOUS
  <2>1. k \in Nat /\ k <= Len(ms) /\ \A i \in 1..k : ms[i] \in Messages
    BY <1>1, <1>2
  <2>2. 1 \in Int /\ k \in Int /\ \A i \in 1..k : ms[i] \in Messages
    BY <2>1
  <2>3. /\ early(k) \in Seq(Messages) /\ Len(early(k)) = IF 1 <= k THEN k - 1 + 1 ELSE 0
        /\ \A i \in 1..(k - 1 + 1) : early(k)[i] = ms[1 + i - 1]
    BY <2>2, SubSeqProperties
  <2> QED
    BY <2>1, <2>3
<1> HIDE DEF early, late
<1>5. \A k \in 0..target : \A x : x \in IdsOf(early(k), "tool_use") <=> \E i \in 1..k : x \in Range(CallIds(ms[i]))
  <2> SUFFICES ASSUME NEW k \in 0..target, NEW x
               PROVE  x \in IdsOf(early(k), "tool_use") <=> \E i \in 1..k : x \in Range(CallIds(ms[i]))
    OBVIOUS
  <2>1. early(k) \in Seq(Messages) /\ DOMAIN early(k) = 1..k /\ \A i \in 1..k : early(k)[i] = ms[i]
    BY <1>4
  <2> HIDE DEF target
  <2>2. x \in IdsOf(early(k), "tool_use") <=> \E i \in DOMAIN early(k) : x \in Range(IdsAt(early(k)[i].content, "tool_use"))
    BY <2>1, IdsOfIs
  <2> QED
    BY <2>1, <2>2 DEF CallIds
<1>6. \A x : x \in results <=> \E i \in 1..(Len(ms) - target) : x \in Range(ResultIds(ms[target + i]))
  <2> SUFFICES ASSUME NEW x
               PROVE  x \in results <=> \E i \in 1..(Len(ms) - target) : x \in Range(ResultIds(ms[target + i]))
    OBVIOUS
  <2> HIDE DEF target
  <2>1. x \in results <=> \E i \in DOMAIN late : x \in Range(IdsAt(late[i].content, "tool_result"))
    BY <1>3, IdsOfIs
  <2>2. DOMAIN late = 1..(Len(ms) - target)
    BY <1>3
  <2> QED
    BY <1>3, <2>1, <2>2 DEF ResultIds
<1> HIDE DEF results, target
<1>7. free \in SUBSET (0..target) /\ 0 \in free
  <2>1. IdsOf(early(0), "tool_use") = {}
    <3>1. 0 \in 0..target
      BY <1>2
    <3>2. \A x : x \notin IdsOf(early(0), "tool_use")
      BY <1>5, <3>1
    <3> QED
      BY <3>2
  <2> QED
    BY <1>2, <2>1
<1>8. n \in free /\ \A j \in free : j <= n
  <2> HIDE DEF free
  <2>1. \E j \in free : \A k \in free : k <= j
    BY <1>2, <1>7, Largest
  <2> QED
    BY <2>1
<1> HIDE DEF n
<1>9. n \in 1..(Len(ms) - 1) /\ n <= target
  BY <1>1, <1>2, <1>8
<1>10. ASSUME NEW i \in 1..n, NEW x \in Range(ResultIds(ms[n + 1])), x \in Range(CallIds(ms[i])) PROVE FALSE
  <2>1. n \in 0..target /\ IdsOf(early(n), "tool_use") \cap results = {}
    BY <1>8
  <2>2. x \in IdsOf(early(n), "tool_use")
    BY <1>5, <1>10, <2>1
  <2>3. x \notin results
    BY <2>1, <2>2
  <2>4. CASE n = target
    <3>1. 1 \in 1..(Len(ms) - target)
      BY <1>1, <1>2
    <3> QED
      BY <1>6, <1>10, <2>3, <2>4, <3>1
  <2>5. CASE n # target
    <3>1. n + 1 \in 0..target /\ n + 1 > n /\ n + 1 \in 1..Len(ms) /\ \A k \in 1..(n + 1) : k \in 1..n \/ k = n + 1
      BY <1>1, <1>2, <1>9, <2>5
    <3>2. n + 1 \notin free
      BY <1>8, <1>9, <3>1
    <3>3. PICK y \in results : y \in IdsOf(early(n + 1), "tool_use")
      BY <3>1, <3>2
    <3>4. PICK k \in 1..(n + 1) : y \in Range(CallIds(ms[k]))
      BY <1>5, <3>1, <3>3
    <3>5. k \notin 1..n
      BY <1>5, <2>1, <3>3, <3>4
    <3>6. y \in Range(CallIds(ms[n + 1]))
      BY <3>1, <3>4, <3>5
    <3> DEFINE m == ms[n + 1]
    <3>7. m \in Messages
      BY <3>1
    <3> HIDE DEF m
    <3>8. m.role = "user" => CallIds(m) = << >>
      BY <3>7, CallsAre
    <3>9. m.role = "assistant" => ResultIds(m) = << >>
      BY <3>7, CallsAre
    <3>10. m.role \in {"user", "assistant"}
      BY <3>7, MessageIs
    <3>11. CallIds(m) # << >> /\ ResultIds(m) # << >>
      BY <1>10, <3>6, RangeNone DEF m
    <3> QED
      BY <3>8, <3>9, <3>10, <3>11
  <2> QED
    BY <2>4, <2>5
<1>11. \A i \in 1..n : Range(ResultIds(ms[n + 1])) \cap Range(CallIds(ms[i])) = {}
  BY <1>10
<1> QED
  BY <1>1, <1>9, <1>11 DEF CutAt

-----------------------------------------------------------------------------
(* The notice of what was cut off                                          *)

LEMMA NoticeIs ==
  ASSUME NEW n \in Nat
  PROVE  /\ Notice(n) \in TextBlocks /\ Notice(n).type = "text" /\ Notice(n).text = <<"notice", n>>
         /\ Notice(n).text[1] = "notice" /\ Notice(n).text[2] = n
<1> DEFINE w == "notice"
           t == <<w, n>>
<1>1. w \in Strings
  BY DEF Strings
<1> HIDE DEF w
<1>2. t \in Words /\ t[1] = w /\ t[2] = n
  BY <1>1 DEF Words
<1> HIDE DEF t
<1>3. Text(t) \in TextBlocks /\ Text(t).type = "text" /\ Text(t).text = t
  BY <1>2 DEF Text, TextBlocks
<1>4. Notice(n) = Text(t)
  BY DEF Notice, t, w
<1> QED
  BY <1>2, <1>3, <1>4 DEF t, w

\* What matters of a message for those around it and for what is sent of it.
LEMMA NoticeMessageIs ==
  ASSUME NEW n \in Nat
  PROVE  LET m == Message("user", <<Notice(n)>>) IN
         /\ m \in Messages /\ m.role = "user" /\ m.content = <<Notice(n)>>
         /\ ResultIds(m) = << >> /\ CallIds(m) = << >>
         /\ TextsAt(m.content) = {<<"notice", n>>} /\ ~Holds(m.content, "tool_result")
<1> DEFINE b == Notice(n)
           c == <<b>>
           m == Message("user", c)
<1>1. b \in TextBlocks /\ b.type = "text" /\ b.text = <<"notice", n>>
  BY NoticeIs
<1> HIDE DEF b
<1>2. c \in Seq(ShownBlocks \cup ResultBlocks) /\ Range(c) = {b} /\ DOMAIN c = {1} /\ c[1] = b
  BY <1>1, RangeOne DEF ShownBlocks
<1>3. TextsAt(c) = {<<"notice", n>>} /\ ~Holds(c, "tool_result") /\ \A x \in Range(c) : x.type = "text"
  BY <1>1, <1>2 DEF TextsAt, Holds
<1> HIDE DEF c
<1>4. m.role = "user" /\ m.content = c /\ m \in UserMessages
  BY <1>2 DEF Message, UserMessages
<1>5. m \in Messages
  BY <1>4 DEF Messages
<1> HIDE DEF m
<1>6. CallIds(m) = << >> /\ m.content \in Seq(AllBlocks)
  BY <1>4, <1>5, CallsAre, MessageIs
<1>7. ResultIds(m) = << >>
  BY <1>3, <1>4, <1>6, IdsAtNone DEF ResultIds
<1> QED
  BY <1>3, <1>4, <1>5, <1>6, <1>7 DEF m, c, b

Adorned(m, n) == [m EXCEPT !.content = <<Notice(n)>> \o @]

LEMMA AdornedIs ==
  ASSUME NEW m \in Messages, m.role = "user", NEW n \in Nat
  PROVE  /\ Adorned(m, n) \in Messages /\ Adorned(m, n).role = "user" /\ Adorned(m, n).plain = m.plain
         /\ Adorned(m, n).content[1] = Notice(n) /\ Len(Adorned(m, n).content) = Len(m.content) + 1
         /\ Range(ResultIds(Adorned(m, n))) = Range(ResultIds(m)) /\ CallIds(Adorned(m, n)) = << >>
         /\ TextsAt(Adorned(m, n).content) = {<<"notice", n>>} \cup TextsAt(m.content)
         /\ Holds(Adorned(m, n).content, "tool_result") => Holds(m.content, "tool_result")
<1> DEFINE S == ShownBlocks \cup ResultBlocks
           b == Notice(n)
           q == <<b>>
           c == m.content
           d == Join(q, c)
           a == Adorned(m, n)
<1>1. b \in TextBlocks /\ b.type = "text" /\ b.text = <<"notice", n>>
  BY NoticeIs
<1> HIDE DEF b
<1>2. q \in Seq(S) /\ Len(q) = 1 /\ q[1] = b /\ Range(q) = {b}
  BY <1>1, RangeOne DEF ShownBlocks
<1>3. c \in Seq(S) /\ m \in UserMessages
  BY MessageIs
<1>4. a = [m EXCEPT !.content = d]
  BY DEF Adorned, Join, b, q, c
<1> HIDE DEF q, c, a, S
<1>5. d \in Seq(S) /\ Len(d) = 1 + Len(c) /\ d[1] = b /\ Range(d) = {b} \cup Range(c)
  <2>1. d \in Seq(S) /\ Len(d) = Len(q) + Len(c) /\ \A j \in 1..(Len(q) + Len(c)) : d[j] = IF j <= Len(q) THEN q[j] ELSE c[j - Len(q)]
    BY <1>2, <1>3, JoinAt
  <2>2. Range(d) = Range(q) \cup Range(c)
    BY <1>2, <1>3, RangeJoin
  <2>3. Len(c) \in Nat /\ 1 \in 1..(1 + Len(c))
    BY <1>3
  <2> QED
    BY <1>2, <2>1, <2>2, <2>3
<1> HIDE DEF d
<1>6. a.role = "user" /\ a.plain = m.plain /\ a.content = d /\ a \in UserMessages
  BY <1>3, <1>4, <1>5 DEF UserMessages, S
<1>7. a \in Messages
  BY <1>6 DEF Messages
<1>8. CallIds(a) = << >> /\ Range(ResultIds(a)) = {x.id : x \in {x \in Range(d) : x.type = "tool_result"}}
  BY <1>6, <1>7, CallsAre
<1>9. Range(ResultIds(m)) = {x.id : x \in {x \in Range(c) : x.type = "tool_result"}}
  BY CallsAre DEF c
<1>10. {x \in Range(d) : x.type = "tool_result"} = {x \in Range(c) : x.type = "tool_result"}
  BY <1>1, <1>5
<1>11. TextsAt(d) = {<<"notice", n>>} \cup TextsAt(c)
  BY <1>1, <1>5 DEF TextsAt
<1>12. Holds(d, "tool_result") => Holds(c, "tool_result")
  <2>1. Holds(d, "tool_result") => \E x \in Range(d) : x.type = "tool_result"
    BY DEF Holds, Range
  <2>2. (\E x \in Range(c) : x.type = "tool_result") => Holds(c, "tool_result")
    BY DEF Holds, Range
  <2> QED
    BY <1>1, <1>5, <2>1, <2>2
<1> QED
  BY <1>5, <1>6, <1>7, <1>8, <1>9, <1>10, <1>11, <1>12 DEF a, b, c

\* Where the notice goes, if it goes anywhere.
Noted(B, R, n) ==
  \/ /\ R[1].role # "user" /\ Len(B) = Len(R) + 1 /\ B[1] = Message("user", <<Notice(n)>>)
     /\ \A j \in 1..Len(R) : B[j + 1] = R[j]
  \/ R[1].role = "user" /\ R[1].plain /\ B = R
  \/ /\ R[1].role = "user" /\ Len(B) = Len(R) /\ B[1] = Adorned(R[1], n)
     /\ \A j \in 2..Len(R) : B[j] = R[j]

LEMMA WithNoticeIs ==
  ASSUME NEW R \in Seq(Messages), R # << >>, NEW n \in Nat
  PROVE  WithNotice(R, n) \in Seq(Messages) /\ Noted(WithNotice(R, n), R, n)
<1>1. Len(R) \in Nat /\ Len(R) >= 1 /\ R[1] \in Messages
  BY NotEmpty
<1>2. CASE R[1].role # "user"
  <2> DEFINE m == Message("user", <<Notice(n)>>)
             q == <<m>>
  <2>1. m \in Messages
    BY NoticeMessageIs
  <2> HIDE DEF m
  <2>2. q \in Seq(Messages) /\ Len(q) = 1 /\ q[1] = m
    BY <2>1
  <2>3. WithNotice(R, n) = Join(q, R)
    BY <1>2 DEF WithNotice, Join, m
  <2> HIDE DEF q
  <2>4. /\ Join(q, R) \in Seq(Messages) /\ Len(Join(q, R)) = Len(q) + Len(R)
        /\ \A j \in 1..(Len(q) + Len(R)) : Join(q, R)[j] = IF j <= Len(q) THEN q[j] ELSE R[j - Len(q)]
    BY <2>2, JoinAt
  <2>5. \A j \in 1..Len(R) : j + 1 \in 1..(1 + Len(R)) /\ ~(j + 1 <= 1) /\ j + 1 - 1 = j
    BY <1>1
  <2>6. \A j \in 1..Len(R) : Join(q, R)[j + 1] = R[j]
    BY <2>2, <2>4, <2>5
  <2>7. Join(q, R)[1] = m
    BY <1>1, <2>2, <2>4
  <2> QED
    BY <1>1, <1>2, <2>2, <2>3, <2>4, <2>6, <2>7 DEF Noted, m
<1>3. CASE R[1].role = "user" /\ R[1].plain
  BY <1>3 DEF Noted, WithNotice
<1>4. CASE R[1].role = "user" /\ ~R[1].plain
  <2> DEFINE m == Adorned(R[1], n)
             q == <<m>>
             T == Tail(R)
  <2>1. m \in Messages
    <3> DEFINE r == R[1]
    <3>1. r \in Messages /\ r.role = "user"
      BY <1>1, <1>4
    <3> HIDE DEF r
    <3>2. Adorned(r, n) \in Messages
      BY <3>1, AdornedIs
    <3> QED
      BY <3>2 DEF r
  <2>2. WithNotice(R, n) = Join(q, T)
    BY <1>4 DEF WithNotice, Join, Adorned
  <2> HIDE DEF m
  <2>3. q \in Seq(Messages) /\ Len(q) = 1 /\ q[1] = m
    BY <2>1
  <2>4. T \in Seq(Messages) /\ Len(T) = Len(R) - 1 /\ \A j \in 1..(Len(R) - 1) : T[j] = R[j + 1]
    BY HeadTailProperties
  <2> HIDE DEF q, T
  <2>5. /\ Join(q, T) \in Seq(Messages) /\ Len(Join(q, T)) = Len(q) + Len(T)
        /\ \A j \in 1..(Len(q) + Len(T)) : Join(q, T)[j] = IF j <= Len(q) THEN q[j] ELSE T[j - Len(q)]
    <3>1. q \in Seq(Messages) /\ T \in Seq(Messages)
      BY <2>3, <2>4
    <3> QED
      BY <3>1, JoinAt
  <2>6. \A j \in 2..Len(R) : j \in 1..(1 + Len(R) - 1) /\ ~(j <= 1) /\ j - 1 \in 1..(Len(R) - 1) /\ j - 1 + 1 = j
    BY <1>1
  <2>7. \A j \in 2..Len(R) : Join(q, T)[j] = R[j]
    <3> SUFFICES ASSUME NEW j \in 2..Len(R) PROVE Join(q, T)[j] = R[j]
      OBVIOUS
    <3>1. Join(q, T)[j] = T[j - 1]
      BY <1>1, <2>3, <2>4, <2>5, <2>6
    <3> QED
      BY <2>4, <2>6, <3>1
  <2>8. Join(q, T)[1] = m /\ Len(Join(q, T)) = Len(R)
    BY <1>1, <2>3, <2>4, <2>5
  <2> QED
    BY <1>4, <2>2, <2>5, <2>7, <2>8 DEF Noted, m
<1> QED
  BY <1>2, <1>3, <1>4

-----------------------------------------------------------------------------
(* The history as it was prepared                                          *)

SummaryWords == {"summary", "no summary"}

Stands(word, n) == [role |-> "user", plain |-> TRUE, content |-> <<Text(<<word, n>>)>>]

\* The message that stands for what was said before.
LEMMA StandsIs ==
  ASSUME NEW word \in SummaryWords, NEW n \in Nat
  PROVE  /\ Stands(word, n) \in Messages /\ Stands(word, n).role = "user" /\ Stands(word, n).plain
         /\ IsSummary(Stands(word, n)) /\ TextsAt(Stands(word, n).content) = {<<word, n>>}
         /\ ResultIds(Stands(word, n)) = << >> /\ CallIds(Stands(word, n)) = << >>
<1> DEFINE t == <<word, n>>
           b == Text(t)
           c == <<b>>
           m == Stands(word, n)
<1>1. t \in Words /\ t[1] = word
  BY DEF Words, Strings, SummaryWords
<1> HIDE DEF t
<1>2. b \in TextBlocks /\ b.type = "text" /\ b.text = t
  BY <1>1 DEF Text, TextBlocks
<1> HIDE DEF b
<1>3. c \in Seq(ShownBlocks \cup ResultBlocks) /\ Range(c) = {b} /\ c[1] = b
  BY <1>2, RangeOne DEF ShownBlocks
<1> HIDE DEF c
<1>4. m = [role |-> "user", plain |-> TRUE, content |-> c]
  BY DEF Stands, c, b, t
<1> HIDE DEF m
<1>5. m.role = "user" /\ m.plain /\ m.content = c /\ m \in UserMessages
  BY <1>3, <1>4 DEF UserMessages
<1>6. m \in Messages
  BY <1>5 DEF Messages
<1>7. CallIds(m) = << >> /\ m.content \in Seq(AllBlocks)
  BY <1>5, <1>6, CallsAre, MessageIs
<1>8. ResultIds(m) = << >>
  BY <1>2, <1>3, <1>5, <1>7, IdsAtNone DEF ResultIds
<1>9. TextsAt(c) = {t}
  BY <1>2, <1>3 DEF TextsAt
<1>10. IsSummary(m)
  BY <1>1, <1>2, <1>3, <1>5 DEF IsSummary, SummaryWords
<1> QED
  BY <1>5, <1>6, <1>7, <1>8, <1>9, <1>10 DEF m, t

\* The end of a history after a message that stands for the rest of it.
Summed(L, P) ==
  /\ Len(P) > Compression.keep_recent /\ Len(L) = Compression.keep_recent + 1
  /\ \A j \in 1..Compression.keep_recent : L[j + 1] = P[Len(P) - Compression.keep_recent + j]
  /\ \E word \in SummaryWords : L[1] = Stands(word, Len(P) - Compression.keep_recent)

LEMMA KeepRecentIs == Compression.keep_recent \in Nat
BY ConversationAssumption

LEMMA CompressedIs ==
  ASSUME NEW P \in Seq(Messages), NEW word \in SummaryWords, Len(P) > Compression.keep_recent
  PROVE  Compressed(P, word) \in Seq(Messages) /\ Summed(Compressed(P, word), P)
<1> DEFINE keep == Compression.keep_recent
           n == Len(P) - keep
           m == Stands(word, n)
           q == <<m>>
           r == Rest(P, n)
           L == Compressed(P, word)
<1>1. keep \in Nat /\ Len(P) \in Nat
  BY KeepRecentIs
<1>2. n \in Nat /\ n \in 0..Len(P) /\ Len(P) - n = keep
  BY <1>1
<1>3. L = Join(q, r)
  BY DEF Compressed, Join, Stands, Rest
<1> HIDE DEF n
<1>4. m \in Messages
  BY <1>2, StandsIs
<1> HIDE DEF keep
<1>5. r \in Seq(Messages) /\ Len(r) = Len(P) - n /\ \A i \in 1..(Len(P) - n) : r[i] = P[n + i]
  BY <1>2, RestIs
<1> HIDE DEF m, r
<1>6. q \in Seq(Messages) /\ Len(q) = 1 /\ q[1] = m
  BY <1>4
<1> HIDE DEF q, L
<1>7. /\ L \in Seq(Messages) /\ Len(L) = Len(q) + Len(r)
      /\ \A j \in 1..(Len(q) + Len(r)) : L[j] = IF j <= Len(q) THEN q[j] ELSE r[j - Len(q)]
  <2>1. r \in Seq(Messages) /\ q \in Seq(Messages)
    BY <1>5, <1>6
  <2> QED
    BY <1>3, <2>1, JoinAt
<1>8. L[1] = m /\ Len(L) = keep + 1 /\ \A j \in 1..(1 + keep) : L[j] = IF j <= 1 THEN q[j] ELSE r[j - 1]
  <2>1. Len(q) = 1 /\ Len(r) = keep /\ Len(q) + Len(r) = 1 + keep /\ 1 \in 1..(1 + keep) /\ keep + 1 = 1 + keep
    BY <1>1, <1>2, <1>5, <1>6
  <2>2. Len(L) = 1 + keep /\ \A j \in 1..(1 + keep) : L[j] = IF j <= 1 THEN q[j] ELSE r[j - 1]
    BY <1>7, <2>1
  <2> QED
    BY <1>6, <2>1, <2>2
<1>9. \A j \in 1..keep : L[j + 1] = P[n + j]
  <2> SUFFICES ASSUME NEW j \in 1..keep PROVE L[j + 1] = P[n + j]
    OBVIOUS
  <2>1. j + 1 \in 1..(1 + keep) /\ ~(j + 1 <= 1) /\ j + 1 - 1 = j /\ j \in 1..(Len(P) - n)
    BY <1>1, <1>2
  <2>2. L[j + 1] = r[j]
    BY <1>8, <2>1
  <2> QED
    BY <1>5, <2>1, <2>2
<1> QED
  BY <1>7, <1>8, <1>9 DEF Summed, L, m, n, keep

\* A history and what is prepared of it.
LEMMA PreparedFromIs ==
  ASSUME NEW P \in Seq(Messages), NEW L \in PreparedFrom(P)
  PROVE  L \in Seq(Messages) /\ (L = P \/ Summed(L, P))
<1>1. CASE L = P
  BY <1>1
<1>2. CASE L # P
  <2>1. PICK word \in SummaryWords : Len(P) > Compression.keep_recent /\ L = Compressed(P, word)
    BY <1>2 DEF PreparedFrom, SummaryWords
  <2> QED
    BY <2>1, CompressedIs
<1> QED
  BY <1>1, <1>2

\* The calls that went with the messages that a summary stands for.
OldCalls(P) == UNION {Range(CallIds(P[i])) : i \in 1..(Len(P) - Compression.keep_recent)}

LEMMA HistoryAnswered ==
  ASSUME NEW P, History(P), P # << >>, CallIds(P[Len(P)]) = << >>
  PROVE  Answered(P, {})
<1>1. Range(ResultIds(P[1])) = {}
  BY RangeNone DEF History
<1> QED
  BY <1>1 DEF Answered, History

LEMMA SummedAnswered ==
  ASSUME NEW P, History(P), P # << >>, CallIds(P[Len(P)]) = << >>, NEW L \in Seq(Messages), Summed(L, P)
  PROVE  Answered(L, OldCalls(P))
<1> DEFINE keep == Compression.keep_recent
           N == Len(P) - keep
<1>1. keep \in Nat /\ Len(P) \in Nat /\ P \in Seq(Messages)
  BY KeepRecentIs DEF History
<1>2. N \in Nat /\ N >= 1 /\ N + keep = Len(P)
  BY <1>1 DEF Summed
<1>3. Len(L) = keep + 1 /\ \A j \in 1..keep : L[j + 1] = P[N + j]
  BY DEF Summed
<1>4. CallIds(L[1]) = << >> /\ ResultIds(L[1]) = << >>
  <2>1. PICK word \in SummaryWords : L[1] = Stands(word, N)
    BY DEF Summed
  <2> HIDE DEF N
  <2> QED
    BY <1>2, <2>1, StandsIs
<1>5. N \in 1..N
  BY <1>2
<1>6. Range(CallIds(P[N])) \subseteq OldCalls(P)
  BY <1>5 DEF OldCalls
<1> HIDE DEF keep, N
<1>7. Range(ResultIds(L[1])) \subseteq OldCalls(P)
  BY <1>4, RangeNone
<1>8. CallIds(L[Len(L)]) = << >>
  <2>1. CASE keep = 0
    BY <1>1, <1>3, <1>4, <2>1
  <2>2. CASE keep # 0
    <3>1. keep \in 1..keep /\ N + keep = Len(P)
      BY <1>1, <1>2, <2>2
    <3> QED
      BY <1>3, <3>1
  <2> QED
    BY <2>1, <2>2
<1>9. ASSUME NEW i \in 1..(Len(L) - 1)
      PROVE  \/ ResultIds(L[i + 1]) = CallIds(L[i])
             \/ (CallIds(L[i]) = << >> /\ Range(ResultIds(L[i + 1])) \subseteq OldCalls(P))
  <2>1. i \in 1..keep /\ L[i + 1] = P[N + i]
    BY <1>1, <1>3
  <2>2. N + i - 1 \in 1..(Len(P) - 1) /\ N + i - 1 + 1 = N + i
    BY <1>1, <1>2, <2>1
  <2>3. ResultIds(P[N + i]) = CallIds(P[N + i - 1])
    BY <2>2 DEF History
  <2>4. CASE i = 1
    <3>1. N + i - 1 = N
      BY <1>2, <2>4
    <3> QED
      BY <1>4, <1>6, <2>1, <2>3, <2>4, <3>1
  <2>5. CASE i # 1
    <3>1. i - 1 \in 1..keep /\ i - 1 + 1 = i /\ N + (i - 1) = N + i - 1
      BY <1>1, <1>2, <2>1, <2>5
    <3>2. L[i] = P[N + i - 1]
      BY <1>3, <3>1
    <3> QED
      BY <2>1, <2>3, <3>2
  <2> QED
    BY <2>4, <2>5
<1>10. L # << >>
  BY <1>1, <1>3
<1> QED
  BY <1>7, <1>8, <1>9, <1>10 DEF Answered

-----------------------------------------------------------------------------
(* What one candidate is sent of it                                        *)

\* All of it, or what is left after a cut, with the notice where it goes.
BodyOf(B, L) ==
  \/ B = L
  \/ \E n \in 1..(Len(L) - 1) : CutAt(L, n) /\ Noted(B, Rest(L, n), n)

LEMMA BodyIs ==
  ASSUME NEW L \in Seq(Messages), NEW p \in Profiles
  PROVE  AutoCompacted(L, p) \in Seq(Messages) /\ BodyOf(AutoCompacted(L, p), L)
<1> DEFINE n == KeepFrom(L, MaxItems[p])
<1>1. CASE MaxItems[p] = 0 \/ SkipsCompaction(L) \/ Weight(L) <= Reserve \/ n = 0
  <2>1. AutoCompacted(L, p) = L
    BY <1>1 DEF AutoCompacted
  <2> QED
    BY <2>1 DEF BodyOf
<1>2. CASE ~(MaxItems[p] = 0 \/ SkipsCompaction(L) \/ Weight(L) <= Reserve \/ n = 0)
  <2>1. MaxItems[p] \in Nat \ {0} /\ n # 0
    BY <1>2, ConversationAssumption
  <2>2. CutAt(L, n)
    BY <2>1, KeepFromIs
  <2>3. AutoCompacted(L, p) = WithNotice(Rest(L, n), n)
    BY <1>2 DEF AutoCompacted, Rest
  <2> HIDE DEF n
  <2>4. n \in 1..(Len(L) - 1) /\ n \in 0..Len(L) /\ n \in Nat /\ Len(L) - n >= 1
    BY <2>2 DEF CutAt
  <2> DEFINE R == Rest(L, n)
  <2>5. R \in Seq(Messages) /\ Len(R) = Len(L) - n
    BY <2>4, RestIs
  <2> HIDE DEF R
  <2>6. R # << >>
    BY <2>4, <2>5
  <2>7. WithNotice(R, n) \in Seq(Messages) /\ Noted(WithNotice(R, n), R, n)
    BY <2>4, <2>5, <2>6, WithNoticeIs
  <2> QED
    BY <2>2, <2>3, <2>4, <2>7 DEF BodyOf, R
<1> QED
  BY <1>1, <1>2

LEMMA CutAnswered ==
  ASSUME NEW L \in Seq(Messages), NEW X, Answered(L, X), NEW n, CutAt(L, n)
  PROVE  /\ Rest(L, n) \in Seq(Messages) /\ Rest(L, n) # << >> /\ Answered(Rest(L, n), X)
         /\ X = {} => Range(ResultIds(Rest(L, n)[1])) = {}
<1> DEFINE R == Rest(L, n)
<1>1. n \in 1..(Len(L) - 1) /\ n \in 0..Len(L) /\ n \in Nat /\ Len(L) \in Nat /\ Len(L) - n >= 1
  BY DEF CutAt
<1>2. R \in Seq(Messages) /\ Len(R) = Len(L) - n /\ \A i \in 1..(Len(L) - n) : R[i] = L[n + i]
  BY <1>1, RestIs
<1> HIDE DEF R
<1>3. R # << >> /\ 1 \in 1..(Len(L) - n) /\ R[1] = L[n + 1] /\ R[Len(R)] = L[Len(L)]
  <2>1. 1 \in 1..(Len(L) - n) /\ Len(L) - n \in 1..(Len(L) - n) /\ n + (Len(L) - n) = Len(L)
    BY <1>1
  <2>2. R[1] = L[n + 1] /\ R[Len(L) - n] = L[Len(L)]
    BY <1>2, <2>1
  <2> QED
    BY <1>1, <1>2, <2>1, <2>2
<1>4. /\ CallIds(L[Len(L)]) = << >>
      /\ \A i \in 1..(Len(L) - 1) : \/ ResultIds(L[i + 1]) = CallIds(L[i])
                                    \/ (CallIds(L[i]) = << >> /\ Range(ResultIds(L[i + 1])) \subseteq X)
  BY DEF Answered
<1>5. Range(ResultIds(L[n + 1])) = {} \/ Range(ResultIds(L[n + 1])) \subseteq X
  <2>1. Range(ResultIds(L[n + 1])) \cap Range(CallIds(L[n])) = {}
    BY <1>1 DEF CutAt
  <2>2. CASE ResultIds(L[n + 1]) = CallIds(L[n])
    BY <2>1, <2>2
  <2>3. CASE CallIds(L[n]) = << >> /\ Range(ResultIds(L[n + 1])) \subseteq X
    BY <2>3
  <2> QED
    BY <1>1, <1>4, <2>2, <2>3
<1>6. \A i \in 1..(Len(R) - 1) : \/ ResultIds(R[i + 1]) = CallIds(R[i])
                                 \/ (CallIds(R[i]) = << >> /\ Range(ResultIds(R[i + 1])) \subseteq X)
  <2> SUFFICES ASSUME NEW i \in 1..(Len(R) - 1)
               PROVE  \/ ResultIds(R[i + 1]) = CallIds(R[i])
                      \/ (CallIds(R[i]) = << >> /\ Range(ResultIds(R[i + 1])) \subseteq X)
    OBVIOUS
  <2>1. /\ n + i \in 1..(Len(L) - 1) /\ i \in 1..(Len(L) - n) /\ i + 1 \in 1..(Len(L) - n)
        /\ n + (i + 1) = n + i + 1
    BY <1>1, <1>2
  <2>2. R[i] = L[n + i] /\ R[i + 1] = L[n + i + 1]
    BY <1>2, <2>1
  <2> QED
    BY <1>4, <2>1, <2>2
<1>7. Answered(R, X)
  BY <1>3, <1>4, <1>5, <1>6 DEF Answered
<1> QED
  BY <1>2, <1>3, <1>5, <1>7 DEF R

LEMMA NotedAnswered ==
  ASSUME NEW R \in Seq(Messages), R # << >>, NEW X, Answered(R, X), NEW n \in Nat, NEW B, Noted(B, R, n)
  PROVE  Answered(B, X)
<1>1. Len(R) \in Nat /\ Len(R) >= 1 /\ R[1] \in Messages
  BY NotEmpty
<1>2. /\ Range(ResultIds(R[1])) \subseteq X /\ CallIds(R[Len(R)]) = << >>
      /\ \A i \in 1..(Len(R) - 1) : \/ ResultIds(R[i + 1]) = CallIds(R[i])
                                    \/ (CallIds(R[i]) = << >> /\ Range(ResultIds(R[i + 1])) \subseteq X)
  BY DEF Answered
<1>3. CASE /\ R[1].role # "user" /\ Len(B) = Len(R) + 1 /\ B[1] = Message("user", <<Notice(n)>>)
           /\ \A j \in 1..Len(R) : B[j + 1] = R[j]
  <2>1. ResultIds(B[1]) = << >> /\ CallIds(B[1]) = << >>
    BY <1>3, NoticeMessageIs
  <2>2. B # << >>
    BY <1>1, <1>3
  <2>3. CallIds(B[Len(B)]) = << >>
    BY <1>1, <1>2, <1>3
  <2>4. ASSUME NEW i \in 1..(Len(B) - 1)
        PROVE  \/ ResultIds(B[i + 1]) = CallIds(B[i])
               \/ (CallIds(B[i]) = << >> /\ Range(ResultIds(B[i + 1])) \subseteq X)
    <3>1. i \in 1..Len(R) /\ B[i + 1] = R[i]
      BY <1>1, <1>3
    <3>2. CASE i = 1
      BY <1>2, <2>1, <3>1, <3>2
    <3>3. CASE i # 1
      <4>1. i - 1 \in 1..Len(R) /\ i - 1 \in 1..(Len(R) - 1) /\ i - 1 + 1 = i
        BY <1>1, <3>1, <3>3
      <4>2. B[i] = R[i - 1]
        BY <1>3, <4>1
      <4> QED
        BY <1>2, <3>1, <4>1, <4>2
    <3> QED
      BY <3>2, <3>3
  <2> QED
    BY <2>1, <2>2, <2>3, <2>4, RangeNone DEF Answered
<1>4. CASE R[1].role = "user" /\ R[1].plain /\ B = R
  BY <1>4
<1>5. CASE /\ R[1].role = "user" /\ Len(B) = Len(R) /\ B[1] = Adorned(R[1], n)
           /\ \A j \in 2..Len(R) : B[j] = R[j]
  <2>1. Range(ResultIds(B[1])) = Range(ResultIds(R[1])) /\ CallIds(B[1]) = << >> /\ CallIds(R[1]) = << >>
    <3> DEFINE m == R[1]
    <3>1. m \in Messages /\ m.role = "user"
      BY <1>1, <1>5
    <3> HIDE DEF m
    <3>2. Range(ResultIds(Adorned(m, n))) = Range(ResultIds(m)) /\ CallIds(Adorned(m, n)) = << >>
      BY <3>1, AdornedIs
    <3>3. CallIds(m) = << >>
      BY <3>1, CallsAre
    <3> QED
      BY <1>5, <3>2, <3>3 DEF m
  <2>2. B # << >>
    BY <1>1, <1>5
  <2>3. \A i \in 1..Len(R) : i = 1 \/ i \in 2..Len(R)
    BY <1>1
  <2>4. \A i \in 1..Len(R) : CallIds(B[i]) = CallIds(R[i])
    BY <1>5, <2>1, <2>3
  <2>5. Len(R) \in 1..Len(R) /\ \A i \in 1..(Len(R) - 1) : i + 1 \in 2..Len(R) /\ i \in 1..Len(R)
    BY <1>1
  <2>6. \A i \in 1..(Len(R) - 1) : B[i + 1] = R[i + 1] /\ CallIds(B[i]) = CallIds(R[i])
    BY <1>5, <2>4, <2>5
  <2> QED
    BY <1>2, <1>5, <2>1, <2>2, <2>4, <2>5, <2>6 DEF Answered
<1> QED
  BY <1>3, <1>4, <1>5 DEF Noted

LEMMA BodyAnswered ==
  ASSUME NEW L \in Seq(Messages), NEW X, Answered(L, X), NEW B, BodyOf(B, L)
  PROVE  Answered(B, X)
<1>1. CASE B = L
  BY <1>1
<1>2. CASE B # L
  <2>1. PICK n \in 1..(Len(L) - 1) : CutAt(L, n) /\ Noted(B, Rest(L, n), n)
    BY <1>2 DEF BodyOf
  <2>2. n \in Nat
    OBVIOUS
  <2> DEFINE R == Rest(L, n)
  <2>3. R \in Seq(Messages) /\ R # << >> /\ Answered(R, X)
    BY <2>1, CutAnswered
  <2>4. Noted(B, R, n)
    BY <2>1
  <2> HIDE DEF R
  <2> QED
    BY <2>2, <2>3, <2>4, NotedAnswered
<1> QED
  BY <1>1, <1>2

\* The messages of the client's in what is sent, as Kept counts them.
KeptOf(B) == Len(B) - (IF IsNotice(B[1]) \/ IsSummary(B[1]) THEN 1 ELSE 0)

\* m has the texts of q.
Shows(m, q) == TextsAt(q.content) \subseteq TextsAt(m.content) /\ (Holds(m.content, "tool_result") => Holds(q.content, "tool_result"))

NoticesAt(m) == {t \in TextsAt(m.content) : t[1] = "notice"}

\* What is sent as B of P, from the preparation L, shows the end of P, tells of what is
\* missing and counts it.
Telling(B, L, P) ==
  /\ KeptOf(B) \in 0..Len(P)
  /\ \A j \in 1..KeptOf(B) : \E i \in DOMAIN B : Shows(B[i], P[Len(P) - KeptOf(B) + j])
  /\ \A i \in DOMAIN B : \A t \in NoticesAt(B[i]) : t[2] + KeptOf(B) = Len(L)
  /\ KeptOf(B) < Len(P) => L # P \/ B[1].plain \/ (NoticesAt(B[1]) # {} /\ ~Holds(B[1].content, "tool_result"))

LEMMA ShowsItself ==
  ASSUME NEW m
  PROVE  Shows(m, m)
BY DEF Shows

LEMMA UnmarkedIs ==
  ASSUME NEW m \in Messages, Unmarked(m)
  PROVE  ~IsNotice(m) /\ ~IsSummary(m) /\ NoticesAt(m) = {} /\ Len(m.content) \in Nat \ {0}
<1> DEFINE c == m.content
<1>1. c \in Seq(AllBlocks) /\ c # << >>
  BY MessageIs DEF Unmarked
<1>2. \A b \in Range(c) : b.type = "text" => b.text[1] # "notice" /\ b.text[1] # "summary" /\ b.text[1] # "no summary"
  BY DEF Unmarked
<1> HIDE DEF c
<1>3. Len(c) \in Nat \ {0} /\ c[1] \in Range(c)
  BY <1>1 DEF Range
<1>4. c[1].type = "text" => c[1].text[1] # "notice" /\ c[1].text[1] # "summary" /\ c[1].text[1] # "no summary"
  BY <1>2, <1>3
<1>5. ~IsNotice(m)
  BY <1>4 DEF IsNotice, c
<1>6. ~IsSummary(m)
  BY <1>4 DEF IsSummary, c
<1>7. NoticesAt(m) = {}
  BY <1>2 DEF NoticesAt, TextsAt, c
<1> QED
  BY <1>3, <1>5, <1>6, <1>7 DEF c

LEMMA NoResults ==
  ASSUME NEW m \in Messages, Range(ResultIds(m)) = {}
  PROVE  ~Holds(m.content, "tool_result")
<1>1. Range(ResultIds(m)) = {b.id : b \in {b \in Range(m.content) : b.type = "tool_result"}}
  BY CallsAre
<1>2. {b \in Range(m.content) : b.type = "tool_result"} = {}
  BY <1>1
<1> QED
  BY <1>2 DEF Holds, Range

\* R is the end of P.
EndOf(R, P) ==
  /\ Len(R) <= Len(P)
  /\ \A j \in 1..Len(R) : R[j] = P[Len(P) - Len(R) + j] /\ Unmarked(R[j])

\* The notice counts what comes before R.
LEMMA CutTells ==
  ASSUME NEW P \in Seq(Messages), NEW R \in Seq(Messages), R # << >>, EndOf(R, P), NEW n \in Nat, NEW B, Noted(B, R, n),
         NEW L, n + Len(R) = Len(L), L # P \/ Range(ResultIds(R[1])) = {},
         DOMAIN B = 1..Len(B)
  PROVE  Telling(B, L, P)
<1> DEFINE r == Len(R)
           m == R[1]
           At(j) == P[Len(P) - r + j]
<1>1. r \in Nat /\ r >= 1 /\ m \in Messages /\ Len(P) \in Nat /\ r \in 0..Len(P)
  BY NotEmpty DEF EndOf
<1>2. 1 \in 1..r
  BY <1>1
<1>3. \A j \in 1..r : R[j] = At(j) /\ Unmarked(R[j]) /\ R[j] \in Messages
  BY DEF EndOf
<1>4. \A j \in 1..r : NoticesAt(R[j]) = {}
  BY <1>3, UnmarkedIs
<1>5. ~IsNotice(m) /\ ~IsSummary(m) /\ Len(m.content) \in Nat \ {0}
  BY <1>2, <1>3, UnmarkedIs
<1>6. L = P => ~Holds(m.content, "tool_result")
  BY <1>1, NoResults
<1>7. Notice(n).type = "text" /\ Notice(n).text[1] = "notice" /\ Notice(n).text = <<"notice", n>>
  BY NoticeIs
<1>8. <<"notice", n>>[1] = "notice" /\ <<"notice", n>>[2] = n
  OBVIOUS
<1> HIDE DEF m, r, At
<1>9. ASSUME KeptOf(B) = r, \A j \in 1..r : \E i \in DOMAIN B : Shows(B[i], R[j]),
             \A i \in DOMAIN B : \A t \in NoticesAt(B[i]) : t[2] = n,
             L # P \/ B[1].plain \/ (NoticesAt(B[1]) # {} /\ ~Holds(B[1].content, "tool_result"))
      PROVE  Telling(B, L, P)
  <2>1. \A j \in 1..r : \E i \in DOMAIN B : Shows(B[i], P[Len(P) - r + j])
    BY <1>3, <1>9 DEF At
  <2>2. \A i \in DOMAIN B : \A t \in NoticesAt(B[i]) : t[2] + r = Len(L)
    BY <1>9 DEF r
  <2> QED
    BY <1>1, <1>9, <2>1, <2>2 DEF Telling
<1>10. CASE /\ m.role # "user" /\ Len(B) = r + 1 /\ B[1] = Message("user", <<Notice(n)>>)
            /\ \A j \in 1..r : B[j + 1] = R[j]
  <2> DEFINE q == B[1]
  <2>1. q.content = <<Notice(n)>> /\ TextsAt(q.content) = {<<"notice", n>>} /\ ~Holds(q.content, "tool_result")
    BY <1>10, NoticeMessageIs
  <2>2. IsNotice(q)
    <3> HIDE DEF q
    <3>1. Len(q.content) = 1 /\ q.content[1] = Notice(n)
      BY <2>1
    <3> QED
      BY <1>7, <3>1 DEF IsNotice
  <2>3. KeptOf(B) = r
    BY <1>1, <1>10, <2>2 DEF KeptOf
  <2>4. NoticesAt(q) = {<<"notice", n>>}
    <3> HIDE DEF q
    <3> QED
      BY <1>8, <2>1 DEF NoticesAt
  <2> HIDE DEF q
  <2>5. \A j \in 1..r : j + 1 \in DOMAIN B
    BY <1>1, <1>10
  <2>6. \A j \in 1..r : \E i \in DOMAIN B : Shows(B[i], R[j])
    BY <1>10, <2>5, ShowsItself
  <2>7. \A i \in DOMAIN B : i = 1 \/ (i - 1 \in 1..r /\ i - 1 + 1 = i)
    BY <1>1, <1>10
  <2>8. \A i \in DOMAIN B : B[i] = q \/ NoticesAt(B[i]) = {}
    <3> SUFFICES ASSUME NEW i \in DOMAIN B PROVE B[i] = q \/ NoticesAt(B[i]) = {}
      OBVIOUS
    <3>1. CASE i = 1
      BY <3>1 DEF q
    <3>2. CASE i # 1
      <4>1. B[i] = R[i - 1]
        BY <1>10, <2>7, <3>2
      <4> QED
        BY <1>4, <2>7, <3>2, <4>1
    <3> QED
      BY <3>1, <3>2
  <2>9. \A i \in DOMAIN B : \A t \in NoticesAt(B[i]) : t[2] = n
    BY <1>8, <2>4, <2>8
  <2> QED
    BY <1>9, <2>1, <2>3, <2>4, <2>6, <2>9 DEF q
<1>11. CASE m.role = "user" /\ m.plain /\ B = R
  <2>1. KeptOf(B) = r
    <3>1. ~IsNotice(B[1]) /\ ~IsSummary(B[1]) /\ Len(B) = r
      BY <1>5, <1>11 DEF m, r
    <3> QED
      BY <1>1, <3>1 DEF KeptOf
  <2>2. \A j \in 1..r : \E i \in DOMAIN B : Shows(B[i], R[j])
    BY <1>11, ShowsItself DEF r
  <2>3. \A i \in DOMAIN B : \A t \in NoticesAt(B[i]) : t[2] = n
    BY <1>4, <1>11 DEF r
  <2> QED
    BY <1>9, <1>11, <2>1, <2>2, <2>3 DEF m
<1>12. CASE /\ m.role = "user" /\ Len(B) = r /\ B[1] = Adorned(m, n)
            /\ \A j \in 2..r : B[j] = R[j]
  <2> DEFINE q == B[1]
  <2>1. /\ q.content[1] = Notice(n) /\ Len(q.content) = Len(m.content) + 1
        /\ TextsAt(q.content) = {<<"notice", n>>} \cup TextsAt(m.content)
        /\ Holds(q.content, "tool_result") => Holds(m.content, "tool_result")
    <3> DEFINE a == Adorned(m, n)
    <3>1. /\ a.content[1] = Notice(n) /\ Len(a.content) = Len(m.content) + 1
          /\ TextsAt(a.content) = {<<"notice", n>>} \cup TextsAt(m.content)
          /\ Holds(a.content, "tool_result") => Holds(m.content, "tool_result")
      BY <1>1, <1>12, AdornedIs
    <3> HIDE DEF a
    <3> QED
      BY <1>12, <3>1 DEF a
  <2> HIDE DEF q
  <2>2. ~IsNotice(q)
    BY <1>5, <2>1 DEF IsNotice
  <2>3. ~IsSummary(q)
    BY <1>7, <2>1 DEF IsSummary
  <2>4. KeptOf(B) = r
    BY <1>1, <1>12, <2>2, <2>3 DEF KeptOf, q
  <2>5. NoticesAt(m) = {}
    BY <1>2, <1>4 DEF m
  <2>6. NoticesAt(q) = {<<"notice", n>>}
    BY <1>8, <2>1, <2>5 DEF NoticesAt
  <2>7. Shows(q, m)
    BY <2>1 DEF Shows
  <2>8. 1 \in DOMAIN B /\ \A i \in DOMAIN B : i \in 1..r /\ (i = 1 \/ i \in 2..r)
    BY <1>1, <1>12
  <2>9. \A j \in 1..r : \E i \in DOMAIN B : Shows(B[i], R[j])
    <3> SUFFICES ASSUME NEW j \in 1..r PROVE \E i \in DOMAIN B : Shows(B[i], R[j])
      OBVIOUS
    <3>1. CASE j = 1
      BY <2>7, <2>8, <3>1 DEF q, m
    <3>2. CASE j # 1
      <4>1. j \in 2..r /\ j \in DOMAIN B
        BY <1>1, <1>12, <3>2
      <4> QED
        BY <1>12, <4>1, ShowsItself
    <3> QED
      BY <3>1, <3>2
  <2>10. \A i \in DOMAIN B : \A t \in NoticesAt(B[i]) : t[2] = n
    <3> SUFFICES ASSUME NEW i \in DOMAIN B, NEW t \in NoticesAt(B[i]) PROVE t[2] = n
      OBVIOUS
    <3>1. CASE i = 1
      BY <1>8, <2>6, <3>1 DEF q
    <3>2. CASE i # 1
      BY <1>4, <1>12, <2>8, <3>2
    <3> QED
      BY <3>1, <3>2
  <2> QED
    BY <1>6, <1>9, <2>1, <2>4, <2>6, <2>9, <2>10 DEF q
<1> QED
  BY <1>10, <1>11, <1>12 DEF Noted, m, r

\* A preparation is the history or begins with a summary; what follows its first message is
\* the end of the history.
LEMMA PreparationIs ==
  ASSUME NEW P, History(P), P # << >>, NEW L \in PreparedFrom(P)
  PROVE  /\ L \in Seq(Messages) /\ L # << >> /\ Len(L) <= Len(P)
         /\ \A i \in 2..Len(L) : L[i] = P[Len(P) - Len(L) + i] /\ Unmarked(L[i])
         /\ \/ L = P /\ ~IsSummary(L[1]) /\ Unmarked(L[1])
            \/ /\ L # P /\ Summed(L, P) /\ IsSummary(L[1]) /\ NoticesAt(L[1]) = {}
               /\ Len(L) = Compression.keep_recent + 1
<1>1. P \in Seq(Messages) /\ Len(P) \in Nat /\ Len(P) >= 1 /\ P[1] \in Messages /\ \A i \in 1..Len(P) : Unmarked(P[i])
  BY NotEmpty DEF History
<1>2. Unmarked(P[1]) /\ ~IsSummary(P[1])
  <2>1. Unmarked(P[1])
    BY <1>1
  <2> QED
    BY <1>1, <2>1, UnmarkedIs
<1>3. L \in Seq(Messages) /\ (L = P \/ Summed(L, P))
  BY <1>1, PreparedFromIs
<1>4. CASE L = P
  BY <1>1, <1>2, <1>3, <1>4
<1>5. CASE Summed(L, P)
  <2> DEFINE keep == Compression.keep_recent
             N == Len(P) - keep
  <2>1. keep \in Nat
    BY KeepRecentIs
  <2>2. Len(P) > keep /\ Len(L) = keep + 1 /\ \A j \in 1..keep : L[j + 1] = P[N + j]
    BY <1>5 DEF Summed
  <2>3. PICK word \in SummaryWords : L[1] = Stands(word, N)
    BY <1>5 DEF Summed
  <2>4. N \in Nat
    BY <1>1, <2>1, <2>2
  <2> HIDE DEF N, keep
  <2>5. IsSummary(L[1]) /\ TextsAt(L[1].content) = {<<word, N>>}
    BY <2>3, <2>4, StandsIs
  <2>6. word # "notice" /\ <<word, N>>[1] = word
    BY DEF SummaryWords
  <2>7. NoticesAt(L[1]) = {}
    BY <2>5, <2>6 DEF NoticesAt
  <2>8. \A i \in 2..Len(L) : L[i] = P[Len(P) - Len(L) + i] /\ Unmarked(L[i])
    <3> SUFFICES ASSUME NEW i \in 2..Len(L) PROVE L[i] = P[Len(P) - Len(L) + i] /\ Unmarked(L[i])
      OBVIOUS
    <3>1. i - 1 \in 1..keep /\ i - 1 + 1 = i /\ N + (i - 1) = Len(P) - Len(L) + i /\ N + (i - 1) \in 1..Len(P)
      BY <1>1, <2>1, <2>2 DEF N
    <3>2. L[i] = P[N + (i - 1)]
      BY <2>2, <3>1
    <3> QED
      BY <1>1, <3>1, <3>2
  <2>9. L # P
    BY <1>2, <2>5
  <2>10. L # << >> /\ Len(L) <= Len(P)
    BY <1>1, <2>1, <2>2
  <2> QED
    BY <1>3, <1>5, <2>2, <2>5, <2>7, <2>8, <2>9, <2>10 DEF keep
<1> QED
  BY <1>3, <1>4, <1>5

LEMMA BodyTells ==
  ASSUME NEW P, History(P), P # << >>, CallIds(P[Len(P)]) = << >>, NEW L \in PreparedFrom(P),
         NEW B \in Seq(Messages), BodyOf(B, L)
  PROVE  Telling(B, L, P)
<1>1. P \in Seq(Messages) /\ Len(P) \in Nat /\ Len(P) >= 1 /\ \A i \in 1..Len(P) : P[i] \in Messages /\ Unmarked(P[i])
  BY NotEmpty DEF History
<1>2. /\ L \in Seq(Messages) /\ L # << >> /\ Len(L) <= Len(P)
      /\ \A i \in 2..Len(L) : L[i] = P[Len(P) - Len(L) + i] /\ Unmarked(L[i])
  BY PreparationIs
<1>3. \/ L = P /\ ~IsSummary(L[1]) /\ Unmarked(L[1])
      \/ L # P /\ Summed(L, P) /\ IsSummary(L[1]) /\ NoticesAt(L[1]) = {}
  BY PreparationIs
<1>4. Len(L) \in Nat /\ Len(L) >= 1 /\ \A i \in 1..Len(L) : L[i] \in Messages /\ (i = 1 \/ i \in 2..Len(L))
  <2>1. Len(L) \in Nat /\ Len(L) >= 1
    BY <1>2, NotEmpty
  <2> QED
    BY <1>2, <2>1
<1>5. \A i \in 2..Len(L) : NoticesAt(L[i]) = {}
  BY <1>2, <1>4, UnmarkedIs
<1>6. NoticesAt(L[1]) = {}
  BY <1>2, <1>3, <1>4, UnmarkedIs
<1>7. CASE B = L
  <2>1. \A i \in DOMAIN B : NoticesAt(B[i]) = {}
    <3>1. DOMAIN B = 1..Len(L)
      BY <1>2, <1>7
    <3> QED
      BY <1>4, <1>5, <1>6, <1>7, <3>1
  <2>2. CASE L = P
    <3>1. ~IsNotice(B[1]) /\ ~IsSummary(B[1])
      <4>1. B[1] \in Messages /\ Unmarked(B[1])
        BY <1>1, <1>7, <2>2
      <4> QED
        BY <4>1, UnmarkedIs
    <3>2. KeptOf(B) = Len(P)
      BY <1>1, <1>7, <2>2, <3>1 DEF KeptOf
    <3>3. \A j \in 1..Len(P) : Len(P) - Len(P) + j = j /\ j \in DOMAIN B /\ Shows(B[j], P[j])
      BY <1>1, <1>7, <2>2, ShowsItself
    <3>4. \A j \in 1..Len(P) : \E i \in DOMAIN B : Shows(B[i], P[Len(P) - Len(P) + j])
      BY <3>3
    <3> QED
      BY <1>1, <2>1, <3>2, <3>4 DEF Telling
  <2>3. CASE L # P
    <3>1. IsSummary(B[1])
      BY <1>3, <1>7, <2>3
    <3>2. KeptOf(B) = Len(L) - 1
      BY <1>7, <3>1 DEF KeptOf
    <3>3. \A j \in 1..(Len(L) - 1) : /\ j + 1 \in 2..Len(L) /\ j + 1 \in DOMAIN B
                                     /\ Len(P) - (Len(L) - 1) + j = Len(P) - Len(L) + (j + 1)
      BY <1>1, <1>2, <1>4, <1>7
    <3>4. \A j \in 1..(Len(L) - 1) : B[j + 1] = P[Len(P) - (Len(L) - 1) + j]
      BY <1>2, <1>7, <3>3
    <3>5. \A j \in 1..(Len(L) - 1) : \E i \in DOMAIN B : Shows(B[i], P[Len(P) - (Len(L) - 1) + j])
      BY <3>3, <3>4, ShowsItself
    <3>6. Len(L) - 1 \in 0..Len(P)
      BY <1>1, <1>2, <1>4
    <3> QED
      BY <2>1, <2>3, <3>2, <3>5, <3>6 DEF Telling
  <2> QED
    BY <2>2, <2>3
<1>8. ASSUME NEW n \in 1..(Len(L) - 1), CutAt(L, n), Noted(B, Rest(L, n), n)
      PROVE  Telling(B, L, P)
  <2> DEFINE R == Rest(L, n)
  <2>1. n \in 0..Len(L) /\ n \in Nat /\ Len(L) - n >= 1 /\ n >= 1
    BY <1>4
  <2>2. R \in Seq(Messages) /\ Len(R) = Len(L) - n /\ \A i \in 1..(Len(L) - n) : R[i] = L[n + i]
    BY <1>2, <2>1, RestIs
  <2>3. L = P => Range(ResultIds(R[1])) = {}
    <3>1. Answered(P, {})
      BY HistoryAnswered
    <3>2. L = P => Answered(L, {})
      BY <3>1
    <3> HIDE DEF R
    <3>3. L = P => Range(ResultIds(Rest(L, n)[1])) = {}
      BY <1>2, <1>8, <3>2, CutAnswered
    <3> QED
      BY <3>3 DEF R
  <2>4. Noted(B, R, n)
    BY <1>8
  <2> HIDE DEF R
  <2>5. EndOf(R, P)
    <3>1. Len(R) <= Len(P)
      BY <1>1, <1>2, <1>4, <2>1, <2>2
    <3>2. ASSUME NEW j \in 1..Len(R) PROVE R[j] = P[Len(P) - Len(R) + j] /\ Unmarked(R[j])
      <4>1. j \in 1..(Len(L) - n) /\ n + j \in 2..Len(L) /\ Len(P) - Len(L) + (n + j) = Len(P) - Len(R) + j
        BY <1>1, <1>4, <2>1, <2>2
      <4>2. R[j] = L[n + j]
        BY <2>2, <4>1
      <4> QED
        BY <1>2, <4>1, <4>2
    <3> QED
      BY <3>1, <3>2 DEF EndOf
  <2>6. R # << >> /\ n + Len(R) = Len(L) /\ DOMAIN B = 1..Len(B)
    BY <1>4, <2>1, <2>2
  <2>7. L # P \/ Range(ResultIds(R[1])) = {}
    BY <2>3
  <2> QED
    BY <1>1, <2>1, <2>2, <2>4, <2>5, <2>6, <2>7, CutTells
<1> QED
  BY <1>7, <1>8 DEF BodyOf

-----------------------------------------------------------------------------
(* What the invariant says of a request that was posted                    *)

\* P is the history without its old images, L what was prepared of it and B what of that is
\* in the request.
Posts(P, L, B) ==
  /\ History(P) /\ P # << >> /\ CallIds(P[Len(P)]) = << >> /\ Len(P) = Len(messages)
  /\ L \in PreparedFrom(P)
  /\ B \in Seq(Messages) /\ BodyOf(B, L)
  /\ Provider[sent.profile] \in Providers
  /\ RequestsFor(sent, B, prepared.tools, Provider[sent.profile])

LEMMA PrunedEndsIs ==
  ASSUME History(messages), messages # << >>, Last(messages).role = "user"
  PROVE  /\ History(PruneImages(messages)) /\ PruneImages(messages) # << >>
         /\ Len(PruneImages(messages)) = Len(messages)
         /\ CallIds(PruneImages(messages)[Len(PruneImages(messages))]) = << >>
<1> DEFINE P == PruneImages(messages)
           n == Len(messages)
<1>1. messages \in Seq(Messages)
  BY DEF History
<1>2. n \in Nat /\ n >= 1 /\ messages[n] \in Messages /\ messages[n].role = "user" /\ n \in 1..n
  BY <1>1, NotEmpty DEF Last
<1>3. CallIds(messages[n]) = << >>
  BY <1>2, CallsAre
<1>4. History(P) /\ Len(P) = n /\ CallIds(P[n]) = CallIds(messages[n])
  BY <1>2, HistoryPruned
<1> HIDE DEF P
<1>5. P # << >>
  BY <1>2, <1>4
<1> QED
  BY <1>3, <1>4, <1>5 DEF P

LEMMA PostedIs ==
  ASSUME ConversationInv, stage = "posted"
  PROVE  Posts(PruneImages(messages), prepared.messages, sent.body)
<1> DEFINE P == PruneImages(messages)
           L == prepared.messages
           p == chain[1]
           B == AutoCompacted(L, p)
<1>1. History(messages) /\ messages # << >> /\ Last(messages).role = "user"
  BY DEF ConversationInv, TurnOK
<1>2. History(P) /\ P # << >> /\ CallIds(P[Len(P)]) = << >> /\ Len(P) = Len(messages)
  BY <1>1, PrunedEndsIs
<1>3. prepared \in Bodies /\ L \in PreparedFrom(P)
  BY DEF ConversationInv, PreparedOK, Bodies
<1>4. chain \in Seq(Profiles) /\ chain # << >> /\ sent = Translated(prepared, p)
  BY DEF ConversationInv, SentOK
<1>5. p \in Profiles
  BY <1>4, NotEmpty
<1>6. L \in Seq(Messages)
  BY <1>3 DEF Bodies
<1> HIDE DEF p, P
<1>7. B \in Seq(Messages) /\ BodyOf(B, L)
  BY <1>5, <1>6, BodyIs
<1>8. /\ Provider[p] \in Providers /\ sent.profile = p /\ sent.body = B
      /\ RequestsFor(sent, B, prepared.tools, Provider[p])
  BY <1>3, <1>4, <1>5, <1>7, TranslatedIs
<1> QED
  BY <1>2, <1>3, <1>7, <1>8 DEF Posts, P

\* A posted request's texts are those in its body.
LEMMA PostedTexts ==
  ASSUME NEW P, NEW L, NEW B, Posts(P, L, B)
  PROVE  /\ \A t \in TextsSent : \E i \in DOMAIN B : t \in TextsAt(B[i].content)
         /\ \A i \in DOMAIN B : \/ TextsAt(B[i].content) \subseteq TextsSent
                                \/ (Provider[sent.profile] = "responses" /\ Holds(B[i].content, "tool_result"))
<1> DEFINE f == RequestItems(B, Provider[sent.profile])
<1>1. B \in Seq(Messages) /\ Provider[sent.profile] \in Providers
  BY DEF Posts
<1>2. f \in Seq(AllItems)
  BY <1>1, RequestItemsAre
<1>3. Sends(sent.items, f)
  BY DEF Posts, RequestsFor
<1>4. /\ \A t \in TextsOf(f) : \E i \in DOMAIN B : t \in TextsAt(B[i].content)
      /\ \A i \in DOMAIN B : \/ TextsAt(B[i].content) \subseteq TextsOf(f)
                             \/ (Provider[sent.profile] = "responses" /\ Holds(B[i].content, "tool_result"))
  BY <1>1, RequestTexts
<1> HIDE DEF f
<1>5. TextsOf(sent.items) = TextsOf(f)
  BY <1>2, <1>3, SendsIs
<1>6. TextsSent = TextsOf(sent.items)
  BY DEF TextsSent, TextsOf, TextsIn, Items
<1> QED
  BY <1>4, <1>5, <1>6

LEMMA SummarisedIs ==
  ASSUME NEW P, NEW L, NEW B, Posts(P, L, B), L = prepared.messages
  PROVE  /\ Summarised <=> L # P
         /\ Len(L) = IF Summarised THEN Compression.keep_recent + 1 ELSE Len(messages)
         /\ L # P => Summed(L, P)
<1>1. History(P) /\ P # << >> /\ L \in PreparedFrom(P) /\ Len(P) = Len(messages)
  BY DEF Posts
<1>2. /\ L # << >>
      /\ \/ L = P /\ ~IsSummary(L[1])
         \/ L # P /\ Summed(L, P) /\ IsSummary(L[1]) /\ Len(L) = Compression.keep_recent + 1
  BY <1>1, PreparationIs
<1> QED
  BY <1>1, <1>2 DEF Summarised

LEMMA NoticesCount ==
  ASSUME ConversationInv
  PROVE  NoticeCounts
<1> SUFFICES ASSUME stage = "posted", NEW t \in Notices
             PROVE  t[2] + Kept = IF Summarised THEN Compression.keep_recent + 1 ELSE Len(messages)
  BY DEF NoticeCounts
<1> DEFINE P == PruneImages(messages)
           L == prepared.messages
           B == sent.body
<1>1. Posts(P, L, B)
  BY PostedIs
<1>2. Telling(B, L, P)
  BY <1>1, BodyTells DEF Posts
<1>3. t \in TextsSent /\ t[1] = "notice"
  BY DEF Notices
<1> HIDE DEF P, L, B
<1>4. PICK i \in DOMAIN B : t \in TextsAt(B[i].content)
  BY <1>1, <1>3, PostedTexts
<1>5. t \in NoticesAt(B[i])
  BY <1>3, <1>4 DEF NoticesAt
<1>6. t[2] + KeptOf(B) = Len(L)
  BY <1>2, <1>4, <1>5 DEF Telling
<1>7. Len(L) = IF Summarised THEN Compression.keep_recent + 1 ELSE Len(messages)
  BY <1>1, SummarisedIs DEF L
<1> QED
  BY <1>6, <1>7 DEF KeptOf, Kept, B

LEMMA OmissionsAreTold ==
  ASSUME ConversationInv
  PROVE  OmissionsTold
<1> SUFFICES ASSUME stage = "posted", NEW i \in DOMAIN messages, NEW b \in Range(Texts(messages[i].content))
             PROVE  \/ b.text \in TextsSent
                    \/ Dropped(i) /\ (Notices # {} \/ Summarised \/ sent.body[1].plain)
                    \/ Provider[sent.profile] = "responses" /\ Holds(messages[i].content, "tool_result")
  BY DEF OmissionsTold
<1> DEFINE P == PruneImages(messages)
           L == prepared.messages
           B == sent.body
           k == KeptOf(B)
<1>1. Posts(P, L, B)
  BY PostedIs
<1>2. Telling(B, L, P)
  BY <1>1, BodyTells DEF Posts
<1>3. History(messages)
  BY DEF ConversationInv
<1>4. messages \in Seq(Messages) /\ Len(messages) \in Nat /\ i \in 1..Len(messages) /\ messages[i] \in Messages
  BY <1>3 DEF History
<1>5. b \in Range(messages[i].content) /\ b.type = "text"
  <2> DEFINE c == messages[i].content
  <2>1. c \in Seq(AllBlocks)
    BY <1>4, MessageIs
  <2> HIDE DEF c
  <2>2. Range(OfType(c, "text")) = Typed(Range(c), "text")
    BY <2>1, OfTypeTyped
  <2> QED
    BY <2>2 DEF Texts, Typed, c
<1>6. b \in Range(P[i].content) /\ (Holds(P[i].content, "tool_result") => Holds(messages[i].content, "tool_result"))
  BY <1>3, <1>4, <1>5, HistoryPruned
<1>7. b.text \in TextsAt(P[i].content)
  BY <1>5, <1>6 DEF TextsAt
<1>8. Kept = k
  BY DEF Kept, KeptOf
<1>9. Len(P) = Len(messages) /\ B # << >> /\ B \in Seq(Messages)
  <2>1. Answered(L, {}) \/ Answered(L, OldCalls(P))
    <3>1. History(P) /\ P # << >> /\ CallIds(P[Len(P)]) = << >> /\ L \in PreparedFrom(P)
      BY <1>1 DEF Posts
    <3>2. L = P \/ Summed(L, P)
      BY <1>1, SummarisedIs
    <3>3. L \in Seq(Messages)
      BY <3>1, PreparationIs
    <3> HIDE DEF P, L
    <3> QED
      BY <3>1, <3>2, <3>3, HistoryAnswered, SummedAnswered
  <2>2. BodyOf(B, L) /\ L \in Seq(Messages)
    BY <1>1, PreparationIs DEF Posts
  <2> HIDE DEF P, L, B
  <2>3. Answered(B, {}) \/ Answered(B, OldCalls(P))
    BY <2>1, <2>2, BodyAnswered
  <2> QED
    BY <1>1, <2>3 DEF Answered, Posts
<1>10. k \in 0..Len(P)
  BY <1>2 DEF Telling
<1> HIDE DEF P, L, B, k
<1>11. CASE i > Len(P) - k
  <2>1. i - (Len(P) - k) \in 1..k /\ Len(P) - k + (i - (Len(P) - k)) = i
    BY <1>4, <1>9, <1>10, <1>11
  <2>2. \A j \in 1..k : \E h \in DOMAIN B : Shows(B[h], P[Len(P) - k + j])
    BY <1>2 DEF Telling, k
  <2>3. PICK h \in DOMAIN B : Shows(B[h], P[Len(P) - k + (i - (Len(P) - k))])
    BY <2>1, <2>2
  <2>4. Shows(B[h], P[i])
    BY <2>1, <2>3
  <2>5. b.text \in TextsAt(B[h].content) /\ (Holds(B[h].content, "tool_result") => Holds(messages[i].content, "tool_result"))
    BY <1>6, <1>7, <2>4 DEF Shows
  <2>6. \/ TextsAt(B[h].content) \subseteq TextsSent
        \/ (Provider[sent.profile] = "responses" /\ Holds(B[h].content, "tool_result"))
    BY <1>1, PostedTexts
  <2> QED
    BY <2>5, <2>6
<1>12. CASE i <= Len(P) - k
  <2>1. Dropped(i)
    BY <1>8, <1>9, <1>12 DEF Dropped
  <2>2. k < Len(P)
    BY <1>4, <1>9, <1>10, <1>12
  <2>3. L # P \/ B[1].plain \/ (NoticesAt(B[1]) # {} /\ ~Holds(B[1].content, "tool_result"))
    BY <1>2, <2>2 DEF Telling, k
  <2>4. CASE L # P
    BY <1>1, <2>1, <2>4, SummarisedIs DEF L
  <2>5. CASE B[1].plain
    BY <2>1, <2>5 DEF B
  <2>6. CASE NoticesAt(B[1]) # {} /\ ~Holds(B[1].content, "tool_result")
    <3>1. PICK t \in TextsAt(B[1].content) : t[1] = "notice"
      BY <2>6 DEF NoticesAt
    <3>2. 1 \in DOMAIN B
      BY <1>9, NotEmpty
    <3>3. TextsAt(B[1].content) \subseteq TextsSent
      BY <1>1, <2>6, <3>2, PostedTexts
    <3>4. t \in Notices
      BY <3>1, <3>3 DEF Notices
    <3> QED
      BY <2>1, <3>4
  <2> QED
    BY <2>3, <2>4, <2>5, <2>6
<1>13. i \in Nat /\ Len(P) - k \in Int
  BY <1>4, <1>9, <1>10
<1> QED
  BY <1>11, <1>12, <1>13

LEMMA BodyIsAnswered ==
  ASSUME NEW P, NEW L, NEW B, Posts(P, L, B)
  PROVE  IF L = P THEN Answered(B, {}) ELSE Answered(B, OldCalls(P))
<1>1. History(P) /\ P # << >> /\ CallIds(P[Len(P)]) = << >> /\ L \in PreparedFrom(P) /\ BodyOf(B, L)
  BY DEF Posts
<1>2. L \in Seq(Messages) /\ (L = P \/ Summed(L, P))
  BY <1>1, PreparationIs
<1>3. CASE L = P
  <2>1. Answered(L, {})
    BY <1>1, <1>3, HistoryAnswered
  <2> QED
    BY <1>1, <1>2, <1>3, <2>1, BodyAnswered
<1>4. CASE L # P
  <2>1. Answered(L, OldCalls(P))
    BY <1>1, <1>2, <1>4, SummedAnswered
  <2> QED
    BY <1>1, <1>2, <1>4, <2>1, BodyAnswered
<1> QED
  BY <1>3, <1>4

\* The calls that a summary stands for, under the names they may be sent by.
LEMMA OldCallsAre ==
  ASSUME NEW P, NEW L, NEW B, Posts(P, L, B), P = PruneImages(messages), L = prepared.messages, History(messages), L # P,
         NEW x \in OldCalls(P)
  PROVE  x \in SummarisedCalls /\ ToUpstream(x) \in SummarisedCalls
<1> DEFINE N == Len(messages) - Compression.keep_recent
           old == SubSeq(messages, 1, N)
           ids == IdsOf(old, "tool_use")
<1>1. Len(P) = Len(messages) /\ Len(P) > Compression.keep_recent
  <2>1. Summed(L, P)
    BY SummarisedIs
  <2> QED
    BY <2>1 DEF Summed, Posts
<1>2. messages \in Seq(Messages) /\ Len(messages) \in Nat /\ Compression.keep_recent \in Nat
  BY KeepRecentIs DEF History
<1>3. N \in Nat /\ N <= Len(messages)
  BY <1>1, <1>2
<1>4. PICK i \in 1..N : x \in Range(CallIds(P[i]))
  BY <1>1 DEF OldCalls
<1> HIDE DEF N
<1>5. i \in 1..Len(messages)
  BY <1>2, <1>3
<1>6. CallIds(P[i]) = CallIds(messages[i])
  BY <1>5, HistoryPruned
<1>7. old \in Seq(Messages) /\ DOMAIN old = 1..N /\ \A j \in 1..N : old[j] = messages[j]
  <2>1. 1 \in Int /\ N \in Int /\ \A j \in 1..N : messages[j] \in Messages
    BY <1>2, <1>3
  <2>2. /\ old \in Seq(Messages) /\ Len(old) = IF 1 <= N THEN N - 1 + 1 ELSE 0
        /\ \A j \in 1..(N - 1 + 1) : old[j] = messages[1 + j - 1]
    BY <2>1, SubSeqProperties
  <2> QED
    BY <1>2, <1>3, <2>2
<1> HIDE DEF old
<1>8. x \in ids <=> \E j \in DOMAIN old : x \in Range(IdsAt(old[j].content, "tool_use"))
  BY <1>7, IdsOfIs
<1>9. x \in ids
  BY <1>4, <1>6, <1>7, <1>8 DEF CallIds
<1> HIDE DEF ids
<1>10. SummarisedCalls = ids \cup {ToUpstream(id) : id \in ids}
  <2>1. Summarised
    BY SummarisedIs
  <2> QED
    BY <2>1 DEF SummarisedCalls, ids, old, N
<1> QED
  BY <1>9, <1>10

\* How often an item of a kind is among the first of a request.
LEMMA CountIs ==
  ASSUME NEW f \in Seq(AllItems), Sends(sent.items, f), NEW id, NEW k \in 0..Len(f)
  PROVE  Count("call", id, k) = NumTo(f, CallsOf(id), k) /\ Count("output", id, k) = NumTo(f, OutputsOf(id), k)
<1>1. \A i \in 1..k : f[i] \in AllItems
  OBVIOUS
<1>2. {i \in 1..k : f[i] \in CallsOf(id)} = {i \in 1..k : f[i].item = "call" /\ f[i].id = id}
  BY <1>1 DEF CallsOf
<1>3. {i \in 1..k : f[i] \in OutputsOf(id)} = {i \in 1..k : f[i].item = "output" /\ f[i].id = id}
  BY <1>1 DEF OutputsOf
<1>4. \A i \in 1..k :
        /\ sent.items[i].item = f[i].item
        /\ f[i].item # "output" => sent.items[i] = f[i]
        /\ f[i].item = "output" => sent.items[i].id = f[i].id
  <2>1. \A i \in 1..k : i \in 1..Len(f)
    OBVIOUS
  <2> QED
    BY <2>1 DEF Sends
<1>5. /\ {i \in 1..k : sent.items[i].item = "call" /\ sent.items[i].id = id} = {i \in 1..k : f[i].item = "call" /\ f[i].id = id}
      /\ {i \in 1..k : sent.items[i].item = "output" /\ sent.items[i].id = id} = {i \in 1..k : f[i].item = "output" /\ f[i].id = id}
  BY <1>4
<1> QED
  BY <1>2, <1>3, <1>5 DEF Count, Items, NumTo

LEMMA CallsAreAnswered ==
  ASSUME ConversationInv
  PROVE  CallsAnswered
<1> SUFFICES ASSUME stage = "posted", NEW i \in DOMAIN Items, Items[i].item \in {"call", "output"}
             PROVE  LET id == Items[i].id IN
                    /\ Items[i].item = "output" => Whole(i)
                    /\ \/ id \in SummarisedCalls
                       \/ /\ \A k \in DOMAIN Items : Count("output", id, k) <= Count("call", id, k)
                          /\ Count("output", id, Len(Items)) = Count("call", id, Len(Items))
  BY DEF CallsAnswered
<1> DEFINE P == PruneImages(messages)
           L == prepared.messages
           B == sent.body
           provider == Provider[sent.profile]
           f == RequestItems(B, provider)
           id == Items[i].id
<1>1. Posts(P, L, B)
  BY PostedIs
<1>2. B \in Seq(Messages) /\ provider \in Providers /\ RequestsFor(sent, B, prepared.tools, provider)
  BY <1>1 DEF Posts
<1>3. IF L = P THEN Answered(B, {}) ELSE Answered(B, OldCalls(P))
  <2> HIDE DEF P, L, B
  <2> QED
    BY <1>1, BodyIsAnswered
<1>4. History(messages)
  BY DEF ConversationInv
<1> HIDE DEF B, provider
<1>5. Sends(sent.items, f) /\ f \in Seq(AllItems)
  BY <1>2, RequestItemsAre DEF RequestsFor
<1> HIDE DEF f
<1>6. DOMAIN Items = 1..Len(f) /\ Len(Items) = Len(f) /\ Len(f) \in Nat
  BY <1>5 DEF Sends, Items
<1>7. Items[i].item = "output" => Whole(i)
  <2>1. Items[i].item = "output" => WholeIn(Items, i)
    <3>1. \A h \in 1..Len(f) : /\ sent.items[h].item = f[h].item
                               /\ f[h].item = "output" => WholeIn(sent.items, h)
      BY <1>5 DEF Sends
    <3> QED
      BY <1>6, <3>1 DEF Items
  <2> QED
    BY <2>1 DEF WholeIn, Whole
<1>8. id \in Ids
  <2>1. PICK was \in Range(f) : was.item = Items[i].item /\ was.id = id
    <3>1. Items[i] \in Range(sent.items)
      BY DEF Items, Range
    <3> QED
      BY <1>5, <3>1, SendsIs
  <2>2. was \in AllItems
    BY <1>5, <2>1, InRange
  <2> QED
    BY <2>1, <2>2, ItemIs
<1> HIDE DEF id
<1>9. ASSUME NEW X, Answered(B, X), \A x \in X \cap Ids : Upstream(provider)[x] # id
      PROVE  /\ \A k \in DOMAIN Items : Count("output", id, k) <= Count("call", id, k)
             /\ Count("output", id, Len(Items)) = Count("call", id, Len(Items))
  <2>1. /\ Num(f, OutputsOf(id)) = Num(f, CallsOf(id))
        /\ \A k \in 0..Len(f) : NumTo(f, OutputsOf(id), k) <= NumTo(f, CallsOf(id), k)
    BY <1>2, <1>8, <1>9, RequestAnswered DEF f
  <2>2. \A k \in 0..Len(f) : /\ Count("call", id, k) = NumTo(f, CallsOf(id), k)
                             /\ Count("output", id, k) = NumTo(f, OutputsOf(id), k)
    BY <1>5, CountIs
  <2>3. Len(f) \in 0..Len(f) /\ \A k \in DOMAIN Items : k \in 0..Len(f)
    BY <1>6
  <2>4. NumTo(f, OutputsOf(id), Len(f)) = NumTo(f, CallsOf(id), Len(f))
    BY <2>1 DEF Num
  <2> QED
    BY <1>6, <2>1, <2>2, <2>3, <2>4
<1>10. CASE L = P
  BY <1>3, <1>7, <1>9, <1>10 DEF id
<1>11. CASE L # P
  <2>1. ASSUME id \notin SummarisedCalls PROVE \A x \in OldCalls(P) \cap Ids : Upstream(provider)[x] # id
    <3> SUFFICES ASSUME NEW x \in OldCalls(P), x \in Ids PROVE Upstream(provider)[x] # id
      OBVIOUS
    <3>1. x \in SummarisedCalls /\ ToUpstream(x) \in SummarisedCalls
      BY <1>1, <1>4, <1>11, OldCallsAre
    <3>2. Upstream(provider)[x] = IF provider = "direct" THEN x ELSE ToUpstream(x)
      BY UpstreamAt
    <3> QED
      BY <2>1, <3>1, <3>2
  <2>2. Answered(B, OldCalls(P))
    BY <1>3, <1>11
  <2> QED
    BY <1>7, <1>9, <2>1, <2>2 DEF id
<1> QED
  BY <1>10, <1>11

\* The ids in these messages are among those.
IdsWithin(ms, A) == \A i \in 1..Len(ms) : Range(CallIds(ms[i])) \subseteq A /\ Range(ResultIds(ms[i])) \subseteq A

CalledIn(ms) == UNION {Range(CallIds(ms[i])) : i \in 1..Len(ms)}

LEMMA HistoryWithin ==
  ASSUME NEW P, History(P)
  PROVE  IdsWithin(P, CalledIn(P))
<1> SUFFICES ASSUME NEW i \in 1..Len(P)
             PROVE  Range(CallIds(P[i])) \subseteq CalledIn(P) /\ Range(ResultIds(P[i])) \subseteq CalledIn(P)
  BY DEF IdsWithin
<1>1. Len(P) \in Nat /\ P # << >>
  BY DEF History
<1>2. \A j \in 1..Len(P) : Range(CallIds(P[j])) \subseteq CalledIn(P)
  BY DEF CalledIn
<1>3. CASE i = 1
  BY <1>1, <1>2, <1>3, RangeNone DEF History
<1>4. CASE i # 1
  <2>1. i - 1 \in 1..(Len(P) - 1) /\ i - 1 + 1 = i /\ i - 1 \in 1..Len(P)
    BY <1>1, <1>4
  <2>2. ResultIds(P[i]) = CallIds(P[i - 1])
    BY <2>1 DEF History
  <2> QED
    BY <1>2, <2>1, <2>2
<1> QED
  BY <1>3, <1>4

LEMMA PreparationWithin ==
  ASSUME NEW P, History(P), P # << >>, NEW L \in PreparedFrom(P), NEW A, IdsWithin(P, A)
  PROVE  IdsWithin(L, A)
<1>1. /\ L \in Seq(Messages) /\ Len(L) <= Len(P) /\ L # << >>
      /\ \A i \in 2..Len(L) : L[i] = P[Len(P) - Len(L) + i]
      /\ (L = P \/ Summed(L, P))
  BY PreparationIs
<1>2. Len(P) \in Nat /\ Len(L) \in Nat
  BY <1>1 DEF History
<1>3. CASE L = P
  BY <1>3
<1>4. CASE Summed(L, P)
  <2>1. CallIds(L[1]) = << >> /\ ResultIds(L[1]) = << >>
    <3> DEFINE N == Len(P) - Compression.keep_recent
    <3>1. PICK word \in SummaryWords : L[1] = Stands(word, N)
      BY <1>4 DEF Summed
    <3>2. N \in Nat
      BY <1>2, <1>4, KeepRecentIs DEF Summed
    <3> HIDE DEF N
    <3> QED
      BY <3>1, <3>2, StandsIs
  <2>2. ASSUME NEW i \in 1..Len(L) PROVE Range(CallIds(L[i])) \subseteq A /\ Range(ResultIds(L[i])) \subseteq A
    <3>1. CASE i = 1
      BY <2>1, <3>1, RangeNone
    <3>2. CASE i # 1
      <4>1. i \in 2..Len(L) /\ Len(P) - Len(L) + i \in 1..Len(P)
        BY <1>1, <1>2, <3>2
      <4> QED
        BY <1>1, <4>1 DEF IdsWithin
    <3> QED
      BY <3>1, <3>2
  <2> QED
    BY <2>2 DEF IdsWithin
<1> QED
  BY <1>1, <1>3, <1>4

LEMMA BodyWithin ==
  ASSUME NEW L \in Seq(Messages), NEW A, IdsWithin(L, A), NEW B, BodyOf(B, L)
  PROVE  IdsWithin(B, A)
<1>1. CASE B = L
  BY <1>1
<1>2. ASSUME NEW n \in 1..(Len(L) - 1), Noted(B, Rest(L, n), n)
      PROVE  IdsWithin(B, A)
  <2> DEFINE R == Rest(L, n)
             r == Len(R)
  <2>1. n \in 0..Len(L) /\ n \in Nat /\ Len(L) - n >= 1 /\ Len(L) \in Nat
    OBVIOUS
  <2>2. R \in Seq(Messages) /\ r = Len(L) - n /\ \A i \in 1..(Len(L) - n) : R[i] = L[n + i]
    BY <2>1, RestIs
  <2>3. Noted(B, R, n)
    BY <1>2
  <2> HIDE DEF R
  <2>4. ASSUME NEW i \in 1..r PROVE Range(CallIds(R[i])) \subseteq A /\ Range(ResultIds(R[i])) \subseteq A
    <3>1. n + i \in 1..Len(L) /\ R[i] = L[n + i]
      BY <2>1, <2>2
    <3> QED
      BY <3>1 DEF IdsWithin
  <2>5. r \in Nat /\ r >= 1 /\ R[1] \in Messages /\ 1 \in 1..r
    BY <2>1, <2>2
  <2> HIDE DEF r
  <2>6. ASSUME NEW i \in 1..Len(B) PROVE Range(CallIds(B[i])) \subseteq A /\ Range(ResultIds(B[i])) \subseteq A
    <3>1. CASE /\ Len(B) = r + 1 /\ B[1] = Message("user", <<Notice(n)>>)
               /\ \A j \in 1..r : B[j + 1] = R[j]
      <4>1. CASE i = 1
        <5>1. ResultIds(B[1]) = << >> /\ CallIds(B[1]) = << >>
          BY <2>1, <3>1, NoticeMessageIs
        <5> QED
          BY <4>1, <5>1, RangeNone
      <4>2. CASE i # 1
        <5>1. i - 1 \in 1..r /\ i - 1 + 1 = i
          BY <2>5, <3>1, <4>2
        <5>2. B[i] = R[i - 1]
          BY <3>1, <5>1
        <5> QED
          BY <2>4, <5>1, <5>2
      <4> QED
        BY <4>1, <4>2
    <3>2. CASE B = R
      BY <2>4, <3>2 DEF r
    <3>3. CASE /\ R[1].role = "user" /\ Len(B) = r /\ B[1] = Adorned(R[1], n)
               /\ \A j \in 2..r : B[j] = R[j]
      <4>1. CASE i = 1
        <5> DEFINE m == R[1]
        <5>1. m \in Messages /\ m.role = "user"
          BY <2>5, <3>3
        <5> HIDE DEF m
        <5>2. Range(ResultIds(Adorned(m, n))) = Range(ResultIds(m)) /\ CallIds(Adorned(m, n)) = << >>
          BY <2>1, <5>1, AdornedIs
        <5> QED
          BY <2>4, <2>5, <3>3, <4>1, <5>2, RangeNone DEF m
      <4>2. CASE i # 1
        <5>1. i \in 2..r /\ i \in 1..r
          BY <2>5, <3>3, <4>2
        <5> QED
          BY <2>4, <3>3, <5>1
      <4> QED
        BY <4>1, <4>2
    <3> QED
      BY <2>3, <3>1, <3>2, <3>3 DEF Noted, r
  <2> QED
    BY <2>6 DEF IdsWithin
<1> QED
  BY <1>1, <1>2 DEF BodyOf

LEMMA WrittenIs == WrittenId \in Ids /\ ToUpstream(ToAnthropic(WrittenId)) = WrittenId /\ ToAnthropic(WrittenId) \in Ids
<1> DEFINE p == <<"call_", "text_">>
<1>1. p \in Seq(Strings)
  BY DEF Strings
<1> HIDE DEF p
<1>2. [prefix |-> p, n |-> 1] \in Ids
  BY <1>1 DEF Ids
<1>3. WrittenId \in Ids
  BY <1>2 DEF WrittenId, p
<1> QED
  BY <1>3, UpstreamIs

LEMMA IdsAreReturned ==
  ASSUME ConversationInv
  PROVE  RoundTrips
<1> SUFFICES IdsReturn
  BY DEF RoundTrips, ConversationInv
<1> SUFFICES ASSUME stage = "posted", NEW it \in Range(Items), it.item \in {"call", "output"}
             PROVE  IF Provider[sent.profile] = "direct" THEN it.id \in IdsOf(messages, "tool_use")
                    ELSE it.id \in Range(issued) \cup {WrittenId}
  BY DEF IdsReturn
<1> DEFINE P == PruneImages(messages)
           L == prepared.messages
           B == sent.body
           provider == Provider[sent.profile]
           f == RequestItems(B, provider)
<1>1. Posts(P, L, B)
  BY PostedIs
<1>2. B \in Seq(Messages) /\ provider \in Providers /\ RequestsFor(sent, B, prepared.tools, provider)
  BY <1>1 DEF Posts
<1>3. History(messages) /\ messages \in Seq(Messages)
  BY DEF ConversationInv, History
<1> HIDE DEF B, provider
<1>4. Sends(sent.items, f) /\ f \in Seq(AllItems)
  BY <1>2, RequestItemsAre DEF RequestsFor
<1> HIDE DEF f
<1>5. PICK was \in Range(f) : was.item = it.item /\ was.id = it.id
  <2>1. it \in Range(sent.items)
    BY DEF Items
  <2> QED
    BY <1>4, <2>1, SendsIs
<1>6. \E i \in DOMAIN B : \E x \in Range(CallIds(B[i])) \cup Range(ResultIds(B[i])) :
        x \in Ids /\ was.id = Upstream(provider)[x]
  <2>1. was \in Range(RequestItems(B, provider)) /\ was.item \in {"call", "output"}
    BY <1>5 DEF f
  <2> QED
    BY <1>2, <2>1, RequestIds
<1>7. PICK i \in DOMAIN B, x \in Ids : x \in Range(CallIds(B[i])) \cup Range(ResultIds(B[i])) /\ was.id = Upstream(provider)[x]
  BY <1>6
<1> HIDE DEF P, L
<1>8. x \in CalledIn(P)
  <2>1. History(P) /\ P # << >> /\ L \in PreparedFrom(P) /\ BodyOf(B, L)
    BY <1>1 DEF Posts
  <2>2. IdsWithin(P, CalledIn(P))
    BY <2>1, HistoryWithin
  <2>3. IdsWithin(L, CalledIn(P)) /\ L \in Seq(Messages)
    BY <2>1, <2>2, PreparationWithin, PreparationIs
  <2>4. IdsWithin(B, CalledIn(P))
    BY <2>1, <2>3, BodyWithin
  <2>5. i \in 1..Len(B)
    BY <1>2
  <2> QED
    BY <1>7, <2>4, <2>5 DEF IdsWithin
<1>9. PICK j \in 1..Len(messages) : x \in Range(CallIds(messages[j]))
  <2>1. PICK j \in 1..Len(P) : x \in Range(CallIds(P[j]))
    BY <1>8 DEF CalledIn
  <2>2. Len(P) = Len(messages)
    BY <1>1 DEF Posts
  <2>3. CallIds(P[j]) = CallIds(messages[j])
    BY <1>3, <2>1, <2>2, HistoryPruned DEF P
  <2> QED
    BY <2>1, <2>2, <2>3
<1>10. it.id = IF provider = "direct" THEN x ELSE ToUpstream(x)
  <2>1. Upstream(provider)[x] = IF provider = "direct" THEN x ELSE ToUpstream(x)
    BY UpstreamAt
  <2> QED
    BY <1>5, <1>7, <2>1
<1>11. CASE provider = "direct"
  <2>1. j \in DOMAIN messages
    BY <1>3
  <2>2. x \in IdsOf(messages, "tool_use") <=> \E h \in DOMAIN messages : x \in Range(IdsAt(messages[h].content, "tool_use"))
    BY <1>3, IdsOfIs
  <2>3. x \in IdsOf(messages, "tool_use")
    BY <1>9, <2>1, <2>2 DEF CallIds
  <2> QED
    BY <1>10, <1>11, <2>3 DEF provider
<1>12. CASE provider # "direct"
  <2> DEFINE m == messages[j]
  <2>1. m \in Messages /\ j \in DOMAIN messages
    BY <1>3
  <2>2. x \in Range(CallIds(m))
    BY <1>9
  <2> HIDE DEF m
  <2>3. /\ Range(CallIds(m)) = {b.id : b \in {b \in Range(m.content) : b.type = "tool_use"}}
        /\ Range(Calls(m)) = {b \in Range(m.content) : b.type = "tool_use"}
    BY <2>1, CallsAre
  <2>4. PICK b \in Range(Calls(m)) : x = b.id
    BY <2>2, <2>3
  <2>5. x \in DOMAIN issued \cup {ToAnthropic(WrittenId)}
    BY <2>1, <2>4 DEF ConversationInv, IdsKnown, m
  <2>6. CASE x \in DOMAIN issued
    <3>1. issued[x] = ToUpstream(x)
      BY <2>6 DEF ConversationInv, IdsKnown
    <3>2. ToUpstream(x) \in Range(issued)
      BY <2>6, <3>1 DEF Range
    <3> QED
      BY <1>10, <1>12, <3>2 DEF provider
  <2>7. CASE x = ToAnthropic(WrittenId)
    <3>1. ToUpstream(x) = WrittenId
      BY <2>7, WrittenIs
    <3> QED
      BY <1>10, <1>12, <3>1 DEF provider
  <2> QED
    BY <2>5, <2>6, <2>7
<1> QED
  BY <1>11, <1>12 DEF provider

-----------------------------------------------------------------------------
(* Every step keeps the invariant                                          *)

LEMMA AppendIs ==
  ASSUME NEW S, NEW s \in Seq(S), NEW x \in S
  PROVE  /\ Append(s, x) \in Seq(S) /\ Len(Append(s, x)) = Len(s) + 1 /\ Append(s, x) # << >>
         /\ \A i \in 1..Len(s) : Append(s, x)[i] = s[i]
         /\ Append(s, x)[Len(s) + 1] = x /\ Last(Append(s, x)) = x
<1>1. /\ Append(s, x) \in Seq(S) /\ Append(s, x) # << >> /\ Len(Append(s, x)) = Len(s) + 1
      /\ \A i \in 1..Len(s) : Append(s, x)[i] = s[i]
      /\ Append(s, x)[Len(s) + 1] = x
  BY AppendProperties
<1> QED
  BY <1>1 DEF Last

\* What the next message's results are for.
Due(ms) == IF ms = << >> THEN << >> ELSE CallIds(ms[Len(ms)])

LEMMA HistoryGrows ==
  ASSUME NEW ms, History(ms), NEW m \in Messages, Unmarked(m), ResultIds(m) = Due(ms)
  PROVE  History(Append(ms, m))
<1> DEFINE n == Len(ms)
           a == Append(ms, m)
<1>1. /\ ms \in Seq(Messages) /\ n \in Nat /\ DOMAIN ms = 1..n
      /\ \A i \in 1..n : Unmarked(ms[i])
      /\ ms # << >> => ResultIds(ms[1]) = << >>
      /\ \A i \in 1..(n - 1) : ResultIds(ms[i + 1]) = CallIds(ms[i])
  BY DEF History
<1>2. a \in Seq(Messages) /\ Len(a) = n + 1 /\ \A i \in 1..n : a[i] = ms[i]
  BY <1>1, AppendIs
<1>3. a[n + 1] = m
  BY <1>1, AppendIs
<1> HIDE DEF a
<1>4. \A i \in 1..(n + 1) : i = n + 1 \/ i \in 1..n
  BY <1>1
<1>5. \A i \in 1..(n + 1) : Unmarked(a[i])
  BY <1>1, <1>2, <1>3, <1>4
<1>6. ResultIds(a[1]) = << >>
  <2>1. CASE ms = << >>
    <3>1. n = 0
      BY <2>1
    <3> QED
      BY <1>3, <2>1, <3>1 DEF Due
  <2>2. CASE ms # << >>
    <3>1. 1 \in 1..n
      BY <1>1, <2>2
    <3> QED
      BY <1>1, <1>2, <2>2, <3>1
  <2> QED
    BY <2>1, <2>2
<1>7. ASSUME NEW i \in 1..n PROVE ResultIds(a[i + 1]) = CallIds(a[i])
  <2>1. CASE i = n
    <3>1. ms # << >> /\ a[i] = ms[n] /\ a[i + 1] = m
      BY <1>1, <1>2, <1>3, <2>1
    <3> QED
      BY <3>1 DEF Due
  <2>2. CASE i # n
    <3> HIDE DEF n
    <3>1. i \in 1..(n - 1) /\ i + 1 \in 1..n
      BY <1>1, <2>2
    <3> QED
      BY <1>1, <1>2, <3>1
  <2> QED
    BY <2>1, <2>2
<1>8. Len(a) - 1 = n
  BY <1>1, <1>2
<1> QED
  BY <1>2, <1>5, <1>6, <1>7, <1>8 DEF History, a

\* What the client adds to its history.
LEMMA SayKeeps ==
  ASSUME ConversationInv, NEW m \in Messages, m.role = "user", Unmarked(m), ResultIds(m) = Due(messages), Say(m)
  PROVE  ConversationInv'
<1>1. /\ stage = "client" /\ messages' = Append(messages, m) /\ stage' = "arrived"
      /\ prepared' = prepared /\ chain' = chain /\ sent' = sent /\ issued' = issued
  BY DEF Say
<1>2. History(messages) /\ IdsKnown /\ NamesRestored /\ PreparedOK /\ SentOK
  BY DEF ConversationInv
<1>3. History(messages')
  BY <1>1, <1>2, HistoryGrows
<1>4. messages \in Seq(Messages) /\ Len(messages) \in Nat /\ DOMAIN messages = 1..Len(messages)
  BY <1>2 DEF History
<1>5. /\ messages' # << >> /\ Last(messages') = m /\ DOMAIN messages' = 1..(Len(messages) + 1)
      /\ \A i \in 1..Len(messages) : messages'[i] = messages[i]
      /\ messages'[Len(messages) + 1] = m
  <2>1. /\ Append(messages, m) \in Seq(Messages) /\ Len(Append(messages, m)) = Len(messages) + 1 /\ Append(messages, m) # << >>
        /\ \A i \in 1..Len(messages) : Append(messages, m)[i] = messages[i]
        /\ Append(messages, m)[Len(messages) + 1] = m /\ Last(Append(messages, m)) = m
    BY <1>4, AppendIs
  <2> QED
    BY <1>1, <2>1
<1>6. TurnOK'
  BY <1>1, <1>5 DEF TurnOK
<1>7. \A i \in DOMAIN messages' : \A b \in Range(Calls(messages'[i])) : i \in DOMAIN messages /\ b \in Range(Calls(messages[i]))
  <2> SUFFICES ASSUME NEW i \in DOMAIN messages', NEW b \in Range(Calls(messages'[i]))
               PROVE  i \in DOMAIN messages /\ b \in Range(Calls(messages[i]))
    OBVIOUS
  <2>1. CASE i = Len(messages) + 1
    <3>1. Calls(m) = << >>
      BY CallsAre
    <3> QED
      BY <1>5, <2>1, <3>1, RangeNone
  <2>2. CASE i # Len(messages) + 1
    BY <1>4, <1>5, <2>2
  <2> QED
    BY <2>1, <2>2
<1>8. IdsKnown'
  BY <1>1, <1>2, <1>7 DEF IdsKnown
<1>9. NamesRestored'
  BY <1>2, <1>7 DEF NamesRestored
<1>10. PreparedOK' /\ SentOK'
  BY <1>1, <1>2 DEF PreparedOK, SentOK
<1> QED
  BY <1>3, <1>6, <1>8, <1>9, <1>10 DEF ConversationInv

LEMMA InitInv == ConversationInit => ConversationInv
<1> SUFFICES ASSUME ConversationInit PROVE ConversationInv
  OBVIOUS
<1>1. /\ stage = "client" /\ stop = "end_turn" /\ messages = << >> /\ prepared = NothingPrepared
      /\ chain = << >> /\ sent = NoRequest /\ issued = << >>
  BY DEF ConversationInit
<1>2. History(messages)
  BY <1>1 DEF History
<1>3. TurnOK
  BY <1>1 DEF TurnOK
<1>4. DOMAIN issued = {} /\ DOMAIN messages = {}
  BY <1>1
<1>5. IdsKnown
  BY <1>4, FS_EmptySet DEF IdsKnown
<1>6. NamesRestored
  BY <1>4 DEF NamesRestored
<1>7. PreparedOK
  BY <1>1 DEF PreparedOK, NothingPrepared
<1>8. SentOK
  BY <1>1 DEF SentOK
<1> QED
  BY <1>2, <1>3, <1>5, <1>6, <1>7, <1>8 DEF ConversationInv

\* The client's own words.
ClientWords == {"prompt", "/compact", "summarize", "small", "large"}

LEMMA ClientTextIs ==
  ASSUME NEW w \in ClientWords, NEW n \in Nat
  PROVE  /\ Text(<<w, n>>) \in TextBlocks /\ Text(<<w, n>>).type = "text" /\ Text(<<w, n>>).text[1] = w
         /\ w \notin {"notice", "summary", "no summary"} /\ w # "duplicate of"
<1> DEFINE t == <<w, n>>
<1>1. t \in Words /\ t[1] = w
  BY DEF Words, Strings, ClientWords
<1> HIDE DEF t
<1>2. Text(t) \in TextBlocks /\ Text(t).type = "text" /\ Text(t).text = t
  BY <1>1 DEF Text, TextBlocks
<1>3. w \notin {"notice", "summary", "no summary"} /\ w # "duplicate of"
  BY DEF ClientWords
<1> QED
  BY <1>1, <1>2, <1>3 DEF t

LEMMA ClientImageIs ==
  ASSUME NEW n \in Nat
  PROVE  Image(n) \in ImageBlocks /\ Image(n).type = "image"
BY DEF Image, ImageBlocks

\* Nothing that only the proxy says.
Spoken(c) == \A b \in Range(c) : b.type = "text" => b.text[1] \notin {"notice", "summary", "no summary"}

LEMMA SpokenIs ==
  ASSUME NEW c \in Seq(ShownBlocks), c # << >>, Spoken(c), NEW plain \in BOOLEAN
  PROVE  LET m == [role |-> "user", plain |-> plain, content |-> c] IN
         m \in Messages /\ m.role = "user" /\ Unmarked(m) /\ ResultIds(m) = << >>
<1> DEFINE m == [role |-> "user", plain |-> plain, content |-> c]
<1>1. c \in Seq(ShownBlocks \cup ResultBlocks) /\ c \in Seq(AllBlocks)
  BY DEF AllBlocks
<1>2. m \in UserMessages /\ m.role = "user" /\ m.content = c
  BY <1>1 DEF UserMessages
<1>3. m \in Messages
  BY <1>2 DEF Messages
<1> HIDE DEF m
<1>4. Unmarked(m)
  BY <1>2 DEF Unmarked, Spoken
<1>5. \A b \in Range(c) : b.type # "tool_result"
  <2>1. \A b \in Range(c) : b \in ShownBlocks
    BY InRange
  <2> QED
    BY <2>1 DEF ShownBlocks, TextBlocks, ImageBlocks
<1>6. ResultIds(m) = << >>
  BY <1>1, <1>2, <1>5, IdsAtNone DEF ResultIds
<1> QED
  BY <1>2, <1>3, <1>4, <1>6 DEF m

\* A text alone, or with an image after it.
LEMMA OneTextIs ==
  ASSUME NEW w \in ClientWords, NEW n \in Nat
  PROVE  LET c == <<Text(<<w, n>>)>> IN
         c \in Seq(ShownBlocks) /\ c # << >> /\ Spoken(c) /\ c \in Given
<1> DEFINE b == Text(<<w, n>>)
           c == <<b>>
<1>1. /\ b \in TextBlocks /\ b.type = "text" /\ b.text[1] = w
      /\ w \notin {"notice", "summary", "no summary"} /\ w # "duplicate of"
  BY ClientTextIs
<1> HIDE DEF b
<1>2. c \in Seq(ShownBlocks) /\ c # << >> /\ Range(c) = {b} /\ c[1] = b
  <2>1. b \in ShownBlocks
    BY <1>1 DEF ShownBlocks
  <2> QED
    BY <2>1, RangeOne
<1> HIDE DEF c
<1>3. Spoken(c) /\ \A x \in Range(c) : x.type = "text" => x.text[1] # "duplicate of"
  BY <1>1, <1>2 DEF Spoken
<1>4. c \in Given
  BY <1>1, <1>2, <1>3 DEF Given
<1> QED
  BY <1>2, <1>3, <1>4 DEF c, b

LEMMA TextAndImageIs ==
  ASSUME NEW w \in ClientWords, NEW n \in Nat, NEW k \in Nat
  PROVE  LET c == <<Text(<<w, n>>), Image(k)>> IN
         c \in Seq(ShownBlocks) /\ c # << >> /\ Spoken(c) /\ c \in Given
<1> DEFINE b == Text(<<w, n>>)
           d == Image(k)
           c == <<b, d>>
<1>1. /\ b \in TextBlocks /\ b.type = "text" /\ b.text[1] = w
      /\ w \notin {"notice", "summary", "no summary"} /\ w # "duplicate of"
  BY ClientTextIs
<1>2. d \in ImageBlocks /\ d.type # "text"
  BY ClientImageIs
<1> HIDE DEF b, d
<1>3. c \in Seq(ShownBlocks) /\ c # << >> /\ c[1] = b /\ c[2] = d /\ DOMAIN c = 1..2
  <2>1. b \in ShownBlocks /\ d \in ShownBlocks
    BY <1>1, <1>2 DEF ShownBlocks
  <2> QED
    BY <2>1
<1> HIDE DEF c
<1>4. \A x \in Range(c) : x = b \/ x = d
  <2>1. \A i \in 1..2 : i = 1 \/ i = 2
    OBVIOUS
  <2> QED
    BY <1>3, <2>1 DEF Range
<1>5. Spoken(c) /\ \A x \in Range(c) : x.type = "text" => x.text[1] # "duplicate of"
  BY <1>1, <1>2, <1>4 DEF Spoken
<1>6. c \in Given
  BY <1>1, <1>3, <1>5 DEF Given
<1> QED
  BY <1>3, <1>5, <1>6 DEF c, b, d

LEMMA NothingDue ==
  ASSUME ConversationInv, stage = "client", stop # "tool_use"
  PROVE  Due(messages) = << >>
<1>1. CASE messages = << >>
  BY <1>1 DEF Due
<1>2. CASE messages # << >>
  <2> DEFINE m == Last(messages)
  <2>1. Calls(m) = << >>
    BY <1>2 DEF ConversationInv, TurnOK
  <2>2. m \in Messages /\ m = messages[Len(messages)]
    <3>1. messages \in Seq(Messages)
      BY DEF ConversationInv, History
    <3> QED
      BY <1>2, <3>1, NotEmpty DEF Last
  <2> HIDE DEF m
  <2>3. CallIds(m) = [i \in DOMAIN Calls(m) |-> Calls(m)[i].id]
    BY <2>2, CallsAre
  <2>4. CallIds(m) = << >>
    BY <2>1, <2>3
  <2> QED
    BY <1>2, <2>2, <2>4 DEF Due
<1> QED
  BY <1>1, <1>2

LEMMA TurnIs ==
  ASSUME ConversationInv
  PROVE  Turn \in Nat /\ messages \in Seq(Messages)
BY DEF ConversationInv, History, Turn

LEMMA SpeechKeeps ==
  ASSUME ConversationInv, stop # "tool_use", NEW c \in Seq(ShownBlocks), c # << >>, Spoken(c), NEW plain \in BOOLEAN,
         NEW m, m = [role |-> "user", plain |-> plain, content |-> c], Say(m)
  PROVE  ConversationInv'
<1>1. m \in Messages /\ m.role = "user" /\ Unmarked(m) /\ ResultIds(m) = << >>
  BY SpokenIs
<1>2. Due(messages) = << >>
  BY NothingDue DEF Say
<1> QED
  BY <1>1, <1>2, SayKeeps

LEMMA PromptKeeps ==
  ASSUME ConversationInv, Prompt
  PROVE  ConversationInv'
<1> DEFINE c == <<Text(<<"prompt", Turn>>)>>
           d == <<Text(<<"prompt", Turn>>), Image(Turn)>>
<1>1. Turn \in Nat /\ "prompt" \in ClientWords /\ stop # "tool_use"
  BY TurnIs DEF ClientWords, Prompt
<1>2. c \in Seq(ShownBlocks) /\ c # << >> /\ Spoken(c)
  BY <1>1, OneTextIs
<1>3. d \in Seq(ShownBlocks) /\ d # << >> /\ Spoken(d)
  BY <1>1, TextAndImageIs
<1>4. \/ \E plain \in BOOLEAN : Say([role |-> "user", plain |-> plain, content |-> c])
      \/ Say([role |-> "user", plain |-> FALSE, content |-> d])
  BY DEF Prompt, Message
<1> HIDE DEF c, d
<1> QED
  BY <1>1, <1>2, <1>3, <1>4, SpeechKeeps

LEMMA AskForSummaryKeeps ==
  ASSUME ConversationInv, AskForSummary
  PROVE  ConversationInv'
<1> DEFINE c == <<Text(<<"/compact", Turn>>)>>
           d == <<Text(<<"summarize", Turn>>)>>
<1>1. Turn \in Nat /\ "/compact" \in ClientWords /\ "summarize" \in ClientWords /\ stop # "tool_use"
  BY TurnIs DEF ClientWords, AskForSummary
<1>2. c \in Seq(ShownBlocks) /\ c # << >> /\ Spoken(c)
  BY <1>1, OneTextIs
<1>3. d \in Seq(ShownBlocks) /\ d # << >> /\ Spoken(d)
  BY <1>1, OneTextIs
<1>4. \/ \E plain \in BOOLEAN : Say([role |-> "user", plain |-> plain, content |-> c])
      \/ Say([role |-> "user", plain |-> FALSE, content |-> d])
  BY DEF AskForSummary, Message
<1> HIDE DEF c, d
<1> QED
  BY <1>1, <1>2, <1>3, <1>4, SpeechKeeps

LEMMA IdsAtJoin ==
  ASSUME NEW a \in Seq(AllBlocks), NEW b \in Seq(AllBlocks), NEW type \in {"tool_use", "tool_result"}
  PROVE  IdsAt(Join(a, b), type) = Join(IdsAt(a, type), IdsAt(b, type))
<1> DEFINE One(x) == IF x.type = type THEN <<x.id>> ELSE << >>
           c == Join(a, b)
           s == [i \in DOMAIN a |-> One(a[i])]
           t == [i \in DOMAIN b |-> One(b[i])]
           v == [i \in DOMAIN c |-> One(c[i])]
<1>1. \A x \in AllBlocks : One(x) \in Seq(Ids)
  <2> SUFFICES ASSUME NEW x \in AllBlocks PROVE One(x) \in Seq(Ids)
    OBVIOUS
  <2>1. x.type = type => x.id \in Ids
    BY BlockIs
  <2> QED
    BY <2>1
<1>2. c \in Seq(AllBlocks) /\ Len(c) = Len(a) + Len(b)
  BY JoinAt
<1>3. \A j \in 1..(Len(a) + Len(b)) : c[j] = IF j <= Len(a) THEN a[j] ELSE b[j - Len(a)]
  BY JoinAt
<1>4. Len(a) \in Nat /\ Len(b) \in Nat
  OBVIOUS
<1> HIDE DEF c, One
<1>5. s \in Seq(Seq(Ids)) /\ Len(s) = Len(a) /\ \A i \in 1..Len(a) : s[i] = One(a[i])
  <2>1. \A i \in DOMAIN a : One(a[i]) \in Seq(Ids)
    BY <1>1
  <2>2. ListsFor(s, a, Ids)
    BY <2>1 DEF ListsFor
  <2>3. \A i \in 1..Len(a) : s[i] = One(a[i])
    OBVIOUS
  <2> HIDE DEF s
  <2> QED
    BY <2>2, <2>3, MapIs
<1>6. t \in Seq(Seq(Ids)) /\ Len(t) = Len(b) /\ \A i \in 1..Len(b) : t[i] = One(b[i])
  <2>1. \A i \in DOMAIN b : One(b[i]) \in Seq(Ids)
    BY <1>1
  <2>2. ListsFor(t, b, Ids)
    BY <2>1 DEF ListsFor
  <2>3. \A i \in 1..Len(b) : t[i] = One(b[i])
    OBVIOUS
  <2> HIDE DEF t
  <2> QED
    BY <2>2, <2>3, MapIs
<1>7. v \in Seq(Seq(Ids)) /\ Len(v) = Len(a) + Len(b) /\ \A i \in 1..(Len(a) + Len(b)) : v[i] = One(c[i])
  BY <1>1, <1>2
<1>8. IdsAt(a, type) = FlattenSeq(s) /\ IdsAt(b, type) = FlattenSeq(t) /\ IdsAt(c, type) = FlattenSeq(v)
  BY DEF IdsAt, One
<1> HIDE DEF s, t, v
<1>9. v = Join(s, t)
  <2>1. /\ Join(s, t) \in Seq(Seq(Ids)) /\ Len(Join(s, t)) = Len(s) + Len(t)
        /\ \A j \in 1..(Len(s) + Len(t)) : Join(s, t)[j] = IF j <= Len(s) THEN s[j] ELSE t[j - Len(s)]
    <3>1. s \in Seq(Seq(Ids)) /\ t \in Seq(Seq(Ids))
      BY <1>5, <1>6
    <3> QED
      BY <3>1, JoinAt
  <2>2. ASSUME NEW j \in 1..(Len(a) + Len(b)) PROVE v[j] = Join(s, t)[j]
    <3>1. v[j] = One(c[j])
      BY <1>7
    <3>2. CASE j <= Len(a)
      <4>1. j \in 1..Len(a)
        BY <1>4, <3>2
      <4> QED
        BY <1>3, <1>5, <1>6, <2>1, <3>1, <3>2, <4>1
    <3>3. CASE ~(j <= Len(a))
      <4>1. j - Len(a) \in 1..Len(b)
        BY <1>4, <3>3
      <4>2. c[j] = b[j - Len(a)]
        BY <1>3, <3>3
      <4>3. Join(s, t)[j] = t[j - Len(a)]
        BY <1>5, <1>6, <2>1, <3>3
      <4> QED
        BY <1>6, <3>1, <4>1, <4>2, <4>3
    <3> QED
      BY <3>2, <3>3
  <2> DEFINE w == Join(s, t)
  <2>3. w \in Seq(Seq(Ids)) /\ Len(w) = Len(v) /\ \A j \in 1..Len(v) : v[j] = w[j]
    <3>1. Len(w) = Len(v)
      BY <1>5, <1>6, <1>7, <2>1
    <3>2. \A j \in 1..Len(v) : v[j] = w[j]
      BY <1>7, <2>2
    <3> QED
      BY <2>1, <3>1, <3>2
  <2> HIDE DEF w
  <2>4. v = w
    BY <1>7, <2>3, SeqEqual
  <2> QED
    BY <2>4 DEF w
<1>10. FlattenSeq(v) = Join(FlattenSeq(s), FlattenSeq(t))
  <2>1. FlattenSeq(s \o t) = FlattenSeq(s) \o FlattenSeq(t)
    BY <1>5, <1>6, FlattenJoin
  <2> QED
    BY <1>9, <2>1 DEF Join
<1> QED
  BY <1>8, <1>10 DEF c

\* The results for the calls of a message, and what else the user sends with them.
LEMMA ResultsMessageIs ==
  ASSUME NEW last \in Messages, Calls(last) # << >>, NEW output \in Given,
         NEW aside \in Seq(ShownBlocks), Spoken(aside),
         NEW r, r = [i \in DOMAIN Calls(last) |-> ToolResult(Calls(last)[i].id, output)]
  PROVE  LET m == Message("user", Join(r, aside)) IN
         m \in Messages /\ m.role = "user" /\ Unmarked(m) /\ ResultIds(m) = CallIds(last)
<1> DEFINE u == Calls(last)
           S == ShownBlocks \cup ResultBlocks
           c == Join(r, aside)
           m == Message("user", c)
           s == CallIds(last)
<1>1. u \in Seq(UseBlocks) /\ s = [i \in DOMAIN u |-> u[i].id] /\ s \in Seq(Ids)
  BY CallsAre
<1> HIDE DEF u, s
<1>2. \A i \in DOMAIN u : u[i].id \in Ids
  BY <1>1 DEF UseBlocks
<1>3. \A x \in Ids : ToolResult(x, output) \in ResultBlocks /\ ToolResult(x, output).id = x /\ ToolResult(x, output).type = "tool_result"
  BY DEF ToolResult, ResultBlocks
<1>4. r = [i \in DOMAIN u |-> ToolResult(u[i].id, output)]
  BY DEF u
<1>5. /\ r \in Seq(ResultBlocks) /\ DOMAIN r = DOMAIN u /\ Len(r) = Len(u)
      /\ \A i \in DOMAIN u : r[i].id = u[i].id /\ r[i].type = "tool_result"
  <2>1. \A i \in DOMAIN u : ToolResult(u[i].id, output) \in ResultBlocks
    BY <1>2, <1>3
  <2>2. r \in Seq(ResultBlocks) /\ DOMAIN r = DOMAIN u /\ Len(r) = Len(u)
    BY <1>1, <1>4, <2>1
  <2> QED
    BY <1>2, <1>3, <1>4, <2>2
<1>6. r \in Seq(S) /\ aside \in Seq(S) /\ r \in Seq(AllBlocks) /\ aside \in Seq(AllBlocks)
  BY <1>5 DEF AllBlocks
<1>7. c \in Seq(S) /\ Len(c) = Len(r) + Len(aside) /\ Range(c) = Range(r) \cup Range(aside)
  <2>1. r \in Seq(S) /\ aside \in Seq(S)
    BY <1>6
  <2> HIDE DEF S
  <2>2. Join(r, aside) \in Seq(S) /\ Len(Join(r, aside)) = Len(r) + Len(aside)
    BY <2>1, JoinIs
  <2>3. Range(Join(r, aside)) = Range(r) \cup Range(aside)
    BY <2>1, RangeJoin
  <2> QED
    BY <2>2, <2>3
<1>8. c # << >>
  <2>1. Len(u) >= 1 /\ Len(aside) \in Nat /\ Len(u) \in Nat
    BY <1>1 DEF u
  <2> QED
    BY <1>5, <1>7, <2>1
<1>9. IdsAt(r, "tool_result") = s
  <2>1. DOMAIN s = DOMAIN u /\ \A i \in DOMAIN u : s[i] = u[i].id
    BY <1>1
  <2>2. [i \in DOMAIN r |-> IF r[i].type = "tool_result" THEN <<r[i].id>> ELSE << >>] = [i \in DOMAIN s |-> <<s[i]>>]
    BY <1>5, <2>1
  <2>3. FlattenSeq([i \in DOMAIN s |-> <<s[i]>>]) = s
    BY <1>1, FlattenSingles
  <2> QED
    BY <2>2, <2>3 DEF IdsAt
<1>10. IdsAt(aside, "tool_result") = << >>
  <2>1. \A b \in Range(aside) : b \in ShownBlocks
    BY InRange
  <2>2. \A b \in Range(aside) : b.type # "tool_result"
    BY <2>1 DEF ShownBlocks, TextBlocks, ImageBlocks
  <2> QED
    BY <1>6, <2>2, IdsAtNone
<1>11. IdsAt(c, "tool_result") = s
  <2>1. IdsAt(c, "tool_result") = Join(IdsAt(r, "tool_result"), IdsAt(aside, "tool_result"))
    BY <1>6, IdsAtJoin
  <2>2. Join(s, << >>) = s
    BY <1>1, JoinIs
  <2> QED
    BY <1>9, <1>10, <2>1, <2>2
<1>12. \A b \in Range(c) : b.type = "text" => b.text[1] \notin {"notice", "summary", "no summary"}
  <2>1. \A b \in Range(r) : b.type # "text"
    BY <1>5 DEF Range
  <2> QED
    BY <1>7, <2>1 DEF Spoken
<1> HIDE DEF c
<1>13. m \in UserMessages /\ m.role = "user" /\ m.content = c
  BY <1>7 DEF Message, UserMessages
<1> HIDE DEF m
<1>14. Unmarked(m) /\ m \in Messages
  BY <1>8, <1>12, <1>13 DEF Unmarked, Messages
<1>15. ResultIds(m) = s
  BY <1>11, <1>13 DEF ResultIds
<1> QED
  BY <1>13, <1>14, <1>15 DEF m, c, s

LEMMA ResultsKeep ==
  ASSUME ConversationInv, Results
  PROVE  ConversationInv'
<1> DEFINE last == Last(messages)
           r(output) == [i \in DOMAIN Calls(last) |-> ToolResult(Calls(last)[i].id, output)]
<1>1. PICK output \in Outputs, aside \in {<< >>, <<Text(<<"prompt", Turn>>)>>, <<Image(Turn)>>} :
        Say(Message("user", Join(r(output), aside)))
  BY DEF Results, Join
<1>2. Turn \in Nat /\ messages \in Seq(Messages) /\ 0 \in Nat
  BY TurnIs
<1>3. stage = "client" /\ stop = "tool_use"
  BY <1>1 DEF Say, Results
<1>4. messages # << >> /\ Calls(last) # << >>
  BY <1>3 DEF ConversationInv, TurnOK
<1>5. last \in Messages /\ last = messages[Len(messages)]
  BY <1>2, <1>4, NotEmpty DEF Last
<1> HIDE DEF last
<1>6. output \in Given
  <2>1. "small" \in ClientWords /\ "large" \in ClientWords
    BY DEF ClientWords
  <2>2. <<Text(<<"small", 0>>)>> \in Given
    BY <1>2, <2>1, OneTextIs
  <2>3. <<Text(<<"large", 0>>)>> \in Given
    BY <1>2, <2>1, OneTextIs
  <2>4. <<Text(<<"small", 0>>), Image(Turn)>> \in Given
    BY <1>2, <2>1, TextAndImageIs
  <2>5. \/ output = <<Text(<<"small", 0>>)>>
        \/ output = <<Text(<<"large", 0>>)>>
        \/ output = <<Text(<<"small", 0>>), Image(Turn)>>
    BY <1>1 DEF Outputs
  <2> QED
    BY <2>2, <2>3, <2>4, <2>5
<1>7. aside \in Seq(ShownBlocks) /\ Spoken(aside)
  <2>1. CASE aside = << >>
    <3>1. << >> \in Seq(ShownBlocks)
      OBVIOUS
    <3>2. Spoken(<< >>)
      BY RangeNone DEF Spoken
    <3> QED
      BY <2>1, <3>1, <3>2
  <2>2. CASE aside = <<Text(<<"prompt", Turn>>)>>
    <3>1. "prompt" \in ClientWords
      BY DEF ClientWords
    <3> QED
      BY <1>2, <2>2, <3>1, OneTextIs
  <2>3. CASE aside = <<Image(Turn)>>
    <3> DEFINE b == Image(Turn)
    <3>1. b \in ImageBlocks /\ b.type = "image"
      BY <1>2, ClientImageIs
    <3> HIDE DEF b
    <3>2. b \in ShownBlocks
      BY <3>1 DEF ShownBlocks
    <3>3. <<b>> \in Seq(ShownBlocks) /\ Range(<<b>>) = {b}
      BY <3>2, RangeOne
    <3>4. Spoken(<<b>>)
      BY <3>1, <3>3 DEF Spoken
    <3> QED
      BY <2>3, <3>3, <3>4 DEF b
  <2> QED
    BY <1>1, <2>1, <2>2, <2>3
<1> DEFINE m == Message("user", Join(r(output), aside))
<1>8. m \in Messages /\ m.role = "user" /\ Unmarked(m) /\ ResultIds(m) = CallIds(last)
  BY <1>4, <1>5, <1>6, <1>7, ResultsMessageIs
<1>9. Say(m)
  BY <1>1
<1> HIDE DEF m
<1>10. ResultIds(m) = Due(messages)
  BY <1>4, <1>5, <1>8 DEF Due
<1> QED
  BY <1>8, <1>9, <1>10, SayKeeps

\* The steps of the proxy up to an answer leave the client's history.
LEMMA HistoryStays ==
  ASSUME ConversationInv, messages' = messages, issued' = issued, stage # "client", stage' # "client"
  PROVE  History(messages') /\ TurnOK' /\ IdsKnown' /\ NamesRestored'
<1>1. History(messages) /\ TurnOK /\ IdsKnown /\ NamesRestored
  BY DEF ConversationInv
<1>2. TurnOK'
  BY <1>1 DEF TurnOK
<1>3. IdsKnown'
  BY <1>1 DEF IdsKnown
<1>4. NamesRestored'
  BY <1>1 DEF NamesRestored
<1> QED
  BY <1>1, <1>2, <1>3, <1>4

LEMMA ArriveKeeps ==
  ASSUME ConversationInv, Arrive
  PROVE  ConversationInv'
<1>1. stage = "arrived" /\ stage' = "enrich" /\ messages' = messages /\ issued' = issued
  BY DEF Arrive
<1>2. History(messages') /\ TurnOK' /\ IdsKnown' /\ NamesRestored'
  BY <1>1, HistoryStays
<1>3. History(messages)
  BY DEF ConversationInv
<1> DEFINE P == PruneImages(messages)
           s == << <<"client", 0>> >>
<1>4. P \in Seq(Messages)
  BY <1>3, HistoryPruned DEF History
<1>5. s \in Seq(Strings \X Nat)
  <2> DEFINE w == "client"
  <2>1. w \in Strings
    BY DEF Strings
  <2> HIDE DEF w
  <2>2. << <<w, 0>> >> \in Seq(Strings \X Nat)
    BY <2>1
  <2> QED
    BY <2>2 DEF w
<1>6. PICK tools \in {Tools, Tools \ ServerTools} : prepared' = [system |-> s, messages |-> P, tools |-> Named(tools)]
  BY DEF Arrive
<1>7. Named(tools) \subseteq Offered
  <2>1. tools \subseteq Tools
    BY <1>6
  <2> QED
    BY <2>1 DEF Named, Offered
<1> HIDE DEF P, s
<1>8. prepared' \in [system : Seq(Strings \X Nat), messages : Seq(Messages), tools : SUBSET Offered] /\ prepared'.messages = P
  BY <1>4, <1>5, <1>6, <1>7
<1>9. PreparedOK'
  BY <1>1, <1>8 DEF PreparedOK, P
<1>10. PICK p \in AutoProfiles(prepared'.messages) : chain' = <<p>> \o Backups[p]
  BY DEF Arrive
<1>11. \A intent : Resolve(intent) \in Profiles
  <2>1. "default" \in DOMAIN Rules /\ Range(Rules) \subseteq Profiles
    BY ConversationAssumption
  <2>2. \A intent \in DOMAIN Rules : Rules[intent] \in Profiles
    BY <2>1 DEF Range
  <2> QED
    BY <2>1, <2>2 DEF Resolve
<1>12. p \in Profiles
  BY <1>10, <1>11 DEF AutoProfiles
<1>13. Backups[p] \in Seq(Profiles)
  BY <1>12, ConversationAssumption
<1> DEFINE q == <<p>>
           b == Backups[p]
<1>14. q \in Seq(Profiles) /\ b \in Seq(Profiles)
  BY <1>12, <1>13
<1> HIDE DEF q, b
<1>15. q \o b \in Seq(Profiles)
  BY <1>14, ConcatProperties
<1>16. SentOK'
  BY <1>1, <1>10, <1>15 DEF SentOK, q, b
<1> QED
  BY <1>2, <1>9, <1>16 DEF ConversationInv

LEMMA EnrichKeeps ==
  ASSUME ConversationInv, Enrich
  PROVE  ConversationInv'
<1>1. /\ stage = "enrich" /\ stage' = "compress" /\ messages' = messages /\ issued' = issued /\ chain' = chain
      /\ prepared' = prepared \/ prepared' = Inject(prepared, <<"code", 0>>)
  BY DEF Enrich
<1>2. History(messages') /\ TurnOK' /\ IdsKnown' /\ NamesRestored'
  BY <1>1, HistoryStays
<1> DEFINE B == [system : Seq(Strings \X Nat), messages : Seq(Messages), tools : SUBSET Offered]
           x == <<"code", 0>>
<1>3. PreparedOK /\ SentOK
  BY DEF ConversationInv
<1>4. prepared \in B /\ prepared.messages = PruneImages(messages)
  BY <1>1, <1>3 DEF PreparedOK
<1>5. x \in Strings \X Nat
  BY DEF Strings
<1> HIDE DEF x
<1>6. Inject(prepared, x) \in B /\ Inject(prepared, x).messages = prepared.messages
  <2> DEFINE s == Append(prepared.system, x)
  <2>1. s \in Seq(Strings \X Nat)
    BY <1>4, <1>5, AppendProperties
  <2>2. Inject(prepared, x) = [prepared EXCEPT !.system = s]
    BY DEF Inject
  <2> HIDE DEF s
  <2> QED
    BY <1>4, <2>1, <2>2
<1> HIDE DEF B
<1>7. prepared' \in B /\ prepared'.messages = PruneImages(messages)
  BY <1>1, <1>4, <1>6 DEF x
<1>8. PreparedOK'
  BY <1>1, <1>7 DEF PreparedOK, B
<1>9. SentOK'
  BY <1>1, <1>3 DEF SentOK
<1> QED
  BY <1>2, <1>8, <1>9 DEF ConversationInv

LEMMA CompressKeeps ==
  ASSUME ConversationInv, Compress
  PROVE  ConversationInv'
<1>1. stage = "compress" /\ stage' = "forward" /\ messages' = messages /\ issued' = issued /\ chain' = chain
  BY DEF Compress
<1>2. History(messages') /\ TurnOK' /\ IdsKnown' /\ NamesRestored'
  BY <1>1, HistoryStays
<1> DEFINE P == PruneImages(messages)
<1>3. PreparedOK /\ SentOK
  BY DEF ConversationInv
<1>4. prepared \in Bodies /\ prepared.messages = P
  BY <1>1, <1>3 DEF PreparedOK, Bodies
<1>5. P \in Seq(Messages)
  BY <1>4 DEF Bodies
<1> HIDE DEF P
<1>6. prepared' \in Bodies /\ prepared'.messages \in PreparedFrom(P)
  <2>1. CASE prepared' = prepared
    BY <1>4, <2>1 DEF PreparedFrom
  <2>2. CASE prepared' # prepared
    <3>1. PICK word \in Summaries : Summarizable(prepared.messages) /\ prepared' = [prepared EXCEPT !.messages = Compressed(@, word)]
      BY <2>2 DEF Compress
    <3>2. word \in SummaryWords
      BY <3>1 DEF Summaries, SummaryWords
    <3>3. Len(P) > Compression.keep_recent
      BY <1>4, <3>1 DEF Summarizable
    <3> DEFINE L == Compressed(P, word)
    <3>4. L \in Seq(Messages)
      BY <1>5, <3>2, <3>3, CompressedIs
    <3>5. L \in PreparedFrom(P)
      BY <3>2, <3>3 DEF PreparedFrom, SummaryWords
    <3>6. prepared' = [prepared EXCEPT !.messages = L]
      BY <1>4, <3>1
    <3> HIDE DEF L
    <3>7. prepared' \in Bodies /\ prepared'.messages = L
      BY <1>4, <3>4, <3>6 DEF Bodies
    <3> QED
      BY <3>5, <3>7
  <2> QED
    BY <2>1, <2>2
<1>7. PreparedOK'
  BY <1>1, <1>6 DEF PreparedOK, Bodies, P
<1>8. SentOK'
  BY <1>1, <1>3 DEF SentOK
<1> QED
  BY <1>2, <1>7, <1>8 DEF ConversationInv

LEMMA ForwardKeeps ==
  ASSUME ConversationInv, Forward
  PROVE  ConversationInv'
<1>1. /\ stage = "forward" /\ stage' = "posted" /\ messages' = messages /\ issued' = issued /\ chain' = chain
      /\ prepared' = prepared /\ chain # << >> /\ sent' = Translated(prepared, chain[1])
  BY DEF Forward
<1>2. History(messages') /\ TurnOK' /\ IdsKnown' /\ NamesRestored'
  BY <1>1, HistoryStays
<1>3. PreparedOK /\ SentOK
  BY DEF ConversationInv
<1>4. PreparedOK'
  BY <1>1, <1>3 DEF PreparedOK
<1>5. SentOK'
  BY <1>1, <1>3 DEF SentOK
<1> QED
  BY <1>2, <1>4, <1>5 DEF ConversationInv

\* The next candidate's turn.
LEMMA NextCandidate ==
  ASSUME ConversationInv, stage \in {"forward", "posted"}, stage' = "forward", chain # << >>, chain' = Tail(chain),
         messages' = messages, issued' = issued, prepared' = prepared
  PROVE  ConversationInv'
<1>1. History(messages') /\ TurnOK' /\ IdsKnown' /\ NamesRestored'
  BY HistoryStays
<1>2. PreparedOK /\ SentOK
  BY DEF ConversationInv
<1>3. PreparedOK'
  BY <1>2 DEF PreparedOK
<1>4. Tail(chain) \in Seq(Profiles)
  BY <1>2, HeadTailProperties DEF SentOK
<1>5. SentOK'
  BY <1>4 DEF SentOK
<1> QED
  BY <1>1, <1>3, <1>5 DEF ConversationInv

LEMMA RejectKeeps ==
  ASSUME ConversationInv, Reject
  PROVE  ConversationInv'
BY NextCandidate DEF Reject

LEMMA UpstreamFailsKeeps ==
  ASSUME ConversationInv, UpstreamFails
  PROVE  ConversationInv'
<1>1. chain # << >>
  BY DEF UpstreamFails, ConversationInv, SentOK
<1> QED
  BY <1>1, NextCandidate DEF UpstreamFails

LEMMA NothingPreparedIs ==
  NothingPrepared \in [system : Seq(Strings \X Nat), messages : Seq(Messages), tools : SUBSET Offered]
BY DEF NothingPrepared

LEMMA ExhaustedKeeps ==
  ASSUME ConversationInv, Exhausted
  PROVE  ConversationInv'
<1>1. /\ stage = "forward" /\ stage' = "arrived" /\ messages' = messages /\ issued' = issued /\ chain' = chain
      /\ prepared' = NothingPrepared
  BY DEF Exhausted
<1>2. History(messages') /\ TurnOK' /\ IdsKnown' /\ NamesRestored'
  BY <1>1, HistoryStays
<1>3. PreparedOK'
  BY <1>1, NothingPreparedIs DEF PreparedOK
<1>4. SentOK'
  BY <1>1 DEF ConversationInv, SentOK
<1> QED
  BY <1>2, <1>3, <1>4 DEF ConversationInv

-----------------------------------------------------------------------------
(* What the client gets of an answer                                       *)

\* A name the model uses, of those it was given, comes back as the client's.
LEMMA NameIsRestored ==
  ASSUME NEW ms \in Seq(Messages), NEW tools \in SUBSET Offered, NEW t \in {Truncate(n) : n \in tools}
  PROVE  RestoreName(t, NameMap(ms, tools)) \in Offered
<1> DEFINE called == {b.name : b \in UNION {Range(OfType(ms[i].content, "tool_use")) : i \in DOMAIN ms}}
           renamed == {n \in called \cup tools : Truncate(n) # n}
           short == {Truncate(n) : n \in renamed}
           Was(s) == CHOOSE n \in renamed : Truncate(n) = s
           map == [s \in short |-> Was(s)]
<1>1. NameMap(ms, tools) = map
  BY DEF NameMap
<1>2. called \subseteq Names
  <2> SUFFICES ASSUME NEW i \in DOMAIN ms, NEW b \in Range(OfType(ms[i].content, "tool_use")) PROVE b.name \in Names
    OBVIOUS
  <2> DEFINE m == ms[i]
  <2>1. m \in Messages
    OBVIOUS
  <2> HIDE DEF m
  <2>2. Calls(m) \in Seq(UseBlocks)
    BY <2>1, CallsAre
  <2>3. b \in Range(Calls(m))
    BY DEF Calls, m
  <2>4. b \in UseBlocks
    BY <2>2, <2>3, InRange
  <2> QED
    BY <2>4 DEF UseBlocks
<1>3. tools \subseteq Names
  BY DEF Names
<1> HIDE DEF called
<1>4. renamed \subseteq Offered
  <2> SUFFICES ASSUME NEW n \in called \cup tools, Truncate(n) # n PROVE n \in Offered
    OBVIOUS
  <2>1. n \in Names
    BY <1>2, <1>3
  <2> QED
    BY <2>1, TruncateIs
<1>5. PICK n \in tools : t = Truncate(n)
  OBVIOUS
<1>6. Truncate(n) # n => n \in renamed
  OBVIOUS
<1> HIDE DEF renamed
<1>7. \A s \in short : Was(s) \in renamed
  OBVIOUS
<1>8. n \in renamed => t \in short
  BY <1>5
<1> HIDE DEF short, Was
<1>9. RestoreName(t, map) = IF t \in short THEN Was(t) ELSE t
  BY DEF RestoreName
<1>10. t \notin short => t \in Offered
  BY <1>5, <1>6, <1>8
<1> QED
  BY <1>1, <1>4, <1>7, <1>9, <1>10

\* The ids that upstreams make.
LEMMA PrefixIs ==
  ASSUME NEW provider \in Providers, NEW prefix \in IdPrefixes[provider], NEW n \in Nat
  PROVE  prefix \in Seq(Strings) /\ [prefix |-> prefix, n |-> n] \in Ids
<1>1. IdPrefixes[provider] \in SUBSET Seq(STRING)
  BY ConversationAssumption
<1>2. STRING \subseteq Strings
  BY DEF Strings
<1>3. prefix \in Seq(Strings)
  BY <1>1, <1>2, SeqMonotonic
<1> QED
  BY <1>3 DEF Ids

\* Anthropic's own ids are left as they are.
LEMMA DirectIdStays ==
  ASSUME NEW prefix \in IdPrefixes["direct"], NEW n \in Nat
  PROVE  LET id == [prefix |-> prefix, n |-> n] IN id \in Ids /\ ToUpstream(id) = id
<1> DEFINE id == [prefix |-> prefix, n |-> n]
           first == [prefix |-> prefix, n |-> 0]
<1>1. ToUpstream(first).prefix = prefix
  BY ConversationAssumption
<1>2. prefix \in Seq(Strings)
  BY PrefixIs DEF Providers
<1>3. id \in Ids /\ first \in Ids /\ id.prefix = prefix /\ first.prefix = prefix
  BY <1>2 DEF Ids
<1> HIDE DEF id, first
<1>4. /\ StartsWith(first, <<"toolu_", "openai_">>) => Len(prefix) >= 2
      /\ StartsWith(first, <<"toolu_", "call_">>) => Len(prefix) >= 2
  BY <1>3, StartsIs DEF BeginsWith
<1>5. \A k \in 0..Len(prefix) : Strip(first, k).prefix = Rest(prefix, k) /\ Len(Rest(prefix, k)) = Len(prefix) - k
  <2> SUFFICES ASSUME NEW k \in 0..Len(prefix)
               PROVE  Strip(first, k).prefix = Rest(prefix, k) /\ Len(Rest(prefix, k)) = Len(prefix) - k
    OBVIOUS
  <2>1. k \in 0..Len(first.prefix)
    BY <1>3
  <2>2. Strip(first, k) = [prefix |-> Rest(first.prefix, k), n |-> first.n]
    BY <1>3, <2>1, StripIs
  <2>3. Len(Rest(prefix, k)) = Len(prefix) - k
    BY <1>2, RestIs
  <2> QED
    BY <1>3, <2>2, <2>3
<1>6. ~StartsWith(first, <<"toolu_", "openai_">>)
  <2> SUFFICES ASSUME StartsWith(first, <<"toolu_", "openai_">>) PROVE FALSE
    OBVIOUS
  <2>1. Len(prefix) \in Nat /\ 2 \in 0..Len(prefix)
    BY <1>2, <1>4
  <2>2. ToUpstream(first) = Strip(first, 2)
    BY DEF ToUpstream
  <2>3. Rest(prefix, 2) = prefix /\ Len(Rest(prefix, 2)) = Len(prefix) - 2
    BY <1>1, <1>5, <2>1, <2>2 DEF first
  <2> QED
    BY <2>1, <2>3
<1>7. ~StartsWith(first, <<"toolu_", "call_">>)
  <2> SUFFICES ASSUME StartsWith(first, <<"toolu_", "call_">>) PROVE FALSE
    OBVIOUS
  <2>1. Len(prefix) \in Nat /\ 1 \in 0..Len(prefix)
    BY <1>2, <1>4
  <2>2. ToUpstream(first) = Strip(first, 1)
    BY <1>6 DEF ToUpstream
  <2>3. Rest(prefix, 1) = prefix /\ Len(Rest(prefix, 1)) = Len(prefix) - 1
    BY <1>1, <1>5, <2>1, <2>2 DEF first
  <2> QED
    BY <2>1, <2>3
<1>8. ~StartsWith(id, <<"toolu_", "openai_">>) /\ ~StartsWith(id, <<"toolu_", "call_">>)
  BY <1>3, <1>6, <1>7 DEF StartsWith
<1>9. ToUpstream(id) = id
  BY <1>8 DEF ToUpstream
<1> QED
  BY <1>3, <1>9 DEF id

\* The content that the client gets for these items: what calls it holds are the items', by
\* ids that lead back to theirs and by the client's names, or one that was written as text.
ClientAnswer(c, items) ==
  /\ c \in Seq(TextBlocks \cup UseBlocks) /\ c # << >>
  /\ \A b \in Range(c) : b.type = "text" => b.text[1] \notin {"notice", "summary", "no summary"}
  /\ LET calls == {i \in DOMAIN items : items[i].item = "call"}
     IN  /\ IsFiniteSet(calls)
         /\ \A i \in calls : c[i].id \in Ids /\ ToUpstream(c[i].id) = items[i].id
         /\ \A b \in Range(c) : b.type = "tool_use" =>
              \/ b.id = ToAnthropic(WrittenId)
              \/ b.name \in Offered /\ \E i \in calls : b.id = c[i].id

\* A text of the model's.
AnswerWords == {"answer", "written call"}

LEMMA AnswerTextIs ==
  ASSUME NEW w \in AnswerWords, NEW x \in Nat \cup Names
  PROVE  /\ <<w, x>> \in Words /\ Text(<<w, x>>) \in TextBlocks /\ Text(<<w, x>>).type = "text"
         /\ Text(<<w, x>>).text[1] = w /\ Text(<<w, x>>).text[2] = x
<1> DEFINE t == <<w, x>>
<1>1. t \in Words /\ t[1] = w /\ t[2] = x
  BY DEF Words, Strings, AnswerWords
<1> HIDE DEF t
<1>2. Text(t) \in TextBlocks /\ Text(t).type = "text" /\ Text(t).text = t
  BY <1>1 DEF Text, TextBlocks
<1> QED
  BY <1>1, <1>2 DEF t

LEMMA TextAnswers ==
  ASSUME NEW w \in AnswerWords, NEW x \in Nat \cup Names, NEW it, it.item = "said"
  PROVE  ClientAnswer(<<Text(<<w, x>>)>>, <<it>>)
<1> DEFINE b == Text(<<w, x>>)
           c == <<b>>
           items == <<it>>
<1>1. b \in TextBlocks /\ b.type = "text" /\ b.text[1] = w
  BY AnswerTextIs
<1>2. w \notin {"notice", "summary", "no summary"}
  BY DEF AnswerWords
<1> HIDE DEF b
<1>3. b \in TextBlocks \cup UseBlocks
  BY <1>1
<1>4. c \in Seq(TextBlocks \cup UseBlocks) /\ c # << >> /\ Range(c) = {b}
  BY <1>3, RangeOne
<1>5. {i \in DOMAIN items : items[i].item = "call"} = {}
  <2>1. \A i \in DOMAIN items : items[i] = it
    OBVIOUS
  <2> QED
    BY <2>1
<1> HIDE DEF c, items
<1>6. \A y \in Range(c) : y.type = "text" /\ y.text[1] \notin {"notice", "summary", "no summary"}
  BY <1>1, <1>2, <1>4
<1>7. ClientAnswer(c, items)
  BY <1>4, <1>5, <1>6, FS_EmptySet DEF ClientAnswer
<1> QED
  BY <1>7 DEF c, items, b

LEMMA UseIs ==
  ASSUME NEW id \in Ids, NEW name \in Names
  PROVE  ToolUse(id, name) \in UseBlocks /\ ToolUse(id, name).type = "tool_use" /\ ToolUse(id, name).id = id
         /\ ToolUse(id, name).name = name
BY DEF ToolUse, UseBlocks

LEMMA WrittenAnswers ==
  ASSUME NEW name \in Names, NEW it, it.item = "said"
  PROVE  ClientAnswer(<<ToolUse(ToAnthropic(WrittenId), name)>>, <<it>>)
<1> DEFINE x == ToAnthropic(WrittenId)
           b == ToolUse(x, name)
           c == <<b>>
           items == <<it>>
<1>1. x \in Ids
  BY WrittenIs
<1> HIDE DEF x
<1>2. b \in UseBlocks /\ b.type = "tool_use" /\ b.id = x
  BY <1>1, UseIs
<1> HIDE DEF b
<1>3. b \in TextBlocks \cup UseBlocks
  BY <1>2
<1>4. c \in Seq(TextBlocks \cup UseBlocks) /\ c # << >> /\ Range(c) = {b}
  BY <1>3, RangeOne
<1>5. {i \in DOMAIN items : items[i].item = "call"} = {}
  <2>1. \A i \in DOMAIN items : items[i] = it
    OBVIOUS
  <2> QED
    BY <2>1
<1> HIDE DEF c, items
<1>6. \A y \in Range(c) : y.type = "tool_use" /\ y.id = x
  BY <1>2, <1>4
<1>7. ClientAnswer(c, items)
  BY <1>4, <1>5, <1>6, FS_EmptySet DEF ClientAnswer, x
<1> QED
  BY <1>7 DEF c, items, b, x

LEMMA OneCallAnswers ==
  ASSUME NEW x \in Ids, NEW name \in Offered, NEW it, it.item = "call", it.id = ToUpstream(x)
  PROVE  ClientAnswer(<<ToolUse(x, name)>>, <<it>>)
<1> DEFINE b == ToolUse(x, name)
           c == <<b>>
           items == <<it>>
           calls == {i \in DOMAIN items : items[i].item = "call"}
<1>1. name \in Names
  BY DEF Names
<1>2. b \in UseBlocks /\ b.type = "tool_use" /\ b.id = x /\ b.name = name
  BY <1>1, UseIs
<1> HIDE DEF b
<1>3. b \in TextBlocks \cup UseBlocks
  BY <1>2
<1>4. c \in Seq(TextBlocks \cup UseBlocks) /\ c # << >> /\ Range(c) = {b} /\ c[1] = b
  BY <1>3, RangeOne
<1>5. items[1] = it /\ DOMAIN items = {1}
  OBVIOUS
<1> HIDE DEF c, items
<1>6. calls = {1}
  BY <1>5
<1>7. IsFiniteSet(calls)
  BY <1>6, FS_Singleton
<1> HIDE DEF calls
<1>8. \A i \in calls : c[i].id \in Ids /\ ToUpstream(c[i].id) = items[i].id
  BY <1>2, <1>4, <1>5, <1>6
<1>9. \A y \in Range(c) : y.type = "tool_use" /\ y.name \in Offered /\ \E i \in calls : y.id = c[i].id
  BY <1>2, <1>4, <1>6
<1>10. ClientAnswer(c, items)
  BY <1>4, <1>7, <1>8, <1>9 DEF ClientAnswer, calls
<1> QED
  BY <1>10 DEF c, items, b

LEMMA TwoCallsAnswer ==
  ASSUME NEW w \in AnswerWords, NEW k \in Nat, NEW x1 \in Ids, NEW x2 \in Ids, NEW name \in Offered,
         NEW it, it.item = "said",
         NEW it1, it1.item = "call", it1.id = ToUpstream(x1), NEW it2, it2.item = "call", it2.id = ToUpstream(x2)
  PROVE  ClientAnswer(<<Text(<<w, k>>), ToolUse(x1, name), ToolUse(x2, name)>>, <<it, it1, it2>>)
<1> DEFINE b == Text(<<w, k>>)
           b1 == ToolUse(x1, name)
           b2 == ToolUse(x2, name)
           c == <<b, b1, b2>>
           items == <<it, it1, it2>>
           calls == {i \in DOMAIN items : items[i].item = "call"}
<1>1. name \in Names
  BY DEF Names
<1>2. b1 \in UseBlocks /\ b1.type = "tool_use" /\ b1.id = x1 /\ b1.name = name
  BY <1>1, UseIs
<1>3. b2 \in UseBlocks /\ b2.type = "tool_use" /\ b2.id = x2 /\ b2.name = name
  BY <1>1, UseIs
<1>4. b \in TextBlocks /\ b.type = "text" /\ b.text[1] = w
  BY AnswerTextIs
<1>5. w \notin {"notice", "summary", "no summary"}
  BY DEF AnswerWords
<1> HIDE DEF b, b1, b2
<1>6. b \in TextBlocks \cup UseBlocks /\ b1 \in TextBlocks \cup UseBlocks /\ b2 \in TextBlocks \cup UseBlocks
  BY <1>2, <1>3, <1>4
<1>7. c \in Seq(TextBlocks \cup UseBlocks) /\ c # << >> /\ DOMAIN c = 1..3 /\ c[1] = b /\ c[2] = b1 /\ c[3] = b2
  BY <1>6
<1>8. items[1] = it /\ items[2] = it1 /\ items[3] = it2 /\ DOMAIN items = 1..3
  OBVIOUS
<1> HIDE DEF c, items
<1>9. \A i \in 1..3 : i = 1 \/ i = 2 \/ i = 3
  OBVIOUS
<1>10. \A y \in Range(c) : y = b \/ y = b1 \/ y = b2
  BY <1>7, <1>9 DEF Range
<1>11. 1 \notin calls /\ 2 \in calls /\ 3 \in calls /\ calls \subseteq {2, 3}
  BY <1>8, <1>9
<1>12. IsFiniteSet(calls)
  <2>1. IsFiniteSet({2}) /\ IsFiniteSet({3})
    BY FS_Singleton
  <2>2. IsFiniteSet({2} \cup {3})
    BY <2>1, FS_Union
  <2>3. calls \subseteq {2} \cup {3}
    BY <1>11
  <2> QED
    BY <2>2, <2>3, FS_Subset
<1>13. \A i \in calls : c[i].id \in Ids /\ ToUpstream(c[i].id) = items[i].id
  BY <1>2, <1>3, <1>7, <1>8, <1>11
<1> HIDE DEF calls
<1>14. \A y \in Range(c) : y.type = "text" => y.text[1] \notin {"notice", "summary", "no summary"}
  BY <1>2, <1>3, <1>4, <1>5, <1>10
<1>15. \A y \in Range(c) : y.type = "tool_use" => y.name \in Offered /\ \E i \in calls : y.id = c[i].id
  BY <1>2, <1>3, <1>4, <1>7, <1>10, <1>11
<1>16. ClientAnswer(c, items)
  BY <1>7, <1>12, <1>13, <1>14, <1>15 DEF ClientAnswer, calls
<1> QED
  BY <1>16 DEF c, items, b, b1, b2

LEMMA JoinedPairs ==
  ASSUME NEW S, NEW a \in S, NEW b \in S, NEW c \in S
  PROVE  Join(<<a>>, <<b>>) = <<a, b>> /\ Join(<<a>>, <<b, c>>) = <<a, b, c>>
<1> DEFINE p == <<a>>
           q == <<b>>
           r == <<b, c>>
<1>1. p \in Seq(S) /\ Len(p) = 1 /\ p[1] = a
  OBVIOUS
<1>2. q \in Seq(S) /\ Len(q) = 1 /\ q[1] = b
  OBVIOUS
<1>3. r \in Seq(S) /\ Len(r) = 2 /\ r[1] = b /\ r[2] = c
  OBVIOUS
<1>4. <<a, b>> \in Seq(S) /\ Len(<<a, b>>) = 2 /\ <<a, b>>[1] = a /\ <<a, b>>[2] = b
  OBVIOUS
<1>5. <<a, b, c>> \in Seq(S) /\ Len(<<a, b, c>>) = 3 /\ <<a, b, c>>[1] = a /\ <<a, b, c>>[2] = b /\ <<a, b, c>>[3] = c
  OBVIOUS
<1> HIDE DEF p, q, r
<1>6. Join(p, q) = <<a, b>>
  <2> DEFINE j == Join(p, q)
             k == <<a, b>>
  <2>1. /\ j \in Seq(S) /\ Len(j) = Len(p) + Len(q)
        /\ \A i \in 1..(Len(p) + Len(q)) : j[i] = IF i <= Len(p) THEN p[i] ELSE q[i - Len(p)]
    BY <1>1, <1>2, JoinAt
  <2>2. k \in Seq(S) /\ Len(k) = 2 /\ k[1] = a /\ k[2] = b
    BY <1>4
  <2> HIDE DEF j, k
  <2>3. Len(j) = 2 /\ j[1] = a /\ j[2] = b
    BY <1>1, <1>2, <2>1
  <2>4. \A i \in 1..2 : i = 1 \/ i = 2
    OBVIOUS
  <2>5. j = k
    BY <2>1, <2>2, <2>3, <2>4, SeqEqual
  <2> QED
    BY <2>5 DEF j, k
<1>7. Join(p, r) = <<a, b, c>>
  <2> DEFINE j == Join(p, r)
             k == <<a, b, c>>
  <2>1. /\ j \in Seq(S) /\ Len(j) = Len(p) + Len(r)
        /\ \A i \in 1..(Len(p) + Len(r)) : j[i] = IF i <= Len(p) THEN p[i] ELSE r[i - Len(p)]
    BY <1>1, <1>3, JoinAt
  <2>2. k \in Seq(S) /\ Len(k) = 3 /\ k[1] = a /\ k[2] = b /\ k[3] = c
    BY <1>5
  <2> HIDE DEF j, k
  <2>3. Len(j) = 3 /\ j[1] = a /\ j[2] = b /\ j[3] = c
    BY <1>1, <1>3, <2>1
  <2>4. \A i \in 1..3 : i = 1 \/ i = 2 \/ i = 3
    OBVIOUS
  <2>5. j = k
    BY <2>1, <2>2, <2>3, <2>4, SeqEqual
  <2> QED
    BY <2>5 DEF j, k
<1> QED
  BY <1>6, <1>7 DEF p, q, r

LEMMA FlattenThree ==
  ASSUME NEW S, NEW a \in Seq(S), NEW b \in Seq(S), NEW c \in Seq(S)
  PROVE  FlattenSeq(<<a, b, c>>) = Join(a, Join(b, c))
<1> DEFINE p == <<a>>
           q == <<b>>
           r == <<c>>
           T == Seq(S)
<1>1. <<a, b, c>> = p \o (q \o r)
  <2> HIDE DEF T
  <2>1. a \in T /\ b \in T /\ c \in T
    BY DEF T
  <2>2. Join(<<b>>, <<c>>) = <<b, c>>
    BY <2>1, JoinedPairs
  <2>3. Join(<<a>>, <<b, c>>) = <<a, b, c>>
    BY <2>1, JoinedPairs
  <2>4. Join(p, Join(q, r)) = <<a, b, c>>
    BY <2>2, <2>3
  <2> HIDE DEF p, q, r
  <2> QED
    BY <2>4 DEF Join
<1>2. p \in Seq(T) /\ q \in Seq(T) /\ r \in Seq(T) /\ q \o r \in Seq(T)
  OBVIOUS
<1>3. FlattenSeq(p) = a /\ FlattenSeq(q) = b /\ FlattenSeq(r) = c
  BY FlattenOne
<1> HIDE DEF p, q, r
<1>4. FlattenSeq(q \o r) = FlattenSeq(q) \o FlattenSeq(r)
  BY <1>2, FlattenJoin DEF T
<1>5. FlattenSeq(p \o (q \o r)) = FlattenSeq(p) \o FlattenSeq(q \o r)
  BY <1>2, FlattenJoin DEF T
<1> QED
  BY <1>1, <1>3, <1>4, <1>5 DEF Join

\* The items of a kind in the answers.
LEMMA OneItemIs ==
  ASSUME NEW it, NEW kind
  PROVE  OfItem(<<it>>, kind) = IF it.item = kind THEN <<it>> ELSE << >>
<1> DEFINE x == IF it.item = kind THEN <<it>> ELSE << >>
           c == <<it>>
<1>1. c = [i \in 1..1 |-> it] /\ DOMAIN c = 1..1 /\ \A i \in 1..1 : c[i] = it
  OBVIOUS
<1>2. OfItem(c, kind) = FlattenSeq([i \in DOMAIN c |-> IF c[i].item = kind THEN <<c[i]>> ELSE << >>])
  BY DEF OfItem, FlatMap
<1> HIDE DEF c
<1>3. [i \in DOMAIN c |-> IF c[i].item = kind THEN <<c[i]>> ELSE << >>] = [i \in 1..1 |-> x]
  BY <1>1
<1>4. x \in Seq({it})
  <2>1. <<it>> \in Seq({it}) /\ << >> \in Seq({it})
    OBVIOUS
  <2> QED
    BY <2>1
<1> HIDE DEF x
<1>5. [i \in 1..1 |-> x] = <<x>>
  OBVIOUS
<1>6. FlattenSeq(<<x>>) = x
  BY <1>4, FlattenOne
<1> QED
  BY <1>2, <1>3, <1>5, <1>6 DEF x, c

IfItem(it, kind) == IF it.item = kind THEN <<it>> ELSE << >>

LEMMA ThreeItemsAre ==
  ASSUME NEW a, NEW b, NEW c, NEW kind
  PROVE  OfItem(<<a, b, c>>, kind) = Join(IfItem(a, kind), Join(IfItem(b, kind), IfItem(c, kind)))
<1> DEFINE S == {a, b, c}
           Part(it) == IfItem(it, kind)
           s == <<a, b, c>>
<1>1. \A it \in S : Part(it) \in Seq(S)
  <2> SUFFICES ASSUME NEW it \in S PROVE Part(it) \in Seq(S)
    OBVIOUS
  <2> HIDE DEF S
  <2>1. <<it>> \in Seq(S) /\ << >> \in Seq(S)
    OBVIOUS
  <2> QED
    BY <2>1 DEF IfItem
<1>2. Part(a) \in Seq(S) /\ Part(b) \in Seq(S) /\ Part(c) \in Seq(S)
  BY <1>1
<1>3. OfItem(s, kind) = FlattenSeq([i \in DOMAIN s |-> Part(s[i])])
  BY DEF OfItem, FlatMap, IfItem
<1> HIDE DEF Part, S
<1>4. [i \in DOMAIN s |-> Part(s[i])] = <<Part(a), Part(b), Part(c)>>
  OBVIOUS
<1>5. FlattenSeq(<<Part(a), Part(b), Part(c)>>) = Join(Part(a), Join(Part(b), Part(c)))
  BY <1>2, FlattenThree
<1>6. OfItem(s, kind) = Join(Part(a), Join(Part(b), Part(c)))
  BY <1>3, <1>4, <1>5
<1> QED
  BY <1>6 DEF Part

LEMMA BlocksAre ==
  ASSUME NEW S, NEW s \in Seq(S), NEW map
  PROVE  FlattenSeq([i \in DOMAIN s |-> <<ClientBlock(s[i], map)>>]) = [i \in DOMAIN s |-> ClientBlock(s[i], map)]
<1> DEFINE B == {ClientBlock(s[i], map) : i \in DOMAIN s}
           f == [i \in DOMAIN s |-> ClientBlock(s[i], map)]
<1>1. DOMAIN s = 1..Len(s) /\ Len(s) \in Nat
  OBVIOUS
<1>2. f \in [1..Len(s) -> B]
  BY <1>1
<1>3. DOMAIN f = DOMAIN s /\ \A i \in DOMAIN s : f[i] = ClientBlock(s[i], map)
  OBVIOUS
<1>4. [i \in DOMAIN s |-> <<ClientBlock(s[i], map)>>] = [i \in DOMAIN f |-> <<f[i]>>]
  BY <1>3
<1> HIDE DEF B, f
<1>5. f \in Seq(B)
  BY <1>1, <1>2, ListOf
<1>6. FlattenSeq([i \in DOMAIN f |-> <<f[i]>>]) = f
  BY <1>5, FlattenSingles
<1> QED
  BY <1>4, <1>6 DEF f

\* The translated answers, before a call that was written as text is recovered.
LEMMA ChatAnswerIs ==
  ASSUME NEW items, NEW map, NEW S, OfItem(items, "said") \in Seq(S), OfItem(items, "call") \in Seq(S)
  PROVE  ChatAnswer(items, map) = Recover([i \in DOMAIN OfItem(items, "said") |-> ClientBlock(OfItem(items, "said")[i], map)] \o
                                          [i \in DOMAIN OfItem(items, "call") |-> ClientBlock(OfItem(items, "call")[i], map)])
<1> DEFINE s == OfItem(items, "said")
           c == OfItem(items, "call")
<1>1. ChatAnswer(items, map) = Recover(FlattenSeq([i \in DOMAIN s |-> <<ClientBlock(s[i], map)>>]) \o
                                       FlattenSeq([i \in DOMAIN c |-> <<ClientBlock(c[i], map)>>]))
  BY DEF ChatAnswer, FlatMap
<1>2. s \in Seq(S) /\ c \in Seq(S)
  OBVIOUS
<1> HIDE DEF s, c
<1>3. FlattenSeq([i \in DOMAIN s |-> <<ClientBlock(s[i], map)>>]) = [i \in DOMAIN s |-> ClientBlock(s[i], map)]
  BY <1>2, BlocksAre
<1>4. FlattenSeq([i \in DOMAIN c |-> <<ClientBlock(c[i], map)>>]) = [i \in DOMAIN c |-> ClientBlock(c[i], map)]
  BY <1>2, BlocksAre
<1> QED
  BY <1>1, <1>3, <1>4 DEF s, c

LEMMA OneItemAnswer ==
  ASSUME NEW it, it.item = "said" \/ it.item = "call", NEW map
  PROVE  /\ ResponsesAnswer(<<it>>, map) = Recover(<<ClientBlock(it, map)>>)
         /\ ChatAnswer(<<it>>, map) = Recover(<<ClientBlock(it, map)>>)
<1> DEFINE items == <<it>>
           Block(i) == ClientBlock(i, map)
           M(s) == [i \in DOMAIN s |-> Block(s[i])]
<1>1. OfItem(items, "said") = (IF it.item = "said" THEN <<it>> ELSE << >>)
      /\ OfItem(items, "call") = (IF it.item = "call" THEN <<it>> ELSE << >>)
  BY OneItemIs
<1>2. OfItem(items, "said") \in Seq({it}) /\ OfItem(items, "call") \in Seq({it})
  <2>1. <<it>> \in Seq({it}) /\ << >> \in Seq({it})
    OBVIOUS
  <2> QED
    BY <1>1, <2>1
<1>3. ChatAnswer(items, map) = Recover(M(OfItem(items, "said")) \o M(OfItem(items, "call")))
  BY <1>2, ChatAnswerIs
<1> HIDE DEF Block
<1>4. M(<<it>>) = <<Block(it)>> /\ M(<< >>) = << >>
  OBVIOUS
<1>5. <<Block(it)>> \o << >> = <<Block(it)>> /\ << >> \o <<Block(it)>> = <<Block(it)>>
  OBVIOUS
<1>6. ResponsesAnswer(items, map) = Recover(M(items))
  BY DEF ResponsesAnswer, Block
<1> HIDE DEF M
<1>7. CASE it.item = "said"
  <2>1. OfItem(items, "said") = <<it>> /\ OfItem(items, "call") = << >>
    BY <1>1, <1>7
  <2> QED
    BY <1>3, <1>4, <1>5, <1>6, <2>1 DEF Block
<1>8. CASE it.item = "call"
  <2>1. OfItem(items, "said") = << >> /\ OfItem(items, "call") = <<it>>
    BY <1>1, <1>8
  <2> QED
    BY <1>3, <1>4, <1>5, <1>6, <2>1 DEF Block
<1> QED
  BY <1>7, <1>8

LEMMA ThreeItemsAnswer ==
  ASSUME NEW a, a.item = "said", NEW b, b.item = "call", NEW c, c.item = "call", NEW map
  PROVE  /\ ResponsesAnswer(<<a, b, c>>, map) = Recover(<<ClientBlock(a, map), ClientBlock(b, map), ClientBlock(c, map)>>)
         /\ ChatAnswer(<<a, b, c>>, map) = Recover(<<ClientBlock(a, map), ClientBlock(b, map), ClientBlock(c, map)>>)
<1> DEFINE items == <<a, b, c>>
           S == {a, b, c}
           Block(i) == ClientBlock(i, map)
           M(s) == [i \in DOMAIN s |-> Block(s[i])]
<1>1. a \in S /\ b \in S /\ c \in S
  OBVIOUS
<1> HIDE DEF S
<1>2. <<a>> \in Seq(S) /\ <<b>> \in Seq(S) /\ <<c>> \in Seq(S) /\ <<b, c>> \in Seq(S) /\ << >> \in Seq(S)
  BY <1>1
<1>3. OfItem(items, "said") = <<a>>
  <2>0. IfItem(a, "said") = <<a>> /\ IfItem(b, "said") = << >> /\ IfItem(c, "said") = << >>
    BY DEF IfItem
  <2>1. OfItem(items, "said") = Join(<<a>>, Join(<< >>, << >>))
    BY <2>0, ThreeItemsAre
  <2> QED
    BY <1>2, <2>1, JoinIs
<1>4. OfItem(items, "call") = <<b, c>>
  <2>0. IfItem(a, "call") = << >> /\ IfItem(b, "call") = <<b>> /\ IfItem(c, "call") = <<c>>
    BY DEF IfItem
  <2>1. OfItem(items, "call") = Join(<< >>, Join(<<b>>, <<c>>))
    BY <2>0, ThreeItemsAre
  <2>2. Join(<<b>>, <<c>>) = <<b, c>>
    BY <1>1, JoinedPairs
  <2> QED
    BY <1>2, <2>1, <2>2, JoinIs
<1>5. ChatAnswer(items, map) = Recover(M(<<a>>) \o M(<<b, c>>))
  BY <1>2, <1>3, <1>4, ChatAnswerIs
<1>6. ResponsesAnswer(items, map) = Recover(M(items))
  BY DEF ResponsesAnswer, Block
<1> HIDE DEF Block
<1>7. M(<<a>>) = <<Block(a)>> /\ M(<<b, c>>) = <<Block(b), Block(c)>> /\ M(items) = <<Block(a), Block(b), Block(c)>>
  OBVIOUS
<1>8. <<Block(a)>> \o <<Block(b), Block(c)>> = <<Block(a), Block(b), Block(c)>>
  <2> DEFINE T == {Block(a), Block(b), Block(c)}
  <2>1. Block(a) \in T /\ Block(b) \in T /\ Block(c) \in T
    OBVIOUS
  <2> HIDE DEF T
  <2>2. Join(<<Block(a)>>, <<Block(b), Block(c)>>) = <<Block(a), Block(b), Block(c)>>
    BY <2>1, JoinedPairs
  <2> QED
    BY <2>2 DEF Join
<1> HIDE DEF M, items
<1> QED
  BY <1>5, <1>6, <1>7, <1>8 DEF Block, items

\* What is recovered of one text or call, and of three blocks.
LEMMA RecoverIs ==
  ASSUME NEW w, NEW x, NEW id, NEW name
  PROVE  /\ w # "written call" => Recover(<<Text(<<w, x>>)>>) = <<Text(<<w, x>>)>>
         /\ w = "written call" => Recover(<<Text(<<w, x>>)>>) = <<ToolUse(ToAnthropic(WrittenId), x)>>
         /\ Recover(<<ToolUse(id, name)>>) = <<ToolUse(id, name)>>
<1> DEFINE t == Text(<<w, x>>)
           u == ToolUse(id, name)
<1>1. t.type = "text" /\ t.text[1] = w /\ t.text[2] = x
  BY DEF Text
<1>2. u.type = "tool_use"
  BY DEF ToolUse
<1> HIDE DEF t, u
<1>3. Len(<<t>>) = 1 /\ <<t>>[1] = t /\ Len(<<u>>) = 1 /\ <<u>>[1] = u
  OBVIOUS
<1>4. Recover(<<u>>) = <<u>>
  BY <1>2, <1>3 DEF Recover
<1>5. w # "written call" => Recover(<<t>>) = <<t>>
  BY <1>1, <1>3 DEF Recover
<1>6. w = "written call" => Recover(<<t>>) = <<ToolUse(ToAnthropic(WrittenId), x)>>
  BY <1>1, <1>3 DEF Recover, WrittenId
<1> QED
  BY <1>4, <1>5, <1>6 DEF t, u

LEMMA RecoverThree ==
  ASSUME NEW a, NEW b, NEW c
  PROVE  Recover(<<a, b, c>>) = <<a, b, c>>
BY DEF Recover

LEMMA ClientBlockIs ==
  ASSUME NEW t, NEW id, NEW name, NEW map
  PROVE  /\ SaidItem(t).item = "said" /\ CallItem(id, name).item = "call" /\ CallItem(id, name).id = id
         /\ ClientBlock(SaidItem(t), map) = Text(t)
         /\ ClientBlock(CallItem(id, name), map) = ToolUse(ToAnthropic(id), RestoreName(name, map))
BY DEF SaidItem, CallItem, ClientBlock

LEMMA DirectAnswerIs ==
  ASSUME NEW t, NEW id, NEW name
  PROVE  /\ DirectAnswer(<<SaidItem(t)>>) = <<Text(t)>>
         /\ DirectAnswer(<<CallItem(id, name)>>) = <<ToolUse(id, name)>>
<1> DEFINE a == SaidItem(t)
           b == CallItem(id, name)
           Block(it) == IF it.item = "said" THEN Text(it.text) ELSE ToolUse(it.id, it.name)
<1>1. Block(a) = Text(t) /\ Block(b) = ToolUse(id, name)
  BY DEF SaidItem, CallItem
<1>2. \A items : DirectAnswer(items) = [i \in DOMAIN items |-> Block(items[i])]
  BY DEF DirectAnswer
<1> HIDE DEF a, b, Block
<1>3. DirectAnswer(<<a>>) = <<Block(a)>> /\ DirectAnswer(<<b>>) = <<Block(b)>>
  BY <1>2
<1> QED
  BY <1>1, <1>3 DEF a, b

LEMMA DirectThreeIs ==
  ASSUME NEW t, NEW id, NEW id2, NEW name
  PROVE  DirectAnswer(<<SaidItem(t), CallItem(id, name), CallItem(id2, name)>>)
         = <<Text(t), ToolUse(id, name), ToolUse(id2, name)>>
<1> DEFINE a == SaidItem(t)
           b == CallItem(id, name)
           c == CallItem(id2, name)
           Block(it) == IF it.item = "said" THEN Text(it.text) ELSE ToolUse(it.id, it.name)
<1>1. Block(a) = Text(t) /\ Block(b) = ToolUse(id, name) /\ Block(c) = ToolUse(id2, name)
  BY DEF SaidItem, CallItem
<1>2. \A items : DirectAnswer(items) = [i \in DOMAIN items |-> Block(items[i])]
  BY DEF DirectAnswer
<1> HIDE DEF a, b, c, Block
<1>3. DirectAnswer(<<a, b, c>>) = <<Block(a), Block(b), Block(c)>>
  BY <1>2
<1> QED
  BY <1>1, <1>3 DEF a, b, c

LEMMA AnswerFromIs ==
  ASSUME NEW items, NEW provider \in Providers, NEW map
  PROVE  AnswerFrom(items, provider, map) = IF provider = "direct" THEN DirectAnswer(items)
                                            ELSE IF provider = "chat" THEN ChatAnswer(items, map)
                                            ELSE ResponsesAnswer(items, map)
BY DEF AnswerFrom, Providers

\* An answer that is a text, and one that is a call written as text.
LEMMA SaidAnswered ==
  ASSUME NEW provider \in Providers, NEW map, NEW w \in AnswerWords, NEW x \in Nat \cup Names,
         w = "written call" => x \in Names
  PROVE  ClientAnswer(AnswerFrom(<<SaidItem(<<w, x>>)>>, provider, map), <<SaidItem(<<w, x>>)>>)
<1> DEFINE t == <<w, x>>
           it == SaidItem(t)
           b == Text(t)
<1>1. it.item = "said" /\ ClientBlock(it, map) = b
  BY ClientBlockIs
<1>2. ClientAnswer(<<b>>, <<it>>)
  BY <1>1, TextAnswers
<1>3. CASE provider = "direct"
  <2>1. DirectAnswer(<<it>>) = <<b>>
    BY DirectAnswerIs
  <2> HIDE DEF b, it
  <2>2. AnswerFrom(<<it>>, provider, map) = <<b>>
    BY <1>3, <2>1, AnswerFromIs
  <2>3. ClientAnswer(AnswerFrom(<<it>>, provider, map), <<it>>)
    BY <1>2, <2>2
  <2> QED
    BY <2>3 DEF it
<1>4. CASE provider # "direct"
  <2>1. w # "written call" => Recover(<<b>>) = <<b>>
    BY RecoverIs
  <2>2. w = "written call" => Recover(<<b>>) = <<ToolUse(ToAnthropic(WrittenId), x)>>
    BY RecoverIs
  <2>3. w = "written call" => ClientAnswer(<<ToolUse(ToAnthropic(WrittenId), x)>>, <<it>>)
    BY <1>1, WrittenAnswers
  <2> HIDE DEF b, it
  <2>4. ResponsesAnswer(<<it>>, map) = Recover(<<b>>) /\ ChatAnswer(<<it>>, map) = Recover(<<b>>)
    BY <1>1, OneItemAnswer
  <2>5. AnswerFrom(<<it>>, provider, map) = Recover(<<b>>)
    BY <1>4, <2>4, AnswerFromIs
  <2>6. ClientAnswer(Recover(<<b>>), <<it>>)
    BY <1>2, <2>1, <2>2, <2>3
  <2>7. ClientAnswer(AnswerFrom(<<it>>, provider, map), <<it>>)
    BY <2>5, <2>6
  <2> QED
    BY <2>7 DEF it
<1> QED
  BY <1>3, <1>4

\* What a provider's calls become.
UseId(provider, id) == IF provider = "direct" THEN id ELSE ToAnthropic(id)
UseName(provider, name, map) == IF provider = "direct" THEN name ELSE RestoreName(name, map)

LEMMA CallAnswered ==
  ASSUME NEW provider \in Providers, NEW map, NEW id \in Ids, NEW name,
         UseId(provider, id) \in Ids, ToUpstream(UseId(provider, id)) = id, UseName(provider, name, map) \in Offered
  PROVE  ClientAnswer(AnswerFrom(<<CallItem(id, name)>>, provider, map), <<CallItem(id, name)>>)
<1> DEFINE it == CallItem(id, name)
           b == ToolUse(UseId(provider, id), UseName(provider, name, map))
<1>1. it.item = "call" /\ it.id = id /\ ClientBlock(it, map) = ToolUse(ToAnthropic(id), RestoreName(name, map))
  BY ClientBlockIs
<1>2. ClientAnswer(<<b>>, <<it>>)
  BY <1>1, OneCallAnswers
<1>3. CASE provider = "direct"
  <2>1. DirectAnswer(<<it>>) = <<b>>
    BY <1>3, DirectAnswerIs DEF UseId, UseName
  <2> HIDE DEF b, it
  <2>2. AnswerFrom(<<it>>, provider, map) = <<b>>
    BY <1>3, <2>1, AnswerFromIs
  <2>3. ClientAnswer(AnswerFrom(<<it>>, provider, map), <<it>>)
    BY <1>2, <2>2
  <2> QED
    BY <2>3 DEF it
<1>4. CASE provider # "direct"
  <2>1. ClientBlock(it, map) = b
    BY <1>1, <1>4 DEF UseId, UseName
  <2>2. Recover(<<b>>) = <<b>>
    BY RecoverIs
  <2> HIDE DEF b, it
  <2>3. ResponsesAnswer(<<it>>, map) = Recover(<<b>>) /\ ChatAnswer(<<it>>, map) = Recover(<<b>>)
    BY <1>1, <2>1, OneItemAnswer
  <2>4. AnswerFrom(<<it>>, provider, map) = <<b>>
    BY <1>4, <2>2, <2>3, AnswerFromIs
  <2>5. ClientAnswer(AnswerFrom(<<it>>, provider, map), <<it>>)
    BY <1>2, <2>4
  <2> QED
    BY <2>5 DEF it
<1> QED
  BY <1>3, <1>4

LEMMA CallsAnsweredTwice ==
  ASSUME NEW provider \in Providers, NEW map, NEW w \in AnswerWords, NEW k \in Nat, NEW id \in Ids, NEW id2 \in Ids, NEW name,
         UseId(provider, id) \in Ids, ToUpstream(UseId(provider, id)) = id,
         UseId(provider, id2) \in Ids, ToUpstream(UseId(provider, id2)) = id2, UseName(provider, name, map) \in Offered
  PROVE  LET items == <<SaidItem(<<w, k>>), CallItem(id, name), CallItem(id2, name)>> IN
         ClientAnswer(AnswerFrom(items, provider, map), items)
<1> DEFINE t == <<w, k>>
           i0 == SaidItem(t)
           i1 == CallItem(id, name)
           i2 == CallItem(id2, name)
           b0 == Text(t)
           b1 == ToolUse(UseId(provider, id), UseName(provider, name, map))
           b2 == ToolUse(UseId(provider, id2), UseName(provider, name, map))
           items == <<i0, i1, i2>>
           blocks == <<b0, b1, b2>>
<1>1. i0.item = "said" /\ ClientBlock(i0, map) = b0
  BY ClientBlockIs
<1>2. i1.item = "call" /\ i1.id = id /\ ClientBlock(i1, map) = ToolUse(ToAnthropic(id), RestoreName(name, map))
  BY ClientBlockIs
<1>3. i2.item = "call" /\ i2.id = id2 /\ ClientBlock(i2, map) = ToolUse(ToAnthropic(id2), RestoreName(name, map))
  BY ClientBlockIs
<1>4. ClientAnswer(blocks, items)
  BY <1>1, <1>2, <1>3, TwoCallsAnswer
<1>5. CASE provider = "direct"
  <2>0. b1 = ToolUse(id, name) /\ b2 = ToolUse(id2, name)
    BY <1>5 DEF UseId, UseName
  <2> HIDE DEF b1, b2
  <2> HIDE DEF t
  <2>1. DirectAnswer(<<SaidItem(t), CallItem(id, name), CallItem(id2, name)>>)
        = <<Text(t), ToolUse(id, name), ToolUse(id2, name)>>
    BY DirectThreeIs
  <2>2. DirectAnswer(items) = blocks
    BY <2>0, <2>1
  <2> HIDE DEF items, blocks
  <2>3. AnswerFrom(items, provider, map) = blocks
    BY <1>5, <2>2, AnswerFromIs
  <2>4. ClientAnswer(AnswerFrom(items, provider, map), items)
    BY <1>4, <2>3
  <2> QED
    BY <2>4 DEF items, t
<1>6. CASE provider # "direct"
  <2>1. ClientBlock(i1, map) = b1 /\ ClientBlock(i2, map) = b2
    BY <1>2, <1>3, <1>6 DEF UseId, UseName
  <2> HIDE DEF i0, i1, i2, b0, b1, b2
  <2>2. Recover(blocks) = blocks
    BY RecoverThree
  <2>3. ResponsesAnswer(items, map) = Recover(blocks) /\ ChatAnswer(items, map) = Recover(blocks)
    BY <1>1, <1>2, <1>3, <2>1, ThreeItemsAnswer
  <2> HIDE DEF items, blocks
  <2>4. AnswerFrom(items, provider, map) = blocks
    BY <1>6, <2>2, <2>3, AnswerFromIs
  <2>5. ClientAnswer(AnswerFrom(items, provider, map), items)
    BY <1>4, <2>4
  <2> QED
    BY <2>5 DEF items, i0, i1, i2
<1> QED
  BY <1>5, <1>6

\* An id that an upstream makes comes back to it from the client.
LEMMA NewIdReturns ==
  ASSUME NEW provider \in Providers, NEW prefix \in IdPrefixes[provider], NEW n \in Nat
  PROVE  LET id == [prefix |-> prefix, n |-> n] IN
         id \in Ids /\ UseId(provider, id) \in Ids /\ ToUpstream(UseId(provider, id)) = id
<1> DEFINE id == [prefix |-> prefix, n |-> n]
<1>1. id \in Ids
  BY PrefixIs
<1>2. provider = "direct" => ToUpstream(id) = id
  BY DirectIdStays
<1> HIDE DEF id
<1>3. ToAnthropic(id) \in Ids /\ ToUpstream(ToAnthropic(id)) = id
  BY <1>1, UpstreamIs
<1>4. UseId(provider, id) \in Ids /\ ToUpstream(UseId(provider, id)) = id
  BY <1>1, <1>2, <1>3 DEF UseId
<1> QED
  BY <1>1, <1>4 DEF id

LEMMA NewIdIs ==
  ASSUME IsFiniteSet(DOMAIN issued), NEW k \in Nat
  PROVE  NewId(k) \in Nat
<1>1. Cardinality(DOMAIN issued) \in Nat
  BY FS_CardinalityType
<1> QED
  BY <1>1 DEF NewId

\* The tools that a request offers, and their names for the client.
LEMMA SentToolIs ==
  ASSUME NEW B \in Seq(Messages), NEW tools \in SUBSET Offered, NEW provider \in Providers,
         RequestsFor(sent, B, tools, provider), NEW t \in sent.tools
  PROVE  t \in Names /\ UseName(provider, t, sent.map) \in Offered
<1>1. CASE provider = "direct"
  BY <1>1 DEF RequestsFor, UseName, Names
<1>2. CASE provider # "direct"
  <2>1. t \in {Truncate(n) : n \in tools} /\ sent.map = NameMap(B, tools)
    BY <1>2 DEF RequestsFor
  <2>2. RestoreName(t, NameMap(B, tools)) \in Offered
    BY <2>1, NameIsRestored
  <2>3. \A n \in tools : Truncate(n) \in Names
    BY TruncateIs DEF Names
  <2> QED
    BY <1>2, <2>1, <2>2, <2>3 DEF UseName
<1> QED
  BY <1>1, <1>2

\* The items of the answers.
SaidNext == [item |-> "said", text |-> <<"answer", Turn>>]
CallNext(k, t, prefix) == CallItem([prefix |-> prefix, n |-> NewId(k)], t)
WrittenNext(t) == [item |-> "said", text |-> <<"written call", t>>]

LEMMA AnswersEqual ==
  ASSUME NEW provider
  PROVE  Answers(provider) = {<<SaidNext>>}
           \cup {<<CallNext(1, t, prefix)>> : t \in sent.tools, prefix \in IdPrefixes[provider]}
           \cup {<<SaidNext, CallNext(1, t, prefix), CallNext(2, t, prefix)>> : t \in sent.tools, prefix \in IdPrefixes[provider]}
           \cup {<<WrittenNext(t)>> : t \in sent.tools}
BY SMT DEF Answers, SaidNext, CallNext, WrittenNext

LEMMA AnswersAre ==
  ASSUME NEW provider, NEW items \in Answers(provider)
  PROVE  \/ items = <<SaidNext>>
         \/ \E t \in sent.tools, prefix \in IdPrefixes[provider] : items = <<CallNext(1, t, prefix)>>
         \/ \E t \in sent.tools, prefix \in IdPrefixes[provider] :
              items = <<SaidNext, CallNext(1, t, prefix), CallNext(2, t, prefix)>>
         \/ \E t \in sent.tools : items = <<WrittenNext(t)>>
<1> DEFINE One(t, prefix) == <<CallNext(1, t, prefix)>>
           Two(t, prefix) == <<SaidNext, CallNext(1, t, prefix), CallNext(2, t, prefix)>>
           Written(t) == <<WrittenNext(t)>>
<1>1. items \in {<<SaidNext>>} \cup {One(t, prefix) : t \in sent.tools, prefix \in IdPrefixes[provider]}
                \cup {Two(t, prefix) : t \in sent.tools, prefix \in IdPrefixes[provider]}
                \cup {Written(t) : t \in sent.tools}
  BY AnswersEqual, SMT
<1> HIDE DEF One, Two, Written
<1>2. \/ items = <<SaidNext>>
      \/ \E t \in sent.tools, prefix \in IdPrefixes[provider] : items = One(t, prefix)
      \/ \E t \in sent.tools, prefix \in IdPrefixes[provider] : items = Two(t, prefix)
      \/ \E t \in sent.tools : items = Written(t)
  BY <1>1
<1> QED
  BY <1>2 DEF One, Two, Written

\* Whatever an upstream answers.
LEMMA AnswerIs ==
  ASSUME ConversationInv, stage = "posted", NEW items \in Answers(Provider[sent.profile])
  PROVE  ClientAnswer(AnswerFrom(items, Provider[sent.profile], sent.map), items)
<1> DEFINE provider == Provider[sent.profile]
           map == sent.map
           w == "answer"
           v == "written call"
           Id(prefix, k) == [prefix |-> prefix, n |-> NewId(k)]
           said == SaidItem(<<w, Turn>>)
<1>1. /\ sent.body \in Seq(Messages) /\ provider \in Providers
      /\ RequestsFor(sent, sent.body, prepared.tools, provider)
  <2>1. Posts(PruneImages(messages), prepared.messages, sent.body)
    BY PostedIs
  <2> QED
    BY <2>1 DEF Posts
<1>2. prepared.tools \in SUBSET Offered
  BY DEF ConversationInv, PreparedOK
<1>3. IsFiniteSet(DOMAIN issued)
  BY DEF ConversationInv, IdsKnown
<1>4. Turn \in Nat
  BY TurnIs
<1>5. w \in AnswerWords /\ v \in AnswerWords /\ w # "written call"
  BY DEF AnswerWords
<1>6. \/ items = <<said>>
      \/ \E t \in sent.tools, prefix \in IdPrefixes[provider] : items = <<CallItem(Id(prefix, 1), t)>>
      \/ \E t \in sent.tools, prefix \in IdPrefixes[provider] :
           items = <<said, CallItem(Id(prefix, 1), t), CallItem(Id(prefix, 2), t)>>
      \/ \E t \in sent.tools : items = <<SaidItem(<<v, t>>)>>
  <2>1. said = SaidNext /\ (\A t : SaidItem(<<v, t>>) = WrittenNext(t))
        /\ \A k, t, prefix : CallItem(Id(prefix, k), t) = CallNext(k, t, prefix)
    BY DEF SaidItem, SaidNext, WrittenNext, CallNext
  <2> HIDE DEF said, v, Id
  <2> QED
    BY <2>1, AnswersAre
<1> HIDE DEF provider, map, w, v
<1>7. \A t \in sent.tools : t \in Names /\ UseName(provider, t, map) \in Offered
  BY <1>1, <1>2, SentToolIs DEF map
<1>8. \A k \in 1..2 : NewId(k) \in Nat
  BY <1>3, NewIdIs
<1>9. ASSUME NEW prefix \in IdPrefixes[provider], NEW k \in 1..2
      PROVE  /\ Id(prefix, k) \in Ids /\ UseId(provider, Id(prefix, k)) \in Ids
             /\ ToUpstream(UseId(provider, Id(prefix, k))) = Id(prefix, k)
  BY <1>1, <1>8, NewIdReturns
<1> HIDE DEF Id
<1>10. CASE items = <<said>>
  <2>1. ClientAnswer(AnswerFrom(<<SaidItem(<<w, Turn>>)>>, provider, map), <<SaidItem(<<w, Turn>>)>>)
    BY <1>1, <1>4, <1>5, SaidAnswered
  <2> QED
    BY <1>10, <2>1 DEF provider, map
<1>11. ASSUME NEW t \in sent.tools, items = <<SaidItem(<<v, t>>)>>
       PROVE  ClientAnswer(AnswerFrom(items, provider, map), items)
  <2>1. t \in Names
    BY <1>7
  <2>2. ClientAnswer(AnswerFrom(<<SaidItem(<<v, t>>)>>, provider, map), <<SaidItem(<<v, t>>)>>)
    BY <1>1, <1>5, <2>1, SaidAnswered
  <2> QED
    BY <1>11, <2>2
<1>12. ASSUME NEW t \in sent.tools, NEW prefix \in IdPrefixes[provider], items = <<CallItem(Id(prefix, 1), t)>>
       PROVE  ClientAnswer(AnswerFrom(items, provider, map), items)
  <2> DEFINE id == Id(prefix, 1)
  <2>1. id \in Ids /\ UseId(provider, id) \in Ids /\ ToUpstream(UseId(provider, id)) = id
    BY <1>9
  <2>2. UseName(provider, t, map) \in Offered
    BY <1>7
  <2> HIDE DEF id
  <2>3. ClientAnswer(AnswerFrom(<<CallItem(id, t)>>, provider, map), <<CallItem(id, t)>>)
    BY <1>1, <2>1, <2>2, CallAnswered
  <2> QED
    BY <1>12, <2>3 DEF id
<1>13. ASSUME NEW t \in sent.tools, NEW prefix \in IdPrefixes[provider],
              items = <<said, CallItem(Id(prefix, 1), t), CallItem(Id(prefix, 2), t)>>
       PROVE  ClientAnswer(AnswerFrom(items, provider, map), items)
  <2> DEFINE id == Id(prefix, 1)
             id2 == Id(prefix, 2)
  <2>1. id \in Ids /\ UseId(provider, id) \in Ids /\ ToUpstream(UseId(provider, id)) = id
    BY <1>9
  <2>2. id2 \in Ids /\ UseId(provider, id2) \in Ids /\ ToUpstream(UseId(provider, id2)) = id2
    BY <1>9
  <2>3. UseName(provider, t, map) \in Offered
    BY <1>7
  <2> HIDE DEF id, id2
  <2> DEFINE three == <<SaidItem(<<w, Turn>>), CallItem(id, t), CallItem(id2, t)>>
  <2>4. ClientAnswer(AnswerFrom(three, provider, map), three)
    BY <1>1, <1>4, <1>5, <2>1, <2>2, <2>3, CallsAnsweredTwice
  <2>5. items = three
    BY <1>13 DEF id, id2
  <2> HIDE DEF three
  <2> QED
    BY <2>4, <2>5
<1> HIDE DEF said
<1> QED
  BY <1>6, <1>10, <1>11, <1>12, <1>13 DEF provider, map

\* The message that an answer becomes.
LEMMA AssistantIs ==
  ASSUME NEW c, NEW items, ClientAnswer(c, items), NEW m, m = Message("assistant", c)
  PROVE  /\ m \in Messages /\ m.role = "assistant" /\ Unmarked(m) /\ ResultIds(m) = << >>
         /\ Range(Calls(m)) = {b \in Range(c) : b.type = "tool_use"}
         /\ Holds(c, "tool_use") <=> Calls(m) # << >>
<1>1. c \in Seq(TextBlocks \cup UseBlocks) /\ c # << >>
      /\ \A b \in Range(c) : b.type = "text" => b.text[1] \notin {"notice", "summary", "no summary"}
  BY DEF ClientAnswer
<1>2. m \in AssistantMessages /\ m.role = "assistant" /\ m.content = c
  BY <1>1 DEF Message, AssistantMessages
<1>3. m \in Messages
  BY <1>2 DEF Messages
<1>4. Unmarked(m)
  BY <1>1, <1>2 DEF Unmarked
<1>5. /\ ResultIds(m) = << >> /\ Calls(m) \in Seq(UseBlocks)
      /\ Range(Calls(m)) = {b \in Range(c) : b.type = "tool_use"}
  BY <1>2, <1>3, CallsAre
<1>6. Holds(c, "tool_use") <=> \E b \in Range(c) : b.type = "tool_use"
  BY DEF Holds, Range
<1>7. Calls(m) # << >> <=> Range(Calls(m)) # {}
  <2>1. Calls(m) # << >> => 1 \in DOMAIN Calls(m)
    BY <1>5, NotEmpty
  <2>2. Calls(m) # << >> => Range(Calls(m)) # {}
    BY <2>1 DEF Range
  <2> QED
    BY <2>2, RangeNone
<1>8. Holds(c, "tool_use") <=> Calls(m) # << >>
  BY <1>5, <1>6, <1>7
<1> QED
  BY <1>2, <1>3, <1>4, <1>5, <1>8

\* What the client has been given ids for, after an answer.
CallsIn(items) == {i \in DOMAIN items : items[i].item = "call"}
NewIds(c, items) == {c[i].id : i \in CallsIn(items)}
Issued(c, items) ==
  [id \in NewIds(c, items) \cup DOMAIN issued |->
     IF id \in NewIds(c, items) THEN items[CHOOSE i \in CallsIn(items) : c[i].id = id].id ELSE issued[id]]

LEMMA IssuedIs ==
  ASSUME NEW c, NEW items, ClientAnswer(c, items), IdsKnown
  PROVE  /\ DOMAIN Issued(c, items) = NewIds(c, items) \cup DOMAIN issued /\ IsFiniteSet(DOMAIN Issued(c, items))
         /\ \A id \in DOMAIN Issued(c, items) : id \in Ids /\ Issued(c, items)[id] = ToUpstream(id)
<1> DEFINE calls == CallsIn(items)
           new == NewIds(c, items)
           f == Issued(c, items)
<1>0. /\ calls = {i \in DOMAIN items : items[i].item = "call"} /\ new = {c[i].id : i \in calls}
      /\ f = [id \in new \cup DOMAIN issued |->
                IF id \in new THEN items[CHOOSE i \in calls : c[i].id = id].id ELSE issued[id]]
  BY DEF CallsIn, NewIds, Issued
<1> HIDE DEF calls, new, f
<1>1. IsFiniteSet(calls) /\ \A i \in calls : c[i].id \in Ids /\ ToUpstream(c[i].id) = items[i].id
  BY <1>0 DEF ClientAnswer
<1>2. IsFiniteSet(new)
  <2> DEFINE g == [i \in calls |-> c[i].id]
  <2>1. g \in Surjection(calls, new)
    BY <1>0 DEF Surjection
  <2> HIDE DEF g
  <2> QED
    BY <1>1, <2>1, FS_Surjection
<1>3. DOMAIN f = new \cup DOMAIN issued
  BY <1>0
<1>4. IsFiniteSet(DOMAIN f)
  BY <1>2, <1>3, FS_Union DEF IdsKnown
<1>5. ASSUME NEW id \in new PROVE id \in Ids /\ f[id] = ToUpstream(id)
  <2> DEFINE i == CHOOSE i \in calls : c[i].id = id
  <2>1. i \in calls /\ c[i].id = id
    BY <1>0
  <2>2. f[id] = items[i].id
    BY <1>0
  <2> HIDE DEF i
  <2> QED
    BY <1>1, <2>1, <2>2
<1>6. ASSUME NEW id \in DOMAIN issued, id \notin new PROVE id \in Ids /\ f[id] = ToUpstream(id)
  <2>1. f[id] = issued[id]
    BY <1>0, <1>6
  <2> QED
    BY <2>1 DEF IdsKnown
<1> QED
  BY <1>3, <1>4, <1>5, <1>6 DEF new, f

LEMMA ReplyKeeps ==
  ASSUME ConversationInv, Reply
  PROVE  ConversationInv'
<1> DEFINE provider == Provider[sent.profile]
           C(items) == AnswerFrom(items, provider, sent.map)
           K(items) == {i \in DOMAIN items : items[i].item = "call"}
           N(items) == {C(items)[i].id : i \in K(items)}
           n == Len(messages)
<1>1. /\ stage = "posted" /\ stage' = "client" /\ prepared' = NothingPrepared /\ chain' = << >>
  BY DEF Reply
<1>2. PICK items \in Answers(provider), reason \in {"stop", "length"} :
        /\ messages' = Append(messages, Message("assistant", C(items)))
        /\ stop' = StopReason(C(items), reason)
        /\ issued' = [id \in N(items) \cup DOMAIN issued |->
                        IF id \in N(items) THEN items[CHOOSE i \in K(items) : C(items)[i].id = id].id
                        ELSE issued[id]]
  BY DEF Reply
<1> DEFINE c == C(items)
           m == Message("assistant", c)
           new == NewIds(c, items)
<1>3. ClientAnswer(c, items)
  BY <1>1, AnswerIs
<1>4. /\ messages' = Append(messages, m) /\ stop' = StopReason(c, reason)
      /\ issued' = Issued(c, items)
  BY <1>2 DEF Issued, NewIds, CallsIn
<1>5. new = {c[i].id : i \in {i \in DOMAIN items : items[i].item = "call"}}
  BY DEF NewIds, CallsIn
<1> HIDE DEF C, K, N, c, new, provider
<1>6. /\ m \in Messages /\ m.role = "assistant" /\ Unmarked(m) /\ ResultIds(m) = << >>
      /\ Range(Calls(m)) = {b \in Range(c) : b.type = "tool_use"}
      /\ Holds(c, "tool_use") <=> Calls(m) # << >>
  BY <1>3, AssistantIs
<1> HIDE DEF m
<1>7. History(messages) /\ TurnOK /\ IdsKnown /\ NamesRestored
  BY DEF ConversationInv
<1>8. messages \in Seq(Messages) /\ messages # << >> /\ Last(messages).role = "user" /\ n \in Nat /\ DOMAIN messages = 1..n
  BY <1>1, <1>7 DEF History, TurnOK
<1>9. Due(messages) = << >>
  <2> DEFINE l == messages[n]
  <2>1. l \in Messages /\ l.role = "user"
    <3>1. l \in Messages
      BY <1>8, NotEmpty
    <3> QED
      BY <1>8, <3>1 DEF Last
  <2>2. CallIds(l) = << >>
    <3> HIDE DEF l
    <3> QED
      BY <2>1, CallsAre
  <2> QED
    BY <1>8, <2>2 DEF Due
<1>10. History(messages')
  BY <1>4, <1>6, <1>7, <1>9, HistoryGrows
<1>11. /\ messages' # << >> /\ Last(messages') = m /\ DOMAIN messages' = 1..(n + 1)
       /\ \A i \in 1..n : messages'[i] = messages[i]
       /\ messages'[n + 1] = m
  <2>1. /\ Append(messages, m) \in Seq(Messages) /\ Len(Append(messages, m)) = n + 1 /\ Append(messages, m) # << >>
        /\ \A i \in 1..n : Append(messages, m)[i] = messages[i]
        /\ Append(messages, m)[n + 1] = m /\ Last(Append(messages, m)) = m
    BY <1>6, <1>8, AppendIs
  <2> QED
    BY <1>4, <2>1
<1>12. TurnOK'
  <2>1. stop' = "tool_use" <=> Holds(c, "tool_use")
    BY <1>4 DEF StopReason
  <2> QED
    BY <1>1, <1>6, <1>11, <2>1 DEF TurnOK
<1>13. /\ DOMAIN issued' = new \cup DOMAIN issued /\ IsFiniteSet(DOMAIN issued')
       /\ \A id \in DOMAIN issued' : id \in Ids /\ issued'[id] = ToUpstream(id)
  <2> DEFINE f == Issued(c, items)
  <2>1. /\ DOMAIN f = new \cup DOMAIN issued /\ IsFiniteSet(DOMAIN f)
        /\ \A id \in DOMAIN f : id \in Ids /\ f[id] = ToUpstream(id)
    BY <1>3, <1>7, IssuedIs DEF new
  <2>2. issued' = f
    BY <1>4
  <2> HIDE DEF f
  <2> QED
    BY <2>1, <2>2
<1>14. \A b \in Range(Calls(m)) : \/ b.id = ToAnthropic(WrittenId)
                                  \/ b.name \in Offered /\ b.id \in new
  <2>1. \A b \in Range(c) : b.type = "tool_use" =>
              \/ b.id = ToAnthropic(WrittenId)
              \/ b.name \in Offered /\ \E i \in {i \in DOMAIN items : items[i].item = "call"} : b.id = c[i].id
    BY <1>3 DEF ClientAnswer
  <2> QED
    BY <1>5, <1>6, <2>1
<1>15. \A i \in DOMAIN messages' : i = n + 1 \/ i \in DOMAIN messages
  BY <1>8, <1>11
<1>16. IdsKnown'
  <2>1. ASSUME NEW i \in DOMAIN messages', NEW b \in Range(Calls(messages'[i]))
        PROVE  b.id \in DOMAIN issued' \cup {ToAnthropic(WrittenId)}
    <3>1. CASE i = n + 1
      BY <1>11, <1>13, <1>14, <2>1, <3>1
    <3>2. CASE i \in DOMAIN messages
      BY <1>7, <1>8, <1>11, <1>13, <2>1, <3>2 DEF IdsKnown
    <3> QED
      BY <1>15, <3>1, <3>2
  <2> QED
    BY <1>13, <2>1 DEF IdsKnown
<1>17. NamesRestored'
  <2>1. ASSUME NEW i \in DOMAIN messages', NEW b \in Range(Calls(messages'[i]))
        PROVE  b.name \in Offered \/ b.id = ToAnthropic(WrittenId)
    <3>1. CASE i = n + 1
      BY <1>11, <1>14, <2>1, <3>1
    <3>2. CASE i \in DOMAIN messages
      BY <1>7, <1>8, <1>11, <2>1, <3>2 DEF NamesRestored
    <3> QED
      BY <1>15, <3>1, <3>2
  <2> QED
    BY <2>1 DEF NamesRestored
<1>18. PreparedOK'
  BY <1>1, NothingPreparedIs DEF PreparedOK
<1>19. SentOK'
  BY <1>1 DEF SentOK
<1> QED
  BY <1>10, <1>12, <1>16, <1>17, <1>18, <1>19 DEF ConversationInv

LEMMA StepKeeps ==
  ASSUME ConversationInv, [ConversationNext]_conversationVars
  PROVE  ConversationInv'
<1>1. CASE UNCHANGED conversationVars
  <2>1. /\ stage' = stage /\ messages' = messages /\ stop' = stop /\ prepared' = prepared /\ chain' = chain
        /\ sent' = sent /\ issued' = issued
    BY <1>1 DEF conversationVars
  <2>2. History(messages) /\ TurnOK /\ IdsKnown /\ NamesRestored /\ PreparedOK /\ SentOK
    BY DEF ConversationInv
  <2>3. History(messages') /\ TurnOK' /\ IdsKnown' /\ NamesRestored'
    BY <2>1, <2>2 DEF TurnOK, IdsKnown, NamesRestored
  <2>4. PreparedOK' /\ SentOK'
    BY <2>1, <2>2 DEF PreparedOK, SentOK
  <2> QED
    BY <2>3, <2>4 DEF ConversationInv
<1>2. CASE ConversationNext
  BY <1>2, PromptKeeps, AskForSummaryKeeps, ResultsKeep, ArriveKeeps, EnrichKeeps, CompressKeeps, ForwardKeeps,
     RejectKeeps, UpstreamFailsKeeps, ExhaustedKeeps, ReplyKeeps DEF ConversationNext
<1> QED
  BY <1>1, <1>2

\* The inductive invariant of a conversation: in the client's history every message answers
\* the calls of the one before, every id of a call is one it was given for an upstream's, and
\* what is prepared and posted was made of that history for the candidate in turn
\* (handle_messages and try_forward keep no other state between requests).
THEOREM ConversationInvHolds == ConversationSpec => []ConversationInv
<1>1. ConversationInit => ConversationInv
  BY InitInv
<1>2. ConversationInv /\ [ConversationNext]_conversationVars => ConversationInv'
  BY StepKeeps
<1> QED
  BY <1>1, <1>2, PTL DEF ConversationSpec

\* Whatever auto-compaction drops and whichever candidate is in turn, the request holds every
\* call before its one result, in full or as a reference to it (safe_compaction_keep_from,
\* dedupe_old_function_call_outputs and the two translations).
THEOREM RequestsAreAnswered == ConversationSpec => []CallsAnswered
<1>1. ConversationInv => CallsAnswered
  BY CallsAreAnswered
<1> QED
  BY <1>1, ConversationInvHolds, PTL

\* No text of the conversation goes missing untold, but for the code's two exceptions
\* (apply_openai_compatible_auto_compact and the translations).
THEOREM NoTextGoesMissing == ConversationSpec => []OmissionsTold
<1>1. ConversationInv => OmissionsTold
  BY OmissionsAreTold
<1> QED
  BY <1>1, ConversationInvHolds, PTL

\* The compaction notice is right about how much was left out, for each candidate
\* (apply_openai_compatible_auto_compact, called anew in every try_forward).
THEOREM NoticesAreRight == ConversationSpec => []NoticeCounts
<1>1. ConversationInv => NoticeCounts
  BY NoticesCount
<1> QED
  BY <1>1, ConversationInvHolds, PTL

\* Ids and shortened names come back as they were given, without a table that outlives a
\* request (tool_id.rs and ToolNameMap).
THEOREM IdsAndNamesReturn == ConversationSpec => []RoundTrips
<1>1. ConversationInv => RoundTrips
  BY IdsAreReturned
<1> QED
  BY <1>1, ConversationInvHolds, PTL
=============================================================================
