------------------------- MODULE StreamOutputProofs -------------------------
(***************************************************************************)
(* What the lists of events a stream translator makes do to the client     *)
(* that will read them, for any translator: the lemmas that the proofs     *)
(* about one need.                                                         *)
(***************************************************************************)
EXTENDS StreamOutput, SequenceTheorems, TLAPS

-----------------------------------------------------------------------------
(* The client, and what a list of events does to it *)

AnyEvent ==
    {A!MessageStart, A!MessageStop, A!Error}
    \cup {A!BlockStart(i, t) : i \in Nat, t \in A!BlockTypes}
    \cup {A!BlockDelta(i, t) : i \in Nat, t \in A!BlockTypes}
    \cup {A!BlockStop(i) : i \in Nat}
    \cup {A!MessageDelta(s) : s \in A!StopReasons}

\* Whatever a client can have seen; if `told', of one that is told the right stop reason.
Clients(told) ==
    { c \in [ phase : {"before", "content", "closing", "stopped", "failed"},
              open  : A!BlockTypes \cup {"none"},
              next  : Nat,
              tools : BOOLEAN,
              last  : AnyEvent \cup {"none"} ] :
        told /\ c.phase = "closing" => (c.last.stop = "tool_use" <=> c.tools) }

\* The client goes through the states cs on the events es.
Run(cs, es, told) ==
    /\ cs \in Seq(Clients(told)) /\ Len(cs) = Len(es) + 1
    /\ \A k \in 1..Len(es) : cs[k + 1] = A!After(cs[k], es[k])

Lawful(cs, es) ==
    \A k \in 1..Len(es) : A!Legal(cs[k], es[k]) /\ es[k] \in A!Events

\* The events es lead a client from c to d, and each of them is legal if they have to
\* be.
Path(c, es, d, lawful, told) ==
    \E cs : Run(cs, es, told) /\ cs[1] = c /\ cs[Len(es) + 1] = d /\ (lawful => Lawful(cs, es))

\* No events lead a client nowhere else.
LEMMA PathNone ==
  ASSUME NEW told \in BOOLEAN, NEW c \in Clients(told), NEW lawful \in BOOLEAN
  PROVE  Path(c, << >>, c, lawful, told)
<1> DEFINE cs == <<c>>
<1>1. cs \in Seq(Clients(told)) /\ Len(cs) = 1 /\ cs[1] = c
  OBVIOUS
<1>2. Len(<< >>) = 0
  OBVIOUS
<1> HIDE DEF cs
<1>3. Run(cs, << >>, told) /\ Lawful(cs, << >>)
  BY <1>1, <1>2 DEF Run, Lawful
<1> QED
  BY <1>1, <1>2, <1>3 DEF Path

\* Nothing leads nowhere else.
LEMMA PathDone ==
  ASSUME NEW c, NEW d, NEW lawful \in BOOLEAN, NEW told \in BOOLEAN, Path(c, << >>, d, lawful, told)
  PROVE  c = d /\ c \in Clients(told)
<1>1. PICK cs : Run(cs, << >>, told) /\ cs[1] = c /\ cs[Len(<< >>) + 1] = d
  BY DEF Path
<1>2. Len(<< >>) = 0
  OBVIOUS
<1>3. cs \in Seq(Clients(told)) /\ Len(cs) = 1
  BY <1>1, <1>2 DEF Run
<1> QED
  BY <1>1, <1>2, <1>3

\* One event leads a client to where A!After says.
LEMMA PathOne ==
  ASSUME NEW told \in BOOLEAN, NEW c \in Clients(told), NEW e, NEW lawful \in BOOLEAN,
         A!After(c, e) \in Clients(told),
         lawful => A!Legal(c, e) /\ e \in A!Events
  PROVE  Path(c, <<e>>, A!After(c, e), lawful, told)
<1> DEFINE cs == <<c, A!After(c, e)>>
           es == <<e>>
<1>1. cs \in Seq(Clients(told)) /\ Len(cs) = 2 /\ cs[1] = c /\ cs[2] = A!After(c, e)
  OBVIOUS
<1>2. Len(es) = 1 /\ es[1] = e
  OBVIOUS
<1> HIDE DEF cs, es
<1>3. Run(cs, es, told) /\ (lawful => Lawful(cs, es))
  BY <1>1, <1>2 DEF Run, Lawful
<1>4. Path(c, es, A!After(c, e), lawful, told)
  BY <1>1, <1>2, <1>3 DEF Path
<1> QED
  BY <1>4 DEF es

\* One list of events after another.
LEMMA PathThen ==
  ASSUME NEW S, NEW es \in Seq(S), NEW fs \in Seq(S), NEW c, NEW d, NEW e,
         NEW lawful \in BOOLEAN, NEW told \in BOOLEAN,
         Path(c, es, d, lawful, told), Path(d, fs, e, lawful, told)
  PROVE  Path(c, es \o fs, e, lawful, told)
<1>1. PICK cs : Run(cs, es, told) /\ cs[1] = c /\ cs[Len(es) + 1] = d /\ (lawful => Lawful(cs, es))
  BY DEF Path
<1>2. PICK ds : Run(ds, fs, told) /\ ds[1] = d /\ ds[Len(fs) + 1] = e /\ (lawful => Lawful(ds, fs))
  BY DEF Path
<1> DEFINE n == Len(es)
           m == Len(fs)
           gs == es \o fs
           all == [k \in 1..(n + m + 1) |-> IF k <= n THEN cs[k] ELSE ds[k - n]]
<1>3. /\ n \in Nat /\ m \in Nat
      /\ gs \in Seq(S) /\ Len(gs) = n + m
      /\ \A k \in 1..(n + m) : gs[k] = IF k <= n THEN es[k] ELSE fs[k - n]
  BY ConcatProperties
<1>4. /\ cs \in Seq(Clients(told)) /\ Len(cs) = n + 1
      /\ \A k \in 1..n : cs[k + 1] = A!After(cs[k], es[k])
      /\ ds \in Seq(Clients(told)) /\ Len(ds) = m + 1
      /\ \A k \in 1..m : ds[k + 1] = A!After(ds[k], fs[k])
  BY <1>1, <1>2 DEF Run
<1> HIDE DEF n, m, gs
<1>5. all \in Seq(Clients(told)) /\ Len(all) = n + m + 1
  <2>1. \A k \in 1..(n + m + 1) : all[k] \in Clients(told)
    <3>1. ASSUME NEW k \in 1..(n + m + 1), k <= n
          PROVE  all[k] \in Clients(told)
      <4>1. k \in 1..(n + 1)
        BY <1>3, <3>1
      <4> QED
        BY <1>4, <3>1, <4>1
    <3>2. ASSUME NEW k \in 1..(n + m + 1), ~(k <= n)
          PROVE  all[k] \in Clients(told)
      <4>1. k - n \in 1..(m + 1)
        BY <1>3, <3>2
      <4> QED
        BY <1>4, <3>2, <4>1
    <3> QED
      BY <3>1, <3>2
  <2>2. n + m + 1 \in Nat
    BY <1>3
  <2>3. all \in [1..(n + m + 1) -> Clients(told)]
    BY <2>1
  <2> HIDE DEF all
  <2> QED
    BY <2>2, <2>3
<1>6. \A k \in 1..(n + m + 1) : all[k] = IF k <= n THEN cs[k] ELSE ds[k - n]
  OBVIOUS
<1> HIDE DEF all
<1>7. ASSUME NEW k \in 1..(n + m)
      PROVE  /\ all[k + 1] = A!After(all[k], gs[k])
             /\ lawful => A!Legal(all[k], gs[k]) /\ gs[k] \in A!Events
  <2>1. CASE k < n
    <3>1. /\ k \in 1..n /\ k <= n /\ k + 1 <= n /\ k \in 1..(n + m + 1)
          /\ k + 1 \in 1..(n + m + 1)
      BY <1>3, <2>1
    <3>2. all[k + 1] = cs[k + 1] /\ all[k] = cs[k] /\ gs[k] = es[k]
      BY <1>3, <1>6, <3>1
    <3>3. lawful => A!Legal(cs[k], es[k]) /\ es[k] \in A!Events
      BY <1>1, <3>1 DEF Lawful, n
    <3> QED
      BY <1>4, <3>1, <3>2, <3>3
  <2>2. CASE k = n
    <3>1. /\ k \in 1..n /\ k <= n /\ ~(k + 1 <= n) /\ k \in 1..(n + m + 1)
          /\ k + 1 \in 1..(n + m + 1) /\ (k + 1) - n = 1
      BY <1>3, <2>2
    <3>2. all[k + 1] = ds[1] /\ all[k] = cs[k] /\ gs[k] = es[k]
      BY <1>3, <1>6, <3>1
    <3>3. lawful => A!Legal(cs[k], es[k]) /\ es[k] \in A!Events
      BY <1>1, <3>1 DEF Lawful, n
    <3>4. ds[1] = cs[k + 1]
      BY <1>1, <1>2, <2>2 DEF n
    <3> QED
      BY <1>4, <3>1, <3>2, <3>3, <3>4
  <2>3. CASE k > n
    <3>1. /\ k - n \in 1..m /\ ~(k <= n) /\ ~(k + 1 <= n) /\ k \in 1..(n + m + 1)
          /\ k + 1 \in 1..(n + m + 1) /\ (k + 1) - n = (k - n) + 1
      BY <1>3, <2>3
    <3>2. all[k + 1] = ds[(k - n) + 1] /\ all[k] = ds[k - n] /\ gs[k] = fs[k - n]
      BY <1>3, <1>6, <3>1
    <3>3. lawful => A!Legal(ds[k - n], fs[k - n]) /\ fs[k - n] \in A!Events
      BY <1>2, <3>1 DEF Lawful, m
    <3> QED
      BY <1>4, <3>1, <3>2, <3>3
  <2> QED
    BY <1>3, <2>1, <2>2, <2>3
<1>8. Run(all, gs, told) /\ (lawful => Lawful(all, gs))
  BY <1>3, <1>5, <1>7 DEF Run, Lawful
<1>9. all[1] = c /\ all[Len(gs) + 1] = e
  <2>1. all[1] = c
    <3>1. CASE n = 0
      BY <1>1, <1>2, <1>3, <1>6, <3>1 DEF n
    <3>2. CASE n # 0
      BY <1>1, <1>3, <1>6, <3>2
    <3> QED
      BY <3>1, <3>2
  <2>2. all[Len(gs) + 1] = e
    <3>1. n + m + 1 \in 1..(n + m + 1) /\ ~(n + m + 1 <= n) /\ (n + m + 1) - n = m + 1
      BY <1>3
    <3> QED
      BY <1>2, <1>3, <1>6, <3>1 DEF m
  <2> QED
    BY <2>1, <2>2
<1>10. Path(c, gs, e, lawful, told)
  BY <1>8, <1>9 DEF Path
<1> QED
  BY <1>10 DEF gs

\* The first event and what follows it.
LEMMA PathStep ==
  ASSUME NEW S, NEW es \in Seq(S), es # << >>, NEW c, NEW d,
         NEW lawful \in BOOLEAN, NEW told \in BOOLEAN,
         Path(c, es, d, lawful, told)
  PROVE  /\ Path(A!After(c, es[1]), Tail(es), d, lawful, told)
         /\ A!After(c, es[1]) \in Clients(told)
         /\ lawful => A!Legal(c, es[1]) /\ es[1] \in A!Events
<1>1. PICK cs : Run(cs, es, told) /\ cs[1] = c /\ cs[Len(es) + 1] = d /\ (lawful => Lawful(cs, es))
  BY DEF Path
<1> DEFINE n == Len(es)
           ts == Tail(es)
           ds == Tail(cs)
<1>2. n \in Nat /\ n >= 1
  OBVIOUS
<1>3. /\ ts \in Seq(S) /\ Len(ts) = n - 1
      /\ \A k \in 1..(n - 1) : ts[k] = es[k + 1]
  OBVIOUS
<1>4. /\ cs \in Seq(Clients(told)) /\ Len(cs) = n + 1
      /\ \A k \in 1..n : cs[k + 1] = A!After(cs[k], es[k])
  BY <1>1 DEF Run
<1>5. /\ ds \in Seq(Clients(told)) /\ Len(ds) = n
      /\ \A k \in 1..n : ds[k] = cs[k + 1]
  <2> HIDE DEF n
  <2>1. cs # << >>
    BY <1>2, <1>4
  <2> QED
    BY <1>2, <1>4, <2>1
<1>6. lawful => \A k \in 1..n : A!Legal(cs[k], es[k]) /\ es[k] \in A!Events
  BY <1>1 DEF Lawful
<1> HIDE DEF n, ts, ds
<1>7. Run(ds, ts, told) /\ (lawful => Lawful(ds, ts))
  <2>1. ASSUME NEW k \in 1..(n - 1)
        PROVE  /\ ds[k + 1] = A!After(ds[k], ts[k])
               /\ lawful => A!Legal(ds[k], ts[k]) /\ ts[k] \in A!Events
    <3>1. k \in 1..n /\ k + 1 \in 1..n
      BY <1>2, <2>1
    <3>2. ds[k + 1] = cs[(k + 1) + 1] /\ ds[k] = cs[k + 1] /\ ts[k] = es[k + 1]
      BY <1>3, <1>5, <2>1, <3>1
    <3> QED
      BY <1>4, <1>6, <3>1, <3>2
  <2> QED
    BY <1>2, <1>3, <1>5, <2>1 DEF Run, Lawful
<1>8. ds[1] = A!After(c, es[1]) /\ ds[Len(ts) + 1] = d
  <2>1. 1 \in 1..n /\ n \in 1..n
    BY <1>2
  <2>2. ds[1] = cs[1 + 1] /\ ds[n] = cs[n + 1]
    BY <1>5, <2>1
  <2>3. Len(ts) + 1 = n
    BY <1>2, <1>3
  <2> QED
    BY <1>1, <1>4, <2>1, <2>2, <2>3 DEF n
<1>9. Path(A!After(c, es[1]), ts, d, lawful, told)
  BY <1>7, <1>8 DEF Path
<1>10. A!After(c, es[1]) \in Clients(told)
  <2>1. 1 \in 1..n
    BY <1>2
  <2> QED
    BY <1>5, <1>8, <2>1
<1>11. lawful => A!Legal(c, es[1]) /\ es[1] \in A!Events
  <2>1. 1 \in 1..n
    BY <1>2
  <2> QED
    BY <1>1, <1>6, <2>1
<1> QED
  BY <1>9, <1>10, <1>11 DEF ts

-----------------------------------------------------------------------------
(* What one event does to a client *)

Seen ==
    [ phase : {"before", "content", "closing", "stopped", "failed"},
      open  : A!BlockTypes \cup {"none"},
      next  : Nat,
      tools : BOOLEAN,
      last  : AnyEvent \cup {"none"} ]

\* A client remembers the event it saw last, and is otherwise as it was.
LEMMA LastSeen ==
  ASSUME NEW told \in BOOLEAN, NEW c \in Clients(told), NEW e \in AnyEvent,
         NEW s, s = [c EXCEPT !.last = e]
  PROVE  /\ s \in Seen /\ s.last = e /\ s.phase = c.phase /\ s.open = c.open
         /\ s.next = c.next /\ s.tools = c.tools
BY DEF Clients, Seen

\* What the fields of a client are.
LEMMA ClientFields ==
  ASSUME NEW told \in BOOLEAN, NEW c \in Clients(told)
  PROVE  /\ c.phase \in {"before", "content", "closing", "stopped", "failed"}
         /\ c.open \in A!BlockTypes \cup {"none"} /\ c.next \in Nat /\ c.tools \in BOOLEAN
BY DEF Clients

\* A client in another phase is otherwise as it was.
LEMMA PhaseReplaced ==
  ASSUME NEW s \in Seen, NEW phase \in {"before", "content", "closing", "stopped", "failed"},
         NEW d, d = [s EXCEPT !.phase = phase]
  PROVE  /\ d \in Seen /\ d.phase = phase /\ d.open = s.open /\ d.next = s.next
         /\ d.tools = s.tools /\ d.last = s.last
BY DEF Seen

\* message_start opens the message, and may come only first.
LEMMA AfterMessageStart ==
  ASSUME NEW told \in BOOLEAN, NEW c \in Clients(told), NEW d, d = A!After(c, A!MessageStart)
  PROVE  /\ d \in Clients(told) /\ A!MessageStart \in A!Events
         /\ d.phase = "content" /\ d.open = c.open /\ d.next = c.next /\ d.tools = c.tools
         /\ A!Legal(c, A!MessageStart) <=> c.phase = "before"
<1> DEFINE e == A!MessageStart
           s == [c EXCEPT !.last = e]
<1>1. e \in AnyEvent /\ e \in A!Events
  BY DEF AnyEvent, A!Events
<1>2. e.op = "message_start"
  BY DEF A!MessageStart
<1> HIDE DEF e
<1>3. d = [s EXCEPT !.phase = "content"]
  BY <1>2 DEF A!After, e
<1>4. A!Legal(c, e) <=> c.phase = "before"
  BY <1>2 DEF A!Legal
<1>5. s \in Seen /\ s.open = c.open /\ s.next = c.next /\ s.tools = c.tools
  BY <1>1, LastSeen
<1> HIDE DEF s
<1>6. d \in Seen /\ d.phase = "content" /\ d.open = c.open /\ d.next = c.next /\ d.tools = c.tools
  BY <1>3, <1>5, PhaseReplaced
<1>7. d \in Clients(told)
  BY <1>6 DEF Clients, Seen
<1> QED
  BY <1>1, <1>4, <1>6, <1>7 DEF e

\* content_block_start opens a block, and may come only where none is open and with
\* the next index.
LEMMA AfterBlockStart ==
  ASSUME NEW told \in BOOLEAN, NEW c \in Clients(told), c.phase # "closing", NEW i \in Nat,
         NEW t \in A!BlockTypes,
         NEW d, d = A!After(c, A!BlockStart(i, t))
  PROVE  /\ d \in Clients(told)
         /\ d.phase = c.phase /\ d.open = t /\ d.next = c.next
         /\ d.tools <=> (c.tools \/ t = "tool_use")
         /\ A!Legal(c, A!BlockStart(i, t))
              <=> (c.phase = "content" /\ c.open = "none" /\ i = c.next)
         /\ i <= MaxItems => A!BlockStart(i, t) \in A!Events
<1> DEFINE e == A!BlockStart(i, t)
           s == [c EXCEPT !.last = e]
<1>1. e \in AnyEvent
  BY DEF AnyEvent
<1>2. i <= MaxItems => e \in A!Events
  BY StreamAssumption DEF A!Events
<1>3. e.op = "content_block_start" /\ e.index = i /\ e.type = t
  BY DEF A!BlockStart
<1> HIDE DEF e
<1>4. d = [s EXCEPT !.open = t, !.tools = @ \/ t = "tool_use"]
  BY <1>3 DEF A!After, e
<1>5. A!Legal(c, e) <=> (c.phase = "content" /\ c.open = "none" /\ i = c.next)
  BY <1>3 DEF A!Legal
<1>6. s \in Seen /\ s.phase = c.phase /\ s.next = c.next /\ s.tools = c.tools
  BY <1>1, LastSeen
<1> HIDE DEF s
<1>7. /\ d \in Seen /\ d.phase = s.phase /\ d.open = t /\ d.next = s.next
      /\ d.tools <=> (s.tools \/ t = "tool_use")
  BY <1>4, <1>6 DEF Seen
<1>8. d \in Clients(told)
  BY <1>6, <1>7 DEF Clients, Seen
<1> QED
  BY <1>2, <1>5, <1>6, <1>7, <1>8 DEF e

\* A delta changes nothing, and may come only in a block of its own type.
LEMMA AfterBlockDelta ==
  ASSUME NEW told \in BOOLEAN, NEW c \in Clients(told), c.phase # "closing", NEW i \in Nat,
         NEW t \in A!BlockTypes,
         NEW d, d = A!After(c, A!BlockDelta(i, t))
  PROVE  /\ d \in Clients(told)
         /\ d.phase = c.phase /\ d.open = c.open /\ d.next = c.next /\ d.tools = c.tools
         /\ A!Legal(c, A!BlockDelta(i, t))
              <=> (c.phase = "content" /\ c.open = t /\ i = c.next)
         /\ i <= MaxItems => A!BlockDelta(i, t) \in A!Events
<1> DEFINE e == A!BlockDelta(i, t)
<1>1. e \in AnyEvent
  BY DEF AnyEvent
<1>2. i <= MaxItems => e \in A!Events
  BY StreamAssumption DEF A!Events
<1>3. e.op = "content_block_delta" /\ e.index = i /\ e.type = t
  BY DEF A!BlockDelta
<1> HIDE DEF e
<1>4. d = [c EXCEPT !.last = e]
  BY <1>3 DEF A!After, e
<1>5. A!Legal(c, e) <=> (c.phase = "content" /\ c.open = t /\ i = c.next)
  BY <1>3 DEF A!Legal
<1>6. /\ d \in Seen /\ d.phase = c.phase /\ d.open = c.open
      /\ d.next = c.next /\ d.tools = c.tools
  BY <1>1, <1>4, LastSeen
<1>7. d \in Clients(told)
  BY <1>6 DEF Clients, Seen
<1> QED
  BY <1>2, <1>5, <1>6, <1>7 DEF e

\* content_block_stop closes the block and counts it, and may come only in an open
\* one.
LEMMA AfterBlockStop ==
  ASSUME NEW told \in BOOLEAN, NEW c \in Clients(told), c.phase # "closing", NEW i \in Nat,
         NEW d, d = A!After(c, A!BlockStop(i))
  PROVE  /\ d \in Clients(told)
         /\ d.phase = c.phase /\ d.open = "none" /\ d.next = c.next + 1 /\ d.tools = c.tools
         /\ A!Legal(c, A!BlockStop(i))
              <=> (c.phase = "content" /\ c.open # "none" /\ i = c.next)
         /\ i <= MaxItems => A!BlockStop(i) \in A!Events
<1> DEFINE e == A!BlockStop(i)
           s == [c EXCEPT !.last = e]
           n == c.next + 1
<1>1. e \in AnyEvent
  BY DEF AnyEvent
<1>2. i <= MaxItems => e \in A!Events
  BY StreamAssumption DEF A!Events
<1>3. e.op = "content_block_stop" /\ e.index = i
  BY DEF A!BlockStop
<1> HIDE DEF e
<1>4. d = [s EXCEPT !.open = "none", !.next = @ + 1]
  BY <1>3 DEF A!After, e
<1>5. A!Legal(c, e) <=> (c.phase = "content" /\ c.open # "none" /\ i = c.next)
  BY <1>3 DEF A!Legal
<1>6. s \in Seen /\ s.phase = c.phase /\ s.next = c.next /\ s.tools = c.tools
  BY <1>1, LastSeen
<1>7. n \in Nat
  BY ClientFields
<1> HIDE DEF s
<1>8. d = [s EXCEPT !.open = "none", !.next = n]
  BY <1>4, <1>6 DEF Seen
<1> HIDE DEF n
<1>9. d \in Seen /\ d.phase = s.phase /\ d.open = "none" /\ d.next = n /\ d.tools = s.tools
  BY <1>6, <1>7, <1>8 DEF Seen
<1>10. d \in Clients(told)
  BY <1>6, <1>9 DEF Clients, Seen
<1> QED
  BY <1>2, <1>5, <1>6, <1>9, <1>10 DEF e, n

\* message_delta, with the stop reason the client is to be told, may come only when
\* no block is open.
LEMMA AfterMessageDelta ==
  ASSUME NEW told \in BOOLEAN, NEW c \in Clients(told), NEW stop \in A!StopReasons,
         told => (stop = "tool_use" <=> c.tools),
         NEW d, d = A!After(c, A!MessageDelta(stop))
  PROVE  /\ d \in Clients(told) /\ A!MessageDelta(stop) \in A!Events
         /\ d.phase = "closing"
         /\ A!Legal(c, A!MessageDelta(stop)) <=> (c.phase = "content" /\ c.open = "none")
<1> DEFINE e == A!MessageDelta(stop)
           s == [c EXCEPT !.last = e]
<1>1. e \in AnyEvent /\ e \in A!Events
  BY DEF AnyEvent, A!Events
<1>2. e.op = "message_delta" /\ e.stop = stop
  BY DEF A!MessageDelta
<1> HIDE DEF e
<1>3. d = [s EXCEPT !.phase = "closing"]
  BY <1>2 DEF A!After, e
<1>4. A!Legal(c, e) <=> (c.phase = "content" /\ c.open = "none")
  BY <1>2 DEF A!Legal
<1>5. s \in Seen /\ s.last = e /\ s.tools = c.tools
  BY <1>1, LastSeen
<1> HIDE DEF s
<1>6. d \in Seen /\ d.phase = "closing" /\ d.last = e /\ d.tools = c.tools
  BY <1>3, <1>5, PhaseReplaced
<1>7. d \in Clients(told)
  BY <1>2, <1>6 DEF Clients, Seen
<1> QED
  BY <1>1, <1>4, <1>6, <1>7 DEF e

\* message_stop ends the message, and may come only after message_delta.
LEMMA AfterMessageStop ==
  ASSUME NEW told \in BOOLEAN, NEW c \in Clients(told), NEW d, d = A!After(c, A!MessageStop)
  PROVE  /\ d \in Clients(told) /\ A!MessageStop \in A!Events
         /\ d.phase = "stopped"
         /\ A!Legal(c, A!MessageStop) <=> c.phase = "closing"
<1> DEFINE e == A!MessageStop
           s == [c EXCEPT !.last = e]
<1>1. e \in AnyEvent /\ e \in A!Events
  BY DEF AnyEvent, A!Events
<1>2. e.op = "message_stop"
  BY DEF A!MessageStop
<1> HIDE DEF e
<1>3. d = [s EXCEPT !.phase = "stopped"]
  BY <1>2 DEF A!After, e
<1>4. A!Legal(c, e) <=> c.phase = "closing"
  BY <1>2 DEF A!Legal
<1>5. s \in Seen
  BY <1>1, LastSeen
<1> HIDE DEF s
<1>6. d \in Seen /\ d.phase = "stopped"
  BY <1>3, <1>5, PhaseReplaced
<1>7. d \in Clients(told)
  BY <1>6 DEF Clients, Seen
<1> QED
  BY <1>1, <1>4, <1>6, <1>7 DEF e

\* An error event ends the stream, and may come at any point before its end.
LEMMA AfterError ==
  ASSUME NEW told \in BOOLEAN, NEW c \in Clients(told), NEW d, d = A!After(c, A!Error)
  PROVE  /\ d \in Clients(told) /\ A!Error \in A!Events
         /\ d.phase = "failed"
         /\ A!Legal(c, A!Error) <=> c.phase # "stopped"
<1> DEFINE e == A!Error
           s == [c EXCEPT !.last = e]
<1>1. e \in AnyEvent /\ e \in A!Events
  BY DEF AnyEvent, A!Events
<1>2. e.op = "error"
  BY DEF A!Error
<1> HIDE DEF e
<1>3. d = [s EXCEPT !.phase = "failed"]
  BY <1>2 DEF A!After, e
<1>4. A!Legal(c, e) <=> c.phase # "stopped"
  BY <1>2 DEF A!Legal
<1>5. s \in Seen
  BY <1>1, LastSeen
<1> HIDE DEF s
<1>6. d \in Seen /\ d.phase = "failed"
  BY <1>3, <1>5, PhaseReplaced
<1>7. d \in Clients(told)
  BY <1>6 DEF Clients, Seen
<1> QED
  BY <1>1, <1>4, <1>6, <1>7 DEF e

-----------------------------------------------------------------------------
(* What the lists of events do that the translator makes *)

\* Two events are one, then another.
LEMMA TwoEvents ==
  ASSUME NEW S, NEW e \in S, NEW f \in S
  PROVE  <<e>> \in Seq(S) /\ <<e, f>> = <<e>> \o <<f>> /\ <<e, f>> \in Seq(S)
<1>1. <<e>> \in Seq(S) /\ <<e, f>> \in Seq(S)
  OBVIOUS
<1> DEFINE a == <<e>>
           b == <<f>>
           ab == <<e, f>>
<1>2. a \in Seq(S) /\ Len(a) = 1 /\ a[1] = e
  OBVIOUS
<1>3. b \in Seq(S) /\ Len(b) = 1 /\ b[1] = f
  OBVIOUS
<1>4. ab \in Seq(S) /\ Len(ab) = 2 /\ ab[1] = e /\ ab[2] = f
  OBVIOUS
<1> HIDE DEF a, b, ab
<1>5. PICK c : c = a \o b
  OBVIOUS
<1>6. /\ c \in Seq(S) /\ Len(c) = Len(a) + Len(b)
      /\ \A i \in 1..Len(a) + Len(b) : c[i] = IF i <= Len(a) THEN a[i] ELSE b[i - Len(a)]
  BY <1>2, <1>3, <1>5, ConcatProperties
<1>7. Len(c) = 2 /\ c[1] = e /\ c[2] = f
  <2>1. Len(c) = 2 /\ \A i \in 1..2 : c[i] = IF i <= 1 THEN a[i] ELSE b[i - 1]
    BY <1>2, <1>3, <1>6
  <2> QED
    BY <1>2, <1>3, <2>1
<1>8. ab = a \o b
  <2>1. ASSUME NEW i \in 1..Len(ab)
        PROVE  ab[i] = c[i]
    <3>1. i = 1 \/ i = 2
      BY <1>4
    <3> QED
      BY <1>4, <1>7, <3>1
  <2>2. ab = c
    BY <1>4, <1>6, <1>7, <2>1, SeqEqual
  <2> QED
    BY <1>5, <2>2
<1>9. <<e, f>> = <<e>> \o <<f>>
  BY <1>8 DEF a, b, ab
<1> QED
  BY <1>1, <1>9

\* The events a translator makes are events.
LEMMA EventsTyped ==
  /\ A!MessageStart \in AnyEvent /\ A!MessageStop \in AnyEvent /\ A!Error \in AnyEvent
  /\ \A i \in Nat : A!BlockStop(i) \in AnyEvent
  /\ \A i \in Nat, t \in A!BlockTypes : A!BlockStart(i, t) \in AnyEvent
                                        /\ A!BlockDelta(i, t) \in AnyEvent
  /\ \A s \in A!StopReasons : A!MessageDelta(s) \in AnyEvent
BY DEF AnyEvent

\* Only an error event is one.
LEMMA NoError ==
  /\ A!MessageStart # A!Error
  /\ \A i, t : A!BlockStart(i, t) # A!Error /\ A!BlockDelta(i, t) # A!Error
  /\ \A i : A!BlockStop(i) # A!Error
<1>1. /\ A!Error.op = "error" /\ A!MessageStart.op = "message_start"
  BY DEF A!Error, A!MessageStart
<1>2. \A i, t : /\ A!BlockStart(i, t).op = "content_block_start"
                /\ A!BlockDelta(i, t).op = "content_block_delta"
  BY DEF A!BlockStart, A!BlockDelta
<1>3. \A i : A!BlockStop(i).op = "content_block_stop"
  BY DEF A!BlockStop
<1> QED
  BY <1>1, <1>2, <1>3

\* The client after two events, and after three.
After2(c, e, f) == A!After(A!After(c, e), f)
After3(c, e, f, g) == A!After(After2(c, e, f), g)

\* What each event does to a client that has a message open, as a path: the start
\* of a block.
LEMMA StartLeads ==
  ASSUME NEW told \in BOOLEAN, NEW c \in Clients(told), c.phase = "content", NEW i \in Nat,
         NEW t \in A!BlockTypes,
         NEW lawful \in BOOLEAN, lawful => c.open = "none" /\ c.next = i /\ i <= MaxItems
  PROVE  LET d == A!After(c, A!BlockStart(i, t)) IN
         /\ d \in Clients(told)
         /\ Path(c, <<A!BlockStart(i, t)>>, d, lawful, told)
         /\ d.phase = "content" /\ d.open = t /\ d.next = c.next
         /\ d.tools <=> (c.tools \/ t = "tool_use")
<1> DEFINE d == A!After(c, A!BlockStart(i, t))
<1>1. /\ d \in Clients(told) /\ d.phase = c.phase /\ d.open = t /\ d.next = c.next
      /\ d.tools <=> (c.tools \/ t = "tool_use")
      /\ A!Legal(c, A!BlockStart(i, t))
           <=> (c.phase = "content" /\ c.open = "none" /\ i = c.next)
      /\ i <= MaxItems => A!BlockStart(i, t) \in A!Events
  <2>1. c.phase # "closing"
    OBVIOUS
  <2> QED
    BY <2>1, AfterBlockStart
<1>2. lawful => A!Legal(c, A!BlockStart(i, t)) /\ A!BlockStart(i, t) \in A!Events
  BY <1>1
<1>3. Path(c, <<A!BlockStart(i, t)>>, d, lawful, told)
  BY <1>1, <1>2, PathOne
<1> QED
  BY <1>1, <1>3

\* A delta.
LEMMA DeltaLeads ==
  ASSUME NEW told \in BOOLEAN, NEW c \in Clients(told), c.phase = "content", NEW i \in Nat,
         NEW t \in A!BlockTypes,
         NEW lawful \in BOOLEAN, lawful => c.open = t /\ c.next = i /\ i <= MaxItems
  PROVE  LET d == A!After(c, A!BlockDelta(i, t)) IN
         /\ d \in Clients(told)
         /\ Path(c, <<A!BlockDelta(i, t)>>, d, lawful, told)
         /\ d.phase = "content" /\ d.open = c.open /\ d.next = c.next /\ d.tools = c.tools
<1> DEFINE d == A!After(c, A!BlockDelta(i, t))
<1>1. /\ d \in Clients(told) /\ d.phase = "content" /\ d.open = c.open /\ d.next = c.next
      /\ d.tools = c.tools
      /\ lawful => A!Legal(c, A!BlockDelta(i, t)) /\ A!BlockDelta(i, t) \in A!Events
  BY AfterBlockDelta
<1>2. Path(c, <<A!BlockDelta(i, t)>>, d, lawful, told)
  BY <1>1, PathOne
<1> QED
  BY <1>1, <1>2

\* The end of a block.
LEMMA StopLeads ==
  ASSUME NEW told \in BOOLEAN, NEW c \in Clients(told), c.phase = "content", NEW i \in Nat,
         NEW lawful \in BOOLEAN, lawful => c.open # "none" /\ c.next = i /\ i <= MaxItems
  PROVE  LET d == A!After(c, A!BlockStop(i)) IN
         /\ d \in Clients(told)
         /\ Path(c, <<A!BlockStop(i)>>, d, lawful, told)
         /\ d.phase = "content" /\ d.open = "none" /\ d.next = c.next + 1
         /\ d.tools = c.tools
<1> DEFINE d == A!After(c, A!BlockStop(i))
<1>1. /\ d \in Clients(told) /\ d.phase = "content" /\ d.open = "none" /\ d.next = c.next + 1
      /\ d.tools = c.tools
      /\ lawful => A!Legal(c, A!BlockStop(i)) /\ A!BlockStop(i) \in A!Events
  BY AfterBlockStop
<1>2. Path(c, <<A!BlockStop(i)>>, d, lawful, told)
  BY <1>1, PathOne
<1> QED
  BY <1>1, <1>2

\* An error event.
LEMMA ErrorLeads ==
  ASSUME NEW told \in BOOLEAN, NEW c \in Clients(told), c.phase # "stopped",
         NEW lawful \in BOOLEAN
  PROVE  LET d == A!After(c, A!Error) IN
         d \in Clients(told) /\ Path(c, <<A!Error>>, d, lawful, told) /\ d.phase = "failed"
<1> DEFINE d == A!After(c, A!Error)
<1>1. /\ d \in Clients(told) /\ d.phase = "failed"
      /\ lawful => A!Legal(c, A!Error) /\ A!Error \in A!Events
  BY AfterError
<1>2. Path(c, <<A!Error>>, d, lawful, told)
  BY <1>1, PathOne
<1> QED
  BY <1>1, <1>2

\* emit_text_block, and the opening of any block.
LEMMA OpenedLeads ==
  ASSUME NEW told \in BOOLEAN, NEW c \in Clients(told), c.phase = "content", NEW i \in Nat,
         NEW t \in A!BlockTypes,
         NEW lawful \in BOOLEAN, lawful => c.open = "none" /\ c.next = i /\ i <= MaxItems
  PROVE  LET d == After2(c, A!BlockStart(i, t), A!BlockDelta(i, t)) IN
         /\ d \in Clients(told)
         /\ Path(c, <<A!BlockStart(i, t), A!BlockDelta(i, t)>>, d, lawful, told)
         /\ d.phase = "content" /\ d.open = t /\ d.next = c.next
         /\ d.tools <=> (c.tools \/ t = "tool_use")
<1> DEFINE s == A!BlockStart(i, t)
           e == A!BlockDelta(i, t)
           b == A!After(c, A!BlockStart(i, t))
           d == A!After(b, A!BlockDelta(i, t))
<1>1. s \in AnyEvent /\ e \in AnyEvent
  BY EventsTyped
<1>2. /\ b \in Clients(told) /\ Path(c, <<s>>, b, lawful, told)
      /\ b.phase = "content" /\ b.open = t /\ b.next = c.next
      /\ b.tools <=> (c.tools \/ t = "tool_use")
  BY StartLeads
<1> HIDE DEF b
<1>3. /\ d \in Clients(told) /\ Path(b, <<e>>, d, lawful, told)
      /\ d.phase = "content" /\ d.open = b.open /\ d.next = b.next /\ d.tools = b.tools
  BY <1>2, DeltaLeads
<1> HIDE DEF s, e
<1>4. <<s, e>> = <<s>> \o <<e>> /\ <<s>> \in Seq(AnyEvent) /\ <<e>> \in Seq(AnyEvent)
  BY <1>1, TwoEvents
<1> HIDE DEF d
<1>5. Path(c, <<s, e>>, d, lawful, told)
  BY <1>2, <1>3, <1>4, PathThen
<1>6. /\ d \in Clients(told) /\ d.phase = "content" /\ d.open = t /\ d.next = c.next
      /\ d.tools <=> (c.tools \/ t = "tool_use")
  BY <1>2, <1>3
<1>7. d = After2(c, s, e)
  BY DEF b, d, s, e, After2
<1> QED
  BY <1>5, <1>6, <1>7 DEF s, e

\* A text block is opened and has a delta.
LEMMA TextLeads ==
  ASSUME NEW told \in BOOLEAN, NEW c \in Clients(told), c.phase = "content", NEW i \in Nat,
         NEW lawful \in BOOLEAN, lawful => c.open = "none" /\ c.next = i /\ i <= MaxItems
  PROVE  LET d == After2(c, A!BlockStart(i, "text"), A!BlockDelta(i, "text")) IN
         /\ d \in Clients(told)
         /\ Path(c, <<A!BlockStart(i, "text"), A!BlockDelta(i, "text")>>, d, lawful, told)
         /\ d.phase = "content" /\ d.open = "text" /\ d.tools = c.tools /\ d.next = c.next
<1>1. "text" \in A!BlockTypes
  BY DEF A!BlockTypes
<1> DEFINE d == After2(c, A!BlockStart(i, "text"), A!BlockDelta(i, "text"))
<1>2. /\ d \in Clients(told)
      /\ Path(c, <<A!BlockStart(i, "text"), A!BlockDelta(i, "text")>>, d, lawful, told)
      /\ d.phase = "content" /\ d.open = "text" /\ d.next = c.next
      /\ d.tools <=> (c.tools \/ "text" = "tool_use")
  BY <1>1, OpenedLeads
<1> HIDE DEF d
<1>3. d.open = "text" /\ d.tools = c.tools
  BY <1>2, ClientFields
<1> QED
  BY <1>2, <1>3 DEF d

\* A text block is opened.
LEMMA TextStartLeads ==
  ASSUME NEW told \in BOOLEAN, NEW c \in Clients(told), c.phase = "content", NEW i \in Nat,
         NEW lawful \in BOOLEAN, lawful => c.open = "none" /\ c.next = i /\ i <= MaxItems
  PROVE  LET d == A!After(c, A!BlockStart(i, "text")) IN
         /\ d \in Clients(told)
         /\ Path(c, <<A!BlockStart(i, "text")>>, d, lawful, told)
         /\ d.phase = "content" /\ d.open = "text" /\ d.tools = c.tools /\ d.next = c.next
<1>1. "text" \in A!BlockTypes
  BY DEF A!BlockTypes
<1> DEFINE d == A!After(c, A!BlockStart(i, "text"))
<1>2. /\ d \in Clients(told)
      /\ Path(c, <<A!BlockStart(i, "text")>>, d, lawful, told)
      /\ d.phase = "content" /\ d.open = "text" /\ d.next = c.next
      /\ d.tools <=> (c.tools \/ "text" = "tool_use")
  BY <1>1, StartLeads
<1> HIDE DEF d
<1>3. d.open = "text" /\ d.tools = c.tools
  BY <1>2, ClientFields
<1> QED
  BY <1>2, <1>3 DEF d

\* The block of a call is opened.
LEMMA CallStartLeads ==
  ASSUME NEW told \in BOOLEAN, NEW c \in Clients(told), c.phase = "content", NEW i \in Nat,
         NEW lawful \in BOOLEAN, lawful => c.open = "none" /\ c.next = i /\ i <= MaxItems
  PROVE  LET d == A!After(c, A!BlockStart(i, "tool_use")) IN
         /\ d \in Clients(told)
         /\ Path(c, <<A!BlockStart(i, "tool_use")>>, d, lawful, told)
         /\ d.phase = "content" /\ d.open = "tool_use" /\ d.next = c.next /\ d.tools # FALSE
<1>1. "tool_use" \in A!BlockTypes
  BY DEF A!BlockTypes
<1> DEFINE d == A!After(c, A!BlockStart(i, "tool_use"))
<1>2. /\ d \in Clients(told)
      /\ Path(c, <<A!BlockStart(i, "tool_use")>>, d, lawful, told)
      /\ d.phase = "content" /\ d.open = "tool_use" /\ d.next = c.next
      /\ d.tools <=> (c.tools \/ "tool_use" = "tool_use")
  BY <1>1, StartLeads
<1> HIDE DEF d
<1>3. d.open = "tool_use" /\ d.tools # FALSE
  BY <1>2, ClientFields
<1> QED
  BY <1>2, <1>3 DEF d

\* A delta of text.
LEMMA TextDeltaLeads ==
  ASSUME NEW told \in BOOLEAN, NEW c \in Clients(told), c.phase = "content", NEW i \in Nat,
         NEW lawful \in BOOLEAN, lawful => c.open = "text" /\ c.next = i /\ i <= MaxItems
  PROVE  LET d == A!After(c, A!BlockDelta(i, "text")) IN
         /\ d \in Clients(told)
         /\ Path(c, <<A!BlockDelta(i, "text")>>, d, lawful, told)
         /\ d.phase = "content" /\ d.open = c.open /\ d.tools = c.tools /\ d.next = c.next
<1>1. "text" \in A!BlockTypes
  BY DEF A!BlockTypes
<1> DEFINE d == A!After(c, A!BlockDelta(i, "text"))
<1>2. /\ d \in Clients(told)
      /\ Path(c, <<A!BlockDelta(i, "text")>>, d, lawful, told)
      /\ d.phase = "content" /\ d.open = c.open /\ d.tools = c.tools /\ d.next = c.next
  BY <1>1, DeltaLeads
<1> HIDE DEF d
<1>3. d.open = c.open /\ d.tools = c.tools
  BY <1>2, ClientFields
<1> QED
  BY <1>2, <1>3 DEF d

\* A delta of arguments.
LEMMA ArgumentsLead ==
  ASSUME NEW told \in BOOLEAN, NEW c \in Clients(told), c.phase = "content", NEW i \in Nat,
         NEW lawful \in BOOLEAN, lawful => c.open = "tool_use" /\ c.next = i /\ i <= MaxItems
  PROVE  LET d == A!After(c, A!BlockDelta(i, "tool_use")) IN
         /\ d \in Clients(told)
         /\ Path(c, <<A!BlockDelta(i, "tool_use")>>, d, lawful, told)
         /\ d.phase = "content" /\ d.open = c.open /\ d.tools = c.tools /\ d.next = c.next
<1>1. "tool_use" \in A!BlockTypes
  BY DEF A!BlockTypes
<1> DEFINE d == A!After(c, A!BlockDelta(i, "tool_use"))
<1>2. /\ d \in Clients(told)
      /\ Path(c, <<A!BlockDelta(i, "tool_use")>>, d, lawful, told)
      /\ d.phase = "content" /\ d.open = c.open /\ d.tools = c.tools /\ d.next = c.next
  BY <1>1, DeltaLeads
<1> HIDE DEF d
<1>3. d.open = c.open /\ d.tools = c.tools
  BY <1>2, ClientFields
<1> QED
  BY <1>2, <1>3 DEF d

\* A call that was written as text.
LEMMA CallLeads ==
  ASSUME NEW told \in BOOLEAN, NEW c \in Clients(told), c.phase = "content", NEW i \in Nat,
         NEW lawful \in BOOLEAN, lawful => c.open = "none" /\ c.next = i /\ i <= MaxItems
  PROVE  LET d == After2(c, A!BlockStart(i, "tool_use"), A!BlockStop(i)) IN
         /\ d \in Clients(told)
         /\ Path(c, <<A!BlockStart(i, "tool_use"), A!BlockStop(i)>>, d, lawful, told)
         /\ d.phase = "content" /\ d.open = "none" /\ d.next = c.next + 1 /\ d.tools = TRUE
<1> DEFINE s == A!BlockStart(i, "tool_use")
           e == A!BlockStop(i)
           b == A!After(c, A!BlockStart(i, "tool_use"))
           d == A!After(b, A!BlockStop(i))
<1>0. "tool_use" \in A!BlockTypes
  BY DEF A!BlockTypes
<1>1. s \in AnyEvent /\ e \in AnyEvent
  BY <1>0, EventsTyped
<1>2. /\ b \in Clients(told) /\ Path(c, <<s>>, b, lawful, told)
      /\ b.phase = "content" /\ b.open = "tool_use" /\ b.next = c.next /\ b.tools
  BY <1>0, StartLeads
<1> HIDE DEF b
<1>3. /\ d \in Clients(told) /\ Path(b, <<e>>, d, lawful, told)
      /\ d.phase = "content" /\ d.open = "none" /\ d.next = b.next + 1 /\ d.tools = b.tools
  <2>1. lawful => b.open # "none" /\ b.next = i /\ i <= MaxItems
    BY <1>2
  <2>2. b \in Clients(told) /\ b.phase = "content"
    BY <1>2
  <2> QED
    BY <2>1, <2>2, StopLeads
<1> HIDE DEF s, e
<1>4. <<s, e>> = <<s>> \o <<e>> /\ <<s>> \in Seq(AnyEvent) /\ <<e>> \in Seq(AnyEvent)
  BY <1>1, TwoEvents
<1> HIDE DEF d
<1>5. Path(c, <<s, e>>, d, lawful, told)
  BY <1>2, <1>3, <1>4, PathThen
<1>6. d.tools = TRUE
  BY <1>2, <1>3, ClientFields
<1>7. d = After2(c, s, e)
  BY DEF b, d, s, e, After2
<1>8. d \in Clients(told) /\ d.phase = "content" /\ d.open = "none" /\ d.next = c.next + 1
  BY <1>2, <1>3
<1> QED
  BY <1>5, <1>6, <1>7, <1>8 DEF s, e

\* emit_thinking_block.
LEMMA ThoughtLeads ==
  ASSUME NEW told \in BOOLEAN, NEW c \in Clients(told), c.phase = "content", NEW i \in Nat,
         NEW lawful \in BOOLEAN, lawful => c.open = "none" /\ c.next = i /\ i <= MaxItems
  PROVE  LET d == After3(c, A!BlockStart(i, "thinking"), A!BlockDelta(i, "thinking"),
                         A!BlockStop(i)) IN
         /\ d \in Clients(told)
         /\ Path(c, <<A!BlockStart(i, "thinking"), A!BlockDelta(i, "thinking"),
                      A!BlockStop(i)>>, d, lawful, told)
         /\ d.phase = "content" /\ d.open = "none" /\ d.next = c.next + 1
         /\ d.tools = c.tools
<1> DEFINE s == A!BlockStart(i, "thinking")
           f == A!BlockDelta(i, "thinking")
           e == A!BlockStop(i)
           b == After2(c, A!BlockStart(i, "thinking"), A!BlockDelta(i, "thinking"))
           d == A!After(b, A!BlockStop(i))
<1>0. "thinking" \in A!BlockTypes
  BY DEF A!BlockTypes
<1>1. s \in AnyEvent /\ f \in AnyEvent /\ e \in AnyEvent
  BY <1>0, EventsTyped
<1>2. /\ b \in Clients(told) /\ Path(c, <<s, f>>, b, lawful, told)
      /\ b.phase = "content" /\ b.open = "thinking" /\ b.next = c.next
      /\ b.tools <=> c.tools
  BY <1>0, OpenedLeads
<1> HIDE DEF b
<1>3. /\ d \in Clients(told) /\ Path(b, <<e>>, d, lawful, told)
      /\ d.phase = "content" /\ d.open = "none" /\ d.next = b.next + 1 /\ d.tools = b.tools
  <2>1. lawful => b.open # "none" /\ b.next = i /\ i <= MaxItems
    BY <1>2
  <2> QED
    BY <1>2, <2>1, StopLeads
<1> HIDE DEF s, e, f
<1>4. <<s, f, e>> = <<s, f>> \o <<e>> /\ <<s, f>> \in Seq(AnyEvent) /\ <<e>> \in Seq(AnyEvent)
  BY <1>1
<1> HIDE DEF d
<1>5. Path(c, <<s, f, e>>, d, lawful, told)
  BY <1>2, <1>3, <1>4, PathThen
<1>6. d.tools = c.tools
  BY <1>2, <1>3, ClientFields
<1>7. d = After3(c, s, f, e)
  BY DEF b, d, s, f, e, After3
<1>8. d \in Clients(told) /\ d.phase = "content" /\ d.open = "none" /\ d.next = c.next + 1
  BY <1>2, <1>3
<1> QED
  BY <1>5, <1>6, <1>7, <1>8 DEF s, e, f

\* The end of a message.
LEMMA EndLeads ==
  ASSUME NEW told \in BOOLEAN, NEW c \in Clients(told), c.phase = "content",
         NEW stop \in A!StopReasons,
         told => (stop = "tool_use" <=> c.tools),
         NEW lawful \in BOOLEAN, lawful => c.open = "none"
  PROVE  LET d == After2(c, A!MessageDelta(stop), A!MessageStop) IN
         /\ d \in Clients(told)
         /\ Path(c, <<A!MessageDelta(stop), A!MessageStop>>, d, lawful, told)
         /\ d.phase = "stopped"
<1> DEFINE s == A!MessageDelta(stop)
           e == A!MessageStop
           b == A!After(c, s)
           d == A!After(b, e)
<1>1. s \in AnyEvent /\ e \in AnyEvent
  BY EventsTyped
<1>2. /\ b \in Clients(told) /\ b.phase = "closing"
      /\ lawful => A!Legal(c, s) /\ s \in A!Events
  BY AfterMessageDelta
<1>3. /\ d \in Clients(told) /\ d.phase = "stopped"
      /\ lawful => A!Legal(b, e) /\ e \in A!Events
  BY <1>2, AfterMessageStop
<1> HIDE DEF s, e
<1>4. Path(c, <<s>>, b, lawful, told)
  BY <1>2, PathOne
<1>5. Path(b, <<e>>, d, lawful, told)
  BY <1>2, <1>3, PathOne
<1>6. <<s, e>> = <<s>> \o <<e>> /\ <<s>> \in Seq(AnyEvent) /\ <<e>> \in Seq(AnyEvent)
  BY <1>1, TwoEvents
<1> HIDE DEF b, d
<1>7. Path(c, <<s, e>>, d, lawful, told)
  BY <1>4, <1>5, <1>6, PathThen
<1>8. d = After2(c, s, e)
  BY DEF b, d, After2
<1> QED
  BY <1>3, <1>7, <1>8 DEF s, e

-----------------------------------------------------------------------------
(* The actions of StreamOutput *)

Shown == [text : 0..2, tool : 0..2]

\* A list of events that does not begin with an error is preceded by message_start if
\* it is the first, after which the message is open.
LEMMA EmitLeads ==
  ASSUME NEW told \in BOOLEAN, NEW lawful \in BOOLEAN, client \in Clients(told),
         message_started \in BOOLEAN,
         client.phase = IF message_started THEN "content" ELSE "before",
         NEW es \in Seq(AnyEvent), es # << >>, es[1] # A!Error, Emit(es)
  PROVE  /\ out' \in Seq(AnyEvent) /\ message_started' = TRUE /\ ended' = ended
         /\ \E b \in Clients(told) :
              /\ b.phase = "content" /\ b.open = client.open /\ b.next = client.next
              /\ b.tools = client.tools
              /\ \A d : Path(b, es, d, lawful, told) => Path(client, out', d, lawful, told)
<1> DEFINE m == A!MessageStart
<1>1. /\ out' = (IF message_started THEN es ELSE <<m>> \o es)
      /\ message_started' = TRUE /\ ended' = ended
  BY DEF Emit, Announced
<1>2. m \in AnyEvent
  BY EventsTyped
<1> HIDE DEF m
<1>3. <<m>> \in Seq(AnyEvent)
  BY <1>2
<1>4. <<m>> \o es \in Seq(AnyEvent)
  BY <1>3, ConcatProperties
<1>5. CASE message_started
  BY <1>1, <1>5
<1>6. CASE ~message_started
  <2> DEFINE b == A!After(client, A!MessageStart)
  <2>1. client.phase = "before"
    BY <1>6
  <2>2. /\ b \in Clients(told) /\ b.phase = "content" /\ b.open = client.open
        /\ b.next = client.next /\ b.tools = client.tools
        /\ A!Legal(client, A!MessageStart) /\ A!MessageStart \in A!Events
    BY <2>1, AfterMessageStart
  <2>3. Path(client, <<m>>, b, lawful, told)
    BY <2>2, PathOne DEF m
  <2> HIDE DEF b
  <2>4. ASSUME NEW d, Path(b, es, d, lawful, told)
        PROVE  Path(client, <<m>> \o es, d, lawful, told)
    BY <1>3, <2>3, <2>4, PathThen
  <2> QED
    BY <1>1, <1>4, <1>6, <2>2, <2>4
<1> QED
  BY <1>5, <1>6

\* An error event is yielded alone, and the stream has failed.
LEMMA ErrorEmitted ==
  ASSUME NEW told \in BOOLEAN, NEW lawful \in BOOLEAN, client \in Clients(told),
         client.phase # "stopped", Emit(<<A!Error>>)
  PROVE  /\ out' \in Seq(AnyEvent) /\ message_started' = message_started /\ ended' = TRUE
         /\ \E d \in Clients(told) :
              Path(client, out', d, lawful, told) /\ d.phase = "failed"
<1>1. out' = <<A!Error>> /\ message_started' = message_started /\ ended' = TRUE
  BY DEF Emit
<1>2. <<A!Error>> \in Seq(AnyEvent)
  BY EventsTyped
<1> QED
  BY <1>1, <1>2, ErrorLeads

\* Lists of which the first may be empty.
LEMMA LeadsThen ==
  ASSUME NEW told \in BOOLEAN, NEW lawful \in BOOLEAN, NEW c \in Clients(told),
         NEW b, NEW d, NEW first \in BOOLEAN,
         NEW es \in Seq(AnyEvent), NEW fs \in Seq(AnyEvent),
         IF first THEN Path(c, es, b, lawful, told) ELSE b = c,
         Path(b, fs, d, lawful, told)
  PROVE  /\ (IF first THEN es ELSE << >>) \o fs \in Seq(AnyEvent)
         /\ Path(c, (IF first THEN es ELSE << >>) \o fs, d, lawful, told)
<1>1. CASE first
  BY <1>1, PathThen, ConcatProperties
<1>2. CASE ~first
  <2>1. << >> \o fs = fs
    BY ConcatEmptySeq
  <2> QED
    BY <1>2, <2>1
<1> QED
  BY <1>1, <1>2

\* The client moves along the path it is on.
LEMMA YieldLeads ==
  ASSUME NEW told \in BOOLEAN, NEW lawful \in BOOLEAN, NEW d, out \in Seq(AnyEvent),
         Path(client, out, d, lawful, told), YieldEvent
  PROVE  /\ Path(client', out', d, lawful, told)
         /\ client' \in Clients(told) /\ out' \in Seq(AnyEvent)
         /\ lawful => A!Legal(client, out[1]) /\ out[1] \in A!Events
<1>1. out # << >> /\ client' = A!After(client, out[1]) /\ out' = Tail(out)
  BY DEF YieldEvent
<1>2. Tail(out) \in Seq(AnyEvent)
  BY <1>1
<1> QED
  BY <1>1, <1>2, PathStep

\* Sent counts one more for each item it names, up to 2, and none for the others.
LEMMA SentEffect ==
  ASSUME shown \in [Items -> Shown], NEW texts, NEW calls, Sent(texts, calls)
  PROVE  /\ shown' \in [Items -> Shown]
         /\ \A i \in Items :
              /\ shown'[i].text = IF i \in texts /\ shown[i].text < 2
                                  THEN shown[i].text + 1 ELSE shown[i].text
              /\ shown'[i].tool = IF i \in calls /\ shown[i].tool < 2
                                  THEN shown[i].tool + 1 ELSE shown[i].tool
<1>1. shown' = [i \in Items |->
                [shown[i] EXCEPT !.text = IF i \in texts /\ @ < 2 THEN @ + 1 ELSE @,
                                 !.tool = IF i \in calls /\ @ < 2 THEN @ + 1 ELSE @]]
  BY DEF Sent
<1>2. ASSUME NEW i \in Items
      PROVE  /\ shown'[i] \in Shown
             /\ shown'[i].text = IF i \in texts /\ shown[i].text < 2
                                 THEN shown[i].text + 1 ELSE shown[i].text
             /\ shown'[i].tool = IF i \in calls /\ shown[i].tool < 2
                                 THEN shown[i].tool + 1 ELSE shown[i].tool
  <2> DEFINE s == shown[i]
             x == IF i \in texts /\ s.text < 2 THEN s.text + 1 ELSE s.text
             y == IF i \in calls /\ s.tool < 2 THEN s.tool + 1 ELSE s.tool
  <2>1. s \in Shown
    OBVIOUS
  <2>2. s.text \in 0..2 /\ s.tool \in 0..2
    BY <2>1 DEF Shown
  <2>3. x \in 0..2 /\ y \in 0..2
    BY <2>2
  <2>4. shown'[i] = [s EXCEPT !.text = IF i \in texts /\ @ < 2 THEN @ + 1 ELSE @,
                              !.tool = IF i \in calls /\ @ < 2 THEN @ + 1 ELSE @]
    BY <1>1
  <2> HIDE DEF s
  <2>5. shown'[i] = [s EXCEPT !.text = x, !.tool = y]
    BY <2>1, <2>4 DEF Shown
  <2> HIDE DEF x, y
  <2>6. shown'[i] \in Shown /\ shown'[i].text = x /\ shown'[i].tool = y
    BY <2>1, <2>3, <2>5 DEF Shown
  <2> QED
    BY <2>6 DEF s, x, y
<1>3. shown' \in [Items -> Shown]
  BY <1>1, <1>2
<1> QED
  BY <1>2, <1>3

\* Whatever was sent stays sent.
LEMMA SentStays ==
  ASSUME shown \in [Items -> Shown], NEW texts, NEW calls, Sent(texts, calls)
  PROVE  /\ shown' \in [Items -> Shown]
         /\ \A i \in Items : shown[i].text + shown[i].tool > 0
                               => shown'[i].text + shown'[i].tool > 0
         /\ \A i \in (texts \cup calls) \cap Items : shown'[i].text + shown'[i].tool > 0
<1>1. \A i \in Items : shown[i].text \in 0..2 /\ shown[i].tool \in 0..2
  BY DEF Shown
<1> QED
  BY <1>1, SentEffect
=============================================================================
