-------------------------- MODULE ChatStreamProofs --------------------------
(***************************************************************************)
(* Proofs about ChatStream: that it implements AnthropicStream for orderly *)
(* upstreams, that the end is told, and that nothing is lost or sent       *)
(* twice, for responses of any length from any server.                     *)
(***************************************************************************)
EXTENDS ChatStream, StreamOutputProofs

-----------------------------------------------------------------------------
(* The inductive invariant *)

Stages == {"between", "reasoning", "content", "call", "finished", "done", "eof"}
Forms == {"text", "tool", "none"}
Texts == {"none", "prose", "toolcall", "half"}
Cuts == {"none", "plain", "whole", "open", "more", "close"}

Upstreams == [ server : Server, stage : Stages, due : Seq(Forms), text : Texts, cut : Cuts,
               called : BOOLEAN, complete : BOOLEAN ]

\* The events that neither end a message nor fail, and what may go before its end.
Body ==
    {A!BlockStart(i, t) : i \in Nat, t \in A!BlockTypes}
    \cup {A!BlockDelta(i, t) : i \in Nat, t \in A!BlockTypes}
    \cup {A!BlockStop(i) : i \in Nat}
Opening == Body \cup {A!MessageStart, A!Error}

Told ==
    /\ message_started \in BOOLEAN /\ ended \in BOOLEAN
    /\ out \in Seq(AnyEvent) /\ client \in Clients(FALSE)

Held ==
    /\ block_index \in Nat /\ block_started \in BOOLEAN /\ thinking_block_started \in BOOLEAN
    /\ tool \in [item : Nat, name : {"none", "Read", "other"}]
    /\ arguments \in {"none", "some", "all"} /\ buffered \subseteq Items

TypeOK ==
    /\ up \in Upstreams /\ item <= MaxItems
    /\ Held /\ Told /\ shown \in [Items -> Shown]

\* The block the translator believes the client has open.
OpenBlock ==
    IF thinking_block_started THEN "thinking"
    ELSE IF ~block_started THEN "none"
    ELSE IF tool # NoTool THEN "tool_use" ELSE "text"

\* The client that has seen all the translator has made is where the translator
\* believes it to be.
Matches(d) ==
    IF ended THEN d.phase \in {"stopped", "failed"}
    ELSE /\ d.phase = IF message_started THEN "content" ELSE "before"
         /\ Orderly => d.next = block_index /\ d.open = OpenBlock

\* What waits in `out' leads the client there.
Sync == \E d \in Clients(FALSE) : Path(client, out, d, Orderly, FALSE) /\ Matches(d)

Announces == block_started \/ thinking_block_started => message_started

\* Until the upstream closes the connection, nothing says that the message is over.
Unfinished ==
    up.stage # "eof" => client.phase \notin {"closing", "stopped"} /\ out \in Seq(Opening)

\* The blocks of the message, counting an open one.
Blocks == IF OpenBlock = "none" THEN block_index ELSE block_index + 1

\* What an orderly upstream never brings about; above all, that the message has at most
\* one block for each item.
Shape ==
    Orderly =>
    /\ buffered = {} /\ up.text \in {"none", "prose"} /\ tool.name # "Read"
    /\ ~(thinking_block_started /\ block_started)
    /\ up.stage = "call" => OpenBlock = "tool_use"
    /\ up.stage = "reasoning" /\ up.server.thinking => OpenBlock = "thinking"
    /\ Blocks <= item
    /\ up.stage = "content" /\ OpenBlock # "text" => Blocks + 1 <= item

\* The arguments of item i, a call of Read, are held back.
Pending(i) == tool.item = i /\ tool.name = "Read"

\* The upstream is done with item i.
Settled(i) == i <= item /\ (i < item \/ BetweenItems \/ up.complete)

\* What the upstream and the pending call have to do with each other.
UpstreamOK ==
    /\ tool # NoTool => tool.item \in 1..item /\ tool.name \in {"Read", "other"}
    /\ up.stage \in {"content", "call"} => item \in Items
    /\ up.stage = "call" => tool.item = item
    /\ up.stage = "content" => tool.item < item
    /\ ~up.called => tool = NoTool
    /\ up.complete => up.stage \in {"finished", "done", "eof"} /\ tool = NoTool
    /\ up.stage = "eof" => buffered = {}
    /\ tool.item < item \/ BetweenItems => tool = NoTool \/ arguments = "all"

SentAtAll(i) == shown[i].text + shown[i].tool > 0

Prosaic == up.server.texts = {"prose"}

Once ==
    Prosaic =>
    /\ buffered = {} /\ up.text \in {"none", "prose"}
    /\ \A i \in Items : Settled(i) /\ ~Pending(i) => SentAs(i, up.due[i])
    /\ \A i \in Items : i > item \/ Pending(i) => SentAs(i, "none")
    /\ tool # NoTool => up.due[tool.item] = "tool"
    /\ up.stage = "content" =>
          up.due[item] = "text" /\ SentAs(item, IF up.cut = "none" THEN "none" ELSE "text")
    /\ up.stage = "call" =>
          SentAs(item, IF arguments # "none" /\ tool.name # "Read" THEN "tool" ELSE "none")

Somehow ==
    /\ \A i \in Items : Settled(i) /\ up.due[i] # "none" =>
          SentAtAll(i) \/ i \in buffered \/ Pending(i)
    /\ up.stage = "content" /\ up.cut # "none" => SentAtAll(item) \/ item \in buffered
    /\ up.stage = "call" /\ arguments # "none" /\ tool.name # "Read" => SentAtAll(item)

IInv ==
    TypeOK /\ Sync /\ Announces /\ Unfinished /\ Shape /\ UpstreamOK /\ Once /\ Somehow

-----------------------------------------------------------------------------
(* The upstream *)

\* What the fields of the upstream are.
LEMMA UpFields ==
  ASSUME TypeOK
  PROVE  /\ up.server \in Server /\ up.stage \in Stages /\ up.due \in Seq(Forms)
         /\ up.text \in Texts /\ up.cut \in Cuts /\ up.called \in BOOLEAN
         /\ up.complete \in BOOLEAN /\ item \in Nat /\ MaxItems \in Nat
         /\ up.server.thinking \in BOOLEAN
BY StreamAssumption DEF TypeOK, Upstreams, item, Server

\* The server is what it was.
LEMMA SameServer ==
  ASSUME up'.server = up.server
  PROVE  Orderly' = Orderly /\ Prosaic' = Prosaic
BY DEF Orderly, Prosaic

\* Whether an upstream is orderly is yes or no.
LEMMA OrderlyTyped == Orderly \in BOOLEAN /\ (Orderly => Prosaic)
BY DEF Orderly, Prosaic

\* Another stage changes the stage alone.
LEMMA StageSet ==
  ASSUME TypeOK, NEW s \in Stages, up' = [up EXCEPT !.stage = s]
  PROVE  /\ up' \in Upstreams /\ up'.server = up.server /\ up'.stage = s
         /\ up'.due = up.due /\ up'.text = up.text /\ up'.cut = up.cut
         /\ up'.called = up.called /\ up'.complete = up.complete /\ item' = item
BY DEF TypeOK, Upstreams, item

\* A delta changes how the text is cut alone.
LEMMA CutSet ==
  ASSUME TypeOK, NEW c \in Cuts, up' = [up EXCEPT !.cut = c]
  PROVE  /\ up' \in Upstreams /\ up'.server = up.server /\ up'.stage = up.stage
         /\ up'.due = up.due /\ up'.text = up.text /\ up'.cut = c
         /\ up'.called = up.called /\ up'.complete = up.complete /\ item' = item
BY DEF TypeOK, Upstreams, item

\* finish_reason ends the response, completely or not.
LEMMA Finished ==
  ASSUME TypeOK, NEW c \in BOOLEAN,
         up' = [up EXCEPT !.stage = "finished", !.complete = c]
  PROVE  /\ up' \in Upstreams /\ up'.server = up.server /\ up'.stage = "finished"
         /\ up'.due = up.due /\ up'.text = up.text /\ up'.cut = up.cut
         /\ up'.called = up.called /\ up'.complete = c /\ item' = item
BY DEF TypeOK, Upstreams, item, Stages

\* Begin adds one item, which is due in the form it is given, and keeps the others.
LEMMA Begun ==
  ASSUME TypeOK, NEW s \in Stages, NEW t \in Texts, NEW f \in Forms, Begin(s, t, f)
  PROVE  /\ up' \in Upstreams /\ up'.server = up.server /\ up'.stage = s
         /\ up'.text = t /\ up'.cut = "none" /\ up'.complete = up.complete
         /\ up'.called = (up.called \/ s = "call")
         /\ item' = item + 1 /\ item' \in Items /\ item' <= MaxItems
         /\ \A i \in 1..item : up'.due[i] = up.due[i]
         /\ up'.due[item'] = f
         /\ ReadingLine /\ BetweenItems
<1> DEFINE due == Append(up.due, f)
           called == up.called \/ s = "call"
<1>1. /\ up \in Upstreams /\ up.due \in Seq(Forms) /\ item \in Nat /\ MaxItems \in Nat
      /\ up.called \in BOOLEAN
  BY UpFields DEF TypeOK
<1>2. /\ ReadingLine /\ BetweenItems /\ item < MaxItems
      /\ up' = [up EXCEPT !.stage = s, !.due = Append(@, f), !.text = t, !.cut = "none",
                          !.called = @ \/ s = "call"]
  BY DEF Begin
<1>3. /\ due \in Seq(Forms) /\ Len(due) = item + 1 /\ due[item + 1] = f
      /\ \A i \in 1..item : due[i] = up.due[i]
  BY <1>1 DEF item
<1>4. called \in BOOLEAN
  BY <1>1
<1>5. up' = [up EXCEPT !.stage = s, !.due = due, !.text = t, !.cut = "none",
                       !.called = called]
  BY <1>1, <1>2 DEF Upstreams
<1>6. "none" \in Cuts
  BY DEF Cuts
<1> HIDE DEF due, called
<1>7. /\ up' \in Upstreams /\ up'.server = up.server /\ up'.stage = s /\ up'.due = due
      /\ up'.text = t /\ up'.cut = "none" /\ up'.called = called
      /\ up'.complete = up.complete
  BY <1>1, <1>3, <1>4, <1>5, <1>6 DEF Upstreams
<1>8. item' = item + 1
  BY <1>3, <1>7 DEF item
<1>9. item' \in Items /\ item' <= MaxItems
  BY <1>1, <1>2, <1>8 DEF Items
<1> QED
  BY <1>1, <1>2, <1>3, <1>7, <1>8, <1>9 DEF called

-----------------------------------------------------------------------------
(* Where lists of events take a message *)

\* The message is open and, if it has to be legal, has i blocks and block o open.
At(b, i, o) == b.phase = "content" /\ (Orderly => b.next = i /\ b.open = o)

\* The events es take a message from block i, with o open, to block j with p open.
Takes(es, i, o, j, p) ==
    /\ es \in Seq(Body)
    /\ \A b \in Clients(FALSE) : At(b, i, o) =>
          \E d \in Clients(FALSE) : Path(b, es, d, Orderly, FALSE) /\ At(d, j, p)

\* Body's events are events.
LEMMA BodyTyped ==
  /\ Body \subseteq AnyEvent /\ Body \subseteq Opening /\ Opening \subseteq AnyEvent
  /\ \A e \in Body : e # A!Error
  /\ \A i \in Nat : A!BlockStop(i) \in Body
  /\ \A i \in Nat, t \in A!BlockTypes : A!BlockStart(i, t) \in Body
                                        /\ A!BlockDelta(i, t) \in Body
BY EventsTyped, NoError DEF Body, Opening

\* The types of blocks.
LEMMA BlocksTyped ==
  "text" \in A!BlockTypes /\ "tool_use" \in A!BlockTypes /\ "thinking" \in A!BlockTypes
BY DEF A!BlockTypes

\* A list of body events is one of all the larger sets.
LEMMA BodySeq ==
  ASSUME NEW es \in Seq(Body)
  PROVE  es \in Seq(AnyEvent) /\ es \in Seq(Opening) /\ (es # << >> => es[1] # A!Error)
<1>1. Body \subseteq AnyEvent /\ Body \subseteq Opening /\ \A e \in Body : e # A!Error
  BY BodyTyped
<1>2. es # << >> => es[1] \in Body
  OBVIOUS
<1> HIDE DEF Body
<1>3. es \in Seq(AnyEvent) /\ es \in Seq(Opening)
  BY <1>1
<1> QED
  BY <1>1, <1>2, <1>3

\* No events leave it where it is.
LEMMA TakesNothing ==
  ASSUME NEW i, NEW o, NEW j, NEW p, Orderly => i = j /\ o = p
  PROVE  Takes(<< >>, i, o, j, p)
<1>1. << >> \in Seq(Body)
  OBVIOUS
<1>2. ASSUME NEW b \in Clients(FALSE), At(b, i, o)
      PROVE  \E d \in Clients(FALSE) : Path(b, << >>, d, Orderly, FALSE) /\ At(d, j, p)
  <2>1. Path(b, << >>, b, Orderly, FALSE)
    BY OrderlyTyped, PathNone
  <2> QED
    BY <1>2, <2>1 DEF At
<1> QED
  BY <1>1, <1>2 DEF Takes

\* One list after another.
LEMMA TakesThen ==
  ASSUME NEW es, NEW fs, NEW i, NEW o, NEW j, NEW p, NEW k, NEW q,
         Takes(es, i, o, j, p), Takes(fs, j, p, k, q)
  PROVE  Takes(es \o fs, i, o, k, q)
<1>1. es \in Seq(Body) /\ fs \in Seq(Body)
  BY DEF Takes
<1> HIDE DEF Body
<1>2. es \o fs \in Seq(Body)
  BY <1>1, ConcatProperties
<1>3. ASSUME NEW b \in Clients(FALSE), At(b, i, o)
      PROVE  \E d \in Clients(FALSE) : Path(b, es \o fs, d, Orderly, FALSE) /\ At(d, k, q)
  <2>1. PICK c \in Clients(FALSE) : Path(b, es, c, Orderly, FALSE) /\ At(c, j, p)
    BY <1>3 DEF Takes
  <2>2. PICK d \in Clients(FALSE) : Path(c, fs, d, Orderly, FALSE) /\ At(d, k, q)
    BY <2>1 DEF Takes
  <2>3. Path(b, es \o fs, d, Orderly, FALSE)
    BY <1>1, <2>1, <2>2, OrderlyTyped, PathThen
  <2> QED
    BY <2>2, <2>3
<1> QED
  BY <1>2, <1>3 DEF Takes

\* What a client with an open message sees of a new block.
LEMMA OpenLeads ==
  ASSUME NEW told \in BOOLEAN, NEW c \in Clients(told), c.phase = "content", NEW i \in Nat,
         NEW t \in A!BlockTypes,
         NEW lawful \in BOOLEAN, lawful => c.open = "none" /\ c.next = i /\ i <= MaxItems
  PROVE  LET d == A!After(c, A!BlockStart(i, t)) IN
         /\ d \in Clients(told)
         /\ Path(c, <<A!BlockStart(i, t)>>, d, lawful, told)
         /\ d.phase = "content" /\ d.open = t /\ d.next = c.next
<1> DEFINE d == A!After(c, A!BlockStart(i, t))
<1>1. /\ d \in Clients(told)
      /\ Path(c, <<A!BlockStart(i, t)>>, d, lawful, told)
      /\ d.phase = "content" /\ d.open = t /\ d.next = c.next
      /\ d.tools <=> (c.tools \/ t = "tool_use")
  BY StartLeads
<1> QED
  BY <1>1

\* The same, where it has to be legal only if the upstream is orderly.
LEMMA OpenedBlock ==
  ASSUME NEW b \in Clients(FALSE), b.phase = "content", NEW i \in Nat, NEW t \in A!BlockTypes,
         Orderly => b.open = "none" /\ b.next = i /\ i <= MaxItems
  PROVE  LET d == A!After(b, A!BlockStart(i, t)) IN
         /\ d \in Clients(FALSE)
         /\ Path(b, <<A!BlockStart(i, t)>>, d, Orderly, FALSE)
         /\ d.phase = "content" /\ d.open = t /\ d.next = b.next
<1> DEFINE d == A!After(b, A!BlockStart(i, t))
<1>1. PICK lawful \in BOOLEAN : lawful = Orderly
  BY OrderlyTyped
<1>2. PICK told \in BOOLEAN : told = FALSE
  OBVIOUS
<1>3. b \in Clients(told)
  BY <1>2
<1>4. lawful => b.open = "none" /\ b.next = i /\ i <= MaxItems
  BY <1>1
<1>5. /\ d \in Clients(told) /\ Path(b, <<A!BlockStart(i, t)>>, d, lawful, told)
      /\ d.phase = "content" /\ d.open = t /\ d.next = b.next
  BY <1>3, <1>4, OpenLeads
<1> QED
  BY <1>1, <1>2, <1>5

\* A block is opened ...
LEMMA TakesStart ==
  ASSUME NEW i \in Nat, NEW t \in A!BlockTypes, NEW j, NEW o, NEW k, NEW p,
         Orderly => o = "none" /\ p = t /\ j = i /\ k = i /\ i <= MaxItems
  PROVE  Takes(<<A!BlockStart(i, t)>>, j, o, k, p)
<1> DEFINE e == A!BlockStart(i, t)
<1>1. e \in Body
  BY BodyTyped
<1>2. <<e>> \in Seq(Body)
  BY <1>1
<1>3. ASSUME NEW b \in Clients(FALSE), At(b, j, o)
      PROVE  \E d \in Clients(FALSE) : Path(b, <<e>>, d, Orderly, FALSE) /\ At(d, k, p)
  <2>1. /\ b.phase = "content"
        /\ Orderly => b.open = "none" /\ b.next = i /\ i <= MaxItems
    BY <1>3 DEF At
  <2> DEFINE d == A!After(b, A!BlockStart(i, t))
  <2>2. /\ d \in Clients(FALSE) /\ Path(b, <<A!BlockStart(i, t)>>, d, Orderly, FALSE)
        /\ d.phase = "content" /\ d.open = t /\ d.next = b.next
    BY <2>1, OpenedBlock
  <2> HIDE DEF d
  <2> QED
    BY <2>1, <2>2 DEF At
<1> QED
  BY <1>2, <1>3 DEF Takes

\* ... gets a delta ...
LEMMA TakesDelta ==
  ASSUME NEW i \in Nat, NEW t \in A!BlockTypes, NEW j, NEW o, NEW k, NEW p,
         Orderly => o = t /\ p = t /\ j = i /\ k = i /\ i <= MaxItems
  PROVE  Takes(<<A!BlockDelta(i, t)>>, j, o, k, p)
<1> DEFINE e == A!BlockDelta(i, t)
<1>1. e \in Body
  BY BodyTyped
<1>2. <<e>> \in Seq(Body)
  BY <1>1
<1>3. ASSUME NEW b \in Clients(FALSE), At(b, j, o)
      PROVE  \E d \in Clients(FALSE) : Path(b, <<e>>, d, Orderly, FALSE) /\ At(d, k, p)
  <2>1. /\ b.phase = "content"
        /\ Orderly => b.open = t /\ b.next = i /\ i <= MaxItems
    BY <1>3 DEF At
  <2> DEFINE d == A!After(b, A!BlockDelta(i, t))
  <2>2. /\ d \in Clients(FALSE) /\ Path(b, <<A!BlockDelta(i, t)>>, d, Orderly, FALSE)
        /\ d.phase = "content" /\ d.open = b.open /\ d.next = b.next
    BY <2>1, OrderlyTyped, DeltaLeads
  <2> HIDE DEF d
  <2> QED
    BY <2>1, <2>2 DEF At
<1> QED
  BY <1>2, <1>3 DEF Takes

\* ... and is closed.
LEMMA TakesStop ==
  ASSUME NEW i \in Nat, NEW j, NEW o, NEW k, NEW p,
         Orderly => o # "none" /\ p = "none" /\ j = i /\ k = i + 1 /\ i <= MaxItems
  PROVE  Takes(<<A!BlockStop(i)>>, j, o, k, p)
<1> DEFINE e == A!BlockStop(i)
<1>1. e \in Body
  BY BodyTyped
<1>2. <<e>> \in Seq(Body)
  BY <1>1
<1>3. ASSUME NEW b \in Clients(FALSE), At(b, j, o)
      PROVE  \E d \in Clients(FALSE) : Path(b, <<e>>, d, Orderly, FALSE) /\ At(d, k, p)
  <2>1. /\ b.phase = "content"
        /\ Orderly => b.open # "none" /\ b.next = i /\ i <= MaxItems
    BY <1>3 DEF At
  <2> DEFINE d == A!After(b, A!BlockStop(i))
  <2>2. /\ d \in Clients(FALSE) /\ Path(b, <<A!BlockStop(i)>>, d, Orderly, FALSE)
        /\ d.phase = "content" /\ d.open = "none" /\ d.next = b.next + 1
    BY <2>1, OrderlyTyped, StopLeads
  <2> HIDE DEF d
  <2> QED
    BY <2>1, <2>2 DEF At
<1> QED
  BY <1>2, <1>3 DEF Takes

\* If there are none, it has not moved.
LEMMA NothingTakes ==
  ASSUME NEW i \in Nat, NEW o \in A!BlockTypes \cup {"none"}, NEW j, NEW p,
         Takes(<< >>, i, o, j, p), Orderly
  PROVE  i = j /\ o = p
<1> DEFINE b == [phase |-> "content", open |-> o, next |-> i, tools |-> FALSE, last |-> "none"]
<1>1. b \in Clients(FALSE) /\ b.phase = "content" /\ b.next = i /\ b.open = o
  BY DEF Clients
<1> HIDE DEF b
<1>2. At(b, i, o)
  BY <1>1 DEF At
<1>3. PICK d \in Clients(FALSE) : Path(b, << >>, d, Orderly, FALSE) /\ At(d, j, p)
  BY <1>1, <1>2 DEF Takes
<1>4. b = d
  BY <1>3, OrderlyTyped, PathDone
<1> QED
  BY <1>1, <1>3, <1>4 DEF At

-----------------------------------------------------------------------------
(* Where the client is *)

\* When a line is read, the client is where the translator believes it to be.
LEMMA Reading ==
  ASSUME TypeOK, Sync, ReadingLine
  PROVE  /\ client \in Clients(FALSE)
         /\ client.phase = IF message_started THEN "content" ELSE "before"
         /\ Orderly => client.next = block_index /\ client.open = OpenBlock
<1>1. out = << >> /\ ~ended
  BY DEF ReadingLine
<1>2. PICK d \in Clients(FALSE) : Path(client, out, d, Orderly, FALSE) /\ Matches(d)
  BY DEF Sync
<1>3. client = d
  BY <1>1, <1>2, OrderlyTyped, PathDone
<1> QED
  BY <1>1, <1>2, <1>3 DEF Matches

\* What the translator believes to be open is a block or nothing.
LEMMA OpenTyped ==
  OpenBlock \in A!BlockTypes \cup {"none"}
BY BlocksTyped DEF OpenBlock

\* What the client was sent, and what it will have been when the lines are yielded.
InStep == Sync /\ Told /\ Announces /\ Unfinished

\* A list of events, which may be empty, that takes the message to where the translator
\* believes it to be keeps the two in step, whether or not message_start goes before it.
LEMMA EmittedSync ==
  ASSUME TypeOK, Sync, Announces, ReadingLine, up'.server = up.server, client' = client,
         NEW es, Emit(es), Takes(es, block_index, OpenBlock, block_index', OpenBlock'),
         block_started' \/ thinking_block_started' =>
            block_started \/ thinking_block_started \/ es # << >>
  PROVE  InStep' /\ ended' = FALSE
<1>1. /\ client \in Clients(FALSE)
      /\ client.phase = IF message_started THEN "content" ELSE "before"
      /\ Orderly => client.next = block_index /\ client.open = OpenBlock
  BY Reading
<1>2. message_started \in BOOLEAN /\ ended = FALSE /\ block_index \in Nat
  BY DEF TypeOK, Told, Held, ReadingLine
<1>3. es \in Seq(Body) /\ es \in Seq(AnyEvent) /\ es \in Seq(Opening)
      /\ (es # << >> => es[1] # A!Error)
  BY BodySeq DEF Takes
<1>4. /\ out' = Announced(es) /\ ended' = FALSE
      /\ message_started' = (message_started \/ es # << >>)
  BY <1>2, <1>3 DEF Emit
<1>5. out' \in Seq(Opening)
  <2>1. A!MessageStart \in Opening
    BY DEF Opening
  <2> HIDE DEF Opening
  <2>2. <<A!MessageStart>> \in Seq(Opening)
    BY <2>1
  <2>3. <<A!MessageStart>> \o es \in Seq(Opening)
    BY <1>3, <2>2, ConcatProperties
  <2> QED
    BY <1>3, <1>4, <2>3 DEF Announced
<1>6. client.phase \notin {"closing", "stopped"}
  BY <1>1, <1>2
<1>7. Announces'
  BY <1>2, <1>4 DEF Announces
<1>8. Sync' /\ out' \in Seq(AnyEvent)
  <2>1. CASE es = << >>
    <3>1. out' = << >> /\ message_started' = message_started
      BY <1>2, <1>4, <2>1 DEF Announced
    <3>2. Orderly => block_index = block_index' /\ OpenBlock = OpenBlock'
      BY <1>2, <2>1, OpenTyped, NothingTakes
    <3>3. Path(client, << >>, client, Orderly, FALSE)
      BY <1>1, OrderlyTyped, PathNone
    <3>4. Path(client', out', client, Orderly', FALSE)
      BY <3>1, <3>3, SameServer
    <3>5. Matches(client)'
      BY <1>1, <1>4, <3>1, <3>2, SameServer DEF Matches
    <3> QED
      BY <1>1, <1>3, <2>1, <3>1, <3>4, <3>5 DEF Sync
  <2>2. CASE es # << >>
    <3>1. PICK told \in BOOLEAN : told = FALSE
      OBVIOUS
    <3>2. client \in Clients(told) /\ es[1] # A!Error
      BY <1>1, <1>3, <2>2, <3>1
    <3>3. /\ out' \in Seq(AnyEvent) /\ message_started' = TRUE
          /\ \E b \in Clients(told) :
               /\ b.phase = "content" /\ b.open = client.open /\ b.next = client.next
               /\ b.tools = client.tools
               /\ \A d : Path(b, es, d, Orderly, told) => Path(client, out', d, Orderly, told)
      BY <1>1, <1>2, <1>3, <2>2, <3>2, OrderlyTyped, EmitLeads
    <3>4. PICK b \in Clients(FALSE) :
               /\ b.phase = "content" /\ b.open = client.open /\ b.next = client.next
               /\ \A d : Path(b, es, d, Orderly, FALSE) => Path(client, out', d, Orderly, FALSE)
      BY <3>1, <3>3
    <3>5. At(b, block_index, OpenBlock)
      BY <1>1, <3>4 DEF At
    <3>6. PICK d \in Clients(FALSE) :
             Path(b, es, d, Orderly, FALSE) /\ At(d, block_index', OpenBlock')
      BY <3>5 DEF Takes
    <3>7. Path(client', out', d, Orderly', FALSE)
      BY <3>4, <3>6, SameServer
    <3>8. Matches(d)'
      BY <1>4, <3>3, <3>6, SameServer DEF Matches, At
    <3> QED
      BY <3>3, <3>7, <3>8 DEF Sync
  <2> QED
    BY <2>1, <2>2
<1>9. message_started' \in BOOLEAN
  BY <1>2, <1>4
<1> QED
  BY <1>1, <1>4, <1>5, <1>6, <1>7, <1>8, <1>9 DEF InStep, Told, Unfinished

\* Nothing is made for this line.
LEMMA QuietSync ==
  ASSUME TypeOK, Sync, Announces, Unfinished, up'.server = up.server,
         up.stage = "eof" => up'.stage = "eof",
         UNCHANGED <<message_started, ended, out, client, block_index, block_started,
                     thinking_block_started>>,
         OpenBlock' = OpenBlock
  PROVE  InStep'
<1>1. PICK d \in Clients(FALSE) : Path(client, out, d, Orderly, FALSE) /\ Matches(d)
  BY DEF Sync
<1>2. Path(client', out', d, Orderly', FALSE)
  BY <1>1, SameServer
<1>3. Matches(d)'
  BY <1>1, SameServer DEF Matches
<1>4. Announces' /\ Unfinished' /\ Told'
  BY DEF Announces, Unfinished, Told, TypeOK
<1> QED
  BY <1>2, <1>3, <1>4 DEF Sync, InStep

\* An error event.
LEMMA ErrorSync ==
  ASSUME TypeOK, Sync, Announces, ReadingLine, UNCHANGED <<up, state, client>>,
         Emit(<<A!Error>>)
  PROVE  InStep'
<1>1. client \in Clients(FALSE) /\ client.phase \notin {"stopped", "closing"}
  BY Reading DEF TypeOK, Told
<1>2. PICK told \in BOOLEAN : told = FALSE
  OBVIOUS
<1>3. /\ out' \in Seq(AnyEvent) /\ message_started' = message_started /\ ended' = TRUE
      /\ \E d \in Clients(told) :
           Path(client, out', d, Orderly, told) /\ d.phase = "failed"
  <2>1. client \in Clients(told) /\ client.phase # "stopped"
    BY <1>1, <1>2
  <2> QED
    BY <2>1, OrderlyTyped, ErrorEmitted
<1>4. PICK d \in Clients(FALSE) :
           Path(client, out', d, Orderly, FALSE) /\ d.phase = "failed"
  BY <1>2, <1>3
<1>5. Path(client', out', d, Orderly', FALSE)
  BY <1>4, SameServer
<1>6. Matches(d)'
  BY <1>3, <1>4 DEF Matches
<1>7. out' = <<A!Error>>
  BY DEF Emit
<1>8. out' \in Seq(Opening)
  BY <1>7 DEF Opening
<1>9. Announces' /\ Unfinished'
  BY <1>1, <1>3, <1>8 DEF Announces, Unfinished, state
<1>10. Told'
  BY <1>1, <1>3 DEF Told, TypeOK
<1> QED
  BY <1>5, <1>6, <1>9, <1>10 DEF Sync, InStep

\* The last events.
LEMMA LastSync ==
  ASSUME TypeOK, Sync, Announces, ReadingLine, UNCHANGED <<up, state, client>>,
         NEW es \in Seq(AnyEvent), EmitLast(es),
         up.stage # "eof" => es \in Seq(Opening),
         \E d \in Clients(FALSE) : /\ Path(client, es, d, Orderly, FALSE)
                                   /\ d.phase \in {"stopped", "failed"}
  PROVE  InStep'
<1>1. out' = es /\ ended' = TRUE /\ message_started' = message_started
  BY DEF EmitLast
<1>2. PICK d \in Clients(FALSE) : /\ Path(client, es, d, Orderly, FALSE)
                                  /\ d.phase \in {"stopped", "failed"}
  OBVIOUS
<1>3. Path(client', out', d, Orderly', FALSE)
  BY <1>1, <1>2, SameServer
<1>4. Matches(d)'
  BY <1>1, <1>2 DEF Matches
<1>5. client \in Clients(FALSE) /\ client.phase \notin {"stopped", "closing"}
  BY Reading DEF TypeOK, Told
<1>6. Announces' /\ Unfinished'
  BY <1>1, <1>5 DEF Announces, Unfinished, state
<1>7. Told'
  BY <1>1, <1>5 DEF Told, TypeOK
<1> QED
  BY <1>3, <1>4, <1>6, <1>7 DEF Sync, InStep

-----------------------------------------------------------------------------
(* Where each handler's events take the message *)

\* A message of an orderly upstream has no more blocks than MaxItems.
LEMMA IndexBound ==
  ASSUME TypeOK, Shape, Orderly
  PROVE  /\ Blocks \in Nat /\ block_index <= Blocks /\ Blocks <= item
         /\ block_index <= MaxItems /\ Blocks <= MaxItems
         /\ ~(thinking_block_started /\ block_started) /\ tool.name # "Read" /\ buffered = {}
<1>1. block_index \in Nat /\ item \in Nat /\ MaxItems \in Nat /\ item <= MaxItems
  BY UpFields DEF TypeOK, Held
<1>2. Blocks <= item /\ ~(thinking_block_started /\ block_started) /\ tool.name # "Read"
      /\ buffered = {}
  BY DEF Shape
<1>3. Blocks \in Nat /\ block_index <= Blocks
  BY <1>1 DEF Blocks
<1> QED
  BY <1>1, <1>2, <1>3

\* The end of a thinking block, if there is one.
LEMMA ThinkingTakes ==
  ASSUME NEW i \in Nat, NEW j, NEW o, NEW k, NEW p,
         Orderly => IF thinking_block_started
                    THEN o # "none" /\ p = "none" /\ j = i /\ k = i + 1 /\ i <= MaxItems
                    ELSE j = k /\ o = p
  PROVE  Takes(CloseThinking(i), j, o, k, p)
<1>1. CASE thinking_block_started
  <2>1. Takes(<<A!BlockStop(i)>>, j, o, k, p)
    BY <1>1, TakesStop
  <2> QED
    BY <1>1, <2>1 DEF CloseThinking
<1>2. CASE ~thinking_block_started
  <2>1. Takes(<< >>, j, o, k, p)
    BY <1>2, TakesNothing
  <2> QED
    BY <1>2, <2>1 DEF CloseThinking
<1> QED
  BY <1>1, <1>2

\* The end of a text or tool block, if there is one.
LEMMA BlockTakes ==
  ASSUME NEW i \in Nat, NEW j, NEW o, NEW k, NEW p,
         Orderly => IF block_started
                    THEN o # "none" /\ p = "none" /\ j = i /\ k = i + 1 /\ i <= MaxItems
                    ELSE j = k /\ o = p
  PROVE  Takes(CloseBlock(i), j, o, k, p)
<1>1. CASE block_started
  <2>1. Takes(<<A!BlockStop(i)>>, j, o, k, p)
    BY <1>1, TakesStop
  <2> QED
    BY <1>1, <2>1 DEF CloseBlock
<1>2. CASE ~block_started
  <2>1. Takes(<< >>, j, o, k, p)
    BY <1>2, TakesNothing
  <2> QED
    BY <1>2, <2>1 DEF CloseBlock
<1> QED
  BY <1>1, <1>2

\* The end of the pending call, if there is one: an orderly upstream does not call Read,
\* so no arguments were held back.
LEMMA FinalizedTakes ==
  ASSUME NEW i \in Nat, NEW started \in BOOLEAN, NEW j, NEW o, NEW k, NEW p,
         Orderly => tool.name # "Read",
         Orderly => IF tool # NoTool /\ started
                    THEN o # "none" /\ p = "none" /\ j = i /\ k = i + 1 /\ i <= MaxItems
                    ELSE j = k /\ o = p
  PROVE  Takes(Finalized(i, started), j, o, k, p)
<1>1. CASE tool = NoTool
  <2>1. Takes(<< >>, j, o, k, p)
    BY <1>1, TakesNothing
  <2> QED
    BY <1>1, <2>1 DEF Finalized
<1>2. CASE tool # NoTool
  <2> DEFINE held == IF HeldBack THEN <<A!BlockDelta(i, "tool_use")>> ELSE << >>
             stop == IF started THEN <<A!BlockStop(i)>> ELSE << >>
  <2>1. Takes(held, j, o, j, o)
    <3>1. CASE HeldBack
      <4>1. ~Orderly
        BY <3>1 DEF HeldBack
      <4>2. Takes(<<A!BlockDelta(i, "tool_use")>>, j, o, j, o)
        BY <4>1, BlocksTyped, TakesDelta
      <4> QED
        BY <3>1, <4>2
    <3>2. CASE ~HeldBack
      BY <3>2, TakesNothing
    <3> QED
      BY <3>1, <3>2
  <2>2. Takes(stop, j, o, k, p)
    <3>1. CASE started
      <4>1. Takes(<<A!BlockStop(i)>>, j, o, k, p)
        BY <1>2, <3>1, TakesStop
      <4> QED
        BY <3>1, <4>1
    <3>2. CASE ~started
      BY <3>2, TakesNothing
    <3> QED
      BY <3>1, <3>2
  <2>3. Finalized(i, started) = held \o stop
    BY <1>2 DEF Finalized
  <2> HIDE DEF held, stop
  <2> QED
    BY <2>1, <2>2, <2>3, TakesThen
<1> QED
  BY <1>1, <1>2

\* A list with an event at its end is not empty.
LEMMA EndsInEvent ==
  ASSUME NEW es \in Seq(Body), NEW e \in Body
  PROVE  es \o <<e>> # << >>
<1> HIDE DEF Body
<1> QED
  OBVIOUS

\* reasoning_content, shown: it ends another block and goes on in, or opens, its own.
LEMMA ReasoningSync ==
  ASSUME TypeOK, Sync, Announces, Shape, ReadingLine, up'.server = up.server, client' = client,
         LET i == AfterBlock(block_index) IN
            /\ Emit(CloseBlock(block_index)
                    \o (IF thinking_block_started THEN << >>
                        ELSE <<A!BlockStart(i, "thinking")>>)
                    \o <<A!BlockDelta(i, "thinking")>>)
            /\ block_index' = i,
         thinking_block_started' = TRUE,
         Orderly => AfterBlock(block_index) <= MaxItems
  PROVE  InStep'
<1> DEFINE i == AfterBlock(block_index)
           p == IF thinking_block_started THEN "thinking" ELSE "none"
           start == IF thinking_block_started THEN << >> ELSE <<A!BlockStart(i, "thinking")>>
           delta == <<A!BlockDelta(i, "thinking")>>
<1>1. block_index \in Nat /\ block_started \in BOOLEAN /\ i \in Nat
  BY DEF TypeOK, Held, AfterBlock
<1>2. Takes(CloseBlock(block_index), block_index, OpenBlock, i, p)
  <2>1. Orderly => IF block_started
                   THEN /\ OpenBlock # "none" /\ p = "none" /\ i = block_index + 1
                        /\ block_index <= MaxItems
                   ELSE block_index = i /\ OpenBlock = p
    BY <1>1, IndexBound DEF OpenBlock, AfterBlock
  <2> HIDE DEF i, p
  <2> QED
    BY <1>1, <2>1, BlockTakes
<1>3. Takes(start, i, p, i, "thinking")
  <2>1. CASE thinking_block_started
    BY <2>1, TakesNothing
  <2>2. CASE ~thinking_block_started
    <3>1. p = "none" /\ (Orderly => i <= MaxItems)
      BY <2>2
    <3> HIDE DEF i, p
    <3>2. Takes(<<A!BlockStart(i, "thinking")>>, i, p, i, "thinking")
      BY <1>1, <3>1, BlocksTyped, TakesStart
    <3> QED
      BY <2>2, <3>2
  <2> QED
    BY <2>1, <2>2
<1>4. Takes(delta, i, "thinking", i, "thinking")
  <2>1. Orderly => i <= MaxItems
    OBVIOUS
  <2> HIDE DEF i
  <2> QED
    BY <1>1, <2>1, BlocksTyped, TakesDelta
<1>5. Emit(CloseBlock(block_index) \o start \o delta) /\ block_index' = i
  OBVIOUS
<1>6. OpenBlock' = "thinking"
  BY DEF OpenBlock
<1>7. CloseBlock(block_index) \o start \o delta # << >>
  <2>1. CloseBlock(block_index) \o start \in Seq(Body)
    BY <1>2, <1>3, TakesThen DEF Takes
  <2>2. A!BlockDelta(i, "thinking") \in Body
    BY <1>1, BodyTyped, BlocksTyped
  <2> QED
    BY <2>1, <2>2, EndsInEvent
<1> HIDE DEF i, p, start, delta
<1>8. Takes(CloseBlock(block_index) \o start \o delta, block_index, OpenBlock, i, "thinking")
  BY <1>2, <1>3, <1>4, TakesThen
<1> QED
  BY <1>5, <1>6, <1>7, <1>8, EmittedSync

\* A content delta ends the pending call, whose block may be open, first.
LEMMA ContentFinalizes ==
  ASSUME TypeOK, Shape
  PROVE  LET started == block_started /\ tool = NoTool
             i == IF block_started /\ ~started THEN block_index + 1 ELSE block_index
             p == IF thinking_block_started THEN "thinking"
                  ELSE IF started THEN "text" ELSE "none"
         IN /\ started \in BOOLEAN /\ i \in Nat
            /\ Orderly => i <= Blocks /\ (~started => AfterThinking(i) = Blocks)
            /\ Takes(Finalized(block_index, block_started), block_index, OpenBlock, i, p)
<1> DEFINE started == block_started /\ tool = NoTool
           i == IF block_started /\ ~started THEN block_index + 1 ELSE block_index
           p == IF thinking_block_started THEN "thinking" ELSE IF started THEN "text" ELSE "none"
<1>1. block_index \in Nat /\ block_started \in BOOLEAN /\ thinking_block_started \in BOOLEAN
  BY DEF TypeOK, Held
<1>2. started \in BOOLEAN /\ i \in Nat
  BY <1>1
<1>3. Orderly => i <= Blocks /\ (~started => AfterThinking(i) = Blocks)
  BY <1>1, IndexBound DEF Blocks, OpenBlock, AfterThinking
<1>4. Orderly => tool.name # "Read"
  BY IndexBound
<1>5. Orderly => IF tool # NoTool /\ block_started
                 THEN /\ OpenBlock # "none" /\ p = "none" /\ i = block_index + 1
                      /\ block_index <= MaxItems
                 ELSE block_index = i /\ OpenBlock = p
  BY <1>1, IndexBound DEF OpenBlock
<1>6. Takes(Finalized(block_index, block_started), block_index, OpenBlock, i, p)
  <2> HIDE DEF i, p
  <2> QED
    BY <1>1, <1>4, <1>5, FinalizedTakes
<1> QED
  BY <1>2, <1>3, <1>6

\* A content delta is held back ...
LEMMA HeldSync ==
  ASSUME TypeOK, Sync, Announces, Shape, ReadingLine, up'.server = up.server, client' = client,
         LET started == block_started /\ tool = NoTool IN
            /\ Emit(Finalized(block_index, block_started))
            /\ block_index' = (IF block_started /\ ~started THEN block_index + 1
                               ELSE block_index)
            /\ block_started' = started,
         tool' = NoTool, thinking_block_started' = thinking_block_started
  PROVE  InStep'
<1> DEFINE started == block_started /\ tool = NoTool
           i == IF block_started /\ ~started THEN block_index + 1 ELSE block_index
           p == IF thinking_block_started THEN "thinking" ELSE IF started THEN "text" ELSE "none"
<1>1. Takes(Finalized(block_index, block_started), block_index, OpenBlock, i, p)
  BY ContentFinalizes
<1>2. OpenBlock' = p /\ block_index' = i
  BY DEF OpenBlock
<1>3. block_started' \/ thinking_block_started' => block_started \/ thinking_block_started
  OBVIOUS
<1> HIDE DEF i, p, started
<1> QED
  BY <1>1, <1>2, <1>3, EmittedSync

\* Events that need not be legal take a message anywhere.
LEMMA FlushTakes ==
  ASSUME ~Orderly, NEW parses \in BOOLEAN, NEW i \in Nat, NEW j, NEW o, NEW k, NEW p
  PROVE  /\ Takes(FlushEvents(parses, i), j, o, k, p)
         /\ FlushEvents(parses, i) # << >>
<1>1. /\ Takes(<<A!BlockStart(i, "tool_use")>>, j, o, k, p)
      /\ Takes(<<A!BlockStart(i, "text")>>, j, o, k, p)
  BY BlocksTyped, TakesStart
<1>2. /\ Takes(<<A!BlockStop(i)>>, k, p, k, p)
      /\ Takes(<<A!BlockDelta(i, "text")>>, k, p, k, p)
  BY BlocksTyped, TakesStop, TakesDelta
<1>3. /\ A!BlockStart(i, "tool_use") \in Body /\ A!BlockStart(i, "text") \in Body
      /\ A!BlockStop(i) \in Body /\ A!BlockDelta(i, "text") \in Body
  BY BodyTyped, BlocksTyped
<1>4. CASE parses
  <2>1. FlushEvents(parses, i) = <<A!BlockStart(i, "tool_use")>> \o <<A!BlockStop(i)>>
    BY <1>3, <1>4, TwoEvents DEF FlushEvents
  <2> QED
    BY <1>1, <1>2, <1>4, <2>1, TakesThen DEF FlushEvents
<1>5. CASE ~parses
  <2>1. FlushEvents(parses, i) = <<A!BlockStart(i, "text")>> \o <<A!BlockDelta(i, "text")>>
    BY <1>3, <1>5, TwoEvents DEF FlushEvents
  <2> QED
    BY <1>1, <1>2, <1>5, <2>1, TakesThen DEF FlushEvents
<1> QED
  BY <1>4, <1>5

\* ... or flushed, with what was, ...
LEMMA FlushedSync ==
  ASSUME TypeOK, Sync, Announces, Shape, ReadingLine, up'.server = up.server, client' = client,
         ~Orderly, NEW parses \in BOOLEAN, NEW es, NEW i \in Nat, NEW j, NEW p,
         Takes(es, block_index, OpenBlock, j, p),
         Emit(es \o FlushEvents(parses, i))
  PROVE  InStep'
<1>1. /\ Takes(FlushEvents(parses, i), j, p, block_index', OpenBlock')
      /\ FlushEvents(parses, i) # << >>
  BY FlushTakes
<1>2. Takes(es \o FlushEvents(parses, i), block_index, OpenBlock, block_index', OpenBlock')
  BY <1>1, TakesThen
<1>3. es \in Seq(Body) /\ FlushEvents(parses, i) \in Seq(Body)
  BY <1>1 DEF Takes
<1> HIDE DEF Body
<1>4. es \o FlushEvents(parses, i) # << >>
  BY <1>1, <1>3, ConcatEmptySeq
<1> QED
  BY <1>2, <1>4, EmittedSync

\* ... or sent, in a text block that it opens if there is none.
LEMMA SentSync ==
  ASSUME TypeOK, Sync, Announces, Shape, ReadingLine, up'.server = up.server, client' = client,
         LET started == block_started /\ tool = NoTool
             i == IF block_started /\ ~started THEN block_index + 1 ELSE block_index
             j == AfterThinking(i)
         IN /\ Emit(Finalized(block_index, block_started)
                    \o CloseThinking(i)
                    \o (IF started THEN << >> ELSE <<A!BlockStart(j, "text")>>)
                    \o <<A!BlockDelta(j, "text")>>)
            /\ block_index' = j,
         tool' = NoTool, block_started' = TRUE, thinking_block_started' = FALSE
  PROVE  InStep'
<1> DEFINE started == block_started /\ tool = NoTool
           i == IF block_started /\ ~started THEN block_index + 1 ELSE block_index
           j == AfterThinking(i)
           p == IF thinking_block_started THEN "thinking" ELSE IF started THEN "text" ELSE "none"
           q == IF started THEN "text" ELSE "none"
           start == IF started THEN << >> ELSE <<A!BlockStart(j, "text")>>
           delta == <<A!BlockDelta(j, "text")>>
           before == Finalized(block_index, block_started)
<1>1. /\ started \in BOOLEAN /\ i \in Nat
      /\ Orderly => i <= Blocks /\ (~started => j = Blocks)
      /\ Takes(before, block_index, OpenBlock, i, p)
  BY ContentFinalizes
<1>2. /\ block_index \in Nat /\ thinking_block_started \in BOOLEAN /\ MaxItems \in Nat
      /\ item \in Nat
  BY UpFields DEF TypeOK, Held
<1>3. j \in Nat
  BY <1>1, <1>2 DEF AfterThinking
<1>4. Orderly => /\ i <= MaxItems /\ j <= MaxItems
                 /\ (thinking_block_started => ~started)
                 /\ IF thinking_block_started THEN j = i + 1 ELSE j = i
  <2> SUFFICES ASSUME Orderly
               PROVE  /\ i <= MaxItems /\ j <= MaxItems
                      /\ (thinking_block_started => ~started)
                      /\ IF thinking_block_started THEN j = i + 1 ELSE j = i
    OBVIOUS
  <2>1. /\ Blocks \in Nat /\ Blocks <= MaxItems
        /\ ~(thinking_block_started /\ block_started)
    BY IndexBound
  <2>2. thinking_block_started => ~started
    BY <2>1
  <2>3. IF thinking_block_started THEN j = i + 1 ELSE j = i
    BY DEF AfterThinking
  <2>4. i <= MaxItems /\ j <= MaxItems
    <3> HIDE DEF i, j, started
    <3> QED
      BY <1>1, <1>2, <1>3, <2>1, <2>2, <2>3
  <2> QED
    BY <2>2, <2>3, <2>4
<1>5. Takes(CloseThinking(i), i, p, j, q)
  <2>1. Orderly => IF thinking_block_started
                   THEN p # "none" /\ q = "none" /\ j = i + 1 /\ i <= MaxItems
                   ELSE i = j /\ p = q
    <3> HIDE DEF i, j, started
    <3> QED
      BY <1>4
  <2> HIDE DEF i, p, j, q
  <2> QED
    BY <1>1, <2>1, ThinkingTakes
<1>6. Takes(start, j, q, j, "text")
  <2>1. CASE started
    BY <2>1, TakesNothing
  <2>2. CASE ~started
    <3>1. q = "none" /\ (Orderly => j <= MaxItems)
      BY <1>4, <2>2
    <3> HIDE DEF j, q
    <3>2. Takes(<<A!BlockStart(j, "text")>>, j, q, j, "text")
      BY <1>3, <3>1, BlocksTyped, TakesStart
    <3> QED
      BY <2>2, <3>2
  <2> QED
    BY <2>1, <2>2
<1>7. Takes(delta, j, "text", j, "text")
  <2> HIDE DEF j
  <2> QED
    BY <1>3, <1>4, BlocksTyped, TakesDelta
<1>8. Emit(before \o CloseThinking(i) \o start \o delta) /\ block_index' = j
  OBVIOUS
<1>9. OpenBlock' = "text"
  BY DEF OpenBlock, NoTool
<1>10. A!BlockDelta(j, "text") \in Body
  BY <1>3, BodyTyped, BlocksTyped
<1> HIDE DEF started, i, j, p, q, start, before
<1>11. Takes(before \o CloseThinking(i) \o start, block_index, OpenBlock, j, "text")
  BY <1>1, <1>5, <1>6, TakesThen
<1>12. before \o CloseThinking(i) \o start \o delta # << >>
  BY <1>10, <1>11, EndsInEvent DEF Takes
<1>13. Takes(before \o CloseThinking(i) \o start \o delta, block_index, OpenBlock, j, "text")
  BY <1>7, <1>11, TakesThen
<1> HIDE DEF delta
<1> QED
  BY <1>8, <1>9, <1>12, <1>13, EmittedSync

\* A new call ends every block that is open, and opens its own.
LEMMA CallSync ==
  ASSUME TypeOK, Sync, Announces, Shape, ReadingLine, up'.server = up.server, client' = client,
         LET i == AfterThinking(block_index)
             j == AfterBlock(i)
         IN /\ Emit(CloseThinking(block_index) \o CloseBlock(i) \o Finalized(j, FALSE)
                    \o <<A!BlockStart(j, "tool_use")>>)
            /\ block_index' = j,
         tool' # NoTool, block_started' = TRUE, thinking_block_started' = FALSE
  PROVE  InStep'
<1> DEFINE i == AfterThinking(block_index)
           j == AfterBlock(i)
           p == IF thinking_block_started THEN "none" ELSE OpenBlock
           final == Finalized(j, FALSE)
           start == <<A!BlockStart(j, "tool_use")>>
<1>1. /\ block_index \in Nat /\ block_started \in BOOLEAN
      /\ thinking_block_started \in BOOLEAN /\ i \in Nat /\ j \in Nat
  BY DEF TypeOK, Held, AfterThinking, AfterBlock
<1>2. Orderly => /\ block_index <= MaxItems /\ i <= MaxItems /\ j <= MaxItems
                 /\ ~(thinking_block_started /\ block_started)
                 /\ tool.name # "Read"
  <2> SUFFICES ASSUME Orderly
               PROVE  i <= MaxItems /\ j <= MaxItems
    BY IndexBound
  <2>1. /\ Blocks \in Nat /\ Blocks <= MaxItems /\ block_index <= Blocks /\ MaxItems \in Nat
        /\ ~(thinking_block_started /\ block_started)
    BY IndexBound, UpFields
  <2>2. i <= Blocks /\ j <= Blocks
    BY <1>1, <2>1 DEF Blocks, OpenBlock, AfterThinking, AfterBlock
  <2> HIDE DEF i, j
  <2> QED
    BY <1>1, <2>1, <2>2
<1>3. Takes(CloseThinking(block_index), block_index, OpenBlock, i, p)
  <2>1. Orderly => IF thinking_block_started
                   THEN /\ OpenBlock # "none" /\ p = "none" /\ i = block_index + 1
                        /\ block_index <= MaxItems
                   ELSE block_index = i /\ OpenBlock = p
    BY <1>1, <1>2 DEF OpenBlock, AfterThinking
  <2> HIDE DEF i, p
  <2> QED
    BY <1>1, <2>1, ThinkingTakes
<1>4. Takes(CloseBlock(i), i, p, j, "none")
  <2>1. Orderly => IF block_started
                   THEN p # "none" /\ j = i + 1 /\ i <= MaxItems
                   ELSE i = j /\ p = "none"
    BY <1>1, <1>2 DEF OpenBlock, AfterBlock
  <2> HIDE DEF i, j, p
  <2> QED
    BY <1>1, <2>1, BlockTakes
<1>5. Takes(final, j, "none", j, "none")
  <2> HIDE DEF j
  <2> QED
    BY <1>1, <1>2, FinalizedTakes
<1>6. Takes(start, j, "none", j, "tool_use")
  <2> HIDE DEF j
  <2> QED
    BY <1>1, <1>2, BlocksTyped, TakesStart
<1>7. Emit(CloseThinking(block_index) \o CloseBlock(i) \o final \o start) /\ block_index' = j
  OBVIOUS
<1>8. OpenBlock' = "tool_use"
  BY DEF OpenBlock, NoTool
<1>9. A!BlockStart(j, "tool_use") \in Body
  BY <1>1, BodyTyped, BlocksTyped
<1> HIDE DEF i, j, p, final
<1>10. Takes(CloseThinking(block_index) \o CloseBlock(i) \o final, block_index, OpenBlock,
             j, "none")
  BY <1>3, <1>4, <1>5, TakesThen
<1>11. CloseThinking(block_index) \o CloseBlock(i) \o final \o start # << >>
  BY <1>9, <1>10, EndsInEvent DEF Takes
<1>12. Takes(CloseThinking(block_index) \o CloseBlock(i) \o final \o start, block_index,
             OpenBlock, j, "tool_use")
  BY <1>6, <1>10, TakesThen
<1> HIDE DEF start
<1> QED
  BY <1>7, <1>8, <1>11, <1>12, EmittedSync

\* A delta of the call's arguments.
LEMMA ArgumentsSync ==
  ASSUME TypeOK, Sync, Announces, Shape, ReadingLine, up'.server = up.server, client' = client,
         Emit(<<A!BlockDelta(block_index, "tool_use")>>),
         UNCHANGED <<block_index, block_started, thinking_block_started, tool>>,
         Orderly => OpenBlock = "tool_use"
  PROVE  InStep'
<1>1. block_index \in Nat
  BY DEF TypeOK, Held
<1>2. OpenBlock' = OpenBlock
  BY DEF OpenBlock
<1>3. Takes(<<A!BlockDelta(block_index, "tool_use")>>, block_index, OpenBlock, block_index,
            OpenBlock)
  BY <1>1, IndexBound, BlocksTyped, TakesDelta
<1> QED
  BY <1>2, <1>3, EmittedSync

\* finalize_tool_call.
LEMMA FinalizeToolSync ==
  ASSUME TypeOK, Sync, Announces, Shape, ReadingLine, up'.server = up.server, client' = client,
         FinalizeToolCall
  PROVE  InStep'
<1>1. /\ Emit(Finalized(block_index, block_started)) /\ tool' = NoTool
      /\ block_index' = (IF tool # NoTool /\ block_started THEN block_index + 1
                         ELSE block_index)
      /\ block_started' = (block_started /\ tool = NoTool)
      /\ thinking_block_started' = thinking_block_started
  BY DEF FinalizeToolCall
<1>2. LET started == block_started /\ tool = NoTool IN
         /\ Emit(Finalized(block_index, block_started))
         /\ block_index' = (IF block_started /\ ~started THEN block_index + 1
                            ELSE block_index)
         /\ block_started' = started
  BY <1>1
<1> QED
  BY <1>1, <1>2, HeldSync

\* flush_buffered_text_or_tool, where the response ends.
LEMMA FlushBufferedSync ==
  ASSUME TypeOK, Sync, Announces, Shape, ReadingLine, up'.server = up.server, client' = client,
         FlushBuffered, buffered # {}
  PROVE  InStep'
<1>1. Emit(FlushEvents(FALSE, block_index))
  BY DEF FlushBuffered
<1>2. block_index \in Nat
  BY DEF TypeOK, Held
<1>3. ~Orderly
  BY IndexBound
<1>4. PICK parses \in BOOLEAN : parses = FALSE
  OBVIOUS
<1>5. /\ Takes(FlushEvents(parses, block_index), block_index, OpenBlock, block_index', OpenBlock')
      /\ FlushEvents(parses, block_index) # << >>
  BY <1>2, <1>3, FlushTakes
<1> QED
  BY <1>1, <1>4, <1>5, EmittedSync

-----------------------------------------------------------------------------
(* The end of the stream *)

\* Where more events take a message, they go on with a list of the same kind ...
LEMMA TakenSeq ==
  ASSUME NEW hs \in Seq(AnyEvent), hs \in Seq(Opening), NEW es, NEW i, NEW o, NEW j, NEW p,
         Takes(es, i, o, j, p)
  PROVE  hs \o es \in Seq(AnyEvent) /\ hs \o es \in Seq(Opening)
<1>1. es \in Seq(AnyEvent) /\ es \in Seq(Opening)
  BY BodySeq DEF Takes
<1> HIDE DEF Opening
<1> QED
  BY <1>1, ConcatProperties

\* ... or an error.
LEMMA PathFails ==
  ASSUME NEW hs \in Seq(AnyEvent), NEW c, NEW b \in Clients(FALSE),
         Path(c, hs, b, Orderly, FALSE), b.phase # "stopped"
  PROVE  /\ hs \o <<A!Error>> \in Seq(AnyEvent)
         /\ hs \in Seq(Opening) => hs \o <<A!Error>> \in Seq(Opening)
         /\ \E d \in Clients(FALSE) :
              Path(c, hs \o <<A!Error>>, d, Orderly, FALSE) /\ d.phase = "failed"
<1> DEFINE e == A!Error
<1>1. e \in AnyEvent /\ e \in Opening
  BY EventsTyped DEF Opening
<1>2. <<e>> \in Seq(AnyEvent) /\ <<e>> \in Seq(Opening)
  BY <1>1
<1>3. PICK told \in BOOLEAN : told = FALSE
  OBVIOUS
<1>4. b \in Clients(told)
  BY <1>3
<1>5. PICK d \in Clients(told) : Path(b, <<e>>, d, Orderly, told) /\ d.phase = "failed"
  BY <1>4, OrderlyTyped, ErrorLeads
<1>6. d \in Clients(FALSE) /\ Path(b, <<e>>, d, Orderly, FALSE)
  BY <1>3, <1>5
<1> HIDE DEF e
<1>7. Path(c, hs \o <<e>>, d, Orderly, FALSE)
  BY <1>2, <1>6, OrderlyTyped, PathThen
<1>8. /\ hs \o <<e>> \in Seq(AnyEvent)
      /\ hs \in Seq(Opening) => hs \o <<e>> \in Seq(Opening)
  BY <1>2, ConcatProperties
<1> QED
  BY <1>5, <1>6, <1>7, <1>8 DEF e

\* What is held back when the connection breaks opens the message if nothing has.
LEMMA FlushedLeads ==
  ASSUME TypeOK, Sync, Shape, ReadingLine
  PROVE  /\ Flushed \in Seq(AnyEvent) /\ Flushed \in Seq(Opening)
         /\ \E b \in Clients(FALSE) :
              /\ Path(client, Flushed, b, Orderly, FALSE)
              /\ IF message_started \/ buffered # {} THEN At(b, block_index, OpenBlock)
                                                    ELSE b.phase = "before"
<1>1. /\ client \in Clients(FALSE)
      /\ client.phase = IF message_started THEN "content" ELSE "before"
      /\ Orderly => client.next = block_index /\ client.open = OpenBlock
  BY Reading
<1>2. CASE buffered = {}
  <2>1. Flushed = << >> /\ Path(client, << >>, client, Orderly, FALSE)
    BY <1>1, <1>2, OrderlyTyped, PathNone DEF Flushed
  <2>2. << >> \in Seq(AnyEvent) /\ << >> \in Seq(Opening)
    OBVIOUS
  <2>3. IF message_started \/ buffered # {} THEN At(client, block_index, OpenBlock)
                                            ELSE client.phase = "before"
    BY <1>1, <1>2 DEF At
  <2> HIDE DEF Opening
  <2> QED
    BY <1>1, <2>1, <2>2, <2>3
<1>3. CASE buffered # {}
  <2> DEFINE fs == FlushEvents(FALSE, block_index)
  <2>1. ~Orderly /\ block_index \in Nat /\ message_started \in BOOLEAN
    BY <1>3, IndexBound DEF TypeOK, Held, Told
  <2>2. PICK parses \in BOOLEAN : parses = FALSE
    OBVIOUS
  <2>3. /\ Takes(FlushEvents(parses, block_index), block_index, OpenBlock, block_index, OpenBlock)
        /\ FlushEvents(parses, block_index) # << >>
    BY <2>1, FlushTakes
  <2>4. Takes(fs, block_index, OpenBlock, block_index, OpenBlock) /\ fs # << >>
    BY <2>2, <2>3
  <2>5. Flushed = IF message_started THEN fs ELSE <<A!MessageStart>> \o fs
    BY <1>3, <2>4 DEF Flushed, Announced
  <2> HIDE DEF fs
  <2>6. fs \in Seq(AnyEvent) /\ fs \in Seq(Opening)
    BY <2>4, BodySeq DEF Takes
  <2>7. CASE message_started
    <3>1. At(client, block_index, OpenBlock)
      BY <1>1, <2>7 DEF At
    <3>2. PICK d \in Clients(FALSE) :
             Path(client, fs, d, Orderly, FALSE) /\ At(d, block_index, OpenBlock)
      BY <1>1, <2>4, <3>1 DEF Takes
    <3> QED
      BY <2>5, <2>6, <2>7, <3>2
  <2>8. CASE ~message_started
    <3> DEFINE m == A!MessageStart
               b == A!After(client, m)
    <3>1. PICK told \in BOOLEAN : told = FALSE
      OBVIOUS
    <3>2. client \in Clients(told)
      BY <1>1, <3>1
    <3>3. b \in Clients(told) /\ b.phase = "content"
      BY <3>2, AfterMessageStart
    <3>4. m \in AnyEvent /\ m \in Opening
      BY EventsTyped DEF Opening
    <3> HIDE DEF m
    <3>5. <<m>> \in Seq(AnyEvent) /\ <<m>> \in Seq(Opening)
      BY <3>4
    <3>6. Path(client, <<m>>, b, Orderly, told)
      BY <2>1, <3>2, <3>3, OrderlyTyped, PathOne
    <3> HIDE DEF b
    <3>7. /\ b \in Clients(FALSE) /\ Path(client, <<m>>, b, Orderly, FALSE)
          /\ At(b, block_index, OpenBlock)
      BY <2>1, <3>1, <3>3, <3>6 DEF At
    <3>8. <<m>> \o fs \in Seq(AnyEvent) /\ <<m>> \o fs \in Seq(Opening)
      BY <2>4, <3>5, TakenSeq
    <3>9. PICK d \in Clients(FALSE) :
            Path(b, fs, d, Orderly, FALSE) /\ At(d, block_index, OpenBlock)
      BY <2>4, <3>7 DEF Takes
    <3>10. Path(client, <<m>> \o fs, d, Orderly, FALSE)
      BY <2>6, <3>5, <3>7, <3>9, OrderlyTyped, PathThen
    <3> QED
      BY <1>3, <2>5, <2>8, <3>8, <3>9, <3>10 DEF m
  <2> QED
    BY <2>7, <2>8
<1> QED
  BY <1>2, <1>3

\* The connection breaks.
LEMMA CutSync ==
  ASSUME TypeOK, Sync, Announces, Shape, Cut
  PROVE  InStep'
<1> DEFINE i == AfterThinking(block_index)
           p == IF thinking_block_started THEN "none" ELSE OpenBlock
           stop == IF block_started \/ buffered # {} THEN <<A!BlockStop(i)>> ELSE << >>
           k == IF block_started \/ buffered # {} THEN i + 1 ELSE i
           es == Flushed \o CloseThinking(block_index) \o stop \o <<A!Error>>
<1>1. ReadingLine /\ UNCHANGED <<up, state, client>> /\ EmitLast(es)
  BY DEF Cut
<1>2. /\ block_index \in Nat /\ block_started \in BOOLEAN
      /\ thinking_block_started \in BOOLEAN /\ i \in Nat /\ message_started \in BOOLEAN
  BY DEF TypeOK, Held, AfterThinking, Told
<1>3. /\ Flushed \in Seq(AnyEvent) /\ Flushed \in Seq(Opening)
      /\ \E b \in Clients(FALSE) :
           /\ Path(client, Flushed, b, Orderly, FALSE)
           /\ IF message_started \/ buffered # {} THEN At(b, block_index, OpenBlock)
                                                 ELSE b.phase = "before"
  BY <1>1, FlushedLeads
<1>4. PICK b \in Clients(FALSE) :
           /\ Path(client, Flushed, b, Orderly, FALSE)
           /\ IF message_started \/ buffered # {} THEN At(b, block_index, OpenBlock)
                                                 ELSE b.phase = "before"
  BY <1>3
<1>5. /\ es \in Seq(AnyEvent) /\ es \in Seq(Opening)
      /\ \E d \in Clients(FALSE) : Path(client, es, d, Orderly, FALSE) /\ d.phase = "failed"
  <2>1. CASE message_started \/ buffered # {}
    <3>1. Orderly => /\ block_index <= MaxItems /\ i <= MaxItems /\ buffered = {}
                     /\ ~(thinking_block_started /\ block_started)
      <4> SUFFICES ASSUME Orderly
                   PROVE  i <= MaxItems
        BY IndexBound
      <4>1. /\ Blocks \in Nat /\ Blocks <= MaxItems /\ block_index <= Blocks
            /\ MaxItems \in Nat
        BY IndexBound, UpFields
      <4>2. i <= Blocks
        BY <1>2, <4>1 DEF Blocks, OpenBlock, AfterThinking
      <4> HIDE DEF i
      <4> QED
        BY <1>2, <4>1, <4>2
    <3>2. Takes(CloseThinking(block_index), block_index, OpenBlock, i, p)
      <4>1. Orderly => IF thinking_block_started
                       THEN /\ OpenBlock # "none" /\ p = "none" /\ i = block_index + 1
                            /\ block_index <= MaxItems
                       ELSE block_index = i /\ OpenBlock = p
        BY <1>2, <3>1 DEF OpenBlock, AfterThinking
      <4> HIDE DEF i, p
      <4> QED
        BY <1>2, <4>1, ThinkingTakes
    <3>3. Takes(stop, i, p, k, "none")
      <4>1. Orderly => (block_started => p # "none") /\ (~block_started => p = "none")
        BY <1>2, <3>1 DEF OpenBlock
      <4>2. CASE block_started \/ buffered # {}
        <5>1. Orderly => p # "none" /\ k = i + 1 /\ i <= MaxItems
          BY <3>1, <4>1, <4>2
        <5> HIDE DEF i, p, k
        <5>2. Takes(<<A!BlockStop(i)>>, i, p, k, "none")
          BY <1>2, <5>1, TakesStop
        <5> QED
          BY <4>2, <5>2
      <4>3. CASE ~(block_started \/ buffered # {})
        <5>1. k = i /\ (Orderly => p = "none")
          BY <4>1, <4>3
        <5> HIDE DEF i, p, k
        <5>2. Takes(<< >>, i, p, k, "none")
          BY <5>1, TakesNothing
        <5> QED
          BY <4>3, <5>2
      <4> QED
        BY <4>2, <4>3
    <3> HIDE DEF i, p, k, stop, Opening
    <3>4. At(b, block_index, OpenBlock)
      BY <1>4, <2>1
    <3>6. /\ Flushed \o CloseThinking(block_index) \in Seq(AnyEvent)
          /\ Flushed \o CloseThinking(block_index) \in Seq(Opening)
      BY <1>3, <3>2, TakenSeq
    <3>7. PICK c \in Clients(FALSE) :
            Path(b, CloseThinking(block_index), c, Orderly, FALSE) /\ At(c, i, p)
      BY <3>2, <3>4 DEF Takes
    <3>8. /\ Flushed \o CloseThinking(block_index) \o stop \in Seq(AnyEvent)
          /\ Flushed \o CloseThinking(block_index) \o stop \in Seq(Opening)
      BY <3>3, <3>6, TakenSeq
    <3>9. PICK d \in Clients(FALSE) : Path(c, stop, d, Orderly, FALSE) /\ At(d, k, "none")
      BY <3>3, <3>7 DEF Takes
    <3>10. CloseThinking(block_index) \in Seq(AnyEvent) /\ stop \in Seq(AnyEvent)
      BY <3>2, <3>3, BodySeq DEF Takes
    <3>11. Path(client, Flushed \o CloseThinking(block_index), c, Orderly, FALSE)
      BY <1>3, <1>4, <3>7, <3>10, OrderlyTyped, PathThen
    <3>12. Path(client, Flushed \o CloseThinking(block_index) \o stop, d, Orderly, FALSE)
      BY <3>6, <3>9, <3>10, <3>11, OrderlyTyped, PathThen
    <3>13. d.phase # "stopped"
      BY <3>9 DEF At
    <3> QED
      BY <3>8, <3>12, <3>13, PathFails
  <2>2. CASE ~(message_started \/ buffered # {})
    <3>1. ~block_started /\ ~thinking_block_started
      BY <2>2 DEF Announces
    <3>2. CloseThinking(block_index) = << >> /\ stop = << >>
      BY <2>2, <3>1 DEF CloseThinking
    <3> HIDE DEF stop, Opening
    <3>3. es = Flushed \o <<A!Error>>
      BY <1>3, <3>2, ConcatEmptySeq
    <3>4. b.phase # "stopped"
      BY <1>4, <2>2
    <3> HIDE DEF es
    <3> QED
      BY <1>3, <1>4, <3>3, <3>4, PathFails
  <2> QED
    BY <2>1, <2>2
<1> HIDE DEF es
<1> QED
  BY <1>1, <1>5, LastSync

\* The message is finished, or an empty stream reported.
LEMMA FinalizeSync ==
  ASSUME TypeOK, Sync, Announces, Shape, Finalize
  PROVE  InStep'
<1>1. ReadingLine /\ UNCHANGED <<up, state, client>> /\ up.stage = "eof"
  BY DEF Finalize
<1>2. /\ block_index \in Nat /\ block_started \in BOOLEAN
      /\ thinking_block_started \in BOOLEAN /\ message_started \in BOOLEAN
  BY DEF TypeOK, Held, Told
<1>3. /\ client \in Clients(FALSE)
      /\ client.phase = IF message_started THEN "content" ELSE "before"
      /\ Orderly => client.next = block_index /\ client.open = OpenBlock
  BY <1>1, Reading
<1>4. CASE ~message_started
  <2>1. EmitLast(<<A!Error>>)
    BY <1>4 DEF Finalize
  <2>2. Path(client, << >>, client, Orderly, FALSE) /\ client.phase # "stopped"
    BY <1>3, <1>4, OrderlyTyped, PathNone
  <2>3. << >> \in Seq(AnyEvent)
    OBVIOUS
  <2>4. /\ << >> \o <<A!Error>> \in Seq(AnyEvent)
        /\ \E d \in Clients(FALSE) :
             Path(client, << >> \o <<A!Error>>, d, Orderly, FALSE) /\ d.phase = "failed"
    BY <1>3, <2>2, <2>3, PathFails
  <2>5. << >> \o <<A!Error>> = <<A!Error>>
    <3>1. <<A!Error>> \in Seq(AnyEvent)
      BY EventsTyped
    <3> QED
      BY <3>1, ConcatEmptySeq
  <2>6. <<A!Error>> \in Seq(AnyEvent)
    BY <2>4, <2>5
  <2> QED
    BY <1>1, <2>1, <2>4, <2>5, <2>6, LastSync
<1>5. CASE message_started
  <2> DEFINE i == AfterThinking(block_index)
             p == IF thinking_block_started THEN "none" ELSE OpenBlock
             k == AfterBlock(i)
             close == CloseThinking(block_index) \o CloseBlock(i)
             end == <<A!MessageDelta("end_turn"), A!MessageStop>>
  <2>1. EmitLast(close \o end)
    <3>1. EmitLast(IF ~message_started THEN <<A!Error>> ELSE close \o end)
      BY DEF Finalize
    <3> QED
      BY <1>5, <3>1
  <2>2. Orderly => /\ block_index <= MaxItems /\ i <= MaxItems
                   /\ ~(thinking_block_started /\ block_started)
    <3> SUFFICES ASSUME Orderly
                 PROVE  i <= MaxItems
      BY IndexBound
    <3>1. /\ Blocks \in Nat /\ Blocks <= MaxItems /\ block_index <= Blocks
          /\ MaxItems \in Nat
      BY IndexBound, UpFields
    <3>2. i <= Blocks /\ i \in Nat
      BY <1>2, <3>1 DEF Blocks, OpenBlock, AfterThinking
    <3> HIDE DEF i
    <3> QED
      BY <1>2, <3>1, <3>2
  <2>3. Takes(CloseThinking(block_index), block_index, OpenBlock, i, p)
    <3>1. Orderly => IF thinking_block_started
                     THEN /\ OpenBlock # "none" /\ p = "none" /\ i = block_index + 1
                          /\ block_index <= MaxItems
                     ELSE block_index = i /\ OpenBlock = p
      BY <1>2, <2>2 DEF OpenBlock, AfterThinking
    <3> HIDE DEF i, p
    <3> QED
      BY <1>2, <3>1, ThinkingTakes
  <2>4. Takes(CloseBlock(i), i, p, k, "none")
    <3>1. i \in Nat
      BY <1>2 DEF AfterThinking
    <3>2. Orderly => IF block_started
                     THEN p # "none" /\ k = i + 1 /\ i <= MaxItems
                     ELSE i = k /\ p = "none"
      BY <1>2, <2>2 DEF OpenBlock, AfterBlock
    <3> HIDE DEF i, p, k
    <3> QED
      BY <3>1, <3>2, BlockTakes
  <2>5. Takes(close, block_index, OpenBlock, k, "none")
    <3> HIDE DEF i, p, k
    <3> QED
      BY <2>3, <2>4, TakesThen
  <2>6. At(client, block_index, OpenBlock)
    BY <1>3, <1>5 DEF At
  <2> HIDE DEF i, p, k, close
  <2>7. PICK b \in Clients(FALSE) : Path(client, close, b, Orderly, FALSE) /\ At(b, k, "none")
    BY <1>3, <2>5, <2>6 DEF Takes
  <2>8. b.phase = "content" /\ (Orderly => b.open = "none")
    BY <2>7 DEF At
  <2>9. "end_turn" \in A!StopReasons
    BY DEF A!StopReasons
  <2>10. PICK told \in BOOLEAN : told = FALSE
    OBVIOUS
  <2>11. b \in Clients(told) /\ ~told
    BY <2>10
  <2>12. \E d \in Clients(told) : Path(b, end, d, Orderly, told) /\ d.phase = "stopped"
    BY <2>8, <2>9, <2>11, OrderlyTyped, EndLeads
  <2>13. PICK d \in Clients(FALSE) : Path(b, end, d, Orderly, FALSE) /\ d.phase = "stopped"
    BY <2>10, <2>12
  <2>14. end \in Seq(AnyEvent)
    BY <2>9, EventsTyped
  <2>15. close \in Seq(AnyEvent)
    BY <2>5, BodySeq DEF Takes
  <2> HIDE DEF end
  <2>16. Path(client, close \o end, d, Orderly, FALSE) /\ close \o end \in Seq(AnyEvent)
    BY <2>7, <2>13, <2>14, <2>15, OrderlyTyped, PathThen, ConcatProperties
  <2> QED
    BY <1>1, <2>1, <2>13, <2>16, LastSync
<1> QED
  BY <1>4, <1>5

-----------------------------------------------------------------------------
(* Steps that change neither the upstream nor the translator's state *)

\* Nothing but what waits and what the client has seen changes.
LEMMA StillKeeps ==
  ASSUME IInv, UNCHANGED <<up, state, shown>>, InStep'
  PROVE  IInv'
<1>1. /\ UNCHANGED <<block_index, block_started, thinking_block_started, tool, arguments,
                     buffered, shown, up>>
      /\ item' = item /\ BetweenItems' = BetweenItems
  BY DEF state, item, BetweenItems
<1>2. TypeOK'
  BY <1>1 DEF IInv, TypeOK, InStep, Held
<1>3. Shape'
  BY <1>1, SameServer DEF IInv, Shape, OpenBlock, Blocks
<1>4. UpstreamOK'
  BY <1>1 DEF IInv, UpstreamOK
<1>5. Once'
  BY <1>1, SameServer DEF IInv, Once, Settled, Pending, SentAs
<1>6. Somehow'
  BY <1>1 DEF IInv, Somehow, Settled, Pending, SentAtAll
<1> QED
  BY <1>2, <1>3, <1>4, <1>5, <1>6 DEF IInv, InStep

\* An error chunk ends the stream.
LEMMA ErrorChunkKeeps ==
  ASSUME IInv, ErrorChunk
  PROVE  IInv'
<1>1. TypeOK /\ Sync /\ Announces
  BY DEF IInv
<1>2. ReadingLine /\ UNCHANGED <<up, state, client, shown>> /\ Emit(<<A!Error>>)
  BY DEF ErrorChunk
<1>3. InStep'
  BY <1>1, <1>2, ErrorSync
<1> QED
  BY <1>2, <1>3, StillKeeps

\* The connection breaks.
LEMMA CutKeeps ==
  ASSUME IInv, Cut
  PROVE  IInv'
<1>1. InStep'
  BY CutSync DEF IInv
<1>2. UNCHANGED <<up, state, shown>>
  BY DEF Cut
<1> QED
  BY <1>1, <1>2, StillKeeps

\* The stream is finished.
LEMMA FinalizeKeeps ==
  ASSUME IInv, Finalize
  PROVE  IInv'
<1>1. InStep'
  BY FinalizeSync DEF IInv
<1>2. UNCHANGED <<up, state, shown>>
  BY DEF Finalize
<1> QED
  BY <1>1, <1>2, StillKeeps

\* None of the events before the end ends the message.
LEMMA OpeningLeads ==
  ASSUME NEW c \in Clients(FALSE), c.phase \notin {"closing", "stopped"}, NEW e \in Opening
  PROVE  A!After(c, e).phase \notin {"closing", "stopped"}
<1>1. PICK told \in BOOLEAN : told = FALSE
  OBVIOUS
<1>2. c \in Clients(told) /\ c.phase # "closing"
  BY <1>1
<1>3. CASE e = A!MessageStart
  BY <1>2, <1>3, AfterMessageStart
<1>4. CASE e = A!Error
  BY <1>2, <1>4, AfterError
<1>5. ASSUME NEW i \in Nat, NEW t \in A!BlockTypes, e = A!BlockStart(i, t)
      PROVE  A!After(c, e).phase \notin {"closing", "stopped"}
  <2> DEFINE d == A!After(c, A!BlockStart(i, t))
  <2>1. d.phase = c.phase
    BY <1>2, AfterBlockStart
  <2> QED
    BY <1>5, <2>1
<1>6. ASSUME NEW i \in Nat, NEW t \in A!BlockTypes, e = A!BlockDelta(i, t)
      PROVE  A!After(c, e).phase \notin {"closing", "stopped"}
  <2> DEFINE d == A!After(c, A!BlockDelta(i, t))
  <2>1. d.phase = c.phase
    BY <1>2, AfterBlockDelta
  <2> QED
    BY <1>6, <2>1
<1>7. ASSUME NEW i \in Nat, e = A!BlockStop(i)
      PROVE  A!After(c, e).phase \notin {"closing", "stopped"}
  <2> DEFINE d == A!After(c, A!BlockStop(i))
  <2>1. d.phase = c.phase
    BY <1>2, AfterBlockStop
  <2> QED
    BY <1>7, <2>1
<1> QED
  BY <1>3, <1>4, <1>5, <1>6, <1>7 DEF Opening, Body

\* An event is yielded: the client moves along its path, and what an orderly
\* upstream makes it see is legal.
LEMMA YieldKeeps ==
  ASSUME IInv, Yield
  PROVE  /\ IInv'
         /\ Orderly => A!Legal(client, out[1]) /\ out[1] \in A!Events
<1>1. TypeOK /\ Sync
  BY DEF IInv
<1>2. YieldEvent /\ UNCHANGED <<up, state>>
  BY DEF Yield
<1>3. /\ UNCHANGED <<message_started, ended, shown>> /\ up'.server = up.server
      /\ out # << >> /\ client' = A!After(client, out[1]) /\ out' = Tail(out)
  BY <1>2 DEF YieldEvent
<1>4. PICK d \in Clients(FALSE) : Path(client, out, d, Orderly, FALSE) /\ Matches(d)
  BY <1>1 DEF Sync
<1>5. /\ out \in Seq(AnyEvent) /\ message_started \in BOOLEAN /\ ended \in BOOLEAN
      /\ client \in Clients(FALSE)
  BY <1>1 DEF TypeOK, Told
<1>6. PICK told \in BOOLEAN : told = FALSE
  OBVIOUS
<1>7. Path(client, out, d, Orderly, told)
  BY <1>4, <1>6
<1>8. /\ Path(client', out', d, Orderly, told)
      /\ client' \in Clients(told) /\ out' \in Seq(AnyEvent)
      /\ Orderly => A!Legal(client, out[1]) /\ out[1] \in A!Events
  BY <1>2, <1>5, <1>7, OrderlyTyped, YieldLeads
<1>9. Sync'
  <2>1. Matches(d)'
    BY <1>2, <1>3, <1>4, SameServer DEF Matches, OpenBlock, state
  <2>2. Path(client', out', d, Orderly', FALSE)
    BY <1>3, <1>6, <1>8, SameServer
  <2> QED
    BY <2>1, <2>2 DEF Sync
<1>10. Told'
  BY <1>3, <1>5, <1>6, <1>8 DEF Told
<1>11. Announces'
  BY <1>2, <1>3 DEF IInv, Announces, state
<1>12. Unfinished'
  <2>1. CASE up.stage = "eof"
    BY <1>2, <2>1 DEF Unfinished
  <2>2. CASE up.stage # "eof"
    <3>1. client.phase \notin {"closing", "stopped"} /\ out \in Seq(Opening)
      BY <2>2 DEF IInv, Unfinished
    <3> HIDE DEF Opening
    <3>2. out[1] \in Opening /\ Tail(out) \in Seq(Opening)
      BY <1>3, <3>1
    <3>3. client'.phase \notin {"closing", "stopped"}
      BY <1>3, <1>5, <3>1, <3>2, OpeningLeads
    <3> QED
      BY <1>3, <3>2, <3>3 DEF Unfinished
  <2> QED
    BY <2>1, <2>2
<1>13. IInv'
  BY <1>2, <1>3, <1>9, <1>10, <1>11, <1>12, StillKeeps DEF InStep
<1> QED
  BY <1>8, <1>13

-----------------------------------------------------------------------------
(* What was sent *)

\* The arguments that are held back of a call that is over are sent when it is finalized.
LEMMA PendingHeld ==
  ASSUME TypeOK, UpstreamOK, NEW i \in Items, Settled(i), Pending(i)
  PROVE  HeldBack /\ Calls = {i}
<1>1. tool # NoTool /\ tool.name = "Read" /\ tool.item = i
  BY DEF Pending, NoTool
<1>2. arguments = "all"
  BY <1>1 DEF UpstreamOK, Settled
<1> QED
  BY <1>1, <1>2 DEF HeldBack, Calls

\* Finalizing sends the arguments of the pending call alone.
LEMMA CallsPending ==
  ASSUME TypeOK, UpstreamOK
  PROVE  /\ \A i \in Calls : Pending(i) /\ i \in 1..item
         /\ item \in Nat /\ \A i \in Items : Pending(i) => i <= item /\ tool # NoTool
<1>1. item \in Nat
  BY UpFields
<1>2. ASSUME NEW i, Pending(i)
      PROVE  tool # NoTool /\ i \in 1..item
  BY <1>2 DEF Pending, NoTool, UpstreamOK
<1>3. ASSUME NEW i \in Calls
      PROVE  Pending(i)
  BY <1>3 DEF Calls, HeldBack, Pending
<1> QED
  BY <1>1, <1>2, <1>3

\* An item that is not named is not sent; one that is named and was not sent yet is
\* sent once.
LEMMA SentOnceMore ==
  ASSUME shown \in [Items -> Shown], NEW texts, NEW calls, Sent(texts, calls), NEW i \in Items
  PROVE  /\ i \notin texts /\ i \notin calls => shown'[i] = shown[i]
         /\ i \in texts /\ i \notin calls /\ CountsAs(shown[i], "none")
               => CountsAs(shown'[i], "text")
         /\ i \notin texts /\ i \in calls /\ CountsAs(shown[i], "none")
               => CountsAs(shown'[i], "tool")
<1>1. /\ shown' \in [Items -> Shown]
      /\ shown'[i].text = IF i \in texts /\ shown[i].text < 2
                          THEN shown[i].text + 1 ELSE shown[i].text
      /\ shown'[i].tool = IF i \in calls /\ shown[i].tool < 2
                          THEN shown[i].tool + 1 ELSE shown[i].tool
  BY SentEffect
<1>2. shown[i] \in Shown /\ shown'[i] \in Shown
  BY <1>1
<1>3. ASSUME i \notin texts, i \notin calls
      PROVE  shown'[i] = shown[i]
  BY <1>1, <1>2, <1>3 DEF Shown
<1>4. ASSUME i \in texts, i \notin calls, CountsAs(shown[i], "none")
      PROVE  CountsAs(shown'[i], "text")
  BY <1>1, <1>4 DEF CountsAs
<1>5. ASSUME i \notin texts, i \in calls, CountsAs(shown[i], "none")
      PROVE  CountsAs(shown'[i], "tool")
  BY <1>1, <1>5 DEF CountsAs
<1> QED
  BY <1>3, <1>4, <1>5

\* After finalizing, every item that is over counts as it should.
LEMMA FinalizedOnce ==
  ASSUME TypeOK, UpstreamOK, Once, Prosaic, NEW texts, Sent(texts, Calls),
         NEW i \in Items, i \notin texts, Settled(i)
  PROVE  CountsAs(shown'[i], up.due[i])
<1>1. shown \in [Items -> Shown]
  BY DEF TypeOK
<1>2. CASE Pending(i)
  <2>1. i \in Calls /\ tool # NoTool /\ tool.item = i
    BY <1>2, PendingHeld, CallsPending DEF Pending
  <2>2. CountsAs(shown[i], "none") /\ up.due[i] = "tool"
    BY <1>2, <2>1 DEF Once, SentAs
  <2> QED
    BY <1>1, <2>1, <2>2, SentOnceMore
<1>3. CASE ~Pending(i)
  <2>1. i \notin Calls
    BY <1>3, CallsPending
  <2>2. CountsAs(shown[i], up.due[i])
    BY <1>3 DEF Once, SentAs
  <2> QED
    BY <1>1, <2>1, <2>2, SentOnceMore
<1> QED
  BY <1>2, <1>3

\* An item to come is not sent.
LEMMA NotSentYet ==
  ASSUME TypeOK, UpstreamOK, Once, Prosaic, NEW texts, Sent(texts, Calls),
         NEW i \in Items, i \notin texts, i > item
  PROVE  CountsAs(shown'[i], "none")
<1>1. shown \in [Items -> Shown]
  BY DEF TypeOK
<1>2. CountsAs(shown[i], "none")
  BY DEF Once, SentAs
<1>3. i \notin Calls
  BY CallsPending
<1> QED
  BY <1>1, <1>2, <1>3, SentOnceMore

\* After finalizing, every item that is over was sent or is held back as text.
LEMMA FinalizedSomehow ==
  ASSUME TypeOK, UpstreamOK, Somehow, NEW texts, NEW calls, Sent(texts, calls),
         Calls \subseteq calls, NEW i \in Items, Settled(i), up.due[i] # "none"
  PROVE  SentAtAll(i)' \/ i \in buffered
<1>1. shown \in [Items -> Shown]
  BY DEF TypeOK
<1>2. /\ SentAtAll(i) => SentAtAll(i)'
      /\ i \in calls => SentAtAll(i)'
  BY <1>1, SentStays DEF SentAtAll
<1>3. SentAtAll(i) \/ i \in buffered \/ Pending(i)
  BY DEF Somehow
<1>4. Pending(i) => i \in calls
  BY PendingHeld
<1> QED
  BY <1>2, <1>3, <1>4

-----------------------------------------------------------------------------
(* The end of the response *)

\* The tool that is called, and none.
LEMMA NoToolTyped ==
  /\ NoTool \in [item : Nat, name : {"none", "Read", "other"}]
  /\ NoTool.item = 0 /\ NoTool.name = "none"
BY DEF NoTool

\* After the pending call is finalized nothing is pending.
LEMMA NothingPending ==
  ASSUME tool = NoTool, NEW i
  PROVE  ~Pending(i)
BY NoToolTyped DEF Pending

\* What finalize_tool_call does to what the translator holds and sent.
LEMMA ToolFinalized ==
  ASSUME TypeOK, Shape, UpstreamOK, Once, Somehow, FinalizeToolCall,
         up'.server = up.server, up'.due = up.due, item' = item,
         \A i \in Items : Settled(i)' => Settled(i)
  PROVE  /\ Held' /\ tool' = NoTool /\ shown' \in [Items -> Shown] /\ buffered' = buffered
         /\ Orderly => /\ Blocks' = Blocks /\ ~(thinking_block_started' /\ block_started')
                       /\ tool'.name # "Read"
         /\ Prosaic => /\ \A i \in Items : Settled(i)' => SentAs(i, up.due[i])'
                       /\ \A i \in Items : i > item => SentAs(i, "none")'
         /\ \A i \in Items : Settled(i)' /\ up.due[i] # "none" => SentAtAll(i)' \/ i \in buffered
<1>1. /\ block_index' = (IF tool # NoTool /\ block_started THEN block_index + 1
                         ELSE block_index)
      /\ block_started' = (block_started /\ tool = NoTool)
      /\ tool' = NoTool /\ arguments' = "none" /\ Sent({}, Calls)
      /\ UNCHANGED <<thinking_block_started, buffered>>
  BY DEF FinalizeToolCall
<1>2. /\ block_index \in Nat /\ block_started \in BOOLEAN /\ thinking_block_started \in BOOLEAN
      /\ buffered \subseteq Items /\ shown \in [Items -> Shown]
  BY DEF TypeOK, Held
<1>3. shown' \in [Items -> Shown]
  BY <1>1, <1>2, SentStays
<1>4. Held'
  <2>1. block_index' \in Nat /\ block_started' \in BOOLEAN
    BY <1>1, <1>2
  <2> QED
    BY <1>1, <1>2, <2>1, NoToolTyped DEF Held
<1>5. ASSUME Orderly
      PROVE  /\ Blocks' = Blocks /\ ~(thinking_block_started' /\ block_started')
             /\ tool'.name # "Read"
  <2>1. ~(thinking_block_started /\ block_started)
    BY <1>5 DEF Shape
  <2>2. Blocks' = Blocks
    <3>1. CASE tool # NoTool /\ block_started
      <4>1. block_index' = block_index + 1 /\ block_started' = FALSE
        BY <1>1, <3>1
      <4>2. OpenBlock = "tool_use" /\ OpenBlock' = "none"
        BY <1>1, <1>2, <2>1, <3>1, <4>1 DEF OpenBlock
      <4> QED
        BY <1>2, <4>1, <4>2 DEF Blocks
    <3>2. CASE ~(tool # NoTool /\ block_started)
      <4>1. block_index' = block_index /\ block_started' = block_started
        BY <1>1, <1>2, <3>2
      <4>2. OpenBlock' = OpenBlock
        BY <1>1, <1>2, <3>2, <4>1 DEF OpenBlock
      <4> QED
        BY <4>1, <4>2 DEF Blocks
    <3> QED
      BY <3>1, <3>2
  <2> QED
    BY <1>1, <2>1, <2>2, NoToolTyped
<1>6. ASSUME Prosaic, NEW i \in Items
      PROVE  /\ Settled(i)' => SentAs(i, up.due[i])'
             /\ i > item => SentAs(i, "none")'
  <2>1. Settled(i)' => CountsAs(shown'[i], up.due[i])
    BY <1>1, <1>6, FinalizedOnce
  <2>2. i > item => CountsAs(shown'[i], "none")
    BY <1>1, <1>6, NotSentYet
  <2> QED
    BY <2>1, <2>2 DEF SentAs
<1>7. ASSUME NEW i \in Items, Settled(i)', up.due[i] # "none"
      PROVE  SentAtAll(i)' \/ i \in buffered
  BY <1>1, <1>7, FinalizedSomehow
<1> QED
  BY <1>1, <1>3, <1>4, <1>5, <1>6, <1>7

\* What the last lines of a response have in common: the upstream is done with no
\* further item, and the pending call is finalized, or what is held back is flushed,
\* or neither.
LEMMA EndKeeps ==
  ASSUME IInv, ReadingLine, up.stage # "eof", up' \in Upstreams, up'.server = up.server,
         up'.due = up.due, up'.text = up.text, up'.called = up.called, item' = item,
         up'.stage \in {"finished", "done", "eof"}, client' = client,
         \A i \in Items : Settled(i)' => Settled(i),
         up'.complete => tool' = NoTool,
         up'.stage = "eof" => buffered' = {},
         \/ FinalizeToolCall
         \/ buffered # {} /\ FlushBuffered
         \/ UNCHANGED <<state, message_started, ended, out, shown>>
  PROVE  IInv'
<1>1. TypeOK /\ Sync /\ Announces /\ Unfinished /\ Shape /\ UpstreamOK /\ Once /\ Somehow
  BY DEF IInv
<1>2. up'.stage \notin {"between", "reasoning", "content", "call"} /\ ~BetweenItems'
  BY DEF BetweenItems
<1>3. item \in Nat /\ item <= MaxItems /\ item' <= MaxItems
  BY <1>1, UpFields DEF TypeOK
<1>4. (Orderly' <=> Orderly) /\ (Prosaic' <=> Prosaic)
  BY SameServer
<1>5. CASE FinalizeToolCall
  <2>1. InStep'
    BY <1>1, <1>5, FinalizeToolSync
  <2>2. /\ Held' /\ tool' = NoTool /\ shown' \in [Items -> Shown] /\ buffered' = buffered
        /\ Orderly => /\ Blocks' = Blocks /\ ~(thinking_block_started' /\ block_started')
                      /\ tool'.name # "Read"
        /\ Prosaic => /\ \A i \in Items : Settled(i)' => SentAs(i, up.due[i])'
                      /\ \A i \in Items : i > item => SentAs(i, "none")'
        /\ \A i \in Items : Settled(i)' /\ up.due[i] # "none" => SentAtAll(i)' \/ i \in buffered
    BY <1>1, <1>5, ToolFinalized
  <2>3. TypeOK'
    BY <1>3, <2>1, <2>2 DEF TypeOK, InStep
  <2>4. Shape'
    BY <1>1, <1>2, <1>4, <2>2 DEF Shape
  <2>5. UpstreamOK'
    BY <1>2, <2>2 DEF UpstreamOK
  <2>6. Once'
    <3>1. \A i : ~Pending(i)'
      BY <2>2, NothingPending DEF NoTool, Pending
    <3> QED
      BY <1>1, <1>2, <1>4, <2>2, <3>1 DEF Once
  <2>7. Somehow'
    BY <1>2, <2>2 DEF Somehow
  <2> QED
    BY <2>1, <2>3, <2>4, <2>5, <2>6, <2>7 DEF IInv, InStep
<1>6. CASE buffered # {} /\ FlushBuffered
  <2>1. InStep'
    BY <1>1, <1>6, FlushBufferedSync
  <2>2. /\ block_started' = TRUE /\ Sent(buffered, {}) /\ buffered' = {}
        /\ UNCHANGED <<block_index, thinking_block_started, tool, arguments>>
    BY <1>6 DEF FlushBuffered
  <2>3. ~Orderly /\ ~Prosaic
    BY <1>1, <1>6 DEF Shape, Once
  <2>4. shown \in [Items -> Shown]
    BY <1>1 DEF TypeOK
  <2>5. /\ shown' \in [Items -> Shown]
        /\ \A i \in Items : SentAtAll(i) \/ i \in buffered => SentAtAll(i)'
    BY <2>2, <2>4, SentStays DEF SentAtAll
  <2>6. TypeOK'
    BY <1>1, <1>3, <2>1, <2>2, <2>5 DEF TypeOK, InStep, Held
  <2>7. Shape' /\ Once'
    BY <1>4, <2>3 DEF Shape, Once
  <2>8. UpstreamOK'
    BY <1>1, <1>2, <2>2 DEF UpstreamOK
  <2>9. Somehow'
    <3>1. ASSUME NEW i \in Items, Settled(i)', up'.due[i] # "none"
          PROVE  SentAtAll(i)' \/ Pending(i)'
      <4>1. SentAtAll(i) \/ i \in buffered \/ Pending(i)
        BY <1>1, <3>1 DEF Somehow
      <4> QED
        BY <2>2, <2>5, <4>1 DEF Pending
    <3> QED
      BY <1>2, <3>1 DEF Somehow
  <2> QED
    BY <2>1, <2>6, <2>7, <2>8, <2>9 DEF IInv, InStep
<1>7. CASE UNCHANGED <<state, message_started, ended, out, shown>>
  <2>1. UNCHANGED <<block_index, block_started, thinking_block_started, tool, arguments,
                    buffered, message_started, ended, out, shown>>
    BY <1>7 DEF state
  <2>2. OpenBlock' = OpenBlock /\ Blocks' = Blocks
    BY <2>1 DEF OpenBlock, Blocks
  <2>3. InStep'
    BY <1>1, <2>1, <2>2, QuietSync
  <2>4. TypeOK'
    BY <1>1, <1>3, <2>1, <2>3 DEF TypeOK, InStep, Held
  <2>5. Shape'
    BY <1>1, <1>2, <1>4, <2>1, <2>2 DEF Shape
  <2>6. UpstreamOK'
    BY <1>1, <1>2, <2>1 DEF UpstreamOK
  <2>7. \A i \in Items : /\ Pending(i)' <=> Pending(i)
                         /\ SentAtAll(i)' <=> SentAtAll(i)
                         /\ \A f : SentAs(i, f)' <=> SentAs(i, f)
    BY <2>1 DEF Pending, SentAtAll, SentAs
  <2>8. Once'
    BY <1>1, <1>2, <1>4, <2>1, <2>7 DEF Once
  <2>9. Somehow'
    BY <1>1, <1>2, <2>1, <2>7 DEF Somehow
  <2> QED
    BY <2>3, <2>4, <2>5, <2>6, <2>8, <2>9 DEF IInv, InStep
<1> QED
  BY <1>5, <1>6, <1>7

\* The upstream closes the connection.
LEMMA EofKeeps ==
  ASSUME IInv, Eof
  PROVE  IInv'
<1>1. TypeOK /\ UpstreamOK
  BY DEF IInv
<1>2. /\ ReadingLine /\ up.stage # "eof" /\ up' = [up EXCEPT !.stage = "eof"]
      /\ IF buffered # {} THEN FlushBuffered
         ELSE UNCHANGED <<state, message_started, ended, out, shown>>
      /\ client' = client
  BY DEF Eof
<1>3. /\ up' \in Upstreams /\ up'.server = up.server /\ up'.stage = "eof"
      /\ up'.due = up.due /\ up'.text = up.text /\ up'.called = up.called
      /\ up'.complete = up.complete /\ item' = item
  BY <1>1, <1>2, StageSet DEF Stages
<1>4. tool' = tool /\ buffered' = {}
  BY <1>2 DEF FlushBuffered, state
<1>5. \A i \in Items : Settled(i)' => Settled(i)
  BY <1>3 DEF Settled, BetweenItems
<1>6. up'.complete => tool' = NoTool
  BY <1>1, <1>3, <1>4 DEF UpstreamOK
<1> QED
  BY <1>2, <1>3, <1>4, <1>5, <1>6, EndKeeps

\* [DONE].
LEMMA DoneKeeps ==
  ASSUME IInv, Done
  PROVE  IInv'
<1>1. TypeOK /\ UpstreamOK
  BY DEF IInv
<1>2. /\ ReadingLine /\ up.stage = "finished" /\ up' = [up EXCEPT !.stage = "done"]
      /\ IF buffered # {} THEN FlushBuffered ELSE FinalizeToolCall
      /\ client' = client
  BY DEF Done
<1>3. /\ up' \in Upstreams /\ up'.server = up.server /\ up'.stage = "done"
      /\ up'.due = up.due /\ up'.text = up.text /\ up'.called = up.called
      /\ up'.complete = up.complete /\ item' = item
  BY <1>1, <1>2, StageSet DEF Stages
<1>4. tool' = tool \/ tool' = NoTool
  BY <1>2 DEF FlushBuffered, FinalizeToolCall
<1>5. \A i \in Items : Settled(i)' => Settled(i)
  BY <1>3 DEF Settled, BetweenItems
<1>6. up'.complete => tool' = NoTool
  BY <1>1, <1>3, <1>4 DEF UpstreamOK
<1> QED
  BY <1>2, <1>3, <1>5, <1>6, EndKeeps

\* finish_reason.
LEMMA FinishKeeps ==
  ASSUME IInv, NEW reason \in {"tool_calls", "stop", "length"}, Finish(reason)
  PROVE  IInv'
<1>1. TypeOK /\ UpstreamOK
  BY DEF IInv
<1>2. /\ ReadingLine /\ FinishFits(reason)
      /\ up' = [up EXCEPT !.stage = "finished", !.complete = reason # "length"]
      /\ IF reason = "tool_calls" THEN FinalizeToolCall
         ELSE IF buffered # {} THEN FlushBuffered
         ELSE UNCHANGED <<state, message_started, ended, out, shown>>
      /\ client' = client
  BY DEF Finish
<1> DEFINE c == reason # "length"
<1>3. c \in BOOLEAN /\ up' = [up EXCEPT !.stage = "finished", !.complete = c]
  BY <1>2
<1> HIDE DEF c
<1>4. /\ up' \in Upstreams /\ up'.server = up.server /\ up'.stage = "finished"
      /\ up'.due = up.due /\ up'.text = up.text /\ up'.called = up.called
      /\ up'.complete = c /\ item' = item
  BY <1>1, <1>3, Finished
<1>5. reason # "length" => BetweenItems /\ (reason # "tool_calls" => ~up.called)
  BY <1>2 DEF FinishFits
<1>6. up.stage # "eof"
  BY <1>2 DEF FinishFits, BetweenItems
<1>7. \A i \in Items : Settled(i)' => Settled(i)
  <2>1. ~BetweenItems' /\ (up'.complete => BetweenItems)
    BY <1>4, <1>5 DEF BetweenItems, c
  <2> QED
    BY <1>4, <2>1 DEF Settled
<1>8. up'.complete => tool' = NoTool
  <2>1. CASE reason = "tool_calls"
    BY <1>2, <2>1 DEF FinalizeToolCall
  <2>2. CASE reason = "stop"
    <3>1. tool = NoTool
      BY <1>1, <1>5, <2>2 DEF UpstreamOK
    <3> QED
      BY <1>2, <2>2, <3>1 DEF FlushBuffered, state
  <2>3. CASE reason = "length"
    BY <1>4, <2>3 DEF c
  <2> QED
    BY <2>1, <2>2, <2>3
<1> QED
  BY <1>2, <1>4, <1>6, <1>7, <1>8, EndKeeps

-----------------------------------------------------------------------------
(* A new item *)

\* The items before a new one: the upstream is done with them, and the pending call is
\* one of them, complete.
LEMMA ItemsBefore ==
  ASSUME TypeOK, UpstreamOK, BetweenItems, up'.complete = up.complete, item' = item + 1,
         item' \in Items
  PROVE  /\ ~up.complete /\ item \in Nat /\ tool.item <= item
         /\ tool = NoTool \/ arguments = "all"
         /\ \A i \in Items : i # item' /\ Settled(i)' => Settled(i) /\ i \in 1..item
         /\ \A i \in Items : i > item' \/ i = item' => i > item
<1>1. item \in Nat /\ tool.item \in Nat
  BY UpFields DEF TypeOK, Held
<1>2. ~up.complete
  BY DEF UpstreamOK, BetweenItems
<1>3. tool.item <= item /\ (tool = NoTool \/ arguments = "all")
  <2>1. CASE tool = NoTool
    BY <1>1, <2>1, NoToolTyped
  <2>2. CASE tool # NoTool
    BY <1>1, <2>2 DEF UpstreamOK
  <2> QED
    BY <2>1, <2>2
<1>4. ASSUME NEW i \in Items, i # item', Settled(i)'
      PROVE  Settled(i) /\ i \in 1..item
  <2>1. i \in 1..item
    BY <1>1, <1>4 DEF Settled, Items
  <2> QED
    BY <1>1, <2>1 DEF Settled
<1> QED
  BY <1>1, <1>2, <1>3, <1>4

\* What the model says of the sent items, once more after a new item that is not sent yet.
LEMMA OnceMoreItem ==
  ASSUME TypeOK, UpstreamOK, Once, Prosaic, BetweenItems, up'.complete = up.complete,
         item' = item + 1, item' \in Items, \A i \in 1..item : up'.due[i] = up.due[i],
         tool' = tool, shown' = shown
  PROVE  /\ \A i \in Items : i # item' /\ Settled(i)' /\ ~Pending(i)' => SentAs(i, up.due[i])'
         /\ \A i \in Items : i > item' \/ Pending(i)' => SentAs(i, "none")'
         /\ SentAs(item, "none")' /\ ~Pending(item)'
         /\ tool' # NoTool => up'.due[tool'.item] = "tool"
<1>1. /\ item \in Nat /\ tool.item <= item
      /\ \A i \in Items : i # item' /\ Settled(i)' => Settled(i) /\ i \in 1..item
      /\ \A i \in Items : i > item' \/ i = item' => i > item
  BY ItemsBefore
<1>2. \A i \in Items : /\ Pending(i)' <=> Pending(i)
                       /\ \A f : SentAs(i, f)' <=> SentAs(i, f)
  BY DEF Pending, SentAs
<1>3. ASSUME NEW i \in Items, i # item', Settled(i)', ~Pending(i)'
      PROVE  SentAs(i, up.due[i])'
  BY <1>1, <1>2, <1>3 DEF Once, SentAs
<1>4. ASSUME NEW i \in Items, i > item' \/ Pending(i)'
      PROVE  SentAs(i, "none")'
  BY <1>1, <1>2, <1>4 DEF Once
<1>5. SentAs(item, "none")'
  <2>1. CountsAs(shown[item'], "none")
    BY <1>1 DEF Once, SentAs
  <2> QED
    BY <2>1 DEF SentAs
<1>6. ~Pending(item)'
  <2>1. tool.item # item'
    BY <1>1
  <2> QED
    BY <2>1 DEF Pending
<1>7. ASSUME tool # NoTool
      PROVE  up'.due[tool.item] = "tool"
  <2>1. tool.item \in 1..item /\ up.due[tool.item] = "tool"
    BY <1>7 DEF Once, UpstreamOK
  <2> QED
    BY <2>1
<1> QED
  BY <1>3, <1>4, <1>5, <1>6, <1>7

\* The same of the items that were sent in some form.
LEMMA SomehowMoreItem ==
  ASSUME TypeOK, UpstreamOK, Somehow, BetweenItems, up'.complete = up.complete,
         item' = item + 1, item' \in Items, \A i \in 1..item : up'.due[i] = up.due[i],
         tool' = tool, shown' = shown, buffered' = buffered
  PROVE  \A i \in Items : i # item' /\ Settled(i)' /\ up'.due[i] # "none" =>
            SentAtAll(i)' \/ i \in buffered' \/ Pending(i)'
<1>1. \A i \in Items : i # item' /\ Settled(i)' => Settled(i) /\ i \in 1..item
  BY ItemsBefore
<1>2. ASSUME NEW i \in Items, i # item', Settled(i)', up'.due[i] # "none"
      PROVE  SentAtAll(i)' \/ i \in buffered' \/ Pending(i)'
  <2>1. SentAtAll(i) \/ i \in buffered \/ Pending(i)
    BY <1>1, <1>2 DEF Somehow
  <2> QED
    BY <2>1 DEF SentAtAll, Pending
<1> QED
  BY <1>2

\* The upstream begins content; nothing is made of that.
LEMMA BeginContentKeeps ==
  ASSUME IInv, NEW t \in {"prose", "toolcall", "half"}, BeginContent(t)
  PROVE  IInv'
<1> DEFINE f == IF t = "toolcall" THEN "tool" ELSE "text"
<1>1. t \in Texts /\ f \in Forms /\ "content" \in Stages
  BY DEF Texts, Forms, Stages
<1>2. t \in up.server.texts /\ Begin("content", t, f) /\ UNCHANGED <<state, output>>
  BY DEF BeginContent
<1>3. TypeOK /\ Sync /\ Announces /\ Unfinished /\ Shape /\ UpstreamOK /\ Once /\ Somehow
  BY DEF IInv
<1>4. Prosaic => t = "prose" /\ f = "text"
  BY <1>2 DEF Prosaic
<1> HIDE DEF f
<1>5. /\ up' \in Upstreams /\ up'.server = up.server /\ up'.stage = "content"
      /\ up'.text = t /\ up'.cut = "none" /\ up'.complete = up.complete
      /\ up'.called = up.called
      /\ item' = item + 1 /\ item' \in Items /\ item' <= MaxItems
      /\ \A i \in 1..item : up'.due[i] = up.due[i]
      /\ up'.due[item'] = f
      /\ ReadingLine /\ BetweenItems
  BY <1>1, <1>2, <1>3, Begun, UpFields
<1>6. UNCHANGED <<message_started, ended, out, client, shown, block_index, block_started,
                  thinking_block_started, tool, arguments, buffered>>
  BY <1>2 DEF state, output
<1>7. OpenBlock' = OpenBlock /\ Blocks' = Blocks /\ ~BetweenItems'
  BY <1>5, <1>6 DEF OpenBlock, Blocks, BetweenItems
<1>8. /\ ~up.complete /\ item \in Nat /\ tool.item <= item
      /\ tool = NoTool \/ arguments = "all"
  BY <1>3, <1>5, ItemsBefore
<1>9. up.stage # "eof"
  BY <1>5 DEF BetweenItems
<1>10. InStep'
  BY <1>3, <1>5, <1>6, <1>7, <1>9, QuietSync
<1>11. TypeOK'
  BY <1>3, <1>5, <1>6, <1>10 DEF TypeOK, InStep, Held
<1>12. Shape'
  <2> SUFFICES ASSUME Orderly
               PROVE  Shape'
    BY <1>5, SameServer DEF Shape
  <2>1. Blocks \in Nat /\ Blocks <= item
    BY <1>3, IndexBound
  <2>2. Blocks' <= item' /\ Blocks' + 1 <= item'
    BY <1>5, <1>7, <1>8, <2>1
  <2> QED
    BY <1>3, <1>4, <1>5, <1>6, <2>2, OrderlyTyped DEF Shape
<1>13. UpstreamOK'
  <2>1. tool.item < item' /\ (tool # NoTool => tool.item \in 1..item')
    <3>1. tool.item \in Nat /\ (tool # NoTool => tool.item \in 1..item)
      BY <1>3 DEF UpstreamOK, TypeOK, Held
    <3> QED
      BY <1>5, <1>8, <3>1
  <2> QED
    BY <1>3, <1>5, <1>6, <1>8, <2>1 DEF UpstreamOK
<1>14. ~Settled(item)'
  BY <1>5, <1>7, <1>8 DEF Settled
<1>15. Once'
  <2> SUFFICES ASSUME Prosaic
               PROVE  Once'
    BY <1>5, SameServer DEF Once
  <2>1. /\ \A i \in Items : i # item' /\ Settled(i)' /\ ~Pending(i)' => SentAs(i, up.due[i])'
        /\ \A i \in Items : i > item' \/ Pending(i)' => SentAs(i, "none")'
        /\ SentAs(item, "none")' /\ ~Pending(item)'
        /\ tool' # NoTool => up'.due[tool'.item] = "tool"
    BY <1>3, <1>5, <1>6, OnceMoreItem
  <2>2. SentAs(item, IF up.cut = "none" THEN "none" ELSE "text")'
    BY <1>5, <2>1 DEF SentAs
  <2> QED
    BY <1>3, <1>4, <1>5, <1>6, <1>14, <2>1, <2>2 DEF Once
<1>16. Somehow'
  <2>1. \A i \in Items : i # item' /\ Settled(i)' /\ up'.due[i] # "none" =>
            SentAtAll(i)' \/ i \in buffered' \/ Pending(i)'
    BY <1>3, <1>5, <1>6, SomehowMoreItem
  <2> QED
    BY <1>5, <1>14, <2>1 DEF Somehow
<1> QED
  BY <1>10, <1>11, <1>12, <1>13, <1>15, <1>16 DEF IInv, InStep

\* reasoning_content, shown or not.
LEMMA ReasoningKeeps ==
  ASSUME IInv, Reasoning
  PROVE  IInv'
<1>1. TypeOK /\ Sync /\ Announces /\ Unfinished /\ Shape /\ UpstreamOK /\ Once /\ Somehow
  BY DEF IInv
<1>2. /\ \/ Begin("reasoning", "none", "none")
         \/ ReadingLine /\ up.stage = "reasoning" /\ UNCHANGED up
      /\ LET i == AfterBlock(block_index) IN
         IF up.server.thinking
         THEN /\ Emit(CloseBlock(block_index)
                      \o (IF thinking_block_started THEN << >>
                          ELSE <<A!BlockStart(i, "thinking")>>)
                      \o <<A!BlockDelta(i, "thinking")>>)
              /\ block_index' = i
              /\ block_started' = FALSE /\ thinking_block_started' = TRUE
         ELSE /\ EmitNothing
              /\ UNCHANGED <<block_index, block_started, thinking_block_started>>
      /\ UNCHANGED <<tool, arguments, buffered, client, shown>>
  BY DEF Reasoning
<1>3. "none" \in Texts /\ "none" \in Forms /\ "reasoning" \in Stages
  BY DEF Texts, Forms, Stages
\* The item is new, or goes on.
<1> DEFINE New == /\ item' = item + 1 /\ up'.due[item'] = "none" /\ up'.text = "none"
                  /\ \A i \in 1..item : up'.due[i] = up.due[i]
           Old == up' = up /\ item' = item
<1>4. /\ up' \in Upstreams /\ up'.server = up.server /\ up'.stage = "reasoning"
      /\ up'.complete = up.complete /\ up'.called = up.called
      /\ item' <= MaxItems /\ ReadingLine /\ BetweenItems /\ BetweenItems'
      /\ (New /\ item' \in Items) \/ (Old /\ up.stage = "reasoning")
  <2>1. CASE Begin("reasoning", "none", "none")
    <3>1. /\ up' \in Upstreams /\ up'.server = up.server /\ up'.stage = "reasoning"
          /\ up'.text = "none" /\ up'.complete = up.complete
          /\ item' = item + 1 /\ item' \in Items /\ item' <= MaxItems
          /\ \A i \in 1..item : up'.due[i] = up.due[i]
          /\ up'.due[item'] = "none"
          /\ ReadingLine /\ BetweenItems
      BY <1>1, <1>3, <2>1, Begun
    <3>2. up'.called = up.called
      <4>1. up'.called = (up.called \/ "reasoning" = "call")
        BY <1>1, <1>3, <2>1, Begun
      <4> QED
        BY <1>1, <4>1, UpFields
    <3>3. BetweenItems'
      BY <3>1 DEF BetweenItems
    <3>4. New
      BY <3>1
    <3> HIDE DEF New, Old
    <3> QED
      BY <3>1, <3>2, <3>3, <3>4
  <2>2. CASE ReadingLine /\ up.stage = "reasoning" /\ UNCHANGED up
    BY <1>1, <2>2 DEF BetweenItems, TypeOK, item
  <2> QED
    BY <1>2, <2>1, <2>2
<1>5. /\ ~up.complete /\ item \in Nat /\ block_index \in Nat
      /\ tool.item \in Nat /\ (tool = NoTool \/ arguments = "all")
      /\ block_started \in BOOLEAN /\ thinking_block_started \in BOOLEAN
  BY <1>1, <1>4, UpFields DEF TypeOK, Held, UpstreamOK, BetweenItems
<1>6. UNCHANGED <<tool, arguments, buffered, client, shown>>
  BY <1>2
<1>7. up.stage # "eof"
  BY <1>4 DEF BetweenItems
\* What an orderly upstream brings about.
<1>8. ASSUME Orderly
      PROVE  /\ Blocks \in Nat /\ Blocks <= item /\ item <= MaxItems
             /\ ~(thinking_block_started /\ block_started)
             /\ AfterBlock(block_index) <= Blocks
  <2>1. /\ Blocks \in Nat /\ block_index <= Blocks /\ Blocks <= item
        /\ ~(thinking_block_started /\ block_started)
    BY <1>1, <1>8, IndexBound
  <2>2. block_started => Blocks = block_index + 1
    BY <1>5, <2>1 DEF Blocks, OpenBlock
  <2> QED
    BY <1>1, <1>5, <2>1, <2>2 DEF AfterBlock, TypeOK
<1>9. InStep' /\ block_index' \in Nat /\ block_started' \in BOOLEAN
      /\ thinking_block_started' \in BOOLEAN
  <2>1. CASE up.server.thinking
    <3>1. AfterBlock(block_index) \in Nat
      BY <1>5 DEF AfterBlock
    <3>2. Orderly => AfterBlock(block_index) <= MaxItems
      BY <1>5, <1>8, <3>1, StreamAssumption
    <3>3. InStep'
      BY <1>1, <1>2, <1>4, <2>1, <3>2, ReasoningSync
    <3> QED
      BY <1>2, <2>1, <3>1, <3>3
  <2>2. CASE ~up.server.thinking
    <3>1. UNCHANGED <<message_started, ended, out, block_index, block_started,
                      thinking_block_started>>
      BY <1>2, <2>2 DEF EmitNothing
    <3>2. OpenBlock' = OpenBlock
      BY <1>6, <3>1 DEF OpenBlock
    <3>3. InStep'
      BY <1>1, <1>4, <1>6, <1>7, <3>1, <3>2, QuietSync
    <3> QED
      BY <1>5, <3>1, <3>3
  <2> QED
    BY <2>1, <2>2
<1>10. TypeOK'
  BY <1>1, <1>4, <1>6, <1>9 DEF TypeOK, InStep, Held
<1>11. Shape'
  <2> SUFFICES ASSUME Orderly
               PROVE  Shape'
    BY <1>4, SameServer DEF Shape
  <2>1. buffered' = {} /\ up'.text \in {"none", "prose"} /\ tool'.name # "Read"
    BY <1>1, <1>4, <1>6 DEF Shape
  <2>2. CASE up.server.thinking
    <3>1. /\ block_index' = AfterBlock(block_index)
          /\ block_started' = FALSE /\ thinking_block_started' = TRUE
      BY <1>2, <2>2
    <3>2. OpenBlock' = "thinking" /\ Blocks' = AfterBlock(block_index) + 1
      BY <3>1 DEF OpenBlock, Blocks
    <3>3. AfterBlock(block_index) + 1 <= item'
      <4>1. CASE New
        BY <1>5, <1>8, <4>1 DEF AfterBlock
      <4>2. CASE Old /\ up.stage = "reasoning"
        <5>1. OpenBlock = "thinking"
          BY <1>1, <2>2, <4>2 DEF Shape
        <5>2. thinking_block_started /\ ~block_started
          BY <1>5, <1>8, <5>1 DEF OpenBlock
        <5>3. Blocks = block_index + 1 /\ AfterBlock(block_index) = block_index
          BY <5>1, <5>2 DEF Blocks, AfterBlock
        <5> QED
          BY <1>8, <4>2, <5>3
      <4> QED
        BY <1>4, <4>1, <4>2
    <3> QED
      BY <1>4, <2>1, <3>1, <3>2, <3>3 DEF Shape
  <2>3. CASE ~up.server.thinking
    <3>1. UNCHANGED <<block_index, block_started, thinking_block_started>>
      BY <1>2, <2>3
    <3>2. Blocks' = Blocks
      BY <1>6, <3>1 DEF Blocks, OpenBlock
    <3>3. Blocks <= item'
      BY <1>4, <1>5, <1>8
    <3> QED
      BY <1>4, <1>8, <2>1, <2>3, <3>1, <3>2, <3>3 DEF Shape
  <2> QED
    BY <2>2, <2>3
<1>12. UpstreamOK'
  <2>1. tool # NoTool => tool.item \in 1..item' /\ tool.name \in {"Read", "other"}
    <3>1. tool # NoTool => tool.item \in 1..item /\ tool.name \in {"Read", "other"}
      BY <1>1 DEF UpstreamOK
    <3>2. item <= item' /\ item' \in Nat
      BY <1>4, <1>5
    <3> QED
      BY <1>5, <3>1, <3>2
  <2> QED
    BY <1>1, <1>4, <1>5, <1>6, <2>1 DEF UpstreamOK
<1>13. Once'
  <2> SUFFICES ASSUME Prosaic
               PROVE  Once'
    BY <1>4, SameServer DEF Once
  <2>1. buffered' = {} /\ up'.text \in {"none", "prose"}
    BY <1>1, <1>4, <1>6 DEF Once
  <2>2. CASE New /\ item' \in Items
    <3>1. /\ \A i \in Items : i # item' /\ Settled(i)' /\ ~Pending(i)' => SentAs(i, up.due[i])'
          /\ \A i \in Items : i > item' \/ Pending(i)' => SentAs(i, "none")'
          /\ SentAs(item, "none")' /\ ~Pending(item)'
          /\ tool' # NoTool => up'.due[tool'.item] = "tool"
      BY <1>1, <1>4, <1>6, <2>2, OnceMoreItem
    <3>2. SentAs(item, up.due[item])'
      BY <2>2, <3>1 DEF SentAs
    <3> QED
      BY <1>4, <2>1, <3>1, <3>2 DEF Once
  <2>3. CASE Old
    <3>1. item' = item
      BY <2>3
    <3>2. \A i \in Items : Settled(i)' <=> Settled(i)
      BY <1>4, <2>3, <3>1 DEF Settled
    <3>3. \A i \in Items : /\ Pending(i)' <=> Pending(i)
                           /\ \A f : SentAs(i, f)' <=> SentAs(i, f)
      BY <1>6 DEF Pending, SentAs
    <3>4. tool' # NoTool => up'.due[tool'.item] = "tool"
      BY <1>1, <1>6, <2>3 DEF Once
    <3> QED
      BY <1>1, <1>4, <2>1, <2>3, <3>1, <3>2, <3>3, <3>4 DEF Once
  <2> QED
    BY <1>4, <2>2, <2>3
<1>14. Somehow'
  <2>1. CASE New /\ item' \in Items
    <3>1. \A i \in Items : i # item' /\ Settled(i)' /\ up'.due[i] # "none" =>
              SentAtAll(i)' \/ i \in buffered' \/ Pending(i)'
      BY <1>1, <1>4, <1>6, <2>1, SomehowMoreItem
    <3> QED
      BY <1>4, <2>1, <3>1 DEF Somehow
  <2>2. CASE Old
    <3>1. item' = item
      BY <2>2
    <3>2. \A i \in Items : Settled(i)' <=> Settled(i)
      BY <1>4, <2>2, <3>1 DEF Settled
    <3>3. \A i \in Items : /\ Pending(i)' <=> Pending(i)
                           /\ SentAtAll(i)' <=> SentAtAll(i)
      BY <1>6 DEF Pending, SentAtAll
    <3> QED
      BY <1>1, <1>4, <1>6, <2>2, <3>2, <3>3 DEF Somehow
  <2> QED
    BY <1>4, <2>1, <2>2
<1> QED
  BY <1>9, <1>10, <1>11, <1>12, <1>13, <1>14 DEF IInv, InStep

\* The upstream is done with some content; nothing is made of that.
LEMMA ContentOverKeeps ==
  ASSUME IInv, ContentOver
  PROVE  IInv'
<1>1. TypeOK /\ Sync /\ Announces /\ Unfinished /\ Shape /\ UpstreamOK /\ Once /\ Somehow
  BY DEF IInv
<1>2. /\ ReadingLine /\ up.stage = "content" /\ up.cut # "none"
      /\ up' = [up EXCEPT !.stage = "between"] /\ UNCHANGED <<state, output>>
  BY DEF ContentOver
<1>3. /\ up' \in Upstreams /\ up'.server = up.server /\ up'.stage = "between"
      /\ up'.due = up.due /\ up'.text = up.text /\ up'.cut = up.cut
      /\ up'.called = up.called /\ up'.complete = up.complete /\ item' = item
  BY <1>1, <1>2, StageSet DEF Stages
<1>4. UNCHANGED <<message_started, ended, out, client, shown, block_index, block_started,
                  thinking_block_started, tool, arguments, buffered>>
  BY <1>2 DEF state, output
<1>5. OpenBlock' = OpenBlock /\ Blocks' = Blocks
  BY <1>4 DEF OpenBlock, Blocks
<1>6. InStep'
  BY <1>1, <1>2, <1>3, <1>4, <1>5, QuietSync
<1>7. TypeOK'
  BY <1>1, <1>3, <1>4, <1>6 DEF TypeOK, InStep, Held
<1>8. Shape'
  BY <1>1, <1>3, <1>4, <1>5, SameServer DEF Shape
<1>9. UpstreamOK'
  BY <1>1, <1>2, <1>3, <1>4 DEF UpstreamOK
<1>10. \A i \in Items : Settled(i)' => i = item \/ Settled(i)
  BY <1>3, UpFields, <1>1 DEF Settled, Items
<1>11. \A i \in Items : /\ Pending(i)' <=> Pending(i)
                        /\ SentAtAll(i)' <=> SentAtAll(i)
                        /\ \A f : SentAs(i, f)' <=> SentAs(i, f)
  BY <1>4 DEF Pending, SentAtAll, SentAs
<1>12. Once'
  <2> SUFFICES ASSUME Prosaic
               PROVE  Once'
    BY <1>3, SameServer DEF Once
  <2>1. item \in Items /\ SentAs(item, up.due[item])
    BY <1>1, <1>2 DEF Once, UpstreamOK
  <2>2. ASSUME NEW i \in Items, Settled(i)', ~Pending(i)'
        PROVE  SentAs(i, up.due[i])'
    <3>1. CountsAs(shown[i], up.due[i])
      BY <1>1, <1>10, <1>11, <2>1, <2>2 DEF Once, SentAs
    <3> QED
      BY <1>3, <1>4, <3>1 DEF SentAs
  <2> QED
    BY <1>1, <1>3, <1>4, <1>11, <2>2 DEF Once
<1>13. Somehow'
  <2>1. item \in Items /\ (SentAtAll(item) \/ item \in buffered)
    BY <1>1, <1>2 DEF Somehow, UpstreamOK
  <2>2. ASSUME NEW i \in Items, Settled(i)', up'.due[i] # "none"
        PROVE  SentAtAll(i)' \/ i \in buffered' \/ Pending(i)'
    BY <1>1, <1>3, <1>4, <1>10, <1>11, <2>1, <2>2 DEF Somehow
  <2> QED
    BY <1>3, <2>2 DEF Somehow
<1> QED
  BY <1>6, <1>7, <1>8, <1>9, <1>12, <1>13 DEF IInv, InStep

\* A call begins: what is open is closed, the previous call finalized, and the block of
\* the new one opened.
LEMMA CallStartKeeps ==
  ASSUME IInv, NEW name \in {"Read", "other"}, CallStart(name)
  PROVE  IInv'
<1>1. TypeOK /\ Sync /\ Announces /\ Unfinished /\ Shape /\ UpstreamOK /\ Once /\ Somehow
  BY DEF IInv
<1>2. /\ name \in up.server.tools /\ Begin("call", "none", "tool")
      /\ LET i == AfterThinking(block_index)
             j == AfterBlock(i)
         IN /\ Emit(CloseThinking(block_index) \o CloseBlock(i) \o Finalized(j, FALSE)
                    \o <<A!BlockStart(j, "tool_use")>>)
            /\ block_index' = j
      /\ block_started' = TRUE /\ thinking_block_started' = FALSE
      /\ tool' = [item |-> item + 1, name |-> name] /\ arguments' = "none"
      /\ Sent({}, Calls)
      /\ UNCHANGED <<buffered, client>>
  BY DEF CallStart
<1>3. "none" \in Texts /\ "tool" \in Forms /\ "call" \in Stages
  BY DEF Texts, Forms, Stages
<1>4. /\ up' \in Upstreams /\ up'.server = up.server /\ up'.stage = "call"
      /\ up'.text = "none" /\ up'.complete = up.complete
      /\ item' = item + 1 /\ item' \in Items /\ item' <= MaxItems
      /\ \A i \in 1..item : up'.due[i] = up.due[i]
      /\ up'.due[item'] = "tool"
      /\ ReadingLine /\ BetweenItems
  BY <1>1, <1>2, <1>3, Begun
<1>5. up'.called = TRUE
  <2>1. up'.called = (up.called \/ "call" = "call")
    BY <1>1, <1>2, <1>3, Begun
  <2> QED
    BY <2>1
<1>6. /\ ~up.complete /\ item \in Nat
      /\ \A i \in Items : i # item' /\ Settled(i)' => Settled(i) /\ i \in 1..item
      /\ \A i \in Items : i > item' \/ i = item' => i > item
  BY <1>1, <1>4, ItemsBefore
<1>7. /\ block_index \in Nat /\ block_started \in BOOLEAN /\ thinking_block_started \in BOOLEAN
      /\ shown \in [Items -> Shown] /\ buffered \subseteq Items
  BY <1>1 DEF TypeOK, Held
<1>8. tool' # NoTool /\ tool'.item = item' /\ tool'.name = name
  BY <1>2, <1>4, <1>6, NoToolTyped
<1>9. InStep'
  BY <1>1, <1>2, <1>4, <1>8, CallSync
<1>10. /\ shown' \in [Items -> Shown] /\ block_index' \in Nat
  BY <1>2, <1>7, SentStays DEF AfterThinking, AfterBlock
<1>11. TypeOK'
  <2>1. tool' \in [item : Nat, name : {"none", "Read", "other"}]
    BY <1>2, <1>6
  <2> QED
    BY <1>2, <1>4, <1>7, <1>9, <1>10, <2>1 DEF TypeOK, InStep, Held
<1>12. OpenBlock' = "tool_use" /\ ~BetweenItems'
  BY <1>2, <1>4, <1>8 DEF OpenBlock, BetweenItems
<1>13. Shape'
  <2> SUFFICES ASSUME Orderly
               PROVE  Shape'
    BY <1>4, SameServer DEF Shape
  <2>1. /\ Blocks \in Nat /\ Blocks <= item /\ buffered = {}
        /\ ~(thinking_block_started /\ block_started)
    BY <1>1, IndexBound
  <2>2. block_index' = Blocks
    BY <1>2, <1>7, <2>1 DEF AfterThinking, AfterBlock, Blocks, OpenBlock
  <2>3. Blocks' = block_index' + 1
    BY <1>12 DEF Blocks
  <2>4. Blocks' <= item'
    BY <1>4, <1>6, <2>1, <2>2, <2>3
  <2>5. tool'.name # "Read"
    BY <1>2, <1>8 DEF Orderly
  <2> QED
    BY <1>2, <1>4, <1>12, <2>1, <2>4, <2>5 DEF Shape
<1>14. UpstreamOK'
  <2>1. tool'.item \in 1..item' /\ ~(tool'.item < item')
    BY <1>4, <1>6, <1>8
  <2> QED
    BY <1>4, <1>5, <1>6, <1>8, <1>12, <2>1 DEF UpstreamOK
<1>15. ~Settled(item)'
  BY <1>4, <1>6, <1>12 DEF Settled
<1>16. Once'
  <2> SUFFICES ASSUME Prosaic
               PROVE  Once'
    BY <1>4, SameServer DEF Once
  <2>1. ASSUME NEW i \in Items, Settled(i)'
        PROVE  SentAs(i, up.due[i])'
    <3>1. Settled(i) /\ up'.due[i] = up.due[i]
      BY <1>4, <1>6, <1>15, <2>1
    <3>2. CountsAs(shown'[i], up.due[i])
      BY <1>1, <1>2, <3>1, FinalizedOnce
    <3> QED
      BY <3>1, <3>2 DEF SentAs
  <2>2. ASSUME NEW i \in Items, i > item' \/ i = item'
        PROVE  SentAs(i, "none")'
    <3>1. CountsAs(shown'[i], "none")
      BY <1>1, <1>2, <1>6, <2>2, NotSentYet
    <3> QED
      BY <3>1 DEF SentAs
  <2>3. \A i \in Items : Pending(i)' => i = item'
    BY <1>8 DEF Pending
  <2>4. SentAs(item, "none")'
    BY <1>4, <2>2 DEF SentAs
  <2>5. SentAs(item, IF arguments # "none" /\ tool.name # "Read" THEN "tool" ELSE "none")'
    BY <1>2, <2>4
  <2> QED
    BY <1>1, <1>2, <1>4, <1>8, <2>1, <2>2, <2>3, <2>5 DEF Once
<1>17. Somehow'
  <2>1. ASSUME NEW i \in Items, Settled(i)', up'.due[i] # "none"
        PROVE  SentAtAll(i)' \/ i \in buffered'
    <3>1. Settled(i) /\ up'.due[i] = up.due[i]
      BY <1>4, <1>6, <1>15, <2>1
    <3> QED
      BY <1>1, <1>2, <2>1, <3>1, FinalizedSomehow
  <2> QED
    BY <1>2, <1>4, <2>1 DEF Somehow
<1> QED
  BY <1>9, <1>11, <1>13, <1>14, <1>16, <1>17 DEF IInv, InStep

\* A chunk of the arguments: sent, unless they are Read's.
LEMMA CallArgumentsKeeps ==
  ASSUME IInv, NEW all \in BOOLEAN, CallArguments(all)
  PROVE  IInv'
<1>1. TypeOK /\ Sync /\ Announces /\ Unfinished /\ Shape /\ UpstreamOK /\ Once /\ Somehow
  BY DEF IInv
<1> DEFINE s == IF all THEN "between" ELSE "call"
           read == tool.name = "Read"
           calls == IF arguments = "none" THEN {item} ELSE {}
<1>2. /\ ReadingLine /\ up.stage = "call" /\ up' = [up EXCEPT !.stage = s]
      /\ arguments' = IF all THEN "all" ELSE "some"
      /\ read => EmitNothing /\ UNCHANGED shown
      /\ ~read => Emit(<<A!BlockDelta(block_index, "tool_use")>>) /\ Sent({}, calls)
      /\ UNCHANGED <<block_index, block_started, thinking_block_started, tool, buffered, client>>
  BY DEF CallArguments
<1>3. s \in Stages /\ s \in {"between", "call"} /\ (s = "between" => all)
  BY DEF Stages
<1> HIDE DEF s
<1>4. /\ up' \in Upstreams /\ up'.server = up.server /\ up'.stage = s
      /\ up'.due = up.due /\ up'.text = up.text /\ up'.cut = up.cut
      /\ up'.called = up.called /\ up'.complete = up.complete /\ item' = item
  BY <1>1, <1>2, <1>3, StageSet
<1>5. /\ item \in Items /\ item \in Nat /\ tool.item = item /\ tool # NoTool
      /\ tool.name \in {"Read", "other"} /\ ~up.complete
      /\ shown \in [Items -> Shown]
  <2>1. item \in Items /\ item \in Nat /\ tool.item = item /\ ~up.complete
    BY <1>1, <1>2, UpFields DEF UpstreamOK
  <2>2. tool # NoTool
    BY <2>1, NoToolTyped DEF Items
  <2> QED
    BY <1>1, <2>1, <2>2 DEF UpstreamOK, TypeOK
<1>6. OpenBlock' = OpenBlock /\ Blocks' = Blocks
  BY <1>2 DEF OpenBlock, Blocks
<1>7. InStep'
  <2>1. CASE read
    <3>1. UNCHANGED <<message_started, ended, out>>
      BY <1>2, <2>1 DEF EmitNothing
    <3> QED
      BY <1>1, <1>2, <1>4, <1>6, <3>1, QuietSync
  <2>2. CASE ~read
    <3>1. Orderly => OpenBlock = "tool_use"
      BY <1>1, <1>2 DEF Shape
    <3> QED
      BY <1>1, <1>2, <1>4, <2>2, <3>1, ArgumentsSync
  <2> QED
    BY <2>1, <2>2
\* What is shown of the items.
<1>8. /\ shown' \in [Items -> Shown]
      /\ \A i \in Items : SentAtAll(i) => SentAtAll(i)'
      /\ \A i \in Items : i # item \/ read => shown'[i] = shown[i]
      /\ ~read /\ arguments = "none" => SentAtAll(item)'
      /\ ~read /\ arguments = "none" /\ CountsAs(shown[item], "none")
            => CountsAs(shown'[item], "tool")
      /\ arguments # "none" => shown'[item] = shown[item]
  <2>1. CASE read
    BY <1>2, <1>5, <2>1 DEF SentAtAll
  <2>2. CASE ~read
    <3>1. Sent({}, calls)
      BY <1>2, <2>2
    <3>2. /\ shown' \in [Items -> Shown]
          /\ \A i \in Items : SentAtAll(i) => SentAtAll(i)'
          /\ \A i \in calls \cap Items : SentAtAll(i)'
      BY <1>5, <3>1, SentStays DEF SentAtAll
    <3>3. \A i \in Items : i # item => shown'[i] = shown[i]
      BY <1>5, <3>1, SentOnceMore
    <3>4. arguments = "none" /\ CountsAs(shown[item], "none") => CountsAs(shown'[item], "tool")
      BY <1>5, <3>1, SentOnceMore
    <3>5. arguments # "none" => shown'[item] = shown[item]
      BY <1>5, <3>1, SentOnceMore
    <3>6. arguments = "none" => SentAtAll(item)'
      <4>1. arguments = "none" => item \in calls \cap Items
        BY <1>5
      <4>2. arguments = "none" => shown'[item].text + shown'[item].tool > 0
        BY <3>2, <4>1 DEF SentAtAll
      <4> QED
        BY <1>4, <4>2 DEF SentAtAll
    <3> QED
      BY <2>2, <3>2, <3>3, <3>4, <3>5, <3>6
  <2> QED
    BY <2>1, <2>2
<1>9. TypeOK'
  BY <1>1, <1>2, <1>4, <1>7, <1>8 DEF TypeOK, InStep, Held
<1>10. Shape'
  BY <1>1, <1>2, <1>3, <1>4, <1>6, SameServer DEF Shape
<1>11. BetweenItems' => all
  BY <1>3, <1>4 DEF BetweenItems
<1>12. UpstreamOK'
  BY <1>1, <1>2, <1>3, <1>4, <1>5, <1>11 DEF UpstreamOK
<1>13. \A i \in Items : Settled(i)' => (i = item /\ all) \/ (i # item /\ Settled(i))
  BY <1>4, <1>5, <1>11 DEF Settled, Items
<1>14. \A i \in Items : Pending(i)' <=> Pending(i)
  BY <1>2 DEF Pending
<1>15. arguments' # "none"
  BY <1>2
<1>16. Once'
  <2> SUFFICES ASSUME Prosaic
               PROVE  Once'
    BY <1>4, SameServer DEF Once
  <2>1. /\ up.due[item] = "tool"
        /\ CountsAs(shown[item], IF arguments # "none" /\ ~read THEN "tool" ELSE "none")
    BY <1>1, <1>2, <1>5 DEF Once, SentAs
  <2>2. CountsAs(shown'[item], IF ~read THEN "tool" ELSE "none")
    BY <1>5, <1>8, <2>1
  <2>3. ASSUME NEW i \in Items, Settled(i)', ~Pending(i)'
        PROVE  SentAs(i, up.due[i])'
    <3>1. CASE i = item
      <4>1. ~read
        BY <1>2, <1>5, <2>3, <3>1 DEF Pending
      <4>2. CountsAs(shown'[i], up.due[i])
        BY <2>1, <2>2, <3>1, <4>1
      <4> QED
        BY <1>4, <4>2 DEF SentAs
    <3>2. CASE i # item
      <4>1. CountsAs(shown'[i], up.due[i])
        BY <1>1, <1>8, <1>13, <1>14, <2>3, <3>2 DEF Once, SentAs
      <4> QED
        BY <1>4, <4>1 DEF SentAs
    <3> QED
      BY <3>1, <3>2
  <2>4. ASSUME NEW i \in Items, i > item' \/ Pending(i)'
        PROVE  SentAs(i, "none")'
    <3>1. i # item \/ read
      BY <1>4, <1>5, <1>14, <2>4 DEF Pending
    <3>2. CountsAs(shown[i], "none")
      BY <1>1, <1>4, <1>14, <2>4 DEF Once, SentAs
    <3>3. CountsAs(shown'[i], "none")
      BY <1>8, <3>1, <3>2
    <3> QED
      BY <3>3 DEF SentAs
  <2>5. SentAs(item, IF arguments # "none" /\ tool.name # "Read" THEN "tool" ELSE "none")'
    BY <1>2, <1>4, <1>15, <2>2 DEF SentAs
  <2> QED
    BY <1>1, <1>2, <1>3, <1>4, <2>3, <2>4, <2>5 DEF Once
<1>17. Somehow'
  <2>1. ~read => SentAtAll(item)'
    <3>1. ~read /\ arguments # "none" => SentAtAll(item)
      BY <1>1, <1>2 DEF Somehow
    <3>2. ~read /\ arguments # "none" => SentAtAll(item)'
      <4>1. ~read /\ arguments # "none" => shown'[item].text + shown'[item].tool > 0
        BY <1>8, <3>1 DEF SentAtAll
      <4> QED
        BY <1>4, <4>1 DEF SentAtAll
    <3> QED
      BY <1>8, <3>2
  <2>2. ASSUME NEW i \in Items, Settled(i)', up'.due[i] # "none"
        PROVE  SentAtAll(i)' \/ i \in buffered' \/ Pending(i)'
    <3>1. CASE i = item
      <4>1. read => Pending(i)'
        BY <1>2, <1>5, <3>1 DEF Pending
      <4>2. ~read => SentAtAll(i)'
        BY <1>4, <2>1, <3>1 DEF SentAtAll
      <4> QED
        BY <4>1, <4>2
    <3>2. CASE i # item
      <4>1. SentAtAll(i) \/ i \in buffered \/ Pending(i)
        BY <1>1, <1>4, <1>13, <2>2, <3>2 DEF Somehow
      <4> QED
        BY <1>2, <1>8, <1>14, <4>1
    <3> QED
      BY <3>1, <3>2
  <2> QED
    BY <1>2, <1>3, <1>4, <2>1, <2>2 DEF Somehow
<1> QED
  BY <1>7, <1>9, <1>10, <1>12, <1>16, <1>17 DEF IInv, InStep

\* What a content delta does whatever becomes of its text.
LEMMA ContentDelta ==
  ASSUME IInv, NEW d \in {"plain", "whole", "open", "more", "close"}, Content(d)
  PROVE  /\ up' \in Upstreams /\ up'.server = up.server /\ up'.stage = "content"
         /\ up'.due = up.due /\ up'.text = up.text /\ up'.cut # "none"
         /\ up'.called = up.called /\ up'.complete = up.complete /\ item' = item
         /\ ReadingLine /\ up.stage = "content" /\ DeltaFits(d) /\ client' = client
         /\ tool' = NoTool /\ arguments' = "none"
         /\ item \in Items /\ item \in Nat /\ item <= MaxItems
         /\ tool.item < item /\ ~up.complete
         /\ \A i \in Items : Settled(i)' <=> Settled(i)
         /\ ~Settled(item) /\ ~BetweenItems'
         /\ \A i \in Items : ~Pending(i)'
         /\ Prosaic => up.text = "prose" /\ d = "plain"
<1>1. TypeOK /\ Shape /\ UpstreamOK /\ Once
  BY DEF IInv
<1> DEFINE c == IF d = "more" /\ up.cut # "none" THEN up.cut ELSE d
<1>2. /\ ReadingLine /\ up.stage = "content" /\ DeltaFits(d) /\ client' = client
      /\ tool' = NoTool /\ arguments' = "none"
      /\ up' = [up EXCEPT !.cut = IF d = "more" /\ @ # "none" THEN @ ELSE d]
  BY DEF Content
<1>3. c \in Cuts /\ c # "none" /\ up' = [up EXCEPT !.cut = c]
  BY <1>1, <1>2, UpFields DEF Cuts, TypeOK, Upstreams
<1> HIDE DEF c
<1>4. /\ up' \in Upstreams /\ up'.server = up.server /\ up'.stage = up.stage
      /\ up'.due = up.due /\ up'.text = up.text /\ up'.cut = c
      /\ up'.called = up.called /\ up'.complete = up.complete /\ item' = item
  BY <1>1, <1>3, CutSet
<1>5. /\ item \in Items /\ item \in Nat /\ item <= MaxItems
      /\ tool.item < item /\ ~up.complete
  BY <1>1, <1>2, UpFields DEF UpstreamOK, TypeOK
<1>6. ~BetweenItems /\ ~BetweenItems'
  BY <1>2, <1>4 DEF BetweenItems
<1>7. (\A i \in Items : Settled(i)' <=> Settled(i)) /\ ~Settled(item)
  BY <1>4, <1>5, <1>6 DEF Settled
<1>8. \A i \in Items : ~Pending(i)'
  BY <1>2, NoToolTyped DEF Pending
<1>9. Prosaic => up.text = "prose" /\ d = "plain"
  BY <1>1, <1>2 DEF Once, DeltaFits
<1> QED
  BY <1>2, <1>3, <1>4, <1>5, <1>6, <1>7, <1>8, <1>9

\* A content delta keeps the invariant, given what becomes of its text: what is held
\* and sent, and where an orderly upstream gets the message to.
LEMMA ContentKeepsIf ==
  ASSUME IInv, NEW d \in {"plain", "whole", "open", "more", "close"}, Content(d),
         InStep', block_index' \in Nat, block_started' \in BOOLEAN,
         thinking_block_started' \in BOOLEAN, buffered' \subseteq Items,
         shown' \in [Items -> Shown],
         Orderly => /\ buffered' = {} /\ OpenBlock' = "text" /\ Blocks' <= item
                    /\ ~(thinking_block_started' /\ block_started'),
         Prosaic => /\ buffered' = {} /\ CountsAs(shown'[item], "text")
                    /\ \A i \in Items : Settled(i) => CountsAs(shown'[i], up.due[i])
                    /\ \A i \in Items : i > item => CountsAs(shown'[i], "none"),
         \A i \in Items : (Settled(i) /\ up.due[i] # "none") \/ i = item
                             => SentAtAll(i)' \/ i \in buffered'
  PROVE  IInv'
<1>1. /\ up' \in Upstreams /\ up'.server = up.server /\ up'.stage = "content"
      /\ up'.due = up.due /\ up'.text = up.text /\ up'.cut # "none"
      /\ up'.complete = up.complete /\ item' = item
      /\ tool' = NoTool /\ arguments' = "none"
      /\ item \in Items /\ item \in Nat /\ item <= MaxItems /\ ~up.complete
      /\ \A i \in Items : Settled(i)' <=> Settled(i)
      /\ ~BetweenItems'
      /\ \A i \in Items : ~Pending(i)'
  BY ContentDelta
<1>2. TypeOK'
  BY <1>1, NoToolTyped DEF TypeOK, InStep, Held
<1>3. Shape'
  <2> SUFFICES ASSUME Orderly
               PROVE  Shape'
    BY <1>1, SameServer DEF Shape
  <2>1. up'.text \in {"none", "prose"} /\ tool'.name # "Read"
    BY <1>1, NoToolTyped DEF IInv, Shape
  <2> QED
    BY <1>1, <2>1 DEF Shape
<1>4. UpstreamOK'
  <2>1. tool'.item < item'
    BY <1>1, NoToolTyped DEF Items
  <2> QED
    BY <1>1, <2>1 DEF UpstreamOK
<1>5. Once'
  <2> SUFFICES ASSUME Prosaic
               PROVE  Once'
    BY <1>1, SameServer DEF Once
  <2>1. up'.text \in {"none", "prose"} /\ up.due[item] = "text"
    <3>1. up.stage = "content"
      BY ContentDelta
    <3> QED
      BY <1>1, <3>1 DEF IInv, Once
  <2>2. \A i \in Items : Settled(i)' => SentAs(i, up.due[i])'
    BY <1>1 DEF SentAs
  <2>3. \A i \in Items : i > item' => SentAs(i, "none")'
    BY <1>1 DEF SentAs
  <2>4. SentAs(item, IF up.cut = "none" THEN "none" ELSE "text")'
    BY <1>1 DEF SentAs
  <2> QED
    BY <1>1, <2>1, <2>2, <2>3, <2>4 DEF Once
<1>6. Somehow'
  <2>1. SentAtAll(item)' \/ item' \in buffered'
    <3>1. \A i \in Items : i = item => SentAtAll(i)' \/ i \in buffered'
      OBVIOUS
    <3> QED
      BY <1>1, <3>1 DEF SentAtAll
  <2> QED
    BY <1>1, <2>1 DEF Somehow
<1> QED
  BY <1>2, <1>3, <1>4, <1>5, <1>6 DEF IInv, InStep

\* A content delta: the pending call is finalized, and the text is held back, or sent
\* with what is held back, or sent by itself.
LEMMA ContentKeeps ==
  ASSUME IInv, NEW d \in {"plain", "whole", "open", "more", "close"}, Content(d)
  PROVE  IInv'
<1>1. TypeOK /\ Sync /\ Announces /\ Unfinished /\ Shape /\ UpstreamOK /\ Once /\ Somehow
  BY DEF IInv
<1>2. /\ up'.server = up.server /\ ReadingLine /\ client' = client /\ tool' = NoTool
      /\ item \in Items /\ item \in Nat /\ item <= MaxItems /\ tool.item < item
      /\ up.stage = "content" /\ ~Settled(item)
      /\ Prosaic => up.text = "prose" /\ d = "plain"
  BY ContentDelta
<1>3. /\ block_index \in Nat /\ block_started \in BOOLEAN /\ thinking_block_started \in BOOLEAN
      /\ buffered \subseteq Items /\ shown \in [Items -> Shown]
  BY <1>1 DEF TypeOK, Held
<1> DEFINE before  == Finalized(block_index, block_started)
           started == block_started /\ tool = NoTool
           i       == IF block_started /\ ~started THEN block_index + 1 ELSE block_index
           j       == AfterThinking(i)
           hold    == ~started /\ ShouldBuffer(d)
           parses  == d = "close" /\ buffered = {item}
           p       == IF thinking_block_started THEN "thinking"
                      ELSE IF started THEN "text" ELSE "none"
<1>4. \/ /\ hold
         /\ Emit(before)
         /\ buffered' = buffered \cup {item}
         /\ block_index' = i /\ block_started' = started
         /\ Sent({}, Calls)
         /\ UNCHANGED thinking_block_started
      \/ /\ ~hold /\ buffered # {}
         /\ Emit(before \o FlushEvents(parses, i))
         /\ block_index' = IF parses THEN i + 1 ELSE i
         /\ block_started' = ~parses
         /\ IF parses THEN Sent({}, Calls \cup {item})
                      ELSE Sent(buffered \cup {item}, Calls)
         /\ buffered' = {}
         /\ UNCHANGED thinking_block_started
      \/ /\ ~hold /\ buffered = {}
         /\ Emit(before
                 \o CloseThinking(i)
                 \o (IF started THEN << >> ELSE <<A!BlockStart(j, "text")>>)
                 \o <<A!BlockDelta(j, "text")>>)
         /\ block_index' = j
         /\ block_started' = TRUE /\ thinking_block_started' = FALSE
         /\ Sent(IF up.cut = "none" THEN {item} ELSE {}, Calls)
         /\ UNCHANGED buffered
  BY DEF Content
<1>5. /\ started \in BOOLEAN /\ i \in Nat /\ parses \in BOOLEAN
      /\ Orderly => i <= Blocks /\ (~started => AfterThinking(i) = Blocks)
      /\ Takes(before, block_index, OpenBlock, i, p)
  BY <1>1, ContentFinalizes
<1>6. CASE hold /\ buffered' = buffered \cup {item}
  <2>1. /\ hold /\ Emit(before) /\ buffered' = buffered \cup {item}
        /\ block_index' = i /\ block_started' = started /\ Sent({}, Calls)
        /\ UNCHANGED thinking_block_started
    BY <1>4, <1>6
  <2>2. ~Prosaic /\ ~Orderly
    <3>1. ~Prosaic
      BY <1>1, <1>2, <2>1 DEF ShouldBuffer, Once
    <3> QED
      BY <3>1, OrderlyTyped
  <2>3. InStep'
    BY <1>1, <1>2, <2>1, HeldSync
  <2>4. shown' \in [Items -> Shown]
    BY <1>3, <2>1, SentStays
  <2>5. ASSUME NEW k \in Items, (Settled(k) /\ up.due[k] # "none") \/ k = item
        PROVE  SentAtAll(k)' \/ k \in buffered'
    <3>1. CASE k = item
      BY <2>1, <3>1
    <3>2. CASE Settled(k) /\ up.due[k] # "none"
      <4>1. SentAtAll(k)' \/ k \in buffered
        BY <1>1, <2>1, <3>2, FinalizedSomehow
      <4> QED
        BY <2>1, <4>1
    <3> QED
      BY <2>5, <3>1, <3>2
  <2>6. /\ block_index' \in Nat /\ block_started' \in BOOLEAN
        /\ thinking_block_started' \in BOOLEAN /\ buffered' \subseteq Items
    BY <1>2, <1>3, <1>5, <2>1
  <2> HIDE DEF before, started, i, j, hold, parses, p
  <2> QED
    BY <2>2, <2>3, <2>4, <2>5, <2>6, ContentKeepsIf
<1>7. CASE ~hold /\ buffered # {}
  <2>1. /\ Emit(before \o FlushEvents(parses, i))
        /\ block_index' = IF parses THEN i + 1 ELSE i
        /\ block_started' = ~parses
        /\ IF parses THEN Sent({}, Calls \cup {item})
                     ELSE Sent(buffered \cup {item}, Calls)
        /\ buffered' = {}
        /\ UNCHANGED thinking_block_started
    BY <1>4, <1>7
  <2>2. ~Prosaic /\ ~Orderly
    BY <1>1, <1>7 DEF Once, Shape
  <2>3. block_index' \in Nat /\ block_started' \in BOOLEAN
        /\ thinking_block_started' \in BOOLEAN /\ buffered' \subseteq Items
    BY <1>3, <1>5, <2>1
  <2> DEFINE texts == IF parses THEN {} ELSE buffered \cup {item}
             calls == IF parses THEN Calls \cup {item} ELSE Calls
  <2>4. /\ Sent(texts, calls) /\ Calls \subseteq calls
        /\ \A k : k \in buffered \/ k = item => k \in texts \cup calls
    BY <2>1
  <2> HIDE DEF before, started, i, j, hold, parses, p
  <2>5. InStep'
    BY <1>1, <1>2, <1>5, <2>1, <2>2, FlushedSync
  <2> HIDE DEF texts, calls
  <2>6. /\ shown' \in [Items -> Shown]
        /\ \A k \in (texts \cup calls) \cap Items : SentAtAll(k)'
    BY <1>3, <2>4, SentStays DEF SentAtAll
  <2>7. ASSUME NEW k \in Items, (Settled(k) /\ up.due[k] # "none") \/ k = item
        PROVE  SentAtAll(k)' \/ k \in buffered'
    <3>1. CASE k = item
      BY <2>4, <2>6, <3>1
    <3>2. CASE Settled(k) /\ up.due[k] # "none"
      <4>1. SentAtAll(k)' \/ k \in buffered
        BY <1>1, <2>4, <3>2, FinalizedSomehow
      <4> QED
        BY <2>4, <2>6, <4>1
    <3> QED
      BY <2>7, <3>1, <3>2
  <2> QED
    BY <2>2, <2>3, <2>5, <2>6, <2>7, ContentKeepsIf
<1>8. CASE ~hold /\ buffered = {} /\ buffered' = {}
  <2>1. /\ Emit(before
                \o CloseThinking(i)
                \o (IF started THEN << >> ELSE <<A!BlockStart(j, "text")>>)
                \o <<A!BlockDelta(j, "text")>>)
        /\ block_index' = j
        /\ block_started' = TRUE /\ thinking_block_started' = FALSE
        /\ Sent(IF up.cut = "none" THEN {item} ELSE {}, Calls)
    BY <1>4, <1>8
  <2>2. InStep'
    BY <1>1, <1>2, <2>1, SentSync
  <2>3. j \in Nat /\ block_index' \in Nat
    BY <1>5, <2>1 DEF AfterThinking
  <2>4. OpenBlock' = "text" /\ Blocks' = j + 1
    BY <1>2, <2>1 DEF OpenBlock, Blocks
  <2>5. Orderly => Blocks' <= item
    <3> SUFFICES ASSUME Orderly
                 PROVE  Blocks' <= item
      OBVIOUS
    <3>1. /\ Blocks \in Nat /\ Blocks <= item
          /\ ~(thinking_block_started /\ block_started)
      BY <1>1, IndexBound
    <3>2. CASE started
      <4>1. i = block_index /\ OpenBlock = "text" /\ j = block_index
        BY <1>3, <3>1, <3>2 DEF OpenBlock, AfterThinking
      <4>2. Blocks = block_index + 1
        BY <4>1 DEF Blocks
      <4> QED
        BY <2>4, <3>1, <4>1, <4>2
    <3>3. CASE ~started
      <4>1. j = Blocks
        BY <1>5, <3>3
      <4>2. OpenBlock # "text"
        BY <3>3 DEF OpenBlock
      <4>3. Blocks + 1 <= item
        BY <1>1, <1>2, <4>2 DEF Shape
      <4> QED
        BY <2>4, <4>1, <4>3
    <3> QED
      BY <3>2, <3>3
  <2> DEFINE texts == IF up.cut = "none" THEN {item} ELSE {}
  <2>6. Sent(texts, Calls)
    BY <2>1
  <2>7. item \notin Calls
    BY <1>2 DEF Calls, HeldBack
  <2> HIDE DEF before, started, i, j, hold, parses, p, texts
  <2>8. /\ shown' \in [Items -> Shown]
        /\ \A k \in Items : SentAtAll(k) => SentAtAll(k)'
        /\ \A k \in (texts \cup Calls) \cap Items : SentAtAll(k)'
    BY <1>3, <2>6, SentStays DEF SentAtAll
  <2>9. \A k \in Items : k # item => k \notin texts
    BY DEF texts
  <2>10. ASSUME Prosaic
         PROVE  /\ CountsAs(shown'[item], "text")
                /\ \A k \in Items : Settled(k) => CountsAs(shown'[k], up.due[k])
                /\ \A k \in Items : k > item => CountsAs(shown'[k], "none")
    <3>1. CountsAs(shown[item], IF up.cut = "none" THEN "none" ELSE "text")
      BY <1>1, <1>2, <2>10 DEF Once, SentAs
    <3>2. ASSUME up.cut = "none"
          PROVE  CountsAs(shown'[item], "text")
      <4>1. item \in texts
        BY <3>2 DEF texts
      <4> QED
        BY <1>2, <1>3, <2>6, <2>7, <3>1, <3>2, <4>1, SentOnceMore
    <3>3. ASSUME up.cut # "none"
          PROVE  CountsAs(shown'[item], "text")
      <4>1. item \notin texts
        BY <3>3 DEF texts
      <4>2. shown'[item] = shown[item]
        BY <1>2, <1>3, <2>6, <2>7, <4>1, SentOnceMore
      <4> QED
        BY <3>1, <3>3, <4>2
    <3>4. CountsAs(shown'[item], "text")
      BY <3>2, <3>3
    <3>5. ASSUME NEW k \in Items, Settled(k)
          PROVE  CountsAs(shown'[k], up.due[k])
      BY <1>1, <1>2, <2>6, <2>9, <2>10, <3>5, FinalizedOnce
    <3>6. ASSUME NEW k \in Items, k > item
          PROVE  CountsAs(shown'[k], "none")
      <4>1. k # item
        BY <1>2, <3>6
      <4> QED
        BY <1>1, <2>6, <2>9, <2>10, <3>6, <4>1, NotSentYet
    <3> QED
      BY <3>4, <3>5, <3>6
  <2>11. ASSUME NEW k \in Items, (Settled(k) /\ up.due[k] # "none") \/ k = item
         PROVE  SentAtAll(k)'
    <3>1. CASE k = item
      <4>1. CASE up.cut = "none"
        <5>1. k \in texts
          BY <3>1, <4>1 DEF texts
        <5> QED
          BY <2>8, <5>1
      <4>2. CASE up.cut # "none"
        <5>1. SentAtAll(k)
          BY <1>1, <1>2, <1>8, <3>1, <4>2 DEF Somehow, SentAtAll
        <5> QED
          BY <2>8, <5>1
      <4> QED
        BY <4>1, <4>2
    <3>2. CASE Settled(k) /\ up.due[k] # "none"
      <4>1. SentAtAll(k)' \/ k \in buffered
        BY <1>1, <2>6, <3>2, FinalizedSomehow
      <4> QED
        BY <1>8, <4>1
    <3> QED
      BY <2>11, <3>1, <3>2
  <2> QED
    BY <1>8, <2>1, <2>2, <2>3, <2>4, <2>5, <2>8, <2>10, <2>11, ContentKeepsIf
<1> QED
  BY <1>4, <1>6, <1>7, <1>8

-----------------------------------------------------------------------------
(* The theorems *)

\* The invariant holds before the first line.
LEMMA InitEstablishes ==
  ASSUME Init
  PROVE  IInv
<1>1. PICK s \in Servers :
        up = [server |-> s, stage |-> "between", due |-> << >>, text |-> "none",
              cut |-> "none", called |-> FALSE, complete |-> FALSE]
  BY DEF Init
<1>2. /\ up \in Upstreams /\ item = 0 /\ up.stage = "between" /\ up.called = FALSE
      /\ up.complete = FALSE /\ up.text = "none" /\ up.cut = "none"
  <2>1. s \in Server
    BY ChatAssumption
  <2>2. << >> \in Seq(Forms) /\ Len(<< >>) = 0
    OBVIOUS
  <2> QED
    BY <1>1, <2>1, <2>2 DEF Upstreams, Stages, Texts, Cuts, item
<1>3. A!Nothing \in Clients(FALSE) /\ A!Nothing.phase = "before"
      /\ A!Nothing.next = 0 /\ A!Nothing.open = "none"
  BY DEF A!Nothing, Clients
<1>4. /\ message_started = FALSE /\ ended = FALSE /\ out = << >> /\ client = A!Nothing
      /\ shown = [i \in Items |-> [text |-> 0, tool |-> 0]]
      /\ block_index = 0 /\ block_started = FALSE /\ thinking_block_started = FALSE
      /\ tool = NoTool /\ arguments = "none" /\ buffered = {}
  BY DEF Init, OutputInit
<1>5. /\ shown \in [Items -> Shown]
      /\ \A i \in Items : shown[i].text = 0 /\ shown[i].tool = 0
  BY <1>4 DEF Shown
<1>6. TypeOK
  <2>1. out \in Seq(AnyEvent) /\ item <= MaxItems
    BY <1>2, <1>4, StreamAssumption
  <2> QED
    BY <1>2, <1>3, <1>4, <1>5, <2>1, NoToolTyped DEF TypeOK, Told, Held
<1>7. OpenBlock = "none" /\ Blocks = 0
  BY <1>4 DEF OpenBlock, Blocks
<1>8. Sync
  <2>1. Path(client, out, client, Orderly, FALSE)
    BY <1>3, <1>4, OrderlyTyped, PathNone
  <2>2. Matches(client)
    BY <1>3, <1>4, <1>7 DEF Matches
  <2> QED
    BY <1>3, <1>4, <2>1, <2>2 DEF Sync
<1>9. Announces /\ Unfinished
  BY <1>3, <1>4 DEF Announces, Unfinished
<1>10. Shape /\ UpstreamOK
  BY <1>2, <1>4, <1>7, NoToolTyped DEF Shape, UpstreamOK
<1>11. Once /\ Somehow
  <2>1. \A i \in Items : ~(i <= item)
    BY <1>2 DEF Items
  <2>2. \A i \in Items : SentAs(i, "none")
    BY <1>5 DEF SentAs, CountsAs
  <2> QED
    BY <1>2, <1>4, <2>1, <2>2 DEF Once, Somehow, Settled
<1> QED
  BY <1>6, <1>8, <1>9, <1>10, <1>11 DEF IInv

\* Every step keeps the invariant.
LEMMA NextKeeps ==
  ASSUME IInv, [Next]_vars
  PROVE  IInv'
<1>1. CASE UNCHANGED vars
  <2>1. UNCHANGED <<up, state, output>>
    BY <1>1 DEF vars
  <2>2. /\ UNCHANGED <<message_started, ended, out, client, shown, block_index, block_started,
                       thinking_block_started, tool>>
        /\ up' = up /\ up'.server = up.server
    BY <2>1 DEF state, output
  <2>3. InStep'
    <3>1. TypeOK /\ Sync /\ Announces /\ Unfinished
      BY DEF IInv
    <3>2. OpenBlock' = OpenBlock
      BY <2>2 DEF OpenBlock
    <3> QED
      BY <2>2, <3>1, <3>2, QuietSync
  <2> QED
    BY <2>1, <2>2, <2>3, StillKeeps
<1>2. ASSUME NEW t \in {"prose", "toolcall", "half"}, BeginContent(t)
      PROVE  IInv'
  BY <1>2, BeginContentKeeps
<1>3. ASSUME NEW d \in {"plain", "whole", "open", "more", "close"}, Content(d)
      PROVE  IInv'
  BY <1>3, ContentKeeps
<1>4. ASSUME NEW name \in {"Read", "other"}, CallStart(name)
      PROVE  IInv'
  BY <1>4, CallStartKeeps
<1>5. ASSUME NEW all \in BOOLEAN, CallArguments(all)
      PROVE  IInv'
  BY <1>5, CallArgumentsKeeps
<1>6. ASSUME NEW reason \in {"tool_calls", "stop", "length"}, Finish(reason)
      PROVE  IInv'
  BY <1>6, FinishKeeps
<1>7. CASE Reasoning
  BY <1>7, ReasoningKeeps
<1>8. CASE ContentOver
  BY <1>8, ContentOverKeeps
<1>9. CASE Done
  BY <1>9, DoneKeeps
<1>10. CASE ErrorChunk
  BY <1>10, ErrorChunkKeeps
<1>11. CASE Cut
  BY <1>11, CutKeeps
<1>12. CASE Eof
  BY <1>12, EofKeeps
<1>13. CASE Finalize
  BY <1>13, FinalizeKeeps
<1>14. CASE Yield
  BY <1>14, YieldKeeps
<1>15. CASE Upstream
  BY <1>2, <1>3, <1>4, <1>5, <1>6, <1>7, <1>8, <1>9, <1>10, <1>11, <1>12, <1>15 DEF Upstream
<1> QED
  BY <1>1, <1>13, <1>14, <1>15 DEF Next

\* The inductive invariant: translator, client and upstream are in step (Sync,
\* Announces, Unfinished, UpstreamOK), an orderly upstream brings about no more blocks
\* than items (Shape), and every item the upstream is done with was sent or is held
\* back (Once, Somehow).
THEOREM InvariantHolds == Spec => []IInv
<1>1. Init => IInv
  BY InitEstablishes
<1>2. IInv /\ [Next]_vars => IInv'
  BY NextKeeps
<1> QED
  BY <1>1, <1>2, PTL DEF Spec

\* The client changes in Yield only.
LEMMA OnlyYieldIsSeen ==
  ASSUME [Next]_vars, ~Yield
  PROVE  client' = client /\ up'.server = up.server
<1>1. CASE UNCHANGED vars
  BY <1>1 DEF vars, output
<1>2. ASSUME NEW s, NEW t, NEW f, Begin(s, t, f)
      PROVE  up'.server = up.server
  BY <1>2 DEF Begin
<1>3. CASE Upstream
  <2>1. CASE Reasoning
    BY <1>2, <2>1 DEF Reasoning
  <2>2. CASE \E t \in {"prose", "toolcall", "half"} : BeginContent(t)
    BY <1>2, <2>2 DEF BeginContent, output
  <2>3. CASE \E d \in {"plain", "whole", "open", "more", "close"} : Content(d)
    BY <2>3 DEF Content
  <2>4. CASE ContentOver
    BY <2>4 DEF ContentOver, output
  <2>5. CASE \E name \in {"Read", "other"} : CallStart(name)
    BY <1>2, <2>5 DEF CallStart
  <2>6. CASE \E all \in BOOLEAN : CallArguments(all)
    BY <2>6 DEF CallArguments
  <2>7. CASE \E reason \in {"tool_calls", "stop", "length"} : Finish(reason)
    BY <2>7 DEF Finish
  <2>8. CASE Done
    BY <2>8 DEF Done
  <2>9. CASE Eof
    BY <2>9 DEF Eof
  <2>10. CASE ErrorChunk \/ Cut
    BY <2>10 DEF ErrorChunk, Cut
  <2> QED
    BY <1>3, <2>1, <2>2, <2>3, <2>4, <2>5, <2>6, <2>7, <2>8, <2>9, <2>10 DEF Upstream
<1>4. CASE Finalize
  BY <1>4 DEF Finalize
<1> QED
  BY <1>1, <1>3, <1>4 DEF Next

\* The upstream of a complete response is done with all of its items, and when the
\* client has its end nothing is held back.
LEMMA SettledAtTheEnd ==
  ASSUME IInv, Over(up.complete), NEW i \in DOMAIN up.due
  PROVE  /\ i \in Items /\ Settled(i) /\ up.due[i] \in Forms /\ shown[i] \in Shown
         /\ i \notin buffered /\ ~Pending(i)
<1>1. TypeOK /\ UpstreamOK /\ up.complete /\ client.phase = "stopped"
  BY DEF IInv, Over
<1>2. /\ up.due \in Seq(Forms) /\ item \in Nat /\ MaxItems \in Nat /\ item <= MaxItems
      /\ shown \in [Items -> Shown]
  BY <1>1, UpFields DEF TypeOK
<1>3. i \in 1..item /\ up.due[i] \in Forms
  BY <1>2 DEF item
<1>4. i \in Items /\ i <= item
  BY <1>2, <1>3 DEF Items
<1>5. Settled(i)
  BY <1>1, <1>4 DEF Settled
<1>6. buffered = {}
  BY <1>1 DEF IInv, Unfinished, UpstreamOK
<1>7. ~Pending(i)
  BY <1>1, NothingPending DEF UpstreamOK
<1> QED
  BY <1>2, <1>3, <1>4, <1>5, <1>6, <1>7

\* Text and calls reach the client once, the arguments of Read too, which are held
\* back until the call is finalized, wherever that happens.
THEOREM EachItemOnce == Spec => []ContentOnce
<1>1. IInv => ContentOnce
  <2> SUFFICES ASSUME IInv, Prosaic, Over(up.complete), NEW i \in DOMAIN up.due
               PROVE  SentAs(i, up.due[i])
    BY DEF ContentOnce, SentOnce, Prosaic
  <2>1. i \in Items /\ Settled(i) /\ ~Pending(i)
    BY SettledAtTheEnd
  <2> QED
    BY <2>1 DEF IInv, Once
<1> QED
  BY <1>1, InvariantHolds, PTL

\* The end of a stream is always told, and nothing is dropped that was held back
\* for being perhaps a textual call.
THEOREM NothingIsLost == Spec => []NothingLost
<1>1. IInv => EndIsTold
  <2> SUFFICES ASSUME IInv, ended, out = << >>
               PROVE  client.phase \in {"stopped", "failed"}
    BY DEF EndIsTold
  <2>1. PICK d \in Clients(FALSE) : Path(client, out, d, Orderly, FALSE) /\ Matches(d)
    BY DEF IInv, Sync
  <2>2. client = d
    BY <2>1, OrderlyTyped, PathDone
  <2> QED
    BY <2>1, <2>2 DEF Matches
<1>2. ASSUME IInv
      PROVE  SentSomehow(up.complete, up.due)
  <2> SUFFICES ASSUME Over(up.complete), NEW i \in DOMAIN up.due, up.due[i] # "none"
               PROVE  shown[i].text + shown[i].tool > 0
    BY DEF SentSomehow
  <2>1. i \in Items /\ Settled(i) /\ i \notin buffered /\ ~Pending(i)
    BY <1>2, SettledAtTheEnd
  <2> QED
    BY <1>2, <2>1 DEF IInv, Somehow, SentAtAll
<1>3. IInv => NothingLost
  BY <1>1, <1>2 DEF NothingLost
<1> QED
  BY <1>3, InvariantHolds, PTL

\* The abstract specification speaks of the same events.
LEMMA SamePromise ==
  /\ Promise!Events = A!Events /\ Promise!Nothing = A!Nothing
  /\ \A c, e : /\ Promise!Legal(c, e) <=> A!Legal(c, e)
               /\ Promise!After(c, e) = A!After(c, e)
<1>1. Promise!Events = A!Events
  BY DEF Promise!Events, A!Events, Promise!MessageStart, A!MessageStart, Promise!MessageStop,
         A!MessageStop, Promise!Error, A!Error, Promise!BlockStart, A!BlockStart,
         Promise!BlockDelta, A!BlockDelta, Promise!BlockStop, A!BlockStop,
         Promise!MessageDelta, A!MessageDelta, Promise!BlockTypes, A!BlockTypes,
         Promise!StopReasons, A!StopReasons
<1>2. Promise!Nothing = A!Nothing
  BY DEF Promise!Nothing, A!Nothing
<1>3. ASSUME NEW c, NEW e
      PROVE  /\ Promise!Legal(c, e) <=> A!Legal(c, e)
             /\ Promise!After(c, e) = A!After(c, e)
  BY DEF Promise!Legal, A!Legal, Promise!After, A!After
<1> QED
  BY <1>1, <1>2, <1>3

\* The translator implements AnthropicStream: what an orderly upstream makes the
\* client see is a legal stream, event by event (refinement, with the client as the
\* mapped variable).
THEOREM StreamIsLegal == Spec => LegalStream
<1> DEFINE seen == IF Orderly THEN client ELSE A!Nothing
<1>1. Init => Promise!Init
  BY SamePromise DEF Init, OutputInit, Promise!Init
<1>2. IInv /\ [Next]_vars => [Promise!Next]_seen
  <2> SUFFICES ASSUME IInv, [Next]_vars
               PROVE  [Promise!Next]_seen
    OBVIOUS
  <2>1. CASE ~Yield
    <3>1. seen' = seen
      BY <2>1, OnlyYieldIsSeen, SameServer
    <3> QED
      BY <3>1
  <2>2. CASE Yield /\ ~Orderly
    <3>1. Orderly' = Orderly
      BY <2>2, SameServer DEF Yield
    <3> QED
      BY <2>2, <3>1
  <2>3. CASE Yield /\ Orderly
    <3>1. Orderly' = Orderly
      BY <2>3, SameServer DEF Yield
    <3>2. A!Legal(client, out[1]) /\ out[1] \in A!Events
      BY <2>3, YieldKeeps
    <3>3. client' = A!After(client, out[1])
      BY <2>3 DEF Yield, YieldEvent
    <3>4. seen = client /\ seen' = client'
      BY <2>3, <3>1
    <3>5. Promise!Legal(seen, out[1]) /\ seen' = Promise!After(seen, out[1])
      BY <3>2, <3>3, <3>4, SamePromise
    <3> QED
      BY <3>2, <3>5, SamePromise DEF Promise!Next
  <2> QED
    BY <2>1, <2>2, <2>3
<1> QED
  BY <1>1, <1>2, InvariantHolds, PTL DEF Spec, LegalStream, Promise!Spec
=============================================================================
