------------------------ MODULE ResponsesStreamProofs ------------------------
(***************************************************************************)
(* Proofs about ResponsesStream: that it implements AnthropicStream for    *)
(* orderly upstreams, that the end and the stop reason are told, and that  *)
(* nothing is lost or sent twice, for responses of any length from any     *)
(* server.                                                                 *)
(***************************************************************************)
EXTENDS ResponsesStream, StreamOutputProofs

-----------------------------------------------------------------------------
(* The inductive invariant *)

Stages == {"between", "message", "text_done", "part_done", "call", "over", "eof"}
Forms == {"text", "tool", "none"}
Texts == {"none", "prose", "toolcall", "half"}
Cuts == {"none", "plain", "whole", "open", "close"}

Upstreams == [ server : Server, stage : Stages, due : Seq(Forms), text : Texts, cut : Cuts,
               streamed : SUBSET Nat, first : Nat, complete : BOOLEAN ]

TypeOK ==
    /\ up \in Upstreams
    /\ item <= MaxItems /\ up.first <= item
    /\ block_index \in Nat /\ block_started \in BOOLEAN /\ has_tool_use \in BOOLEAN
    /\ stop_reason \in {"end_turn", "max_tokens"} /\ saw_text_delta \in BOOLEAN
    /\ tool \in {"none", "Read", "other"} /\ saw_args \in BOOLEAN
    /\ buffered \subseteq Items
    /\ message_started \in BOOLEAN /\ ended \in BOOLEAN
    /\ out \in Seq(AnyEvent) /\ client \in Clients(TRUE)
    /\ shown \in [Items -> Shown]

\* The block the translator believes the client has open.
OpenBlock ==
    IF ~block_started THEN "none" ELSE IF tool # "none" THEN "tool_use" ELSE "text"

\* The client that has seen all the translator has made is where the translator
\* believes it to be.
Matches(d) ==
    IF ended THEN d.phase \in {"stopped", "failed"}
    ELSE /\ d.phase = IF message_started THEN "content" ELSE "before"
         /\ d.tools = has_tool_use
         /\ Orderly => d.next = block_index /\ d.open = OpenBlock

\* What waits in `out' leads the client there.
Sync == \E d \in Clients(TRUE) : Path(client, out, d, Orderly, TRUE) /\ Matches(d)

Announces == block_started => message_started

\* The blocks of the message, counting an open one.
Blocks == IF block_started THEN block_index + 1 ELSE block_index

\* What an orderly upstream never brings about; above all, that the message has at most
\* one block for each item.
Shape ==
    Orderly =>
    /\ buffered = {} /\ up.text \in {"none", "prose"} /\ up.cut \in {"none", "plain"}
    /\ up.stage = "call" => tool # "none" /\ block_started
    /\ tool # "none" => up.stage \in {"call", "eof"}
    /\ block_started /\ tool = "none" => saw_text_delta
    /\ up.stage \in {"text_done", "part_done"} => saw_text_delta
    /\ up.stage = "part_done" => ~block_started
    /\ ~MayOmit("text_done") /\ up.stage \in {"part_done", "between"} => ~block_started
    /\ block_index <= item
    /\ up.stage \notin {"over", "eof"} => Blocks <= item
    /\ up.stage = "message" => block_index + 1 <= item

\* The upstream is done with item i.
Settled(i) ==
    /\ i <= item
    /\ \/ i < item
       \/ up.stage \in {"between", "text_done", "part_done", "over"}
       \/ up.stage = "eof" /\ up.complete

SentAtAll(i) == shown[i].text + shown[i].tool > 0

\* Only a response that has ended is complete, and an item is begun before its events.
UpstreamOK ==
    /\ up.complete => up.stage \in {"over", "eof"}
    /\ up.stage = "over" => up.complete
    /\ up.stage \in {"message", "call"} => item \in Items
    /\ up.stage = "call" => up.cut \in {"none", "plain"}

Once ==
    Prosaic /\ ~MayOmit("text_done") =>
    /\ \A i \in Items : Settled(i) => SentAs(i, up.due[i])
    /\ \A i \in Items : i > item => SentAs(i, "none")
    /\ up.stage = "message" =>
          /\ item \in Items /\ up.due[item] = "text"
          /\ up.cut = "plain" <=> block_started
          /\ SentAs(item, IF up.cut = "none" THEN "none" ELSE "text")
    /\ up.stage = "call" =>
          /\ item \in Items /\ up.due[item] = "tool"
          /\ up.cut = "plain" <=> saw_args
          /\ SentAs(item, IF saw_args /\ tool # "Read" THEN "tool" ELSE "none")
    /\ up.first # 0 => \/ saw_text_delta
                       \/ up.stage = "message"
                       \/ up.stage = "eof"

Somehow ==
    ~MayOmit("text_done") /\ ~MayOmit("deltas") =>
    /\ \A i \in Items : Settled(i) /\ up.due[i] # "none" => SentAtAll(i)
    /\ buffered # {} => up.stage = "message" /\ buffered = {item}
    /\ up.stage = "message" /\ up.cut # "none" => SentAtAll(item) \/ item \in buffered
    /\ up.stage \in {"message", "call"} => item \in Items
    /\ up.stage = "call" => (up.cut = "plain" <=> saw_args)
    /\ up.stage = "call" /\ saw_args /\ tool # "Read" => SentAtAll(item)

IInv == TypeOK /\ Sync /\ Announces /\ Shape /\ UpstreamOK /\ Once /\ Somehow

-----------------------------------------------------------------------------
(* The upstream *)

\* What the fields of the upstream are.
LEMMA UpFields ==
  ASSUME TypeOK
  PROVE  /\ up.server \in Server /\ up.stage \in Stages /\ up.due \in Seq(Forms)
         /\ up.text \in Texts /\ up.cut \in Cuts /\ up.streamed \in SUBSET Nat
         /\ up.first \in Nat /\ up.complete \in BOOLEAN /\ item \in Nat /\ MaxItems \in Nat
BY StreamAssumption DEF TypeOK, Upstreams, item

\* Stage changes the stage alone.
LEMMA StageSet ==
  ASSUME TypeOK, NEW s \in Stages, Stage(s)
  PROVE  /\ up' \in Upstreams /\ up'.server = up.server /\ up'.stage = s
         /\ up'.due = up.due /\ up'.text = up.text /\ up'.cut = up.cut
         /\ up'.streamed = up.streamed
         /\ up'.first = up.first /\ up'.complete = up.complete /\ item' = item
BY DEF TypeOK, Upstreams, Stage, item

\* A delta changes how the item is cut, and what came in deltas.
LEMMA CutSet ==
  ASSUME TypeOK, NEW c \in Cuts, NEW S \in SUBSET Nat,
         up' = [up EXCEPT !.cut = c, !.streamed = S]
  PROVE  /\ up' \in Upstreams /\ up'.server = up.server /\ up'.stage = up.stage
         /\ up'.due = up.due /\ up'.text = up.text /\ up'.cut = c /\ up'.streamed = S
         /\ up'.first = up.first /\ up'.complete = up.complete /\ item' = item
BY DEF TypeOK, Upstreams, item

\* The last event of a response ends it.
LEMMA Ended ==
  ASSUME TypeOK, up' = [up EXCEPT !.stage = "over", !.complete = TRUE]
  PROVE  /\ up' \in Upstreams /\ up'.server = up.server /\ up'.stage = "over"
         /\ up'.due = up.due /\ up'.text = up.text /\ up'.cut = up.cut
         /\ up'.streamed = up.streamed
         /\ up'.first = up.first /\ up'.complete = TRUE /\ item' = item
BY DEF TypeOK, Upstreams, item, Stages

\* Begin adds one item, which is due in the form it is given, and keeps the others.
LEMMA Begun ==
  ASSUME TypeOK, NEW s \in Stages, NEW t \in Texts, NEW f \in Forms, Begin(s, t, f)
  PROVE  /\ up' \in Upstreams /\ up'.server = up.server /\ up'.stage = s
         /\ up'.text = t /\ up'.cut = "none" /\ up'.complete = up.complete
         /\ up'.streamed = up.streamed
         /\ item' = item + 1 /\ item' \in Items /\ item' <= MaxItems
         /\ \A i \in 1..item : up'.due[i] = up.due[i]
         /\ up'.due[item'] = f
         /\ up'.first = (IF up.first = 0 /\ t # "none" THEN item + 1 ELSE up.first)
         /\ up'.first <= item'
         /\ ReadingLine /\ up.stage = "between"
<1> DEFINE due == Append(up.due, f)
           first == IF up.first = 0 /\ t # "none" THEN item + 1 ELSE up.first
<1>1. /\ up \in Upstreams /\ up.due \in Seq(Forms) /\ item \in Nat /\ up.first \in Nat
      /\ MaxItems \in Nat /\ up.first <= item
  BY UpFields DEF TypeOK
<1>2. /\ ReadingLine /\ up.stage = "between" /\ item < MaxItems
      /\ up' = [up EXCEPT !.stage = s, !.due = Append(@, f), !.text = t, !.cut = "none",
                          !.first = IF @ = 0 /\ t # "none" THEN item + 1 ELSE @]
  BY DEF Begin
<1>3. /\ due \in Seq(Forms) /\ Len(due) = item + 1 /\ due[item + 1] = f
      /\ \A i \in 1..item : due[i] = up.due[i]
  BY <1>1 DEF item
<1>4. first \in Nat /\ first <= item + 1
  BY <1>1
<1>5. up' = [up EXCEPT !.stage = s, !.due = due, !.text = t, !.cut = "none", !.first = first]
  BY <1>1, <1>2 DEF Upstreams
<1>6. "none" \in Cuts
  BY DEF Cuts
<1> HIDE DEF due, first
<1>7. /\ up' \in Upstreams /\ up'.server = up.server /\ up'.stage = s /\ up'.due = due
      /\ up'.text = t /\ up'.cut = "none" /\ up'.first = first /\ up'.complete = up.complete
      /\ up'.streamed = up.streamed
  BY <1>1, <1>3, <1>4, <1>5, <1>6 DEF Upstreams
<1>8. item' = item + 1
  BY <1>3, <1>7 DEF item
<1>9. item' \in Items /\ item' <= MaxItems
  BY <1>1, <1>2, <1>8 DEF Items
<1> QED
  BY <1>1, <1>2, <1>3, <1>4, <1>7, <1>8, <1>9 DEF first

\* The server is what it was.
LEMMA SameServer ==
  ASSUME up'.server = up.server
  PROVE  /\ Orderly' = Orderly /\ Prosaic' = Prosaic
         /\ MayOmit("text_done")' = MayOmit("text_done")
         /\ MayOmit("deltas")' = MayOmit("deltas")
<1>1. Prosaic' = Prosaic
  BY DEF Prosaic
<1>2. /\ MayOmit("text_done")' = MayOmit("text_done")
      /\ MayOmit("deltas")' = MayOmit("deltas")
  BY DEF MayOmit
<1>3. Orderly' = Orderly
  BY <1>1, <1>2 DEF Orderly
<1> QED
  BY <1>1, <1>2, <1>3

\* Whether an upstream is orderly is yes or no.
LEMMA OrderlyTyped == Orderly \in BOOLEAN
BY DEF Orderly

\* Orderly upstreams include all the servers of ContentOnce.
LEMMA OrderlyThen == Prosaic /\ ~MayOmit("text_done") => Orderly
BY DEF Orderly

-----------------------------------------------------------------------------
(* Where the client is *)

\* When a line is read, the client is where the translator believes it to be.
LEMMA Reading ==
  ASSUME TypeOK, Sync, ReadingLine
  PROVE  /\ client \in Clients(TRUE)
         /\ client.phase = IF message_started THEN "content" ELSE "before"
         /\ client.tools = has_tool_use
         /\ Orderly => client.next = block_index /\ client.open = OpenBlock
<1>1. out = << >> /\ ~ended
  BY DEF ReadingLine
<1>2. PICK d \in Clients(TRUE) : Path(client, out, d, Orderly, TRUE) /\ Matches(d)
  BY DEF Sync
<1>3. client = d
  BY <1>1, <1>2, OrderlyTyped, PathDone
<1> QED
  BY <1>1, <1>2, <1>3 DEF Matches

\* An open message, with the block open that the translator believes to be.
Following(b) ==
    /\ b.phase = "content" /\ b.tools = has_tool_use
    /\ Orderly => b.next = block_index /\ b.open = OpenBlock

Told ==
    /\ message_started \in BOOLEAN /\ ended \in BOOLEAN
    /\ out \in Seq(AnyEvent) /\ client \in Clients(TRUE)

\* A list of events that leads a message the client has open to where the
\* translator believes it to be keeps the two in step, whether or not message_start
\* goes before it.
LEMMA EmittedSync ==
  ASSUME TypeOK, Sync, ReadingLine, up'.server = up.server, client' = client,
         NEW es \in Seq(AnyEvent), es # << >>, es[1] # A!Error, Emit(es),
         \A b \in Clients(TRUE) : Following(b)
           => \E d \in Clients(TRUE) : /\ Path(b, es, d, Orderly, TRUE)
                                       /\ d.phase = "content" /\ d.tools = has_tool_use'
                                       /\ Orderly => /\ d.next = block_index'
                                                     /\ d.open = OpenBlock'
  PROVE  Sync' /\ Told' /\ message_started' = TRUE /\ ended' = FALSE
<1>1. /\ client \in Clients(TRUE)
      /\ client.phase = IF message_started THEN "content" ELSE "before"
      /\ client.tools = has_tool_use
      /\ Orderly => client.next = block_index /\ client.open = OpenBlock
  BY Reading
<1>2. message_started \in BOOLEAN /\ ended = FALSE
  BY DEF TypeOK, ReadingLine
<1>3. /\ out' \in Seq(AnyEvent) /\ message_started' = TRUE /\ ended' = ended
      /\ \E b \in Clients(TRUE) :
           /\ b.phase = "content" /\ b.open = client.open /\ b.next = client.next
           /\ b.tools = client.tools
           /\ \A d : Path(b, es, d, Orderly, TRUE) => Path(client, out', d, Orderly, TRUE)
  BY <1>1, <1>2, OrderlyTyped, EmitLeads
<1>4. PICK b \in Clients(TRUE) :
           /\ b.phase = "content" /\ b.open = client.open /\ b.next = client.next
           /\ b.tools = client.tools
           /\ \A d : Path(b, es, d, Orderly, TRUE) => Path(client, out', d, Orderly, TRUE)
  BY <1>3
<1>5. Following(b)
  BY <1>1, <1>4 DEF Following
<1>6. PICK d \in Clients(TRUE) :
        /\ Path(b, es, d, Orderly, TRUE)
        /\ d.phase = "content" /\ d.tools = has_tool_use'
        /\ Orderly => d.next = block_index' /\ d.open = OpenBlock'
  BY <1>5
<1>7. Path(client', out', d, Orderly', TRUE)
  BY <1>4, <1>6, SameServer
<1>8. Matches(d)'
  BY <1>2, <1>3, <1>6, SameServer DEF Matches
<1> QED
  BY <1>1, <1>2, <1>3, <1>7, <1>8 DEF Sync, Told

\* Nothing is made for this line.
LEMMA QuietSync ==
  ASSUME TypeOK, Sync, up'.server = up.server,
         UNCHANGED <<message_started, ended, out, client, block_index, has_tool_use>>,
         OpenBlock' = OpenBlock
  PROVE  Sync' /\ Told'
<1>1. PICK d \in Clients(TRUE) : Path(client, out, d, Orderly, TRUE) /\ Matches(d)
  BY DEF Sync
<1>2. Path(client', out', d, Orderly', TRUE)
  BY <1>1, SameServer
<1>3. Matches(d)'
  BY <1>1, SameServer DEF Matches
<1> QED
  BY <1>2, <1>3 DEF Sync, Told, TypeOK

\* An error event.
LEMMA ErrorSync ==
  ASSUME TypeOK, Sync, ReadingLine, up'.server = up.server, client' = client,
         Emit(<<A!Error>>)
  PROVE  Sync' /\ Told' /\ message_started' = message_started /\ ended' = TRUE
<1>1. client \in Clients(TRUE) /\ client.phase # "stopped"
  BY Reading
<1>2. /\ out' \in Seq(AnyEvent) /\ message_started' = message_started /\ ended' = TRUE
      /\ \E d \in Clients(TRUE) :
           Path(client, out', d, Orderly, TRUE) /\ d.phase = "failed"
  BY <1>1, OrderlyTyped, ErrorEmitted
<1>3. PICK d \in Clients(TRUE) :
           Path(client, out', d, Orderly, TRUE) /\ d.phase = "failed"
  BY <1>2
<1>4. Path(client', out', d, Orderly', TRUE)
  BY <1>3, SameServer
<1>5. Matches(d)'
  BY <1>2, <1>3 DEF Matches
<1> QED
  BY <1>1, <1>2, <1>4, <1>5 DEF Sync, Told, TypeOK

\* The last events.
LEMMA LastSync ==
  ASSUME TypeOK, Sync, ReadingLine, up'.server = up.server, client' = client,
         NEW es \in Seq(AnyEvent), EmitLast(es),
         \E d \in Clients(TRUE) : /\ Path(client, es, d, Orderly, TRUE)
                                  /\ d.phase \in {"stopped", "failed"}
  PROVE  Sync' /\ Told' /\ message_started' = message_started /\ ended' = TRUE
<1>1. out' = es /\ ended' = TRUE /\ message_started' = message_started
  BY DEF EmitLast
<1>2. PICK d \in Clients(TRUE) : /\ Path(client, es, d, Orderly, TRUE)
                                 /\ d.phase \in {"stopped", "failed"}
  OBVIOUS
<1>3. Path(client', out', d, Orderly', TRUE)
  BY <1>1, <1>2, SameServer
<1>4. Matches(d)'
  BY <1>1, <1>2 DEF Matches
<1> QED
  BY <1>1, <1>3, <1>4 DEF Sync, Told, TypeOK

-----------------------------------------------------------------------------
(* Where each list of events takes the client *)

\* The types of blocks a translator opens.
LEMMA TextTyped == "text" \in A!BlockTypes /\ "tool_use" \in A!BlockTypes
                   /\ "thinking" \in A!BlockTypes
BY DEF A!BlockTypes

\* A block of text and its one delta (emit_text_block).
LEMMA TextBlockSync ==
  ASSUME TypeOK, Sync, ReadingLine, up'.server = up.server, client' = client, tool' = tool,
         NEW i, EmitTextBlock(i),
         Orderly => ~block_started /\ tool = "none" /\ block_index <= MaxItems
  PROVE  Sync' /\ Told' /\ message_started' = TRUE /\ ended' = FALSE
<1> DEFINE es == <<A!BlockStart(block_index, "text"), A!BlockDelta(block_index, "text")>>
<1>1. /\ Emit(es) /\ block_started' = TRUE
      /\ has_tool_use' = has_tool_use /\ block_index' = block_index
  BY DEF EmitTextBlock
<1>2. block_index \in Nat /\ has_tool_use \in BOOLEAN
  BY DEF TypeOK
<1>3. es \in Seq(AnyEvent) /\ es # << >> /\ es[1] # A!Error
  BY <1>2, EventsTyped, NoError, TextTyped
<1>4. ASSUME NEW b \in Clients(TRUE), Following(b)
      PROVE  \E d \in Clients(TRUE) : /\ Path(b, es, d, Orderly, TRUE)
                                      /\ d.phase = "content" /\ d.tools = has_tool_use'
                                      /\ Orderly => /\ d.next = block_index'
                                                    /\ d.open = OpenBlock'
  <2>1. b.phase = "content" /\ b.tools = has_tool_use
    BY <1>4 DEF Following
  <2>2. Orderly => b.open = "none" /\ b.next = block_index /\ block_index <= MaxItems
    BY <1>4 DEF Following, OpenBlock
  <2> DEFINE d == After2(b, A!BlockStart(block_index, "text"), A!BlockDelta(block_index, "text"))
  <2>3. /\ d \in Clients(TRUE) /\ Path(b, es, d, Orderly, TRUE)
        /\ d.phase = "content" /\ d.open = "text" /\ d.next = b.next
        /\ d.tools = b.tools
    BY <1>2, <2>1, <2>2, OrderlyTyped, TextLeads
  <2> HIDE DEF d
  <2>4. d.tools = has_tool_use'
    BY <1>1, <1>2, <2>1, <2>3, ClientFields
  <2>5. Orderly => d.next = block_index' /\ d.open = OpenBlock'
    BY <1>1, <2>2, <2>3 DEF OpenBlock
  <2> QED
    BY <2>3, <2>4, <2>5
<1> HIDE DEF es
<1> QED
  BY <1>1, <1>3, <1>4, EmittedSync

\* A textual call, where the translator is.
LEMMA TextualCall ==
  ASSUME NEW b \in Clients(TRUE), b.phase = "content", block_index \in Nat,
         Orderly => b.open = "none" /\ b.next = block_index /\ block_index <= MaxItems
  PROVE  LET d == After2(b, A!BlockStart(block_index, "tool_use"), A!BlockStop(block_index)) IN
         /\ d \in Clients(TRUE)
         /\ Path(b, <<A!BlockStart(block_index, "tool_use"), A!BlockStop(block_index)>>, d,
                 Orderly, TRUE)
         /\ d.phase = "content" /\ d.open = "none" /\ d.next = b.next + 1 /\ d.tools = TRUE
BY OrderlyTyped, CallLeads

\* What flush_buffered_text_or_tool makes, a call or a block of text.
LEMMA FlushSync ==
  ASSUME TypeOK, Sync, ReadingLine, up'.server = up.server, client' = client, tool' = tool,
         NEW S, NEW parses \in BOOLEAN, Flush(S, parses),
         Orderly => ~block_started /\ tool = "none" /\ block_index <= MaxItems
  PROVE  Sync' /\ Told' /\ message_started' = TRUE /\ ended' = FALSE
<1>1. block_index \in Nat /\ has_tool_use \in BOOLEAN
  BY DEF TypeOK
<1>2. CASE parses
  <2> DEFINE es == <<A!BlockStart(block_index, "tool_use"), A!BlockStop(block_index)>>
  <2>1. /\ Emit(es) /\ has_tool_use' = TRUE /\ block_index' = block_index + 1
        /\ block_started' = block_started
    BY <1>2 DEF Flush
  <2>2. es \in Seq(AnyEvent) /\ es # << >> /\ es[1] # A!Error
    BY <1>1, EventsTyped, NoError, TextTyped
  <2>3. ASSUME NEW b \in Clients(TRUE), Following(b)
        PROVE  \E d \in Clients(TRUE) : /\ Path(b, es, d, Orderly, TRUE)
                                        /\ d.phase = "content" /\ d.tools = has_tool_use'
                                        /\ Orderly => /\ d.next = block_index'
                                                      /\ d.open = OpenBlock'
    <3>1. b.phase = "content"
      BY <2>3 DEF Following
    <3>2. Orderly => b.open = "none" /\ b.next = block_index /\ block_index <= MaxItems
      BY <2>3 DEF Following, OpenBlock
    <3> DEFINE d == After2(b, A!BlockStart(block_index, "tool_use"), A!BlockStop(block_index))
    <3>3. /\ d \in Clients(TRUE) /\ Path(b, es, d, Orderly, TRUE)
          /\ d.phase = "content" /\ d.open = "none" /\ d.next = b.next + 1 /\ d.tools = TRUE
      BY <1>1, <3>1, <3>2, TextualCall
    <3> HIDE DEF d
    <3>4. Orderly => d.next = block_index' /\ d.open = OpenBlock'
      BY <2>1, <3>2, <3>3 DEF OpenBlock
    <3> QED
      BY <2>1, <3>3, <3>4
  <2> HIDE DEF es
  <2> QED
    BY <2>1, <2>2, <2>3, EmittedSync
<1>3. CASE ~parses
  <2> DEFINE es == <<A!BlockStart(block_index, "text"), A!BlockDelta(block_index, "text")>>
  <2>1. /\ Emit(es) /\ has_tool_use' = has_tool_use /\ block_index' = block_index
        /\ block_started' = TRUE
    BY <1>3 DEF Flush
  <2>2. es \in Seq(AnyEvent) /\ es # << >> /\ es[1] # A!Error
    BY <1>1, EventsTyped, NoError, TextTyped
  <2>3. ASSUME NEW b \in Clients(TRUE), Following(b)
        PROVE  \E d \in Clients(TRUE) : /\ Path(b, es, d, Orderly, TRUE)
                                        /\ d.phase = "content" /\ d.tools = has_tool_use'
                                        /\ Orderly => /\ d.next = block_index'
                                                      /\ d.open = OpenBlock'
    <3>1. b.phase = "content" /\ b.tools = has_tool_use
      BY <2>3 DEF Following
    <3>2. Orderly => b.open = "none" /\ b.next = block_index /\ block_index <= MaxItems
      BY <2>3 DEF Following, OpenBlock
    <3> DEFINE d == After2(b, A!BlockStart(block_index, "text"),
                           A!BlockDelta(block_index, "text"))
    <3>3. /\ d \in Clients(TRUE) /\ Path(b, es, d, Orderly, TRUE)
          /\ d.phase = "content" /\ d.open = "text" /\ d.next = b.next /\ d.tools = b.tools
      BY <1>1, <3>1, <3>2, OrderlyTyped, TextLeads
    <3> HIDE DEF d
    <3>4. Orderly => d.next = block_index' /\ d.open = OpenBlock'
      BY <2>1, <3>2, <3>3 DEF OpenBlock
    <3> QED
      BY <2>1, <3>1, <3>3, <3>4
  <2> HIDE DEF es
  <2> QED
    BY <2>1, <2>2, <2>3, EmittedSync
<1> QED
  BY <1>2, <1>3

\* The open block is closed.
LEMMA CloseSync ==
  ASSUME TypeOK, Sync, ReadingLine, up'.server = up.server, client' = client,
         Emit(CloseBlock), block_started' = FALSE, block_index' = block_index + 1,
         has_tool_use' = has_tool_use,
         Orderly => block_started /\ block_index <= MaxItems
  PROVE  Sync' /\ Told' /\ message_started' = TRUE /\ ended' = FALSE
<1> DEFINE es == <<A!BlockStop(block_index)>>
<1>1. Emit(es)
  BY DEF CloseBlock
<1>2. block_index \in Nat
  BY DEF TypeOK
<1>3. es \in Seq(AnyEvent) /\ es # << >> /\ es[1] # A!Error
  BY <1>2, EventsTyped, NoError
<1>4. ASSUME NEW b \in Clients(TRUE), Following(b)
      PROVE  \E d \in Clients(TRUE) : /\ Path(b, es, d, Orderly, TRUE)
                                      /\ d.phase = "content" /\ d.tools = has_tool_use'
                                      /\ Orderly => /\ d.next = block_index'
                                                    /\ d.open = OpenBlock'
  <2>1. b.phase = "content" /\ b.tools = has_tool_use
    BY <1>4 DEF Following
  <2>2. Orderly => b.open # "none" /\ b.next = block_index /\ block_index <= MaxItems
    BY <1>4 DEF Following, OpenBlock
  <2> DEFINE d == A!After(b, A!BlockStop(block_index))
  <2>3. /\ d \in Clients(TRUE) /\ Path(b, es, d, Orderly, TRUE)
        /\ d.phase = "content" /\ d.open = "none" /\ d.next = b.next + 1
        /\ d.tools = b.tools
    BY <1>2, <2>1, <2>2, OrderlyTyped, StopLeads
  <2> HIDE DEF d
  <2>4. Orderly => d.next = block_index' /\ d.open = OpenBlock'
    BY <2>2, <2>3 DEF OpenBlock
  <2> QED
    BY <2>1, <2>3, <2>4
<1> HIDE DEF es
<1> QED
  BY <1>1, <1>3, <1>4, EmittedSync

\* A delta of text, of a block that is open or is opened for it.
LEMMA DeltaSync ==
  ASSUME TypeOK, Sync, ReadingLine, up'.server = up.server, client' = client, tool' = tool,
         Emit((IF block_started THEN << >> ELSE <<A!BlockStart(block_index, "text")>>)
              \o <<A!BlockDelta(block_index, "text")>>),
         block_started' = TRUE, UNCHANGED <<has_tool_use, block_index>>,
         Orderly => tool = "none" /\ block_index <= MaxItems
  PROVE  Sync' /\ Told' /\ message_started' = TRUE /\ ended' = FALSE
<1> DEFINE s == A!BlockStart(block_index, "text")
           e == A!BlockDelta(block_index, "text")
           es == (IF ~block_started THEN <<s>> ELSE << >>) \o <<e>>
<1>1. block_index \in Nat /\ has_tool_use \in BOOLEAN /\ block_started \in BOOLEAN
  BY DEF TypeOK
<1>2. s \in AnyEvent /\ e \in AnyEvent /\ s # A!Error /\ e # A!Error
  BY <1>1, EventsTyped, NoError, TextTyped
<1>3. Emit(es)
  OBVIOUS
<1>4. es \in Seq(AnyEvent) /\ es # << >> /\ es[1] # A!Error
  <2> HIDE DEF s, e
  <2>1. CASE block_started
    <3>1. es = <<e>>
      BY <2>1
    <3> QED
      BY <1>2, <3>1
  <2>2. CASE ~block_started
    <3>1. es = <<s, e>>
      BY <1>2, <2>2, TwoEvents
    <3> QED
      BY <1>2, <3>1
  <2> QED
    BY <2>1, <2>2
<1>5. ASSUME NEW b \in Clients(TRUE), Following(b)
      PROVE  \E d \in Clients(TRUE) : /\ Path(b, es, d, Orderly, TRUE)
                                      /\ d.phase = "content" /\ d.tools = has_tool_use'
                                      /\ Orderly => /\ d.next = block_index'
                                                    /\ d.open = OpenBlock'
  <2>1. b.phase = "content" /\ b.tools = has_tool_use
    BY <1>5 DEF Following
  <2>2. /\ Orderly => b.next = block_index /\ block_index <= MaxItems
        /\ Orderly => b.open = IF block_started THEN "text" ELSE "none"
    BY <1>5 DEF Following, OpenBlock
  <2>3. \E a \in Clients(TRUE) :
          /\ IF ~block_started THEN Path(b, <<s>>, a, Orderly, TRUE) ELSE a = b
          /\ a.phase = "content" /\ a.next = b.next /\ a.tools = b.tools
          /\ Orderly => a.open = "text"
    <3>1. CASE block_started
      BY <2>1, <2>2, <3>1
    <3>2. CASE ~block_started
      <4> DEFINE a == A!After(b, A!BlockStart(block_index, "text"))
      <4>1. /\ a \in Clients(TRUE)
            /\ Path(b, <<A!BlockStart(block_index, "text")>>, a, Orderly, TRUE)
            /\ a.phase = "content" /\ a.open = "text" /\ a.next = b.next
            /\ a.tools = b.tools
        BY <1>1, <2>1, <2>2, <3>2, OrderlyTyped, TextStartLeads
      <4> HIDE DEF a
      <4>2. a.tools = b.tools
        BY <4>1, ClientFields
      <4> QED
        BY <3>2, <4>1, <4>2
    <3> QED
      BY <3>1, <3>2
  <2>4. PICK a \in Clients(TRUE) :
          /\ IF ~block_started THEN Path(b, <<s>>, a, Orderly, TRUE) ELSE a = b
          /\ a.phase = "content" /\ a.next = b.next /\ a.tools = b.tools
          /\ Orderly => a.open = "text"
    BY <2>3
  <2> DEFINE d == A!After(a, A!BlockDelta(block_index, "text"))
  <2>5. /\ d \in Clients(TRUE)
        /\ Path(a, <<A!BlockDelta(block_index, "text")>>, d, Orderly, TRUE)
        /\ d.phase = "content" /\ d.open = a.open /\ d.next = a.next /\ d.tools = a.tools
    <3>1. Orderly => a.open = "text" /\ a.next = block_index /\ block_index <= MaxItems
      BY <2>2, <2>4
    <3> QED
      BY <1>1, <2>4, <3>1, OrderlyTyped, TextDeltaLeads
  <2> HIDE DEF s, d
  <2>6. <<s>> \in Seq(AnyEvent) /\ <<e>> \in Seq(AnyEvent)
    BY <1>2
  <2>7. Path(b, es, d, Orderly, TRUE)
    BY <1>1, <2>4, <2>5, <2>6, OrderlyTyped, LeadsThen
  <2>8. Orderly => d.next = block_index' /\ d.open = OpenBlock'
    BY <2>2, <2>4, <2>5 DEF OpenBlock
  <2> QED
    BY <2>1, <2>4, <2>5, <2>7, <2>8
<1> HIDE DEF es
<1> QED
  BY <1>3, <1>4, <1>5, EmittedSync

\* The block of a call, for an index that need not be the translator's.
LEMMA CallBlock ==
  ASSUME NEW a \in Clients(TRUE), a.phase = "content", NEW i \in Nat,
         Orderly => a.open = "none" /\ a.next = i /\ i <= MaxItems
  PROVE  LET d == A!After(a, A!BlockStart(i, "tool_use")) IN
         /\ d \in Clients(TRUE)
         /\ Path(a, <<A!BlockStart(i, "tool_use")>>, d, Orderly, TRUE)
         /\ d.phase = "content" /\ d.open = "tool_use" /\ d.next = a.next /\ d.tools # FALSE
BY OrderlyTyped, CallStartLeads

\* The block of a function call, after the end of the block that is open.
LEMMA CallSync ==
  ASSUME TypeOK, Sync, ReadingLine, up'.server = up.server, client' = client,
         Emit((IF block_started THEN CloseBlock ELSE << >>)
              \o <<A!BlockStart(Blocks, "tool_use")>>),
         block_index' = Blocks, block_started' = TRUE, has_tool_use' = TRUE,
         tool' # "none",
         Orderly => Blocks <= MaxItems
  PROVE  Sync' /\ Told' /\ message_started' = TRUE /\ ended' = FALSE
<1> DEFINE s == A!BlockStop(block_index)
           e == A!BlockStart(Blocks, "tool_use")
           es == (IF block_started THEN <<s>> ELSE << >>) \o <<e>>
<1>1. block_index \in Nat /\ block_started \in BOOLEAN /\ Blocks \in Nat /\ block_index <= Blocks
      /\ MaxItems \in Nat
  <2>1. block_index \in Nat /\ block_started \in BOOLEAN /\ MaxItems \in Nat
    BY StreamAssumption DEF TypeOK
  <2> QED
    BY <2>1 DEF Blocks
<1>2. s \in AnyEvent /\ e \in AnyEvent /\ s # A!Error /\ e # A!Error
  BY <1>1, EventsTyped, NoError, TextTyped
<1>3. Emit(es)
  BY DEF CloseBlock
<1>4. es \in Seq(AnyEvent) /\ es # << >> /\ es[1] # A!Error
  <2> HIDE DEF s, e
  <2>1. CASE ~block_started
    <3>1. es = <<e>>
      BY <2>1
    <3> QED
      BY <1>2, <3>1
  <2>2. CASE block_started
    <3>1. es = <<s, e>>
      BY <1>2, <2>2, TwoEvents
    <3> QED
      BY <1>2, <3>1
  <2> QED
    BY <2>1, <2>2
<1>5. ASSUME NEW b \in Clients(TRUE), Following(b)
      PROVE  \E d \in Clients(TRUE) : /\ Path(b, es, d, Orderly, TRUE)
                                      /\ d.phase = "content" /\ d.tools = has_tool_use'
                                      /\ Orderly => /\ d.next = block_index'
                                                    /\ d.open = OpenBlock'
  <2>1. b.phase = "content"
    BY <1>5 DEF Following
  <2>2. \E a \in Clients(TRUE) :
          /\ IF block_started THEN Path(b, <<s>>, a, Orderly, TRUE) ELSE a = b
          /\ a.phase = "content" /\ (Orderly => a.open = "none" /\ a.next = Blocks)
    <3>1. CASE ~block_started
      <4>1. Orderly => b.open = "none" /\ b.next = Blocks
        BY <1>5, <3>1 DEF Following, OpenBlock, Blocks
      <4> QED
        BY <2>1, <3>1, <4>1
    <3>2. CASE block_started
      <4>1. Orderly => b.open # "none" /\ b.next = block_index /\ block_index <= MaxItems
        BY <1>1, <1>5, <3>2 DEF Following, OpenBlock
      <4> DEFINE a == A!After(b, A!BlockStop(block_index))
      <4>2. /\ a \in Clients(TRUE) /\ Path(b, <<A!BlockStop(block_index)>>, a, Orderly, TRUE)
            /\ a.phase = "content" /\ a.open = "none" /\ a.next = b.next + 1
        BY <1>1, <2>1, <4>1, OrderlyTyped, StopLeads
      <4> HIDE DEF a
      <4>3. Orderly => a.next = Blocks
        BY <3>2, <4>1, <4>2 DEF Blocks
      <4> QED
        BY <3>2, <4>2, <4>3
    <3> QED
      BY <1>1, <3>1, <3>2
  <2>3. PICK a \in Clients(TRUE) :
          /\ IF block_started THEN Path(b, <<s>>, a, Orderly, TRUE) ELSE a = b
          /\ a.phase = "content" /\ (Orderly => a.open = "none" /\ a.next = Blocks)
    BY <2>2
  <2> DEFINE d == A!After(a, A!BlockStart(Blocks, "tool_use"))
  <2>4. /\ d \in Clients(TRUE)
        /\ Path(a, <<A!BlockStart(Blocks, "tool_use")>>, d, Orderly, TRUE)
        /\ d.phase = "content" /\ d.open = "tool_use" /\ d.next = a.next /\ d.tools # FALSE
    <3>1. Orderly => a.open = "none" /\ a.next = Blocks /\ Blocks <= MaxItems
      BY <2>3
    <3>2. a \in Clients(TRUE) /\ a.phase = "content"
      BY <2>3
    <3> QED
      BY <1>1, <3>1, <3>2, CallBlock
  <2> HIDE DEF s, d
  <2>5. <<s>> \in Seq(AnyEvent) /\ <<e>> \in Seq(AnyEvent)
    BY <1>2
  <2>6. Path(b, es, d, Orderly, TRUE)
    BY <1>1, <2>3, <2>4, <2>5, OrderlyTyped, LeadsThen
  <2>7. Orderly => d.next = block_index' /\ d.open = OpenBlock'
    BY <2>3, <2>4 DEF OpenBlock
  <2>8. d.tools = has_tool_use'
    BY <2>4, ClientFields
  <2> QED
    BY <2>4, <2>6, <2>7, <2>8
<1> HIDE DEF es
<1> QED
  BY <1>3, <1>4, <1>5, EmittedSync

\* A delta of a call's arguments.
LEMMA ArgumentsSync ==
  ASSUME TypeOK, Sync, ReadingLine, up'.server = up.server, client' = client,
         Emit(<<A!BlockDelta(block_index, "tool_use")>>),
         UNCHANGED <<block_index, block_started, has_tool_use, tool>>,
         Orderly => block_started /\ tool # "none" /\ block_index <= MaxItems
  PROVE  Sync' /\ Told' /\ message_started' = TRUE /\ ended' = FALSE
<1> DEFINE es == <<A!BlockDelta(block_index, "tool_use")>>
<1>1. block_index \in Nat /\ Emit(es)
  BY DEF TypeOK
<1>2. es \in Seq(AnyEvent) /\ es # << >> /\ es[1] # A!Error
  BY <1>1, EventsTyped, NoError, TextTyped
<1>3. ASSUME NEW b \in Clients(TRUE), Following(b)
      PROVE  \E d \in Clients(TRUE) : /\ Path(b, es, d, Orderly, TRUE)
                                      /\ d.phase = "content" /\ d.tools = has_tool_use'
                                      /\ Orderly => /\ d.next = block_index'
                                                    /\ d.open = OpenBlock'
  <2>1. b.phase = "content" /\ b.tools = has_tool_use
    BY <1>3 DEF Following
  <2>2. Orderly => b.open = "tool_use" /\ b.next = block_index /\ block_index <= MaxItems
    BY <1>3 DEF Following, OpenBlock
  <2> DEFINE d == A!After(b, A!BlockDelta(block_index, "tool_use"))
  <2>3. /\ d \in Clients(TRUE) /\ Path(b, es, d, Orderly, TRUE)
        /\ d.phase = "content" /\ d.open = b.open /\ d.tools = b.tools /\ d.next = b.next
    BY <1>1, <2>1, <2>2, OrderlyTyped, ArgumentsLead
  <2> HIDE DEF d
  <2>4. Orderly => d.next = block_index' /\ d.open = OpenBlock'
    BY <2>2, <2>3 DEF OpenBlock
  <2> QED
    BY <2>1, <2>3, <2>4
<1> HIDE DEF es
<1> QED
  BY <1>1, <1>2, <1>3, EmittedSync

\* The arguments held back, if there are any, and the end of the call's block.
LEMMA CallEndsSync ==
  ASSUME TypeOK, Sync, ReadingLine, up'.server = up.server, client' = client,
         NEW full \in BOOLEAN,
         Emit((IF full THEN <<A!BlockDelta(block_index, "tool_use")>> ELSE << >>) \o CloseBlock),
         block_started' = FALSE, block_index' = block_index + 1, has_tool_use' = has_tool_use,
         Orderly => block_started /\ tool # "none" /\ block_index <= MaxItems
  PROVE  Sync' /\ Told' /\ message_started' = TRUE /\ ended' = FALSE
<1> DEFINE s == A!BlockDelta(block_index, "tool_use")
           e == A!BlockStop(block_index)
           es == (IF full THEN <<s>> ELSE << >>) \o <<e>>
<1>1. block_index \in Nat
  BY DEF TypeOK
<1>2. s \in AnyEvent /\ e \in AnyEvent /\ s # A!Error /\ e # A!Error
  BY <1>1, EventsTyped, NoError, TextTyped
<1>3. Emit(es)
  BY DEF CloseBlock
<1>4. es \in Seq(AnyEvent) /\ es # << >> /\ es[1] # A!Error
  <2> HIDE DEF s, e
  <2>1. CASE ~full
    <3>1. es = <<e>>
      BY <2>1
    <3> QED
      BY <1>2, <3>1
  <2>2. CASE full
    <3>1. es = <<s, e>>
      BY <1>2, <2>2, TwoEvents
    <3> QED
      BY <1>2, <3>1
  <2> QED
    BY <2>1, <2>2
<1>5. ASSUME NEW b \in Clients(TRUE), Following(b)
      PROVE  \E d \in Clients(TRUE) : /\ Path(b, es, d, Orderly, TRUE)
                                      /\ d.phase = "content" /\ d.tools = has_tool_use'
                                      /\ Orderly => /\ d.next = block_index'
                                                    /\ d.open = OpenBlock'
  <2>1. b.phase = "content" /\ b.tools = has_tool_use
    BY <1>5 DEF Following
  <2>2. Orderly => b.open = "tool_use" /\ b.next = block_index /\ block_index <= MaxItems
    BY <1>5 DEF Following, OpenBlock
  <2>3. \E a \in Clients(TRUE) :
          /\ IF full THEN Path(b, <<s>>, a, Orderly, TRUE) ELSE a = b
          /\ a.phase = "content" /\ a.open = b.open /\ a.next = b.next /\ a.tools = b.tools
    <3>1. CASE ~full
      BY <2>1, <3>1
    <3>2. CASE full
      <4> DEFINE a == A!After(b, A!BlockDelta(block_index, "tool_use"))
      <4>1. /\ a \in Clients(TRUE)
            /\ Path(b, <<A!BlockDelta(block_index, "tool_use")>>, a, Orderly, TRUE)
            /\ a.phase = "content" /\ a.open = b.open /\ a.tools = b.tools /\ a.next = b.next
        BY <1>1, <2>1, <2>2, OrderlyTyped, ArgumentsLead
      <4> HIDE DEF a
      <4> QED
        BY <3>2, <4>1
    <3> QED
      BY <3>1, <3>2
  <2>4. PICK a \in Clients(TRUE) :
          /\ IF full THEN Path(b, <<s>>, a, Orderly, TRUE) ELSE a = b
          /\ a.phase = "content" /\ a.open = b.open /\ a.next = b.next /\ a.tools = b.tools
    BY <2>3
  <2> DEFINE d == A!After(a, A!BlockStop(block_index))
  <2>5. /\ d \in Clients(TRUE) /\ Path(a, <<A!BlockStop(block_index)>>, d, Orderly, TRUE)
        /\ d.phase = "content" /\ d.open = "none" /\ d.next = a.next + 1 /\ d.tools = a.tools
    <3>1. Orderly => a.open # "none" /\ a.next = block_index /\ block_index <= MaxItems
      BY <2>2, <2>4
    <3> QED
      BY <1>1, <2>4, <3>1, OrderlyTyped, StopLeads
  <2> HIDE DEF s, e, d
  <2>6. <<s>> \in Seq(AnyEvent) /\ <<e>> \in Seq(AnyEvent)
    BY <1>2
  <2>7. Path(a, <<e>>, d, Orderly, TRUE)
    BY <2>5 DEF e
  <2>8. Path(b, es, d, Orderly, TRUE)
    BY <2>4, <2>6, <2>7, OrderlyTyped, LeadsThen
  <2>9. Orderly => d.next = block_index' /\ d.open = OpenBlock'
    BY <2>2, <2>4, <2>5 DEF OpenBlock
  <2> QED
    BY <2>1, <2>4, <2>5, <2>8, <2>9
<1> HIDE DEF es
<1> QED
  BY <1>3, <1>4, <1>5, EmittedSync

\* A block of thinking (emit_thinking_block).
LEMMA ThoughtSync ==
  ASSUME TypeOK, Sync, ReadingLine, up'.server = up.server, client' = client,
         Emit(<<A!BlockStart(block_index, "thinking"), A!BlockDelta(block_index, "thinking"),
                A!BlockStop(block_index)>>),
         block_index' = block_index + 1, UNCHANGED <<block_started, has_tool_use, tool>>,
         Orderly => ~block_started /\ block_index <= MaxItems
  PROVE  Sync' /\ Told' /\ message_started' = TRUE /\ ended' = FALSE
<1> DEFINE es == <<A!BlockStart(block_index, "thinking"),
                   A!BlockDelta(block_index, "thinking"), A!BlockStop(block_index)>>
<1>1. block_index \in Nat /\ Emit(es)
  BY DEF TypeOK
<1>2. es \in Seq(AnyEvent) /\ es # << >> /\ es[1] # A!Error
  BY <1>1, EventsTyped, NoError, TextTyped
<1>3. ASSUME NEW b \in Clients(TRUE), Following(b)
      PROVE  \E d \in Clients(TRUE) : /\ Path(b, es, d, Orderly, TRUE)
                                      /\ d.phase = "content" /\ d.tools = has_tool_use'
                                      /\ Orderly => /\ d.next = block_index'
                                                    /\ d.open = OpenBlock'
  <2>1. b.phase = "content" /\ b.tools = has_tool_use
    BY <1>3 DEF Following
  <2>2. Orderly => b.open = "none" /\ b.next = block_index /\ block_index <= MaxItems
    BY <1>3 DEF Following, OpenBlock
  <2> DEFINE d == After3(b, A!BlockStart(block_index, "thinking"),
                         A!BlockDelta(block_index, "thinking"), A!BlockStop(block_index))
  <2>3. /\ d \in Clients(TRUE) /\ Path(b, es, d, Orderly, TRUE)
        /\ d.phase = "content" /\ d.open = "none" /\ d.next = b.next + 1 /\ d.tools = b.tools
    BY <1>1, <2>1, <2>2, OrderlyTyped, ThoughtLeads
  <2> HIDE DEF d
  <2>4. Orderly => d.next = block_index' /\ d.open = OpenBlock'
    BY <2>2, <2>3 DEF OpenBlock
  <2> QED
    BY <2>1, <2>3, <2>4
<1> HIDE DEF es
<1> QED
  BY <1>1, <1>2, <1>3, EmittedSync

\* What closes the open block, if there is one, leads from here.
LEMMA ClosedLeads ==
  ASSUME TypeOK, Sync, Announces, ReadingLine, Orderly => block_index <= MaxItems,
         block_started
  PROVE  LET a == A!After(client, A!BlockStop(block_index)) IN
         /\ a \in Clients(TRUE)
         /\ Path(client, <<A!BlockStop(block_index)>>, a, Orderly, TRUE)
         /\ a.phase = "content" /\ a.open = "none" /\ a.tools = has_tool_use
<1>1. /\ client \in Clients(TRUE) /\ client.phase = "content" /\ client.tools = has_tool_use
      /\ Orderly => client.next = block_index /\ client.open = OpenBlock
  BY Reading DEF Announces
<1>2. Orderly => client.open # "none" /\ client.next = block_index /\ block_index <= MaxItems
  BY <1>1 DEF OpenBlock
<1>3. block_index \in Nat
  BY DEF TypeOK
<1>4. client \in Clients(TRUE) /\ client.phase = "content"
  BY <1>1
<1> DEFINE a == A!After(client, A!BlockStop(block_index))
<1>5. /\ a \in Clients(TRUE)
      /\ Path(client, <<A!BlockStop(block_index)>>, a, Orderly, TRUE)
      /\ a.phase = "content" /\ a.open = "none" /\ a.tools = client.tools
  BY <1>2, <1>3, <1>4, OrderlyTyped, StopLeads
<1> HIDE DEF a
<1> QED
  BY <1>1, <1>5 DEF a

\* The end of a stream that was cut off.
LEMMA CutSync ==
  ASSUME TypeOK, Sync, Announces, Orderly => block_index <= MaxItems, Cut
  PROVE  Sync' /\ Told' /\ message_started' = message_started
<1> DEFINE s == A!BlockStop(block_index)
           e == A!Error
           es == (IF block_started THEN <<s>> ELSE << >>) \o <<e>>
<1>1. /\ ReadingLine /\ EmitLast(es) /\ up'.server = up.server /\ client' = client
  BY DEF Cut, CloseBlock
<1>2. block_index \in Nat /\ block_started \in BOOLEAN /\ client \in Clients(TRUE)
  BY DEF TypeOK
<1>3. <<s>> \in Seq(AnyEvent) /\ <<e>> \in Seq(AnyEvent)
  BY <1>2, EventsTyped
<1>4. \E a \in Clients(TRUE) :
        /\ IF block_started THEN Path(client, <<s>>, a, Orderly, TRUE) ELSE a = client
        /\ a.phase # "stopped"
  <2>1. CASE block_started
    <3> DEFINE a == A!After(client, A!BlockStop(block_index))
    <3>1. /\ a \in Clients(TRUE) /\ Path(client, <<s>>, a, Orderly, TRUE)
          /\ a.phase = "content"
      BY <1>1, <2>1, ClosedLeads
    <3> HIDE DEF a
    <3> QED
      BY <2>1, <3>1
  <2>2. CASE ~block_started
    BY <1>1, <2>2, Reading
  <2> QED
    BY <2>1, <2>2
<1>5. PICK a \in Clients(TRUE) :
        /\ IF block_started THEN Path(client, <<s>>, a, Orderly, TRUE) ELSE a = client
        /\ a.phase # "stopped"
  BY <1>4
<1> DEFINE d == A!After(a, A!Error)
<1>6. d \in Clients(TRUE) /\ Path(a, <<e>>, d, Orderly, TRUE) /\ d.phase = "failed"
  BY <1>5, OrderlyTyped, ErrorLeads
<1> HIDE DEF s, e, d
<1>7. es \in Seq(AnyEvent) /\ Path(client, es, d, Orderly, TRUE)
  BY <1>2, <1>3, <1>5, <1>6, OrderlyTyped, LeadsThen
<1> HIDE DEF es
<1> QED
  BY <1>1, <1>6, <1>7, LastSync

\* The end of a stream whose upstream closed it.
LEMMA FinalizeSync ==
  ASSUME TypeOK, Sync, Announces, Orderly => block_index <= MaxItems, Finalize
  PROVE  Sync' /\ Told' /\ message_started' = message_started
<1> DEFINE stop == IF has_tool_use THEN "tool_use" ELSE stop_reason
           s == A!BlockStop(block_index)
           ends == <<A!MessageDelta(stop), A!MessageStop>>
           es == (IF block_started THEN <<s>> ELSE << >>) \o ends
<1>1. /\ ReadingLine /\ up'.server = up.server /\ client' = client
      /\ EmitLast(IF ~message_started THEN <<A!Error>> ELSE es)
  BY DEF Finalize, CloseBlock
<1>2. /\ block_index \in Nat /\ block_started \in BOOLEAN /\ client \in Clients(TRUE)
      /\ has_tool_use \in BOOLEAN /\ stop_reason \in {"end_turn", "max_tokens"}
  BY DEF TypeOK
<1>3. stop \in A!StopReasons /\ (stop = "tool_use" <=> has_tool_use)
  BY <1>2 DEF A!StopReasons
<1>4. CASE ~message_started
  <2>1. client.phase # "stopped"
    BY <1>1, <1>4, Reading
  <2> DEFINE d == A!After(client, A!Error)
  <2>2. d \in Clients(TRUE) /\ Path(client, <<A!Error>>, d, Orderly, TRUE) /\ d.phase = "failed"
    BY <1>2, <2>1, OrderlyTyped, ErrorLeads
  <2>3. <<A!Error>> \in Seq(AnyEvent) /\ EmitLast(<<A!Error>>)
    BY <1>1, <1>4, EventsTyped
  <2> HIDE DEF d
  <2> QED
    BY <1>1, <2>2, <2>3, LastSync
<1>5. CASE message_started
  <2>1. EmitLast(es)
    BY <1>1, <1>5
  <2>2. \E a \in Clients(TRUE) :
          /\ IF block_started THEN Path(client, <<s>>, a, Orderly, TRUE) ELSE a = client
          /\ a.phase = "content" /\ a.tools = has_tool_use /\ (Orderly => a.open = "none")
    <3>1. CASE block_started
      <4> DEFINE a == A!After(client, A!BlockStop(block_index))
      <4>1. /\ a \in Clients(TRUE) /\ Path(client, <<s>>, a, Orderly, TRUE)
            /\ a.phase = "content" /\ a.open = "none" /\ a.tools = has_tool_use
        BY <1>1, <3>1, ClosedLeads
      <4> HIDE DEF a
      <4> QED
        BY <3>1, <4>1
    <3>2. CASE ~block_started
      <4>1. /\ client.phase = "content" /\ client.tools = has_tool_use
            /\ Orderly => client.open = "none"
        BY <1>1, <1>5, <3>2, Reading DEF OpenBlock
      <4> QED
        BY <1>2, <3>2, <4>1
    <3> QED
      BY <3>1, <3>2
  <2>3. PICK a \in Clients(TRUE) :
          /\ IF block_started THEN Path(client, <<s>>, a, Orderly, TRUE) ELSE a = client
          /\ a.phase = "content" /\ a.tools = has_tool_use /\ (Orderly => a.open = "none")
    BY <2>2
  <2> DEFINE d == After2(a, A!MessageDelta(stop), A!MessageStop)
  <2> HIDE DEF stop
  <2>4. stop = "tool_use" <=> a.tools
    BY <1>3, <2>3
  <2>5. /\ d \in Clients(TRUE) /\ Path(a, ends, d, Orderly, TRUE) /\ d.phase = "stopped"
    BY <1>3, <2>3, <2>4, OrderlyTyped, EndLeads
  <2>6. <<s>> \in Seq(AnyEvent) /\ ends \in Seq(AnyEvent)
    BY <1>2, <1>3, EventsTyped
  <2> HIDE DEF s, ends, d
  <2>7. es \in Seq(AnyEvent) /\ Path(client, es, d, Orderly, TRUE)
    BY <1>2, <2>3, <2>5, <2>6, OrderlyTyped, LeadsThen
  <2> HIDE DEF es
  <2> QED
    BY <1>1, <2>1, <2>5, <2>7, LastSync
<1> QED
  BY <1>2, <1>4, <1>5

-----------------------------------------------------------------------------
(* The initial states, and the actions one by one *)

\* The invariant holds of the initial states.
LEMMA InitEstablishes ==
  ASSUME Init
  PROVE  IInv
<1>1. PICK s \in Servers :
        up = [server |-> s, stage |-> "between", due |-> << >>, text |-> "none",
              cut |-> "none", streamed |-> {}, first |-> 0, complete |-> FALSE]
  BY DEF Init
<1>2. /\ up \in Upstreams /\ item = 0 /\ up.stage = "between" /\ up.first = 0
      /\ up.complete = FALSE /\ up.text = "none" /\ up.cut = "none"
  <2>1. s \in Server
    BY ResponsesAssumption
  <2>2. << >> \in Seq(Forms) /\ Len(<< >>) = 0
    OBVIOUS
  <2> QED
    BY <1>1, <2>1, <2>2 DEF Upstreams, Stages, Texts, Cuts, item
<1>3. A!Nothing \in Clients(TRUE) /\ A!Nothing.phase = "before" /\ A!Nothing.tools = FALSE
      /\ A!Nothing.next = 0 /\ A!Nothing.open = "none"
  BY DEF A!Nothing, Clients
<1>4. /\ message_started = FALSE /\ ended = FALSE /\ out = << >> /\ client = A!Nothing
      /\ shown = [i \in Items |-> [text |-> 0, tool |-> 0]]
      /\ block_index = 0 /\ block_started = FALSE /\ has_tool_use = FALSE
      /\ stop_reason = "end_turn" /\ saw_text_delta = FALSE /\ tool = "none"
      /\ saw_args = FALSE /\ buffered = {}
  BY DEF Init, OutputInit
<1>5. /\ shown \in [Items -> Shown]
      /\ \A i \in Items : shown[i].text = 0 /\ shown[i].tool = 0
  BY <1>4 DEF Shown
<1>6. TypeOK
  <2>1. out \in Seq(AnyEvent) /\ item <= MaxItems /\ up.first <= item
    BY <1>2, <1>4, StreamAssumption
  <2> QED
    BY <1>2, <1>3, <1>4, <1>5, <2>1 DEF TypeOK
<1>7. Sync
  <2>1. Path(client, out, client, Orderly, TRUE)
    BY <1>3, <1>4, OrderlyTyped, PathNone
  <2>2. Matches(client)
    BY <1>3, <1>4 DEF Matches, OpenBlock
  <2> QED
    BY <1>3, <1>4, <2>1, <2>2 DEF Sync
<1>8. Announces /\ Shape /\ UpstreamOK
  BY <1>2, <1>4 DEF Announces, Shape, UpstreamOK, Blocks
<1>9. Once /\ Somehow
  <2>1. \A i \in Items : ~(i <= item)
    BY <1>2 DEF Items
  <2>2. \A i \in Items : SentAs(i, "none")
    BY <1>5 DEF SentAs, CountsAs
  <2> QED
    BY <1>2, <1>4, <2>1, <2>2 DEF Once, Somehow, Settled
<1> QED
  BY <1>6, <1>7, <1>8, <1>9 DEF IInv

\* What the message holds changes neither for the items an upstream is done with nor for
\* those to come.
LEMMA ItemsSplit ==
  ASSUME TypeOK, NEW i \in Items
  PROVE  i \in Nat /\ (i <= item <=> i \in 1..item)
BY UpFields DEF Items

\* The upstream begins a message.
LEMMA BeginMessageKeeps ==
  ASSUME IInv, NEW t \in {"prose", "toolcall", "half"}, BeginMessage(t)
  PROVE  IInv'
<1> DEFINE f == IF t = "toolcall" THEN "tool" ELSE "text"
<1>1. t \in Texts /\ f \in Forms /\ "message" \in Stages /\ t # "none"
  BY DEF Texts, Forms, Stages
<1>2. /\ Begin("message", t, f) /\ t \in up.server.texts
      /\ UNCHANGED <<state, output>>
  BY DEF BeginMessage
<1>3. TypeOK /\ Sync /\ Announces /\ Shape /\ UpstreamOK /\ Once /\ Somehow
  BY DEF IInv
<1> HIDE DEF f
<1>4. /\ up' \in Upstreams /\ up'.server = up.server /\ up'.stage = "message"
      /\ up'.text = t /\ up'.cut = "none" /\ up'.complete = up.complete
      /\ item' = item + 1 /\ item' \in Items /\ item' <= MaxItems
      /\ \A i \in 1..item : up'.due[i] = up.due[i]
      /\ up'.due[item'] = f
      /\ up'.first = (IF up.first = 0 /\ t # "none" THEN item + 1 ELSE up.first)
      /\ up'.first <= item'
      /\ ReadingLine /\ up.stage = "between"
  BY <1>1, <1>2, <1>3, Begun
<1>5. /\ UNCHANGED <<message_started, ended, out, client, shown, block_index, block_started,
                     has_tool_use, stop_reason, saw_text_delta, tool, saw_args, buffered>>
  BY <1>2 DEF state, output
<1>6. TypeOK'
  BY <1>3, <1>4, <1>5 DEF TypeOK
<1>7. Sync'
  <2>1. OpenBlock' = OpenBlock
    BY <1>5 DEF OpenBlock
  <2> QED
    BY <1>3, <1>4, <1>5, <2>1, QuietSync
<1>8. Announces'
  BY <1>3, <1>5 DEF Announces
<1>9. Shape'
  <2>1. Orderly => t = "prose"
    BY <1>2 DEF Orderly, Prosaic
  <2>2. block_index \in Nat /\ item \in Nat /\ block_started \in BOOLEAN
    BY <1>3, UpFields DEF TypeOK
  <2>3. Blocks' = Blocks /\ Blocks \in Nat /\ block_index <= Blocks
    BY <1>5, <2>2 DEF Blocks
  <2> SUFFICES ASSUME Orderly
               PROVE  Shape'
    BY <1>4, SameServer DEF Shape
  <2>4. /\ buffered = {} /\ tool = "none" /\ (block_started => saw_text_delta)
        /\ Blocks <= item
    BY <1>3, <1>4 DEF Shape
  <2>5. Blocks' <= item' /\ block_index' <= item' /\ block_index' + 1 <= item'
    BY <1>4, <1>5, <2>2, <2>3, <2>4
  <2> QED
    BY <1>4, <1>5, <2>1, <2>4, <2>5 DEF Shape
<1>10. UpstreamOK'
  BY <1>3, <1>4 DEF UpstreamOK
<1>11. Once'
  <2> SUFFICES ASSUME Prosaic, ~MayOmit("text_done")
               PROVE  Once'
    BY <1>4, SameServer DEF Once
  <2>1. t = "prose" /\ f = "text" /\ Orderly
    BY <1>2, OrderlyThen DEF Prosaic, f
  <2>2. ~block_started
    BY <1>3, <1>4, <2>1 DEF Shape
  <2>3. ASSUME NEW i \in Items, Settled(i)'
        PROVE  SentAs(i, up.due[i])' /\ up'.due[i] = up.due[i]
    <3>1. i <= item /\ i \in 1..item
      BY <1>3, <1>4, <2>3, ItemsSplit, UpFields DEF Settled
    <3>2. Settled(i)
      BY <1>4, <3>1 DEF Settled
    <3> QED
      BY <1>3, <1>4, <1>5, <3>1, <3>2 DEF Once, SentAs
  <2>4. ASSUME NEW i \in Items, i > item
        PROVE  SentAs(i, "none")'
    BY <1>3, <1>5, <2>4 DEF Once, SentAs
  <2>5. item' \in Items /\ item' > item
    BY <1>3, <1>4, UpFields
  <2>6. SentAs(item, "none")'
    BY <2>4, <2>5 DEF SentAs
  <2>7. ASSUME NEW i \in Items, i > item'
        PROVE  SentAs(i, "none")'
    <3>1. i > item
      BY <1>3, <1>4, <2>7, UpFields DEF Items
    <3> QED
      BY <2>4, <3>1
  <2> QED
    BY <1>4, <1>5, <2>1, <2>2, <2>3, <2>5, <2>6, <2>7 DEF Once
<1>12. Somehow'
  <2> SUFFICES ASSUME ~MayOmit("text_done"), ~MayOmit("deltas")
               PROVE  Somehow'
    BY <1>4, SameServer DEF Somehow
  <2>1. ASSUME NEW i \in Items, Settled(i)', up'.due[i] # "none"
        PROVE  SentAtAll(i)'
    <3>1. i <= item /\ i \in 1..item
      BY <1>3, <1>4, <2>1, ItemsSplit, UpFields DEF Settled
    <3>2. Settled(i)
      BY <1>4, <3>1 DEF Settled
    <3> QED
      BY <1>3, <1>4, <1>5, <2>1, <3>1, <3>2 DEF Somehow, SentAtAll
  <2>2. buffered = {}
    BY <1>3, <1>4 DEF Somehow
  <2> QED
    BY <1>4, <1>5, <2>1, <2>2 DEF Somehow
<1> QED
  BY <1>6, <1>7, <1>8, <1>9, <1>10, <1>11, <1>12 DEF IInv

\* The translator's own state and what was sent stay as they are.
LEMMA StillKeeps ==
  ASSUME IInv, UNCHANGED <<up, state, shown, message_started>>, Sync', Told'
  PROVE  IInv'
<1>1. TypeOK /\ Announces /\ Shape /\ UpstreamOK /\ Once /\ Somehow
  BY DEF IInv
<1>2. /\ UNCHANGED <<up, shown, block_index, block_started, has_tool_use, stop_reason,
                     saw_text_delta, tool, saw_args, buffered, message_started>>
      /\ up'.server = up.server /\ item' = item
  BY DEF state, item
<1>3. TypeOK'
  BY <1>1, <1>2 DEF TypeOK, Told
<1>4. Announces' /\ UpstreamOK'
  BY <1>1, <1>2 DEF Announces, UpstreamOK
<1>5. Shape'
  BY <1>1, <1>2, SameServer DEF Shape, Blocks
<1>6. \A i \in Items : /\ Settled(i)' <=> Settled(i)
                       /\ SentAtAll(i)' <=> SentAtAll(i)
                       /\ \A f : SentAs(i, f)' <=> SentAs(i, f)
  BY <1>2 DEF Settled, SentAtAll, SentAs
<1>7. Once'
  BY <1>1, <1>2, <1>6, SameServer DEF Once
<1>8. Somehow'
  BY <1>1, <1>2, <1>6, SameServer DEF Somehow
<1> QED
  BY <1>3, <1>4, <1>5, <1>7, <1>8 DEF IInv

\* The index the translator counts stays within the bound of the promise.
LEMMA IndexBound ==
  ASSUME IInv
  PROVE  Orderly => block_index <= MaxItems
<1>1. TypeOK /\ Shape
  BY DEF IInv
<1>2. block_index \in Nat /\ item \in Nat /\ MaxItems \in Nat /\ item <= MaxItems
  BY <1>1, UpFields DEF TypeOK
<1>3. Orderly => block_index <= item
  BY <1>1 DEF Shape
<1> QED
  BY <1>2, <1>3

\* An error event of the upstream.
LEMMA ErrorEventKeeps ==
  ASSUME IInv, ErrorEvent
  PROVE  IInv'
<1>1. TypeOK /\ Sync
  BY DEF IInv
<1>2. ReadingLine /\ Emit(<<A!Error>>) /\ UNCHANGED <<up, state, client, shown>>
  BY DEF ErrorEvent
<1>3. Sync' /\ Told' /\ message_started' = message_started
  BY <1>1, <1>2, ErrorSync
<1> QED
  BY <1>2, <1>3, StillKeeps

\* The connection breaks.
LEMMA CutKeeps ==
  ASSUME IInv, Cut
  PROVE  IInv'
<1>1. TypeOK /\ Sync /\ Announces
  BY DEF IInv
<1>2. UNCHANGED <<up, state, shown>>
  BY DEF Cut
<1>3. Sync' /\ Told' /\ message_started' = message_started
  BY <1>1, CutSync, IndexBound
<1> QED
  BY <1>2, <1>3, StillKeeps

\* The stream is finished.
LEMMA FinalizeKeeps ==
  ASSUME IInv, Finalize
  PROVE  IInv'
<1>1. TypeOK /\ Sync /\ Announces
  BY DEF IInv
<1>2. UNCHANGED <<up, state, shown>>
  BY DEF Finalize
<1>3. Sync' /\ Told' /\ message_started' = message_started
  BY <1>1, FinalizeSync, IndexBound
<1> QED
  BY <1>2, <1>3, StillKeeps

\* An event is yielded: the client moves along its path, and what an orderly
\* upstream makes it see is legal.
LEMMA YieldKeeps ==
  ASSUME IInv, Yield
  PROVE  /\ IInv'
         /\ Orderly => A!Legal(client, out[1]) /\ out[1] \in A!Events
<1>1. TypeOK /\ Sync
  BY DEF IInv
<1>2. YieldEvent /\ UNCHANGED <<up, state>>
  BY DEF Yield
<1>3. UNCHANGED <<message_started, ended, shown>> /\ up'.server = up.server
  BY <1>2 DEF YieldEvent
<1>4. PICK d \in Clients(TRUE) : Path(client, out, d, Orderly, TRUE) /\ Matches(d)
  BY <1>1 DEF Sync
<1>5. out \in Seq(AnyEvent) /\ message_started \in BOOLEAN /\ ended \in BOOLEAN
  BY <1>1 DEF TypeOK
<1>6. /\ Path(client', out', d, Orderly, TRUE)
      /\ client' \in Clients(TRUE) /\ out' \in Seq(AnyEvent)
      /\ Orderly => A!Legal(client, out[1]) /\ out[1] \in A!Events
  BY <1>2, <1>4, <1>5, OrderlyTyped, YieldLeads
<1>7. Sync'
  <2>1. Matches(d)'
    BY <1>2, <1>3, <1>4, SameServer DEF Matches, OpenBlock, state
  <2>2. Path(client', out', d, Orderly', TRUE)
    BY <1>3, <1>6, SameServer
  <2> QED
    BY <2>1, <2>2 DEF Sync
<1>8. Told'
  BY <1>3, <1>5, <1>6 DEF Told
<1>9. IInv'
  BY <1>2, <1>3, <1>7, <1>8, StillKeeps
<1> QED
  BY <1>6, <1>9

-----------------------------------------------------------------------------
(* What several handlers share *)

Typed ==
    /\ block_index \in Nat /\ block_started \in BOOLEAN /\ has_tool_use \in BOOLEAN
    /\ saw_text_delta \in BOOLEAN /\ buffered \subseteq Items /\ shown \in [Items -> Shown]
    /\ Told

\* What was sent in some form still has been.
Kept == \A i \in Items : SentAtAll(i) => SentAtAll(i)'

\* Nothing but item i was sent.
OnlySent(i) == \A j \in Items : j # i => shown'[j] = shown[j]

\* What a handler establishes that makes nothing ...
LEMMA NothingDone ==
  ASSUME TypeOK, Sync, Announces, up'.server = up.server, client' = client, tool' = tool,
         UNCHANGED <<block_index, block_started, has_tool_use, saw_text_delta, buffered,
                     message_started, ended, out, shown>>
  PROVE  Typed' /\ Sync' /\ Announces' /\ Kept
<1>1. Sync' /\ Told'
  <2>1. OpenBlock' = OpenBlock
    BY DEF OpenBlock
  <2> QED
    BY <2>1, QuietSync
<1> QED
  BY <1>1 DEF TypeOK, Typed, Announces, Kept, SentAtAll

\* ... that calls emit_text_block ...
LEMMA TextBlockDone ==
  ASSUME TypeOK, Sync, ReadingLine, up'.server = up.server, client' = client, tool' = tool,
         NEW i, EmitTextBlock(i),
         Orderly => ~block_started /\ tool = "none" /\ block_index <= MaxItems
  PROVE  /\ Typed' /\ Sync' /\ Announces' /\ Kept
         /\ block_started' = TRUE /\ block_index' = block_index /\ saw_text_delta' = TRUE
         /\ buffered' = buffered
         /\ i \in Items => shown'[i].text + shown'[i].tool > 0
         /\ OnlySent(i)
         /\ i \in Items /\ CountsAs(shown[i], "none") => CountsAs(shown'[i], "text")
<1>1. Sync' /\ Told' /\ message_started' = TRUE
  BY TextBlockSync
<1>2. /\ block_started' = TRUE /\ saw_text_delta' = TRUE /\ Sent({i}, {})
      /\ UNCHANGED <<block_index, has_tool_use, buffered>>
  BY DEF EmitTextBlock
<1>3. shown \in [Items -> Shown]
  BY DEF TypeOK
<1>4. /\ shown' \in [Items -> Shown]
      /\ \A j \in Items : shown[j].text + shown[j].tool > 0
                            => shown'[j].text + shown'[j].tool > 0
      /\ \A j \in ({i} \cup {}) \cap Items : shown'[j].text + shown'[j].tool > 0
  BY <1>2, <1>3, SentStays
<1>5. /\ \A j \in Items :
            /\ shown'[j].text = IF j \in {i} /\ shown[j].text < 2
                                THEN shown[j].text + 1 ELSE shown[j].text
            /\ shown'[j].tool = IF j \in {} /\ shown[j].tool < 2
                                THEN shown[j].tool + 1 ELSE shown[j].tool
  BY <1>2, <1>3, SentEffect
<1>6. ASSUME NEW j \in Items, j # i
      PROVE  shown'[j] = shown[j]
  <2>1. shown[j] \in Shown /\ shown'[j] \in Shown
    BY <1>3, <1>4
  <2>2. shown'[j].text = shown[j].text /\ shown'[j].tool = shown[j].tool
    BY <1>5, <1>6
  <2> QED
    BY <2>1, <2>2 DEF Shown
<1>7. ASSUME i \in Items, CountsAs(shown[i], "none")
      PROVE  CountsAs(shown'[i], "text")
  BY <1>5, <1>7 DEF CountsAs
<1> QED
  BY <1>1, <1>2, <1>4, <1>6, <1>7 DEF TypeOK, Typed, Announces, Kept, SentAtAll, OnlySent

\* ... that calls flush_buffered_text_or_tool ...
LEMMA FlushDone ==
  ASSUME TypeOK, Sync, Announces, ReadingLine, up'.server = up.server, client' = client,
         tool' = tool, NEW S, NEW parses \in BOOLEAN, Flush(S, parses),
         Orderly => ~block_started /\ tool = "none" /\ block_index <= MaxItems
  PROVE  /\ Typed' /\ Sync' /\ Announces' /\ Kept
         /\ buffered' = {}
         /\ \A i \in S \cap Items : SentAtAll(i)'
<1>1. Sync' /\ Told' /\ message_started' = TRUE
  BY FlushSync
<1>2. /\ buffered' = {} /\ block_index' \in Nat /\ block_started' \in BOOLEAN
      /\ has_tool_use' \in BOOLEAN /\ saw_text_delta' \in BOOLEAN
  <2>1. /\ block_index \in Nat /\ block_started \in BOOLEAN
        /\ has_tool_use \in BOOLEAN /\ saw_text_delta \in BOOLEAN
    BY DEF TypeOK
  <2>2. CASE parses
    BY <2>1, <2>2 DEF Flush
  <2>3. CASE ~parses
    BY <2>1, <2>3 DEF Flush
  <2> QED
    BY <2>2, <2>3
<1>3. shown \in [Items -> Shown]
  BY DEF TypeOK
<1>4. Sent(IF parses THEN {} ELSE S, IF parses THEN S ELSE {})
  BY DEF Flush
<1>5. /\ shown' \in [Items -> Shown]
      /\ \A j \in Items : shown[j].text + shown[j].tool > 0
                            => shown'[j].text + shown'[j].tool > 0
      /\ \A j \in S \cap Items : shown'[j].text + shown'[j].tool > 0
  BY <1>3, <1>4, SentStays
<1> QED
  BY <1>1, <1>2, <1>5 DEF Typed, Announces, Kept, SentAtAll

\* ... and that has the tail of the `done' events.
LEMMA ClosedOrFlushed ==
  ASSUME TypeOK, Sync, Announces, ReadingLine, up'.server = up.server, client' = client,
         tool' = tool, FlushOrClose,
         Orderly => buffered = {} /\ block_index <= MaxItems
  PROVE  /\ Typed' /\ Sync' /\ Announces' /\ Kept
         /\ buffered' = {}
         /\ \A i \in buffered : SentAtAll(i)'
         /\ buffered = {} => /\ block_started' = FALSE /\ block_index' = Blocks
                             /\ UNCHANGED <<saw_text_delta, shown>>
<1>1. CASE buffered # {}
  <2>1. Flush(buffered, FALSE)
    BY <1>1 DEF FlushOrClose, FlushBuffered
  <2>2. ~Orderly /\ buffered \subseteq Items
    BY <1>1 DEF TypeOK
  <2>3. /\ Typed' /\ Sync' /\ Announces' /\ Kept
        /\ buffered' = {}
        /\ \A i \in buffered \cap Items : SentAtAll(i)'
    BY <2>1, <2>2, FlushDone
  <2> QED
    BY <1>1, <2>2, <2>3
<1>2. CASE buffered = {} /\ block_started
  <2>1. /\ Emit(CloseBlock) /\ block_started' = FALSE /\ block_index' = block_index + 1
        /\ UNCHANGED <<has_tool_use, saw_text_delta, buffered, shown>>
    BY <1>2 DEF FlushOrClose
  <2>2. Sync' /\ Told'
    BY <1>2, <2>1, CloseSync
  <2>3. Kept
    BY <2>1 DEF Kept, SentAtAll
  <2>4. Typed' /\ Announces'
    <3>1. /\ block_index \in Nat /\ has_tool_use \in BOOLEAN
          /\ saw_text_delta \in BOOLEAN /\ buffered \subseteq Items
          /\ shown \in [Items -> Shown]
      BY DEF TypeOK
    <3>2. block_index' \in Nat
      BY <2>1, <3>1
    <3>3. Typed'
      BY <2>1, <2>2, <3>1, <3>2 DEF Typed
    <3>4. Announces'
      BY <2>1 DEF Announces
    <3> QED
      BY <3>3, <3>4
  <2>5. Blocks = block_index + 1
    BY <1>2 DEF Blocks
  <2> QED
    BY <1>2, <2>1, <2>2, <2>3, <2>4, <2>5
<1>3. CASE buffered = {} /\ ~block_started
  <2>1. UNCHANGED <<block_index, block_started, has_tool_use, saw_text_delta, buffered,
                    message_started, ended, out, shown>>
    BY <1>3 DEF FlushOrClose
  <2>2. Typed' /\ Sync' /\ Announces' /\ Kept
    BY <2>1, NothingDone
  <2>3. block_started \in BOOLEAN
    BY DEF TypeOK
  <2> QED
    BY <1>3, <2>1, <2>2, <2>3 DEF Blocks
<1> QED
  BY <1>1, <1>2, <1>3

\* The same for the item the upstream is at.
LEMMA ItemTextDone ==
  ASSUME TypeOK, Sync, ReadingLine, up'.server = up.server, client' = client, tool' = tool,
         EmitTextBlock(item),
         Orderly => ~block_started /\ tool = "none" /\ block_index <= MaxItems
  PROVE  /\ Typed' /\ Sync' /\ Announces' /\ Kept
         /\ block_started' = TRUE /\ block_index' = block_index /\ saw_text_delta' = TRUE
         /\ buffered' = buffered
         /\ item \in Items => shown'[item].text + shown'[item].tool > 0
         /\ OnlySent(item)
         /\ item \in Items /\ CountsAs(shown[item], "none") => CountsAs(shown'[item], "text")
<1>1. PICK i : i = item
  OBVIOUS
<1>2. EmitTextBlock(i)
  BY <1>1
<1>3. /\ Typed' /\ Sync' /\ Announces' /\ Kept
      /\ block_started' = TRUE /\ block_index' = block_index
      /\ saw_text_delta' = TRUE /\ buffered' = buffered
      /\ i \in Items => shown'[i].text + shown'[i].tool > 0
      /\ OnlySent(i)
      /\ i \in Items /\ CountsAs(shown[i], "none") => CountsAs(shown'[i], "text")
  BY <1>2, TextBlockDone
<1> QED
  BY <1>1, <1>3

\* The type invariant, from what the lemmas above establish and what is left.
LEMMA TypeOKAgain ==
  ASSUME up' \in Upstreams, item' <= MaxItems, up'.first <= item', Typed',
         stop_reason' \in {"end_turn", "max_tokens"}, tool' \in {"none", "Read", "other"},
         saw_args' \in BOOLEAN
  PROVE  TypeOK'
BY DEF TypeOK, Typed, Told

\* An item before the one an upstream is at is one it is done with.
LEMMA EarlierSettled ==
  ASSUME TypeOK, NEW i \in Items, i <= item, i # item
  PROVE  Settled(i)
BY UpFields DEF Settled, Items

\* The clauses of Once and Somehow that are about every item, when the upstream goes on
\* with the item it is at ...
LEMMA OnceForAll ==
  ASSUME TypeOK, Once, Prosaic, ~MayOmit("text_done"), item' = item, up'.due = up.due,
         OnlySent(item),
         item \in Items /\ Settled(item)' => CountsAs(shown'[item], up.due[item])
  PROVE  /\ (\A i \in Items : Settled(i) => SentAs(i, up.due[i]))'
         /\ (\A i \in Items : i > item => SentAs(i, "none"))'
<1>1. ASSUME NEW i \in Items, Settled(i)'
      PROVE  CountsAs(shown'[i], up'.due[i])
  <2>1. i <= item
    BY <1>1 DEF Settled
  <2>2. CASE i = item
    BY <1>1, <2>2 DEF Settled
  <2>3. CASE i # item
    <3>1. Settled(i)
      BY <2>1, <2>3, EarlierSettled
    <3> QED
      BY <2>3, <3>1 DEF Once, SentAs, OnlySent
  <2> QED
    BY <2>2, <2>3
<1>2. ASSUME NEW i \in Items, i > item
      PROVE  CountsAs(shown'[i], "none")
  <2>1. i # item
    BY <1>2, UpFields
  <2> QED
    BY <1>2, <2>1 DEF Once, SentAs, OnlySent
<1> QED
  BY <1>1, <1>2 DEF SentAs

\* The same for Somehow.
LEMMA SomehowForAll ==
  ASSUME TypeOK, Somehow, ~MayOmit("text_done"), ~MayOmit("deltas"), Kept,
         item' = item, up'.due = up.due,
         item \in Items /\ Settled(item)' /\ up.due[item] # "none" => SentAtAll(item)'
  PROVE  (\A i \in Items : Settled(i) /\ up.due[i] # "none" => SentAtAll(i))'
<1>1. ASSUME NEW i \in Items, Settled(i)', up.due[i] # "none"
      PROVE  SentAtAll(i)'
  <2>1. i <= item
    BY <1>1 DEF Settled
  <2>2. CASE i = item
    <3>1. Settled(item)'
      BY <1>1, <2>2 DEF Settled
    <3>2. SentAtAll(item)'
      BY <1>1, <2>2, <3>1
    <3> QED
      BY <2>2, <3>2 DEF SentAtAll
  <2>3. CASE i # item
    <3>1. Settled(i)
      BY <2>1, <2>3, EarlierSettled
    <3> QED
      BY <1>1, <3>1 DEF Somehow, Kept
  <2> QED
    BY <2>2, <2>3
<1> QED
  BY <1>1

\* ... and when it begins the next.
LEMMA OnceForNext ==
  ASSUME TypeOK, Once, Prosaic, ~MayOmit("text_done"), up.stage = "between",
         item' = item + 1, \A i \in 1..item : up'.due[i] = up.due[i], shown' = shown,
         up'.due[item'] = "none" \/ up'.stage \in {"message", "call"}
  PROVE  /\ (\A i \in Items : Settled(i) => SentAs(i, up.due[i]))'
         /\ (\A i \in Items : i > item => SentAs(i, "none"))'
         /\ item' \in Items => SentAs(item, "none")'
<1>1. ASSUME NEW i \in Items, Settled(i)'
      PROVE  CountsAs(shown'[i], up'.due[i])
  <2>1. i <= item' /\ i \in Nat /\ item \in Nat
    BY <1>1, UpFields DEF Settled, Items
  <2>2. CASE i = item'
    <3>1. up'.due[i] = "none" /\ i > item
      BY <1>1, <2>1, <2>2 DEF Settled
    <3> QED
      BY <3>1 DEF Once, SentAs
  <2>3. CASE i # item'
    <3>1. i \in 1..item /\ i <= item
      BY <2>1, <2>3 DEF Items
    <3>2. Settled(i)
      BY <3>1 DEF Settled
    <3> QED
      BY <3>1, <3>2 DEF Once, SentAs
  <2> QED
    BY <2>2, <2>3
<1>2. ASSUME NEW i \in Items, i >= item'
      PROVE  CountsAs(shown'[i], "none")
  <2>1. i > item
    BY <1>2, UpFields DEF Items
  <2> QED
    BY <2>1 DEF Once, SentAs
<1>3. item' \in Nat
  BY UpFields
<1> QED
  BY <1>1, <1>2, <1>3 DEF SentAs, Items

\* The same for Somehow.
LEMMA SomehowForNext ==
  ASSUME TypeOK, Somehow, ~MayOmit("text_done"), ~MayOmit("deltas"), up.stage = "between",
         item' = item + 1, \A i \in 1..item : up'.due[i] = up.due[i], shown' = shown,
         up'.due[item'] = "none" \/ up'.stage \in {"message", "call"}
  PROVE  (\A i \in Items : Settled(i) /\ up.due[i] # "none" => SentAtAll(i))'
<1>1. ASSUME NEW i \in Items, Settled(i)', up'.due[i] # "none"
      PROVE  SentAtAll(i)'
  <2>1. i <= item' /\ i \in Nat /\ item \in Nat
    BY <1>1, UpFields DEF Settled, Items
  <2>2. i # item'
    BY <1>1, <2>1 DEF Settled
  <2>3. i \in 1..item /\ i <= item
    BY <2>1, <2>2 DEF Items
  <2>4. Settled(i)
    BY <2>3 DEF Settled
  <2> QED
    BY <1>1, <2>3, <2>4 DEF Somehow, SentAtAll
<1> QED
  BY <1>1

\* response.output_text.done.
LEMMA TextDoneKeeps ==
  ASSUME IInv, TextDone
  PROVE  IInv'
<1>1. TypeOK /\ Sync /\ Announces /\ Shape /\ UpstreamOK /\ Once /\ Somehow
  BY DEF IInv
<1>2. /\ ReadingLine /\ up.stage = "message" /\ Stage("text_done")
      /\ IF up.cut = "none" THEN MayOmit("deltas") ELSE Complete
      /\ UNCHANGED <<stop_reason, tool, saw_args, client>>
  BY DEF TextDone
<1>3. \/ up.text = "toolcall" /\ Flush({item}, TRUE)
      \/ up.text # "toolcall" /\ buffered = {} /\ ~block_started /\ EmitTextBlock(item)
      \/ up.text # "toolcall" /\ ~(buffered = {} /\ ~block_started) /\ FlushOrClose
  BY DEF TextDone
<1>4. /\ up' \in Upstreams /\ up'.server = up.server /\ up'.stage = "text_done"
      /\ up'.due = up.due /\ up'.text = up.text /\ up'.cut = up.cut
      /\ up'.first = up.first /\ up'.complete = up.complete /\ item' = item
  BY <1>1, <1>2, StageSet DEF Stages
<1>5. /\ Orderly => /\ up.text # "toolcall" /\ buffered = {} /\ tool = "none"
                    /\ up.cut \in {"none", "plain"}
                    /\ (block_started => saw_text_delta)
                    /\ block_index <= MaxItems /\ Blocks <= item /\ block_index + 1 <= item
      /\ item \in Nat /\ block_index \in Nat /\ block_started \in BOOLEAN
  <2>1. Orderly => block_index <= MaxItems
    BY IndexBound
  <2>2. item \in Nat /\ block_index \in Nat /\ block_started \in BOOLEAN
    BY <1>1, UpFields DEF TypeOK
  <2> QED
    BY <1>1, <1>2, <2>1, <2>2 DEF Shape
<1>6. Prosaic /\ ~MayOmit("text_done") =>
        /\ item \in Items /\ up.due[item] = "text" /\ (up.cut = "plain" <=> block_started)
        /\ SentAs(item, IF up.cut = "none" THEN "none" ELSE "text")
  BY <1>1, <1>2 DEF Once
<1>7. ~MayOmit("text_done") /\ ~MayOmit("deltas") =>
        item \in Items /\ (SentAtAll(item) \/ item \in buffered)
  BY <1>1, <1>2 DEF Somehow
<1>8. /\ Typed' /\ Sync' /\ Announces' /\ Kept /\ buffered' = {}
      /\ ~MayOmit("text_done") /\ ~MayOmit("deltas") => SentAtAll(item)'
      /\ Orderly => /\ saw_text_delta'
                    /\ \/ block_started' = TRUE /\ block_index' = block_index
                       \/ block_started' = FALSE /\ block_index' = Blocks
      /\ Prosaic /\ ~MayOmit("text_done") =>
           /\ SentAs(item, "text")'
           /\ OnlySent(item)
  <2>1. CASE up.text = "toolcall" /\ Flush({item}, TRUE)
    <3>1. ~Orderly
      BY <1>5, <2>1
    <3>2. /\ Typed' /\ Sync' /\ Announces' /\ Kept /\ buffered' = {}
          /\ \A i \in {item} \cap Items : SentAtAll(i)'
      BY <1>1, <1>2, <1>4, <2>1, <3>1, FlushDone
    <3>3. item \in Items => SentAtAll(item)'
      BY <1>4, <3>2 DEF SentAtAll
    <3> QED
      BY <1>7, <3>1, <3>2, <3>3, OrderlyThen
  <2>2. CASE up.text # "toolcall" /\ buffered = {} /\ ~block_started /\ EmitTextBlock(item)
    <3>1. /\ Typed' /\ Sync' /\ Announces' /\ Kept
          /\ block_started' = TRUE /\ block_index' = block_index /\ saw_text_delta' = TRUE
          /\ buffered' = buffered
          /\ item \in Items => SentAtAll(item)'
          /\ OnlySent(item)
          /\ item \in Items /\ SentAs(item, "none") => SentAs(item, "text")'
      <4>1. Orderly => ~block_started /\ tool = "none" /\ block_index <= MaxItems
        BY <1>5, <2>2
      <4>2. /\ TypeOK /\ Sync /\ ReadingLine
            /\ up'.server = up.server /\ client' = client /\ tool' = tool
        BY <1>1, <1>2, <1>4
      <4>3. /\ Typed' /\ Sync' /\ Announces' /\ Kept
            /\ block_started' = TRUE /\ block_index' = block_index
            /\ saw_text_delta' = TRUE /\ buffered' = buffered
            /\ item \in Items => shown'[item].text + shown'[item].tool > 0
            /\ OnlySent(item)
            /\ item \in Items /\ CountsAs(shown[item], "none")
                 => CountsAs(shown'[item], "text")
        BY <2>2, <4>1, <4>2, ItemTextDone
      <4> QED
        BY <1>4, <4>3 DEF SentAtAll, SentAs
    <3>2. Prosaic /\ ~MayOmit("text_done") => up.cut = "none"
      BY <1>5, <1>6, <2>2, OrderlyThen
    <3> QED
      BY <1>6, <1>7, <2>2, <3>1, <3>2
  <2>3. CASE up.text # "toolcall" /\ ~(buffered = {} /\ ~block_started) /\ FlushOrClose
    <3>1. /\ Typed' /\ Sync' /\ Announces' /\ Kept /\ buffered' = {}
          /\ \A i \in buffered : SentAtAll(i)'
          /\ buffered = {} => /\ block_started' = FALSE /\ block_index' = Blocks
                              /\ UNCHANGED <<saw_text_delta, shown>>
      BY <1>1, <1>2, <1>4, <1>5, <2>3, ClosedOrFlushed
    <3>2. ~MayOmit("text_done") /\ ~MayOmit("deltas") => SentAtAll(item)'
      BY <1>4, <1>7, <3>1 DEF Kept, SentAtAll
    <3>3. Prosaic /\ ~MayOmit("text_done") => SentAs(item, "text") /\ shown' = shown
      BY <1>5, <1>6, <2>3, <3>1, OrderlyThen
    <3>4. Prosaic /\ ~MayOmit("text_done") => SentAs(item, "text")'
      BY <1>4, <3>3 DEF SentAs
    <3> QED
      BY <1>5, <2>3, <3>1, <3>2, <3>3, <3>4 DEF OnlySent
  <2> QED
    BY <1>3, <2>1, <2>2, <2>3
<1>9. TypeOK'
  BY <1>1, <1>2, <1>4, <1>8, TypeOKAgain DEF TypeOK
<1>10. Shape'
  <2> SUFFICES ASSUME Orderly
               PROVE  Shape'
    BY <1>4, SameServer DEF Shape
  <2>1. Blocks' <= item' /\ block_index' <= item'
    BY <1>4, <1>5, <1>8 DEF Blocks
  <2>2. up'.text \in {"none", "prose"} /\ up'.cut \in {"none", "plain"} /\ tool' = "none"
    BY <1>1, <1>2, <1>4, <1>5 DEF Shape
  <2> QED
    BY <1>4, <1>8, <2>1, <2>2 DEF Shape
<1>11. UpstreamOK'
  BY <1>1, <1>2, <1>4 DEF UpstreamOK
<1>12. Once'
  <2> SUFFICES ASSUME Prosaic, ~MayOmit("text_done")
               PROVE  Once'
    BY <1>4, SameServer DEF Once
  <2>1. saw_text_delta'
    BY <1>8, OrderlyThen
  <2>2. CountsAs(shown'[item], up.due[item]) /\ OnlySent(item)
    BY <1>4, <1>6, <1>8 DEF SentAs
  <2>3. /\ (\A i \in Items : Settled(i) => SentAs(i, up.due[i]))'
        /\ (\A i \in Items : i > item => SentAs(i, "none"))'
    BY <1>1, <1>4, <2>2, OnceForAll
  <2> QED
    BY <1>4, <2>1, <2>3 DEF Once
<1>13. Somehow'
  <2> SUFFICES ASSUME ~MayOmit("text_done"), ~MayOmit("deltas")
               PROVE  Somehow'
    BY <1>4, SameServer DEF Somehow
  <2>1. (\A i \in Items : Settled(i) /\ up.due[i] # "none" => SentAtAll(i))'
    BY <1>1, <1>4, <1>8, SomehowForAll
  <2> QED
    BY <1>4, <1>8, <2>1 DEF Somehow
<1> QED
  BY <1>8, <1>9, <1>10, <1>11, <1>12, <1>13 DEF IInv

\* response.content_part.done.
LEMMA PartDoneKeeps ==
  ASSUME IInv, PartDone
  PROVE  IInv'
<1>1. TypeOK /\ Sync /\ Announces /\ Shape /\ UpstreamOK /\ Once /\ Somehow
  BY DEF IInv
<1>2. /\ ReadingLine /\ up.stage = "text_done" /\ Stage("part_done") /\ FlushOrClose
      /\ UNCHANGED <<stop_reason, tool, saw_args, client>>
  BY DEF PartDone
<1>3. /\ up' \in Upstreams /\ up'.server = up.server /\ up'.stage = "part_done"
      /\ up'.due = up.due /\ up'.text = up.text /\ up'.cut = up.cut
      /\ up'.first = up.first /\ up'.complete = up.complete /\ item' = item
  BY <1>1, <1>2, StageSet DEF Stages
<1>4. /\ Orderly => /\ buffered = {} /\ tool = "none" /\ saw_text_delta
                    /\ block_index <= MaxItems /\ Blocks <= item
      /\ item \in Nat /\ block_index \in Nat /\ block_started \in BOOLEAN
  <2>1. Orderly => block_index <= MaxItems
    BY IndexBound
  <2>2. item \in Nat /\ block_index \in Nat /\ block_started \in BOOLEAN
    BY <1>1, UpFields DEF TypeOK
  <2> QED
    BY <1>1, <1>2, <2>1, <2>2 DEF Shape
<1>5. Settled(item)
  BY <1>2, <1>4 DEF Settled
<1>6. /\ Typed' /\ Sync' /\ Announces' /\ Kept
      /\ buffered' = {}
      /\ \A i \in buffered : SentAtAll(i)'
      /\ buffered = {} => /\ block_started' = FALSE /\ block_index' = Blocks
                          /\ UNCHANGED <<saw_text_delta, shown>>
  BY <1>1, <1>2, <1>3, <1>4, ClosedOrFlushed
<1>7. Orderly => /\ saw_text_delta' /\ shown' = shown
                 /\ block_started' = FALSE /\ block_index' = Blocks
  <2>1. buffered = {} => /\ block_started' = FALSE /\ block_index' = Blocks
                         /\ saw_text_delta' = saw_text_delta /\ shown' = shown
    BY <1>6
  <2>2. Orderly => buffered = {} /\ saw_text_delta
    BY <1>4
  <2>3. saw_text_delta \in BOOLEAN
    BY <1>1 DEF TypeOK
  <2> SUFFICES ASSUME Orderly
               PROVE  /\ saw_text_delta' /\ shown' = shown
                      /\ block_started' = FALSE /\ block_index' = Blocks
    OBVIOUS
  <2>4. saw_text_delta' = saw_text_delta /\ saw_text_delta
    BY <2>1, <2>2
  <2>5. saw_text_delta'
    BY <2>3, <2>4
  <2> QED
    BY <2>1, <2>2, <2>5
<1>8. TypeOK'
  BY <1>1, <1>2, <1>3, <1>6, TypeOKAgain DEF TypeOK
<1>9. Shape'
  <2> SUFFICES ASSUME Orderly
               PROVE  Shape'
    BY <1>3, SameServer DEF Shape
  <2>1. Blocks' <= item' /\ block_index' <= item'
    BY <1>3, <1>4, <1>7 DEF Blocks
  <2>2. up'.text \in {"none", "prose"} /\ up'.cut \in {"none", "plain"} /\ tool' = "none"
    BY <1>1, <1>2, <1>3, <1>4 DEF Shape
  <2>3. buffered' = {}
    BY <1>6
  <2> QED
    BY <1>3, <1>7, <2>1, <2>2, <2>3 DEF Shape
<1>10. UpstreamOK'
  BY <1>1, <1>2, <1>3 DEF UpstreamOK
<1>11. Once'
  <2> SUFFICES ASSUME Prosaic, ~MayOmit("text_done")
               PROVE  Once'
    BY <1>3, SameServer DEF Once
  <2>1. saw_text_delta' /\ shown' = shown
    BY <1>7, OrderlyThen
  <2>2. OnlySent(item) /\ (item \in Items => CountsAs(shown'[item], up.due[item]))
    BY <1>1, <1>5, <2>1 DEF OnlySent, Once, SentAs
  <2>3. /\ (\A i \in Items : Settled(i) => SentAs(i, up.due[i]))'
        /\ (\A i \in Items : i > item => SentAs(i, "none"))'
    BY <1>1, <1>3, <2>2, OnceForAll
  <2> QED
    BY <1>3, <2>1, <2>3 DEF Once
<1>12. Somehow'
  <2> SUFFICES ASSUME ~MayOmit("text_done"), ~MayOmit("deltas")
               PROVE  Somehow'
    BY <1>3, SameServer DEF Somehow
  <2>1. item \in Items /\ up.due[item] # "none" => SentAtAll(item)'
    <3>1. item \in Items /\ up.due[item] # "none" => SentAtAll(item)
      BY <1>1, <1>5 DEF Somehow
    <3> QED
      BY <1>3, <1>6, <3>1 DEF Kept, SentAtAll
  <2>2. (\A i \in Items : Settled(i) /\ up.due[i] # "none" => SentAtAll(i))'
    BY <1>1, <1>3, <1>6, <2>1, SomehowForAll
  <2> QED
    BY <1>3, <1>6, <2>2 DEF Somehow
<1> QED
  BY <1>6, <1>8, <1>9, <1>10, <1>11, <1>12 DEF IInv

\* A message is over, with its output_item.done or without.
LEMMA OverKeeps ==
  ASSUME IInv, ReadingLine, MessageOver, Stage("between"),
         UNCHANGED <<stop_reason, tool, saw_args, client>>,
         \/ UNCHANGED <<block_index, block_started, has_tool_use, saw_text_delta, buffered,
                        message_started, ended, out, shown>>
         \/ ~saw_text_delta /\ EmitTextBlock(item)
  PROVE  IInv'
<1>1. TypeOK /\ Sync /\ Announces /\ Shape /\ UpstreamOK /\ Once /\ Somehow
  BY DEF IInv
<1>2. up.stage = "part_done" \/ (up.stage = "message" /\ MayOmit("text_done"))
  BY DEF MessageOver
<1>3. /\ up' \in Upstreams /\ up'.server = up.server /\ up'.stage = "between"
      /\ up'.due = up.due /\ up'.text = up.text /\ up'.cut = up.cut
      /\ up'.first = up.first /\ up'.complete = up.complete /\ item' = item
  BY <1>1, StageSet DEF Stages
<1>4. /\ Orderly => /\ buffered = {} /\ tool = "none" /\ (block_started => saw_text_delta)
                    /\ up.text \in {"none", "prose"} /\ up.cut \in {"none", "plain"}
                    /\ block_index <= MaxItems /\ Blocks <= item /\ block_index <= item
                    /\ up.stage = "part_done" => saw_text_delta /\ ~block_started
                    /\ up.stage = "message" => block_index + 1 <= item
      /\ item \in Nat /\ block_index \in Nat /\ block_started \in BOOLEAN
  <2>1. Orderly => block_index <= MaxItems
    BY IndexBound
  <2>2. item \in Nat /\ block_index \in Nat /\ block_started \in BOOLEAN
    BY <1>1, UpFields DEF TypeOK
  <2> QED
    BY <1>1, <1>2, <2>1, <2>2 DEF Shape
<1>5. /\ Typed' /\ Sync' /\ Announces' /\ Kept /\ buffered' = buffered
      /\ \/ UNCHANGED <<block_index, block_started, saw_text_delta, shown>>
         \/ /\ ~saw_text_delta
            /\ block_started' = TRUE /\ block_index' = block_index /\ saw_text_delta' = TRUE
  <2>1. CASE UNCHANGED <<block_index, block_started, has_tool_use, saw_text_delta, buffered,
                         message_started, ended, out, shown>>
    BY <1>1, <1>3, <2>1, NothingDone
  <2>2. CASE ~saw_text_delta /\ EmitTextBlock(item)
    <3>1. Orderly => ~block_started /\ tool = "none" /\ block_index <= MaxItems
      BY <1>4, <2>2
    <3>2. /\ Typed' /\ Sync' /\ Announces' /\ Kept
          /\ block_started' = TRUE /\ block_index' = block_index /\ saw_text_delta' = TRUE
          /\ buffered' = buffered
      BY <1>1, <1>3, <2>2, <3>1, ItemTextDone
    <3> QED
      BY <2>2, <3>2
  <2> QED
    BY <2>1, <2>2
<1>6. TypeOK'
  BY <1>1, <1>3, <1>5, TypeOKAgain DEF TypeOK
<1>7. Shape'
  <2> SUFFICES ASSUME Orderly
               PROVE  Shape'
    BY <1>3, SameServer DEF Shape
  <2>1. Blocks' <= item' /\ block_index' <= item'
    BY <1>2, <1>3, <1>4, <1>5 DEF Blocks
  <2>2. block_started' => saw_text_delta'
    <3>1. CASE UNCHANGED <<block_index, block_started, saw_text_delta, shown>>
      BY <1>4, <3>1
    <3>2. CASE saw_text_delta' = TRUE
      BY <3>2
    <3> QED
      BY <1>5, <3>1, <3>2
  <2>3. ~MayOmit("text_done") => ~block_started'
    BY <1>2, <1>4, <1>5
  <2>4. ~MayOmit("text_done")' => ~block_started'
    BY <1>3, <2>3, SameServer
  <2> QED
    BY <1>3, <1>4, <1>5, <2>1, <2>2, <2>4 DEF Shape
<1>8. UpstreamOK'
  BY <1>1, <1>2, <1>3 DEF UpstreamOK
<1>9. ~MayOmit("text_done") => up.stage = "part_done" /\ Settled(item)
  BY <1>2, <1>4 DEF Settled
<1>10. Once'
  <2> SUFFICES ASSUME Prosaic, ~MayOmit("text_done")
               PROVE  Once'
    BY <1>3, SameServer DEF Once
  <2>1. saw_text_delta' /\ shown' = shown
    BY <1>4, <1>5, <1>9, OrderlyThen
  <2>2. OnlySent(item) /\ (item \in Items => CountsAs(shown'[item], up.due[item]))
    BY <1>1, <1>9, <2>1 DEF OnlySent, Once, SentAs
  <2>3. /\ (\A i \in Items : Settled(i) => SentAs(i, up.due[i]))'
        /\ (\A i \in Items : i > item => SentAs(i, "none"))'
    BY <1>1, <1>3, <2>2, OnceForAll
  <2> QED
    BY <1>3, <2>1, <2>3 DEF Once
<1>11. Somehow'
  <2> SUFFICES ASSUME ~MayOmit("text_done"), ~MayOmit("deltas")
               PROVE  Somehow'
    BY <1>3, SameServer DEF Somehow
  <2>1. item \in Items /\ up.due[item] # "none" => SentAtAll(item)'
    <3>1. item \in Items /\ up.due[item] # "none" => SentAtAll(item)
      BY <1>1, <1>9 DEF Somehow
    <3> QED
      BY <1>3, <1>5, <3>1 DEF Kept, SentAtAll
  <2>2. (\A i \in Items : Settled(i) /\ up.due[i] # "none" => SentAtAll(i))'
    BY <1>1, <1>3, <1>5, <2>1, SomehowForAll
  <2>3. buffered' = {}
    BY <1>1, <1>5, <1>9 DEF Somehow
  <2> QED
    BY <1>3, <2>2, <2>3 DEF Somehow
<1> QED
  BY <1>5, <1>6, <1>7, <1>8, <1>10, <1>11 DEF IInv

\* The upstream goes on without response.output_item.done ...
LEMMA MessageNotDoneKeeps ==
  ASSUME IInv, MessageNotDone
  PROVE  IInv'
<1>1. /\ ReadingLine /\ MessageOver /\ Stage("between")
      /\ UNCHANGED <<state, message_started, ended, out, client, shown>>
  BY DEF MessageNotDone
<1> QED
  BY <1>1, OverKeeps DEF state

\* ... or sends it.
LEMMA MessageDoneKeeps ==
  ASSUME IInv, MessageDone
  PROVE  IInv'
<1>1. /\ ReadingLine /\ MessageOver /\ Stage("between")
      /\ UNCHANGED <<stop_reason, tool, saw_args, client>>
      /\ \/ UNCHANGED <<block_index, block_started, has_tool_use, saw_text_delta, buffered,
                        message_started, ended, out, shown>>
         \/ ~saw_text_delta /\ EmitTextBlock(item)
  BY DEF MessageDone
<1> QED
  BY <1>1, OverKeeps

-----------------------------------------------------------------------------
(* Deltas *)

\* What Sent does when it names one item.
LEMMA OneSent ==
  ASSUME shown \in [Items -> Shown], NEW i \in Items, NEW texts, NEW calls,
         texts \cup calls = {i}, Sent(texts, calls)
  PROVE  /\ shown' \in [Items -> Shown] /\ Kept /\ OnlySent(i)
         /\ shown'[i].text + shown'[i].tool > 0
         /\ CountsAs(shown[i], "none") /\ calls = {} => CountsAs(shown'[i], "text")
         /\ CountsAs(shown[i], "none") /\ texts = {} => CountsAs(shown'[i], "tool")
<1>1. /\ shown' \in [Items -> Shown]
      /\ \A j \in Items : shown[j].text + shown[j].tool > 0
                            => shown'[j].text + shown'[j].tool > 0
      /\ \A j \in (texts \cup calls) \cap Items : shown'[j].text + shown'[j].tool > 0
  BY SentStays
<1>2. \A j \in Items :
         /\ shown'[j].text = IF j \in texts /\ shown[j].text < 2
                             THEN shown[j].text + 1 ELSE shown[j].text
         /\ shown'[j].tool = IF j \in calls /\ shown[j].tool < 2
                             THEN shown[j].tool + 1 ELSE shown[j].tool
  BY SentEffect
<1>3. ASSUME NEW j \in Items, j # i
      PROVE  shown'[j] = shown[j]
  <2>1. shown[j] \in Shown /\ shown'[j] \in Shown
    BY <1>1
  <2>2. shown'[j].text = shown[j].text /\ shown'[j].tool = shown[j].tool
    BY <1>2, <1>3
  <2> QED
    BY <2>1, <2>2 DEF Shown
<1>4. ASSUME CountsAs(shown[i], "none"), calls = {}
      PROVE  CountsAs(shown'[i], "text")
  BY <1>2, <1>4 DEF CountsAs
<1>5. ASSUME CountsAs(shown[i], "none"), texts = {}
      PROVE  CountsAs(shown'[i], "tool")
  BY <1>2, <1>5 DEF CountsAs
<1>6. Kept
  BY <1>1 DEF Kept, SentAtAll
<1>7. OnlySent(i)
  BY <1>3 DEF OnlySent
<1>8. shown'[i].text + shown'[i].tool > 0
  BY <1>1
<1> QED
  BY <1>1, <1>4, <1>5, <1>6, <1>7, <1>8

\* response.output_text.delta: held back, or sent.
LEMMA TextDeltaKeeps ==
  ASSUME IInv, NEW d \in {"plain", "whole", "open", "more", "close"}, TextDelta(d)
  PROVE  IInv'
<1> DEFINE c == CutAfter(d)
<1>1. TypeOK /\ Sync /\ Announces /\ Shape /\ UpstreamOK /\ Once /\ Somehow
  BY DEF IInv
<1>2. /\ ReadingLine /\ up.stage = "message" /\ DeltaFits(d)
      /\ up' = [up EXCEPT !.cut = c, !.streamed = @ \cup {item}]
      /\ UNCHANGED <<block_index, has_tool_use, stop_reason, tool, saw_args, client>>
  BY DEF TextDelta
<1>3. c \in Cuts /\ item \in Items
  BY <1>1, <1>2, UpFields DEF Cuts, CutAfter, UpstreamOK
<1>4. /\ up' \in Upstreams /\ up'.server = up.server /\ up'.stage = "message"
      /\ up'.due = up.due /\ up'.text = up.text /\ up'.cut = c
      /\ up'.first = up.first /\ up'.complete = up.complete /\ item' = item
  <2>1. up.streamed \cup {item} \in SUBSET Nat
    BY <1>1, UpFields
  <2>2. up' = [up EXCEPT !.cut = c, !.streamed = up.streamed \cup {item}]
    BY <1>2
  <2> QED
    BY <1>1, <1>2, <1>3, <2>1, <2>2, CutSet
<1>5. /\ Orderly => /\ d = "plain" /\ c = "plain" /\ ~ShouldBuffer(d)
                    /\ buffered = {} /\ tool = "none" /\ block_index <= MaxItems
                    /\ up.text \in {"none", "prose"} /\ up.cut \in {"none", "plain"}
                    /\ block_index + 1 <= item
      /\ item \in Nat /\ block_index \in Nat /\ block_started \in BOOLEAN
  <2>1. Orderly => block_index <= MaxItems
    BY IndexBound
  <2>2. item \in Nat /\ block_index \in Nat /\ block_started \in BOOLEAN
    BY <1>1, UpFields DEF TypeOK
  <2>3. Orderly => /\ buffered = {} /\ tool = "none"
                   /\ up.text \in {"none", "prose"} /\ up.cut \in {"none", "plain"}
                   /\ block_index + 1 <= item
    BY <1>1, <1>2 DEF Shape
  <2>4. up.text \in {"none", "prose"} => d = "plain"
    BY <1>2 DEF DeltaFits
  <2>5. d = "plain" /\ buffered = {} => c = "plain" /\ ~ShouldBuffer(d)
    BY DEF CutAfter, ShouldBuffer
  <2> HIDE DEF c
  <2> QED
    BY <2>1, <2>2, <2>3, <2>4, <2>5
<1> HIDE DEF c
<1>6. CASE ~block_started /\ ShouldBuffer(d)
  <2>1. /\ buffered' = buffered \cup {item}
        /\ UNCHANGED <<block_started, saw_text_delta, message_started, ended, out, shown>>
    BY <1>6 DEF TextDelta
  <2>2. ~Orderly
    BY <1>5, <1>6
  <2>3. Sync' /\ Told'
    <3>1. OpenBlock' = OpenBlock
      BY <1>2, <2>1 DEF OpenBlock
    <3> QED
      BY <1>1, <1>2, <1>4, <2>1, <3>1, QuietSync
  <2>4. TypeOK'
    <3>1. Typed'
      BY <1>1, <1>2, <1>3, <2>1, <2>3 DEF TypeOK, Typed
    <3> QED
      BY <1>1, <1>2, <1>4, <3>1, TypeOKAgain DEF TypeOK
  <2>5. Announces' /\ UpstreamOK'
    BY <1>1, <1>2, <1>3, <1>4, <2>1 DEF Announces, UpstreamOK
  <2>6. Shape' /\ Once'
    BY <1>4, <2>2, SameServer, OrderlyThen DEF Shape, Once
  <2>7. Somehow'
    <3> SUFFICES ASSUME ~MayOmit("text_done"), ~MayOmit("deltas")
                 PROVE  Somehow'
      BY <1>4, SameServer DEF Somehow
    <3>1. ~Settled(item)'
      BY <1>1, <1>2, <1>4, <1>5 DEF Settled, UpstreamOK
    <3>2. Kept
      BY <2>1 DEF Kept, SentAtAll
    <3>3. (\A i \in Items : Settled(i) /\ up.due[i] # "none" => SentAtAll(i))'
      BY <1>1, <1>4, <3>1, <3>2, SomehowForAll
    <3>4. buffered' = {item}
      BY <1>1, <2>1 DEF Somehow
    <3> QED
      BY <1>3, <1>4, <3>3, <3>4 DEF Somehow
  <2> QED
    BY <2>3, <2>4, <2>5, <2>6, <2>7 DEF IInv
<1>7. CASE ~(~block_started /\ ShouldBuffer(d))
  <2>1. /\ Emit((IF block_started THEN << >> ELSE <<A!BlockStart(block_index, "text")>>)
                \o <<A!BlockDelta(block_index, "text")>>)
        /\ block_started' = TRUE /\ saw_text_delta' = TRUE /\ buffered' = buffered
        /\ IF up.cut = "none" \/ (up.cut = "open" /\ ~block_started)
           THEN Sent({item}, {}) ELSE shown' = shown
    BY <1>7 DEF TextDelta
  <2>2. Sync' /\ Told' /\ message_started' = TRUE
    <3>1. Orderly => tool = "none" /\ block_index <= MaxItems
      BY <1>5
    <3>2. up'.server = up.server /\ ReadingLine /\ client' = client /\ tool' = tool
          /\ UNCHANGED <<has_tool_use, block_index>>
      BY <1>2, <1>4
    <3> QED
      BY <1>1, <2>1, <3>1, <3>2, DeltaSync
  <2>3. shown \in [Items -> Shown]
    BY <1>1 DEF TypeOK
  <2>4. /\ shown' \in [Items -> Shown] /\ Kept /\ OnlySent(item)
        /\ up.cut = "none" \/ (up.cut = "open" /\ ~block_started) =>
             /\ shown'[item].text + shown'[item].tool > 0
             /\ CountsAs(shown[item], "none") => CountsAs(shown'[item], "text")
        /\ up.cut # "none" /\ up.cut # "open" => shown' = shown
    <3>1. CASE up.cut = "none" \/ (up.cut = "open" /\ ~block_started)
      <4>1. Sent({item}, {}) /\ {item} \cup {} = {item}
        BY <2>1, <3>1
      <4>2. /\ shown' \in [Items -> Shown] /\ Kept /\ OnlySent(item)
            /\ shown'[item].text + shown'[item].tool > 0
            /\ CountsAs(shown[item], "none") => CountsAs(shown'[item], "text")
        BY <1>3, <2>3, <4>1, OneSent
      <4> QED
        BY <3>1, <4>2
    <3>2. CASE ~(up.cut = "none" \/ (up.cut = "open" /\ ~block_started))
      <4>1. shown' = shown
        BY <2>1, <3>2
      <4> QED
        BY <2>3, <3>2, <4>1 DEF Kept, OnlySent, SentAtAll
    <3> QED
      BY <3>1, <3>2
  <2>5. TypeOK'
    <3>1. Typed'
      BY <1>1, <1>2, <2>1, <2>2, <2>4 DEF TypeOK, Typed
    <3> QED
      BY <1>1, <1>2, <1>4, <3>1, TypeOKAgain DEF TypeOK
  <2>6. Announces' /\ UpstreamOK'
    BY <1>1, <1>2, <1>3, <1>4, <2>2 DEF Announces, UpstreamOK
  <2>7. Shape'
    <3> SUFFICES ASSUME Orderly
                 PROVE  Shape'
      BY <1>4, SameServer DEF Shape
    <3>1. Blocks' <= item' /\ block_index' <= item' /\ block_index' + 1 <= item'
      BY <1>2, <1>4, <1>5 DEF Blocks
    <3> QED
      BY <1>2, <1>4, <1>5, <2>1, <3>1 DEF Shape
  <2>8. Once'
    <3> SUFFICES ASSUME Prosaic, ~MayOmit("text_done")
                 PROVE  Once'
      BY <1>4, SameServer DEF Once
    <3>1. ~Settled(item)'
      BY <1>1, <1>2, <1>4, <1>5 DEF Settled, UpstreamOK
    <3>2. /\ (\A i \in Items : Settled(i) => SentAs(i, up.due[i]))'
          /\ (\A i \in Items : i > item => SentAs(i, "none"))'
      BY <1>1, <1>4, <2>4, <3>1, OnceForAll
    <3>3. c = "plain" /\ up.cut \in {"none", "plain"}
      BY <1>5, OrderlyThen
    <3>4. CountsAs(shown[item], IF up.cut = "none" THEN "none" ELSE "text")
      BY <1>1, <1>2 DEF Once, SentAs
    <3>5. CountsAs(shown'[item], "text")
      BY <2>4, <3>3, <3>4
    <3>6. up.due[item] = "text"
      BY <1>1, <1>2 DEF Once
    <3> QED
      BY <1>3, <1>4, <2>1, <3>2, <3>3, <3>5, <3>6 DEF Once, SentAs
  <2>9. Somehow'
    <3> SUFFICES ASSUME ~MayOmit("text_done"), ~MayOmit("deltas")
                 PROVE  Somehow'
      BY <1>4, SameServer DEF Somehow
    <3>1. ~Settled(item)'
      BY <1>1, <1>2, <1>4, <1>5 DEF Settled, UpstreamOK
    <3>2. (\A i \in Items : Settled(i) /\ up.due[i] # "none" => SentAtAll(i))'
      BY <1>1, <1>4, <2>4, <3>1, SomehowForAll
    <3>3. buffered' # {} => buffered' = {item}
      BY <1>1, <2>1 DEF Somehow
    <3>4. SentAtAll(item)' \/ item \in buffered'
      <4>1. up.cut # "none" => SentAtAll(item) \/ item \in buffered
        BY <1>1, <1>2 DEF Somehow
      <4>2. up.cut = "none" => SentAtAll(item)'
        BY <1>4, <2>4 DEF SentAtAll
      <4>3. SentAtAll(item) => SentAtAll(item)'
        BY <1>3, <1>4, <2>4 DEF Kept, SentAtAll
      <4> QED
        BY <2>1, <4>1, <4>2, <4>3
    <3> QED
      BY <1>3, <1>4, <3>2, <3>3, <3>4 DEF Somehow
  <2> QED
    BY <2>2, <2>5, <2>6, <2>7, <2>8, <2>9 DEF IInv
<1> QED
  BY <1>6, <1>7

-----------------------------------------------------------------------------
(* Function calls and reasoning *)

\* response.output_item.added of a function call.
LEMMA CallAddedKeeps ==
  ASSUME IInv, NEW name \in {"Read", "other"}, CallAdded(name)
  PROVE  IInv'
<1>1. TypeOK /\ Sync /\ Announces /\ Shape /\ UpstreamOK /\ Once /\ Somehow
  BY DEF IInv
<1>2. /\ Begin("call", "none", "tool")
      /\ Emit((IF block_started THEN CloseBlock ELSE << >>)
              \o <<A!BlockStart(Blocks, "tool_use")>>)
      /\ block_index' = Blocks
      /\ block_started' = TRUE /\ has_tool_use' = TRUE /\ tool' = name /\ saw_args' = FALSE
      /\ UNCHANGED <<stop_reason, saw_text_delta, buffered, client, shown>>
  BY DEF CallAdded, Blocks
<1>3. "call" \in Stages /\ "none" \in Texts /\ "tool" \in Forms
  BY DEF Stages, Texts, Forms
<1>4. /\ up' \in Upstreams /\ up'.server = up.server /\ up'.stage = "call"
      /\ up'.text = "none" /\ up'.cut = "none" /\ up'.complete = up.complete
      /\ item' = item + 1 /\ item' \in Items /\ item' <= MaxItems
      /\ \A i \in 1..item : up'.due[i] = up.due[i]
      /\ up'.due[item'] = "tool"
      /\ up'.first = up.first /\ up'.first <= item'
      /\ ReadingLine /\ up.stage = "between"
  BY <1>1, <1>2, <1>3, Begun
<1>5. /\ item \in Nat /\ MaxItems \in Nat /\ item <= MaxItems
      /\ block_index \in Nat /\ block_started \in BOOLEAN /\ Blocks \in Nat
      /\ Orderly => buffered = {} /\ tool = "none" /\ Blocks <= item /\ Blocks <= MaxItems
  <2>1. /\ item \in Nat /\ MaxItems \in Nat /\ item <= MaxItems
        /\ block_index \in Nat /\ block_started \in BOOLEAN
    BY <1>1, UpFields DEF TypeOK
  <2>2. Blocks \in Nat
    BY <2>1 DEF Blocks
  <2>3. Orderly => buffered = {} /\ tool = "none" /\ Blocks <= item
    BY <1>1, <1>4 DEF Shape
  <2> QED
    BY <2>1, <2>2, <2>3
<1>6. Sync' /\ Told' /\ message_started' = TRUE
  <2>1. up'.server = up.server /\ client' = client /\ tool' # "none" /\ ReadingLine
    BY <1>2, <1>4
  <2>2. Orderly => Blocks <= MaxItems
    BY <1>5
  <2> QED
    BY <1>1, <1>2, <2>1, <2>2, CallSync
<1>7. TypeOK'
  <2>1. Typed'
    BY <1>1, <1>2, <1>5, <1>6 DEF TypeOK, Typed
  <2> QED
    BY <1>1, <1>2, <1>4, <2>1, TypeOKAgain DEF TypeOK
<1>8. Announces' /\ UpstreamOK'
  BY <1>1, <1>4, <1>6 DEF Announces, UpstreamOK
<1>9. Shape'
  <2> SUFFICES ASSUME Orderly
               PROVE  Shape'
    BY <1>4, SameServer DEF Shape
  <2>1. Blocks' <= item' /\ block_index' <= item'
    BY <1>2, <1>4, <1>5 DEF Blocks
  <2> QED
    BY <1>2, <1>4, <1>5, <2>1 DEF Shape
<1>10. Once'
  <2> SUFFICES ASSUME Prosaic, ~MayOmit("text_done")
               PROVE  Once'
    BY <1>4, SameServer DEF Once
  <2>1. /\ (\A i \in Items : Settled(i) => SentAs(i, up.due[i]))'
        /\ (\A i \in Items : i > item => SentAs(i, "none"))'
        /\ SentAs(item, "none")'
    BY <1>1, <1>2, <1>4, OnceForNext
  <2>2. up.first # 0 => saw_text_delta
    BY <1>1, <1>4 DEF Once
  <2> QED
    BY <1>2, <1>4, <2>1, <2>2 DEF Once
<1>11. Somehow'
  <2> SUFFICES ASSUME ~MayOmit("text_done"), ~MayOmit("deltas")
               PROVE  Somehow'
    BY <1>4, SameServer DEF Somehow
  <2>1. (\A i \in Items : Settled(i) /\ up.due[i] # "none" => SentAtAll(i))'
    BY <1>1, <1>2, <1>4, SomehowForNext
  <2>2. buffered' = {}
    BY <1>1, <1>2, <1>4 DEF Somehow
  <2> QED
    BY <1>2, <1>4, <2>1, <2>2 DEF Somehow
<1> QED
  BY <1>6, <1>7, <1>8, <1>9, <1>10, <1>11 DEF IInv

\* response.function_call_arguments.delta.
LEMMA ArgsDeltaKeeps ==
  ASSUME IInv, ArgsDelta
  PROVE  IInv'
<1>1. TypeOK /\ Sync /\ Announces /\ Shape /\ UpstreamOK /\ Once /\ Somehow
  BY DEF IInv
<1>2. /\ ReadingLine /\ up.stage = "call" /\ block_started /\ saw_args' = TRUE
      /\ up' = [up EXCEPT !.cut = "plain"]
      /\ UNCHANGED <<block_index, block_started, has_tool_use, stop_reason, saw_text_delta,
                     tool, buffered, client>>
  BY DEF ArgsDelta
<1>3. item \in Items /\ up.cut \in {"none", "plain"}
  BY <1>1, <1>2 DEF UpstreamOK
<1>4. /\ up' \in Upstreams /\ up'.server = up.server /\ up'.stage = "call"
      /\ up'.due = up.due /\ up'.text = up.text /\ up'.cut = "plain"
      /\ up'.first = up.first /\ up'.complete = up.complete /\ item' = item
  <2>1. "plain" \in Cuts /\ up.streamed \in SUBSET Nat
    BY <1>1, UpFields DEF Cuts
  <2>2. up' = [up EXCEPT !.cut = "plain", !.streamed = up.streamed]
    BY <1>1, <1>2 DEF TypeOK, Upstreams
  <2> QED
    BY <1>1, <1>2, <2>1, <2>2, CutSet
<1>5. shown \in [Items -> Shown]
  BY <1>1 DEF TypeOK
<1>6. /\ Sync' /\ Told' /\ Announces'
      /\ shown' \in [Items -> Shown] /\ Kept /\ OnlySent(item)
      /\ tool = "Read" \/ up.cut = "plain" => shown' = shown
      /\ tool # "Read" /\ up.cut = "none" =>
           /\ shown'[item].text + shown'[item].tool > 0
           /\ CountsAs(shown[item], "none") => CountsAs(shown'[item], "tool")
  <2>1. CASE tool = "Read"
    <3>1. UNCHANGED <<message_started, ended, out, shown>>
      BY <2>1 DEF ArgsDelta
    <3>2. OpenBlock' = OpenBlock
      BY <1>2 DEF OpenBlock
    <3>3. Sync' /\ Told'
      BY <1>1, <1>2, <1>4, <3>1, <3>2, QuietSync
    <3> QED
      BY <1>1, <1>2, <1>5, <2>1, <3>1, <3>3 DEF Kept, OnlySent, SentAtAll, Announces
  <2>2. CASE tool # "Read"
    <3>1. /\ Emit(<<A!BlockDelta(block_index, "tool_use")>>)
          /\ IF up.cut = "none" THEN Sent({}, {item}) ELSE shown' = shown
      BY <2>2 DEF ArgsDelta
    <3>2. Sync' /\ Told' /\ message_started' = TRUE
      <4>1. Orderly => block_started /\ tool # "none" /\ block_index <= MaxItems
        BY <1>1, <1>2, IndexBound DEF Shape
      <4>2. /\ up'.server = up.server /\ ReadingLine /\ client' = client
            /\ UNCHANGED <<block_index, block_started, has_tool_use, tool>>
        BY <1>2, <1>4
      <4> QED
        BY <1>1, <3>1, <4>1, <4>2, ArgumentsSync
    <3>3. CASE up.cut = "none"
      <4>1. Sent({}, {item}) /\ {} \cup {item} = {item}
        BY <3>1, <3>3
      <4>2. /\ shown' \in [Items -> Shown] /\ Kept /\ OnlySent(item)
            /\ shown'[item].text + shown'[item].tool > 0
            /\ CountsAs(shown[item], "none") => CountsAs(shown'[item], "tool")
        BY <1>3, <1>5, <4>1, OneSent
      <4> QED
        BY <2>2, <3>2, <3>3, <4>2 DEF Announces
    <3>4. CASE up.cut # "none"
      <4>1. shown' = shown
        BY <3>1, <3>4
      <4> QED
        BY <1>5, <2>2, <3>2, <3>4, <4>1 DEF Kept, OnlySent, SentAtAll, Announces
    <3> QED
      BY <3>3, <3>4
  <2> QED
    BY <2>1, <2>2
<1>7. TypeOK'
  <2>1. Typed'
    BY <1>1, <1>2, <1>6 DEF TypeOK, Typed
  <2> QED
    BY <1>1, <1>2, <1>4, <2>1, TypeOKAgain DEF TypeOK
<1>8. UpstreamOK'
  BY <1>1, <1>2, <1>3, <1>4 DEF UpstreamOK
<1>9. Shape'
  <2> SUFFICES ASSUME Orderly
               PROVE  Shape'
    BY <1>4, SameServer DEF Shape
  <2>1. Blocks' = Blocks
    BY <1>2 DEF Blocks
  <2> QED
    BY <1>1, <1>2, <1>4, <2>1 DEF Shape
<1>10. ~Settled(item)'
  BY <1>1, <1>2, <1>4, UpFields DEF Settled, UpstreamOK
<1>11. Once'
  <2> SUFFICES ASSUME Prosaic, ~MayOmit("text_done")
               PROVE  Once'
    BY <1>4, SameServer DEF Once
  <2>1. /\ (\A i \in Items : Settled(i) => SentAs(i, up.due[i]))'
        /\ (\A i \in Items : i > item => SentAs(i, "none"))'
    BY <1>1, <1>4, <1>6, <1>10, OnceForAll
  <2>2. /\ up.due[item] = "tool" /\ (up.cut = "plain" <=> saw_args)
        /\ CountsAs(shown[item], IF saw_args /\ tool # "Read" THEN "tool" ELSE "none")
        /\ up.first # 0 => saw_text_delta
    BY <1>1, <1>2 DEF Once, SentAs
  <2>3. CountsAs(shown'[item], IF tool # "Read" THEN "tool" ELSE "none")
    BY <1>3, <1>6, <2>2
  <2> QED
    BY <1>2, <1>3, <1>4, <2>1, <2>2, <2>3 DEF Once, SentAs
<1>12. Somehow'
  <2> SUFFICES ASSUME ~MayOmit("text_done"), ~MayOmit("deltas")
               PROVE  Somehow'
    BY <1>4, SameServer DEF Somehow
  <2>1. (\A i \in Items : Settled(i) /\ up.due[i] # "none" => SentAtAll(i))'
    BY <1>1, <1>4, <1>6, <1>10, SomehowForAll
  <2>2. /\ up.cut = "plain" <=> saw_args
        /\ saw_args /\ tool # "Read" => SentAtAll(item)
        /\ buffered = {}
    BY <1>1, <1>2 DEF Somehow
  <2>3. tool # "Read" => SentAtAll(item)'
    BY <1>3, <1>4, <1>6, <2>2 DEF SentAtAll
  <2> QED
    BY <1>2, <1>3, <1>4, <2>1, <2>2, <2>3 DEF Somehow
<1> QED
  BY <1>6, <1>7, <1>8, <1>9, <1>11, <1>12 DEF IInv

\* response.function_call_arguments.done.
LEMMA ArgsDoneKeeps ==
  ASSUME IInv, ArgsDone
  PROVE  IInv'
<1> DEFINE full == tool = "Read" \/ ~saw_args
<1>1. TypeOK /\ Sync /\ Announces /\ Shape /\ UpstreamOK /\ Once /\ Somehow
  BY DEF IInv
<1>2. /\ ReadingLine /\ up.stage = "call" /\ block_started
      /\ Emit((IF full THEN <<A!BlockDelta(block_index, "tool_use")>> ELSE << >>) \o CloseBlock)
      /\ IF full THEN Sent({}, {item}) ELSE shown' = shown
      /\ Stage("between")
      /\ block_started' = FALSE /\ block_index' = block_index + 1
      /\ tool' = "none" /\ saw_args' = FALSE
      /\ UNCHANGED <<has_tool_use, stop_reason, saw_text_delta, buffered, client>>
  BY DEF ArgsDone
<1>3. item \in Items /\ full \in BOOLEAN
  BY <1>1, <1>2 DEF UpstreamOK
<1>4. /\ up' \in Upstreams /\ up'.server = up.server /\ up'.stage = "between"
      /\ up'.due = up.due /\ up'.text = up.text /\ up'.cut = up.cut
      /\ up'.first = up.first /\ up'.complete = up.complete /\ item' = item
  BY <1>1, <1>2, StageSet DEF Stages
<1>5. /\ item \in Nat /\ block_index \in Nat /\ block_started \in BOOLEAN
      /\ shown \in [Items -> Shown]
      /\ Orderly => /\ tool # "none" /\ buffered = {} /\ block_index + 1 <= item
                    /\ block_index <= MaxItems
                    /\ up.text \in {"none", "prose"} /\ up.cut \in {"none", "plain"}
  <2>1. item \in Nat /\ block_index \in Nat /\ block_started \in BOOLEAN
        /\ shown \in [Items -> Shown]
    BY <1>1, UpFields DEF TypeOK
  <2>2. Orderly => block_index <= MaxItems
    BY IndexBound
  <2>3. Blocks = block_index + 1
    BY <1>2 DEF Blocks
  <2>4. Orderly => /\ tool # "none" /\ buffered = {} /\ Blocks <= item
                   /\ up.text \in {"none", "prose"} /\ up.cut \in {"none", "plain"}
    BY <1>1, <1>2 DEF Shape
  <2> QED
    BY <2>1, <2>2, <2>3, <2>4
<1>6. Sync' /\ Told' /\ message_started' = TRUE
  <2>1. Orderly => block_started /\ tool # "none" /\ block_index <= MaxItems
    BY <1>2, <1>5
  <2>2. up'.server = up.server /\ client' = client /\ ReadingLine /\ has_tool_use' = has_tool_use
    BY <1>2, <1>4
  <2> HIDE DEF full
  <2> QED
    BY <1>1, <1>2, <1>3, <2>1, <2>2, CallEndsSync
<1>7. /\ shown' \in [Items -> Shown] /\ Kept /\ OnlySent(item)
      /\ full => /\ shown'[item].text + shown'[item].tool > 0
                 /\ CountsAs(shown[item], "none") => CountsAs(shown'[item], "tool")
      /\ ~full => shown' = shown
  <2> HIDE DEF full
  <2>1. CASE full
    <3>1. Sent({}, {item}) /\ {} \cup {item} = {item}
      BY <1>2, <2>1
    <3>2. /\ shown' \in [Items -> Shown] /\ Kept /\ OnlySent(item)
          /\ shown'[item].text + shown'[item].tool > 0
          /\ CountsAs(shown[item], "none") => CountsAs(shown'[item], "tool")
      BY <1>3, <1>5, <3>1, OneSent
    <3> QED
      BY <2>1, <3>2
  <2>2. CASE ~full
    <3>1. shown' = shown
      BY <1>2, <2>2
    <3> QED
      BY <1>5, <2>2, <3>1 DEF Kept, OnlySent, SentAtAll
  <2> QED
    BY <2>1, <2>2
<1>8. TypeOK'
  <2>1. Typed'
    <3>1. block_index' \in Nat
      BY <1>2, <1>5
    <3> HIDE DEF full
    <3> QED
      BY <1>1, <1>2, <1>6, <1>7, <3>1 DEF TypeOK, Typed
  <2> QED
    BY <1>1, <1>2, <1>4, <2>1, TypeOKAgain DEF TypeOK
<1>9. Announces' /\ UpstreamOK'
  BY <1>1, <1>2, <1>4, <1>6 DEF Announces, UpstreamOK
<1>10. Shape'
  <2> SUFFICES ASSUME Orderly
               PROVE  Shape'
    BY <1>4, SameServer DEF Shape
  <2>1. Blocks' <= item' /\ block_index' <= item'
    BY <1>2, <1>4, <1>5 DEF Blocks
  <2> QED
    BY <1>2, <1>4, <1>5, <2>1 DEF Shape
<1>11. Once'
  <2> SUFFICES ASSUME Prosaic, ~MayOmit("text_done")
               PROVE  Once'
    BY <1>4, SameServer DEF Once
  <2>1. /\ up.due[item] = "tool"
        /\ CountsAs(shown[item], IF saw_args /\ tool # "Read" THEN "tool" ELSE "none")
        /\ up.first # 0 => saw_text_delta
    BY <1>1, <1>2 DEF Once, SentAs
  <2>2. CountsAs(shown'[item], up.due[item])
    BY <1>7, <2>1
  <2>3. /\ (\A i \in Items : Settled(i) => SentAs(i, up.due[i]))'
        /\ (\A i \in Items : i > item => SentAs(i, "none"))'
    BY <1>1, <1>4, <1>7, <2>2, OnceForAll
  <2> QED
    BY <1>2, <1>4, <2>1, <2>3 DEF Once
<1>12. Somehow'
  <2> SUFFICES ASSUME ~MayOmit("text_done"), ~MayOmit("deltas")
               PROVE  Somehow'
    BY <1>4, SameServer DEF Somehow
  <2>1. saw_args /\ tool # "Read" => SentAtAll(item)
    BY <1>1, <1>2 DEF Somehow
  <2>2. SentAtAll(item)'
    BY <1>4, <1>7, <2>1 DEF SentAtAll
  <2>3. (\A i \in Items : Settled(i) /\ up.due[i] # "none" => SentAtAll(i))'
    BY <1>1, <1>4, <1>7, <2>2, SomehowForAll
  <2>4. buffered' = {}
    BY <1>1, <1>2 DEF Somehow
  <2> QED
    BY <1>4, <2>3, <2>4 DEF Somehow
<1> QED
  BY <1>6, <1>8, <1>9, <1>10, <1>11, <1>12 DEF IInv

\* response.output_item.done of a reasoning item.
LEMMA ReasoningDoneKeeps ==
  ASSUME IInv, ReasoningDone
  PROVE  IInv'
<1>1. TypeOK /\ Sync /\ Announces /\ Shape /\ UpstreamOK /\ Once /\ Somehow
  BY DEF IInv
<1>2. /\ Begin("between", "none", "none")
      /\ UNCHANGED <<block_started, has_tool_use, stop_reason, saw_text_delta, tool, saw_args,
                     buffered, client, shown>>
  BY DEF ReasoningDone
<1>3. "between" \in Stages /\ "none" \in Texts /\ "none" \in Forms
  BY DEF Stages, Texts, Forms
<1>4. /\ up' \in Upstreams /\ up'.server = up.server /\ up'.stage = "between"
      /\ up'.text = "none" /\ up'.cut = "none" /\ up'.complete = up.complete
      /\ item' = item + 1 /\ item' \in Items /\ item' <= MaxItems
      /\ \A i \in 1..item : up'.due[i] = up.due[i]
      /\ up'.due[item'] = "none"
      /\ up'.first = up.first /\ up'.first <= item'
      /\ ReadingLine /\ up.stage = "between"
  BY <1>1, <1>2, <1>3, Begun
<1>5. /\ item \in Nat /\ block_index \in Nat /\ block_started \in BOOLEAN
      /\ Orderly => /\ buffered = {} /\ tool = "none" /\ (block_started => saw_text_delta)
                    /\ Blocks <= item /\ block_index <= MaxItems
                    /\ ~MayOmit("text_done") => ~block_started
  <2>1. item \in Nat /\ block_index \in Nat /\ block_started \in BOOLEAN
    BY <1>1, UpFields DEF TypeOK
  <2>2. Orderly => block_index <= MaxItems
    BY IndexBound
  <2> QED
    BY <1>1, <1>4, <2>1, <2>2 DEF Shape
<1>6. /\ Sync' /\ Told' /\ Announces'
      /\ block_index' = block_index \/ (block_index' = block_index + 1
                                        /\ (Orderly => ~block_started))
  <2>1. CASE up.server.thinking
    <3>1. /\ Emit(<<A!BlockStart(block_index, "thinking"),
                    A!BlockDelta(block_index, "thinking"), A!BlockStop(block_index)>>)
          /\ block_index' = block_index + 1
      BY <2>1 DEF ReasoningDone
    <3>2. Orderly => ~block_started
      BY <1>5, <2>1 DEF Orderly, Prosaic, MayOmit
    <3>3. Orderly => ~block_started /\ block_index <= MaxItems
      BY <1>5, <3>2
    <3>4. /\ up'.server = up.server /\ client' = client /\ ReadingLine
          /\ UNCHANGED <<block_started, has_tool_use, tool>>
      BY <1>2, <1>4
    <3>5. Sync' /\ Told' /\ message_started' = TRUE
      BY <1>1, <3>1, <3>3, <3>4, ThoughtSync
    <3> QED
      BY <3>1, <3>2, <3>5 DEF Announces
  <2>2. CASE ~up.server.thinking
    <3>1. UNCHANGED <<block_index, message_started, ended, out>>
      BY <2>2 DEF ReasoningDone
    <3>2. Sync' /\ Announces' /\ Typed'
      BY <1>1, <1>2, <1>4, <3>1, NothingDone
    <3> QED
      BY <3>1, <3>2 DEF Typed
  <2> QED
    BY <2>1, <2>2
<1>7. TypeOK'
  <2>1. Typed'
    BY <1>1, <1>2, <1>5, <1>6 DEF TypeOK, Typed
  <2> QED
    BY <1>1, <1>2, <1>4, <2>1, TypeOKAgain DEF TypeOK
<1>8. UpstreamOK'
  BY <1>1, <1>4 DEF UpstreamOK
<1>9. Shape'
  <2> SUFFICES ASSUME Orderly
               PROVE  Shape'
    BY <1>4, SameServer DEF Shape
  <2>1. Blocks' <= item' /\ block_index' <= item'
    BY <1>2, <1>4, <1>5, <1>6 DEF Blocks
  <2>2. ~MayOmit("text_done")' => ~block_started'
    BY <1>2, <1>4, <1>5, SameServer
  <2> QED
    BY <1>2, <1>4, <1>5, <2>1, <2>2 DEF Shape
<1>10. Once'
  <2> SUFFICES ASSUME Prosaic, ~MayOmit("text_done")
               PROVE  Once'
    BY <1>4, SameServer DEF Once
  <2>1. /\ (\A i \in Items : Settled(i) => SentAs(i, up.due[i]))'
        /\ (\A i \in Items : i > item => SentAs(i, "none"))'
    BY <1>1, <1>2, <1>4, OnceForNext
  <2>2. up.first # 0 => saw_text_delta
    BY <1>1, <1>4 DEF Once
  <2> QED
    BY <1>2, <1>4, <2>1, <2>2 DEF Once
<1>11. Somehow'
  <2> SUFFICES ASSUME ~MayOmit("text_done"), ~MayOmit("deltas")
               PROVE  Somehow'
    BY <1>4, SameServer DEF Somehow
  <2>1. (\A i \in Items : Settled(i) /\ up.due[i] # "none" => SentAtAll(i))'
    BY <1>1, <1>2, <1>4, SomehowForNext
  <2>2. buffered' = {}
    BY <1>1, <1>2, <1>4 DEF Somehow
  <2> QED
    BY <1>4, <2>1, <2>2 DEF Somehow
<1> QED
  BY <1>6, <1>7, <1>8, <1>9, <1>10, <1>11 DEF IInv

-----------------------------------------------------------------------------
(* The end of the stream *)

\* response.completed and response.incomplete.
LEMMA CompletedKeeps ==
  ASSUME IInv, NEW outcome \in {"completed", "max_output_tokens", "content_filter"},
         NEW listed \in Listed, Completed(outcome, listed)
  PROVE  IInv'
<1>1. TypeOK /\ Sync /\ Announces /\ Shape /\ UpstreamOK /\ Once /\ Somehow
  BY DEF IInv
<1>2. /\ ReadingLine /\ up.stage = "between"
      /\ up' = [up EXCEPT !.stage = "over", !.complete = TRUE]
      /\ stop_reason' = IF outcome = "completed" THEN stop_reason ELSE "max_tokens"
      /\ UNCHANGED <<tool, saw_args, client>>
  BY DEF Completed
<1>3. /\ up' \in Upstreams /\ up'.server = up.server /\ up'.stage = "over"
      /\ up'.due = up.due /\ up'.text = up.text /\ up'.cut = up.cut
      /\ up'.first = up.first /\ up'.complete = TRUE /\ item' = item
  BY <1>1, <1>2, Ended
<1>4. /\ item \in Nat /\ block_index \in Nat /\ block_started \in BOOLEAN
      /\ saw_text_delta \in BOOLEAN
      /\ Orderly => /\ buffered = {} /\ tool = "none" /\ (block_started => saw_text_delta)
                    /\ block_index <= item /\ block_index <= MaxItems
                    /\ up.text \in {"none", "prose"} /\ up.cut \in {"none", "plain"}
  <2>1. /\ item \in Nat /\ block_index \in Nat /\ block_started \in BOOLEAN
        /\ saw_text_delta \in BOOLEAN
    BY <1>1, UpFields DEF TypeOK
  <2>2. Orderly => block_index <= MaxItems
    BY IndexBound
  <2> QED
    BY <1>1, <1>2, <2>1, <2>2 DEF Shape
<1>5. Settled(item)
  BY <1>2, <1>4 DEF Settled
<1>6. Prosaic /\ ~MayOmit("text_done") /\ up.first # 0 => saw_text_delta = TRUE
  BY <1>1, <1>2, <1>4 DEF Once
<1>7. /\ Typed' /\ Sync' /\ Announces' /\ Kept
      /\ buffered = {} => buffered' = {}
      /\ Orderly => /\ block_index' = block_index
                    /\ \/ UNCHANGED <<block_started, saw_text_delta>>
                       \/ saw_text_delta' = TRUE
      /\ Prosaic /\ ~MayOmit("text_done") =>
           shown' = shown /\ (saw_text_delta = TRUE => saw_text_delta' = TRUE)
  <2>1. CASE outcome = "max_output_tokens" /\ ~saw_text_delta /\ ~block_started
    <3>1. /\ Emit(<<A!Error>>)
          /\ UNCHANGED <<block_index, block_started, has_tool_use, saw_text_delta, buffered,
                         shown>>
      BY <2>1 DEF Completed
    <3>2. Sync' /\ Told' /\ message_started' = message_started
      BY <1>1, <1>2, <1>3, <3>1, ErrorSync
    <3>3. Typed' /\ Announces' /\ Kept
      BY <1>1, <3>1, <3>2 DEF TypeOK, Typed, Announces, Kept, SentAtAll
    <3> QED
      BY <3>1, <3>2, <3>3
  <2>2. CASE /\ ~(outcome = "max_output_tokens" /\ ~saw_text_delta /\ ~block_started)
             /\ buffered # {}
    <3>1. Flush(buffered, FALSE)
      BY <2>2 DEF Completed, FlushBuffered
    <3>2. ~Orderly
      BY <1>4, <2>2
    <3>3. Typed' /\ Sync' /\ Announces' /\ Kept
      BY <1>1, <1>2, <1>3, <3>1, <3>2, FlushDone
    <3> QED
      BY <2>2, <3>2, <3>3, OrderlyThen
  <2>3. CASE /\ buffered = {} /\ ~saw_text_delta /\ ~block_started /\ listed # 0
             /\ EmitTextBlock(listed)
    <3>1. Orderly => ~block_started /\ tool = "none" /\ block_index <= MaxItems
      BY <1>4, <2>3
    <3>2. /\ TypeOK /\ Sync /\ ReadingLine
          /\ up'.server = up.server /\ client' = client /\ tool' = tool
      BY <1>1, <1>2, <1>3
    <3>3. /\ Typed' /\ Sync' /\ Announces' /\ Kept
          /\ block_index' = block_index /\ saw_text_delta' = TRUE
          /\ buffered' = buffered
      BY <2>3, <3>1, <3>2, TextBlockDone
    <3>4. ~(Prosaic /\ ~MayOmit("text_done"))
      BY <1>6, <2>3 DEF Listed
    <3> QED
      BY <2>3, <3>3, <3>4
  <2>4. CASE UNCHANGED <<block_index, block_started, has_tool_use, saw_text_delta, buffered,
                         message_started, ended, out, shown>>
    <3>1. Typed' /\ Sync' /\ Announces' /\ Kept
      BY <1>1, <1>2, <1>3, <2>4, NothingDone
    <3> QED
      BY <2>4, <3>1
  <2> QED
    BY <2>1, <2>2, <2>3, <2>4 DEF Completed
<1>8. TypeOK'
  <2>1. stop_reason' \in {"end_turn", "max_tokens"}
    BY <1>1, <1>2 DEF TypeOK
  <2> QED
    BY <1>1, <1>2, <1>3, <1>7, <2>1, TypeOKAgain DEF TypeOK
<1>9. UpstreamOK'
  BY <1>3 DEF UpstreamOK
<1>10. Shape'
  <2> SUFFICES ASSUME Orderly
               PROVE  Shape'
    BY <1>3, SameServer DEF Shape
  <2>1. block_index' <= item' /\ buffered' = {} /\ tool' = "none"
    BY <1>2, <1>3, <1>4, <1>7
  <2>2. block_started' => saw_text_delta'
    <3>1. CASE UNCHANGED <<block_started, saw_text_delta>>
      BY <1>4, <3>1
    <3>2. CASE saw_text_delta' = TRUE
      BY <3>2
    <3> QED
      BY <1>7, <3>1, <3>2
  <2> QED
    BY <1>3, <1>4, <2>1, <2>2 DEF Shape
<1>11. Once'
  <2> SUFFICES ASSUME Prosaic, ~MayOmit("text_done")
               PROVE  Once'
    BY <1>3, SameServer DEF Once
  <2>1. shown' = shown /\ (up.first # 0 => saw_text_delta' = TRUE)
    BY <1>6, <1>7
  <2>2. OnlySent(item) /\ (item \in Items => CountsAs(shown'[item], up.due[item]))
    BY <1>1, <1>5, <2>1 DEF OnlySent, Once, SentAs
  <2>3. /\ (\A i \in Items : Settled(i) => SentAs(i, up.due[i]))'
        /\ (\A i \in Items : i > item => SentAs(i, "none"))'
    BY <1>1, <1>3, <2>2, OnceForAll
  <2> QED
    BY <1>3, <2>1, <2>3 DEF Once
<1>12. Somehow'
  <2> SUFFICES ASSUME ~MayOmit("text_done"), ~MayOmit("deltas")
               PROVE  Somehow'
    BY <1>3, SameServer DEF Somehow
  <2>1. item \in Items /\ up.due[item] # "none" => SentAtAll(item)'
    <3>1. item \in Items /\ up.due[item] # "none" => SentAtAll(item)
      BY <1>1, <1>5 DEF Somehow
    <3> QED
      BY <1>3, <1>7, <3>1 DEF Kept, SentAtAll
  <2>2. (\A i \in Items : Settled(i) /\ up.due[i] # "none" => SentAtAll(i))'
    BY <1>1, <1>3, <1>7, <2>1, SomehowForAll
  <2>3. buffered' = {}
    BY <1>1, <1>2, <1>7 DEF Somehow
  <2> QED
    BY <1>3, <2>2, <2>3 DEF Somehow
<1> QED
  BY <1>7, <1>8, <1>9, <1>10, <1>11, <1>12 DEF IInv

\* The upstream closes the connection.
LEMMA EofKeeps ==
  ASSUME IInv, Eof
  PROVE  IInv'
<1>1. TypeOK /\ Sync /\ Announces /\ Shape /\ UpstreamOK /\ Once /\ Somehow
  BY DEF IInv
<1>2. /\ ReadingLine /\ up.stage # "eof" /\ Stage("eof")
      /\ UNCHANGED <<stop_reason, tool, saw_args, client>>
  BY DEF Eof
<1>3. /\ up' \in Upstreams /\ up'.server = up.server /\ up'.stage = "eof"
      /\ up'.due = up.due /\ up'.text = up.text /\ up'.cut = up.cut
      /\ up'.first = up.first /\ up'.complete = up.complete /\ item' = item
  BY <1>1, <1>2, StageSet DEF Stages
<1>4. Orderly => buffered = {}
  BY <1>1 DEF Shape
<1>5. /\ Typed' /\ Sync' /\ Announces' /\ Kept /\ buffered' = {}
      /\ Orderly => UNCHANGED <<block_index, block_started, saw_text_delta, shown>>
  <2>1. CASE buffered # {}
    <3>1. Flush(buffered, FALSE) /\ ~Orderly
      BY <1>4, <2>1 DEF Eof, FlushBuffered
    <3>2. Typed' /\ Sync' /\ Announces' /\ Kept /\ buffered' = {}
      BY <1>1, <1>2, <1>3, <3>1, FlushDone
    <3> QED
      BY <3>1, <3>2
  <2>2. CASE buffered = {}
    <3>1. UNCHANGED <<block_index, block_started, has_tool_use, saw_text_delta, buffered,
                      message_started, ended, out, shown>>
      BY <2>2 DEF Eof
    <3>2. Typed' /\ Sync' /\ Announces' /\ Kept
      BY <1>1, <1>2, <1>3, <3>1, NothingDone
    <3> QED
      BY <2>2, <3>1, <3>2
  <2> QED
    BY <2>1, <2>2
<1>6. TypeOK'
  BY <1>1, <1>2, <1>3, <1>5, TypeOKAgain DEF TypeOK
<1>7. UpstreamOK'
  BY <1>3 DEF UpstreamOK
<1>8. Shape'
  <2> SUFFICES ASSUME Orderly
               PROVE  Shape'
    BY <1>3, SameServer DEF Shape
  <2>1. UNCHANGED <<block_index, block_started, saw_text_delta>>
    BY <1>5
  <2> QED
    BY <1>1, <1>2, <1>3, <1>5, <2>1 DEF Shape
<1>9. item \in Items /\ Settled(item)' => Settled(item)
  BY <1>1, <1>2, <1>3, UpFields DEF Settled, UpstreamOK
<1>10. Once'
  <2> SUFFICES ASSUME Prosaic, ~MayOmit("text_done")
               PROVE  Once'
    BY <1>3, SameServer DEF Once
  <2>1. shown' = shown
    BY <1>5, OrderlyThen
  <2>2. /\ OnlySent(item)
        /\ item \in Items /\ Settled(item)' => CountsAs(shown'[item], up.due[item])
    BY <1>1, <1>9, <2>1 DEF OnlySent, Once, SentAs
  <2>3. /\ (\A i \in Items : Settled(i) => SentAs(i, up.due[i]))'
        /\ (\A i \in Items : i > item => SentAs(i, "none"))'
    BY <1>1, <1>3, <2>2, OnceForAll
  <2> QED
    BY <1>3, <2>3 DEF Once
<1>11. Somehow'
  <2> SUFFICES ASSUME ~MayOmit("text_done"), ~MayOmit("deltas")
               PROVE  Somehow'
    BY <1>3, SameServer DEF Somehow
  <2>1. item \in Items /\ Settled(item)' /\ up.due[item] # "none" => SentAtAll(item)'
    <3>1. item \in Items /\ Settled(item)' /\ up.due[item] # "none" => SentAtAll(item)
      BY <1>1, <1>9 DEF Somehow
    <3> QED
      BY <1>3, <1>5, <3>1 DEF Kept, SentAtAll
  <2>2. (\A i \in Items : Settled(i) /\ up.due[i] # "none" => SentAtAll(i))'
    BY <1>1, <1>3, <1>5, <2>1, SomehowForAll
  <2> QED
    BY <1>3, <1>5, <2>2 DEF Somehow
<1> QED
  BY <1>5, <1>6, <1>7, <1>8, <1>10, <1>11 DEF IInv

-----------------------------------------------------------------------------
(* The theorems *)

\* Every step keeps the invariant.
LEMMA NextKeeps ==
  ASSUME IInv, [Next]_vars
  PROVE  IInv'
<1>1. CASE UNCHANGED vars
  <2>1. UNCHANGED <<up, state, output>>
    BY <1>1 DEF vars
  <2>2. /\ UNCHANGED <<message_started, ended, out, client, shown, block_index, block_started,
                       has_tool_use, tool>>
        /\ up'.server = up.server
    BY <2>1 DEF state, output
  <2>3. Sync' /\ Told'
    <3>1. TypeOK /\ Sync
      BY DEF IInv
    <3>2. OpenBlock' = OpenBlock
      BY <2>2 DEF OpenBlock
    <3> QED
      BY <2>2, <3>1, <3>2, QuietSync
  <2> QED
    BY <2>1, <2>2, <2>3, StillKeeps
<1>2. ASSUME NEW t \in {"prose", "toolcall", "half"}, BeginMessage(t)
      PROVE  IInv'
  BY <1>2, BeginMessageKeeps
<1>3. ASSUME NEW d \in {"plain", "whole", "open", "more", "close"}, TextDelta(d)
      PROVE  IInv'
  BY <1>3, TextDeltaKeeps
<1>4. ASSUME NEW name \in {"Read", "other"}, CallAdded(name)
      PROVE  IInv'
  BY <1>4, CallAddedKeeps
<1>5. ASSUME NEW outcome \in {"completed", "max_output_tokens", "content_filter"},
             NEW listed \in Listed, Completed(outcome, listed)
      PROVE  IInv'
  BY <1>5, CompletedKeeps
<1>6. CASE TextDone
  BY <1>6, TextDoneKeeps
<1>7. CASE PartDone
  BY <1>7, PartDoneKeeps
<1>8. CASE MessageDone
  BY <1>8, MessageDoneKeeps
<1>9. CASE MessageNotDone
  BY <1>9, MessageNotDoneKeeps
<1>10. CASE ArgsDelta
  BY <1>10, ArgsDeltaKeeps
<1>11. CASE ArgsDone
  BY <1>11, ArgsDoneKeeps
<1>12. CASE ReasoningDone
  BY <1>12, ReasoningDoneKeeps
<1>13. CASE ErrorEvent
  BY <1>13, ErrorEventKeeps
<1>14. CASE Cut
  BY <1>14, CutKeeps
<1>15. CASE Eof
  BY <1>15, EofKeeps
<1>16. CASE Finalize
  BY <1>16, FinalizeKeeps
<1>17. CASE Yield
  BY <1>17, YieldKeeps
<1>18. CASE Upstream
  BY <1>2, <1>3, <1>4, <1>5, <1>6, <1>7, <1>8, <1>9, <1>10, <1>11, <1>12, <1>13, <1>14,
     <1>15, <1>18 DEF Upstream
<1> QED
  BY <1>1, <1>16, <1>17, <1>18 DEF Next

\* The inductive invariant: translator, client and upstream are in step (Sync), an
\* orderly upstream brings about no more blocks than items (Shape), and every item
\* the upstream is done with was sent (Once, Somehow).
THEOREM InvariantHolds == Spec => []IInv
<1>1. Init => IInv
  BY InitEstablishes
<1>2. IInv /\ [Next]_vars => IInv'
  BY NextKeeps
<1> QED
  BY <1>1, <1>2, PTL DEF Spec

-----------------------------------------------------------------------------
(* The fallbacks: what more is known of a server that may leave            *)
(* output_text.done out.                                                   *)

Terse == Prosaic /\ MayOmit("text_done")

\* A message that was not sent: not in deltas, and it need not come in output_text.done.
Missing(i) == up.due[i] = "text" /\ i \notin up.streamed /\ SentAs(i, "none")

SentOrMissing ==
    /\ \A i \in Items : Settled(i) => SentAs(i, up.due[i]) \/ Missing(i)
    /\ \A i \in Items : i > item => SentAs(i, "none")

\* saw_text_delta is set once a text is shown.
Remembered == saw_text_delta <=> \E i \in Items : SentAs(i, "text")

\* The upstream sends prose, somewhere, and knows its first message.
Sensible ==
    /\ up.text \in {"none", "prose"} /\ up.cut \in {"none", "plain"}
    /\ up.streamed \subseteq 1..item
    /\ up.server.omits # {"deltas", "text_done", "item_done", "output"}
    /\ \A i \in 1..item : up.due[i] = "text" => up.first # 0
    /\ up.first # 0 => up.due[up.first] = "text"

\* The translator knows what stage the upstream is at, and how far the item is sent.
InStep ==
    /\ buffered = {}
    /\ tool # "none" => up.stage \in {"call", "eof"}
    /\ block_started /\ tool = "none" => saw_text_delta
    /\ up.stage \in {"text_done", "part_done"} => saw_text_delta
    /\ up.stage = "message" =>
          /\ up.due[item] = "text"
          /\ up.cut = "plain" <=> item \in up.streamed
          /\ up.cut = "plain" => block_started
          /\ SentAs(item, IF up.cut = "none" THEN "none" ELSE "text")
    /\ up.stage = "call" =>
          /\ up.due[item] = "tool" /\ block_started /\ tool # "none"
          /\ up.cut = "plain" <=> saw_args
          /\ SentAs(item, IF saw_args /\ tool # "Read" THEN "tool" ELSE "none")

\* A server that may send a message in the output it lists at the end alone.
Silent == {"deltas", "text_done", "item_done"} \subseteq up.server.omits

\* While no text is shown, the fallbacks that are left still serve; a response that ends
\* with none of its messages shown ends with an error.
LastResort ==
    /\ up.first # 0 /\ ~Silent => saw_text_delta \/ up.stage \in {"message", "eof"}
    /\ up.complete /\ up.first # 0 /\ ~saw_text_delta =>
          /\ ended
          /\ \/ out = <<A!Error>> /\ client.phase # "stopped"
             \/ out = << >> /\ client.phase = "failed"

Fallbacks == Terse => SentOrMissing /\ Remembered /\ Sensible /\ InStep /\ LastResort

\* The server is what it was, and keeps its text somewhere.
LEMMA SameTerse ==
  ASSUME up'.server = up.server
  PROVE  Terse' = Terse /\ Silent' = Silent
BY SameServer DEF Terse, Silent

\* The clauses about every item, when the upstream goes on with the item it is at ...
LEMMA SameItem ==
  ASSUME TypeOK, SentOrMissing, item' = item, up'.due = up.due,
         up'.streamed \subseteq up.streamed \cup {item}, OnlySent(item),
         item \in Items /\ Settled(item)' =>
            \/ CountsAs(shown'[item], up.due[item])
            \/ /\ up.due[item] = "text" /\ item \notin up'.streamed
               /\ CountsAs(shown'[item], "none")
  PROVE  SentOrMissing'
<1>1. ASSUME NEW i \in Items, Settled(i)'
      PROVE  \/ CountsAs(shown'[i], up'.due[i])
             \/ up'.due[i] = "text" /\ i \notin up'.streamed /\ CountsAs(shown'[i], "none")
  <2>1. i <= item
    BY <1>1 DEF Settled
  <2>2. CASE i = item
    BY <1>1, <2>2 DEF Settled
  <2>3. CASE i # item
    <3>1. Settled(i)
      BY <2>1, <2>3, EarlierSettled
    <3> QED
      BY <2>3, <3>1 DEF SentOrMissing, Missing, SentAs, OnlySent
  <2> QED
    BY <2>2, <2>3
<1>2. ASSUME NEW i \in Items, i > item
      PROVE  CountsAs(shown'[i], "none")
  <2>1. i # item
    BY <1>2, UpFields
  <2> QED
    BY <1>2, <2>1 DEF SentOrMissing, SentAs, OnlySent
<1> QED
  BY <1>1, <1>2 DEF SentOrMissing, Missing, SentAs

\* ... and when it begins the next.
LEMMA NextItem ==
  ASSUME TypeOK, SentOrMissing, up.stage = "between", up'.streamed = up.streamed,
         item' = item + 1, \A i \in 1..item : up'.due[i] = up.due[i], shown' = shown,
         up'.due[item'] = "none" \/ up'.stage \in {"message", "call"}
  PROVE  /\ SentOrMissing'
         /\ item' \in Items => CountsAs(shown'[item'], "none")
<1>1. ASSUME NEW i \in Items, Settled(i)'
      PROVE  \/ CountsAs(shown'[i], up'.due[i])
             \/ up'.due[i] = "text" /\ i \notin up'.streamed /\ CountsAs(shown'[i], "none")
  <2>1. i <= item' /\ i \in Nat /\ item \in Nat
    BY <1>1, UpFields DEF Settled, Items
  <2>2. CASE i = item'
    <3>1. up'.due[i] = "none" /\ i > item
      BY <1>1, <2>1, <2>2 DEF Settled
    <3> QED
      BY <3>1 DEF SentOrMissing, SentAs
  <2>3. CASE i # item'
    <3>1. i \in 1..item /\ i <= item
      BY <2>1, <2>3 DEF Items
    <3>2. Settled(i)
      BY <3>1 DEF Settled
    <3> QED
      BY <3>1, <3>2 DEF SentOrMissing, Missing, SentAs
  <2> QED
    BY <2>2, <2>3
<1>2. ASSUME NEW i \in Items, i >= item'
      PROVE  CountsAs(shown'[i], "none")
  <2>1. i > item
    BY <1>2, UpFields DEF Items
  <2> QED
    BY <2>1 DEF SentOrMissing, SentAs
<1>3. item' \in Nat
  BY UpFields
<1> QED
  BY <1>1, <1>2, <1>3 DEF SentOrMissing, Missing, SentAs, Items

\* saw_text_delta is set with a text, ...
LEMMA TextRemembered ==
  ASSUME NEW i \in Items, CountsAs(shown'[i], "text"), saw_text_delta' = TRUE
  PROVE  Remembered'
BY DEF Remembered, SentAs

\* ... and stays as it is when no text is sent.
LEMMA StillRemembered ==
  ASSUME Remembered, saw_text_delta' = saw_text_delta, NEW j, OnlySent(j),
         j \in Items => (CountsAs(shown'[j], "text") <=> CountsAs(shown[j], "text"))
  PROVE  Remembered'
<1>1. \A i \in Items : CountsAs(shown'[i], "text") <=> CountsAs(shown[i], "text")
  BY DEF OnlySent
<1> QED
  BY <1>1 DEF Remembered, SentAs

\* Neither the upstream nor the translator moves.
LEMMA StillFallsBack ==
  ASSUME Fallbacks, UNCHANGED <<up, state, shown>>,
         ~ended \/ UNCHANGED <<ended, out, client>>
  PROVE  Fallbacks'
<1> SUFFICES ASSUME Terse
             PROVE  (SentOrMissing /\ Remembered /\ Sensible /\ InStep /\ LastResort)'
  BY SameTerse DEF Fallbacks
<1>1. SentOrMissing /\ Remembered /\ Sensible /\ InStep /\ LastResort
  BY DEF Fallbacks
<1>2. /\ UNCHANGED <<up, block_started, saw_text_delta, tool, saw_args, buffered, shown>>
      /\ item' = item
  BY DEF state, item
<1>3. SentOrMissing'
  BY <1>1, <1>2 DEF SentOrMissing, Missing, Settled, SentAs
<1>4. Remembered'
  BY <1>1, <1>2 DEF Remembered, SentAs
<1>5. Sensible' /\ InStep'
  BY <1>1, <1>2 DEF Sensible, InStep, SentAs
<1>6. LastResort'
  BY <1>1, <1>2 DEF LastResort, Silent
<1> QED
  BY <1>3, <1>4, <1>5, <1>6

\* An event is yielded.
LEMMA YieldFallsBack ==
  ASSUME IInv, Fallbacks, Yield
  PROVE  Fallbacks'
<1>1. UNCHANGED <<up, state, shown, ended>> /\ YieldEvent
  BY DEF Yield, YieldEvent
<1> SUFFICES ASSUME Terse
             PROVE  (SentOrMissing /\ Remembered /\ Sensible /\ InStep /\ LastResort)'
  BY <1>1, SameTerse DEF Fallbacks
<1>2. SentOrMissing /\ Remembered /\ Sensible /\ InStep /\ LastResort
  BY DEF Fallbacks
<1>3. /\ UNCHANGED <<up, block_started, saw_text_delta, tool, saw_args, buffered, shown>>
      /\ item' = item
  BY <1>1 DEF state, item
<1>4. SentOrMissing'
  BY <1>2, <1>3 DEF SentOrMissing, Missing, Settled, SentAs
<1>5. Remembered'
  BY <1>2, <1>3 DEF Remembered, SentAs
<1>6. Sensible' /\ InStep'
  BY <1>2, <1>3 DEF Sensible, InStep, SentAs
<1>7. LastResort'
  <2>1. ASSUME out = <<A!Error>>, client.phase # "stopped"
        PROVE  out' = << >> /\ client'.phase = "failed"
    <3>1. client' = A!After(client, A!Error) /\ out' = << >>
      BY <1>1, <2>1 DEF YieldEvent
    <3>2. client \in Clients(TRUE)
      BY DEF IInv, TypeOK
    <3> QED
      BY <2>1, <3>1, <3>2, AfterError
  <2> QED
    BY <1>1, <1>2, <1>3, <2>1 DEF LastResort, Silent, YieldEvent
<1> QED
  BY <1>4, <1>5, <1>6, <1>7

\* response.output_text.delta: prose is sent at once.
LEMMA TextDeltaFallsBack ==
  ASSUME IInv, Fallbacks, NEW d \in {"plain", "whole", "open", "more", "close"}, TextDelta(d)
  PROVE  Fallbacks'
<1>1. TypeOK /\ UpstreamOK
  BY DEF IInv
<1>2. /\ up.stage = "message" /\ DeltaFits(d)
      /\ up' = [up EXCEPT !.cut = CutAfter(d), !.streamed = @ \cup {item}]
      /\ UNCHANGED <<tool, saw_args>>
  BY DEF TextDelta
<1>3. /\ item \in Items /\ item \in 1..item /\ item \in Nat
      /\ CutAfter(d) \in Cuts /\ up.complete = FALSE
      /\ shown \in [Items -> Shown]
  <2>1. item \in Items /\ up.complete = FALSE
    BY <1>1, <1>2, UpFields DEF UpstreamOK
  <2>2. CutAfter(d) \in Cuts
    BY <1>1, UpFields DEF CutAfter, Cuts
  <2>3. item \in 1..item /\ item \in Nat
    BY <1>1, <2>1, UpFields DEF Items
  <2> QED
    BY <1>1, <2>1, <2>2, <2>3 DEF TypeOK
<1>4. /\ up'.server = up.server /\ up'.stage = "message" /\ up'.due = up.due
      /\ up'.text = up.text /\ up'.cut = CutAfter(d) /\ up'.streamed = up.streamed \cup {item}
      /\ up'.first = up.first /\ up'.complete = FALSE /\ item' = item
  <2>1. up.streamed \cup {item} \in SUBSET Nat
    BY <1>1, <1>3, UpFields
  <2> DEFINE c == CutAfter(d)
             S == up.streamed \cup {item}
  <2>2. up' = [up EXCEPT !.cut = c, !.streamed = S] /\ c \in Cuts /\ S \in SUBSET Nat
    BY <1>2, <1>3, <2>1
  <2> HIDE DEF c, S
  <2>3. /\ up'.server = up.server /\ up'.stage = up.stage /\ up'.due = up.due
        /\ up'.text = up.text /\ up'.cut = c /\ up'.streamed = S
        /\ up'.first = up.first /\ up'.complete = up.complete /\ item' = item
    BY <1>1, <2>2, CutSet
  <2> QED
    BY <1>2, <1>3, <2>3 DEF c, S
<1> SUFFICES ASSUME Terse
             PROVE  (SentOrMissing /\ Remembered /\ Sensible /\ InStep /\ LastResort)'
  BY <1>4, SameTerse DEF Fallbacks
<1>5. SentOrMissing /\ Remembered /\ Sensible /\ InStep /\ LastResort
  BY DEF Fallbacks
<1>6. d = "plain" /\ CutAfter(d) = "plain" /\ ~ShouldBuffer(d)
  BY <1>2, <1>5 DEF DeltaFits, Sensible, InStep, CutAfter, ShouldBuffer
<1>7. /\ buffered' = {} /\ block_started' = TRUE /\ saw_text_delta' = TRUE
      /\ IF up.cut = "none" THEN Sent({item}, {}) ELSE shown' = shown
  BY <1>5, <1>6 DEF TextDelta, Sensible, InStep
<1>8. OnlySent(item) /\ CountsAs(shown'[item], "text")
  <2>1. CASE up.cut = "none"
    <3>1. Sent({item}, {}) /\ {item} \cup {} = {item}
      BY <1>7, <2>1
    <3>2. CountsAs(shown[item], "none")
      BY <1>2, <1>5, <2>1 DEF InStep, SentAs
    <3> QED
      BY <1>3, <3>1, <3>2, OneSent
  <2>2. CASE up.cut # "none"
    <3>1. shown' = shown /\ CountsAs(shown[item], "text")
      BY <1>2, <1>5, <1>7, <2>2 DEF InStep, SentAs
    <3> QED
      BY <3>1 DEF OnlySent
  <2> QED
    BY <2>1, <2>2
<1>9. up.due[item] = "text" /\ tool = "none"
  BY <1>2, <1>5 DEF InStep
<1>10. SentOrMissing'
  BY <1>1, <1>4, <1>5, <1>8, <1>9, SameItem
<1>11. Remembered'
  BY <1>3, <1>7, <1>8, TextRemembered
<1>12. Sensible'
  BY <1>3, <1>4, <1>5, <1>6 DEF Sensible
<1>13. InStep'
  BY <1>2, <1>3, <1>4, <1>6, <1>7, <1>8, <1>9 DEF InStep, SentAs
<1>14. LastResort'
  BY <1>4, <1>7 DEF LastResort
<1> QED
  BY <1>10, <1>11, <1>12, <1>13, <1>14

\* The upstream goes on to stage s of the message it is at, or of none, of which the
\* translator sends the text once more or not at all.
LEMMA StageFallsBack ==
  ASSUME IInv, Fallbacks, Terse, NEW s \in {"text_done", "part_done", "between"}, Stage(s),
         buffered' = {}, tool' = "none", OnlySent(item),
         block_started' => saw_text_delta',
         s # "between" => saw_text_delta',
         saw_text_delta' \/ Silent \/ up.first = 0,
         up.complete = FALSE,
         \/ /\ item \in Items /\ saw_text_delta' = TRUE
            /\ CountsAs(shown'[item], "text") /\ up.due[item] = "text"
         \/ /\ saw_text_delta' = saw_text_delta
            /\ item \in Items => (CountsAs(shown'[item], "text") <=> CountsAs(shown[item], "text"))
            /\ item \in Items => \/ CountsAs(shown'[item], up.due[item])
                                 \/ /\ up.due[item] = "text" /\ item \notin up.streamed
                                    /\ CountsAs(shown'[item], "none")
  PROVE  Fallbacks'
<1>1. TypeOK
  BY DEF IInv
<1>2. /\ up'.server = up.server /\ up'.stage = s /\ up'.due = up.due
      /\ up'.text = up.text /\ up'.cut = up.cut /\ up'.streamed = up.streamed
      /\ up'.first = up.first /\ up'.complete = FALSE /\ item' = item
  BY <1>1, StageSet DEF Stages
<1> SUFFICES (SentOrMissing /\ Remembered /\ Sensible /\ InStep /\ LastResort)'
  BY <1>2, SameTerse DEF Fallbacks
<1>3. SentOrMissing /\ Remembered /\ Sensible /\ InStep /\ LastResort
  BY DEF Fallbacks
<1>4. SentOrMissing'
  BY <1>1, <1>2, <1>3, SameItem
<1>5. Remembered'
  <2>1. CASE /\ item \in Items /\ saw_text_delta' = TRUE
             /\ CountsAs(shown'[item], "text")
    BY <2>1, TextRemembered
  <2>2. CASE /\ saw_text_delta' = saw_text_delta
             /\ item \in Items
                  => (CountsAs(shown'[item], "text") <=> CountsAs(shown[item], "text"))
    <3>1. PICK j : j = item
      OBVIOUS
    <3> QED
      BY <1>3, <2>2, <3>1, StillRemembered
  <2> QED
    BY <2>1, <2>2
<1>6. Sensible'
  BY <1>2, <1>3 DEF Sensible
<1>7. InStep'
  BY <1>2 DEF InStep
<1>8. LastResort'
  BY <1>2, SameTerse DEF LastResort
<1> QED
  BY <1>4, <1>5, <1>6, <1>7, <1>8

\* What is known of a message whose text is over, or may be.
LEMMA AtMessage ==
  ASSUME IInv, Fallbacks, Terse, up.stage \in {"message", "text_done", "part_done"}
  PROVE  /\ buffered = {} /\ tool = "none" /\ (block_started => saw_text_delta)
         /\ up.complete = FALSE
         /\ up.text \in {"none", "prose"} /\ up.cut \in {"none", "plain"}
         /\ up.stage # "message" => saw_text_delta
         /\ item \in Items =>
              \/ CountsAs(shown[item], up.due[item])
              \/ /\ up.due[item] = "text" /\ item \notin up.streamed
                 /\ CountsAs(shown[item], "none")
         /\ up.stage = "message" =>
              /\ item \in Items /\ up.due[item] = "text"
              /\ up.cut = "plain" => block_started
              /\ up.cut = "none" => CountsAs(shown[item], "none")
<1>1. TypeOK /\ UpstreamOK
  BY DEF IInv
<1>2. SentOrMissing /\ Sensible /\ InStep
  BY DEF Fallbacks
<1>3. up.complete = FALSE
  BY <1>1, UpFields DEF UpstreamOK
<1>4. CASE up.stage = "message"
  BY <1>1, <1>2, <1>3, <1>4 DEF InStep, Sensible, UpstreamOK, SentAs
<1>5. CASE up.stage # "message"
  <2>1. item \in Items => Settled(item)
    BY <1>1, <1>5, UpFields DEF Settled, Items
  <2> QED
    BY <1>2, <1>3, <1>5, <2>1 DEF InStep, Sensible, SentOrMissing, Missing, SentAs
<1> QED
  BY <1>4, <1>5

\* What the tail of the `done' events does when nothing is held back.
LEMMA Closed ==
  ASSUME FlushOrClose, buffered = {}, block_started \in BOOLEAN
  PROVE  buffered' = {} /\ block_started' = FALSE /\ UNCHANGED <<saw_text_delta, shown>>
BY DEF FlushOrClose

\* What emit_text_block does to the item it is for.
LEMMA TextSent ==
  ASSUME TypeOK, NEW i \in Items, EmitTextBlock(i), CountsAs(shown[i], "none")
  PROVE  /\ OnlySent(i) /\ CountsAs(shown'[i], "text")
         /\ saw_text_delta' = TRUE /\ block_started' = TRUE /\ buffered' = buffered
<1>1. Sent({i}, {}) /\ {i} \cup {} = {i} /\ shown \in [Items -> Shown]
  BY DEF EmitTextBlock, TypeOK
<1>2. OnlySent(i) /\ CountsAs(shown'[i], "text")
  BY <1>1, OneSent
<1> QED
  BY <1>2 DEF EmitTextBlock

\* response.output_text.done.
LEMMA TextDoneFallsBack ==
  ASSUME IInv, Fallbacks, TextDone
  PROVE  Fallbacks'
<1>1. TypeOK /\ up'.server = up.server
  BY StageSet DEF IInv, TextDone, Stages
<1> SUFFICES ASSUME Terse
             PROVE  Fallbacks'
  BY <1>1, SameTerse DEF Fallbacks
<1>2. /\ up.stage = "message" /\ Stage("text_done") /\ tool' = tool
      /\ IF buffered = {} /\ ~block_started THEN EmitTextBlock(item) ELSE FlushOrClose
  BY AtMessage DEF TextDone
<1>3. /\ buffered = {} /\ tool = "none" /\ (block_started => saw_text_delta)
      /\ up.complete = FALSE /\ item \in Items /\ up.due[item] = "text"
      /\ up.cut \in {"none", "plain"}
      /\ up.cut = "plain" => block_started
      /\ up.cut = "none" => CountsAs(shown[item], "none")
      /\ \/ CountsAs(shown[item], up.due[item])
         \/ up.due[item] = "text" /\ item \notin up.streamed /\ CountsAs(shown[item], "none")
  BY <1>2, AtMessage
<1>4. CASE ~block_started
  <2>1. PICK i \in Items : i = item
    BY <1>3
  <2>2. /\ OnlySent(i) /\ CountsAs(shown'[i], "text")
        /\ saw_text_delta' = TRUE /\ block_started' = TRUE /\ buffered' = buffered
    BY <1>1, <1>2, <1>3, <1>4, <2>1, TextSent
  <2> QED
    BY <1>2, <1>3, <2>1, <2>2, StageFallsBack
<1>5. CASE block_started
  <2>1. buffered' = {} /\ block_started' = FALSE /\ UNCHANGED <<saw_text_delta, shown>>
    BY <1>1, <1>2, <1>3, <1>5, Closed DEF TypeOK
  <2>2. OnlySent(item) /\ saw_text_delta'
    BY <1>3, <1>5, <2>1 DEF OnlySent
  <2> QED
    BY <1>2, <1>3, <2>1, <2>2, StageFallsBack
<1> QED
  BY <1>4, <1>5

\* response.content_part.done.
LEMMA PartDoneFallsBack ==
  ASSUME IInv, Fallbacks, PartDone
  PROVE  Fallbacks'
<1>1. TypeOK /\ up'.server = up.server
  BY StageSet DEF IInv, PartDone, Stages
<1> SUFFICES ASSUME Terse
             PROVE  Fallbacks'
  BY <1>1, SameTerse DEF Fallbacks
<1>2. up.stage = "text_done" /\ Stage("part_done") /\ tool' = tool /\ FlushOrClose
  BY DEF PartDone
<1>3. /\ buffered = {} /\ tool = "none" /\ saw_text_delta /\ up.complete = FALSE
      /\ item \in Items =>
           \/ CountsAs(shown[item], up.due[item])
           \/ up.due[item] = "text" /\ item \notin up.streamed /\ CountsAs(shown[item], "none")
  BY <1>2, AtMessage
<1>4. buffered' = {} /\ block_started' = FALSE /\ UNCHANGED <<saw_text_delta, shown>>
  BY <1>1, <1>2, <1>3, Closed DEF TypeOK
<1>5. OnlySent(item) /\ saw_text_delta'
  BY <1>3, <1>4 DEF OnlySent
<1> QED
  BY <1>2, <1>3, <1>4, <1>5, StageFallsBack

\* A message that is over without output_text.done.
LEMMA MessageDoneFallsBack ==
  ASSUME IInv, Fallbacks, MessageDone \/ MessageNotDone
  PROVE  Fallbacks'
<1>1. TypeOK /\ MessageOver /\ Stage("between") /\ up'.server = up.server
  BY StageSet DEF IInv, MessageDone, MessageNotDone, Stages
<1> SUFFICES ASSUME Terse
             PROVE  Fallbacks'
  BY <1>1, SameTerse DEF Fallbacks
<1>2. up.stage \in {"message", "part_done"} /\ tool' = tool
  BY <1>1 DEF MessageOver, MessageDone, MessageNotDone, state
<1>3. /\ buffered = {} /\ tool = "none" /\ (block_started => saw_text_delta)
      /\ up.complete = FALSE
      /\ up.cut \in {"none", "plain"}
      /\ up.stage # "message" => saw_text_delta
      /\ item \in Items =>
           \/ CountsAs(shown[item], up.due[item])
           \/ up.due[item] = "text" /\ item \notin up.streamed /\ CountsAs(shown[item], "none")
      /\ up.stage = "message" =>
           /\ item \in Items /\ up.due[item] = "text"
           /\ up.cut = "plain" => block_started
           /\ up.cut = "none" => CountsAs(shown[item], "none")
  BY <1>2, AtMessage
<1>4. CASE MessageDone /\ ~saw_text_delta
  <2>1. item \in Items /\ CountsAs(shown[item], "none") /\ up.due[item] = "text"
    BY <1>2, <1>3, <1>4
  <2>2. PICK i \in Items : i = item
    BY <2>1
  <2>3. /\ OnlySent(i) /\ CountsAs(shown'[i], "text")
        /\ saw_text_delta' = TRUE /\ block_started' = TRUE /\ buffered' = buffered
    BY <1>1, <1>4, <2>1, <2>2, TextSent DEF MessageDone
  <2> QED
    BY <1>1, <1>2, <1>3, <2>1, <2>2, <2>3, StageFallsBack
<1>5. CASE MessageNotDone \/ saw_text_delta
  <2>1. UNCHANGED <<block_started, saw_text_delta, buffered, shown>>
    BY <1>5 DEF MessageDone, MessageNotDone, state
  <2>2. saw_text_delta \/ Silent
    <3>1. ASSUME ~saw_text_delta
          PROVE  Silent
      <4>1. up.cut = "none" /\ up.stage = "message" /\ MessageNotDone
        BY <1>2, <1>3, <1>5, <3>1
      <4>2. MayOmit("deltas") /\ MayOmit("item_done") /\ MayOmit("text_done")
        BY <1>1, <4>1 DEF MessageOver, MessageNotDone
      <4> QED
        BY <4>2 DEF MayOmit, Silent
    <3> QED
      BY <3>1
  <2>3. OnlySent(item)
    BY <2>1 DEF OnlySent
  <2> QED
    BY <1>1, <1>2, <1>3, <2>1, <2>2, <2>3, StageFallsBack
<1> QED
  BY <1>4, <1>5

\* What an item that is begun finds.
LEMMA BeginFallsBack ==
  ASSUME IInv, Fallbacks, Terse, NEW s \in {"message", "call", "between"},
         NEW t \in {"none", "prose"}, NEW f \in Forms, Begin(s, t, f),
         f = "text" <=> t = "prose", t = "prose" => s = "message",
         f = "none" \/ s # "between",
         UNCHANGED <<saw_text_delta, buffered, shown>>
  PROVE  /\ SentOrMissing' /\ Remembered' /\ Sensible' /\ LastResort'
         /\ tool = "none" /\ buffered' = {} /\ up'.server = up.server
         /\ (block_started => saw_text_delta)
         /\ up'.stage = s /\ up'.cut = "none" /\ up'.due[item'] = f /\ item' \in Items
         /\ item' \notin up'.streamed /\ CountsAs(shown'[item'], "none")
<1>1. TypeOK /\ UpstreamOK
  BY DEF IInv
<1>2. SentOrMissing /\ Remembered /\ Sensible /\ InStep /\ LastResort
  BY DEF Fallbacks
<1>3. /\ up' \in Upstreams /\ up'.server = up.server /\ up'.stage = s
      /\ up'.text = t /\ up'.cut = "none" /\ up'.complete = up.complete
      /\ up'.streamed = up.streamed
      /\ item' = item + 1 /\ item' \in Items
      /\ \A i \in 1..item : up'.due[i] = up.due[i]
      /\ up'.due[item'] = f
      /\ up'.first = (IF up.first = 0 /\ t # "none" THEN item + 1 ELSE up.first)
      /\ up.stage = "between"
  <2>1. s \in Stages /\ t \in Texts
    BY DEF Stages, Texts
  <2> QED
    BY <1>1, <2>1, Begun
<1>4. item \in Nat /\ up.first \in Nat /\ up.first <= item /\ up.complete = FALSE
  BY <1>1, <1>3, UpFields DEF TypeOK, UpstreamOK
<1>5. SentOrMissing' /\ CountsAs(shown'[item'], "none")
  BY <1>1, <1>2, <1>3, NextItem
<1>6. Remembered'
  BY <1>2 DEF Remembered, SentAs
<1>7. Sensible'
  <2>1. up'.streamed \subseteq 1..item'
    BY <1>2, <1>3, <1>4 DEF Sensible
  <2>2. ASSUME NEW i \in 1..item', up'.due[i] = "text"
        PROVE  up'.first # 0
    <3>1. CASE i = item'
      BY <1>3, <1>4, <2>2, <3>1
    <3>2. CASE i # item'
      <4>1. i \in 1..item /\ up.due[i] = "text"
        BY <1>3, <1>4, <2>2, <3>2
      <4>2. up.first # 0
        BY <1>2, <4>1 DEF Sensible
      <4> QED
        BY <1>3, <4>2
    <3> QED
      BY <3>1, <3>2
  <2>3. ASSUME up'.first # 0
        PROVE  up'.due[up'.first] = "text"
    <3>1. CASE up.first = 0
      BY <1>3, <2>3, <3>1
    <3>2. CASE up.first # 0
      <4>1. up.first \in 1..item /\ up'.first = up.first
        BY <1>3, <1>4, <3>2
      <4> QED
        BY <1>2, <1>3, <3>2, <4>1 DEF Sensible
    <3> QED
      BY <3>1, <3>2
  <2> QED
    BY <1>2, <1>3, <2>1, <2>2, <2>3 DEF Sensible
<1>8. LastResort'
  <2>1. up'.first # 0 /\ ~Silent => saw_text_delta \/ s = "message"
    BY <1>2, <1>3 DEF LastResort
  <2> QED
    BY <1>3, <1>4, <2>1, SameTerse DEF LastResort
<1>9. item' \notin up'.streamed
  BY <1>2, <1>3, <1>4 DEF Sensible
<1> QED
  BY <1>2, <1>3, <1>5, <1>6, <1>7, <1>8, <1>9 DEF InStep

\* The first event of a message.
LEMMA BeginMessageFallsBack ==
  ASSUME IInv, Fallbacks, NEW t \in {"prose", "toolcall", "half"}, BeginMessage(t)
  PROVE  Fallbacks'
<1>1. /\ t \in up.server.texts /\ up'.server = up.server
      /\ Begin("message", t, IF t = "toolcall" THEN "tool" ELSE "text")
      /\ UNCHANGED <<block_started, saw_text_delta, tool, saw_args, buffered, shown>>
  BY DEF BeginMessage, Begin, state, output
<1> SUFFICES ASSUME Terse
             PROVE  Fallbacks'
  BY <1>1, SameTerse DEF Fallbacks
<1>2. t = "prose"
  BY <1>1 DEF Terse, Prosaic
<1>3. Begin("message", "prose", "text") /\ "text" \in Forms
  BY <1>1, <1>2 DEF Forms
<1>4. /\ SentOrMissing' /\ Remembered' /\ Sensible' /\ LastResort'
      /\ tool = "none" /\ buffered' = {} /\ (block_started => saw_text_delta)
      /\ up'.stage = "message" /\ up'.cut = "none" /\ up'.due[item'] = "text"
      /\ item' \notin up'.streamed /\ CountsAs(shown'[item'], "none")
  BY <1>1, <1>3, BeginFallsBack
<1>5. InStep'
  BY <1>1, <1>4 DEF InStep, SentAs
<1> QED
  BY <1>4, <1>5 DEF Fallbacks

\* response.output_item.added.
LEMMA CallAddedFallsBack ==
  ASSUME IInv, Fallbacks, NEW name \in {"Read", "other"}, CallAdded(name)
  PROVE  Fallbacks'
<1>1. /\ Begin("call", "none", "tool") /\ up'.server = up.server
      /\ UNCHANGED <<saw_text_delta, buffered, shown>>
      /\ block_started' = TRUE /\ tool' = name /\ saw_args' = FALSE
  BY DEF CallAdded, Begin
<1> SUFFICES ASSUME Terse
             PROVE  Fallbacks'
  BY <1>1, SameTerse DEF Fallbacks
<1>2. "tool" \in Forms
  BY DEF Forms
<1>3. /\ SentOrMissing' /\ Remembered' /\ Sensible' /\ LastResort' /\ buffered' = {}
      /\ up'.stage = "call" /\ up'.cut = "none" /\ up'.due[item'] = "tool"
      /\ CountsAs(shown'[item'], "none")
  BY <1>1, <1>2, BeginFallsBack
<1>4. InStep'
  BY <1>1, <1>3 DEF InStep, SentAs
<1> QED
  BY <1>3, <1>4 DEF Fallbacks

\* A reasoning item.
LEMMA ReasoningDoneFallsBack ==
  ASSUME IInv, Fallbacks, ReasoningDone
  PROVE  Fallbacks'
<1>1. /\ Begin("between", "none", "none") /\ up'.server = up.server
      /\ UNCHANGED <<block_started, saw_text_delta, tool, saw_args, buffered, shown>>
  BY DEF ReasoningDone, Begin
<1> SUFFICES ASSUME Terse
             PROVE  Fallbacks'
  BY <1>1, SameTerse DEF Fallbacks
<1>2. "none" \in Forms
  BY DEF Forms
<1>3. /\ SentOrMissing' /\ Remembered' /\ Sensible' /\ LastResort' /\ tool = "none"
      /\ buffered' = {} /\ (block_started => saw_text_delta) /\ up'.stage = "between"
  BY <1>1, <1>2, BeginFallsBack
<1>4. InStep'
  BY <1>1, <1>3 DEF InStep
<1> QED
  BY <1>3, <1>4 DEF Fallbacks

\* What is known of a call.
LEMMA AtCall ==
  ASSUME IInv, Fallbacks, Terse, up.stage = "call"
  PROVE  /\ item \in Items /\ item \in 1..item /\ up.complete = FALSE /\ buffered = {}
         /\ up.cut \in {"none", "plain"} /\ up.due[item] = "tool" /\ block_started
         /\ tool # "none" /\ (up.cut = "plain" <=> saw_args)
         /\ CountsAs(shown[item], IF saw_args /\ tool # "Read" THEN "tool" ELSE "none")
         /\ saw_text_delta \/ Silent \/ up.first = 0
         /\ shown \in [Items -> Shown]
<1>1. TypeOK /\ UpstreamOK /\ InStep /\ LastResort
  BY DEF IInv, Fallbacks
<1>2. item \in Items /\ item \in 1..item /\ up.complete = FALSE
  BY <1>1, UpFields DEF UpstreamOK, Items
<1> QED
  BY <1>1, <1>2 DEF InStep, UpstreamOK, LastResort, SentAs, TypeOK

\* A delta of a call's arguments.
LEMMA ArgsDeltaFallsBack ==
  ASSUME IInv, Fallbacks, ArgsDelta
  PROVE  Fallbacks'
<1>1. TypeOK
  BY DEF IInv
<1>2. /\ up.stage = "call" /\ up' = [up EXCEPT !.cut = "plain"] /\ saw_args' = TRUE
      /\ UNCHANGED <<block_started, saw_text_delta, tool, buffered>>
  BY DEF ArgsDelta
<1>3. /\ up'.server = up.server /\ up'.stage = "call" /\ up'.due = up.due
      /\ up'.text = up.text /\ up'.cut = "plain" /\ up'.streamed = up.streamed
      /\ up'.first = up.first /\ up'.complete = up.complete /\ item' = item
  BY <1>2, UpFields DEF IInv, TypeOK, Upstreams, item
<1> SUFFICES ASSUME Terse
             PROVE  (SentOrMissing /\ Remembered /\ Sensible /\ InStep /\ LastResort)'
  BY <1>3, SameTerse DEF Fallbacks
<1>4. SentOrMissing /\ Remembered /\ Sensible /\ InStep /\ LastResort
  BY DEF Fallbacks
<1>5. /\ item \in Items /\ item \in 1..item /\ up.complete = FALSE /\ buffered = {}
      /\ up.cut \in {"none", "plain"} /\ up.due[item] = "tool" /\ block_started
      /\ tool # "none" /\ (up.cut = "plain" <=> saw_args)
      /\ CountsAs(shown[item], IF saw_args /\ tool # "Read" THEN "tool" ELSE "none")
      /\ saw_text_delta \/ Silent \/ up.first = 0
      /\ shown \in [Items -> Shown]
  BY <1>2, AtCall
<1>6. OnlySent(item) /\ CountsAs(shown'[item], IF tool # "Read" THEN "tool" ELSE "none")
  <2>1. CASE tool = "Read" \/ up.cut = "plain"
    <3>1. shown' = shown
      BY <2>1 DEF ArgsDelta
    <3> QED
      BY <1>5, <2>1, <3>1 DEF OnlySent
  <2>2. CASE tool # "Read" /\ up.cut = "none"
    <3>1. Sent({}, {item}) /\ {} \cup {item} = {item}
      BY <2>2 DEF ArgsDelta
    <3>2. CountsAs(shown[item], "none")
      BY <1>5, <2>2
    <3> QED
      BY <1>5, <2>2, <3>1, <3>2, OneSent
  <2> QED
    BY <1>5, <2>1, <2>2
<1>7. ~Settled(item)'
  <2>1. item \in Nat
    BY UpFields DEF IInv
  <2> QED
    BY <1>3, <1>5, <2>1 DEF Settled
<1>8. SentOrMissing'
  BY <1>3, <1>4, <1>6, <1>7, SameItem DEF IInv
<1>9. Remembered'
  <2>1. ~CountsAs(shown[item], "text") /\ ~CountsAs(shown'[item], "text")
    BY <1>5, <1>6 DEF CountsAs
  <2>2. PICK j : j = item
    OBVIOUS
  <2> QED
    BY <1>2, <1>4, <1>6, <2>1, <2>2, StillRemembered
<1>10. Sensible'
  BY <1>3, <1>4 DEF Sensible
<1>11. InStep'
  BY <1>2, <1>3, <1>5, <1>6 DEF InStep, SentAs
<1>12. LastResort'
  BY <1>2, <1>3, <1>5, SameTerse DEF LastResort
<1> QED
  BY <1>8, <1>9, <1>10, <1>11, <1>12

\* response.function_call_arguments.done.
LEMMA ArgsDoneFallsBack ==
  ASSUME IInv, Fallbacks, ArgsDone
  PROVE  Fallbacks'
<1>1. /\ up.stage = "call" /\ Stage("between") /\ block_started' = FALSE /\ tool' = "none"
      /\ UNCHANGED <<saw_text_delta, buffered>>
      /\ IF tool = "Read" \/ ~saw_args THEN Sent({}, {item}) ELSE shown' = shown
      /\ up'.server = up.server
  BY StageSet DEF ArgsDone, IInv, Stages
<1> SUFFICES ASSUME Terse
             PROVE  Fallbacks'
  BY <1>1, SameTerse DEF Fallbacks
<1>2. /\ item \in Items /\ item \in 1..item /\ up.complete = FALSE /\ buffered = {}
      /\ up.cut \in {"none", "plain"} /\ up.due[item] = "tool" /\ block_started
      /\ tool # "none" /\ (up.cut = "plain" <=> saw_args)
      /\ CountsAs(shown[item], IF saw_args /\ tool # "Read" THEN "tool" ELSE "none")
      /\ saw_text_delta \/ Silent \/ up.first = 0
      /\ shown \in [Items -> Shown]
  BY <1>1, AtCall
<1>3. OnlySent(item) /\ CountsAs(shown'[item], "tool")
  <2>1. CASE tool = "Read" \/ ~saw_args
    <3>1. Sent({}, {item}) /\ {} \cup {item} = {item} /\ CountsAs(shown[item], "none")
      BY <1>1, <1>2, <2>1
    <3> QED
      BY <1>2, <3>1, OneSent
  <2>2. CASE ~(tool = "Read" \/ ~saw_args)
    <3>1. shown' = shown /\ CountsAs(shown[item], "tool")
      BY <1>1, <1>2, <2>2
    <3> QED
      BY <3>1 DEF OnlySent
  <2> QED
    BY <2>1, <2>2
<1>4. ~CountsAs(shown[item], "text") /\ ~CountsAs(shown'[item], "text")
  BY <1>2, <1>3 DEF CountsAs
<1> QED
  BY <1>1, <1>2, <1>3, <1>4, StageFallsBack

\* The upstream closes the connection.
LEMMA EofFallsBack ==
  ASSUME IInv, Fallbacks, Eof
  PROVE  Fallbacks'
<1>1. TypeOK /\ UpstreamOK
  BY DEF IInv
<1>2. /\ up.stage # "eof" /\ Stage("eof") /\ ~ended /\ UNCHANGED <<tool, saw_args>>
      /\ IF buffered # {} THEN FlushBuffered
         ELSE UNCHANGED <<block_index, block_started, has_tool_use, saw_text_delta, buffered,
                          message_started, ended, out, shown>>
  BY DEF Eof, ReadingLine
<1>3. /\ up'.server = up.server /\ up'.stage = "eof" /\ up'.due = up.due
      /\ up'.text = up.text /\ up'.cut = up.cut /\ up'.streamed = up.streamed
      /\ up'.first = up.first /\ up'.complete = up.complete /\ item' = item
  BY <1>1, <1>2, StageSet DEF Stages
<1> SUFFICES ASSUME Terse
             PROVE  (SentOrMissing /\ Remembered /\ Sensible /\ InStep /\ LastResort)'
  BY <1>3, SameTerse DEF Fallbacks
<1>4. SentOrMissing /\ Remembered /\ Sensible /\ InStep /\ LastResort
  BY DEF Fallbacks
<1>5. UNCHANGED <<block_started, saw_text_delta, buffered, shown>>
  BY <1>2, <1>4 DEF InStep
<1>6. ASSUME item \in Items, Settled(item)'
      PROVE  \/ CountsAs(shown'[item], up.due[item])
             \/ up.due[item] = "text" /\ item \notin up'.streamed /\ CountsAs(shown'[item], "none")
  <2>1. Settled(item)
    BY <1>1, <1>3, <1>6, UpFields DEF Settled, UpstreamOK
  <2> QED
    BY <1>3, <1>4, <1>5, <1>6, <2>1 DEF SentOrMissing, Missing, SentAs
<1>7. OnlySent(item)
  BY <1>5 DEF OnlySent
<1>8. SentOrMissing'
  BY <1>1, <1>3, <1>4, <1>6, <1>7, SameItem
<1>9. Remembered'
  BY <1>4, <1>5 DEF Remembered, SentAs
<1>10. Sensible'
  BY <1>3, <1>4 DEF Sensible
<1>11. InStep'
  BY <1>2, <1>3, <1>4, <1>5 DEF InStep
<1>12. LastResort'
  BY <1>2, <1>3, <1>4, <1>5 DEF LastResort
<1> QED
  BY <1>8, <1>9, <1>10, <1>11, <1>12

\* response.completed and response.incomplete.
LEMMA CompletedFallsBack ==
  ASSUME IInv, Fallbacks, NEW outcome \in {"completed", "max_output_tokens", "content_filter"},
         NEW listed \in Listed, Completed(outcome, listed)
  PROVE  Fallbacks'
<1>1. TypeOK /\ Sync
  BY DEF IInv
<1>2. /\ ReadingLine /\ up.stage = "between" /\ UNCHANGED <<tool, saw_args, client>>
      /\ up' = [up EXCEPT !.stage = "over", !.complete = TRUE]
  BY DEF Completed
<1>3. /\ up'.server = up.server /\ up'.stage = "over" /\ up'.due = up.due
      /\ up'.text = up.text /\ up'.cut = up.cut /\ up'.streamed = up.streamed
      /\ up'.first = up.first /\ up'.complete = TRUE /\ item' = item
  BY <1>1, <1>2, Ended
<1> SUFFICES ASSUME Terse
             PROVE  (SentOrMissing /\ Remembered /\ Sensible /\ InStep /\ LastResort)'
  BY <1>3, SameTerse DEF Fallbacks
<1>4. SentOrMissing /\ Remembered /\ Sensible /\ InStep /\ LastResort
  BY DEF Fallbacks
<1>5. /\ item \in Nat /\ up.first \in Nat /\ up.first <= item /\ MaxItems \in Nat
      /\ item <= MaxItems /\ (item \in Items => Settled(item))
  <2>1. item \in Nat /\ up.first \in Nat /\ MaxItems \in Nat
    BY <1>1, UpFields
  <2>2. up.first <= item /\ item <= MaxItems
    BY <1>1 DEF TypeOK
  <2>3. Settled(item)
    BY <1>2, <2>1 DEF Settled
  <2> QED
    BY <2>1, <2>2, <2>3
<1>6. tool = "none" /\ buffered = {} /\ (block_started => saw_text_delta)
  BY <1>2, <1>4 DEF InStep
<1>7. Sensible'
  BY <1>3, <1>4 DEF Sensible
<1>8. CASE /\ ~(outcome = "max_output_tokens" /\ ~saw_text_delta /\ ~block_started)
           /\ ~saw_text_delta /\ listed # 0
  <2>1. EmitTextBlock(listed) /\ listed = up.first
    BY <1>6, <1>8 DEF Completed, Listed
  <2>2. PICK i : i = up.first
    OBVIOUS
  <2>3. i \in Items /\ i \in 1..item /\ EmitTextBlock(i) /\ up.due[i] = "text"
    BY <1>4, <1>5, <1>8, <2>1, <2>2 DEF Items, Sensible
  <2>4. Settled(i)
    BY <1>2, <1>5, <2>3 DEF Settled
  <2>5. CountsAs(shown[i], "none")
    BY <1>4, <1>8, <2>3, <2>4 DEF SentOrMissing, Missing, Remembered, SentAs
  <2>6. /\ OnlySent(i) /\ CountsAs(shown'[i], "text")
        /\ saw_text_delta' = TRUE /\ buffered' = {}
    BY <1>1, <1>6, <2>3, <2>5, TextSent
  <2>7. SentOrMissing'
    <3>1. ASSUME NEW j \in Items, Settled(j)'
          PROVE  \/ CountsAs(shown'[j], up.due[j])
                 \/ /\ up.due[j] = "text" /\ j \notin up.streamed
                    /\ CountsAs(shown'[j], "none")
      <4>1. CASE j = i
        BY <2>3, <2>6, <4>1
      <4>2. CASE j # i
        <5>1. Settled(j)
          BY <1>2, <1>3, <3>1 DEF Settled
        <5> QED
          BY <1>4, <2>6, <4>2, <5>1 DEF SentOrMissing, Missing, SentAs, OnlySent
      <4> QED
        BY <4>1, <4>2
    <3>2. ASSUME NEW j \in Items, j > item
          PROVE  CountsAs(shown'[j], "none")
      <4>1. j # i
        BY <1>5, <2>3, <3>2
      <4> QED
        BY <1>4, <2>6, <3>2, <4>1 DEF SentOrMissing, SentAs, OnlySent
    <3> QED
      BY <1>3, <3>1, <3>2 DEF SentOrMissing, Missing, SentAs
  <2>8. Remembered'
    BY <2>3, <2>6, TextRemembered
  <2>9. InStep'
    BY <1>2, <1>3, <1>6, <2>6 DEF InStep
  <2>10. LastResort'
    BY <2>6 DEF LastResort
  <2> QED
    BY <1>7, <2>7, <2>8, <2>9, <2>10
<1>9. CASE ~(/\ ~(outcome = "max_output_tokens" /\ ~saw_text_delta /\ ~block_started)
             /\ ~saw_text_delta /\ listed # 0)
  <2>1. UNCHANGED <<block_started, saw_text_delta, buffered, shown>>
    BY <1>6, <1>9 DEF Completed
  <2>2. OnlySent(item)
    BY <2>1 DEF OnlySent
  <2>3. SentOrMissing'
    <3>1. item \in Items =>
            \/ CountsAs(shown'[item], up.due[item])
            \/ /\ up.due[item] = "text" /\ item \notin up'.streamed
               /\ CountsAs(shown'[item], "none")
      BY <1>3, <1>4, <1>5, <2>1 DEF SentOrMissing, Missing, SentAs
    <3> QED
      BY <1>1, <1>3, <1>4, <2>2, <3>1, SameItem
  <2>4. Remembered'
    BY <1>4, <2>1 DEF Remembered, SentAs
  <2>5. InStep'
    BY <1>2, <1>3, <1>6, <2>1 DEF InStep
  <2>6. ASSUME up.first # 0, ~saw_text_delta
        PROVE  Silent /\ ended' /\ out' = <<A!Error>> /\ client'.phase # "stopped"
    <3>1. Silent
      BY <1>2, <1>4, <2>6 DEF LastResort
    <3>2. ~MayOmit("output")
      <4>1. up.server.omits \subseteq {"deltas", "text_done", "item_done", "output"}
        BY <1>1, UpFields DEF Server
      <4> QED
        BY <1>4, <3>1, <4>1 DEF MayOmit, Silent, Sensible
    <3>3. listed # 0
      BY <2>6, <3>2 DEF Listed
    <3>4. Emit(<<A!Error>>)
      BY <1>9, <2>6, <3>3 DEF Completed
    <3>5. ended' /\ out' = <<A!Error>>
      BY <3>4 DEF Emit
    <3>6. client'.phase # "stopped"
      BY <1>1, <1>2, Reading
    <3> QED
      BY <3>1, <3>5, <3>6
  <2>7. LastResort'
    BY <1>3, <2>1, <2>6, SameTerse DEF LastResort
  <2> QED
    BY <1>7, <2>3, <2>4, <2>5, <2>7
<1> QED
  BY <1>8, <1>9

\* Every step keeps Fallbacks.
LEMMA NextFallsBack ==
  ASSUME IInv, Fallbacks, [Next]_vars
  PROVE  Fallbacks'
<1>1. CASE UNCHANGED vars
  <2>1. UNCHANGED <<up, state, shown, ended, out, client>>
    BY <1>1 DEF vars, output
  <2> QED
    BY <2>1, StillFallsBack
<1>2. CASE ErrorEvent \/ Cut \/ Finalize
  <2>1. UNCHANGED <<up, state, shown>> /\ ~ended
    BY <1>2 DEF ErrorEvent, Cut, Finalize, ReadingLine
  <2> QED
    BY <2>1, StillFallsBack
<1>3. CASE Yield
  BY <1>3, YieldFallsBack
<1>4. CASE Upstream /\ ~(ErrorEvent \/ Cut)
  <2>1. CASE \E t \in {"prose", "toolcall", "half"} : BeginMessage(t)
    BY <2>1, BeginMessageFallsBack
  <2>2. CASE \E d \in {"plain", "whole", "open", "more", "close"} : TextDelta(d)
    BY <2>2, TextDeltaFallsBack
  <2>3. CASE \E name \in {"Read", "other"} : CallAdded(name)
    BY <2>3, CallAddedFallsBack
  <2>4. CASE \E outcome \in {"completed", "max_output_tokens", "content_filter"},
                listed \in Listed : Completed(outcome, listed)
    BY <2>4, CompletedFallsBack
  <2>5. CASE TextDone
    BY <2>5, TextDoneFallsBack
  <2>6. CASE PartDone
    BY <2>6, PartDoneFallsBack
  <2>7. CASE MessageDone \/ MessageNotDone
    BY <2>7, MessageDoneFallsBack
  <2>8. CASE ArgsDelta
    BY <2>8, ArgsDeltaFallsBack
  <2>9. CASE ArgsDone
    BY <2>9, ArgsDoneFallsBack
  <2>10. CASE ReasoningDone
    BY <2>10, ReasoningDoneFallsBack
  <2>11. CASE Eof
    BY <2>11, EofFallsBack
  <2> QED
    BY <1>4, <2>1, <2>2, <2>3, <2>4, <2>5, <2>6, <2>7, <2>8, <2>9, <2>10, <2>11 DEF Upstream
<1> QED
  BY <1>1, <1>2, <1>3, <1>4 DEF Next

\* The fallbacks, too, are inductive, on top of the invariant.
LEMMA FallbacksHold == Spec => []Fallbacks
<1>1. Init => Fallbacks
  <2> SUFFICES ASSUME Init, Terse
               PROVE  SentOrMissing /\ Remembered /\ Sensible /\ InStep /\ LastResort
    BY DEF Fallbacks
  <2>1. PICK s \in Servers :
          up = [server |-> s, stage |-> "between", due |-> << >>, text |-> "none",
                cut |-> "none", streamed |-> {}, first |-> 0, complete |-> FALSE]
    BY DEF Init
  <2>2. item = 0 /\ up.server.omits # {"deltas", "text_done", "item_done", "output"}
    BY <2>1, ResponsesAssumption DEF item
  <2>3. /\ shown = [i \in Items |-> [text |-> 0, tool |-> 0]] /\ buffered = {}
        /\ tool = "none" /\ block_started = FALSE /\ saw_text_delta = FALSE
    BY DEF Init, OutputInit
  <2>4. \A i \in Items : ~(i <= item) /\ SentAs(i, "none") /\ ~SentAs(i, "text")
    BY <2>2, <2>3 DEF Items, SentAs, CountsAs
  <2>5. SentOrMissing /\ Remembered
    BY <2>3, <2>4 DEF SentOrMissing, Remembered, Settled
  <2>6. Sensible /\ InStep /\ LastResort
    BY <2>1, <2>2, <2>3 DEF Sensible, InStep, LastResort
  <2> QED
    BY <2>5, <2>6
<1>2. IInv /\ Fallbacks /\ [Next]_vars => Fallbacks'
  BY NextFallsBack
<1> QED
  BY <1>1, <1>2, InvariantHolds, PTL DEF Spec

\* The client changes in Yield only.
LEMMA OnlyYieldIsSeen ==
  ASSUME [Next]_vars, ~Yield
  PROVE  client' = client /\ up'.server = up.server
<1>1. CASE UNCHANGED vars
  BY <1>1 DEF vars, output
<1>2. ASSUME NEW s, NEW t, NEW f, Begin(s, t, f)
      PROVE  up'.server = up.server
  BY <1>2 DEF Begin
<1>3. ASSUME NEW s, NEW S, \/ Stage(s) \/ up' = [up EXCEPT !.cut = s]
                            \/ up' = [up EXCEPT !.cut = s, !.streamed = S]
      PROVE  up'.server = up.server
  <2>1. CASE Stage(s)
    BY <2>1 DEF Stage
  <2>2. CASE up' = [up EXCEPT !.cut = s]
    BY <2>2
  <2>3. CASE up' = [up EXCEPT !.cut = s, !.streamed = S]
    BY <2>3
  <2> QED
    BY <1>3, <2>1, <2>2, <2>3
<1>4. CASE Upstream
  <2>1. CASE \E t \in {"prose", "toolcall", "half"} : BeginMessage(t)
    BY <1>2, <2>1 DEF BeginMessage, output
  <2>2. CASE \E d \in {"plain", "whole", "open", "more", "close"} : TextDelta(d)
    BY <1>3, <2>2 DEF TextDelta
  <2>3. CASE \E name \in {"Read", "other"} : CallAdded(name)
    BY <1>2, <2>3 DEF CallAdded
  <2>4. CASE \E outcome \in {"completed", "max_output_tokens", "content_filter"},
                listed \in Listed : Completed(outcome, listed)
    BY <2>4 DEF Completed
  <2>5. CASE TextDone \/ PartDone \/ MessageDone
    BY <1>3, <2>5 DEF TextDone, PartDone, MessageDone
  <2>6. CASE MessageNotDone \/ ArgsDone \/ Eof
    BY <1>3, <2>6 DEF MessageNotDone, ArgsDone, Eof
  <2>7. CASE ArgsDelta
    BY <1>3, <2>7 DEF ArgsDelta
  <2>8. CASE ReasoningDone
    BY <1>2, <2>8 DEF ReasoningDone
  <2>9. CASE ErrorEvent \/ Cut
    BY <2>9 DEF ErrorEvent, Cut
  <2> QED
    BY <1>4, <2>1, <2>2, <2>3, <2>4, <2>5, <2>6, <2>7, <2>8, <2>9 DEF Upstream
<1>5. CASE Finalize
  BY <1>5 DEF Finalize
<1> QED
  BY <1>1, <1>4, <1>5 DEF Next

\* process_response_completed and finish_stream tell the client the stop reason
\* that fits what they sent: "tool_use" exactly when there was a tool_use block,
\* whatever the upstream sends.
THEOREM StopReasonIsTold == Spec => []StopReasonTold
<1>1. IInv => StopReasonTold
  BY DEF IInv, TypeOK, Clients, StopReasonTold
<1> QED
  BY <1>1, InvariantHolds, PTL

\* The upstream of a complete response is done with all of its items.
LEMMA SettledAtTheEnd ==
  ASSUME IInv, up.complete, NEW i \in DOMAIN up.due
  PROVE  i \in Items /\ Settled(i) /\ up.due[i] \in Forms /\ shown[i] \in Shown
<1>1. TypeOK /\ UpstreamOK
  BY DEF IInv
<1>2. /\ up.due \in Seq(Forms) /\ item \in Nat /\ MaxItems \in Nat /\ item <= MaxItems
      /\ shown \in [Items -> Shown]
  BY <1>1, UpFields DEF TypeOK
<1>3. i \in 1..item /\ up.due[i] \in Forms
  BY <1>2 DEF item
<1>4. i \in Items /\ i <= item
  BY <1>2, <1>3 DEF Items
<1>5. Settled(i)
  BY <1>1, <1>2, <1>3, <1>4 DEF Settled, UpstreamOK
<1> QED
  BY <1>2, <1>3, <1>4, <1>5

\* The ways the text of a message can arrive, and those of arguments, never make it
\* reach the client twice, and lose none but a text that came in no delta and maybe
\* not in output_text.done, beside another that was shown: saw_text_delta, set by the
\* first text and never reset, is what the fallbacks go by.
THEOREM EachItemOnce == Spec => []ContentOnce
<1>1. IInv /\ Fallbacks => ContentOnce
  <2> SUFFICES ASSUME IInv, Fallbacks, Prosaic, Over(up.complete), NEW i \in DOMAIN up.due
               PROVE  SentAs(i, up.due[i]) \/ Overlooked(i)
    BY DEF ContentOnce
  <2>1. i \in Items /\ Settled(i)
    BY SettledAtTheEnd DEF Over
  <2>2. CASE ~MayOmit("text_done")
    BY <2>1, <2>2 DEF IInv, Once
  <2>3. CASE Terse /\ Missing(i)
    <3>1. SentOrMissing /\ Remembered /\ Sensible /\ LastResort
      BY <2>3 DEF Fallbacks
    <3>2. i \in 1..item /\ item \in Nat
      BY <2>1, UpFields DEF Items, Settled, IInv
    <3>3. up.first # 0
      BY <2>3, <3>1, <3>2 DEF Sensible, Missing
    <3>4. saw_text_delta
      BY <3>1, <3>3 DEF LastResort, Over
    <3>5. PICK j \in Items : SentAs(j, "text")
      BY <3>1, <3>4 DEF Remembered
    <3>6. j <= item
      <4>1. SentAs(j, "text") => ~SentAs(j, "none")
        BY DEF SentAs, CountsAs
      <4> QED
        BY <3>1, <3>2, <3>5, <4>1 DEF SentOrMissing, Items
    <3>7. j \in DOMAIN up.due
      <4>1. up.due \in Seq(Forms)
        BY UpFields DEF IInv
      <4> QED
        BY <3>2, <3>6, <4>1 DEF Items, item
    <3> QED
      BY <2>3, <3>5, <3>7 DEF Overlooked, Missing, Terse
  <2>4. CASE Terse /\ SentAs(i, up.due[i])
    BY <2>4
  <2> QED
    BY <2>1, <2>2, <2>3, <2>4 DEF Terse, Fallbacks, SentOrMissing
<1> QED
  BY <1>1, InvariantHolds, FallbacksHold, PTL

\* The end of a stream is always told, and nothing is dropped that was held back
\* for being perhaps a textual call.
THEOREM NothingIsLost == Spec => []NothingLost
<1>1. IInv => EndIsTold
  <2> SUFFICES ASSUME IInv, ended, out = << >>
               PROVE  client.phase \in {"stopped", "failed"}
    BY DEF EndIsTold
  <2>1. PICK d \in Clients(TRUE) : Path(client, out, d, Orderly, TRUE) /\ Matches(d)
    BY DEF IInv, Sync
  <2>2. client = d
    BY <2>1, OrderlyTyped, PathDone
  <2> QED
    BY <2>1, <2>2 DEF Matches
<1>2. ASSUME IInv, ~MayOmit("text_done"), Prosaic \/ ~MayOmit("deltas")
      PROVE  SentSomehow(up.complete, up.due)
  <2> SUFFICES ASSUME Over(up.complete), NEW i \in DOMAIN up.due, up.due[i] # "none"
               PROVE  shown[i].text + shown[i].tool > 0
    BY DEF SentSomehow
  <2>1. i \in Items /\ Settled(i) /\ up.due[i] \in Forms
    BY <1>2, SettledAtTheEnd DEF Over
  <2>2. CASE Prosaic
    <3>1. CountsAs(shown[i], up.due[i])
      BY <1>2, <2>1, <2>2 DEF IInv, Once, SentAs
    <3> QED
      BY <2>1, <3>1 DEF CountsAs, Forms
  <2>3. CASE ~MayOmit("deltas")
    BY <1>2, <2>1, <2>3 DEF IInv, Somehow, SentAtAll
  <2> QED
    BY <1>2, <2>2, <2>3
<1>3. IInv => NothingLost
  BY <1>1, <1>2 DEF NothingLost
<1> QED
  BY <1>3, InvariantHolds, PTL

\* The abstract specification speaks of the same events.
LEMMA SamePromise ==
  /\ Promise!Events = A!Events /\ Promise!Nothing = A!Nothing
  /\ \A c, e : /\ Promise!Legal(c, e) <=> A!Legal(c, e)
               /\ Promise!After(c, e) = A!After(c, e)
<1>1. Promise!Events = A!Events
  BY DEF Promise!Events, A!Events, Promise!MessageStart, A!MessageStart, Promise!MessageStop,
         A!MessageStop, Promise!Error, A!Error, Promise!BlockStart, A!BlockStart,
         Promise!BlockDelta, A!BlockDelta, Promise!BlockStop, A!BlockStop,
         Promise!MessageDelta, A!MessageDelta, Promise!BlockTypes, A!BlockTypes,
         Promise!StopReasons, A!StopReasons
<1>2. Promise!Nothing = A!Nothing
  BY DEF Promise!Nothing, A!Nothing
<1>3. ASSUME NEW c, NEW e
      PROVE  /\ Promise!Legal(c, e) <=> A!Legal(c, e)
             /\ Promise!After(c, e) = A!After(c, e)
  BY DEF Promise!Legal, A!Legal, Promise!After, A!After
<1> QED
  BY <1>1, <1>2, <1>3

\* The translator implements AnthropicStream: what an orderly upstream makes the
\* client see is a legal stream, event by event (refinement, with the client as the
\* mapped variable).
THEOREM StreamIsLegal == Spec => LegalStream
<1> DEFINE seen == IF Orderly THEN client ELSE A!Nothing
<1>1. Init => Promise!Init
  BY SamePromise DEF Init, OutputInit, Promise!Init
<1>2. IInv /\ [Next]_vars => [Promise!Next]_seen
  <2> SUFFICES ASSUME IInv, [Next]_vars
               PROVE  [Promise!Next]_seen
    OBVIOUS
  <2>1. CASE ~Yield
    <3>1. seen' = seen
      BY <2>1, OnlyYieldIsSeen, SameServer
    <3> QED
      BY <3>1
  <2>2. CASE Yield /\ ~Orderly
    <3>1. Orderly' = Orderly
      BY <2>2, SameServer DEF Yield
    <3> QED
      BY <2>2, <3>1
  <2>3. CASE Yield /\ Orderly
    <3>1. Orderly' = Orderly
      BY <2>3, SameServer DEF Yield
    <3>2. A!Legal(client, out[1]) /\ out[1] \in A!Events
      BY <2>3, YieldKeeps
    <3>3. client' = A!After(client, out[1])
      BY <2>3 DEF Yield, YieldEvent
    <3>4. seen = client /\ seen' = client'
      BY <2>3, <3>1
    <3>5. Promise!Legal(seen, out[1]) /\ seen' = Promise!After(seen, out[1])
      BY <3>2, <3>3, <3>4, SamePromise
    <3> QED
      BY <3>2, <3>5, SamePromise DEF Promise!Next
  <2> QED
    BY <2>1, <2>2, <2>3
<1> QED
  BY <1>1, <1>2, InvariantHolds, PTL DEF Spec, LegalStream, Promise!Spec
=============================================================================
