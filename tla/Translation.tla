----------------------------- MODULE Translation -----------------------------
(***************************************************************************)
(* What the adapters make of an Anthropic request and of an upstream's     *)
(* answer: src/proxy/translate/{responses,chat_completions,tool_id}.rs and *)
(* src/proxy/util.rs, for answers that are not streamed (ResponsesStream   *)
(* and ChatStream are about the streamed ones).                            *)
(*                                                                         *)
(* A message is [role, plain, content]: content is a sequence of blocks,   *)
(* and plain says that it came as one string.  Texts are pairs that say    *)
(* whose they are.  A translated request is the sequence of its items, in  *)
(* one form for both protocols.                                            *)
(***************************************************************************)
EXTENDS Naturals, Sequences, FiniteSets, Functions, SequencesExt

CONSTANTS
    Tools,          \* the names of the tools the client offers
    LongNames,      \* those longer than 64 characters
    ServerTools,    \* those only Anthropic can run
    RecentItems     \* how many items at the end are never deduplicated

ASSUME TranslationAssumption ==
    /\ LongNames \subseteq Tools /\ ServerTools \subseteq Tools
    /\ RecentItems \in Nat

Text(t) == [type |-> "text", text |-> t]
Image(k) == [type |-> "image", image |-> k]
ToolUse(id, name) == [type |-> "tool_use", id |-> id, name |-> name]
ToolResult(id, content) == [type |-> "tool_result", id |-> id, content |-> content]

Message(role, content) == [role |-> role, plain |-> FALSE, content |-> content]

FlatMap(Op(_), s) == FlattenSeq([i \in DOMAIN s |-> Op(s[i])])

OfType(content, type) == LET Pick(b) == IF b.type = type THEN <<b>> ELSE << >> IN FlatMap(Pick, content)
OfItem(items, kind) == LET Pick(it) == IF it.item = kind THEN <<it>> ELSE << >> IN FlatMap(Pick, items)
Holds(content, type) == \E i \in DOMAIN content : content[i].type = type

\* content_has_image: also inside tool results.
HasImage(content) ==
    \/ Holds(content, "image")
    \/ \E i \in DOMAIN content : content[i].type = "tool_result" /\ Holds(content[i].content, "image")

\* An id is the prefixes it begins with and a number.
StartsWith(id, p) == IsPrefix(p, id.prefix)
Strip(id, k) == [id EXCEPT !.prefix = SubSeq(@, k + 1, Len(@))]

ToAnthropic(id) ==
    [id EXCEPT !.prefix = (IF StartsWith(id, <<"call_">>) THEN <<"toolu_">> ELSE <<"toolu_", "openai_">>) \o @]

\* Mutant: only the ids of an OpenAI provider are told from Anthropic's own.
ToUpstream_NoOpenai(id) == IF StartsWith(id, <<"toolu_", "call_">>) THEN Strip(id, 1) ELSE id

ToUpstream(id) ==
    IF StartsWith(id, <<"toolu_", "openai_">>) THEN Strip(id, 2)
    ELSE IF StartsWith(id, <<"toolu_", "call_">>) THEN Strip(id, 1)
    ELSE id

\* truncate_tool_name: a hash keeps the shortened names apart.
Truncate(name) == IF name[2] \in LongNames THEN <<"shortened", name[2]>> ELSE name

\* The names this request shortens: those of the tools and of the calls in the history.
NameMap(ms, tools) ==
    LET called == {b.name : b \in UNION {Range(OfType(ms[i].content, "tool_use")) : i \in DOMAIN ms}}
        renamed == {n \in called \cup tools : Truncate(n) # n}
    IN  [t \in {Truncate(n) : n \in renamed} |-> CHOOSE n \in renamed : Truncate(n) = t]

UserItem(content) == [item |-> "user", content |-> content]
SaidItem(text) == [item |-> "said", text |-> text]
CallItem(id, name) == [item |-> "call", id |-> id, name |-> name]
OutputItem(id, output) == [item |-> "output", id |-> id, output |-> output]

Texts(content) == OfType(content, "text")

\* One message for the Responses API: beside a tool result everything else is left out, but
\* the images inside it follow as a message of the user's.
ResponsesItems(m) ==
    LET Result(b) == <<OutputItem(ToUpstream(b.id), Texts(b.content))>> \o
                     (IF Holds(b.content, "image") THEN <<UserItem(OfType(b.content, "image"))>> ELSE << >>)
        Block(b) == IF b.type = "text" THEN <<SaidItem(b.text)>> ELSE <<CallItem(ToUpstream(b.id), Truncate(b.name))>>
    IN  CASE m.role = "assistant"                -> FlatMap(Block, m.content)
          [] Holds(m.content, "tool_result")     -> FlatMap(Result, OfType(m.content, "tool_result"))
          [] OTHER                               -> <<UserItem(m.content)>>

\* Mutant: beside a tool result nothing else is kept.
ChatItems_DropsAside(m) ==
    LET Result(b) == <<OutputItem(ToUpstream(b.id), Texts(b.content))>>
        Block(b) == IF b.type = "text" THEN <<SaidItem(b.text)>> ELSE <<CallItem(ToUpstream(b.id), Truncate(b.name))>>
    IN  CASE m.role = "assistant"            -> FlatMap(Block, m.content)
          [] Holds(m.content, "tool_result") -> FlatMap(Result, OfType(m.content, "tool_result"))
          [] OTHER                           -> <<UserItem(m.content)>>

\* One message for Chat Completions: tool results come first, text beside them is kept and
\* images are not; an assistant's texts come before its calls.
ChatItems(m) ==
    LET Result(b) == <<OutputItem(ToUpstream(b.id), Texts(b.content))>>
        Said(b) == <<SaidItem(b.text)>>
        Call(b) == <<CallItem(ToUpstream(b.id), Truncate(b.name))>>
    IN  CASE m.role = "assistant" -> FlatMap(Said, Texts(m.content)) \o FlatMap(Call, OfType(m.content, "tool_use"))
          [] Holds(m.content, "tool_result") ->
                FlatMap(Result, OfType(m.content, "tool_result")) \o
                (IF Holds(m.content, "text") THEN <<UserItem(Texts(m.content))>> ELSE << >>)
          [] OTHER -> <<UserItem(m.content)>>

\* The same view of a request that is passed through to Anthropic.
DirectItems(m) ==
    LET Block(b) == CASE b.type = "tool_result" -> <<OutputItem(b.id, b.content)>>
                      [] b.type = "tool_use"    -> <<CallItem(b.id, b.name)>>
                      [] OTHER                  -> IF m.role = "user" THEN <<UserItem(<<b>>)>> ELSE <<SaidItem(b.text)>>
    IN  FlatMap(Block, m.content)

Large(output) == \E i \in DOMAIN output : output[i].text[1] = "large"
Reference(id) == << [type |-> "text", text |-> <<"duplicate of", id>>] >>

\* dedupe_old_function_call_outputs
Dedupe(items) ==
    LET First(i) == CHOOSE j \in 1..i : /\ items[j].item = "output" /\ items[j].output = items[i].output
                                        /\ \A k \in 1..(j - 1) : items[k].item # "output" \/ items[k].output # items[i].output
        Kept(i) == \/ items[i].item # "output"
                   \/ ~Large(items[i].output)
                   \/ i + RecentItems > Len(items)
                   \/ First(i) = i
    IN  [i \in DOMAIN items |-> IF Kept(i) THEN items[i] ELSE [items[i] EXCEPT !.output = Reference(items[First(i)].id)]]

Named(tools) == {<<"tool", t>> : t \in tools}

\* reject_unsupported_server_tool, which only the Responses adapter has.
Unsupported(provider, tools) == provider = "responses" /\ tools \cap Named(ServerTools) # {}

\* The three translations of a request: its items, what it may call and how the names it
\* shortens are restored.  Chat Completions gets the system prompt as its first message.
ResponsesRequest(b) ==
    [items |-> Dedupe(FlatMap(ResponsesItems, b.messages)), map |-> NameMap(b.messages, b.tools),
     tools |-> {Truncate(t) : t \in b.tools}, system |-> b.system]

ChatRequest(b) ==
    [items |-> FlatMap(ChatItems, b.messages), map |-> NameMap(b.messages, b.tools),
     tools |-> {Truncate(t) : t \in b.tools}, system |-> b.system]

DirectRequest(b) ==
    [items |-> FlatMap(DirectItems, b.messages), map |-> << >>, tools |-> b.tools, system |-> b.system]

\* translate_request of the provider's adapter.
Request(b, provider) ==
    CASE provider = "responses" -> ResponsesRequest(b)
      [] provider = "chat"      -> ChatRequest(b)
      [] provider = "direct"    -> DirectRequest(b)

\* A call written out as text, as some models do, is taken for a call if there is nothing
\* else; its name and its id are as the text and the code have them.
Recover(content) ==
    IF Len(content) = 1 /\ content[1].type = "text" /\ content[1].text[1] = "written call"
    THEN << ToolUse(ToAnthropic([prefix |-> <<"call_", "text_">>, n |-> 1]), content[1].text[2]) >>
    ELSE content

RestoreName(name, map) == IF name \in DOMAIN map THEN map[name] ELSE name
ClientBlock(it, map) == IF it.item = "said" THEN Text(it.text) ELSE ToolUse(ToAnthropic(it.id), RestoreName(it.name, map))

\* responses_to_anthropic: the items in their order.
ResponsesAnswer(items, map) == Recover([i \in DOMAIN items |-> ClientBlock(items[i], map)])

\* openai_to_anthropic: the one text before the calls.
ChatAnswer(items, map) ==
    LET Block(it) == <<ClientBlock(it, map)>>
    IN  Recover(FlatMap(Block, OfItem(items, "said")) \o FlatMap(Block, OfItem(items, "call")))

\* What is passed through.
DirectAnswer(items) ==
    [i \in DOMAIN items |-> IF items[i].item = "said" THEN Text(items[i].text) ELSE ToolUse(items[i].id, items[i].name)]

\* translate_response of the provider's adapter.
AnswerFrom(items, provider, map) ==
    CASE provider = "responses" -> ResponsesAnswer(items, map)
      [] provider = "chat"      -> ChatAnswer(items, map)
      [] provider = "direct"    -> DirectAnswer(items)

\* The stop reason told, for the one the upstream gave.
StopReason(content, upstream) ==
    IF Holds(content, "tool_use") THEN "tool_use"
    ELSE IF upstream \in {"incomplete", "length"} THEN "max_tokens"
    ELSE "end_turn"
===========================================================================
