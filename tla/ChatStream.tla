----------------------------- MODULE ChatStream -----------------------------
(***************************************************************************)
(* Translation of one OpenAI Chat Completions stream into one Anthropic    *)
(* stream (src/proxy/translate/chat_completions_stream.rs).  An upstream   *)
(* action is one SSE chunk and the whole of process_openai_line for it.  A *)
(* chunk that carries several things at once (content and finish_reason, a *)
(* call and its arguments) is translated in a fixed order, so it is the    *)
(* same as one chunk for each of them.                                     *)
(*                                                                         *)
(* The upstream sends reasoning, content and tool calls, as many as it     *)
(* likes and in any order, a call's argument deltas right after its first  *)
(* chunk; then a finish_reason and [DONE].  It may break off anywhere.     *)
(* Text is "prose", a "toolcall" spelled out as text or "half" of one, as  *)
(* in ResponsesStream, cut into deltas in one way or another.              *)
(***************************************************************************)
EXTENDS StreamOutput

CONSTANT Servers        \* the upstreams, and settings of the profile, considered

\* What content there may be, whether reasoning_bridge is VisibleThinking, and the
\* tools called.
Server == [ texts    : SUBSET {"prose", "toolcall", "half"},
            thinking : BOOLEAN,
            tools    : SUBSET {"Read", "other"} ]

ASSUME ChatAssumption == Servers \subseteq Server

VARIABLES
    up,                 \* the upstream: the stage it is at and the current item
    block_index, block_started,
    thinking_block_started,
    tool,               \* current_tool_call: the item it is and its name, 0 for None
    arguments,          \* arguments_buffer: "none", "some" or "all" of them
    buffered            \* the items whose text is in buffered_text

state == <<block_index, block_started, thinking_block_started, tool, arguments, buffered>>
vars == <<up, state, output>>

NoTool == [item |-> 0, name |-> "none"]

Init ==
    /\ OutputInit
    /\ \E s \in Servers :
          up = [server |-> s, stage |-> "between", due |-> << >>, text |-> "none",
                cut |-> "none", called |-> FALSE, complete |-> FALSE]
    /\ block_index = 0 /\ block_started = FALSE /\ thinking_block_started = FALSE
    /\ tool = NoTool /\ arguments = "none"
    /\ buffered = {}

Yield == YieldEvent /\ UNCHANGED <<up, state>>

item == Len(up.due)

BetweenItems == up.stage \in {"between", "reasoning"}

\* A new item of stage s begins, text of kind t if it is content, due once in form f.
Begin(s, t, f) ==
    /\ ReadingLine /\ BetweenItems /\ item < MaxItems
    /\ up' = [up EXCEPT !.stage = s, !.due = Append(@, f), !.text = t, !.cut = "none",
                        !.called = @ \/ s = "call"]

CloseBlock(i) == IF block_started THEN <<A!BlockStop(i)>> ELSE << >>
CloseThinking(i) == IF thinking_block_started THEN <<A!BlockStop(i)>> ELSE << >>

AfterThinking(i) == IF thinking_block_started THEN i + 1 ELSE i
AfterBlock(i) == IF block_started THEN i + 1 ELSE i
----------------------------------------------------------------------------
(* finalize_tool_call: the pending call ends with block i, which is open if *)
(* `started'.  Read's arguments were held back and are sent now, unless     *)
(* there are none that parse.                                               *)

\* Mutant: the arguments held back are never sent.
HeldBack_Never == FALSE

\* Mutant: finalizing sends the arguments of every tool, not only of Read.
HeldBack_Any == arguments = "all"

\* The arguments finalizing sends are those of Read.
HeldBack == tool.name = "Read" /\ arguments = "all"

Calls == IF HeldBack THEN {tool.item} ELSE {}

Finalized(i, started) ==
    IF tool = NoTool THEN << >>
    ELSE (IF HeldBack THEN <<A!BlockDelta(i, "tool_use")>> ELSE << >>)
         \o (IF started THEN <<A!BlockStop(i)>> ELSE << >>)

FinalizeToolCall ==
    /\ Emit(Finalized(block_index, block_started))
    /\ block_index' = IF tool # NoTool /\ block_started THEN block_index + 1 ELSE block_index
    /\ block_started' = (block_started /\ tool = NoTool)
    /\ tool' = NoTool /\ arguments' = "none"
    /\ Sent({}, Calls)
    /\ UNCHANGED <<thinking_block_started, buffered>>

\* flush_buffered_text_or_tool at index i, on a buffer that is a call (`parses') or not.
FlushEvents(parses, i) ==
    IF parses THEN <<A!BlockStart(i, "tool_use"), A!BlockStop(i)>>
              ELSE <<A!BlockStart(i, "text"), A!BlockDelta(i, "text")>>

\* A buffer that is flushed at the end of the response holds no closing tag.
FlushBuffered ==
    /\ Emit(FlushEvents(FALSE, block_index))
    /\ block_started' = TRUE
    /\ Sent(buffered, {})
    /\ buffered' = {}
    /\ UNCHANGED <<block_index, thinking_block_started, tool, arguments>>
----------------------------------------------------------------------------
(* The chunks of the upstream.                                             *)

\* Mutant: a thinking block opens inside the open block.
Reasoning_NoClose ==
    /\ \/ Begin("reasoning", "none", "none")
       \/ ReadingLine /\ up.stage = "reasoning" /\ UNCHANGED up
    /\ up.server.thinking
    /\ Emit((IF thinking_block_started THEN << >> ELSE <<A!BlockStart(block_index, "thinking")>>)
            \o <<A!BlockDelta(block_index, "thinking")>>)
    /\ thinking_block_started' = TRUE
    /\ UNCHANGED <<block_index, block_started, tool, arguments, buffered, client, shown>>

\* reasoning_content, with VisibleThinking: closes a text or tool block (the pending
\* call stays pending) and opens a thinking block.
Reasoning ==
    /\ \/ Begin("reasoning", "none", "none")
       \/ ReadingLine /\ up.stage = "reasoning" /\ UNCHANGED up
    /\ LET i == AfterBlock(block_index) IN
       IF up.server.thinking
       THEN /\ Emit(CloseBlock(block_index)
                    \o (IF thinking_block_started THEN << >> ELSE <<A!BlockStart(i, "thinking")>>)
                    \o <<A!BlockDelta(i, "thinking")>>)
            /\ block_index' = i
            /\ block_started' = FALSE /\ thinking_block_started' = TRUE
       ELSE /\ EmitNothing
            /\ UNCHANGED <<block_index, block_started, thinking_block_started>>
    /\ UNCHANGED <<tool, arguments, buffered, client, shown>>

BeginContent(t) ==
    /\ t \in up.server.texts
    /\ Begin("content", t, IF t = "toolcall" THEN "tool" ELSE "text")
    /\ UNCHANGED <<state, output>>

\* How a delta may cut the text.  Prose is any number of "plain" deltas.  A textual
\* call comes in one piece ("whole"), or its first delta has the opening tag ("open")
\* or less than that ("plain") and its last one the closing tag ("close").  Half a
\* call is never closed.
DeltaFits(d) ==
    \/ up.text = "prose" /\ d = "plain"
    \/ up.text = "toolcall" /\ up.cut = "none" /\ d \in {"whole", "open", "plain"}
    \/ up.text = "toolcall" /\ up.cut \in {"open", "plain"} /\ d \in {"more", "close"}
    \/ up.text = "half" /\ d = IF up.cut = "none" THEN "open" ELSE "more"

\* should_buffer_textual_tool_candidate.
ShouldBuffer(d) ==
    IF buffered = {} THEN d = "open" ELSE d \in {"plain", "open", "more"}

\* A content delta, the first of its item or a later one.  It finalizes the pending
\* call first, then is held back, or flushed with what is held back, or sent.
Content(d) ==
    /\ ReadingLine /\ up.stage = "content" /\ DeltaFits(d)
    /\ up' = [up EXCEPT !.cut = IF d = "more" /\ @ # "none" THEN @ ELSE d]
    /\ tool' = NoTool /\ arguments' = "none"
    /\ LET before  == Finalized(block_index, block_started)
           started == block_started /\ tool = NoTool
           i       == IF block_started /\ ~started THEN block_index + 1 ELSE block_index
           hold    == ~started /\ ShouldBuffer(d)
       IN \/ /\ hold
             /\ Emit(before)
             /\ buffered' = buffered \cup {item}
             /\ block_index' = i /\ block_started' = started
             /\ Sent({}, Calls)
             /\ UNCHANGED thinking_block_started
          \/ /\ ~hold /\ buffered # {}
             /\ LET parses == d = "close" /\ buffered = {item} IN
                /\ Emit(before \o FlushEvents(parses, i))
                /\ block_index' = IF parses THEN i + 1 ELSE i
                /\ block_started' = ~parses
                /\ IF parses THEN Sent({}, Calls \cup {item})
                             ELSE Sent(buffered \cup {item}, Calls)
             /\ buffered' = {}
             /\ UNCHANGED thinking_block_started
          \/ /\ ~hold /\ buffered = {}
             /\ LET j == AfterThinking(i) IN
                /\ Emit(before
                        \o CloseThinking(i)
                        \o (IF started THEN << >> ELSE <<A!BlockStart(j, "text")>>)
                        \o <<A!BlockDelta(j, "text")>>)
                /\ block_index' = j
             /\ block_started' = TRUE /\ thinking_block_started' = FALSE
             /\ Sent(IF up.cut = "none" THEN {item} ELSE {}, Calls)
             /\ UNCHANGED buffered
    /\ UNCHANGED client

\* The content item is over; nothing in the stream marks its end.
ContentOver ==
    /\ ReadingLine /\ up.stage = "content" /\ up.cut # "none"
    /\ up.text = "toolcall" => up.cut \in {"whole", "close"}
    /\ up' = [up EXCEPT !.stage = "between"]
    /\ UNCHANGED <<state, output>>

\* The first chunk of a tool call: open blocks are closed, then the previous call is
\* finalized, at the index of the next block.
CallStart(name) ==
    /\ name \in up.server.tools
    /\ Begin("call", "none", "tool")
    /\ LET i == AfterThinking(block_index)
           j == AfterBlock(i)
       IN /\ Emit(CloseThinking(block_index) \o CloseBlock(i) \o Finalized(j, FALSE)
                  \o <<A!BlockStart(j, "tool_use")>>)
          /\ block_index' = j
    /\ block_started' = TRUE /\ thinking_block_started' = FALSE
    /\ tool' = [item |-> item + 1, name |-> name] /\ arguments' = "none"
    /\ Sent({}, Calls)
    /\ UNCHANGED <<buffered, client>>

\* A later chunk of the call, its last if `all'.
CallArguments(all) ==
    /\ ReadingLine /\ up.stage = "call"
    /\ up' = [up EXCEPT !.stage = IF all THEN "between" ELSE @]
    /\ arguments' = IF all THEN "all" ELSE "some"
    /\ IF tool.name = "Read"
       THEN EmitNothing /\ UNCHANGED shown
       ELSE /\ Emit(<<A!BlockDelta(block_index, "tool_use")>>)
            /\ Sent({}, IF arguments = "none" THEN {item} ELSE {})
    /\ UNCHANGED <<block_index, block_started, thinking_block_started, tool, buffered, client>>

\* finish_reason: "tool_calls" when the response has called a tool, else "stop"; or
\* "length" where it was cut short, which is not a completed response.
FinishFits(reason) ==
    \/ reason = (IF up.called THEN "tool_calls" ELSE "stop") /\ BetweenItems
    \/ reason = "length" /\ up.stage \in {"content", "call"}

Finish(reason) ==
    /\ ReadingLine /\ FinishFits(reason)
    /\ up' = [up EXCEPT !.stage = "finished", !.complete = reason # "length"]
    /\ IF reason = "tool_calls" THEN FinalizeToolCall
       ELSE IF buffered # {} THEN FlushBuffered
       ELSE UNCHANGED <<state, message_started, ended, out, shown>>
    /\ UNCHANGED client

\* data: [DONE]
Done ==
    /\ ReadingLine /\ up.stage = "finished"
    /\ up' = [up EXCEPT !.stage = "done"]
    /\ IF buffered # {} THEN FlushBuffered ELSE FinalizeToolCall
    /\ UNCHANGED client

\* A chunk with an error object.
ErrorChunk ==
    /\ ReadingLine /\ up.stage # "eof"
    /\ Emit(<<A!Error>>)
    /\ UNCHANGED <<up, state, client, shown>>

Flushed == IF buffered = {} THEN << >> ELSE Announced(FlushEvents(FALSE, block_index))

\* The connection breaks: what is held back is flushed, open blocks are closed, and an
\* error follows.
Cut ==
    /\ ReadingLine /\ up.stage # "eof"
    /\ EmitLast(Flushed \o CloseThinking(block_index)
                \o (IF block_started \/ buffered # {}
                    THEN <<A!BlockStop(AfterThinking(block_index))>> ELSE << >>)
                \o <<A!Error>>)
    /\ UNCHANGED <<up, state, client, shown>>

\* The upstream closes the connection: what is held back is flushed ...
Eof ==
    /\ ReadingLine /\ up.stage # "eof"
    /\ up' = [up EXCEPT !.stage = "eof"]
    /\ IF buffered # {} THEN FlushBuffered
       ELSE UNCHANGED <<state, message_started, ended, out, shown>>
    /\ UNCHANGED client

\* ... and the message finished, or an empty stream reported.
Finalize ==
    /\ ReadingLine /\ up.stage = "eof"
    /\ EmitLast(IF ~message_started THEN <<A!Error>>
                ELSE CloseThinking(block_index) \o CloseBlock(AfterThinking(block_index))
                     \o <<A!MessageDelta("end_turn"), A!MessageStop>>)
    /\ UNCHANGED <<up, state, client, shown>>

Upstream ==
    \/ Reasoning
    \/ \E t \in {"prose", "toolcall", "half"} : BeginContent(t)
    \/ \E d \in {"plain", "whole", "open", "more", "close"} : Content(d)
    \/ ContentOver
    \/ \E name \in {"Read", "other"} : CallStart(name)
    \/ \E all \in BOOLEAN : CallArguments(all)
    \/ \E reason \in {"tool_calls", "stop", "length"} : Finish(reason)
    \/ Done \/ ErrorChunk \/ Cut \/ Eof

Next == Upstream \/ Finalize \/ Yield

Spec == Init /\ [][Next]_vars
----------------------------------------------------------------------------
(* Properties, with EndIsTold and StopReasonTold of StreamOutput.          *)

\* The upstreams whose stream is legal: no content looks like a textual tool call, and
\* Read, whose arguments are held back, is not called (see the README).
Orderly == up.server.texts = {"prose"} /\ "Read" \notin up.server.tools

Promise == INSTANCE AnthropicStream
               WITH MaxIndex <- MaxItems, client <- IF Orderly THEN client ELSE A!Nothing

\* What Claude Code receives from an orderly upstream is a legal Anthropic stream,
\* event by event, whatever it sends, in whatever order, and wherever it stops.
LegalStream == Promise!Spec

\* A completed response reaches the client once, the arguments of Read too, which are
\* held back until the call is finalized.
ContentOnce == up.server.texts = {"prose"} => SentOnce(up.complete, up.due)

\* A stream that is over has told the client so, and nothing the model said was dropped
\* when content may begin like a textual tool call.
NothingLost == EndIsTold /\ SentSomehow(up.complete, up.due)
=============================================================================
