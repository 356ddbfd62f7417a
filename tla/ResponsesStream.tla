-------------------------- MODULE ResponsesStream --------------------------
(***************************************************************************)
(* Translation of one OpenAI Responses stream into one Anthropic stream    *)
(* (src/proxy/translate/responses_stream.rs), and the upstream it is fed   *)
(* by.  An upstream action is one SSE data line and the whole of           *)
(* process_line for it; what process_line returns waits in `out' and is    *)
(* yielded event by event (Yield) before the next line is read.            *)
(*                                                                         *)
(* The upstream sends a list of output items, one after the other, in the  *)
(* order the Responses API documents: for a message its text deltas,       *)
(* output_text.done, content_part.done and output_item.done; for a         *)
(* function call output_item.added, argument deltas and done; for          *)
(* reasoning output_item.done.  It ends with response.completed or         *)
(* response.incomplete, with an error event, or by being cut off anywhere. *)
(* Text is abstracted to what the translator tells apart: "prose", a       *)
(* "toolcall" spelled out as text in one of the forms                      *)
(* parse_textual_tool_call accepts, or "half" of one that no closing tag   *)
(* follows, and then how its deltas cut it.                                *)
(***************************************************************************)
EXTENDS StreamOutput

CONSTANT Servers        \* the upstreams, and settings of the profile, considered

\* What messages contain, whether reasoning_bridge is VisibleThinking, and where the
\* upstream may leave a message's text out: its events, and the output that the last event
\* of the response lists.
Server == [ texts    : SUBSET {"prose", "toolcall", "half"},
            thinking : BOOLEAN,
            omits    : SUBSET {"deltas", "text_done", "item_done", "output"} ]

\* Every text is sent somewhere.
ASSUME ResponsesAssumption ==
    /\ Servers \subseteq Server
    /\ \A s \in Servers : s.omits # {"deltas", "text_done", "item_done", "output"}

VARIABLES
    up,                 \* the upstream: the stage it is at, the current item, and the
                        \* items whose text came in deltas (`streamed')
    block_index, block_started, has_tool_use, stop_reason, saw_text_delta,
    tool,               \* current_tool_name, "none" when it is None
    saw_args,           \* current_tool_saw_argument_delta
    buffered            \* the items whose text is in buffered_text

state == <<block_index, block_started, has_tool_use, stop_reason, saw_text_delta,
           tool, saw_args, buffered>>
vars == <<up, state, output>>

Init ==
    /\ OutputInit
    /\ \E s \in Servers :
          up = [server |-> s, stage |-> "between", due |-> << >>, text |-> "none",
                cut |-> "none", streamed |-> {}, first |-> 0, complete |-> FALSE]
    /\ block_index = 0 /\ block_started = FALSE
    /\ has_tool_use = FALSE /\ stop_reason = "end_turn" /\ saw_text_delta = FALSE
    /\ tool = "none" /\ saw_args = FALSE
    /\ buffered = {}

Yield == YieldEvent /\ UNCHANGED <<up, state>>

Stage(s) == up' = [up EXCEPT !.stage = s]

item == Len(up.due)

MayOmit(event) == event \in up.server.omits

\* The upstream begins its next item, at stage s, with text of kind t if it has any;
\* its content is due once in form f.
Begin(s, t, f) ==
    /\ ReadingLine /\ up.stage = "between" /\ item < MaxItems
    /\ up' = [up EXCEPT !.stage = s, !.due = Append(@, f), !.text = t, !.cut = "none",
                        !.first = IF @ = 0 /\ t # "none" THEN item + 1 ELSE @]

CloseBlock == <<A!BlockStop(block_index)>>

----------------------------------------------------------------------------
(* Messages.                                                               *)

BeginMessage(t) ==
    /\ t \in up.server.texts
    /\ Begin("message", t, IF t = "toolcall" THEN "tool" ELSE "text")
    /\ UNCHANGED <<state, output>>

\* How a delta may cut the text.  Prose is any number of "plain" deltas.  A textual
\* call comes in one piece ("whole"), or its first delta has the opening tag
\* ("open") or less than the opening tag ("plain"); the last has the closing tag
\* ("close").  Half a call is never closed.
DeltaFits(d) ==
    \/ up.text = "prose" /\ d = "plain"
    \/ up.text = "toolcall" /\ up.cut = "none" /\ d \in {"whole", "open", "plain"}
    \/ up.text = "toolcall" /\ up.cut \in {"open", "plain"} /\ d \in {"more", "close"}
    \/ up.text = "half" /\ d = IF up.cut = "none" THEN "open" ELSE "more"

CutAfter(d) == IF d = "more" THEN up.cut ELSE d

Complete == up.text # "toolcall" \/ up.cut \in {"whole", "close"}

\* should_buffer_textual_tool_candidate: what is buffered and the delta begin with
\* an opening tag and do not contain the closing one.
ShouldBuffer(d) ==
    IF buffered = {} THEN d = "open" ELSE d \in {"plain", "open", "more"}

TextDelta(d) ==
    /\ ReadingLine /\ up.stage = "message" /\ DeltaFits(d)
    /\ up' = [up EXCEPT !.cut = CutAfter(d), !.streamed = @ \cup {item}]
    /\ IF ~block_started /\ ShouldBuffer(d)
       THEN /\ buffered' = buffered \cup {item}
            /\ UNCHANGED <<block_started, saw_text_delta, message_started, ended, out, shown>>
       ELSE /\ Emit((IF block_started THEN << >> ELSE <<A!BlockStart(block_index, "text")>>)
                    \o <<A!BlockDelta(block_index, "text")>>)
            /\ block_started' = TRUE
            /\ saw_text_delta' = TRUE
            /\ IF up.cut = "none" \/ (up.cut = "open" /\ ~block_started)
               THEN Sent({item}, {}) ELSE UNCHANGED shown
            /\ UNCHANGED buffered
    /\ UNCHANGED <<block_index, has_tool_use, stop_reason, tool, saw_args, client>>

\* Mutant: held-back text that is no call is dropped.
Flush_CallsOnly(S, parses) ==
    /\ buffered' = {}
    /\ IF parses
       THEN /\ Emit(<<A!BlockStart(block_index, "tool_use"), A!BlockStop(block_index)>>)
            /\ has_tool_use' = TRUE
            /\ block_index' = block_index + 1
            /\ Sent({}, S)
            /\ UNCHANGED <<block_started, saw_text_delta>>
       ELSE UNCHANGED <<block_index, block_started, has_tool_use, saw_text_delta,
                        message_started, ended, out, shown>>

\* Mutant: a textual call does not set has_tool_use.
Flush_ForgetsTool(S, parses) ==
    /\ buffered' = {}
    /\ UNCHANGED has_tool_use
    /\ IF parses
       THEN /\ Emit(<<A!BlockStart(block_index, "tool_use"), A!BlockStop(block_index)>>)
            /\ block_index' = block_index + 1
            /\ Sent({}, S)
            /\ UNCHANGED <<block_started, saw_text_delta>>
       ELSE /\ Emit(<<A!BlockStart(block_index, "text"), A!BlockDelta(block_index, "text")>>)
            /\ block_started' = TRUE
            /\ saw_text_delta' = TRUE
            /\ Sent(S, {})
            /\ UNCHANGED block_index

\* flush_buffered_text_or_tool on the text of the items S, which is a call (`parses') or
\* is not.
Flush(S, parses) ==
    /\ buffered' = {}
    /\ IF parses
       THEN /\ Emit(<<A!BlockStart(block_index, "tool_use"), A!BlockStop(block_index)>>)
            /\ has_tool_use' = TRUE
            /\ block_index' = block_index + 1
            /\ Sent({}, S)
            /\ UNCHANGED <<block_started, saw_text_delta>>
       ELSE /\ Emit(<<A!BlockStart(block_index, "text"), A!BlockDelta(block_index, "text")>>)
            /\ block_started' = TRUE
            /\ saw_text_delta' = TRUE
            /\ Sent(S, {})
            /\ UNCHANGED <<has_tool_use, block_index>>

\* The text held back lacks its closing tag.
FlushBuffered == Flush(buffered, FALSE)

\* emit_text_block for the text of item i.
EmitTextBlock(i) ==
    /\ Emit(<<A!BlockStart(block_index, "text"), A!BlockDelta(block_index, "text")>>)
    /\ block_started' = TRUE
    /\ saw_text_delta' = TRUE
    /\ Sent({i}, {})
    /\ UNCHANGED <<block_index, has_tool_use, buffered>>

\* The tail both `done' events share: flush, or close the open block.
FlushOrClose ==
    \/ buffered # {} /\ FlushBuffered
    \/ /\ buffered = {} /\ block_started
       /\ Emit(CloseBlock)
       /\ block_started' = FALSE
       /\ block_index' = block_index + 1
       /\ UNCHANGED <<has_tool_use, saw_text_delta, buffered, shown>>
    \/ /\ buffered = {} /\ ~block_started
       /\ UNCHANGED <<block_index, block_started, has_tool_use, saw_text_delta, buffered,
                      message_started, ended, out, shown>>

\* response.output_text.done carries the full text.  A call in it replaces what is held
\* back, which is not one.
TextDone ==
    /\ ReadingLine /\ up.stage = "message"
    /\ IF up.cut = "none" THEN MayOmit("deltas") ELSE Complete
    /\ Stage("text_done")
    /\ IF up.text = "toolcall"
       THEN Flush({item}, TRUE)
       ELSE IF buffered = {} /\ ~block_started THEN EmitTextBlock(item)
       ELSE FlushOrClose
    /\ UNCHANGED <<stop_reason, tool, saw_args, client>>

\* response.content_part.done: its text is inside `part', so json["text"] is absent.
PartDone ==
    /\ ReadingLine
    /\ up.stage = "text_done"
    /\ Stage("part_done")
    /\ FlushOrClose
    /\ UNCHANGED <<stop_reason, tool, saw_args, client>>

MessageOver ==
    \/ up.stage = "part_done"
    \/ /\ up.stage = "message" /\ MayOmit("text_done")
       /\ IF up.cut = "none" THEN MayOmit("deltas") ELSE Complete

\* The upstream goes on without output_item.done.
MessageNotDone ==
    /\ ReadingLine /\ MayOmit("item_done")
    /\ MessageOver
    /\ Stage("between")
    /\ UNCHANGED <<state, message_started, ended, out, client, shown>>

\* Mutant: the text is sent whether or not its deltas were.
MessageDone_Repeats ==
    /\ ReadingLine
    /\ MessageOver
    /\ Stage("between")
    /\ EmitTextBlock(item)
    /\ UNCHANGED <<stop_reason, tool, saw_args, client>>

\* response.output_item.done of a message.
MessageDone ==
    /\ ReadingLine
    /\ MessageOver
    /\ Stage("between")
    /\ IF saw_text_delta
       THEN UNCHANGED <<block_index, block_started, has_tool_use, saw_text_delta, buffered,
                        message_started, ended, out, shown>>
       ELSE EmitTextBlock(item)
    /\ UNCHANGED <<stop_reason, tool, saw_args, client>>

----------------------------------------------------------------------------
(* Function calls and reasoning.                                           *)

\* response.output_item.added of a function call: closes whatever block is open.
CallAdded(name) ==
    /\ Begin("call", "none", "tool")
    /\ LET i == IF block_started THEN block_index + 1 ELSE block_index IN
       /\ Emit((IF block_started THEN CloseBlock ELSE << >>) \o <<A!BlockStart(i, "tool_use")>>)
       /\ block_index' = i
    /\ block_started' = TRUE
    /\ has_tool_use' = TRUE
    /\ tool' = name
    /\ saw_args' = FALSE
    /\ UNCHANGED <<stop_reason, saw_text_delta, buffered, client, shown>>

\* Arguments of Read are held back until they are complete.
ArgsDelta ==
    /\ ReadingLine /\ up.stage = "call"
    /\ block_started /\ has_tool_use
    /\ saw_args' = TRUE
    /\ IF tool = "Read"
       THEN UNCHANGED <<message_started, ended, out, shown>>
       ELSE /\ Emit(<<A!BlockDelta(block_index, "tool_use")>>)
            /\ IF up.cut = "none" THEN Sent({}, {item}) ELSE UNCHANGED shown
    /\ up' = [up EXCEPT !.cut = "plain"]
    /\ UNCHANGED <<block_index, block_started, has_tool_use, stop_reason, saw_text_delta,
                   tool, buffered, client>>

\* Mutant: the index stays at the block that was closed.
ArgsDone_KeepsIndex ==
    /\ ReadingLine /\ up.stage = "call" /\ block_started
    /\ LET full == tool = "Read" \/ ~saw_args IN
       /\ Emit((IF full THEN <<A!BlockDelta(block_index, "tool_use")>> ELSE << >>) \o CloseBlock)
       /\ IF full THEN Sent({}, {item}) ELSE UNCHANGED shown
    /\ Stage("between")
    /\ block_started' = FALSE
    /\ tool' = "none" /\ saw_args' = FALSE
    /\ UNCHANGED <<block_index, has_tool_use, stop_reason, saw_text_delta, buffered, client>>

\* response.function_call_arguments.done, with arguments that are not {}.
ArgsDone ==
    /\ ReadingLine /\ up.stage = "call" /\ block_started
    /\ LET full == tool = "Read" \/ ~saw_args IN
       /\ Emit((IF full THEN <<A!BlockDelta(block_index, "tool_use")>> ELSE << >>) \o CloseBlock)
       /\ IF full THEN Sent({}, {item}) ELSE UNCHANGED shown
    /\ Stage("between")
    /\ block_started' = FALSE
    /\ block_index' = block_index + 1
    /\ tool' = "none" /\ saw_args' = FALSE
    /\ UNCHANGED <<has_tool_use, stop_reason, saw_text_delta, buffered, client>>

\* response.output_item.done of a reasoning item with a summary: emit_thinking_block.
ReasoningDone ==
    /\ Begin("between", "none", "none")
    /\ IF up.server.thinking
       THEN /\ Emit(<<A!BlockStart(block_index, "thinking"),
                      A!BlockDelta(block_index, "thinking"), A!BlockStop(block_index)>>)
            /\ block_index' = block_index + 1
       ELSE UNCHANGED <<block_index, message_started, ended, out>>
    /\ UNCHANGED <<block_started, has_tool_use, stop_reason, saw_text_delta, tool, saw_args,
                   buffered, client, shown>>

----------------------------------------------------------------------------
(* The end of the stream.                                                  *)

\* The first message that the response's output lists, 0 if it lists none.
Listed == {up.first} \cup (IF MayOmit("output") THEN {0} ELSE {})

\* response.completed, or response.incomplete for the reason `outcome'.
Completed(outcome, listed) ==
    /\ ReadingLine /\ up.stage = "between"
    /\ up' = [up EXCEPT !.stage = "over", !.complete = TRUE]
    /\ stop_reason' = IF outcome = "completed" THEN stop_reason ELSE "max_tokens"
    /\ IF outcome = "max_output_tokens" /\ ~saw_text_delta /\ ~block_started
       THEN /\ Emit(<<A!Error>>)
            /\ UNCHANGED <<block_index, block_started, has_tool_use, saw_text_delta, buffered,
                           shown>>
       ELSE IF buffered # {} THEN FlushBuffered
       ELSE IF ~saw_text_delta /\ ~block_started /\ listed # 0 THEN EmitTextBlock(listed)
       ELSE UNCHANGED <<block_index, block_started, has_tool_use, saw_text_delta, buffered,
                        message_started, ended, out, shown>>
    /\ UNCHANGED <<tool, saw_args, client>>

\* An error, response.failed or codex.rate_limits event.
ErrorEvent ==
    /\ ReadingLine /\ up.stage # "eof"
    /\ Emit(<<A!Error>>)
    /\ UNCHANGED <<up, state, client, shown>>

\* The connection breaks: the open block is closed and an error follows.
Cut ==
    /\ ReadingLine /\ up.stage # "eof"
    /\ EmitLast((IF block_started THEN CloseBlock ELSE << >>) \o <<A!Error>>)
    /\ UNCHANGED <<up, state, client, shown>>

\* The upstream closes the connection, after its last event or before it: what is
\* still buffered is flushed ...
Eof ==
    /\ ReadingLine /\ up.stage # "eof"
    /\ Stage("eof")
    /\ IF buffered # {}
       THEN FlushBuffered
       ELSE UNCHANGED <<block_index, block_started, has_tool_use, saw_text_delta, buffered,
                        message_started, ended, out, shown>>
    /\ UNCHANGED <<stop_reason, tool, saw_args, client>>

\* ... and the message finished, or an empty stream reported.
Finalize ==
    /\ ReadingLine /\ up.stage = "eof"
    /\ EmitLast(IF ~message_started THEN <<A!Error>>
                ELSE (IF block_started THEN CloseBlock ELSE << >>)
                     \o <<A!MessageDelta(IF has_tool_use THEN "tool_use" ELSE stop_reason),
                          A!MessageStop>>)
    /\ UNCHANGED <<up, state, client, shown>>

Upstream ==
    \/ \E t \in {"prose", "toolcall", "half"} : BeginMessage(t)
    \/ \E d \in {"plain", "whole", "open", "more", "close"} : TextDelta(d)
    \/ TextDone \/ PartDone \/ MessageDone \/ MessageNotDone
    \/ \E name \in {"Read", "other"} : CallAdded(name)
    \/ ArgsDelta \/ ArgsDone \/ ReasoningDone
    \/ \E outcome \in {"completed", "max_output_tokens", "content_filter"},
          listed \in Listed : Completed(outcome, listed)
    \/ ErrorEvent \/ Cut \/ Eof

Next == Upstream \/ Finalize \/ Yield

Spec == Init /\ [][Next]_vars
----------------------------------------------------------------------------
(* Properties, with EndIsTold and StopReasonTold of StreamOutput.          *)

Prosaic == up.server.texts = {"prose"}

\* The upstreams whose stream is legal, all but two kinds (see the README): one whose
\* messages may look like textual tool calls, and one that sends reasoning and leaves
\* output_text.done out.
Orderly == Prosaic /\ (up.server.thinking => ~MayOmit("text_done"))

Promise == INSTANCE AnthropicStream
               WITH MaxIndex <- MaxItems, client <- IF Orderly THEN client ELSE A!Nothing

\* What Claude Code receives from an orderly upstream is a legal Anthropic stream,
\* event by event, whatever items it sends, in whatever order, and wherever it stops.
LegalStream == Promise!Spec

\* The code does lose a text that came in no delta and maybe not in output_text.done
\* either: saw_text_delta, once set, is never reset, so that the fallbacks serve only the
\* first message that is shown.
Overlooked(i) ==
    /\ MayOmit("text_done") /\ i \notin up.streamed
    /\ up.due[i] = "text" /\ SentAs(i, "none")
    /\ \E j \in DOMAIN up.due : SentAs(j, "text")

\* A completed response reaches the client once, whichever of its events the upstream
\* leaves out: deltas, the `done' events and the fallbacks never repeat a text, and
\* between them lose none but those overlooked.
ContentOnce ==
    Prosaic /\ Over(up.complete) => \A i \in DOMAIN up.due : SentAs(i, up.due[i]) \/ Overlooked(i)

\* A stream that is over has told the client so, and nothing the model said was dropped
\* when messages may begin like textual tool calls: what buffered_text holds back comes
\* out as a call or as text.  The upstream sends output_text.done (for those that leave it
\* out see ContentOnce) and, unless its messages are prose, their deltas (see the README).
NothingLost ==
    /\ EndIsTold
    /\ ~MayOmit("text_done") /\ (Prosaic \/ ~MayOmit("deltas"))
          => SentSomehow(up.complete, up.due)
=============================================================================
