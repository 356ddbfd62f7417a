---------------------------- MODULE StreamOutput ----------------------------
(***************************************************************************)
(* The side of a stream translator that faces Claude Code, the same in     *)
(* responses_stream.rs and chat_completions_stream.rs: an async generator  *)
(* yields the events one upstream line was translated to, one by one and   *)
(* before it reads the next line.  The client that reads them is the one   *)
(* of AnthropicStream, and `shown' remembers what of the response's items  *)
(* it was sent.                                                            *)
(***************************************************************************)
EXTENDS Naturals, Sequences

CONSTANT MaxItems       \* bound on the output items of the response

ASSUME StreamAssumption == MaxItems \in Nat

VARIABLES
    message_started,
    ended,              \* the generator has returned
    out,                \* events produced and not yet yielded
    client,             \* what the client has seen (AnthropicStream)
    shown               \* history: how often item i was sent as text, as a tool call

output == <<message_started, ended, out, client, shown>>

A == INSTANCE AnthropicStream WITH MaxIndex <- MaxItems

Items == 1..MaxItems

OutputInit ==
    /\ message_started = FALSE /\ ended = FALSE
    /\ out = << >> /\ client = A!Nothing
    /\ shown = [i \in Items |-> [text |-> 0, tool |-> 0]]

\* What is yielded for `events': message_start goes out before the first of them.
Announced(events) ==
    IF events # << >> /\ ~message_started THEN <<A!MessageStart>> \o events ELSE events

\* The events of one line.  An error event ends the stream at once.
Emit(events) ==
    IF events # << >> /\ events[1] = A!Error
    THEN out' = <<A!Error>> /\ ended' = TRUE /\ UNCHANGED message_started
    ELSE /\ out' = Announced(events)
         /\ message_started' = (message_started \/ events # << >>)
         /\ UNCHANGED ended

\* Nothing is produced for this line.
EmitNothing == UNCHANGED <<message_started, ended, out>>

\* The generator returns after these last events.
EmitLast(events) == out' = events /\ ended' = TRUE /\ UNCHANGED message_started

ReadingLine == out = << >> /\ ~ended

YieldEvent ==
    /\ out # << >>
    /\ client' = A!After(client, out[1])
    /\ out' = Tail(out)
    /\ UNCHANGED <<message_started, ended, shown>>

\* The items in `texts' are sent once more as text, those in `calls' as tool calls; 2
\* is "too often".
Sent(texts, calls) ==
    shown' = [i \in Items |->
                [shown[i] EXCEPT !.text = IF i \in texts /\ @ < 2 THEN @ + 1 ELSE @,
                                 !.tool = IF i \in calls /\ @ < 2 THEN @ + 1 ELSE @]]
----------------------------------------------------------------------------
(* Properties of a translator, whatever its upstream.                      *)

\* The message_delta names "tool_use" as its stop reason exactly when the message has
\* a tool_use block: the client runs the tools of such a message only.
StopReasonTold ==
    client.phase = "closing" => (client.last.stop = "tool_use" <=> client.tools)

\* A stream that is over has told the client so, with message_stop or an error.
EndIsTold == ended /\ out = << >> => client.phase \in {"stopped", "failed"}

\* Properties of a message that is over, for an upstream that completed a response of
\* the items `due', each named by the form its content is due in.
Over(complete) == client.phase = "stopped" /\ complete

\* What is sent counts as once in form f, and as not at all if f is "none".
CountsAs(sent, f) ==
    /\ sent.text = (IF f = "text" THEN 1 ELSE 0)
    /\ sent.tool = (IF f = "tool" THEN 1 ELSE 0)

SentAs(i, f) == CountsAs(shown[i], f)

\* Every message's text and every call's arguments were sent once: deltas, final
\* events and the fallbacks between them neither lose nor repeat any.
SentOnce(complete, due) ==
    Over(complete) => \A i \in DOMAIN due : SentAs(i, due[i])

\* Every item was sent in some form.
SentSomehow(complete, due) ==
    Over(complete) => \A i \in DOMAIN due :
        due[i] # "none" => shown[i].text + shown[i].tool > 0
=============================================================================
