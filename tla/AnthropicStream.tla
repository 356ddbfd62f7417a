-------------------------- MODULE AnthropicStream --------------------------
(***************************************************************************)
(* What a client of the Anthropic Messages API may be sent over a stream:  *)
(* one message_start, content blocks numbered from 0, one open at a time,  *)
(* deltas of the open block's own type, a message_delta, a message_stop;   *)
(* an error event may replace the rest at any point.  This is the promise  *)
(* both stream translators make to Claude Code; the operators Legal and    *)
(* After are also the client each of them is checked against.              *)
(***************************************************************************)
EXTENDS Naturals

CONSTANT MaxIndex       \* bound on the blocks of one message

VARIABLE client     \* what the client has seen so far

BlockTypes == {"text", "tool_use", "thinking"}

MessageStart       == [op |-> "message_start"]
BlockStart(i, t)   == [op |-> "content_block_start", index |-> i, type |-> t]
BlockDelta(i, t)   == [op |-> "content_block_delta", index |-> i, type |-> t]
BlockStop(i)       == [op |-> "content_block_stop", index |-> i]
MessageDelta(stop) == [op |-> "message_delta", stop |-> stop]
MessageStop        == [op |-> "message_stop"]
Error              == [op |-> "error"]

StopReasons == {"end_turn", "tool_use", "max_tokens"}

Events ==
    {MessageStart, MessageStop, Error}
    \cup {BlockStart(i, t) : i \in 0..MaxIndex, t \in BlockTypes}
    \cup {BlockDelta(i, t) : i \in 0..MaxIndex, t \in BlockTypes}
    \cup {BlockStop(i) : i \in 0..MaxIndex}
    \cup {MessageDelta(s) : s \in StopReasons}

Client == [ phase : {"before", "content", "closing", "stopped", "failed"},
            open  : BlockTypes \cup {"none"},
            next  : Nat,
            tools : BOOLEAN,
            last  : Events \cup {"none"} ]

Nothing == [phase |-> "before", open |-> "none", next |-> 0, tools |-> FALSE, last |-> "none"]

\* Event e may come next.
Legal(c, e) ==
    CASE e.op = "message_start" -> c.phase = "before"
      [] e.op = "content_block_start" ->
            c.phase = "content" /\ c.open = "none" /\ e.index = c.next
      [] e.op = "content_block_delta" ->
            c.phase = "content" /\ c.open = e.type /\ e.index = c.next
      [] e.op = "content_block_stop" ->
            c.phase = "content" /\ c.open # "none" /\ e.index = c.next
      [] e.op = "message_delta" -> c.phase = "content" /\ c.open = "none"
      [] e.op = "message_stop" -> c.phase = "closing"
      [] e.op = "error" -> c.phase # "stopped"

\* What the client has seen after event e, legal or not.
After(c, e) ==
    LET seen == [c EXCEPT !.last = e] IN
    CASE e.op = "message_start" -> [seen EXCEPT !.phase = "content"]
      [] e.op = "content_block_start" ->
            [seen EXCEPT !.open = e.type, !.tools = @ \/ e.type = "tool_use"]
      [] e.op = "content_block_delta" -> seen
      [] e.op = "content_block_stop" -> [seen EXCEPT !.open = "none", !.next = @ + 1]
      [] e.op = "message_delta" -> [seen EXCEPT !.phase = "closing"]
      [] e.op = "message_stop" -> [seen EXCEPT !.phase = "stopped"]
      [] e.op = "error" -> [seen EXCEPT !.phase = "failed"]

Init == client = Nothing

Next == \E e \in Events : Legal(client, e) /\ client' = After(client, e)

Spec == Init /\ [][Next]_client
=============================================================================
