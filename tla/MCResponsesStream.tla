------------------------- MODULE MCResponsesStream -------------------------
(* Upstreams for ResponsesStream.                                              *)
EXTENDS ResponsesStream

MCServers ==
    { \* ends every message with its done events, but may send its text only there
      [texts |-> {"prose"}, thinking |-> TRUE, omits |-> {"deltas", "item_done", "output"}],
      \* may leave out any event of a message, and lists its text at the end
      [texts |-> {"prose"}, thinking |-> FALSE,
       omits |-> {"deltas", "text_done", "item_done"}],
      \* may send a message in output_item.done alone
      [texts |-> {"prose"}, thinking |-> TRUE, omits |-> {"deltas", "text_done", "output"}],
      \* sends text that is, or only begins like, a tool call
      [texts |-> {"prose", "toolcall", "half"}, thinking |-> TRUE,
       omits |-> {"item_done", "output"}] }
=============================================================================
