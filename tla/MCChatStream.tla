---------------------------- MODULE MCChatStream ----------------------------
(* Upstreams for ChatStream.                                                   *)
EXTENDS ChatStream

MCServers ==
    { [texts |-> {"prose"}, thinking |-> TRUE, tools |-> {"other"}],
      [texts |-> {"prose"}, thinking |-> FALSE, tools |-> {"Read", "other"}],
      [texts |-> {"prose", "toolcall", "half"}, thinking |-> TRUE,
       tools |-> {"Read", "other"}] }
=============================================================================
