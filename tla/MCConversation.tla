---------------------------- MODULE MCConversation ----------------------------
(* Three profiles, one of each protocol, and a tool with a long name.            *)
EXTENDS Conversation

MCProvider == [codex |-> "responses", local |-> "chat", claude |-> "direct"]
MCBackups == [codex |-> <<"local">>, local |-> <<"claude">>, claude |-> << >>]
MCMaxItems == [codex |-> 3, local |-> 2, claude |-> 0]
MCRules == [default |-> "codex", code |-> "local"]
MCIdPrefixes == [responses |-> {<<"call_">>}, chat |-> {<<"toolu_">>}, direct |-> {<<"toolu_">>}]
MCCompression == [enabled |-> TRUE, threshold |-> 4, keep_recent |-> 2]
===========================================================================
