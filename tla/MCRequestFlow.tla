--------------------------- MODULE MCRequestFlow ---------------------------
(* Small deployments for RequestFlow: p1 fails over to p2 and then p3; p1 is an *)
(* OAuth profile on the Responses API, p2 an OpenAI-compatible provider, p3 a   *)
(* direct Anthropic one.  off is configured as a backup but disabled.          *)
EXTENDS RequestFlow

CONSTANTS p1, p2, p3, off, r1, r2

MCKind == [p \in Profiles |-> IF p = p2 THEN "compatible"
                              ELSE IF p = p3 THEN "direct" ELSE "responses"]

\* One request can walk the whole chain, past the disabled backup.
ChainBackups == [p \in Profiles |-> IF p = p1 THEN <<off, p2, p3>> ELSE << >>]
=============================================================================
