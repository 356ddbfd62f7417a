---------------------------- MODULE Conversation ----------------------------
(***************************************************************************)
(* A conversation carried through the proxy (src/proxy/handler.rs, from    *)
(* the body's arrival to try_forward's post): the client sends its whole   *)
(* history with every request; the proxy prunes images, picks a profile,   *)
(* adds context, may summarise, and for one candidate after the other      *)
(* drops old messages and translates the rest (Translation).  The answer   *)
(* is translated back and the client goes on from it.                      *)
(***************************************************************************)
EXTENDS Translation

CONSTANTS
    Profiles,       \* the enabled profiles
    Provider,       \* profile -> "responses", "chat" or "direct"
    Backups,        \* profile -> the sequence of its backups
    MaxItems,       \* profile -> max_items of its auto-compaction, 0 where that is off
    Reserve,        \* reserve_tokens, in blocks
    Rules,          \* intent -> profile: the router's rules, "default" among them
    RouterEnabled,
    RagEnabled,
    Compression,    \* [enabled, threshold, keep_recent], threshold in blocks
    IdPrefixes,     \* provider -> prefixes of the call ids its upstreams make
    Failing,        \* what may go wrong, a subset of Failures
    MaxRequests     \* bound on the client's requests

Failures == {"upstream", "summarizer"}
Providers == {"responses", "chat", "direct"}

ASSUME ConversationAssumption ==
    /\ Provider \in [Profiles -> Providers]
    /\ \A p \in Profiles : Backups[p] \in Seq(Profiles) /\ MaxItems[p] \in Nat
    /\ "default" \in DOMAIN Rules /\ Range(Rules) \subseteq Profiles
    /\ RouterEnabled \in BOOLEAN /\ RagEnabled \in BOOLEAN
    /\ Compression.keep_recent \in Nat /\ Compression.threshold \in Nat
    /\ Failing \subseteq Failures
    /\ IdPrefixes \in [Providers -> SUBSET Seq(STRING)]
    \* Anthropic's own ids are not taken for translated ones.
    /\ \A prefix \in IdPrefixes["direct"] : ToUpstream([prefix |-> prefix, n |-> 0]).prefix = prefix

VARIABLES
    stage,      \* "client", or the step of handle_messages that is next
    messages,   \* the client's history
    stop,       \* the stop reason of the answer it has last got
    prepared,   \* the request as prepared for all candidates: [system, messages, tools]
    chain,      \* the candidates left, the first in turn
    sent,       \* what was posted to the one in turn
    issued      \* history: client's call id -> the id and name the upstream gave it

conversationVars == <<stage, messages, stop, prepared, chain, sent, issued>>

NothingPrepared == [system |-> << >>, messages |-> << >>, tools |-> {}]
NoRequest == [profile |-> "none", items |-> << >>, map |-> << >>, tools |-> {}, system |-> << >>, body |-> << >>]

ConversationInit ==
    /\ stage = "client" /\ stop = "end_turn"
    /\ messages = << >> /\ prepared = NothingPrepared /\ chain = << >> /\ sent = NoRequest
    /\ issued = << >>

Offered == Named(Tools)
Turn == Len(messages) + 1
Calls(m) == OfType(m.content, "tool_use")

Say(m) ==
    /\ stage = "client" /\ Turn < 2 * MaxRequests
    /\ messages' = Append(messages, m)
    /\ stage' = "arrived" /\ stop' = "none"
    /\ UNCHANGED <<prepared, chain, sent, issued>>

\* A prompt, as a string or as blocks, with or without an image.
Prompt ==
    /\ stop # "tool_use"
    /\ \/ \E plain \in BOOLEAN : Say([role |-> "user", plain |-> plain, content |-> <<Text(<<"prompt", Turn>>)>>])
       \/ Say(Message("user", <<Text(<<"prompt", Turn>>), Image(Turn)>>))

\* A request for a summary of what was said, typed or in the client's own words.
AskForSummary ==
    /\ stop # "tool_use" /\ messages # << >>
    /\ \/ \E plain \in BOOLEAN : Say([role |-> "user", plain |-> plain, content |-> <<Text(<<"/compact", Turn>>)>>])
       \/ Say(Message("user", <<Text(<<"summarize", Turn>>)>>))

\* Results for all calls of the last message: text, large or not, maybe an image, and beside
\* them maybe a text or an image of the user's.
Outputs == {<<Text(<<"small", 0>>)>>, <<Text(<<"large", 0>>)>>, <<Text(<<"small", 0>>), Image(Turn)>>}
Results ==
    /\ stop = "tool_use"
    /\ \E output \in Outputs, aside \in {<< >>, <<Text(<<"prompt", Turn>>)>>, <<Image(Turn)>>} :
         LET Result(b) == ToolResult(b.id, output)
         IN  Say(Message("user", [i \in DOMAIN Calls(Last(messages)) |-> Result(Calls(Last(messages))[i])] \o aside))

---------------------------------------------------------------------------

Placeholder(b) == IF b.type = "image" THEN Text(<<"image omitted", b.image>>) ELSE b
Pruned(b) == IF b.type = "tool_result" THEN [b EXCEPT !.content = [i \in DOMAIN @ |-> Placeholder(@[i])]] ELSE Placeholder(b)

\* prune_historical_images: only the last message that has images keeps them.
PruneImages(ms) ==
    LET with == {i \in DOMAIN ms : HasImage(ms[i].content)}
        kept == IF with = {} THEN 0 ELSE CHOOSE i \in with : \A j \in with : j <= i
    IN  [i \in DOMAIN ms |-> IF i = kept THEN ms[i]
                             ELSE [ms[i] EXCEPT !.content = [k \in DOMAIN @ |-> Pruned(@[k])]]]

\* extract_last_user_message: the texts at the top of the last message, which is the user's.
LastUserTexts(ms) == Texts(Last(ms).content)

\* RouterConfig::resolve_profile
Resolve(intent) == IF intent \in DOMAIN Rules THEN Rules[intent] ELSE Rules["default"]

\* classify_intent: a word of the model's choice, "default" for an answer without one.
Intents == DOMAIN Rules \cup {"another"}

\* resolve_auto_profile: without text or without an answer of the classifier, the default.
AutoProfiles(ms) ==
    IF RouterEnabled /\ LastUserTexts(ms) # << >>
    THEN {Resolve(intent) : intent \in Intents}
    ELSE {Resolve("default")}

\* handle_messages up to the profile; a request offers all tools or only the client's own.
Arrive ==
    /\ stage = "arrived"
    /\ \E tools \in {Tools, Tools \ ServerTools} :
         prepared' = [system |-> << <<"client", 0>> >>, messages |-> PruneImages(messages), tools |-> Named(tools)]
    /\ \E p \in AutoProfiles(prepared'.messages) : chain' = <<p>> \o Backups[p]
    /\ stage' = "enrich"
    /\ UNCHANGED <<messages, stop, sent, issued>>

\* inject_system_context
Inject(b, context) == [b EXCEPT !.system = Append(@, context)]

\* apply_context_engine up to the compression: nothing comes of a search that fails or finds
\* nothing, nor of one for a message without text.
Enrich ==
    /\ stage = "enrich"
    /\ \/ UNCHANGED prepared
       \/ /\ RagEnabled /\ LastUserTexts(prepared.messages) # << >>
          /\ prepared' = Inject(prepared, <<"code", 0>>)
    /\ stage' = "compress"
    /\ UNCHANGED <<messages, stop, chain, sent, issued>>

Weight(ms) == FoldSeq(LAMBDA m, n : Len(m.content) + n, 0, ms)

\* The summarizer is given what was said in messages that are one string.
Summarizable(ms) ==
    /\ Compression.enabled
    /\ Weight(ms) > Compression.threshold
    /\ Len(ms) > Compression.keep_recent
    /\ \E i \in 1..(Len(ms) - Compression.keep_recent) : ms[i].plain

\* compress_messages: the old messages give way to a summary, or to the words for an answer
\* that holds none.
Compressed(ms, summary) ==
    LET n == Len(ms) - Compression.keep_recent
    IN  <<[role |-> "user", plain |-> TRUE, content |-> <<Text(<<summary, n>>)>>]>> \o SubSeq(ms, n + 1, Len(ms))

\* call_summarizer: any JSON is an answer, also an error's.
Summaries == {"summary"} \cup (IF "summarizer" \in Failing THEN {"no summary"} ELSE {})

\* compress_if_needed: a call that fails leaves the history as it is.
Compress ==
    /\ stage = "compress"
    /\ \/ /\ ~Summarizable(prepared.messages) \/ "summarizer" \in Failing
          /\ UNCHANGED prepared
       \/ /\ Summarizable(prepared.messages)
          /\ \E summary \in Summaries : prepared' = [prepared EXCEPT !.messages = Compressed(@, summary)]
    /\ stage' = "forward"
    /\ UNCHANGED <<messages, stop, chain, sent, issued>>

---------------------------------------------------------------------------
(* try_forward, for the candidate in turn.                                  *)

IdsOf(ms, type) == {b.id : b \in UNION {Range(OfType(ms[i].content, type)) : i \in DOMAIN ms}}

\* Mutant: nothing is done for the calls whose results are kept.
KeepFrom_Unprotected(ms, max) == IF Len(ms) <= max THEN 0 ELSE Len(ms) - max

\* safe_compaction_keep_from: the most that can go without a call whose result stays.
KeepFrom(ms, max) ==
    IF Len(ms) <= max THEN 0
    ELSE LET target == Len(ms) - max
             results == IdsOf(SubSeq(ms, target + 1, Len(ms)), "tool_result")
             free == {k \in 0..target : IdsOf(SubSeq(ms, 1, k), "tool_use") \cap results = {}}
         IN  CHOOSE k \in free : \A j \in free : j <= k

Notice(n) == Text(<<"notice", n>>)

\* The notice goes into the user message that is first by now, if its content is a list.
WithNotice(ms, n) ==
    IF ms[1].role # "user" THEN <<Message("user", <<Notice(n)>>)>> \o ms
    ELSE IF ms[1].plain THEN ms
    ELSE <<[ms[1] EXCEPT !.content = <<Notice(n)>> \o @]>> \o Tail(ms)

\* The last message is one string with /compact in it.
SkipsCompaction(ms) == Last(ms).plain /\ Last(ms).content[1].text[1] = "/compact"

\* apply_openai_compatible_auto_compact
AutoCompacted(ms, p) ==
    LET n == KeepFrom(ms, MaxItems[p])
    IN  IF MaxItems[p] = 0 \/ SkipsCompaction(ms) \/ Weight(ms) <= Reserve \/ n = 0 THEN ms
        ELSE WithNotice(SubSeq(ms, n + 1, Len(ms)), n)

\* is_current_compact_text: the texts, put together, start with the command, or have the
\* prompt for a summary in them.  A notice in front of the command hides it.
AsksForSummary(content) ==
    LET said == Texts(content)
    IN  /\ said # << >>
        /\ said[1].text[1] = "/compact" \/ \E b \in Range(said) : b.text[1] = "summarize"

\* is_current_compact_command_request: by the last message, or by the user's last item.
CompactRequest(ms, items, provider) ==
    LET said == OfItem(items, "user")
    IN  \/ AsksForSummary(Last(ms).content)
        \/ /\ provider = "responses" /\ said # << >>
           /\ \E b \in Range(Texts(Last(said).content)) : b.text[1] = "summarize"

\* apply_compact_prompt_overrides: an instruction more and no tools, whatever the provider.
CompactOverrides(request, ms, provider) ==
    IF CompactRequest(ms, request.items, provider)
    THEN [request EXCEPT !.tools = {}, !.system = Append(@, <<"handoff", 0>>)]
    ELSE request

\* What is posted for prepared request b to profile p.
Translated(b, p) ==
    LET ms == AutoCompacted(b.messages, p)
        request == Request([b EXCEPT !.messages = ms], Provider[p])
        asked == CompactOverrides(request, ms, Provider[p])
    IN  [profile |-> p, body |-> ms, items |-> asked.items, map |-> asked.map,
         tools |-> asked.tools, system |-> asked.system]

\* Mutant: each candidate is given what was prepared for the one before.
Forward_Reuses ==
    /\ stage = "forward" /\ chain # << >>
    /\ ~Unsupported(Provider[chain[1]], prepared.tools)
    /\ sent' = Translated(prepared, chain[1])
    /\ prepared' = [prepared EXCEPT !.messages = sent'.body]
    /\ stage' = "posted"
    /\ UNCHANGED <<messages, stop, chain, issued>>

Forward ==
    /\ stage = "forward" /\ chain # << >>
    /\ ~Unsupported(Provider[chain[1]], prepared.tools)
    /\ sent' = Translated(prepared, chain[1])
    /\ stage' = "posted"
    /\ UNCHANGED <<messages, stop, prepared, chain, issued>>

\* An error of this candidate.
Reject ==
    /\ stage = "forward" /\ chain # << >>
    /\ Unsupported(Provider[chain[1]], prepared.tools)
    /\ chain' = Tail(chain)
    /\ UNCHANGED <<stage, messages, stop, prepared, sent, issued>>

\* The upstream fails: the next candidate's turn.
UpstreamFails ==
    /\ stage = "posted" /\ "upstream" \in Failing
    /\ chain' = Tail(chain) /\ sent' = NoRequest
    /\ stage' = "forward"
    /\ UNCHANGED <<messages, stop, prepared, issued>>

\* No candidate is left: the client gets an error and may send the same again.
Exhausted ==
    /\ stage = "forward" /\ chain = << >>
    /\ prepared' = NothingPrepared
    /\ stage' = "arrived"
    /\ UNCHANGED <<messages, stop, chain, sent, issued>>

NewId(k) == Cardinality(DOMAIN issued) + k

\* What an upstream answers with the tools it was given: a text, one call or two, a call
\* written as text.  Its ids are new.
Answers(provider) ==
    LET said == [item |-> "said", text |-> <<"answer", Turn>>]
        Call(k, t, prefix) == CallItem([prefix |-> prefix, n |-> NewId(k)], t)
    IN  {<<said>>}
        \cup {<<Call(1, t, prefix)>> : t \in sent.tools, prefix \in IdPrefixes[provider]}
        \cup {<<said, Call(1, t, prefix), Call(2, t, prefix)>> : t \in sent.tools, prefix \in IdPrefixes[provider]}
        \cup {<<[item |-> "said", text |-> <<"written call", t>>]>> : t \in sent.tools}

\* The answer is translated back and becomes the client's next message.
Reply ==
    /\ stage = "posted" /\ Turn < 2 * MaxRequests
    /\ LET provider == Provider[sent.profile]
       IN  \E items \in Answers(provider), reason \in {"stop", "length"} :
             LET content == AnswerFrom(items, provider, sent.map)
                 calls == {i \in DOMAIN items : items[i].item = "call"}
                 new == {content[i].id : i \in calls}
             IN  /\ reason = "length" => calls = {}
                 /\ messages' = Append(messages, Message("assistant", content))
                 /\ stop' = StopReason(content, reason)
                 /\ issued' = [id \in new \cup DOMAIN issued |->
                                 IF id \in new THEN items[CHOOSE i \in calls : content[i].id = id].id
                                 ELSE issued[id]]
    /\ stage' = "client"
    /\ prepared' = NothingPrepared /\ chain' = << >> /\ sent' = NoRequest

ConversationNext ==
    \/ Prompt \/ AskForSummary \/ Results
    \/ Arrive \/ Enrich \/ Compress
    \/ Forward \/ Reject \/ UpstreamFails \/ Exhausted \/ Reply

ConversationSpec == ConversationInit /\ [][ConversationNext]_conversationVars

---------------------------------------------------------------------------

Items == sent.items
Count(item, id, k) == Cardinality({i \in 1..k : Items[i].item = item /\ Items[i].id = id})
IsSummary(m) == m.content[1].type = "text" /\ m.content[1].text[1] \in {"summary", "no summary"}
Summarised == prepared.messages # << >> /\ IsSummary(prepared.messages[1])

\* The calls that a summary stands for.
SummarisedCalls ==
    IF Summarised
    THEN LET ids == IdsOf(SubSeq(messages, 1, Len(messages) - Compression.keep_recent), "tool_use")
         IN  ids \cup {ToUpstream(id) : id \in ids}
    ELSE {}

\* The output of an item is there in full, or names one before it that is.
Whole(i) ==
    (Items[i].output # << >> /\ Items[i].output[1].text[1] = "duplicate of") =>
        \E j \in 1..(i - 1) : /\ Items[j].item = "output" /\ Items[j].id = Items[i].output[1].text[2]
                              /\ Large(Items[j].output)

\* Every candidate is sent each call before its one result, in full or as a reference to the
\* same result before it, however much of the history was dropped and although failed
\* candidates were given it differently: a provider refuses a request that holds one without
\* the other.  Only a summary separates them (it does not look where it cuts).
CallsAnswered ==
    stage = "posted" => \A i \in DOMAIN Items : Items[i].item \in {"call", "output"} =>
        LET id == Items[i].id IN
        /\ Items[i].item = "output" => Whole(i)
        /\ \/ id \in SummarisedCalls
           \/ /\ \A k \in DOMAIN Items : Count("output", id, k) <= Count("call", id, k)
              /\ Count("output", id, Len(Items)) = Count("call", id, Len(Items))

TextsSent == UNION {IF it.item = "said" THEN {it.text}
                    ELSE IF it.item = "user" THEN {b.text : b \in Range(Texts(it.content))} ELSE {} : it \in Range(Items)}
Notices == {t \in TextsSent : t[1] = "notice"}

\* How many messages of the client's are in the request, and whether message i is not.
IsNotice(m) == Len(m.content) = 1 /\ m.content[1].type = "text" /\ m.content[1].text[1] = "notice"
Kept == Len(sent.body) - (IF IsNotice(sent.body[1]) \/ IsSummary(sent.body[1]) THEN 1 ELSE 0)
Dropped(i) == i <= Len(messages) - Kept

\* What the user or the model said reaches the upstream, unless its message was left out and
\* the request says so or holds a summary.  The exceptions are the code's: text beside a
\* tool result on its way to the Responses API, and a notice that finds a plain string in
\* its place.
OmissionsTold ==
    stage = "posted" => \A i \in DOMAIN messages : \A b \in Range(Texts(messages[i].content)) :
        \/ b.text \in TextsSent
        \/ Dropped(i) /\ (Notices # {} \/ Summarised \/ sent.body[1].plain)
        \/ Provider[sent.profile] = "responses" /\ Holds(messages[i].content, "tool_result")

\* A notice counts what this candidate was not sent of what the client, or a summary's
\* author, had: it is no older candidate's.
NoticeCounts ==
    stage = "posted" => \A t \in Notices :
        t[2] + Kept = IF Summarised THEN Compression.keep_recent + 1 ELSE Len(messages)

\* The upstream is given each call under the id it was issued with, by whichever profile, so
\* that ids never collide and cached prefixes stay valid.
WrittenId == [prefix |-> <<"call_", "text_">>, n |-> 1]
IdsReturn ==
    stage = "posted" => \A it \in Range(Items) : it.item \in {"call", "output"} =>
        IF Provider[sent.profile] = "direct" THEN it.id \in IdsOf(messages, "tool_use")
        ELSE it.id \in Range(issued) \cup {WrittenId}

\* The client is asked only for tools it knows, by the names it gave them; but a call that
\* was written out as text keeps the name the model used.
NamesRestored ==
    \A i \in DOMAIN messages : \A b \in Range(Calls(messages[i])) :
        b.name \in Offered \/ b.id = ToAnthropic(WrittenId)

\* Ids and shortened names survive their round trips through the client (tool_id.rs and
\* util.rs, ToolNameMap), although no table of them outlives a request.
RoundTrips == IdsReturn /\ NamesRestored
===========================================================================
