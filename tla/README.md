# A TLA+ development of claudex

claudex lets Claude Code talk to any model provider.  It starts an HTTP proxy
inside the launcher process, points Claude Code at it, and translates between the
Anthropic Messages API and the provider's own (OpenAI Responses, OpenAI
chat-completions, or Anthropic directly).  Around the proxy it signs in to
providers, keeps a layered configuration, installs instruction sets and relays the
terminal.  This directory holds TLA+ models of the parts of it that are hard to
test, the TLC configurations that check them, and TLAPS proofs about them.

Paths are relative to the Rust crate (`src/` is the crate's `src/`), unless they
begin with `README.md` or `CONTRIBUTING.md`, which are the repository's.
`PROJECT.json` maps every definition to the lines it models.

1. [Inventory](#1-inventory) 2. [The modules](#2-the-modules) 3. [Runs](#3-runs)
4. [Fairness](#4-fairness) 5. [Proofs](#5-proofs)
6. [Where code and documents disagree](#6-where-code-and-documents-disagree)
7. [Seen while modelling](#7-seen-while-modelling)
8. [What is not modelled](#8-what-is-not-modelled) 9. [How to run](#9-how-to-run)

## 1. Inventory

### Components

| Component | State it keeps | Operations | What is hard | What makes it correct | Module |
|---|---|---|---|---|---|
| Request flow (`proxy/handler.rs`) | one future per request; shares the breaker map and the metrics | reject, resolve the profile, get a token, gate, forward, retry a 429, re-authenticate after a 401, fail over, count, answer | requests interleave at every await; the client may hang up at any of them; three retry mechanisms nest | candidates are tried in order and none is skipped; the client gets the last outcome; posts are bounded; each answer is counted once; every request settles | `RequestFlow` |
| Circuit breaker (`proxy/fallback.rs`) | per profile: state, failure count, last failure | `can_attempt`, `record_success`, `record_failure` | check and record are separate lock scopes with an upstream call between them | state, counter and clock agree; an open breaker sheds load | `CircuitBreaker` |
| Error classification (`proxy/error_translation.rs`) | none | HTTP status, SSE event or transport error to an Anthropic error; `circuit_decision` | which failures feed the breaker | provider failures fail over, deterministic ones do not count | `RequestFlow` |
| OAuth tokens (`oauth/manager.rs`, `exchange.rs`, `source.rs`) | token cache and refresh lock per profile; the credential file shared with the codex CLI and other sessions | `get_token`, `invalidate_and_retry`, refresh, write back | refresh tokens are good for one use; several processes; dropped futures | a token is refreshed once; the login is never lost; no call waits for ever | `TokenManager` |
| Responses stream (`proxy/translate/responses_stream.rs`) | one translation state per stream | one handler per upstream event, end of stream | many orders of events; text held back because it may be a tool call | a legal Anthropic stream, everything sent once, the end and the right stop reason told | `ResponsesStream` |
| Chat Completions stream (`proxy/translate/chat_completions_stream.rs`) | one translation state per stream | reasoning, content, calls, finish, end of stream | nothing marks the end of an item; held-back arguments | the same | `ChatStream` |
| File cache (`proxy/file_cache.rs`) | content key to remote file, LRU with TTL | lookup, upload, insert, evict, delete | remote files are created and deleted outside the lock | no deleted file is offered; none is forgotten | `FileCache` |
| Request and response translation, adapters (`proxy/translate/*`, `proxy/adapter/*`, `util.rs`) | none between requests | an Anthropic request into items, an answer into blocks | calls and results must stay paired; ids and names travel through the client and other providers | every call keeps its result, ids and names come back, what is left out is told | `Translation` |
| Body preparation (`handler.rs`: image pruning, auto-compaction, compact requests; `context/*`, `router/*`) | none between requests | rewrite the history before translation, pick a profile | rewrites compose; each candidate starts from the same body | the same | `Conversation` |
| Proxy life cycle, launcher (`lib.rs`, `process/*`) | listening port, one shared pid file, the child | update check, find a port, start the proxy, wait until it answers, offer a sign-in, run Claude and retry, `proxy start`, `stop`, `status` | a port is found, let go and bound later; every session writes the same pid file | a session talks to its own proxy; a run is reported as it ended; waiting ends | `Launcher` |
| OAuth login (`oauth/server.rs`, `providers.rs`, `source.rs`) | callback server, device code, `auth.json` and its temporary file | browser, device and external sign-in, refresh | several processes with one callback port, one file and no lock | the file is whole; a new sign-in is new; waiting ends | `Login` |
| Terminal (`terminal/pty.rs`) | line buffer, cut characters, the resume line | relay output and keystrokes, flush after silence, hang-up | reads end anywhere; either side may block | output is shown once, complete and in order; the end is noticed | `Terminal` |
| Instruction sets (`sets/*`) | lock file, clones, installed files | add, remove, update | a step failing between files and lock; sets sharing files; two shells | lock file and files agree | `Sets` |
| Configuration (`config/*`) | a global file, a project's file, the environment | load layers, first run, profile add and remove, login, migrate | several layers are read and one is written; commands wait for the user in between | a save changes what it is about; nothing added is lost | `ConfigFile` |
| Metrics, shared context, health (`proxy/metrics.rs`, `context/sharing.rs`, `proxy/health.rs`) | counters; 50 texts per profile; last health result | record, store, gather, poll | little | each answer counted once | `RequestFlow` (counters) |
| Model cache (`proxy/models.rs`) | models per profile | discover, repair a name | never filled by the program | - | - |
| Command line, self-update, installers (`cli.rs`, `update.rs`, scripts) | none | parse, compare versions, download | sequential | - | `Launcher` (the release check) |

### How they interact

A **launcher** finds a port, starts the proxy as a task of its own process, waits
until something answers there, may run a sign-in, and starts Claude, whose output the
**terminal** relays.  A request enters the proxy with a snapshot of its profile, calls
the **token manager** if the profile uses OAuth, has its body rewritten by body
preparation, router, context engine and **file cache**, passes the **breaker** of its
profile, is translated and posted.  What comes back is classified; a 401 goes through
the token manager once more, a 429 sleeps and posts again, an `Err` goes to the next
backup's breaker.  A stream is read up to its first visible content (the preflight) and
then handed to one of the **stream translators**, which runs as an async generator for
as long as the client reads.

Shared between requests are only the breaker map, the metrics, the token cache with its
locks, the file cache and the shared context, each behind its own lock that is not held
across a network call, except the refresh lock, which is.  Shared between *processes*,
with no lock at all, are the credential file `~/.codex/auth.json` and its temporary
name, the callback port 1455, the pid file, the configuration files, and the lock file,
clones and installed files of sets.

### What is hard to test

The hazards are listed with their lines in `PROJECT.json`.  In short: requests that
check a breaker, work for minutes and record later; nested retries; sessions that
refresh one rotating credential; futures dropped at an await with a lock, a reply or
an uploaded file in hand; upstream servers that leave out events or break off; text
held back over several events; remote files deleted while another request relies on
them; histories cut between a call and its result; commands in several terminals that
read a file, ask the user, and write back what they read; processes killed between two
writes; ports given away and taken; reads that end in the middle of a character.

## 2. The modules

| Module | Extends | Checked through | Proofs |
|---|---|---|---|
| `CircuitBreaker`, `RequestFlow` | | `MCRequestFlow` | `RequestFlowProofs` |
| `TokenManager` | | `MCTokenManager` | `TokenManagerProofs` |
| `AnthropicStream` (abstract), `StreamOutput`, `ResponsesStream`, `ChatStream` | `StreamOutput` | `MCResponsesStream`, `MCChatStream` | `StreamOutputProofs` (lemmas), `ResponsesStreamProofs`, `ChatStreamProofs` |
| `FileCache` | | `MCFileCache` | `FileCacheProofs` |
| `Translation`, `Conversation` | `Translation` | `MCConversation` | `FileCacheProofs`, second part |
| `Login`, `Launcher` | `Login` | `MCLauncher` | `LauncherProofs` |
| `ConfigFile` | | `MCConfigFile` | `ConfigFileProofs` |
| `Sets` | | `MCSets` | `ConfigFileProofs`, second part |
| `Terminal` | | `MCTerminal` | `LauncherProofs`, second part |

What one module does in detail another sees as outcomes: `RequestFlow` sees the token
manager as `TokenReady` and `TokenFailed`, the translators as the outcomes of a post;
`TokenManager` sees the request flow as slots that call it and may be dropped;
`Conversation` sees failover as `UpstreamFails` and what it sends; `Launcher` sees
Claude as how it ends and `ConfigFile` sees a sign-in as the profile it adds.

### `CircuitBreaker` and `RequestFlow`

`CircuitBreaker` has one operator per method of `fallback.rs`, on the breaker's record.
Time is reduced to what `can_attempt` compares: the last failure is "never", "recent"
or "elapsed"; `RecoveryTimeout` lets it elapse at any moment.  `RequestFlow` uses these
operators inside its own actions, as the code calls them inside its lock scopes.

It has one action per stretch between two awaits of `handle_messages`,
`try_with_circuit_breaker` and `try_forward`:

| `pc[r]` | suspended in | actions |
|---|---|---|
| `new` | reading the body | `Reject`, `Accept` |
| `token` | `TokenManager::get_token` | `TokenReady`, `TokenFailed` |
| `gate` | the breaker map's lock, before the check | `Admit`, `Refuse` |
| `forward` | everything between the check and the post | `TranslateFails`, `Send` |
| `inflight` | the upstream call, with its preflight | `RateLimited`, `UpstreamAnswers` |
| `backoff` | the sleep after a 429 | `Resend` |
| `reauth` | `invalidate_and_retry` | `ReauthSucceeds`, `ReauthFails` |

`Disconnect` drops the future at any of them; nothing is recorded then, neither in the
breaker nor in the metrics.  `Conclude` is what the handler does with the result of a
try: re-authenticate, answer, go to the next enabled backup, or give up.  It belongs
to the action that ends the try.  `Preflight`, `SseAnswers`, `ErrorDecision`, `StatusOf`
and `ErrorType` are `try_forward`'s outcomes and `error_translation.rs`: in particular
an answer is an `Ok` for every 4xx, for whatever the preflight finds, and for any status
of a passthrough provider.  `tries` and `sends` are history: no guard reads them.
Request bodies are abstracted to one bit, whether the Responses translation rejects
them (`Unsupported`).

### `TokenManager`

Sessions are processes with their own cache and locks (`Home`), profiles of one
session share the credential file, and several profiles may stand for the same login
(`ProfileOf`).  A credential is its *generation*; refresh g yields generation g + 1
and the issuer accepts only the latest.  `get_token` is cut where it can be
suspended or die: the fast path, waiting for the lock, the second look under the lock,
the posted refresh, its reply, and the two writes of the file (`WriteBack` in
`exchange.rs`, `WriteAgain` in `manager.rs`; a crash can fall between them, a dropped
future cannot, because there is no await).  A request slot is reused when its
request ends, so requests never run out.  Expiry happens to the latest token at any
time except between its issue and its insertion in the cache: a token lives longer
than the 60 seconds the code subtracts.

`Environment` selects what else may happen: dropped futures, crashes, lost replies,
failing writes, and a refresh by the codex CLI.  `lost` is history: it records that a
fault dropped the latest credential before it was written.  The issuer's behaviour
(rotation, refusal of a spent token) is what `RefreshError::Reused` in `exchange.rs`
expects of it.

### `AnthropicStream`, `StreamOutput`, `ResponsesStream`, `ChatStream`

`AnthropicStream` is what a client of the Messages API may be sent: one
`message_start`, blocks numbered from 0 and open one at a time, deltas of the open
block's type, a `message_delta`, a `message_stop`; an error may replace the rest.
`Legal` and `After` define the client; the translators' modules use the same `After`
to record what their client has seen, and `LegalStream` says that they implement
`AnthropicStream!Spec` under the mapping that keeps `client`.

`StreamOutput` is the generator around both translators: `out` holds the events of one
line until they are yielded, one by one, before the next line is read.  It also holds
the properties that do not depend on the upstream.

In each translator's module an upstream action is one SSE event together with the whole
of its handler.  The upstream is part of the state (`up`): the items it has begun and
the stage of the current one.  What its messages contain and which events it leaves out
is chosen once, in `Init`, from the constant `Servers`; a server may leave out the deltas
of a message, its `output_text.done`, its `output_item.done` and its text in the output
that `response.completed` lists, as long as the text is somewhere.  Text is "prose", a
"toolcall" (a tool call written out as text, in a form `parse_textual_tool_call` accepts) or "half"
of one, and it is cut into deltas in every way `should_buffer_textual_tool_candidate`
tells apart.  `shown` and `up.streamed` are history: how often each item was sent as text
and as a call, and which texts came in deltas.

### `FileCache`

One action per lock scope or network call of `file_cache.rs`: `Sweep` and `Hit`/`Miss`
are the two lock scopes of `cache_lookup`, `Upload`/`UploadFails` the request between,
`Insert` the one of `cache_insert`, `Delete` one remote deletion.  Entries are a
sequence in the order of last use.  Files are numbered in the order of their upload.
`since` and `leaked` are history: the documents used since a file was, and the files
nobody will delete.

### `Translation` and `Conversation`

`Translation` has the pure part as operators: what becomes of a message's blocks for the
three protocols (`ResponsesItems`, `ChatItems`, `DirectItems`), tool ids there and back,
shortened names and the map that restores them, duplicate outputs, refused server tools,
answers and stop reasons.  Texts, images and ids are small values; an id is the prefixes
it begins with and a number, since prefixes are all the code looks at.

`Conversation` carries one conversation through it.  The client sends its whole history
each time (`Prompt`, `AskForSummary`, `Results`); `Arrive` prunes images and routes,
`Enrich` injects context, `Compress` summarises, `Forward` compacts and translates for
the candidate in turn, `Reject` and `UpstreamFails` go to the next, `Reply` translates
back.  Upstreams may answer with text, calls, and calls written as text; their ids are
new.  `sent` is what was posted and `issued` is history: which id the upstream had given
each of the client's calls.

### `Login` and `Launcher`

Processes are slots started up to `MaxRuns` times; a slot and its count stand for a pid,
so a pid file may name a process that is gone.  `Login` cuts a sign-in where the code
waits (page, code, exchange, device poll) and, for `auth.json`, at each system call: open
with truncation (`OpenTmp`), write (`Fill`), rename, all under one temporary name, so that
two processes interleave there.  Token pairs are numbered by issue.  `raced` is history:
two processes were writing at once.

`Launcher` composes it with what a session does before and after: release check, port
search, proxy task, readiness polling, the question whether to sign in again, Claude, the
second run without guard flags, and the management commands that share the pid file.  A
listener accepts connections from the moment it is bound, and answers when its pid is
written (`WritePid`).  `stranger` is a program that is no claudex and binds a port that a
session has found; `Manners` says what such programs do with a request: answer, hang up,
or accept it and stay silent.
`Kill` ends any process anywhere.

### `ConfigFile`

A document has one scalar, which stands for all, a list of profiles and the keys the
program does not know.  `Over` is the merge of layers, `Loaded` and `Source` are what a
command started in some place reads and the one file it will write; `FindNothing`,
`OpenDefault` and `WriteDefault` are a first run.  Each command reads, waits for the user,
changes what it has in memory and saves with `WriteTmp` and `Rename`; migrate looks for
unknown keys, backs up, and reads again.  `EditByHand` is the user's editor and `Kill`
ends a command anywhere.  `overtaken` and `added` are history.

### `Sets`

A command loads the lock file, then fetches a source, touches one component after the
other, asking the user about each that is there already, and writes the whole lock file
back.  `Publish` moves an upstream repository on.  `Environment` selects failing file
operations, an interrupt, and being offline.  `strays` and `taken` are history: what the
code leaves behind or overwrites, with the reasons the properties name.

### `Terminal`

One action per branch of the relay's loop around `poll()`.  Bytes are a few symbols that
tell characters, lines and the resume line apart, reads return any number of bytes up to
`ReadMax`, and the kernel keeps at most `PtyRoom` in each direction, so that either side
can block.  `written` and `cut` are history.

## 3. Runs

`tlc -config <cfg> <module>`; all complete, with two workers none needs more than about
two minutes.

| Run | Configuration | Question | Result |
|---|---|---|---|
| `chain` | `MCRequestFlow` | Is failover in order, the answer the last outcome and counted once, the number of posts bounded? Do breakers stay coherent and shed load, and does every accepted request settle? | holds |
| `tokens` | `MCTokenManager` | With two sessions, the codex CLI and every fault: is a refresh token spent twice without one, a lock leaked, a token cached that is not on disk, the login lost by a race? Does the lock always come free? | holds |
| `responses` | `MCResponsesStream` | Is the Anthropic stream legal, complete, told its end and its stop reason, whatever events the server leaves out? | holds |
| `chat` | `MCChatStream` | The same, without the stop reason | holds |
| `files` | `MCFileCache` | Is a deleted file offered, a file forgotten, a file deleted under a request that relies on it? | holds |
| `conversation` | `MCConversation` | Does what each upstream is sent of a growing history keep calls and results together, say what it leaves out, and bring ids and names back? | holds |
| `launch` | `MCLauncher` | Two processes that start, sign in, stop and die in any order: are the credentials whole, the port a session's own, the old token replaced, and does everything end, also when another program takes the port and is silent? | holds |
| `config` | `MCConfigFile` | Does a save change one thing, migrate keep the file, a profile that was added stay? | holds |
| `sets` | `MCSets` | Do lock file and files agree, through failures, interrupts and two shells? | holds |
| `terminal` | `MCTerminal` | Is the output shown once and complete, the resume line found, a prompt shown, the end noticed? | holds |
| `health`, `launch_print` | | see section 6 | refuted |

### Bounds, and why they are enough

* `chain`: two concurrent requests, a primary on OAuth with a disabled backup before
  two enabled ones, of all three kinds of adapter.  Three candidates make "first",
  "middle" and "last" distinct; the disabled one tells position from order.
  `Threshold` is 1 and `MaxRetries` 1, so that a single request can open a breaker, a
  second one probes it, and one can run out of retries; `BreakersCoherent` and
  `OpenShedsLoad` are proved for every threshold.  The answers are one of each class the
  handler distinguishes in control: success, 429, 401, and a failure that is an `Err`
  (plus what the proxy causes itself: refused, untranslatable).  Each other answer takes
  the path of one of these and differs in the status reported; `health` has them all.
* `tokens`: three slots in two sessions (two in one, so the lock matters; one in the
  other, so the file is shared), two generations: one refresh and the race for it, under
  every fault.  `IInv`, which the proofs show for any number, was also checked with three.
* `responses`, `chat`: up to four items, so that each kind of item is followed by each
  other kind, and a block left open by one is seen by a second and a third.  The four
  Responses servers send deltas and `done` events of any text, leave out anything but
  `output_text.done`, leave out anything but the output at the end, and send messages in
  `output_item.done` alone; whatever one may leave out it may also send.  The
  invariants of the proofs were also checked with every server there is and three items.
* `files`: two requests that share one of three documents, a cache of two entries, three
  uploads: hits, misses, an overflow, the double upload and all faults occur.
* `conversation`: three requests, hence histories of up to five messages with calls
  of both rounds; limits of three and two items, so that compaction happens and differs
  between candidates; a tool whose name is shortened and one only Anthropic runs; one
  profile of each protocol in a chain, with and without routing and summaries.
* `launch`: two processes at a time and two runs, so that a pid can be stale; one port,
  which two sessions find before either has bound it and a silent program may take; and
  two token pairs, so that "another" pair differs from the old;
  on machines where nobody has signed in, where somebody has, and where only another
  program has, beside a profile with an API key.  Once also with two ports and no other
  programs (290,000 states), and with other programs that answer or are silent (490,000).
  One is there at a time, and a port that was taken from a session is not taken from it
  again.
* `config`: two terminals, three commands or edits, two profile names, a list of at most
  three profiles, the three ways to find a file and two documents written by hand.  Once
  also with three commands and an edit, 15 million states.
* `sets`: two shells, three commands, two repositories whose URLs end alike and a local
  directory; versions that drop components, want variables or are malformed; one file of
  the user's own.
* `terminal`: three outputs, of which one is not UTF-8, one ends within a resume line and
  one names two sessions; reads of at most two bytes cut every character and line, and
  four keystrokes fill the three that the kernel keeps.

Deadlock checking is off where the system really stops: a stream or conversation that is
over, requests that are all answered, files and processes used up, a child that waits.

### The properties

* `FailoverInOrder`: a candidate is left only after it failed, except that an OAuth
  primary may be tried a second time after a 401; no enabled backup is skipped.
* `AnswersAndCounters`: the answer is the last outcome, also through a failed
  re-authentication, after which the original 401 is the answer (`AnswerIsLastOutcome`);
  the counters agree with the set of answered requests, whose outcome may come from a
  different profile than the one they are counted under (`MetricsMatchAnswers`).
* `SendsBounded`: (MaxRetries + 1) posts for each of at most (backups + 1) tries, plus
  one for OAuth.
* `BreakersCoherent`, `OpenShedsLoad`: a breaker's state, counter and clock agree; while
  it is open and its time-out has not passed, nobody joins the requests at work on that
  provider.  Those already at work go on.
* `EveryRequestSettles`: liveness of an accepted request, unless its client hangs up.
* `LockFollowsHolder`, `LockComesFree`: no path out of `get_token`, dropped futures
  and crashes included, keeps the lock, so nobody waits for it for ever.
* `RefreshTokenSpentOnce`, `CachedTokenPersisted`, `CredentialSurvives`: what is cached is
  on disk; the login can be lost in one window only, between the issuer's answer and the
  first write.
* `LegalStream`, `ContentOnce`, `NothingLost`, `StopReasonTold`: see the modules.
  `ContentOnce`, for prose, has no exception for what servers leave out, but for one
  sort of text that the code loses (`Overlooked`): it came in no delta, from a server
  that may leave out `output_text.done`, and another text was shown. So nothing is ever
  repeated, and a text is lost only beside one that was sent (section 7).
  `NothingLost` includes that the end is told.  `LegalStream` is claimed for *orderly*
  upstreams, and `NothingLost` of a Responses upstream for one that sends
  `output_text.done` and, unless all text is prose, deltas; the exceptions are in
  section 7.
* `CacheOffersLiveFiles`, `FilesAccountedFor`, `ReliedOnUntilPosted`: what requests may
  assume of files; the last says exactly when the code deletes a file under a request
  that was just told to use it (it expired, or MaxEntries other documents were used).
* `CallsAnswered`: a call is sent before its one result, and the result in full or as a
  reference to the same one before it, to every candidate; a summary is the one exception.
* `OmissionsTold`, `NoticeCounts`: what is not sent is announced, with the right number,
  for this candidate and not for one that failed before it.
* `RoundTrips`: ids and names, through the client and other providers.
* `WholeUnlessRaced`: only two writers at once can tear the credentials.
  `PrivateUnlessPortTaken`: Claude never runs behind another session's proxy, or another
  program, except when that one took the port in the window between search and bind; it
  decides what README.md:337 leaves open (section 6).  `PrivatePortNotSaved`,
  `ReauthReplacesToken`: what a session does beside the others; see the module.
  `Settles`: nothing waits for ever on another claudex, on a proxy that fails or never
  binds, or on a browser; a session does wait for as long as a stranger on its port stays
  silent, which is the one exception (section 7).
* `SaveChangesOneThing`, `MigrateKeepsTheFile`, `AddedStays`: about commands that read
  several layers and write one file, with exactly the exception that somebody else wrote
  that file in between.
* `FilesRecorded`, `RecordsTrue`: the two directions of "lock file and files agree", with
  the exceptions the code makes gathered in history variables.
* `OutputAccountedFor`, `ResumeKnown`, `PromptShown`, `SessionEnds`: the relay keeps
  everything that is UTF-8, finds the session named last in any line no time-out cut,
  shows a prompt while the child waits for an answer (unless a paste blocks it), and
  ends when the child does.

Every property of a passing run has a mutant: a definition next to the one it mutates,
commented "Mutant", that changes it as a plausible slip would; with it TLC finds the property
violated.

## 4. Fairness

* `RequestFlow!FairSpec`: weak fairness of each request's `Progress`.  tokio polls every
  ready task; what a handler waits for ends, because the HTTP client has connect and
  read time-outs, the preflight stops after 2 MiB and the sleep after a 429 is at most 5
  seconds.  Nothing is assumed of clients (`Disconnect`, `Accept`) or of the clock
  (`RecoveryTimeout`): a breaker may stay open for ever and requests settle all the same.
* `TokenManager!FairSpec`: weak fairness of each request's own steps under the lock and
  before it.  Nothing is assumed of who takes the lock; that it comes free again and again
  is enough for every waiter, since tokio's mutex is first come, first served.
* `Launcher!Fairness`: weak fairness of each process's own steps: the operating system runs
  every process.  Until its port is bound the proxy task owes nothing: it builds an index with
  requests to a provider.  Then it does no more than write its pid before it serves, so
  `WritePid` is fair.  Strangers, the user, the browser and Claude owe nothing; waiting for
  the user or Claude is where `Settles` lets a process rest.  The browser's silence is ended by
  the five-minute limit of the callback (`CallbackTimeout`), a step of the process.
* `Terminal!RelayFairSpec`: weak fairness of the relay's loop, for input and for output, since
  `poll` returns whenever either is ready or 50 ms have passed.  The child need neither
  print nor read.

The other specifications have no fairness and only safety properties.

## 5. Proofs

`tlapm` checks all of it.  Nothing is assumed but the named assumptions on constants,
which TLC evaluates in the runs; they say what a configuration is:

* `ThresholdAssumption`, `RequestFlowAssumption`: the threshold is positive, backups are
  profiles, `NoOne` is not a request.
* `TokenAssumption`: every request has a session and a profile.
* `StreamAssumption`, `ResponsesAssumption`, `ChatAssumption`: `MaxItems` is a number, an
  upstream is one of the kinds that `Server` lists, and sends every text somewhere.
* `FileCacheAssumption`: a request has documents, the cache has room for one.
* `ProcsAssumption`, `BeginningsAssumption`, `LauncherAssumption`: finitely many
  processes; what a machine holds at first is a token pair or nothing; a stranger has one of
  the three manners.
* `PlacesAssumption`, `HandWrittenAssumption`: where commands are started, and that what
  the user writes is a document.
* `NoValueAssumption` of `Login` and `ConfigFile`: what stands for "no value" is none.
* `TerminalAssumption`: a script is a sequence of the symbols that stand for bytes; a read
  and the kernel's buffers take at least one.
* `SetsAssumption`: there are finitely many names of sets, none of them stands for the user;
  a repository has at least one version, and what a manifest names are components.

The theorems hold for any number of requests, profiles, backups, sessions, refreshes,
output items, documents, cache entries, names, commands and keystrokes the constants
allow, and for any subset of the faults.  Each is an invariant, an action property, or a
refinement, and its proof has the same shape: an inductive invariant, which TLC checked
first; one lemma per action, or per helper that several actions call; and a last step in
temporal logic.

### `RequestFlowProofs`

* `TypeCorrect`: `TypeOK` is inductive.
* `BreakersStayCoherent`: inductive together with `TypeOK`; each step applies at most one
  of the breaker's methods to one breaker (`BreakerChange`), and each method keeps a
  breaker coherent (`BreakerMethods`).
* `OpenBreakerShedsLoad`: an action property.  A request that is at work after a step was
  at work on the same candidate before, or has just passed its breaker (`WorkBegins`);
  the latter is impossible while it is open and its time-out has not passed.
* `SendsAreBounded`: `SendsBounded` is not inductive, since it does not say how much of
  the budget is spent where.  `SendBudget` does: at each location at most
  (MaxRetries + 1) posts for each completed try, counted by the position in the backup
  list and the one 401 retry, plus the posts of the try in progress.
* `FailoverKeepsOrder`: the order of the tries says nothing of where the request will go
  next, so `OrderInv` adds `Standing`: a request that has to be tried at a position stands
  there for the first time, or for the second after a 401, behind a candidate that failed,
  and every enabled backup before it was visited.
* `AnswersMatchCounters`: `MetricsInv` says that each counter is the cardinality of a set
  of answered requests.  The set grows by the one request a step answers
  (`CountingAdds`), or not at all (`CountingKeeps`).  With infinitely many requests the
  set is still finite, because it begins empty.

### `TokenManagerProofs`

* `LockIsNeverLost`, `CacheFollowsFile`, `LoginSurvives`.  The last two are not
  inductive by themselves: a late write could put an old credential over a new one.
  `OneRefreshAtATime` excludes it: a refresh is posted only with a token that has
  expired; while any request is between the issuer's answer and the cache, the latest
  token has not expired; so the issuer rotates for nobody else meanwhile, and what is
  written is always the latest.  That is why sessions need no lock between them for
  the *file* to be right, although they may spend refresh tokens twice (section 7).
* `SessionsShareRefresh`: `RefreshTokenSpentOnce`, under the hypothesis `OneProfileEach`,
  that a session refreshes one profile.  Without it the property is false: the lock is per
  profile (section 7).  `SpentInv`: what a session has spent is older than the file, or
  the reply is on its way to the holder of the lock, and what it is about to post it has
  not spent.

### `StreamOutputProofs`, `ResponsesStreamProofs`, `ChatStreamProofs`

* `StreamIsLegal`, of both translators: they implement `AnthropicStream`.  Events are made
  a line at a time and seen one by one, so the invariant speaks of a client ahead of the
  real one.  `Path(c, es, d)` says that the events `es` take the client from c to d, each
  of them legal; `Sync` that what waits in `out` takes the client to one that agrees with
  the translator's own variables about the block that is open and its number.  A handler
  makes a list of events that leads from one agreement to the next (the lemmas `..Leads`
  of `StreamOutputProofs`, `..Takes` of `ChatStreamProofs`), and a yield takes one event
  off the front.  `Shape` says what an orderly upstream never brings about, such as text
  held back, and that there are no more blocks than items.
* `StopReasonIsTold`, of the Responses translator: `has_tool_use` agrees with what the
  client will have seen (part of `Sync`).
* `EachItemOnce`, `NothingIsLost`, of both: `Once` and `Somehow` say of each item how often
  it was sent so far, from the stage of the item and what the translator remembers of it
  (`saw_text_delta`, `saw_args`, the pending call, the buffer); `UpstreamOK` ties these to
  each other.  In `ChatStream` nothing marks the end of an item, so a call stays pending
  while later items go by; the invariant keeps that its arguments are complete by then.
  For a Responses server that may leave out `output_text.done` a second invariant,
  `Fallbacks`, stands on the first: every item the upstream is done with was sent, or is
  a text that came in no delta and was not sent at all (`SentOrMissing`); `saw_text_delta`
  says whether any text was shown (`Remembered`), and while none was, a fallback is still
  to come (`LastResort`).  Hence a completed response lacks a text only beside another.
  `Unfinished` adds that before the upstream's end nothing says the message is over: who
  sees `message_stop` therefore finds the buffer flushed.

### `FileCacheProofs` (with `Conversation`)

* `NoFileForgotten`: `OneOwner`.  A file at the provider is in the cache, in one request's
  hands, or leaked, and in one of these places only.
* `OnlyLiveFilesOffered`: follows from `OneOwner`, since who deletes a file owns it.
* `FilesOutliveTheirUse`: `Ordered` says that the cache is in the order of use: all
  documents after a file's own have been used since.  So what falls off its end has had
  `MaxEntries` other documents used after it (`AgedOut`, a fact about cardinalities).

The second part is about `Conversation` (`ConversationInit`, `ConversationNext`, ...): for
any profiles, providers, tools, limits and failures, and a history of any length.
`ConversationInv` says of the client's history that the results in each message are those of
the calls in the one before, in their order, and that a user's message is last while a
request is under way (`History`, `TurnOK`); of each call's id, that the client was given it
for the upstream's own (`IdsKnown`); and of what is prepared and posted, that it was made of
that history for the candidate in turn (`PreparedOK`, `SentOK`).  What the four properties
say of a posted request then follows from what was made, without a further invariant:

* `RequestsAreAnswered` (`CallsAnswered`): `Answered` is handed on from the history to the
  pruned, the summarised, the compacted and the translated one.  A cut keeps it because
  `KeepFrom` parts no call from a result that stays (`KeepFromIs`); a summary keeps it but
  for the calls it stands for (`SummedAnswered`); every message's items hold its calls and
  results in their order, by each of the three translations, so that at every place in the
  request at most as many results as calls of an id have gone by (`RequestAnswered`); and
  deduplication refers only to an output before it that is kept in full (`DedupeIs`).
* `NoTextGoesMissing` (`OmissionsTold`) and `NoticesAreRight` (`NoticeCounts`): `Telling`
  says of the messages in the request which of the history's they show, and what a notice
  or a summary at their head says of the others (`BodyTells`).
* `IdsAndNamesReturn` (`RoundTrips`): an id comes back without the prefixes it was given
  (`UpstreamIs`), Anthropic's own are not taken for such (an assumption on `IdPrefixes`;
  theirs begin with `toolu_` and none of the prefixes that `tool_id.rs` adds), and a
  shortened name that the model uses is one that the request's map restores
  (`NameIsRestored`).  `AnswerIs` says it of everything an upstream may answer.

The translations are concatenations of what becomes of each element.  The first lemmas are
about those: `FlattenSeq` of a list of lists is the last of its partial concatenations
(`FlattenIs`), of a concatenation it is the concatenation (`FlattenJoin`), it holds what its
parts hold (`FlattenHolds`), and it commutes with a change of every element
(`FlattenMapped`).  Each induction (`UpTo`) is again one with the least counterexample.

### `LauncherProofs` (with `Login` and `Terminal`)

* `SessionPortNotSaved`, `ClaudeBehindOwnProxy`: `PortInv` and `ConfigInv` follow each
  process from the port it finds to the Claude it starts: whoever listens there is itself,
  or took the port while the process did not hold it.  `ElseInv` says the second of a
  stranger.
* `CredentialsStayWhole`: `FileInv` follows `auth.json` and its temporary name through the
  system calls of a sign-in; as long as no two processes have written at once, the one
  that writes knows what is in the temporary file.
* `ReauthLeavesAnother`: an action property, from `SignInOK`: no pair is known anywhere
  before the issuer has handed it out, so the pair a sign-in is about to write is not the
  one that was there when the user asked for it.

The second part is about `Terminal`, whose definitions have names of their own
(`RelayInit`, `RelayNext`, ...) so that one module can extend both.

* `OutputIsKept`, `SessionIsKnown`: `RelayInv`.  What was printed is on the screen, in
  `line_buf`, in `utf8_residual` or still in the pseudo-terminal, in this order
  (`AllThere`); the screen ends with a line or where a timeout cut one, nothing whole is
  left in `line_buf`, and the session remembered is that of the last offer on the screen
  since (`ScreenOK`).  A read needs to know that a prefix of UTF-8 text decodes up to its
  last whole character and that what is left waits for the rest (`Utf8SafeEnd` and
  `IsUtf8` of a concatenation), and where the last line of a concatenation begins
  (`LinesOf`, `RestOf`).  These are lemmas about sequences; each induction is made with
  the least counterexample, which exists because < is well-founded on the numbers.

### `ConfigFileProofs` (with `Sets`)

* `ProfilesStay`: `AddedStays` is inductive only with what each command knows of the files
  it has read.  `Own(p)` says it, for every place in a command: unless somebody else has
  written the file since p read it, what p is about to write differs from what is in the
  file by p's own change.  A step of another process spares p (`Spares`): it leaves p's
  files alone, or overtakes p and is recorded in `overtaken`.
* `OneProfileSaved`, `MigrationKeeps`: action properties, from `Own` and what `Over`, the
  merge of layers, does to a document: what a load after a save reads (`LoadedAfterSave`),
  which layer a setting comes from (`UppermostRead`), what a change of the profiles leaves
  alone (`ProfilesChanged`, `ChangeUnderEnv`).

The second part is about `Sets` (`SetsInit`, `SetsNext`, ...).

* `NoFileUnrecorded`, `RecordsAreTrue`: both are conjuncts of `SetsInv`, which adds what a
  shell in the middle of a command knows (`ShellOK`).  The lock file it loaded is the one
  there is, but for the sets in `stale`, which somebody saved since (`SeenInTime`): a save
  brings back only their old records, and counts what that loses.  What it has installed
  so far is on disk in the version it is going to record, unless taken (`InstalledTrue`).
  A removal deletes only what its record names, one after the other, and forgets the
  record at the end (`RemovalKnown`).  A step of another shell can touch the same files,
  but not without adding to `strays`, `taken` or `stale`.

### Only model-checked

* Liveness (`EveryRequestSettles`, `LockComesFree`, `Settles`, `PromptShown`,
  `SessionEnds`): fairness and ENABLED are out of the prover's reach.

Every safety property and every action property that a passing run checks is stated by a
theorem.  No module has a `RECURSIVE` operator.

## 6. Where code and documents disagree

Each has a run that ends in a counterexample, and an entry under "findings".

* `health`: README.md:129 says that retryable provider-health failures fail over.  An
  `overloaded_error` event found by the preflight, or a 429 whose retries are used up, is
  returned as `Ok`: the breaker records a success and the backups are not tried, although
  `circuit_decision` calls both retryable.  So is a 5xx of a passthrough provider.
* `launch_print`: with `--print` the error output of Claude is captured, and an empty one,
  which is what success gives, is taken for a failure (`process/launch.rs`:178): a run that
  worked is reported as "claude exited with an error", and what it printed is dropped.
  CONTRIBUTING.md:55 tells contributors to test with exactly such a run.

One disagreement has no run.  README.md:337-338 says that "If an old proxy is alive,
`claudex` may reuse it instead of starting the new binary".  The launcher never does:
`ensure_launcher_proxy` (`lib.rs`:688-700) looks for a free port and starts a proxy of its
own there, every time, whatever else is alive.  What may happen need not, so no
counterexample refutes the sentence; that the code does otherwise is what
`PrivateUnlessPortTaken`, checked in `launch`, and the theorem
`ClaudeBehindOwnProxy` show: Claude is behind a proxy that is not its session's only if
somebody bound the port after it was found.  The comparison of versions that reuse needs,
`probe_proxy_health` (`lib.rs`:702), has no caller.

## 7. Seen while modelling

None of these has a run of its own; the models behave as the code does, and the
properties name the exceptions.

Requests and tokens
* README.md:128 says that deterministic request errors do not poison breakers; content
  that `translate_request` rejects counts as a failure of the provider all the same
  (`handler.rs`:539).
* `oauth/manager.rs`:3 promises that concurrent refreshes are deduplicated.  The lock is
  per profile: two profiles of a session that share a login can post the same refresh
  token, and the issuer refuses the second.
* A 5xx of a translated provider is answered 502, whatever it was (`handler.rs`:786, 416).
* A 401 that arrives late removes a newer token from the cache: `cached_at`, whose comment
  says it is for invalidation, is never read.  The cost is one read of the file.

Streams
* The streamed Chat Completions answer always says `end_turn`, where the one without
  streaming says `tool_use` for calls (`chat_completions_stream.rs`:162,
  `chat_completions.rs`:880).
* Text that is a tool call, when its first delta already ended up in an open text block,
  is sent as text and again as a `tool_use` block that has the text block's index
  (`responses_stream.rs`:450).
* A textual call that a Responses server sends in `done` events alone is sent as a call
  and repeated as a text block; the next message's `output_text.done` then only closes
  that block, and its text is lost (`responses_stream.rs`:443-500).
* A Responses server that sends messages in `output_item.done` alone, as the test
  `test_output_item_done_message_text` (`responses_stream.rs`:1175) does with one: the
  first is sent, and all the others are lost.  `emit_text_block` sets `saw_text_delta`
  (line 923) and nothing resets it for the next message, so the conditions of the two
  fallbacks (lines 489 and 668) do not hold again.  `ContentOnce` excepts these texts by
  name (`Overlooked`); without the exception TLC finds two such messages.
* A Responses server that leaves `output_text.done` out and sends reasoning: the thinking
  block is opened inside the text block.
* In the Chat Completions stream, text held back is flushed without closing a thinking
  block (`chat_completions_stream.rs`:532), and the held-back arguments of a `Read` call
  that is followed by another call, or interrupted by reasoning, are sent to a block
  that is not open.
* Each network chunk is decoded by itself (`responses_stream.rs`:47), so a character cut by
  a chunk boundary is replaced; and everything up to an empty line is taken for one line
  (`chat_completions_stream.rs`:56).

Conversations
* Text and images beside a tool result are dropped on the way to the Responses API
  (`translate/responses.rs`:63), images in or beside one on the way to Chat Completions,
  although README.md:43 says that current images are preserved.
* Compression cuts where it cuts, also between a call and its result; a summarizer that
  answers with an error replaces the history by "[compression failed]".
* `/compact` in block form does not stop auto-compaction (`handler.rs`:1003), whose notice
  is lost when the first message kept is a plain string (`handler.rs`:1033).  A notice
  merged in front of "/compact" hides it from `starts_with` (`handler.rs`:1575), and the
  request is not taken for one to summarise.
* Calls recovered from text all get the id `toolu_call_text_1` and keep shortened names.
* Failover candidates are sent the context that was gathered for the primary.

Sessions and signing in
* A sign-in to an existing profile is never saved (`oauth/providers.rs`:103-109): the
  configuration goes on naming an API key.  That is also why a session's private port
  never reaches the file.
* Without `--force` a sign-in accepts an expired token; `auth.json` keeps the account id of
  the account before; a profile is created before the sign-in that then fails.
* Two sign-ins share port 1455: the second fails after it has opened its page, whose code
  then spoils the first.  A refusal in the browser leaves the program waiting for five
  minutes.  One failed device poll ends the sign-in.
* The temporary name of `auth.json` is one for all processes: two writers can tear it,
  although the comments at `oauth/source.rs`:463 and 488 call the write atomic.
* "proxy failed to start within 2 seconds" (`lib.rs`:678) ends a loop of requests that have
  no time-out and are awaited one by one (line 672): a program that has taken the port,
  accepts the connection and is silent holds the session for as long as it likes.
  `Settles` has that exception; without it TLC finds such a program.
* "Claude Code rejected WebSearch guard args; retrying without them"
  (`process/launch.rs`:174) is decided by words in the whole error output, "unknown",
  "unexpected" or "invalid" and the name of a flag (lines 369-381).  A Claude that has
  carried out its prompt, or part of it, and then fails with such words on the way is
  run again with the same prompt; no property says that it is not.
* A failed bind is only logged, and another session's proxy may then serve this one;
  `proxy stop` ends whichever session started last, and the pid file stays behind.
* `process/launch.rs`:267-269 sets `extra_env` last, so it overrides the compaction
  window that the lines above it force.

Configuration, sets and terminal
* Adding or removing a profile writes the merged layers, the environment's values with
  them, into one file, and drops keys the program does not know, without a backup.
  Migrating a project's file writes every default into it, which then hides the global
  file.  Concurrent saves lose updates.
* A first run's file ignores the environment; two first runs can empty a file the other
  has just saved.  The help names a `config init` that does not exist.
* The clone of a set is a directory named after the last segment of its URL; removing a
  set deletes what another, or the user, has put into the same rule file; updating drops
  components from the record and leaves their files.
* A time-out flushes part of a line, so the resume line printed in two goes is missed
  (`terminal/pty.rs`:143); data with an invalid character is dropped whole; after a hang-up
  there is one more read and no second; a large paste can block relay and child on each
  other, and if a signal cuts a write to the child short the rest of the keystrokes is
  lost (`terminal/pty.rs`:162).

## 8. What is not modelled

* Wording and layout of messages, headers, usage counters, logging, debug dumps; the
  model list and token count endpoints.
* In translation: reasoning and text formats, schemas, prompt cache keys, and `fixers.rs`,
  which mends the JSON of tool arguments character by character.
* In the token manager: the Copilot exchange and the providers whose token is only read
  (no shared state).  There a write of the credential file is one step; `Login` cuts it.
* In the translators: how bytes are cut into characters and lines; a call whose arguments
  are `{}`.
* In the file cache: the hash that makes a key; keys are the members of `Documents`.
* Embedding search (numeric; what it finds is one text of `Conversation`), the model cache
  (`discover_or_cached_models` is called by tests alone, so it stays empty), the shared
  context and the health loop beyond their texts and counters.
* The environment and arguments Claude gets, `auth status` and `logout`, the Copilot and
  GitLab sign-ins (device flows like the one modelled).
* The meaning of single settings, TOML and YAML, `doctor`'s list of findings, commands that
  only show; validation of set manifests.
* Link rewriting and terminal detection (`terminal/osc8.rs`, `detect.rs`): text in, text out.
* Argument parsing, comparison of versions, self-update's download, installers, CI: no
  state and no concurrency.

## 9. How to run

```
tlc -config MCRequestFlow.cfg MCRequestFlow     # and the other MC modules
tlapm RequestFlowProofs.tla                     # and the other *Proofs modules
```

From nothing, a proof module takes one to four minutes, `FileCacheProofs` ten.

The MC modules give the constants that are functions; the configurations give the rest.
