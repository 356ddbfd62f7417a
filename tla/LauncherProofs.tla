--------------------------- MODULE LauncherProofs ---------------------------
(***************************************************************************)
(* Proofs about Launcher, and about Login as it runs there: the types, the *)
(* ports and the proxies behind them, the configuration file, and the      *)
(* credentials file under any number of writers, kills and restarts.  The  *)
(* second part is about Terminal, the relay around a launched session.     *)
(***************************************************************************)
EXTENDS Launcher, Terminal, SequenceTheorems, WellFoundedInduction, TLAPS

Places ==
  {"gone", "check", "checking", "update", "port", "poll", "serve", "health", "ask",
   "login", "source", "bind", "callback", "device", "exchange", "refresh", "refreshing",
   "open", "fill", "rename", "claude", "wait", "read", "running", "remove"}

Backs == {"gone", "check", "claude"}
Pids  == Procs \X Nat
Jobs  == Launchers \cup {"login", "refresh", "proxy", "stop", "status"}

SignIns ==
  [how : Ways, force : BOOLEAN, back : Backs, seen : Contents, listening : BOOLEAN,
   code : Pids \cup {None}, sent : Contents, got : Issues \cup {None}, again : BOOLEAN]
Configs == [auth : {None, "key", "oauth"}, port : Ports \cup {None, "default"}]
Sessions ==
  [job : Jobs \cup {None}, port : Ports \cup {None},
   proxy : {"off", "indexing", "bound", "serving", "failed"}, taken : BOOLEAN,
   guards : BOOLEAN, read : Pids \cup {None}]

ProcessTypes ==
  /\ pc \in [Procs -> Places]
  /\ run \in [Procs -> Nat]
  /\ mem \in [Procs -> Configs]
  /\ lg \in [Procs -> SignIns]
  /\ fd \in [Procs -> {None, "tmp", "auth", "lost"}]
  /\ ss \in [Procs -> Sessions]

SharedTypes ==
  /\ cfg \in Configs
  /\ tabs \subseteq Pids
  /\ issued \in 0..MaxIssued
  /\ auth \in Contents /\ tmp \in Contents
  /\ raced \in BOOLEAN
  /\ pidFile \in Pids \cup {None}
  /\ stranger \in [port : Ports \cup {None}, does : Manners \cup {"answers"}]

TypeOK == ProcessTypes /\ SharedTypes

-----------------------------------------------------------------------------
(* The inductive invariant *)

\* A sign-in that came from a launcher goes back to it.
SigningPlaces ==
  {"login", "source", "bind", "callback", "device", "exchange", "open", "fill", "rename"}

\* The launcher has waited until something answered on its port.
Waited(p) ==
  \/ pc[p] \in {"health", "ask", "claude", "wait"}
  \/ pc[p] \in {"check", "checking", "update"} /\ ss[p].port # None
  \/ lg[p].back # "gone"

Behind(p) == IsLauncher(p) /\ ss[p].port # None /\ (Serving(p) \/ ss[p].taken)

\* Whoever else has bound a launcher's port did so after it was found.
TakenSince(p) ==
  IsLauncher(p) /\ ss[p].port # None =>
    \A q \in Procs \ {p} : Bound(q) /\ ss[q].port = ss[p].port => ss[p].taken

PortOK(p) ==
  /\ TakenSince(p)
  /\ Waited(p) => Behind(p)
  /\ pc[p] = "poll" => IsLauncher(p) /\ ss[p].port # None
  /\ pc[p] = "gone" => ss[p] = NoSession
  /\ ss[p].proxy # "off" => ss[p].port # None
  /\ lg[p].back # "gone" => pc[p] \in SigningPlaces

\* Nor did a program other than claudex find its port before the launcher did.
StrangerSince(p) ==
  IsLauncher(p) /\ ss[p].port # None /\ stranger.port = ss[p].port => ss[p].taken

\* A configuration of which a session has changed the port is never saved.
ConfigOK(p) ==
  /\ pc[p] = "login" => mem[p].auth # None \/ mem[p].port = "default"
  /\ pc[p] = "ask" => mem[p].auth = "oauth"

\* No pair is known before the issuer has handed it out.
Known(content) == content \in Issues => content <= issued

SignInOK(p) ==
  /\ Known(lg[p].seen)
  /\ pc[p] = "ask" \/ lg[p].back # "gone" => (lg[p].force <=> lg[p].seen \in Issues)
  /\ lg[p].back # "gone" => lg[p].how \in {"browser", "device"}
  /\ pc[p] \in {"open", "fill", "rename"} =>
       lg[p].got \in 1..issued /\ lg[p].got # lg[p].seen

\* One writer at a time: the temporary file is its own from the truncation to the
\* rename.
FilesOK ==
  ~raced =>
    /\ auth \in Issues \cup {None}
    /\ \A p \in Procs : pc[p] = "fill" => fd[p] = "tmp" /\ tmp = Empty
    /\ \A p \in Procs : pc[p] = "rename" => tmp = lg[p].got
    /\ \A p, q \in Procs : Writing(p) /\ Writing(q) => p = q

PortInv   == \A p \in Procs : PortOK(p)
ElseInv   == \A p \in Procs : StrangerSince(p)
ConfigInv == cfg.port = "default" /\ \A p \in Procs : ConfigOK(p)
FileInv   == Known(auth) /\ Known(tmp) /\ FilesOK /\ \A p \in Procs : SignInOK(p)

IInv == TypeOK /\ PortInv /\ ElseInv /\ ConfigInv /\ FileInv

-----------------------------------------------------------------------------
(* Types *)

\* Changing a field keeps a sign-in, or a session, one.
LEMMA SignInUpdates ==
  ASSUME NEW s \in SignIns
  PROVE  /\ \A x \in BOOLEAN : /\ [s EXCEPT !.listening = x] \in SignIns
                               /\ [s EXCEPT !.again = x] \in SignIns
         /\ \A x \in Pids : [s EXCEPT !.code = x] \in SignIns
         /\ \A x \in Contents : [s EXCEPT !.sent = x] \in SignIns
         /\ \A x \in Issues : /\ [s EXCEPT !.got = x] \in SignIns
                              /\ [s EXCEPT !.got = x, !.again = TRUE] \in SignIns
         /\ \A x \in Contents, force \in BOOLEAN :
               [s EXCEPT !.seen = x, !.force = force] \in SignIns
         /\ \A how \in Ways, back \in Backs :
               [s EXCEPT !.back = back, !.how = how] \in SignIns
BY DEF SignIns

\* The same for the fields of a session.
LEMMA SessionUpdates ==
  ASSUME NEW s \in Sessions
  PROVE  /\ \A x \in Ports : [s EXCEPT !.port = x, !.proxy = "indexing"] \in Sessions
         /\ \A x \in {"bound", "failed", "serving"} : [s EXCEPT !.proxy = x] \in Sessions
         /\ \A x \in BOOLEAN : [s EXCEPT !.taken = x] \in Sessions
         /\ [s EXCEPT !.guards = FALSE] \in Sessions
         /\ \A x \in Pids : [s EXCEPT !.read = x] \in Sessions
BY DEF Sessions

\* Whoever binds port x marks the sessions that had found it, and no other.
LEMMA Marks ==
  ASSUME NEW s \in Sessions, NEW x
  PROVE  /\ Marked(s, x) \in Sessions
         /\ Marked(s, x).job = s.job /\ Marked(s, x).port = s.port
         /\ Marked(s, x).proxy = s.proxy
         /\ Marked(s, x).taken = (s.taken \/ s.port = x)
         /\ s = NoSession /\ x # None => Marked(s, x) = NoSession
<1>1. Marked(s, x) = [s EXCEPT !.taken = s.taken \/ s.port = x]
  BY DEF Marked
<1>2. ASSUME s = NoSession, x # None
      PROVE  Marked(s, x) = NoSession
  <2>1. s.taken = FALSE /\ s.port # x
    BY <1>2 DEF NoSession
  <2>2. [s EXCEPT !.taken = s.taken] = s
    BY DEF Sessions
  <2> QED
    BY <1>1, <1>2, <2>1, <2>2, Zenon
<1> QED
  BY <1>1, <1>2 DEF Sessions

\* The same in the table of all sign-ins.
LEMMA LoginUpdates ==
  ASSUME lg \in [Procs -> SignIns], NEW p \in Procs
  PROVE  /\ \A x \in BOOLEAN : /\ [lg EXCEPT ![p].listening = x] \in [Procs -> SignIns]
                               /\ [lg EXCEPT ![p].again = x] \in [Procs -> SignIns]
         /\ \A x \in Pids : [lg EXCEPT ![p].code = x] \in [Procs -> SignIns]
         /\ \A x \in Contents : [lg EXCEPT ![p].sent = x] \in [Procs -> SignIns]
         /\ \A x \in Issues : /\ [lg EXCEPT ![p].got = x] \in [Procs -> SignIns]
                              /\ [lg EXCEPT ![p].got = x, ![p].again = TRUE] \in [Procs -> SignIns]
         /\ \A x \in Contents, force \in BOOLEAN :
               [lg EXCEPT ![p].seen = x, ![p].force = force] \in [Procs -> SignIns]
         /\ \A how \in Ways, back \in Backs :
               [lg EXCEPT ![p].back = back, ![p].how = how] \in [Procs -> SignIns]
<1>1. lg[p] \in SignIns
  OBVIOUS
<1> QED
  BY <1>1, SignInUpdates

\* The same in the table of all sessions.
LEMMA SessionsUpdates ==
  ASSUME ss \in [Procs -> Sessions], NEW p \in Procs
  PROVE  /\ \A x \in Ports : [ss EXCEPT ![p].port = x, ![p].proxy = "indexing"] \in [Procs -> Sessions]
         /\ \A x \in {"bound", "failed",
           "serving"} : [ss EXCEPT ![p].proxy = x] \in [Procs -> Sessions]
         /\ [ss EXCEPT ![p].guards = FALSE] \in [Procs -> Sessions]
         /\ \A x \in Pids : [ss EXCEPT ![p].read = x] \in [Procs -> Sessions]
<1>1. ss[p] \in Sessions
  OBVIOUS
<1> QED
  BY <1>1, SessionUpdates

\* Every machine the model starts from is well typed.
LEMMA InitTypes == LauncherInit => TypeOK
<1> USE ProcsAssumption, BeginningsAssumption
<1> SUFFICES ASSUME LauncherInit PROVE TypeOK
  OBVIOUS
<1>1. PICK b \in Beginnings :
        /\ cfg = [auth |-> b[1], port |-> "default"]
        /\ issued = b[2] /\ auth = (IF b[2] = 1 THEN 1 ELSE None)
  BY DEF LauncherInit, LoginInit
<1>2. b[1] \in {None, "key", "oauth"} /\ b[2] \in {0, 1} /\ b[2] <= MaxIssued
  OBVIOUS
<1>3. SharedTypes
  <2>1. cfg \in Configs
    BY <1>1, <1>2 DEF Configs
  <2>2. issued \in 0..MaxIssued /\ auth \in Contents
    BY <1>1, <1>2 DEF Contents, Issues
  <2> QED
    BY <2>1, <2>2 DEF LauncherInit, LoginInit, SharedTypes, Contents, NoStranger
<1>4. ProcessTypes
  BY DEF LauncherInit, LoginInit, ProcessTypes, NoLogin, NoConfig, NoSession, SignIns, Configs,
     Sessions,
         Places, Backs, Ways, Contents
<1> QED
  BY <1>3, <1>4 DEF TypeOK

\* Every step of a sign-in keeps the types.
LEMMA SignInTypes ==
  ASSUME TypeOK, NEW p \in Procs, SigningIn(p)
  PROVE  TypeOK'
<1> USE ProcsAssumption DEF TypeOK, ProcessTypes, SharedTypes, loginVars, issuerVars, fileVars,
  configVars, GoTo, Keep, Places,
   Contents, Issues
<1>1. ss' \in [Procs -> Sessions]
  BY DEF SigningIn, ProxiesEnd, NoSession, Sessions
<1>2. ASSUME NEW place \in Backs, EndAt(p, place)
      PROVE  pc' \in [Procs -> Places] /\ lg' \in [Procs -> SignIns] /\ mem' \in [Procs -> Configs]
  BY <1>2 DEF EndAt, NoLogin, NoConfig, SignIns, Configs, Backs, Ways
<1>3. lg[p].back \in Backs
  BY DEF SignIns
<1>4. ASSUME Fail(p) \/ Succeed(p)
      PROVE  pc' \in [Procs -> Places] /\ lg' \in [Procs -> SignIns] /\ mem' \in [Procs -> Configs]
  BY <1>2, <1>3, <1>4 DEF Fail, Succeed, Backs
<1> USE DEF SigningIn
<1>10. CASE BeginLogin(p)
  BY <1>1, <1>4, <1>10 DEF BeginLogin, EnsureProfile, Configs
<1>11. CASE LoginExternal(p)
  BY <1>1, <1>4, <1>11 DEF LoginExternal
<1>12. CASE UseExisting(p)
  BY <1>1, <1>4, <1>12 DEF UseExisting
<1>13. CASE OpenBrowser(p)
  BY <1>1, <1>4, <1>13 DEF OpenBrowser, SignsIn, Me, Pids
<1>14. CASE RequestDeviceCode(p)
  BY <1>1, <1>4, <1>14 DEF RequestDeviceCode, SignsIn
<1>15. CASE BindCallback(p)
  <2>1. CASE Fail(p)
    BY <1>1, <1>4, <1>15, <2>1 DEF BindCallback
  <2>2. CASE ~Fail(p)
    <3>1. lg' = [lg EXCEPT ![p].listening = TRUE] /\ mem' = mem /\ pc' = [pc EXCEPT ![p] = "callback"]
      BY <1>15, <2>2 DEF BindCallback
    <3>2. lg' \in [Procs -> SignIns]
      BY <3>1, LoginUpdates
    <3> QED
      BY <1>1, <1>15, <3>1, <3>2 DEF BindCallback
  <2> QED
    BY <2>1, <2>2
<1>16. CASE TakeCode(p)
  BY <1>1, <1>4, <1>16, LoginUpdates DEF TakeCode
<1>17. CASE CallbackTimeout(p)
  BY <1>1, <1>4, <1>17 DEF CallbackTimeout
<1>18. CASE DevicePoll(p)
  <2>1. CASE Fail(p)
    BY <1>1, <1>4, <1>18, <2>1 DEF DevicePoll
  <2>2. CASE ~Fail(p)
    <3>1. lg' = [lg EXCEPT ![p].code = Me(p)] /\ mem' = mem /\ pc' = [pc EXCEPT ![p] = "exchange"]
      BY <1>18, <2>2 DEF DevicePoll
    <3>2. lg' \in [Procs -> SignIns]
      BY <3>1, LoginUpdates DEF Me, Pids
    <3> QED
      BY <1>1, <1>18, <3>1, <3>2 DEF DevicePoll
  <2> QED
    BY <2>1, <2>2
<1>19. CASE ExchangeCode(p)
  <2>1. CASE Fail(p)
    BY <1>1, <1>4, <1>19, <2>1 DEF ExchangeCode
  <2>2. CASE ~Fail(p)
    <3>1. /\ lg' = [lg EXCEPT ![p].got = issued + 1] /\ issued + 1 \in Issues /\ issued' = issued + 1
          /\ mem' = mem /\ pc' = [pc EXCEPT ![p] = "open"]
      BY <1>19, <2>2 DEF ExchangeCode
    <3>2. lg' \in [Procs -> SignIns]
      BY <3>1, LoginUpdates
    <3> QED
      BY <1>1, <1>19, <3>1, <3>2 DEF ExchangeCode
  <2> QED
    BY <2>1, <2>2
<1>20. CASE RefreshRead(p)
  <2>1. CASE Fail(p)
    BY <1>1, <1>4, <1>20, <2>1 DEF RefreshRead
  <2>2. CASE ~Fail(p)
    <3>1. /\ lg' = [lg EXCEPT ![p].sent = auth]
          /\ mem' = mem /\ pc' = [pc EXCEPT ![p] = "refreshing"]
      BY <1>20, <2>2 DEF RefreshRead
    <3>2. lg' \in [Procs -> SignIns]
      BY <3>1, LoginUpdates
    <3> QED
      BY <1>1, <1>20, <3>1, <3>2 DEF RefreshRead
  <2> QED
    BY <2>1, <2>2
<1>21. CASE RefreshReply(p)
  <2>1. CASE Fail(p)
    BY <1>1, <1>4, <1>21, <2>1 DEF RefreshReply
  <2>2. CASE ~Fail(p)
    <3>1. /\ lg' = [lg EXCEPT ![p].got = issued + 1, ![p].again = TRUE] /\ issued + 1 \in Issues
          /\ issued' = issued + 1 /\ mem' = mem /\ pc' = [pc EXCEPT ![p] = "open"]
      BY <1>21, <2>2 DEF RefreshReply
    <3>2. lg' \in [Procs -> SignIns]
      BY <3>1, LoginUpdates
    <3> QED
      BY <1>1, <1>21, <3>1, <3>2 DEF RefreshReply
  <2> QED
    BY <2>1, <2>2
<1>22. CASE OpenTmp(p)
  BY <1>1, <1>4, <1>22 DEF OpenTmp
<1>23. CASE Fill(p)
  BY <1>1, <1>4, <1>23 DEF Fill, Laid, SignIns
<1>24. CASE Rename(p)
  <2>1. fd' \in [Procs -> {None, "tmp", "auth", "lost"}] /\ auth' \in Contents /\ tmp' \in Contents
    BY <1>24 DEF Rename, Renamed
  <2>2. CASE Fail(p) \/ Succeed(p)
    BY <1>1, <1>4, <1>24, <2>1, <2>2 DEF Rename
  <2>3. CASE ~(Fail(p) \/ Succeed(p))
    <3>1. lg' = [lg EXCEPT ![p].again = FALSE] /\ mem' = mem /\ pc' = [pc EXCEPT ![p] = "open"]
      BY <1>24, <2>3 DEF Rename
    <3>2. lg' \in [Procs -> SignIns]
      BY <3>1, LoginUpdates
    <3> QED
      BY <1>1, <1>24, <2>1, <3>1, <3>2 DEF Rename
  <2> QED
    BY <2>2, <2>3
<1> QED
  BY <1>10, <1>11, <1>12, <1>13, <1>14, <1>15, <1>16, <1>17, <1>18, <1>19, <1>20, <1>21, <1>22,
     <1>23, <1>24 DEF LoginStep

\* So does the end of a sign-in, wherever it goes back to.
LEMMA EndTypes ==
  ASSUME TypeOK, NEW p \in Procs, NEW place \in Backs, EndAt(p, place)
  PROVE  pc' \in [Procs -> Places] /\ lg' \in [Procs -> SignIns] /\ mem' \in [Procs -> Configs]
BY DEF EndAt, GoTo, NoLogin, NoConfig, SignIns, Configs, Backs, Ways, TypeOK, ProcessTypes,
   SharedTypes,
       Contents, Places

\* A process that ends takes its session with it.
LEMMA ProxiesEndTypes == TypeOK /\ ProxiesEnd => ss' \in [Procs -> Sessions]
BY DEF ProxiesEnd, NoSession, Sessions, TypeOK, ProcessTypes

\* A process that begins well typed leaves all well typed.
LEMMA BeginTypes ==
  ASSUME TypeOK, NEW p \in Procs, NEW session \in Sessions, NEW place \in Places,
         NEW login \in SignIns, Begin(p, session, place, login)
  PROVE  TypeOK'
BY DEF Begin, TypeOK, ProcessTypes, SharedTypes, GoTo, issuerVars, fileVars

\* Whatever the command line says, what begins is well typed.
LEMMA StartTypes ==
  ASSUME TypeOK, NEW p \in Procs, Start(p)
  PROVE  TypeOK'
<1>1. NoLogin \in SignIns
  BY DEF NoLogin, SignIns, Ways, Backs, Contents
<1>2. \A job \in Jobs, guards \in BOOLEAN :
        /\ [NoSession EXCEPT !.job = job] \in Sessions
        /\ [NoSession EXCEPT !.job = job, !.guards = guards] \in Sessions
  BY DEF NoSession, Sessions
<1>3. \A how \in Ways, force \in BOOLEAN :
        /\ [NoLogin EXCEPT !.how = how, !.force = force] \in SignIns
        /\ [NoLogin EXCEPT !.how = how] \in SignIns
  BY DEF NoLogin, SignIns, Backs, Contents
<1>4. CASE StartLauncher(p)
  BY <1>1, <1>2, <1>4, BeginTypes DEF StartLauncher, Jobs, Launchers, Places
<1>5. CASE StartLogin(p)
  BY <1>2, <1>3, <1>5, BeginTypes DEF StartLogin, Jobs, Places
<1>6. CASE StartRefresh(p)
  BY <1>2, <1>3, <1>6, BeginTypes DEF StartRefresh, Jobs, Places, Ways
<1>7. CASE StartCommand(p)
  BY <1>1, <1>2, <1>7, BeginTypes DEF StartCommand, Jobs, Places
<1> QED
  BY <1>4, <1>5, <1>6, <1>7 DEF Start

\* A step that changes no more than where p stands, its sign-in, its
\* configuration and the sessions.
LEMMA StayTypes ==
  ASSUME TypeOK, pc' \in [Procs -> Places], lg' \in [Procs -> SignIns],
         mem' \in [Procs -> Configs], ss' \in [Procs -> Sessions],
         UNCHANGED <<run, cfg, tabs, issuerVars, fileVars, stranger>>,
         pidFile' \in Pids \cup {None}
  PROVE  TypeOK'
BY DEF TypeOK, ProcessTypes, SharedTypes, issuerVars, fileVars

\* Processes that a signal ends leave nothing ill typed.
LEMMA EndedTypes ==
  ASSUME TypeOK, NEW stopped, Ended(stopped), pc' \in [Procs -> Places],
         UNCHANGED <<run, cfg, tabs, issuerVars, auth, tmp, raced, stranger>>,
         pidFile' \in Pids \cup {None}
  PROVE  TypeOK'
<1>1. NoLogin \in SignIns /\ NoConfig \in Configs
  BY DEF NoLogin, NoConfig, SignIns, Configs, Ways, Backs, Contents
<1>2. lg' \in [Procs -> SignIns] /\ mem' \in [Procs -> Configs]
  BY <1>1 DEF Ended, TypeOK, ProcessTypes
<1>3. fd' \in [Procs -> {None, "tmp", "auth", "lost"}]
  BY DEF Ended, TypeOK, ProcessTypes
<1>4. ss' \in [Procs -> Sessions]
  BY ProxiesEndTypes DEF Ended
<1> QED
  BY <1>2, <1>3, <1>4 DEF TypeOK, ProcessTypes, SharedTypes, issuerVars

\* Every step of a launcher, its proxy task or its user, and a kill, keep the
\* types.
LEMMA LauncherTypes ==
  ASSUME TypeOK, NEW p \in Procs, OwnStep(p) \/ ProxyStep(p) \/ UserStep(p) \/ Kill(p),
    ~SigningIn(p)
  PROVE  TypeOK'
<1> DEFINE Typed == pc' \in [Procs -> Places] /\ lg' \in [Procs -> SignIns] /\ mem' \in [Procs -> Configs]
<1>1. ASSUME NEW place \in Places, GoTo(p, place), Keep(p)
      PROVE  Typed
  BY <1>1 DEF TypeOK, ProcessTypes, SharedTypes, GoTo, Keep
<1>2. \A place \in Backs : EndAt(p, place) => Typed
  BY EndTypes
<1>3. ProxiesEnd \/ UNCHANGED launchVars => ss' \in [Procs -> Sessions]
  BY ProxiesEndTypes DEF TypeOK, ProcessTypes, launchVars
<1>4. pidFile' = pidFile => pidFile' \in Pids \cup {None}
  BY DEF TypeOK, SharedTypes
<1>5. ss[p] \in Sessions /\ lg[p] \in SignIns /\ Me(p) \in Pids
  BY DEF TypeOK, ProcessTypes, Me, Pids
<1>6. AfterCheck(p) \in Places /\ AfterHealth(p) \in Places \cap Backs
  BY DEF AfterCheck, AfterHealth, Places, Backs
<1>7. lg \in [Procs -> SignIns] /\ ss \in [Procs -> Sessions]
  BY DEF TypeOK, ProcessTypes
<1>8. Keep(p) => lg' \in [Procs -> SignIns] /\ mem' \in [Procs -> Configs]
  BY DEF Keep, TypeOK, ProcessTypes
<1>9. \A place \in Places : GoTo(p, place) => pc' \in [Procs -> Places]
  BY DEF GoTo, TypeOK, ProcessTypes
<1>10. CASE DueForCheck(p)
  BY <1>1, <1>3, <1>4, <1>6, <1>10, StayTypes DEF DueForCheck, Stays, Keep, launchVars, Places,
     configVars
<1>11. CASE CheckAnswered(p)
  BY <1>1, <1>3, <1>4, <1>6, <1>11, StayTypes DEF CheckAnswered, Stays, Keep, launchVars, Places,
     configVars
<1>12. CASE AnswerUpdate(p)
  BY <1>1, <1>2, <1>3, <1>4, <1>6, <1>12, StayTypes DEF AnswerUpdate, Backs
<1>13. CASE FindPort(p)
  <2>1. PICK x \in Ports :
          /\ ss' = [ss EXCEPT ![p].port = x, ![p].proxy = "indexing"]
          /\ mem' = IF IsLauncher(p) THEN [mem EXCEPT ![p].port = x] ELSE mem
    BY <1>13 DEF FindPort
  <2>2. mem' \in [Procs -> Configs]
    BY <2>1 DEF TypeOK, ProcessTypes, Configs
  <2>3. pc' \in [Procs -> Places]
    BY <1>9, <1>13 DEF FindPort, Places
  <2> QED
    BY <1>4, <1>7, <1>13, <2>1, <2>2, <2>3, SessionsUpdates, StayTypes DEF FindPort
<1>14. CASE BindProxy(p)
  <2>1. [ss[p] EXCEPT !.proxy = "bound"] \in Sessions
    BY <1>5, SessionUpdates
  <2>2. ss' \in [Procs -> Sessions]
    BY <1>7, <1>14, <2>1, Marks DEF BindProxy
  <2> QED
    BY <2>2, <1>4, <1>14, StayTypes DEF BindProxy, Stays, TypeOK, ProcessTypes, configVars
<1>15. CASE ProxyFails(p)
  <2>1. CASE Fail(p) /\ ProxiesEnd
    BY <1>2, <1>3, <1>4, <1>15, <2>1, StayTypes DEF ProxyFails, Fail, Backs
  <2>2. CASE ss' = [ss EXCEPT ![p].proxy = "failed"] /\ UNCHANGED pc /\ Keep(p)
    BY <1>4, <1>7, <1>8, <1>15, <2>2, SessionsUpdates, StayTypes DEF ProxyFails, TypeOK, ProcessTypes
  <2> QED
    BY <1>15, <2>1, <2>2 DEF ProxyFails
<1>16. CASE WritePid(p) /\ ~ProxyFails(p)
  BY <1>5, <1>16, SessionUpdates, StayTypes DEF WritePid, Stays, TypeOK, ProcessTypes, configVars
<1>17. CASE Poll(p)
  BY <1>1, <1>2, <1>3, <1>4, <1>17, StayTypes DEF Poll, Fail, Places, Backs
<1>28. CASE NoPortLeft(p)
  BY <1>2, <1>3, <1>4, <1>28, StayTypes DEF NoPortLeft, Fail, Backs
<1>18. CASE CheckHealth(p)
  <2>1. CASE Fail(p)
    BY <1>2, <1>3, <1>4, <1>18, <2>1, StayTypes DEF CheckHealth, Fail, Backs
  <2>2. CASE GoTo(p, AfterHealth(p)) /\ Keep(p)
    BY <1>1, <1>3, <1>4, <1>6, <1>18, <2>2, StayTypes DEF CheckHealth
  <2>3. CASE /\ lg' = [lg EXCEPT ![p].seen = auth, ![p].force = ForceLogin(auth)]
             /\ GoTo(p, "ask") /\ UNCHANGED mem
    <3>1. ForceLogin(auth) \in BOOLEAN /\ auth \in Contents
      BY DEF ForceLogin, TypeOK, SharedTypes
    <3>2. lg' \in [Procs -> SignIns]
      BY <1>7, <2>3, <3>1, LoginUpdates
    <3>3. pc' \in [Procs -> Places] /\ mem' \in [Procs -> Configs]
      BY <1>9, <2>3 DEF Places, TypeOK, ProcessTypes
    <3> QED
      BY <1>3, <1>4, <1>18, <3>2, <3>3, StayTypes DEF CheckHealth
  <2> QED
    BY <1>18, <2>1, <2>2, <2>3 DEF CheckHealth
<1>19. CASE AnswerAsk(p)
  <2>1. CASE EndAt(p, AfterHealth(p))
    BY <1>2, <1>3, <1>4, <1>6, <1>19, <2>1, StayTypes DEF AnswerAsk, launchVars
  <2>2. ASSUME NEW how \in {"browser", "device"},
               lg' = [lg EXCEPT ![p].back = AfterHealth(p), ![p].how = how],
               GoTo(p, "login"), UNCHANGED mem
        PROVE  TypeOK'
    <3>1. lg' \in [Procs -> SignIns]
      BY <1>6, <1>7, <2>2, LoginUpdates DEF Ways
    <3>2. pc' \in [Procs -> Places] /\ mem' \in [Procs -> Configs]
      BY <1>9, <2>2 DEF Places, TypeOK, ProcessTypes
    <3> QED
      BY <1>3, <1>4, <1>19, <3>1, <3>2, StayTypes DEF AnswerAsk, launchVars
  <2> QED
    BY <1>19, <2>1, <2>2 DEF AnswerAsk
<1>20. CASE StartClaude(p)
  BY <1>1, <1>3, <1>4, <1>20, StayTypes DEF StartClaude, Stays, Keep, launchVars, Places, configVars
<1>21. CASE RetryClaude(p)
  <2>1. ss' = [ss EXCEPT ![p].guards = FALSE]
    BY <1>21 DEF RetryClaude
  <2>2. ss' \in [Procs -> Sessions]
    BY <1>7, <2>1, SessionsUpdates
  <2> QED
    BY <1>1, <1>4, <1>21, <2>2, StayTypes DEF RetryClaude, Stays, Keep, Places, configVars
<1>22. CASE ClaudeEnds(p)
  BY <1>2, <1>3, <1>4, <1>22, StayTypes DEF ClaudeEnds, Backs
<1>23. CASE ReadPid(p)
  <2>1. CASE Fail(p) /\ ProxiesEnd
    BY <1>2, <1>3, <1>4, <1>23, <2>1, StayTypes DEF ReadPid, Fail, Backs
  <2>2. CASE pidFile # None /\ ss' = [ss EXCEPT ![p].read = pidFile] /\ GoTo(p, "running") /\ Keep(p)
    <3>1. ss' \in [Procs -> Sessions]
      BY <1>7, <2>2, SessionsUpdates DEF TypeOK, SharedTypes
    <3> QED
      BY <1>1, <1>4, <1>23, <2>2, <3>1, StayTypes DEF ReadPid, Places
  <2> QED
    BY <1>23, <2>1, <2>2 DEF ReadPid
<1>24. CASE StopProxy(p)
  <2>1. PICK stopped : Ended(stopped) /\ pc' = [q \in Procs |-> IF q = p THEN "remove"
                                   ELSE IF q \in stopped THEN "gone" ELSE pc[q]]
    BY <1>24 DEF StopProxy
  <2>2. pc' \in [Procs -> Places]
    BY <2>1 DEF TypeOK, ProcessTypes, Places
  <2> QED
    BY <1>24, <2>1, <2>2, EndedTypes DEF StopProxy, TypeOK, SharedTypes
<1>25. CASE ProxyStatus(p)
  BY <1>1, <1>2, <1>3, <1>4, <1>25, StayTypes DEF ProxyStatus, Fail, Places, Backs
<1>26. CASE RemovePid(p)
  BY <1>2, <1>3, <1>26, StayTypes DEF RemovePid, Backs
<1>27. CASE Kill(p)
  <2>1. pc' \in [Procs -> Places]
    BY <1>9, <1>27 DEF Kill, Places
  <2> QED
    BY <1>27, <2>1, EndedTypes DEF Kill, TypeOK, SharedTypes
<1> QED
  BY <1>10, <1>11, <1>12, <1>13, <1>14, <1>15, <1>16, <1>17, <1>18, <1>19, <1>20, <1>21, <1>22,
     <1>23,
     <1>24, <1>25, <1>26, <1>27, <1>28 DEF OwnStep, ProxyStep, BindFails, UserStep

\* The user's approval keeps the types.
LEMMA ApproveTypes == TypeOK /\ UserApproves => TypeOK'
<1> SUFFICES ASSUME TypeOK, NEW page \in tabs, Approve(page), UNCHANGED launchVars PROVE TypeOK'
  BY DEF UserApproves
<1>1. page \in Pids /\ \A p \in Procs : lg[p] \in SignIns
  BY DEF TypeOK, ProcessTypes, SharedTypes
<1>2. \A p \in Procs : [lg[p] EXCEPT !.code = page] \in SignIns
  BY <1>1, SignInUpdates
<1>3. lg' \in [Procs -> SignIns]
  BY <1>1, <1>2 DEF Approve
<1>4. tabs' \subseteq Pids
  BY DEF Approve, TypeOK, SharedTypes
<1> QED
  BY <1>3, <1>4 DEF Approve, TypeOK, ProcessTypes, SharedTypes, configVars, issuerVars, fileVars,
     launchVars

\* Every step of the specification keeps the types.
LEMMA TypesKept == TypeOK /\ [Next]_vars => TypeOK'
<1> SUFFICES ASSUME TypeOK, [Next]_vars PROVE TypeOK'
  OBVIOUS
<1>1. ASSUME NEW p \in Procs, Start(p) \/ OwnStep(p) \/ ProxyStep(p) \/ UserStep(p) \/ Kill(p)
      PROVE  TypeOK'
  BY <1>1, StartTypes, SignInTypes, LauncherTypes
<1>2. CASE UserApproves
  BY <1>2, ApproveTypes
<1>3. CASE TimePasses \/ StrangerEnds \/ UNCHANGED vars
  BY <1>3 DEF TimePasses, StrangerEnds, NoStranger, vars, loginVars, launchVars, configVars,
     issuerVars, fileVars, TypeOK, ProcessTypes, SharedTypes
<1>4. CASE StrangerBinds
  <2>1. PICK p \in Procs, manner \in Manners :
          /\ stranger' = [port |-> ss[p].port, does |-> manner]
          /\ ss' = [q \in Procs |-> Marked(ss[q], ss[p].port)]
    BY <1>4 DEF StrangerBinds
  <2>2. ss[p].port \in Ports \cup {None} /\ ss' \in [Procs -> Sessions]
    BY <2>1, Marks DEF TypeOK, ProcessTypes, Sessions
  <2> QED
    BY <1>4, <2>1, <2>2 DEF StrangerBinds, loginVars, configVars, issuerVars, fileVars, TypeOK,
       ProcessTypes, SharedTypes
<1> QED
  BY <1>1, <1>2, <1>3, <1>4 DEF Next

-----------------------------------------------------------------------------
(* What a process's step leaves alone *)

OthersStay(p) ==
  \A q \in Procs \ {p} :
    pc'[q] = pc[q] /\ lg'[q] = lg[q] /\ mem'[q] = mem[q] /\ ss'[q] = ss[q]

\* A process that stays where it is keeps its session.
LEMMA SessionsEnd ==
  ASSUME TypeOK, PortInv, NEW q \in Procs, pc'[q] = pc[q],
         ProxiesEnd \/ UNCHANGED launchVars \/ ss' = ss
  PROVE  ss'[q] = ss[q]
BY DEF ProxiesEnd, PortInv, PortOK, launchVars, TypeOK, ProcessTypes

\* What the end of a sign-in does to its process, and that it does nothing to
\* others.
LEMMA EndMoves ==
  ASSUME TypeOK, NEW p \in Procs, NEW place, EndAt(p, place)
  PROVE  /\ pc'[p] = place /\ lg'[p] = NoLogin
         /\ mem'[p] = IF place = "gone" THEN NoConfig ELSE mem[p]
         /\ \A q \in Procs \ {p} : pc'[q] = pc[q] /\ lg'[q] = lg[q] /\ mem'[q] = mem[q]
BY DEF EndAt, GoTo, TypeOK, ProcessTypes

\* The same for a step from one place to another.
LEMMA GoMoves ==
  ASSUME TypeOK, NEW p \in Procs, NEW place, GoTo(p, place)
  PROVE  /\ pc'[p] = place
         /\ \A q \in Procs \ {p} : pc'[q] = pc[q]
BY DEF GoTo, TypeOK, ProcessTypes

\* Every step of a sign-in ends the process, goes back to where it came from,
\* or goes on.
SigningOn(p) ==
  /\ pc'[p] \in SigningPlaces \ {"login"} \/ (pc[p] = "refresh" /\ pc'[p] = "refreshing")
  /\ lg'[p].back = lg[p].back /\ lg'[p].how = lg[p].how
  /\ lg'[p].force = lg[p].force /\ lg'[p].seen = lg[p].seen

\* One of these three is what each step of a sign-in does.
LEMMA SigningMoves ==
  ASSUME TypeOK, NEW p \in Procs, SigningIn(p)
  PROVE  /\ Fail(p) \/ Succeed(p) \/ SigningOn(p)
         /\ \A q \in Procs \ {p} : pc'[q] = pc[q] /\ lg'[q] = lg[q] /\ mem'[q] = mem[q]
<1> DEFINE Others == \A q \in Procs \ {p} : pc'[q] = pc[q] /\ lg'[q] = lg[q] /\ mem'[q] = mem[q]
<1>1. Fail(p) \/ Succeed(p) => Others
  BY EndMoves DEF Fail, Succeed
<1> HIDE DEF Others
<1>2. pc \in [Procs -> Places] /\ lg \in [Procs -> SignIns] /\ mem \in [Procs -> Configs]
  BY DEF TypeOK, ProcessTypes
<1>3. lg[p] \in SignIns
  BY <1>2
<1>10. CASE BeginLogin(p)
  <2>1. CASE Fail(p) \/ Succeed(p)
    BY <1>1, <2>1 DEF Others
  <2>2. CASE ~(Fail(p) \/ Succeed(p))
    BY <1>2, <1>3, <1>10, <2>2 DEF BeginLogin, SigningOn, SigningPlaces, GoTo, Keep, configVars,
       Others, SignIns, EnsureProfile
  <2> QED
    BY <2>1, <2>2
<1>11. CASE LoginExternal(p)
  BY <1>1, <1>11 DEF LoginExternal, Others
<1>12. CASE UseExisting(p)
  BY <1>1, <1>12 DEF UseExisting, Others
<1>13. CASE OpenBrowser(p)
  <2>1. CASE Fail(p) \/ Succeed(p)
    BY <1>1, <2>1 DEF Others
  <2>2. CASE ~(Fail(p) \/ Succeed(p))
    BY <1>2, <1>3, <1>13, <2>2 DEF OpenBrowser, SigningOn, SigningPlaces, GoTo, Keep, configVars,
       Others, SignIns
  <2> QED
    BY <2>1, <2>2
<1>14. CASE RequestDeviceCode(p)
  <2>1. CASE Fail(p) \/ Succeed(p)
    BY <1>1, <2>1 DEF Others
  <2>2. CASE ~(Fail(p) \/ Succeed(p))
    BY <1>2, <1>3, <1>14, <2>2 DEF RequestDeviceCode, SigningOn, SigningPlaces, GoTo, Keep,
       configVars, Others, SignIns
  <2> QED
    BY <2>1, <2>2
<1>15. CASE BindCallback(p)
  <2>1. CASE Fail(p) \/ Succeed(p)
    BY <1>1, <2>1 DEF Others
  <2>2. CASE ~(Fail(p) \/ Succeed(p))
    BY <1>2, <1>3, <1>15, <2>2 DEF BindCallback, SigningOn, SigningPlaces, GoTo, Keep,
       configVars, Others, SignIns
  <2> QED
    BY <2>1, <2>2
<1>16. CASE TakeCode(p)
  <2>1. CASE Fail(p) \/ Succeed(p)
    BY <1>1, <2>1 DEF Others
  <2>2. CASE ~(Fail(p) \/ Succeed(p))
    BY <1>2, <1>3, <1>16, <2>2 DEF TakeCode, SigningOn, SigningPlaces, GoTo, Keep, configVars,
       Others, SignIns
  <2> QED
    BY <2>1, <2>2
<1>17. CASE CallbackTimeout(p)
  BY <1>1, <1>17 DEF CallbackTimeout, Others
<1>18. CASE DevicePoll(p)
  <2>1. CASE Fail(p) \/ Succeed(p)
    BY <1>1, <2>1 DEF Others
  <2>2. CASE ~(Fail(p) \/ Succeed(p))
    BY <1>2, <1>3, <1>18, <2>2 DEF DevicePoll, SigningOn, SigningPlaces, GoTo, Keep, configVars,
       Others, SignIns
  <2> QED
    BY <2>1, <2>2
<1>19. CASE ExchangeCode(p)
  <2>1. CASE Fail(p) \/ Succeed(p)
    BY <1>1, <2>1 DEF Others
  <2>2. CASE ~(Fail(p) \/ Succeed(p))
    BY <1>2, <1>3, <1>19, <2>2 DEF ExchangeCode, SigningOn, SigningPlaces, GoTo, Keep,
       configVars, Others, SignIns
  <2> QED
    BY <2>1, <2>2
<1>20. CASE RefreshRead(p)
  <2>1. CASE Fail(p) \/ Succeed(p)
    BY <1>1, <2>1 DEF Others
  <2>2. CASE ~(Fail(p) \/ Succeed(p))
    BY <1>2, <1>3, <1>20, <2>2 DEF RefreshRead, SigningOn, SigningPlaces, GoTo, Keep, configVars,
       Others, SignIns
  <2> QED
    BY <2>1, <2>2
<1>21. CASE RefreshReply(p)
  <2>1. CASE Fail(p) \/ Succeed(p)
    BY <1>1, <2>1 DEF Others
  <2>2. CASE ~(Fail(p) \/ Succeed(p))
    BY <1>2, <1>3, <1>21, <2>2 DEF RefreshReply, SigningOn, SigningPlaces, GoTo, Keep,
       configVars, Others, SignIns
  <2> QED
    BY <2>1, <2>2
<1>22. CASE OpenTmp(p)
  <2>1. CASE Fail(p) \/ Succeed(p)
    BY <1>1, <2>1 DEF Others
  <2>2. CASE ~(Fail(p) \/ Succeed(p))
    BY <1>2, <1>3, <1>22, <2>2 DEF OpenTmp, SigningOn, SigningPlaces, GoTo, Keep, configVars,
       Others, SignIns
  <2> QED
    BY <2>1, <2>2
<1>23. CASE Fill(p)
  <2>1. CASE Fail(p) \/ Succeed(p)
    BY <1>1, <2>1 DEF Others
  <2>2. CASE ~(Fail(p) \/ Succeed(p))
    BY <1>2, <1>3, <1>23, <2>2 DEF Fill, SigningOn, SigningPlaces, GoTo, Keep, configVars,
       Others, SignIns
  <2> QED
    BY <2>1, <2>2
<1>24. CASE Rename(p)
  <2>1. CASE Fail(p) \/ Succeed(p)
    BY <1>1, <2>1 DEF Others
  <2>2. CASE ~(Fail(p) \/ Succeed(p))
    BY <1>2, <1>3, <1>24, <2>2 DEF Rename, SigningOn, SigningPlaces, GoTo, Keep, configVars,
       Others, SignIns
  <2> QED
    BY <2>1, <2>2
<1> QED
  BY <1>10, <1>11, <1>12, <1>13, <1>14, <1>15, <1>16, <1>17, <1>18, <1>19, <1>20, <1>21, <1>22,
     <1>23, <1>24 DEF SigningIn, LoginStep, Others

-----------------------------------------------------------------------------
(* Ports and the proxies behind them *)

\* A step in which only p moves, and no port is bound, keeps what is true of the
\* ports of the others.
LEMMA PortsElsewhere ==
  ASSUME TypeOK, PortInv, NEW p \in Procs, OthersStay(p), PortOK(p)',
         Bound(p)' => Bound(p) /\ ss'[p].port = ss[p].port
  PROVE  PortInv'
<1>1. ASSUME NEW q \in Procs \ {p}
      PROVE  PortOK(q)'
  <2>1. pc'[q] = pc[q] /\ lg'[q] = lg[q] /\ ss'[q] = ss[q] /\ PortOK(q)
    BY DEF OthersStay, PortInv
  <2>2. ASSUME NEW r \in Procs \ {q}, Bound(r)'
        PROVE  Bound(r) /\ ss'[r].port = ss[r].port
    BY <2>2 DEF OthersStay, Bound
  <2>3. TakenSince(q)'
    BY <2>1, <2>2 DEF PortOK, TakenSince, IsLauncher
  <2> QED
    BY <2>1, <2>3 DEF PortOK, Waited, Behind, IsLauncher, Serving
<1> QED
  BY <1>1 DEF PortInv

\* The end of a process keeps what is true of the ports.
LEMMA PortsEnd ==
  ASSUME TypeOK, PortInv, NEW p \in Procs, OthersStay(p), pc'[p] = "gone",
         ss'[p] = NoSession, lg'[p].back = "gone"
  PROVE  PortInv'
<1>1. ~Bound(p)'
  BY DEF Bound, NoSession
<1>2. PortOK(p)'
  BY DEF PortOK, TakenSince, IsLauncher, Launchers, Waited, NoSession
<1> QED
  BY <1>1, <1>2, PortsElsewhere

\* A step of p that leaves its session as it is.
LEMMA PortsMove ==
  ASSUME TypeOK, PortInv, NEW p \in Procs, OthersStay(p), ss'[p] = ss[p],
         Waited(p)' => Waited(p),
         pc'[p] \in {"poll", "gone"} => pc[p] = pc'[p],
         lg'[p].back # "gone" => pc'[p] \in SigningPlaces
  PROVE  PortInv'
<1>1. PortOK(p)
  BY DEF PortInv
<1>2. TakenSince(p)'
  BY <1>1 DEF PortOK, TakenSince, OthersStay, IsLauncher, Bound
<1>3. PortOK(p)'
  BY <1>1, <1>2 DEF PortOK, Behind, IsLauncher, Serving
<1> QED
  BY <1>3, PortsElsewhere DEF Bound

\* Every step of a sign-in keeps what is true of the ports: it comes back to a
\* launcher that has waited.
LEMMA PortsSignIn ==
  ASSUME TypeOK, PortInv, NEW p \in Procs, SigningIn(p)
  PROVE  PortInv'
<1>1. \A q \in Procs : pc'[q] = pc[q] => ss'[q] = ss[q]
  BY SessionsEnd DEF SigningIn
<1>2. OthersStay(p)
  BY <1>1, SigningMoves DEF OthersStay
<1>3. PortOK(p) /\ lg[p].back \in Backs
  BY DEF PortInv, TypeOK, ProcessTypes, SignIns
<1>4. ss'[p] = IF pc'[p] = "gone" THEN NoSession ELSE ss[p]
  BY DEF SigningIn, ProxiesEnd, TypeOK, ProcessTypes
<1>5. ASSUME NEW place \in Backs, EndAt(p, place), place = "gone" \/ place = lg[p].back
      PROVE  PortInv'
  <2>1. pc'[p] = place /\ lg'[p].back = "gone"
    BY <1>5, EndMoves DEF NoLogin
  <2>2. CASE place = "gone"
    BY <1>2, <1>4, <2>1, <2>2, PortsEnd
  <2>3. CASE place # "gone"
    <3>1. Waited(p) /\ ss'[p] = ss[p]
      BY <1>4, <1>5, <2>1, <2>3 DEF Waited
    <3> QED
      BY <1>2, <2>1, <2>3, <3>1, PortsMove DEF Backs
  <2> QED
    BY <2>2, <2>3
<1>6. CASE Fail(p) \/ Succeed(p)
  BY <1>3, <1>5, <1>6 DEF Fail, Succeed, Backs
<1>7. CASE SigningOn(p)
  <2>1. ss'[p] = ss[p]
    BY <1>4, <1>7 DEF SigningOn, SigningPlaces
  <2>2. (Waited(p)' => Waited(p)) /\ pc'[p] \notin {"poll", "gone"}
    BY <1>7 DEF Waited, SigningOn, SigningPlaces
  <2>3. lg'[p].back # "gone" => pc'[p] \in SigningPlaces
    BY <1>3, <1>7 DEF SigningOn, PortOK, SigningPlaces
  <2> QED
    BY <1>2, <2>1, <2>2, <2>3, PortsMove
<1> QED
  BY <1>6, <1>7, SigningMoves

\* How a process begins.
Beginning(p, session, place, login) ==
  /\ Begin(p, session, place, login)
  /\ session.port = None /\ session.proxy = "off"
  /\ login.back = "gone" /\ login.seen = None
  /\ place \in {"check", "port", "login", "refresh", "read"}

\* Every start of a process is one of these.
LEMMA StartBegins ==
  ASSUME NEW p \in Procs, Start(p)
  PROVE  \E session, place, login : Beginning(p, session, place, login)
<1> DEFINE Begun == \E session, place, login : Beginning(p, session, place, login)
<1>1. ASSUME NEW session, NEW place \in {"check", "port", "login", "refresh", "read"}, NEW login,
             Begin(p, session, place, login), session.port = None, session.proxy = "off",
             login.back = "gone", login.seen = None
      PROVE  Begun
  BY <1>1 DEF Beginning
<1> SUFFICES Begun
  OBVIOUS
<1> HIDE DEF Begun
<1>2. NoLogin.back = "gone" /\ NoLogin.seen = None
  BY DEF NoLogin
<1>3. ASSUME NEW job, NEW place \in {"check", "port", "login", "refresh", "read"}, NEW login,
             Begin(p, [NoSession EXCEPT !.job = job], place, login),
             login.back = "gone", login.seen = None
      PROVE  Begun
  <2> DEFINE session == [NoSession EXCEPT !.job = job]
  <2>1. session.port = None /\ session.proxy = "off"
    BY DEF NoSession
  <2>2. Begin(p, session, place, login)
    BY <1>3
  <2> HIDE DEF session
  <2> QED
    BY <1>1, <1>3, <2>1, <2>2
<1>4. CASE StartLauncher(p)
  <2>1. CASE \E kind \in {"launch", "run"} :
               Begin(p, [NoSession EXCEPT !.job = kind], "check", NoLogin)
    <3>1. PICK kind \in {"launch", "run"} :
            Begin(p, [NoSession EXCEPT !.job = kind], "check", NoLogin)
      BY <2>1
    <3> QED
      BY <1>2, <1>3, <3>1
  <2>2. CASE \E guards \in BOOLEAN :
               Begin(p, [NoSession EXCEPT !.job = "print", !.guards = guards], "port", NoLogin)
    <3>1. PICK guards \in BOOLEAN :
            Begin(p, [NoSession EXCEPT !.job = "print", !.guards = guards], "port", NoLogin)
      BY <2>2
    <3> DEFINE session == [NoSession EXCEPT !.job = "print", !.guards = guards]
    <3>2. session.port = None /\ session.proxy = "off"
      BY DEF NoSession
    <3>3. Begin(p, session, "port", NoLogin)
      BY <3>1
    <3> HIDE DEF session
    <3> QED
      BY <1>1, <1>2, <3>2, <3>3
  <2> QED
    BY <1>4, <2>1, <2>2 DEF StartLauncher
<1>5. CASE StartLogin(p)
  <2>1. PICK how \in Ways, force \in BOOLEAN :
          Begin(p, [NoSession EXCEPT !.job = "login"], "login",
                [NoLogin EXCEPT !.how = how, !.force = force])
    BY <1>5 DEF StartLogin
  <2> DEFINE login == [NoLogin EXCEPT !.how = how, !.force = force]
  <2>2. login.back = "gone" /\ login.seen = None
    BY DEF NoLogin
  <2>3. Begin(p, [NoSession EXCEPT !.job = "login"], "login", login)
    BY <2>1
  <2> HIDE DEF login
  <2> QED
    BY <1>3, <2>2, <2>3
<1>6. CASE StartRefresh(p)
  <2>1. PICK how \in {"external", "browser"} :
          Begin(p, [NoSession EXCEPT !.job = "refresh"], "refresh", [NoLogin EXCEPT !.how = how])
    BY <1>6 DEF StartRefresh
  <2> DEFINE login == [NoLogin EXCEPT !.how = how]
  <2>2. login.back = "gone" /\ login.seen = None
    BY DEF NoLogin
  <2>3. Begin(p, [NoSession EXCEPT !.job = "refresh"], "refresh", login)
    BY <2>1
  <2> HIDE DEF login
  <2> QED
    BY <1>3, <2>2, <2>3
<1>7. CASE StartCommand(p)
  <2>1. PICK job \in {"proxy", "stop", "status"}, place \in {"port", "read"} :
          Begin(p, [NoSession EXCEPT !.job = job], place, NoLogin)
    BY <1>7 DEF StartCommand
  <2> QED
    BY <1>2, <1>3, <2>1
<1> QED
  BY <1>4, <1>5, <1>6, <1>7 DEF Start

\* What a start does to its slot, and that it does nothing to others.
LEMMA BeginMoves ==
  ASSUME TypeOK, NEW p \in Procs, NEW session, NEW place, NEW login,
         Begin(p, session, place, login)
  PROVE  /\ pc'[p] = place /\ ss'[p] = session /\ lg'[p] = login /\ mem'[p] = cfg
         /\ OthersStay(p)
BY DEF Begin, GoTo, OthersStay, TypeOK, ProcessTypes

\* A start keeps what is true of the ports: it has none yet.
LEMMA PortsStart ==
  ASSUME TypeOK, PortInv, NEW p \in Procs, Start(p)
  PROVE  PortInv'
<1>1. PICK session, place, login : Beginning(p, session, place, login)
  BY StartBegins
<1>2. pc'[p] = place /\ ss'[p] = session /\ lg'[p] = login /\ OthersStay(p)
  BY <1>1, BeginMoves DEF Beginning
<1>3. PortOK(p)' /\ ~Bound(p)'
  BY <1>1, <1>2 DEF Beginning, PortOK, TakenSince, Waited, Bound
<1> QED
  BY <1>2, <1>3, PortsElsewhere

\* A launcher's, a management command's and the user's steps, and a kill, keep what
\* is true of the ports.
LEMMA PortsOwn ==
  ASSUME TypeOK, PortInv, ElseInv, NEW p \in Procs, OwnStep(p) \/ UserStep(p) \/ Kill(p),
         ~SigningIn(p)
  PROVE  PortInv'
<1>1. PortOK(p) /\ ss[p] \in Sessions /\ lg[p] \in SignIns
  BY DEF PortInv, TypeOK, ProcessTypes
<1>2. ASSUME \A q \in Procs \ {p} : pc'[q] = pc[q] /\ lg'[q] = lg[q] /\ mem'[q] = mem[q],
             ProxiesEnd \/ UNCHANGED launchVars
      PROVE  OthersStay(p)
  BY <1>2, SessionsEnd DEF OthersStay
<1>3. ASSUME EndAt(p, "gone"), ProxiesEnd
      PROVE  PortInv'
  <2>1. pc'[p] = "gone" /\ lg'[p] = NoLogin /\ OthersStay(p)
    BY <1>2, <1>3, EndMoves
  <2>2. ss'[p] = NoSession /\ NoLogin.back = "gone"
    BY <1>3, <2>1 DEF ProxiesEnd, TypeOK, ProcessTypes, NoLogin
  <2> QED
    BY <2>1, <2>2, PortsEnd
<1>4. ASSUME NEW place \in Places, GoTo(p, place), Keep(p), ProxiesEnd \/ UNCHANGED launchVars,
  place # "gone"
      PROVE  pc'[p] = place /\ lg' = lg /\ ss'[p] = ss[p] /\ OthersStay(p)
  BY <1>2, <1>4, GoMoves DEF Keep, ProxiesEnd, launchVars, TypeOK, ProcessTypes
<1>5. AfterCheck(p) \in Places \ {"gone", "poll"} /\ AfterHealth(p) \in {"check", "claude"}
  BY DEF AfterCheck, AfterHealth, Places
<1>10. CASE DueForCheck(p) \/ CheckAnswered(p) \/ (AnswerUpdate(p) /\ GoTo(p, AfterCheck(p)) /\ Keep(p))
  <2>1. lg' = lg /\ ss'[p] = ss[p] /\ OthersStay(p) /\ pc'[p] \in {"checking", "update",
    AfterCheck(p)}
    BY <1>4, <1>5, <1>10 DEF DueForCheck, CheckAnswered, AnswerUpdate, Stays, Keep, configVars,
       Places
  <2>2. pc[p] \in {"check", "checking", "update"}
    BY <1>10 DEF DueForCheck, CheckAnswered, AnswerUpdate
  <2>3. (Waited(p)' => Waited(p)) /\ lg[p].back = "gone"
    BY <1>1, <2>1, <2>2 DEF Waited, AfterCheck, PortOK, SigningPlaces
  <2> QED
    BY <1>5, <2>1, <2>2, <2>3, PortsMove
<1>11. CASE AnswerUpdate(p) /\ EndAt(p, "gone")
  BY <1>3, <1>11 DEF AnswerUpdate
<1>12. CASE FindPort(p)
  <2>1. PICK x \in Ports :
          /\ IsLauncher(p) => ~InUse(x)
          /\ ss' = [ss EXCEPT ![p].port = x, ![p].proxy = "indexing"]
          /\ mem' = IF IsLauncher(p) THEN [mem EXCEPT ![p].port = x] ELSE mem
    BY <1>12 DEF FindPort
  <2>2. OthersStay(p)
    BY <1>12, <2>1, GoMoves DEF FindPort, OthersStay, TypeOK, ProcessTypes
  <2>3. ss'[p].port = x /\ ss'[p].proxy = "indexing" /\ ss'[p].job = ss[p].job
    BY <2>1 DEF TypeOK, ProcessTypes, Sessions
  <2>4. TakenSince(p)'
    BY <2>1, <2>2, <2>3 DEF TakenSince, OthersStay, IsLauncher, Bound, InUse
  <2>5. lg'[p] = lg[p] /\ lg[p].back = "gone" /\ pc'[p] = IF IsLauncher(p) THEN "poll" ELSE "serve"
    BY <1>1, <1>12, GoMoves DEF FindPort, PortOK, SigningPlaces
  <2>6. x # None
    BY LauncherAssumption
  <2>7. PortOK(p)'
    BY <1>1, <2>3, <2>4, <2>5, <2>6 DEF PortOK, Waited, IsLauncher
  <2> QED
    BY <2>2, <2>3, <2>7, PortsElsewhere DEF Bound
<1>13. CASE Poll(p)
  <2>1. CASE Fail(p)
    BY <1>3, <1>13, <2>1 DEF Poll, Fail
  <2>2. CASE Answered(p) /\ GoTo(p, "health") /\ Keep(p)
    <3>1. pc'[p] = "health" /\ lg' = lg /\ ss'[p] = ss[p] /\ OthersStay(p)
      BY <1>4, <1>13, <2>2 DEF Poll, Places
    <3>2. /\ IsLauncher(p) /\ ss[p].port # None /\ lg[p].back = "gone"
          /\ TakenSince(p) /\ StrangerSince(p)
      BY <1>1, <1>13 DEF Poll, PortOK, ElseInv, SigningPlaces
    <3>3. Behind(p)
      BY <2>2, <3>2 DEF Answered, Behind, TakenSince, StrangerSince, Serving, Bound
    <3>4. PortOK(p)'
      BY <1>1, <3>1, <3>2, <3>3 DEF PortOK, TakenSince, Behind, OthersStay, IsLauncher, Serving,
         Bound
    <3> QED
      BY <3>1, <3>4, PortsElsewhere DEF Bound
  <2> QED
    BY <1>13, <2>1, <2>2 DEF Poll
<1>14. CASE CheckHealth(p)
  <2>1. Waited(p) /\ lg[p].back = "gone"
    BY <1>1, <1>14 DEF CheckHealth, Waited, PortOK, SigningPlaces
  <2>2. CASE Fail(p)
    BY <1>3, <1>14, <2>2 DEF CheckHealth, Fail
  <2>3. CASE GoTo(p, AfterHealth(p)) /\ Keep(p)
    <3>1. pc'[p] \in {"check", "claude"} /\ lg' = lg /\ ss'[p] = ss[p] /\ OthersStay(p)
      BY <1>4, <1>5, <1>14, <2>3 DEF CheckHealth, Places
    <3> QED
      BY <2>1, <3>1, PortsMove
  <2>4. CASE /\ lg' = [lg EXCEPT ![p].seen = auth, ![p].force = ForceLogin(auth)]
             /\ GoTo(p, "ask") /\ UNCHANGED mem
    <3>1. pc'[p] = "ask" /\ \A q \in Procs \ {p} : pc'[q] = pc[q] /\ lg'[q] = lg[q] /\ mem'[q] = mem[q]
      BY <2>4, GoMoves DEF TypeOK, ProcessTypes
    <3>2. ss'[p] = ss[p] /\ OthersStay(p)
      BY <1>2, <1>14, <3>1 DEF CheckHealth, ProxiesEnd, TypeOK, ProcessTypes
    <3>3. lg'[p].back = "gone"
      BY <1>1, <2>1, <2>4 DEF TypeOK, ProcessTypes, SignIns
    <3> QED
      BY <2>1, <3>1, <3>2, <3>3, PortsMove
  <2> QED
    BY <1>14, <2>2, <2>3, <2>4 DEF CheckHealth
<1>15. CASE AnswerAsk(p)
  <2>1. Waited(p)
    BY <1>15 DEF AnswerAsk, Waited
  <2>2. CASE EndAt(p, AfterHealth(p))
    <3>1. pc'[p] = AfterHealth(p) /\ lg'[p].back = "gone" /\ OthersStay(p) /\ ss'[p] = ss[p]
      BY <1>2, <1>15, <2>2, EndMoves DEF AnswerAsk, NoLogin, launchVars
    <3> QED
      BY <1>5, <2>1, <3>1, PortsMove
  <2>3. ASSUME NEW how \in {"browser", "device"},
               lg' = [lg EXCEPT ![p].back = AfterHealth(p), ![p].how = how],
               GoTo(p, "login"), UNCHANGED mem
        PROVE  PortInv'
    <3>1. pc'[p] = "login" /\ \A q \in Procs \ {p} : pc'[q] = pc[q] /\ lg'[q] = lg[q] /\ mem'[q] = mem[q]
      BY <2>3, GoMoves DEF TypeOK, ProcessTypes
    <3>2. ss'[p] = ss[p] /\ OthersStay(p)
      BY <1>2, <1>15, <3>1 DEF AnswerAsk, launchVars
    <3> QED
      BY <2>1, <3>1, <3>2, PortsMove DEF SigningPlaces
  <2> QED
    BY <1>15, <2>2, <2>3 DEF AnswerAsk
<1>16. CASE StartClaude(p)
  <2>1. pc'[p] = "wait" /\ lg' = lg /\ ss'[p] = ss[p] /\ OthersStay(p)
    BY <1>4, <1>16 DEF StartClaude, Stays, Keep, configVars, Places
  <2>2. Waited(p) /\ lg[p].back = "gone"
    BY <1>1, <1>16 DEF StartClaude, Waited, PortOK, SigningPlaces
  <2> QED
    BY <2>1, <2>2, PortsMove
<1>17. CASE RetryClaude(p)
  <2>1. ss' = [ss EXCEPT ![p].guards = FALSE]
    BY <1>17 DEF RetryClaude
  <2>2. /\ ss'[p].job = ss[p].job /\ ss'[p].port = ss[p].port /\ ss'[p].proxy = ss[p].proxy
        /\ ss'[p].taken = ss[p].taken
    BY <2>1 DEF TypeOK, ProcessTypes, Sessions
  <2>3. pc'[p] = "claude" /\ lg' = lg /\ OthersStay(p)
    BY <1>17, <2>1, GoMoves DEF RetryClaude, Stays, configVars, OthersStay, TypeOK, ProcessTypes
  <2>4. Waited(p) /\ lg[p].back = "gone" /\ TakenSince(p) /\ Behind(p)
    BY <1>1, <1>17 DEF RetryClaude, Waited, PortOK, SigningPlaces
  <2>5. TakenSince(p)' /\ Behind(p)'
    BY <2>2, <2>3, <2>4 DEF TakenSince, Behind, OthersStay, IsLauncher, Serving, Bound
  <2>6. PortOK(p)'
    BY <1>1, <2>2, <2>3, <2>4, <2>5 DEF PortOK
  <2> QED
    BY <2>2, <2>3, <2>6, PortsElsewhere DEF Bound
<1>18. CASE ClaudeEnds(p)
  BY <1>3, <1>18 DEF ClaudeEnds
<1>19. CASE ReadPid(p)
  <2>1. CASE Fail(p) /\ ProxiesEnd
    BY <1>3, <2>1 DEF Fail
  <2>2. CASE ss' = [ss EXCEPT ![p].read = pidFile] /\ GoTo(p, "running") /\ Keep(p)
    <3>1. /\ ss'[p].job = ss[p].job /\ ss'[p].port = ss[p].port /\ ss'[p].proxy = ss[p].proxy
          /\ ss'[p].taken = ss[p].taken
      BY <2>2 DEF TypeOK, ProcessTypes, Sessions
    <3>2. pc'[p] = "running" /\ lg' = lg /\ OthersStay(p)
      BY <2>2, GoMoves DEF Keep, OthersStay, TypeOK, ProcessTypes
    <3>3. lg[p].back = "gone" /\ TakenSince(p)
      BY <1>1, <1>19 DEF ReadPid, PortOK, SigningPlaces
    <3>4. TakenSince(p)'
      BY <3>1, <3>2, <3>3 DEF TakenSince, OthersStay, IsLauncher, Bound
    <3>5. PortOK(p)'
      BY <1>1, <3>1, <3>2, <3>3, <3>4 DEF PortOK, Waited
    <3> QED
      BY <3>1, <3>2, <3>5, PortsElsewhere DEF Bound
  <2> QED
    BY <1>19, <2>1, <2>2 DEF ReadPid
<1>20. CASE StopProxy(p)
  <2>1. PICK stopped :
          /\ Ended(stopped)
          /\ pc' = [q \in Procs |-> IF q = p THEN "remove" ELSE IF q \in stopped THEN "gone" ELSE pc[q]]
    BY <1>20 DEF StopProxy
  <2>2. lg[p].back = "gone" /\ ss'[p] = ss[p]
    BY <1>1, <1>20, <2>1 DEF StopProxy, PortOK, SigningPlaces, Ended, ProxiesEnd, TypeOK,
       ProcessTypes
  <2>3. \A q \in Procs : lg'[q] = lg[q] \/ lg'[q] = NoLogin
    BY <2>1 DEF Ended
  <2>4. ASSUME NEW q \in Procs \ {p}
        PROVE  \/ pc'[q] = "gone" /\ ss'[q] = NoSession /\ lg'[q] = NoLogin
               \/ pc'[q] = pc[q] /\ ss'[q] = ss[q] /\ lg'[q] = lg[q]
    <3>1. CASE q \in stopped
      BY <2>1, <3>1 DEF Ended, ProxiesEnd
    <3>2. CASE q \notin stopped
      <4>1. pc'[q] = pc[q] /\ lg'[q] = lg[q]
        BY <2>1, <3>2 DEF Ended
      <4>2. ss'[q] = ss[q]
        BY <2>1, <4>1, SessionsEnd DEF Ended
      <4> QED
        BY <4>1, <4>2
    <3> QED
      BY <3>1, <3>2
  <2>5. ASSUME NEW q \in Procs
        PROVE  PortOK(q)'
    <3>1. PortOK(q)
      BY DEF PortInv
    <3>2. \A r \in Procs : Bound(r)' => Bound(r) /\ ss'[r] = ss[r]
      BY <2>2, <2>4 DEF Bound, NoSession
    <3>3. CASE ss'[q] = NoSession /\ pc'[q] = "gone" /\ lg'[q] = NoLogin
      BY <3>3 DEF PortOK, NoSession, NoLogin, TakenSince, Waited, IsLauncher
    <3>4. CASE pc'[q] = pc[q] /\ ss'[q] = ss[q] /\ lg'[q] = lg[q]
      <4>1. TakenSince(q)'
        BY <3>1, <3>2, <3>4 DEF PortOK, TakenSince, IsLauncher
      <4> QED
        BY <3>1, <3>4, <4>1 DEF PortOK, Waited, Behind, IsLauncher, Serving
    <3>5. CASE q = p
      <4>1. TakenSince(p)'
        BY <2>2, <3>1, <3>2, <3>5 DEF PortOK, TakenSince, IsLauncher
      <4>2. pc'[p] = "remove" /\ lg'[p].back = "gone"
        BY <2>1, <2>2, <2>3 DEF NoLogin
      <4> QED
        BY <2>2, <3>1, <3>5, <4>1, <4>2 DEF PortOK, Waited
    <3> QED
      BY <2>4, <3>3, <3>4, <3>5
  <2> QED
    BY <2>5 DEF PortInv
<1>21. CASE ProxyStatus(p)
  <2>1. CASE Fail(p)
    BY <1>3, <1>21, <2>1 DEF ProxyStatus, Fail
  <2>2. CASE GoTo(p, "remove") /\ Keep(p)
    <3>1. pc'[p] = "remove" /\ lg' = lg /\ ss'[p] = ss[p] /\ OthersStay(p)
      BY <1>4, <1>21, <2>2 DEF ProxyStatus, Places
    <3>2. lg[p].back = "gone"
      BY <1>1, <1>21 DEF ProxyStatus, PortOK, SigningPlaces
    <3> QED
      BY <3>1, <3>2, PortsMove DEF Waited
  <2> QED
    BY <1>21, <2>1, <2>2 DEF ProxyStatus
<1>22. CASE RemovePid(p)
  BY <1>3, <1>22 DEF RemovePid
<1>24. CASE NoPortLeft(p)
  BY <1>3, <1>24 DEF NoPortLeft, Fail
<1>23. CASE Kill(p)
  <2>1. pc'[p] = "gone" /\ \A q \in Procs \ {p} : pc'[q] = pc[q]
    BY <1>23, GoMoves DEF Kill
  <2>2. OthersStay(p)
    BY <1>2, <1>23, <2>1 DEF Kill, Ended
  <2>3. ss'[p] = NoSession /\ lg'[p].back = "gone"
    BY <1>23, <2>1 DEF Kill, Ended, ProxiesEnd, NoLogin
  <2> QED
    BY <2>1, <2>2, <2>3, PortsEnd
<1> QED
  BY <1>10, <1>11, <1>12, <1>13, <1>14, <1>15, <1>16, <1>17, <1>18, <1>19, <1>20, <1>21, <1>22,
     <1>23, <1>24
  DEF OwnStep, UserStep, AnswerUpdate

\* The proxy task's steps keep it: whoever binds a port tells those that found it
\* before.
LEMMA PortsProxy ==
  ASSUME TypeOK, PortInv, NEW p \in Procs, ProxyStep(p)
  PROVE  PortInv'
<1>1. \A q \in Procs : PortOK(q) /\ ss[q] \in Sessions
  BY DEF PortInv, TypeOK, ProcessTypes
<1>2. CASE BindProxy(p)
  <2>1. pc' = pc /\ lg' = lg
    BY <1>2 DEF BindProxy, Stays
  <2>2. /\ ss[p].proxy = "indexing" /\ ss'[p].proxy = "bound" /\ ss'[p].job = ss[p].job
        /\ ss'[p].port = ss[p].port /\ ss'[p].taken = ss[p].taken
    BY <1>1, <1>2 DEF BindProxy, Sessions
  <2>3. ASSUME NEW q \in Procs \ {p}
        PROVE  ss'[q] = Marked(ss[q], ss[p].port)
    BY <1>2 DEF BindProxy
  <2>4. ASSUME NEW q \in Procs \ {p}
        PROVE  /\ ss'[q].proxy = ss[q].proxy /\ ss'[q].job = ss[q].job /\ ss'[q].port = ss[q].port
               /\ ss'[q].taken = (ss[q].taken \/ ss[q].port = ss[p].port)
    BY <1>1, <2>3, Marks
  <2>5. ASSUME NEW q \in Procs, NEW r \in Procs \ {q}, IsLauncher(q)', ss'[q].port # None,
               Bound(r)', ss'[r].port = ss'[q].port
        PROVE  ss'[q].taken
    <3>1. CASE q = p
      <4>1. Bound(r) /\ ss[r].port = ss[p].port
        BY <2>2, <2>4, <2>5, <3>1 DEF Bound
      <4> QED
        BY <1>2, <4>1 DEF BindProxy, InUse
    <3>2. CASE q # p /\ r = p
      BY <2>2, <2>4, <2>5, <3>2
    <3>3. CASE q # p /\ r # p
      BY <1>1, <2>4, <2>5, <3>3 DEF PortOK, TakenSince, IsLauncher, Bound
    <3> QED
      BY <3>1, <3>2, <3>3
  <2>6. ASSUME NEW q \in Procs
        PROVE  PortOK(q)'
    <3>1. TakenSince(q)'
      BY <2>5 DEF TakenSince
    <3>2. Behind(q) => Behind(q)'
      BY <2>2, <2>4 DEF Behind, IsLauncher, Serving
    <3>3. Waited(q)' => Waited(q)
      BY <2>1, <2>2, <2>4 DEF Waited
    <3>4. pc[q] = "poll" => IsLauncher(q)' /\ ss'[q].port # None
      BY <1>1, <2>2, <2>4 DEF PortOK, IsLauncher
    <3>5. pc[q] = "gone" => ss'[q] = NoSession
      <4>1. ss[p].port # None /\ ss[p].proxy # "off"
        BY <1>1, <2>2 DEF PortOK
      <4>2. ASSUME ss[q] = NoSession
            PROVE  ss'[q] = NoSession
        <5>1. q # p
          BY <4>1, <4>2 DEF NoSession
        <5> QED
          BY <1>1, <2>3, <4>1, <4>2, <5>1, Marks
      <4> QED
        BY <1>1, <4>2 DEF PortOK
    <3>6. ss'[q].proxy # "off" => ss'[q].port # None
      BY <1>1, <2>2, <2>4 DEF PortOK
    <3> QED
      BY <1>1, <2>1, <3>1, <3>2, <3>3, <3>4, <3>5, <3>6 DEF PortOK
  <2> QED
    BY <2>6 DEF PortInv
<1>3. CASE (BindFails(p) \/ WritePid(p)) /\ ProxyFails(p)
  <2>1. CASE Fail(p) /\ ProxiesEnd
    <3>1. pc'[p] = "gone" /\ lg'[p] = NoLogin
          /\ \A q \in Procs \ {p} : pc'[q] = pc[q] /\ lg'[q] = lg[q] /\ mem'[q] = mem[q]
      BY <2>1, EndMoves DEF Fail
    <3>2. OthersStay(p)
      BY <2>1, <3>1, SessionsEnd DEF OthersStay
    <3>3. ss'[p] = NoSession /\ NoLogin.back = "gone"
      BY <2>1, <3>1 DEF ProxiesEnd, NoLogin
    <3> QED
      BY <3>1, <3>2, <3>3, PortsEnd
  <2>2. CASE ss' = [ss EXCEPT ![p].proxy = "failed"] /\ UNCHANGED pc /\ Keep(p)
    <3>1. /\ ss'[p].job = ss[p].job /\ ss'[p].port = ss[p].port /\ ss'[p].proxy = "failed"
          /\ ss'[p].taken = ss[p].taken
      BY <2>2 DEF TypeOK, ProcessTypes, Sessions
    <3>2. pc' = pc /\ lg' = lg /\ OthersStay(p)
      BY <2>2 DEF Keep, OthersStay, TypeOK, ProcessTypes
    <3>3. ss[p].proxy \in {"indexing", "bound"} /\ PortOK(p)
      BY <1>1, <1>3 DEF BindFails, WritePid
    <3>4. TakenSince(p)'
      BY <3>1, <3>2, <3>3 DEF PortOK, TakenSince, OthersStay, IsLauncher, Bound
    <3>5. pc[p] # "gone"
      BY <3>3 DEF PortOK, NoSession
    <3>6. PortOK(p)'
      BY <3>1, <3>2, <3>3, <3>4, <3>5 DEF PortOK, Waited, Behind, IsLauncher, Serving
    <3> QED
      BY <3>1, <3>2, <3>6, PortsElsewhere DEF Bound
  <2> QED
    BY <1>3, <2>1, <2>2 DEF ProxyFails
<1>4. CASE WritePid(p) /\ ~ProxyFails(p)
  <2>1. /\ ss'[p].job = ss[p].job /\ ss'[p].port = ss[p].port /\ ss'[p].proxy = "serving"
        /\ ss'[p].taken = ss[p].taken
    BY <1>4 DEF WritePid, TypeOK, ProcessTypes, Sessions
  <2>2. pc' = pc /\ lg' = lg /\ OthersStay(p)
    BY <1>4 DEF WritePid, Stays, configVars, OthersStay, TypeOK, ProcessTypes
  <2>3. ss[p].proxy = "bound" /\ PortOK(p)
    BY <1>1, <1>4 DEF WritePid
  <2>4. TakenSince(p)'
    BY <2>1, <2>2, <2>3 DEF PortOK, TakenSince, OthersStay, IsLauncher, Bound
  <2>5. pc[p] # "gone"
    BY <2>3 DEF PortOK, NoSession
  <2>6. PortOK(p)'
    BY <2>1, <2>2, <2>3, <2>4, <2>5 DEF PortOK, Waited, Behind, IsLauncher, Serving
  <2> QED
    BY <2>1, <2>2, <2>3, <2>6, PortsElsewhere DEF Bound
<1> QED
  BY <1>2, <1>3, <1>4 DEF ProxyStep, BindFails

\* Every step of the specification keeps what is true of the ports.
LEMMA PortsKept == TypeOK /\ PortInv /\ ElseInv /\ [Next]_vars => PortInv'
<1> SUFFICES ASSUME TypeOK, PortInv, ElseInv, [Next]_vars PROVE PortInv'
  OBVIOUS
<1>1. ASSUME NEW p \in Procs, Start(p) \/ OwnStep(p) \/ ProxyStep(p) \/ UserStep(p) \/ Kill(p)
      PROVE  PortInv'
  BY <1>1, PortsStart, PortsSignIn, PortsOwn, PortsProxy
<1>2. CASE UserApproves
  <2>1. pc' = pc /\ ss' = ss
    BY <1>2 DEF UserApproves, Approve, launchVars
  <2>2. \A p \in Procs : lg'[p].back = lg[p].back
    BY <1>2 DEF UserApproves, Approve, TypeOK, ProcessTypes, SignIns
  <2> QED
    BY <2>1, <2>2 DEF PortInv, PortOK, TakenSince, Waited, Behind, IsLauncher, Serving, Bound
<1>3. CASE TimePasses \/ StrangerEnds \/ UNCHANGED vars
  BY <1>3 DEF TimePasses, StrangerEnds, vars, loginVars, launchVars, PortInv, PortOK, TakenSince,
     Waited, Behind, IsLauncher, Serving, Bound
<1>4. CASE StrangerBinds
  <2>1. PICK p \in Procs :
          ss[p].port # None /\ ss' = [q \in Procs |-> Marked(ss[q], ss[p].port)]
    BY <1>4 DEF StrangerBinds, PortInv, PortOK
  <2>2. ASSUME NEW q \in Procs
        PROVE  /\ ss'[q].proxy = ss[q].proxy /\ ss'[q].job = ss[q].job /\ ss'[q].port = ss[q].port
               /\ ss[q].taken => ss'[q].taken
               /\ ss[q] = NoSession => ss'[q] = NoSession
    <3>1. ss[q] \in Sessions /\ ss'[q] = Marked(ss[q], ss[p].port)
      BY <2>1 DEF TypeOK, ProcessTypes
    <3> QED
      BY <2>1, <3>1, Marks
  <2>3. pc' = pc /\ lg' = lg
    BY <1>4 DEF StrangerBinds, loginVars
  <2> QED
    BY <2>2, <2>3 DEF PortInv, PortOK, TakenSince, Waited, Behind, IsLauncher, Serving, Bound
<1> QED
  BY <1>1, <1>2, <1>3, <1>4 DEF Next

\* Outside the search for a port, a session keeps its job and its port, or ends;
\* and a mark stays.
LEMMA SessionsRemain ==
  ASSUME TypeOK, NEW p \in Procs, OwnStep(p) \/ ProxyStep(p) \/ UserStep(p) \/ Kill(p),
         ~FindPort(p)
  PROVE  /\ stranger' = stranger
         /\ \A q \in Procs :
              \/ ss'[q] = NoSession
              \/ /\ ss'[q].job = ss[q].job /\ ss'[q].port = ss[q].port
                 /\ ss[q].taken => ss'[q].taken
<1> DEFINE Remain == \A q \in Procs :
                       \/ ss'[q] = NoSession
                       \/ /\ ss'[q].job = ss[q].job /\ ss'[q].port = ss[q].port
                          /\ ss[q].taken => ss'[q].taken
<1>1. ss \in [Procs -> Sessions] /\ \A q \in Procs : ss[q] \in Sessions
  BY DEF TypeOK, ProcessTypes
<1>2. ProxiesEnd \/ UNCHANGED ss => Remain
  BY DEF ProxiesEnd
<1>3. \A x : ss' = [ss EXCEPT ![p].proxy = x] \/ ss' = [ss EXCEPT ![p].read = x] => Remain
  BY <1>1 DEF Sessions
<1>4. ss' = [ss EXCEPT ![p].guards = FALSE] => Remain
  BY <1>1 DEF Sessions
<1> HIDE DEF Remain
<1>5. CASE BindProxy(p)
  <2>1. \A q \in Procs \ {p} : ss'[q] = Marked(ss[q], ss[p].port)
    BY <1>5 DEF BindProxy
  <2>2. ss'[p] = [ss[p] EXCEPT !.proxy = "bound"]
    BY <1>5 DEF BindProxy
  <2> QED
    BY <1>1, <1>5, <2>1, <2>2, Marks DEF BindProxy, Sessions, Remain
<1>6. CASE BindFails(p) \/ WritePid(p)
  BY <1>2, <1>3, <1>6 DEF BindFails, ProxyFails, WritePid, Remain
<1>7. CASE RetryClaude(p) \/ ReadPid(p)
  BY <1>2, <1>3, <1>4, <1>7 DEF RetryClaude, ReadPid, Remain
<1>8. CASE DueForCheck(p) \/ CheckAnswered(p) \/ NoPortLeft(p) \/ Poll(p) \/ CheckHealth(p)
           \/ StartClaude(p) \/ SigningIn(p) \/ ProxyStatus(p) \/ RemovePid(p)
  BY <1>2, <1>8 DEF DueForCheck, CheckAnswered, NoPortLeft, Poll, CheckHealth, StartClaude,
     SigningIn, ProxyStatus, RemovePid, launchVars, Remain
<1>9. CASE AnswerUpdate(p) \/ AnswerAsk(p) \/ ClaudeEnds(p) \/ StopProxy(p) \/ Kill(p)
  BY <1>2, <1>9 DEF AnswerUpdate, AnswerAsk, ClaudeEnds, StopProxy, Kill, Ended, launchVars, Remain
<1> QED
  BY <1>5, <1>6, <1>7, <1>8, <1>9 DEF OwnStep, ProxyStep, UserStep

\* Every step of the specification keeps it that a stranger at a launcher's port
\* came after the port was found.
LEMMA ElseKept == TypeOK /\ ElseInv /\ [Next]_vars => ElseInv'
<1> SUFFICES ASSUME TypeOK, ElseInv, [Next]_vars PROVE ElseInv'
  OBVIOUS
<1>1. NoSession.port = None /\ NoStranger.port = None
  BY DEF NoSession, NoStranger
<1>2. ASSUME NEW p \in Procs, Start(p)
      PROVE  ElseInv'
  <2>1. PICK session, place, login : Beginning(p, session, place, login)
    BY <1>2, StartBegins
  <2>2. ss'[p].port = None /\ OthersStay(p) /\ stranger' = stranger
    BY <2>1, BeginMoves DEF Beginning, Begin
  <2> QED
    BY <2>2 DEF ElseInv, StrangerSince, IsLauncher, OthersStay
<1>3. ASSUME NEW p \in Procs, FindPort(p)
      PROVE  ElseInv'
  <2>1. PICK x \in Ports :
          /\ IsLauncher(p) => ~InUse(x)
          /\ ss' = [ss EXCEPT ![p].port = x, ![p].proxy = "indexing"]
    BY <1>3 DEF FindPort
  <2>2. /\ ss'[p].port = x /\ ss'[p].job = ss[p].job /\ stranger' = stranger
        /\ \A q \in Procs \ {p} : ss'[q] = ss[q]
    BY <1>3, <2>1 DEF FindPort, TypeOK, ProcessTypes, Sessions
  <2> QED
    BY <2>1, <2>2 DEF ElseInv, StrangerSince, IsLauncher, InUse
<1>4. ASSUME NEW p \in Procs, OwnStep(p) \/ ProxyStep(p) \/ UserStep(p) \/ Kill(p), ~FindPort(p)
      PROVE  ElseInv'
  BY <1>1, <1>4, SessionsRemain DEF ElseInv, StrangerSince, IsLauncher
<1>5. CASE UserApproves \/ TimePasses \/ UNCHANGED vars
  BY <1>5 DEF UserApproves, TimePasses, vars, launchVars, ElseInv, StrangerSince, IsLauncher
<1>6. CASE StrangerBinds
  <2>1. PICK p \in Procs :
          /\ stranger'.port = ss[p].port
          /\ ss' = [q \in Procs |-> Marked(ss[q], ss[p].port)]
    BY <1>6 DEF StrangerBinds
  <2>2. ASSUME NEW q \in Procs
        PROVE  StrangerSince(q)'
    <3>1. ss[q] \in Sessions /\ ss'[q] = Marked(ss[q], ss[p].port)
      BY <2>1 DEF TypeOK, ProcessTypes
    <3>2. ss'[q].port = ss[q].port /\ ss'[q].taken = (ss[q].taken \/ ss[q].port = ss[p].port)
      BY <3>1, Marks
    <3> QED
      BY <2>1, <3>2 DEF StrangerSince
  <2> QED
    BY <2>2 DEF ElseInv
<1>7. CASE StrangerEnds
  BY <1>1, <1>7 DEF StrangerEnds, ElseInv, StrangerSince
<1> QED
  BY <1>2, <1>3, <1>4, <1>5, <1>6, <1>7 DEF Next

-----------------------------------------------------------------------------
(* The configuration and the credentials *)

\* What a launcher does outside a sign-in touches neither the credentials file nor
\* the configuration file; it enters a sign-in only through the question.
Aside(p) ==
  /\ \A q \in Procs \ {p} : pc'[q] = pc[q] /\ lg'[q] = lg[q] /\ mem'[q] = mem[q] /\ fd'[q] = fd[q]
  /\ UNCHANGED <<cfg, issued, auth, tmp, raced>>

Elsewhere(p) == lg'[p] \in {lg[p], NoLogin} /\ pc'[p] \notin {"ask", "login", "open", "fill",
  "rename"}
Unmoved(p)   == lg'[p] = lg[p] /\ mem'[p] = mem[p] /\ pc'[p] = pc[p] /\ fd'[p] = fd[p]
Asking(p)    == /\ pc[p] = "health" /\ pc'[p] = "ask" /\ mem[p].auth = "oauth" /\ mem'[p] = mem[p]
                /\ lg'[p] = [lg[p] EXCEPT !.seen = auth, !.force = ForceLogin(auth)]
Accepting(p) == /\ pc[p] = "ask" /\ pc'[p] = "login" /\ mem'[p] = mem[p]
                /\ \E how \in {"browser", "device"} :
                     lg'[p] = [lg[p] EXCEPT !.back = AfterHealth(p), !.how = how]

\* Every step outside a sign-in, but for proxy stop, is one of these.
LEMMA AsideMoves ==
  ASSUME TypeOK, NEW p \in Procs, OwnStep(p) \/ ProxyStep(p) \/ UserStep(p) \/ Kill(p),
         ~SigningIn(p), ~StopProxy(p)
  PROVE  Aside(p) /\ (Elsewhere(p) \/ Unmoved(p) \/ Asking(p) \/ Accepting(p))
<1> DEFINE Moved == Aside(p) /\ (Elsewhere(p) \/ Unmoved(p) \/ Asking(p) \/ Accepting(p))
<1> SUFFICES Moved
  OBVIOUS
<1> HIDE DEF Moved
<1>3. ASSUME NEW place \in {"gone", "check", "claude"}, EndAt(p, place),
             UNCHANGED <<cfg, issuerVars, fileVars>>
      PROVE  Moved
  <2>1. /\ pc'[p] = place /\ lg'[p] = NoLogin
        /\ \A q \in Procs \ {p} : pc'[q] = pc[q] /\ lg'[q] = lg[q] /\ mem'[q] = mem[q]
    BY <1>3, EndMoves
  <2> QED
    BY <1>3, <2>1 DEF Moved, Aside, OthersStay, Elsewhere, issuerVars, fileVars
<1>4. ASSUME NEW place \in {"check", "checking", "update", "port", "claude", "health", "wait",
  "running", "remove"},
             GoTo(p, place), Keep(p),
             UNCHANGED <<cfg, issuerVars, fileVars>>
      PROVE  Moved
  <2>1. pc'[p] = place /\ lg' = lg /\ mem' = mem /\ \A q \in Procs \ {p} : pc'[q] = pc[q]
    BY <1>4, GoMoves DEF Keep
  <2> QED
    BY <1>4, <2>1 DEF Moved, Aside, OthersStay, Elsewhere, issuerVars, fileVars
<1>5. AfterCheck(p) \in {"port", "claude"} /\ AfterHealth(p) \in {"check", "claude"}
  BY DEF AfterCheck, AfterHealth
<1>10. CASE DueForCheck(p) \/ CheckAnswered(p)
  BY <1>4, <1>5, <1>10 DEF DueForCheck, CheckAnswered, Stays, Keep, configVars
<1>11. CASE AnswerUpdate(p)
  BY <1>3, <1>4, <1>5, <1>11 DEF AnswerUpdate
<1>12. CASE FindPort(p)
  <2>1. OthersStay(p)
    BY <1>12, GoMoves DEF FindPort, OthersStay, TypeOK, ProcessTypes
  <2> QED
    BY <1>12, <2>1, GoMoves DEF FindPort, Moved, Aside, OthersStay, Elsewhere, issuerVars, fileVars
<1>13. CASE Poll(p)
  BY <1>3, <1>4, <1>13 DEF Poll, Fail
<1>14. CASE CheckHealth(p)
  <2>1. CASE Fail(p) \/ (GoTo(p, AfterHealth(p)) /\ Keep(p))
    BY <1>3, <1>4, <1>5, <1>14, <2>1 DEF CheckHealth, Fail
  <2>2. CASE /\ mem[p].auth = "oauth"
             /\ lg' = [lg EXCEPT ![p].seen = auth, ![p].force = ForceLogin(auth)]
             /\ GoTo(p, "ask") /\ UNCHANGED mem
    <3>1. pc'[p] = "ask" /\ \A q \in Procs \ {p} : pc'[q] = pc[q] /\ lg'[q] = lg[q] /\ mem'[q] = mem[q]
      BY <2>2, GoMoves DEF TypeOK, ProcessTypes
    <3>2. lg'[p] = [lg[p] EXCEPT !.seen = auth, !.force = ForceLogin(auth)]
      BY <2>2 DEF TypeOK, ProcessTypes
    <3> QED
      BY <1>14, <2>2, <3>1, <3>2 DEF CheckHealth, Moved, Aside, Asking, issuerVars, fileVars
  <2> QED
    BY <1>14, <2>1, <2>2 DEF CheckHealth
<1>15. CASE AnswerAsk(p)
  <2>1. CASE EndAt(p, AfterHealth(p))
    BY <1>3, <1>5, <1>15, <2>1 DEF AnswerAsk
  <2>2. ASSUME NEW how \in {"browser", "device"},
               lg' = [lg EXCEPT ![p].back = AfterHealth(p), ![p].how = how],
               GoTo(p, "login"), UNCHANGED mem
        PROVE  Moved
    <3>1. pc'[p] = "login" /\ \A q \in Procs \ {p} : pc'[q] = pc[q] /\ lg'[q] = lg[q] /\ mem'[q] = mem[q]
      BY <2>2, GoMoves DEF TypeOK, ProcessTypes
    <3>2. lg'[p] = [lg[p] EXCEPT !.back = AfterHealth(p), !.how = how]
      BY <2>2 DEF TypeOK, ProcessTypes
    <3> QED
      BY <1>15, <2>2, <3>1, <3>2 DEF AnswerAsk, Moved, Aside, Accepting, issuerVars, fileVars
  <2> QED
    BY <1>15, <2>1, <2>2 DEF AnswerAsk
<1>16. CASE StartClaude(p)
  BY <1>4, <1>16 DEF StartClaude, Stays, Keep, configVars
<1>17. CASE RetryClaude(p)
  <2>1. OthersStay(p)
    BY <1>17, GoMoves DEF RetryClaude, Stays, configVars, OthersStay, TypeOK, ProcessTypes
  <2> QED
    BY <1>17, <2>1, GoMoves DEF RetryClaude, Stays, configVars, Moved, Aside, OthersStay,
       Elsewhere, issuerVars, fileVars
<1>18. CASE ClaudeEnds(p)
  BY <1>3, <1>18 DEF ClaudeEnds
<1>19. CASE ReadPid(p)
  <2>1. CASE Fail(p) /\ ProxiesEnd
    BY <1>3, <1>19, <2>1 DEF ReadPid, Fail
  <2>2. CASE ss' = [ss EXCEPT ![p].read = pidFile] /\ GoTo(p, "running") /\ Keep(p)
    <3>1. OthersStay(p)
      BY <2>2, GoMoves DEF Keep, OthersStay, TypeOK, ProcessTypes
    <3> QED
      BY <1>19, <2>2, <3>1, GoMoves DEF ReadPid, Keep, Moved, Aside, OthersStay, Elsewhere,
         issuerVars, fileVars
  <2> QED
    BY <1>19, <2>1, <2>2 DEF ReadPid
<1>20. CASE ProxyStatus(p)
  BY <1>3, <1>4, <1>20 DEF ProxyStatus, Fail
<1>21. CASE RemovePid(p)
  BY <1>3, <1>21 DEF RemovePid
<1>22. CASE Kill(p)
  <2>1. pc'[p] = "gone" /\ \A q \in Procs \ {p} : pc'[q] = pc[q]
    BY <1>22, GoMoves DEF Kill
  <2>2. /\ lg'[p] = NoLogin
        /\ \A q \in Procs \ {p} : lg'[q] = lg[q] /\ mem'[q] = mem[q] /\ fd'[q] = fd[q]
    BY <1>22 DEF Kill, Ended
  <2> QED
    BY <1>22, <2>1, <2>2 DEF Kill, Moved, Aside, OthersStay, Elsewhere, issuerVars
<1>23. CASE (BindProxy(p) \/ WritePid(p)) /\ ~ProxyFails(p)
  <2>1. UNCHANGED <<pc, lg, mem, cfg, issuerVars, fileVars>>
    BY <1>23 DEF BindProxy, WritePid, Stays, configVars
  <2> QED
    BY <2>1 DEF Moved, Aside, Unmoved, issuerVars, fileVars
<1>24. CASE ProxyFails(p)
  <2>1. CASE Fail(p) /\ ProxiesEnd
    BY <1>3, <1>24, <2>1 DEF ProxyFails, Fail
  <2>2. CASE ss' = [ss EXCEPT ![p].proxy = "failed"] /\ UNCHANGED pc /\ Keep(p)
    <3>1. OthersStay(p)
      BY <2>2 DEF Keep, OthersStay, TypeOK, ProcessTypes
    <3> QED
      BY <1>24, <2>2, <3>1 DEF ProxyFails, Keep, Moved, Aside, OthersStay, Unmoved, issuerVars,
         fileVars
  <2> QED
    BY <1>24, <2>1, <2>2 DEF ProxyFails
<1>25. CASE NoPortLeft(p)
  BY <1>3, <1>25 DEF NoPortLeft, Fail
<1> QED
  BY <1>10, <1>11, <1>12, <1>13, <1>14, <1>15, <1>16, <1>17, <1>18, <1>19, <1>20, <1>21, <1>22,
     <1>23, <1>24, <1>25
  DEF OwnStep, UserStep, ProxyStep, BindFails

\* Every step keeps the port in the configuration file as it was.
LEMMA ConfigKept == TypeOK /\ ConfigInv /\ [Next]_vars => ConfigInv'
<1> SUFFICES ASSUME TypeOK, ConfigInv, [Next]_vars PROVE ConfigInv'
  OBVIOUS
<1>1. ASSUME NEW p \in Procs, cfg'.port = "default", ConfigOK(p)',
             \A q \in Procs \ {p} : pc'[q] = pc[q] /\ mem'[q] = mem[q]
      PROVE  ConfigInv'
  BY <1>1 DEF ConfigInv, ConfigOK
<1>2. ASSUME NEW p \in Procs, Start(p)
      PROVE  ConfigInv'
  <2>1. PICK session, place, login : Beginning(p, session, place, login)
    BY <1>2, StartBegins
  <2>2. pc'[p] = place /\ mem'[p] = cfg /\ cfg' = cfg /\ OthersStay(p)
    BY <2>1, BeginMoves DEF Beginning, Begin
  <2> QED
    BY <1>1, <2>1, <2>2 DEF Beginning, ConfigInv, ConfigOK, OthersStay
<1>3. ASSUME NEW p \in Procs, SigningIn(p)
      PROVE  ConfigInv'
  <2>1. \A q \in Procs \ {p} : pc'[q] = pc[q] /\ mem'[q] = mem[q]
    BY <1>3, SigningMoves
  <2>2. cfg'.port = "default"
    <3>1. CASE BeginLogin(p)
      <4>1. mem'[p].port = mem[p].port
        BY <3>1 DEF BeginLogin, EnsureProfile, TypeOK, ProcessTypes, Configs
      <4> QED
        BY <3>1, <4>1 DEF BeginLogin, EnsureProfile, ConfigInv, ConfigOK
    <3>2. CASE ~BeginLogin(p)
      <4>1. cfg' = cfg
        BY <1>3, <3>2 DEF SigningIn, LoginStep, LoginExternal, UseExisting, OpenBrowser,
           RequestDeviceCode,
           BindCallback, TakeCode, CallbackTimeout, DevicePoll, ExchangeCode, RefreshRead,
             RefreshReply,
           OpenTmp, Fill, Rename, configVars
      <4> QED
        BY <4>1 DEF ConfigInv
    <3> QED
      BY <3>1, <3>2
  <2>3. pc'[p] \notin {"login", "ask"}
    <3>1. lg[p].back \in Backs
      BY DEF TypeOK, ProcessTypes, SignIns
    <3> QED
      BY <1>3, <3>1, SigningMoves, EndMoves DEF SigningOn, SigningPlaces, Fail, Succeed, Backs
  <2> QED
    BY <1>1, <2>1, <2>2, <2>3 DEF ConfigOK
<1>4. ASSUME NEW p \in Procs, StopProxy(p)
      PROVE  ConfigInv'
  <2>1. \A q \in Procs : pc'[q] \in {"gone", "remove"} \/ (pc'[q] = pc[q] /\ mem'[q] = mem[q])
    BY <1>4 DEF StopProxy, Ended
  <2> QED
    BY <1>4, <2>1 DEF StopProxy, ConfigInv, ConfigOK
<1>5. ASSUME NEW p \in Procs, OwnStep(p) \/ ProxyStep(p) \/ UserStep(p) \/ Kill(p),
             ~SigningIn(p), ~StopProxy(p)
      PROVE  ConfigInv'
  <2>1. Aside(p) /\ (Elsewhere(p) \/ Unmoved(p) \/ Asking(p) \/ Accepting(p))
    BY <1>5, AsideMoves
  <2>2. ConfigOK(p)'
    BY <2>1, NoValueAssumption DEF ConfigInv, ConfigOK, Elsewhere, Unmoved, Asking, Accepting
  <2> QED
    BY <1>1, <2>1, <2>2 DEF Aside, ConfigInv
<1>6. CASE UserApproves \/ TimePasses \/ StrangerBinds \/ StrangerEnds \/ UNCHANGED vars
  BY <1>6 DEF UserApproves, Approve, TimePasses, StrangerBinds, StrangerEnds, vars, loginVars,
      configVars, ConfigInv, ConfigOK
<1> QED
  BY <1>2, <1>3, <1>4, <1>5, <1>6 DEF Next

\* What is true of the sign-ins of others stays true: the issuer takes nothing
\* back.
LEMMA SignInsElsewhere ==
  ASSUME TypeOK, FileInv, NEW p \in Procs, issued \in Nat, issued' \in Nat, issued <= issued',
    SignInOK(p)',
         \A q \in Procs \ {p} : pc'[q] = pc[q] /\ lg'[q] = lg[q]
  PROVE  \A q \in Procs : SignInOK(q)'
<1>1. ASSUME NEW q \in Procs \ {p}
      PROVE  SignInOK(q)'
  BY DEF FileInv, SignInOK, Known, TypeOK, ProcessTypes, SharedTypes, Issues, SignIns
<1> QED
  BY <1>1

\* A step that leaves the files alone and writes nothing keeps what is true of
\* them.
LEMMA FilesElsewhere ==
  ASSUME TypeOK, FileInv, NEW p \in Procs, UNCHANGED <<auth, tmp, raced>>,
         \A q \in Procs \ {p} : pc'[q] = pc[q] /\ lg'[q] = lg[q] /\ fd'[q] = fd[q],
         ~Writing(p)' \/ (pc'[p] = pc[p] /\ lg'[p] = lg[p] /\ fd'[p] = fd[p])
  PROVE  FilesOK'
BY DEF FileInv, FilesOK, Writing

\* So do all steps outside a sign-in, but for proxy stop.
LEMMA FilesAside ==
  ASSUME TypeOK, FileInv, NEW p \in Procs, OwnStep(p) \/ ProxyStep(p) \/ UserStep(p) \/ Kill(p),
         ~SigningIn(p), ~StopProxy(p)
  PROVE  FileInv'
<1>1. Aside(p) /\ (Elsewhere(p) \/ Unmoved(p) \/ Asking(p) \/ Accepting(p))
  BY AsideMoves
<1>2. lg[p] \in SignIns /\ auth \in Contents /\ issued \in Nat /\ SignInOK(p) /\ Known(auth)
  BY DEF TypeOK, ProcessTypes, SharedTypes, FileInv
<1>3. SignInOK(p)'
  <2>1. CASE Elsewhere(p) /\ lg'[p] = NoLogin
    BY <2>1, NoValueAssumption DEF Elsewhere, SignInOK, NoLogin, Known, Issues
  <2>2. CASE Elsewhere(p) /\ lg'[p] = lg[p]
    BY <1>1, <1>2, <2>2 DEF Elsewhere, Aside, SignInOK, Known
  <2>3. CASE Unmoved(p)
    BY <1>1, <1>2, <2>3 DEF Unmoved, Aside, SignInOK, Known
  <2>4. CASE Asking(p)
    <3>1. /\ lg'[p].seen = auth /\ lg'[p].back = lg[p].back /\ lg'[p].how = lg[p].how
          /\ lg'[p].force = ForceLogin(auth)
      BY <1>2, <2>4 DEF Asking, SignIns
    <3>2. lg'[p].force <=> auth \in Issues
      BY <3>1 DEF ForceLogin
    <3> QED
      BY <1>1, <1>2, <2>4, <3>1, <3>2 DEF Asking, Aside, SignInOK, Known
  <2>5. CASE Accepting(p)
    BY <1>1, <1>2, <2>5 DEF Accepting, Aside, SignInOK, Known, SignIns
  <2> QED
    BY <1>1, <2>1, <2>2, <2>3, <2>4, <2>5 DEF Elsewhere
<1>4. FilesOK'
  BY <1>1, FilesElsewhere DEF Aside, Elsewhere, Unmoved, Asking, Accepting, Writing
<1>5. \A q \in Procs : SignInOK(q)'
  BY <1>1, <1>2, <1>3, SignInsElsewhere DEF Aside
<1> QED
  BY <1>1, <1>4, <1>5 DEF Aside, FileInv, Known

\* A start keeps what is true of the files.
LEMMA FilesStart ==
  ASSUME TypeOK, FileInv, NEW p \in Procs, Start(p)
  PROVE  FileInv'
<1>1. PICK session, place, login : Beginning(p, session, place, login)
  BY StartBegins
<1>2. pc'[p] = place /\ lg'[p] = login /\ OthersStay(p) /\ UNCHANGED <<issuerVars, fileVars>>
  BY <1>1, BeginMoves DEF Beginning, Begin
<1>3. SignInOK(p)' /\ ~Writing(p)'
  BY <1>1, <1>2, NoValueAssumption DEF Beginning, SignInOK, Known, Issues, Writing
<1>4. \A q \in Procs : SignInOK(q)'
  BY <1>2, <1>3, SignInsElsewhere DEF OthersStay, issuerVars, TypeOK, SharedTypes
<1>5. FilesOK'
  BY <1>2, <1>3, FilesElsewhere DEF OthersStay, fileVars
<1> QED
  BY <1>2, <1>4, <1>5 DEF issuerVars, fileVars, FileInv, Known

\* So does proxy stop, whichever process it ends, in the middle of a write too.
LEMMA FilesStop ==
  ASSUME TypeOK, FileInv, NEW p \in Procs, StopProxy(p)
  PROVE  FileInv'
<1>1. /\ UNCHANGED <<issued, auth, tmp, raced>>
      /\ \A q \in Procs :
            \/ pc'[q] = pc[q] /\ lg'[q] = lg[q] /\ fd'[q] = fd[q]
            \/ pc'[q] \in {"gone", "remove"} /\ lg'[q] \in {lg[q], NoLogin}
  BY DEF StopProxy, Ended, issuerVars
<1>2. ASSUME NEW q \in Procs
      PROVE  SignInOK(q)'
  BY <1>1, NoValueAssumption DEF FileInv, SignInOK, Known, NoLogin, Issues
<1>3. FilesOK'
  BY <1>1 DEF FileInv, FilesOK, Writing
<1> QED
  BY <1>1, <1>2, <1>3 DEF FileInv, Known

\* So does the user's approval.
LEMMA FilesApprove ==
  ASSUME TypeOK, FileInv, UserApproves
  PROVE  FileInv'
<1>1. UNCHANGED <<pc, issued, auth, tmp, raced, fd>>
  BY DEF UserApproves, Approve, issuerVars, fileVars
<1>2. ASSUME NEW q \in Procs
      PROVE  /\ lg'[q].seen = lg[q].seen /\ lg'[q].force = lg[q].force /\ lg'[q].back = lg[q].back
             /\ lg'[q].how = lg[q].how /\ lg'[q].got = lg[q].got
  BY DEF UserApproves, Approve, TypeOK, ProcessTypes, SignIns
<1>3. \A q \in Procs : SignInOK(q)'
  BY <1>1, <1>2 DEF FileInv, SignInOK, Known
<1>4. FilesOK'
  BY <1>1, <1>2 DEF FileInv, FilesOK, Writing
<1> QED
  BY <1>1, <1>3, <1>4 DEF FileInv, Known

\* The issuer's counter only grows, and a pair that arrives is a new one.
LEMMA SignInIssues ==
  ASSUME TypeOK, FileInv, NEW p \in Procs, SigningIn(p)
  PROVE  issued \in Nat /\ issued' \in Nat /\ issued <= issued' /\ SignInOK(p)'
<1>1. lg[p] \in SignIns /\ lg \in [Procs -> SignIns] /\ issued \in Nat /\ SignInOK(p)
  BY DEF TypeOK, ProcessTypes, SharedTypes, FileInv
<1>2. issued' \in {issued, issued + 1}
  BY DEF SigningIn, LoginStep, BeginLogin, LoginExternal, UseExisting, OpenBrowser,
     RequestDeviceCode,
     BindCallback, TakeCode, CallbackTimeout, DevicePoll, ExchangeCode, RefreshRead, RefreshReply,
     OpenTmp, Fill, Rename, issuerVars
<1>3. CASE Fail(p) \/ Succeed(p)
  <2>1. lg'[p] = NoLogin /\ pc'[p] \in {"gone", "check", "claude"}
    BY <1>1, <1>3, EndMoves DEF Fail, Succeed, SignIns, Backs
  <2> QED
    BY <1>1, <1>2, <2>1, NoValueAssumption DEF SignInOK, NoLogin, Known, Issues
<1>4. CASE SigningOn(p)
  <2>1. pc'[p] \in {"open", "fill", "rename"} =>
           lg'[p].got \in 1..issued' /\ lg'[p].got # lg'[p].seen
    <3>1. CASE ExchangeCode(p) \/ RefreshReply(p)
      <4>1. CASE pc'[p] = "open"
        <5>1. issued < MaxIssued /\ issued' = issued + 1 /\ lg'[p].got = issued + 1
          BY <1>1, <3>1, <4>1, EndMoves DEF ExchangeCode, RefreshReply, Fail, SignIns
        <5>2. lg[p].seen # issued + 1
          BY <1>1, <5>1, ProcsAssumption DEF SignInOK, Known, Issues
        <5> QED
          BY <1>1, <1>4, <5>1, <5>2 DEF SigningOn
      <4>2. CASE pc'[p] # "open"
        <5>1. pc'[p] = "gone"
          BY <3>1, <4>2, EndMoves, GoMoves DEF ExchangeCode, RefreshReply, Fail
        <5> QED
          BY <5>1
      <4> QED
        BY <4>1, <4>2
    <3>2. CASE OpenTmp(p) \/ Fill(p) \/ Rename(p)
      <4>1. pc[p] \in {"open", "fill", "rename"}
        BY <3>2 DEF OpenTmp, Fill, Rename
      <4>2. lg'[p].got = lg[p].got \/ (lg'[p] = NoLogin /\ pc'[p] \in {"gone", "check", "claude"})
        <5>1. CASE OpenTmp(p) \/ Fill(p)
          <6>1. lg' = lg
            BY <5>1 DEF OpenTmp, Fill
          <6> QED
            BY <6>1
        <5>2. CASE Rename(p)
          <6>1. CASE Fail(p) \/ Succeed(p)
            BY <1>1, <6>1, EndMoves DEF Fail, Succeed, SignIns, Backs
          <6>2. CASE lg' = [lg EXCEPT ![p].again = FALSE]
            <7>1. lg'[p] = [lg[p] EXCEPT !.again = FALSE]
              BY <1>1, <6>2
            <7>2. lg'[p].got = lg[p].got
              BY <1>1, <7>1 DEF SignIns
            <7> QED
              BY <7>2
          <6> QED
            BY <5>2, <6>1, <6>2 DEF Rename
        <5> QED
          BY <3>2, <5>1, <5>2
      <4> QED
        BY <1>1, <1>2, <1>4, <4>1, <4>2 DEF SignInOK, SigningOn
    <3>3. CASE ~(ExchangeCode(p) \/ RefreshReply(p) \/ OpenTmp(p) \/ Fill(p) \/ Rename(p))
      <4>1. pc'[p] \notin {"open", "fill", "rename"}
        BY <1>1, <3>3, EndMoves, GoMoves DEF SigningIn, LoginStep, BeginLogin, LoginExternal,
           UseExisting, OpenBrowser,
          RequestDeviceCode, BindCallback, TakeCode, CallbackTimeout, DevicePoll, RefreshRead,
            Fail, Succeed, SignIns, Backs
      <4> QED
        BY <4>1
    <3> QED
      BY <3>1, <3>2, <3>3
  <2>2. pc'[p] # "ask"
    BY <1>4 DEF SigningOn, SigningPlaces
  <2> QED
    BY <1>1, <1>2, <1>4, <2>1, <2>2 DEF SigningOn, SignInOK, Known, Issues
<1> QED
  BY <1>1, <1>2, <1>3, <1>4, SigningMoves

\* So do the steps of a sign-in, those that open, write and rename among them.
LEMMA FilesSignIn ==
  ASSUME TypeOK, FileInv, NEW p \in Procs, SigningIn(p)
  PROVE  FileInv'
<1>1. /\ lg[p] \in SignIns /\ auth \in Contents /\ tmp \in Contents /\ raced \in BOOLEAN
      /\ fd \in [Procs -> {None, "tmp", "auth", "lost"}]
      /\ Known(auth) /\ Known(tmp) /\ FilesOK /\ SignInOK(p)
  BY DEF TypeOK, ProcessTypes, SharedTypes, FileInv
<1>2. \A q \in Procs \ {p} : pc'[q] = pc[q] /\ lg'[q] = lg[q]
  BY SigningMoves
<1>3. issued \in Nat /\ issued' \in Nat /\ issued <= issued' /\ \A q \in Procs : SignInOK(q)'
  BY <1>2, SignInIssues, SignInsElsewhere
<1>4. Known(None) /\ Known(Empty) /\ Known(Garbled)
  BY NoValueAssumption DEF Known, Issues
<1>5. CASE OpenTmp(p)
  <2>1. pc'[p] = "fill" /\ fd'[p] = "tmp" /\ tmp' = Empty /\ auth' = auth /\ issued' = issued
    BY <1>1, <1>5, GoMoves DEF OpenTmp, issuerVars
  <2>2. FilesOK'
    <3>1. SUFFICES ASSUME ~raced'
                   PROVE  FilesOK'
      BY DEF FilesOK
    <3>2. ~raced /\ \A q \in Procs \ {p} : ~Writing(q)
      BY <1>5, <3>1 DEF OpenTmp
    <3>3. \A q \in Procs \ {p} : pc'[q] \notin {"fill", "rename"}
      BY <1>2, <3>2 DEF Writing
    <3> QED
      BY <1>1, <2>1, <3>2, <3>3 DEF FilesOK, Writing
  <2> QED
    BY <1>1, <1>3, <1>4, <2>1, <2>2 DEF FileInv, Known
<1>6. CASE Fill(p)
  <2>1. pc[p] = "fill" /\ pc'[p] = "rename" /\ lg' = lg /\ issued' = issued /\ raced' = raced
    BY <1>6, GoMoves DEF Fill, issuerVars
  <2>2. lg[p].got \in 1..issued
    BY <1>1, <2>1 DEF SignInOK
  <2>3. \A content : \A x \in Laid(p, content) : Known(x)
    BY <1>4, <2>2 DEF Laid, Known
  <2>4. Known(auth') /\ Known(tmp')
    BY <1>1, <1>6, <2>3 DEF Fill
  <2>5. FilesOK'
    <3>1. SUFFICES ASSUME ~raced'
                   PROVE  FilesOK'
      BY DEF FilesOK
    <3>2. fd[p] = "tmp" /\ tmp = Empty /\ \A q \in Procs \ {p} : ~Writing(q)
      BY <1>1, <2>1, <3>1 DEF FilesOK, Writing
    <3>3. tmp' = lg[p].got /\ auth' = auth
      BY <1>6, <3>2 DEF Fill, Laid
    <3>4. \A q \in Procs \ {p} : pc'[q] \notin {"fill", "rename"}
      BY <1>2, <3>2 DEF Writing
    <3> QED
      BY <1>1, <2>1, <3>1, <3>3, <3>4 DEF FilesOK, Writing
  <2> QED
    BY <1>3, <2>1, <2>4, <2>5 DEF FileInv, Known
<1>7. CASE Rename(p)
  <2>1. pc[p] = "rename" /\ issued' = issued /\ raced' = raced /\ lg[p].got \in 1..issued
    BY <1>1, <1>7 DEF Rename, issuerVars, SignInOK
  <2>2. pc'[p] \notin {"fill", "rename"}
    BY <1>1, <1>7, EndMoves, GoMoves DEF Rename, Fail, Succeed, SignIns, Backs
  <2>3. CASE tmp = None
    <3>1. UNCHANGED <<auth, tmp, fd>>
      BY <1>7, <2>3 DEF Rename
    <3>2. FilesOK'
      BY <1>2, <2>1, <2>2, <3>1, FilesElsewhere DEF Writing
    <3> QED
      BY <1>1, <1>3, <2>1, <3>1, <3>2 DEF FileInv, Known
  <2>4. CASE tmp # None
    <3>1. auth' = tmp /\ tmp' = None
      BY <1>7, <2>4 DEF Rename
    <3>2. FilesOK'
      <4>1. SUFFICES ASSUME ~raced
                     PROVE  FilesOK'
        BY <2>1 DEF FilesOK
      <4>2. tmp = lg[p].got /\ \A q \in Procs \ {p} : ~Writing(q)
        BY <1>1, <2>1, <4>1 DEF FilesOK, Writing
      <4>3. \A q \in Procs : pc'[q] \notin {"fill", "rename"}
        BY <1>2, <2>2, <4>2 DEF Writing
      <4>4. auth' \in Issues
        BY <2>1, <3>1, <4>2, ProcsAssumption DEF Issues, TypeOK, SharedTypes
      <4> QED
        BY <4>3, <4>4 DEF FilesOK, Writing
    <3> QED
      BY <1>1, <1>3, <1>4, <2>1, <3>1, <3>2 DEF FileInv, Known
  <2> QED
    BY <2>3, <2>4
<1>8. CASE ~(OpenTmp(p) \/ Fill(p) \/ Rename(p))
  <2>1. UNCHANGED fileVars
    BY <1>8 DEF SigningIn, LoginStep, BeginLogin, LoginExternal, UseExisting, OpenBrowser,
       RequestDeviceCode,
       BindCallback, TakeCode, CallbackTimeout, DevicePoll, ExchangeCode, RefreshRead, RefreshReply
  <2>2. pc'[p] \notin {"fill", "rename"}
    BY <1>1, <1>8, EndMoves, GoMoves DEF SigningIn, LoginStep, BeginLogin, LoginExternal,
       UseExisting, OpenBrowser,
       RequestDeviceCode, BindCallback, TakeCode, CallbackTimeout, DevicePoll, ExchangeCode,
         RefreshRead, RefreshReply,
       Fail, Succeed, SignIns, Backs
  <2>3. FilesOK'
    BY <1>2, <2>1, <2>2, FilesElsewhere DEF Writing, fileVars
  <2>4. Known(auth)' /\ Known(tmp)'
    BY <1>1, <1>3, <2>1 DEF Known, fileVars, Issues
  <2> QED
    BY <1>3, <2>3, <2>4 DEF FileInv
<1> QED
  BY <1>5, <1>6, <1>7, <1>8

\* Every step of the specification keeps what is true of the files.
LEMMA FilesKept == TypeOK /\ FileInv /\ [Next]_vars => FileInv'
<1> SUFFICES ASSUME TypeOK, FileInv, [Next]_vars PROVE FileInv'
  OBVIOUS
<1>1. ASSUME NEW p \in Procs, Start(p) \/ OwnStep(p) \/ ProxyStep(p) \/ UserStep(p) \/ Kill(p)
      PROVE  FileInv'
  BY <1>1, FilesStart, FilesSignIn, FilesStop, FilesAside
<1>2. CASE UserApproves
  BY <1>2, FilesApprove
<1>3. CASE TimePasses \/ StrangerBinds \/ StrangerEnds \/ UNCHANGED vars
  BY <1>3 DEF TimePasses, StrangerBinds, StrangerEnds, vars, loginVars, issuerVars, fileVars, FileInv, FilesOK, SignInOK,
     Known, Writing
<1> QED
  BY <1>1, <1>2, <1>3 DEF Next

-----------------------------------------------------------------------------
(* The theorems *)

\* The invariant holds at the start.
LEMMA InitHolds == LauncherInit => IInv
<1> SUFFICES ASSUME LauncherInit PROVE IInv
  OBVIOUS
<1>1. TypeOK
  BY InitTypes
<1>2. PICK b \in Beginnings :
        /\ cfg = [auth |-> b[1], port |-> "default"]
        /\ issued = b[2] /\ auth = (IF b[2] = 1 THEN 1 ELSE None)
  BY DEF LauncherInit, LoginInit
<1>3. \A p \in Procs : pc[p] = "gone" /\ ss[p] = NoSession /\ lg[p] = NoLogin
  BY DEF LauncherInit, LoginInit
<1>4. tmp = None /\ b[2] \in {0, 1} /\ auth \in Contents
  BY <1>1, BeginningsAssumption DEF LauncherInit, LoginInit, TypeOK, SharedTypes
<1>5. PortInv
  <2>1. NoSession.port = None /\ NoSession.proxy = "off" /\ NoLogin.back = "gone"
    BY DEF NoSession, NoLogin
  <2>2. ASSUME NEW p \in Procs
        PROVE  PortOK(p)
    BY <1>3, <2>1 DEF PortOK, TakenSince, Waited
  <2> QED
    BY <2>2 DEF PortInv
<1>6. ConfigInv
  BY <1>2, <1>3 DEF ConfigInv, ConfigOK
<1>8. ElseInv
  BY <1>3 DEF ElseInv, StrangerSince, NoSession
<1>7. FileInv
  <2>1. Known(auth) /\ Known(tmp) /\ auth \in Issues \cup {None}
    BY <1>2, <1>4, BeginningsAssumption, ProcsAssumption, NoValueAssumption DEF Known, Issues
  <2>2. \A p \in Procs : SignInOK(p)
    BY <1>3, NoValueAssumption DEF SignInOK, NoLogin, Known, Issues
  <2> QED
    BY <1>3, <2>1, <2>2 DEF FileInv, FilesOK, Writing
<1> QED
  BY <1>1, <1>5, <1>6, <1>7, <1>8 DEF IInv

\* The inductive invariant: types, ports, configuration and credentials together.
THEOREM InvariantHolds == Spec => []IInv
<1>1. IInv /\ [Next]_vars => IInv'
  BY TypesKept, PortsKept, ElseKept, ConfigKept, FilesKept DEF IInv
<1> QED
  BY InitHolds, <1>1, PTL DEF Spec

\* However many processes sign in, refresh, are killed or started again, the
\* credentials file is cut short or garbled only after two of them wrote at once.
THEOREM CredentialsStayWhole == Spec => []WholeUnlessRaced
<1>1. IInv => WholeUnlessRaced
  BY DEF IInv, FileInv, FilesOK, WholeUnlessRaced
<1> QED
  BY InvariantHolds, <1>1, PTL

\* Claude runs behind its own session's proxy, unless another process took the port.
THEOREM ClaudeBehindOwnProxy == Spec => []PrivateUnlessPortTaken
<1>1. IInv => PrivateUnlessPortTaken
  BY DEF IInv, PortInv, PortOK, Waited, Behind, PrivateUnlessPortTaken
<1> QED
  BY InvariantHolds, <1>1, PTL

\* No session's port gets into the configuration file.
THEOREM SessionPortNotSaved == Spec => []PrivatePortNotSaved
<1>1. IInv => PrivatePortNotSaved
  BY DEF IInv, ConfigInv, PrivatePortNotSaved
<1> QED
  BY InvariantHolds, <1>1, PTL

\* A step outside a sign-in does not take a process back to where a sign-in began.
LEMMA OnlySigningReturns ==
  ASSUME TypeOK, NEW p \in Procs, NEW q \in Procs, pc[q] \in {"source", "rename"},
         pc'[q] \in {"check", "claude"},
         Start(p) \/ OwnStep(p) \/ ProxyStep(p) \/ UserStep(p) \/ Kill(p)
  PROVE  q = p /\ SigningIn(p)
<1>1. CASE Start(p)
  <2>1. PICK session, place, login : Beginning(p, session, place, login)
    BY <1>1, StartBegins
  <2>2. pc[p] = "gone" /\ \A r \in Procs \ {p} : pc'[r] = pc[r]
    BY <2>1, BeginMoves DEF Beginning, Begin, Alive, OthersStay
  <2> QED
    BY <2>2
<1>2. CASE SigningIn(p)
  BY <1>2, SigningMoves
<1>3. CASE StopProxy(p)
  BY <1>3 DEF StopProxy, TypeOK, ProcessTypes
<1>4. CASE (OwnStep(p) \/ UserStep(p)) /\ ~SigningIn(p) /\ ~StopProxy(p)
  <2>1. pc[p] \notin {"source", "rename"}
    BY <1>4 DEF OwnStep, UserStep, DueForCheck, CheckAnswered, FindPort, NoPortLeft, Poll, CheckHealth,
       StartClaude, ReadPid,
       ProxyStatus, RemovePid, AnswerUpdate, AnswerAsk, RetryClaude, ClaudeEnds
  <2> QED
    BY <1>4, <2>1, AsideMoves DEF Aside
<1>5. CASE (ProxyStep(p) \/ Kill(p)) /\ ~SigningIn(p) /\ ~StopProxy(p)
  <2>1. \A r \in Procs \ {p} : pc'[r] = pc[r]
    BY <1>5, AsideMoves DEF Aside
  <2>2. pc' = pc \/ pc'[p] = "gone"
    BY <1>5, EndMoves, GoMoves DEF ProxyStep, BindProxy, BindFails, ProxyFails, WritePid,
       Fail, Kill
  <2> QED
    BY <2>1, <2>2
<1> QED
  BY <1>1, <1>2, <1>3, <1>4, <1>5

\* A sign-in that goes back to its launcher leaves another token than the one seen.
LEMMA ReturnsWithAnother ==
  ASSUME IInv, NEW p \in Procs, SigningIn(p), ~raced, lg[p].back # "gone",
         pc[p] \in {"source", "rename"}, pc'[p] = lg[p].back
  PROVE  auth' # lg[p].seen
<1>1. /\ lg[p] \in SignIns /\ lg[p].back \in {"check", "claude"} /\ SignInOK(p) /\ FilesOK
      /\ lg[p].how # "external"
  BY DEF IInv, TypeOK, ProcessTypes, FileInv, SignIns, Backs, SignInOK
<1>2. ~Fail(p)
  BY <1>1, EndMoves DEF Fail, IInv
<1>3. pc'[p] \notin SigningPlaces
  BY <1>1 DEF SigningPlaces
<1>4. UseExisting(p) \/ Rename(p)
  BY <1>1, <1>2, <1>3, GoMoves DEF SigningPlaces, IInv, SigningIn, LoginStep, BeginLogin,
     LoginExternal, OpenBrowser,
     RequestDeviceCode, SignsIn, BindCallback, TakeCode, CallbackTimeout, DevicePoll, ExchangeCode,
     RefreshRead, RefreshReply, OpenTmp, Fill
<1>5. CASE UseExisting(p)
  <2>1. auth' = auth /\ auth \in Issues /\ ~lg[p].force
    BY <1>5 DEF UseExisting, Readable, fileVars
  <2> QED
    BY <1>1, <2>1 DEF SignInOK
<1>6. CASE Rename(p)
  <2>1. auth' = tmp
    BY <1>2, <1>6 DEF Rename
  <2>2. tmp = lg[p].got /\ lg[p].got # lg[p].seen
    BY <1>1, <1>6 DEF Rename, FilesOK, SignInOK
  <2> QED
    BY <2>1, <2>2
<1> QED
  BY <1>4, <1>5, <1>6

\* A sign-in that a launcher accepted because the token was old or missing has, when it
\* is reported to have worked, left another token in the file than the one seen.
THEOREM ReauthLeavesAnother == Spec => ReauthReplacesToken
<1> DEFINE Replaces ==
      \A p \in Procs :
        lg[p].back # "gone" /\ pc[p] \in {"source", "rename"} /\ pc'[p] = lg[p].back
        => raced \/ auth' # lg[p].seen
<1>1. ASSUME IInv, [Next]_vars
      PROVE  [Replaces]_vars
  <2>1. SUFFICES ASSUME NEW q \in Procs, ~raced, lg[q].back # "gone", pc[q] \in {"source",
    "rename"},
                        pc'[q] = lg[q].back
                 PROVE  auth' # lg[q].seen
    OBVIOUS
  <2>2. pc'[q] \in {"check", "claude"}
    BY <1>1, <2>1 DEF IInv, TypeOK, ProcessTypes, SignIns, Backs
  <2>3. PICK p \in Procs : Start(p) \/ OwnStep(p) \/ ProxyStep(p) \/ UserStep(p) \/ Kill(p)
    BY <1>1, <2>1, <2>2 DEF Next, UserApproves, Approve, TimePasses, StrangerBinds, StrangerEnds,
       vars, loginVars
  <2>4. q = p /\ SigningIn(p)
    BY <1>1, <2>1, <2>2, <2>3, OnlySigningReturns DEF IInv
  <2> QED
    BY <1>1, <2>1, <2>4, ReturnsWithAnother
<1> QED
  BY InvariantHolds, <1>1, PTL DEF Spec, ReauthReplacesToken

-----------------------------------------------------------------------------
(* The relay around a session: numbers and texts *)

\* A set of numbers has a least element.
LEMMA LeastElement ==
  ASSUME NEW I \in SUBSET Nat, I # {}
  PROVE  Min(I) \in I /\ \A j \in I : Min(I) <= j
<1> DEFINE R == OpToRel(<, Nat)
<1>1. IsWellFoundedOn(R, Nat)
  BY NatLessThanWellFounded
<1>2. \A i, j \in Nat : <<j, i>> \in R <=> j < i
  BY DEF OpToRel
<1> HIDE DEF R
<1>3. \E i \in I : \A j \in I : ~ (<<j, i>> \in R)
  BY <1>1, WFMin
<1>4. \E i \in I : \A j \in I : i <= j
  <2>1. PICK i \in I : \A j \in I : ~ (<<j, i>> \in R)
    BY <1>3
  <2>2. \A j \in I : ~(j < i)
    BY <1>2, <2>1
  <2> QED
    BY <2>2
<1> QED
  BY <1>4 DEF Min

\* A bounded one has a greatest.
LEMMA GreatestElement ==
  ASSUME NEW I \in SUBSET Nat, I # {}, NEW n \in Nat, \A i \in I : i <= n
  PROVE  Max(I) \in I /\ \A j \in I : j <= Max(I)
<1> DEFINE J == {n - i : i \in I}
<1>1. J \in SUBSET Nat /\ J # {}
  <2>1. \A i \in I : n - i \in Nat
    OBVIOUS
  <2> QED
    BY <2>1
<1>2. PICK m \in J : \A j \in J : m <= j
  BY <1>1, LeastElement
<1>3. PICK i \in I : m = n - i
  OBVIOUS
<1>4. \A j \in I : i >= j
  <2>1. TAKE j \in I
  <2>2. m <= n - j
    BY <1>2
  <2> QED
    BY <1>3, <2>2
<1> QED
  BY <1>4 DEF Max

\* A text cut in two.
LEMMA CutInTwo ==
  ASSUME NEW S, NEW s \in Seq(S), NEW k \in 0..Len(s)
  PROVE  /\ SubSeq(s, 1, k) \in Seq(S) /\ Len(SubSeq(s, 1, k)) = k
         /\ \A i \in 1..k : SubSeq(s, 1, k)[i] = s[i]
         /\ SubSeq(s, k + 1, Len(s)) \in Seq(S) /\ Len(SubSeq(s, k + 1, Len(s))) = Len(s) - k
         /\ \A i \in 1..(Len(s) - k) : SubSeq(s, k + 1, Len(s))[i] = s[k + i]
         /\ SubSeq(s, 1, k) \o SubSeq(s, k + 1, Len(s)) = s
<1>1. /\ SubSeq(s, 1, k) \in Seq(S) /\ Len(SubSeq(s, 1, k)) = k
      /\ \A i \in 1..k : SubSeq(s, 1, k)[i] = s[i]
  OBVIOUS
<1>2. /\ SubSeq(s, k + 1, Len(s)) \in Seq(S) /\ Len(SubSeq(s, k + 1, Len(s))) = Len(s) - k
      /\ \A i \in 1..(Len(s) - k) : SubSeq(s, k + 1, Len(s))[i] = s[k + i]
  OBVIOUS
<1>3. SubSeq(s, 1, k) \o SubSeq(s, k + 1, Len(s)) = s
  <2>1. 1 \in 1..Len(s) + 1 /\ k \in 1 - 1..Len(s) /\ Len(s) \in k..Len(s)
    OBVIOUS
  <2> QED
    BY <2>1, ConcatAdjacentSubSeq, SubSeqFull
<1> QED
  BY <1>1, <1>2, <1>3

\* The place of the last newline of a text, 0 for none.
LastNewline(text) == SelectLastInSeq(text, LAMBDA b : b = "nl")

LEMMA LastNewlineIs ==
  ASSUME NEW text \in Seq(Bytes)
  PROVE  /\ LastNewline(text) \in 0..Len(text)
         /\ LastNewline(text) # 0 => text[LastNewline(text)] = "nl"
         /\ \A i \in 1..Len(text) : text[i] = "nl" => i <= LastNewline(text)
<1> DEFINE I == {i \in 1..Len(text) : text[i] = "nl"}
<1>1. LastNewline(text) = IF I # {} THEN Max(I) ELSE 0
  BY DEF LastNewline, SelectLastInSeq
<1>2. I \in SUBSET Nat /\ Len(text) \in Nat /\ \A i \in I : i <= Len(text)
  OBVIOUS
<1>3. I # {} => Max(I) \in I /\ \A j \in I : j <= Max(I)
  BY <1>2, GreatestElement
<1>4. CASE I = {}
  <2>1. LastNewline(text) = 0
    BY <1>1, <1>4
  <2>2. \A i \in 1..Len(text) : text[i] # "nl"
    BY <1>4
  <2> HIDE DEF I
  <2> QED
    BY <2>1, <2>2, <1>2
<1>5. CASE I # {}
  BY <1>1, <1>3, <1>5
<1> QED
  BY <1>4, <1>5

\* Both parts of a text, and what they make together.
LEMMA LinesAndRest ==
  ASSUME NEW text \in Seq(Bytes)
  PROVE  /\ LinesOf(text) \in Seq(Bytes) /\ RestOf(text) \in Seq(Bytes)
         /\ LinesOf(text) \o RestOf(text) = text
         /\ Len(LinesOf(text)) = LastNewline(text)
         /\ \A i \in 1..Len(LinesOf(text)) : LinesOf(text)[i] = text[i]
<1>1. LastNewline(text) \in 0..Len(text)
  BY LastNewlineIs
<1>2. /\ LinesOf(text) = SubSeq(text, 1, LastNewline(text))
      /\ RestOf(text) = SubSeq(text, LastNewline(text) + 1, Len(text))
  BY DEF LastNewline, LinesOf, RestOf
<1> DEFINE k == LastNewline(text)
<1>3. /\ SubSeq(text, 1, k) \in Seq(Bytes) /\ Len(SubSeq(text, 1, k)) = k
      /\ \A i \in 1..k : SubSeq(text, 1, k)[i] = text[i]
      /\ SubSeq(text, k + 1, Len(text)) \in Seq(Bytes)
      /\ SubSeq(text, 1, k) \o SubSeq(text, k + 1, Len(text)) = text
  BY <1>1, CutInTwo
<1> QED
  BY <1>2, <1>3

-----------------------------------------------------------------------------
(* Characters *)

LEMMA LengthIs ==
  \A b : Length(b) \in 1..3 /\ (b = "c" => Length(b) = 1)
BY DEF Length

\* Every byte that continues a character follows that character's first.
Led(s) ==
  \A i \in DOMAIN s : s[i] = "c" =>
    \E j \in 1..(i - 1) : i < j + Length(s[j]) /\ \A k \in (j + 1)..i : s[k] = "c"

\* Every character has all of its bytes.
Complete(s) ==
  \A i \in DOMAIN s : s[i] # "c" =>
    \A k \in 1..(Length(s[i]) - 1) : i + k \in DOMAIN s /\ s[i + k] = "c"

LEMMA Utf8Is ==
  ASSUME NEW s
  PROVE  IsUtf8(s) <=> Led(s) /\ Complete(s)
BY DEF IsUtf8, Led, Complete

\* One text after the other is whole characters if both are.
LEMMA Utf8Join ==
  ASSUME NEW s \in Seq(Bytes), NEW t \in Seq(Bytes), IsUtf8(s), IsUtf8(t)
  PROVE  IsUtf8(s \o t)
<1> DEFINE n == Len(s)
           m == Len(t)
           u == s \o t
<1>1. /\ n \in Nat /\ m \in Nat /\ DOMAIN s = 1..n /\ DOMAIN t = 1..m /\ DOMAIN u = 1..(n + m)
      /\ \A i \in 1..n : u[i] = s[i]
      /\ \A i \in 1..m : u[n + i] = t[i]
  BY ConcatProperties
<1>2. Led(s) /\ Complete(s) /\ Led(t) /\ Complete(t)
  BY Utf8Is
<1> HIDE DEF n, m, u
<1>3. Led(u)
  <2> SUFFICES ASSUME NEW i \in 1..(n + m), u[i] = "c"
               PROVE  \E j \in 1..(i - 1) : i < j + Length(u[j]) /\ \A k \in (j + 1)..i : u[k] = "c"
    BY <1>1 DEF Led
  <2>1. CASE i <= n
    <3>1. i \in 1..n /\ s[i] = "c"
      BY <1>1, <2>1
    <3>2. PICK j \in 1..(i - 1) : i < j + Length(s[j]) /\ \A k \in (j + 1)..i : s[k] = "c"
      BY <1>1, <1>2, <3>1 DEF Led
    <3>3. u[j] = s[j] /\ \A k \in (j + 1)..i : u[k] = s[k]
      BY <1>1, <2>1
    <3> QED
      BY <3>2, <3>3
  <2>2. CASE i > n
    <3>1. i - n \in 1..m /\ t[i - n] = "c"
      <4>1. i - n \in 1..m /\ n + (i - n) = i
        BY <1>1, <2>2
      <4> QED
        BY <1>1, <4>1
    <3>2. PICK j \in 1..((i - n) - 1) : i - n < j + Length(t[j]) /\ \A k \in (j + 1)..(i - n) : t[k] = "c"
      BY <1>1, <1>2, <3>1 DEF Led
    <3>3. n + j \in 1..(i - 1) /\ u[n + j] = t[j]
      BY <1>1, <2>2
    <3>4. i < (n + j) + Length(u[n + j])
      BY <1>1, <3>2, <3>3, LengthIs
    <3>5. \A k \in ((n + j) + 1)..i : u[k] = "c"
      <4>1. TAKE k \in ((n + j) + 1)..i
      <4>2. k - n \in (j + 1)..(i - n) /\ k - n \in 1..m /\ n + (k - n) = k
        BY <1>1, <2>2
      <4> QED
        BY <1>1, <3>2, <4>2
    <3> QED
      BY <3>3, <3>4, <3>5
  <2> QED
    BY <1>1, <2>1, <2>2
<1>4. Complete(u)
  <2> SUFFICES ASSUME NEW i \in 1..(n + m), u[i] # "c", NEW k \in 1..(Length(u[i]) - 1)
               PROVE  i + k \in 1..(n + m) /\ u[i + k] = "c"
    BY <1>1 DEF Complete
  <2>1. CASE i <= n
    <3>1. i \in 1..n /\ s[i] = u[i]
      BY <1>1, <2>1
    <3>2. i + k \in 1..n /\ s[i + k] = "c"
      BY <1>1, <1>2, <3>1 DEF Complete
    <3> QED
      BY <1>1, <3>2
  <2>2. CASE i > n
    <3>1. i - n \in 1..m /\ n + (i - n) = i
      BY <1>1, <2>2
    <3>2. t[i - n] = u[i]
      BY <1>1, <3>1
    <3>3. (i - n) + k \in 1..m /\ t[(i - n) + k] = "c"
      BY <1>1, <1>2, <3>1, <3>2 DEF Complete
    <3>4. n + ((i - n) + k) = i + k
      BY <1>1, <2>2, LengthIs
    <3> QED
      BY <1>1, <3>3, <3>4
  <2> QED
    BY <1>1, <2>1, <2>2
<1> QED
  BY <1>3, <1>4, Utf8Is DEF u

\* What follows whole characters in a text of whole characters is whole characters.
LEMMA Utf8Cut ==
  ASSUME NEW s \in Seq(Bytes), NEW t \in Seq(Bytes), IsUtf8(s), IsUtf8(s \o t)
  PROVE  IsUtf8(t)
<1> DEFINE n == Len(s)
           m == Len(t)
           u == s \o t
<1>1. /\ n \in Nat /\ m \in Nat /\ DOMAIN s = 1..n /\ DOMAIN t = 1..m /\ DOMAIN u = 1..(n + m)
      /\ \A i \in 1..n : u[i] = s[i]
      /\ \A i \in 1..m : u[n + i] = t[i]
  BY ConcatProperties
<1>2. Led(s) /\ Complete(s) /\ Led(u) /\ Complete(u)
  BY Utf8Is
<1> HIDE DEF n, m, u
<1>3. Led(t)
  <2> SUFFICES ASSUME NEW i \in 1..m, t[i] = "c"
               PROVE  \E j \in 1..(i - 1) : i < j + Length(t[j]) /\ \A k \in (j + 1)..i : t[k] = "c"
    BY <1>1 DEF Led
  <2>1. n + i \in 1..(n + m) /\ u[n + i] = "c"
    BY <1>1
  <2>2. PICK j \in 1..((n + i) - 1) : n + i < j + Length(u[j]) /\ \A k \in (j + 1)..(n + i) : u[k] = "c"
    BY <1>1, <1>2, <2>1 DEF Led
  <2>3. j > n
    <3> SUFFICES ASSUME j <= n PROVE FALSE
      BY <1>1
    <3>1. j \in 1..n /\ u[j] = s[j]
      BY <1>1
    <3>2. s[j] # "c"
      BY <2>2, <3>1, <1>1, LengthIs
    <3>3. (n + i) - j \in 1..(Length(s[j]) - 1)
      BY <2>2, <3>1, <1>1, LengthIs
    <3>4. j + ((n + i) - j) \in 1..n
      BY <1>1, <1>2, <3>1, <3>2, <3>3 DEF Complete
    <3> QED
      BY <3>4, <1>1
  <2>4. j - n \in 1..(i - 1) /\ j - n \in 1..m /\ n + (j - n) = j
    BY <1>1, <2>3
  <2>5. u[j] = t[j - n]
    BY <1>1, <2>4
  <2>6. i < (j - n) + Length(t[j - n])
    BY <1>1, <2>2, <2>5, LengthIs
  <2>7. \A k \in ((j - n) + 1)..i : t[k] = "c"
    <3>1. TAKE k \in ((j - n) + 1)..i
    <3>2. k \in 1..m /\ n + k \in (j + 1)..(n + i)
      BY <1>1, <2>3
    <3> QED
      BY <1>1, <2>2, <3>2
  <2> QED
    BY <2>4, <2>6, <2>7
<1>4. Complete(t)
  <2> SUFFICES ASSUME NEW i \in 1..m, t[i] # "c", NEW k \in 1..(Length(t[i]) - 1)
               PROVE  i + k \in 1..m /\ t[i + k] = "c"
    BY <1>1 DEF Complete
  <2>1. n + i \in 1..(n + m) /\ u[n + i] = t[i]
    BY <1>1
  <2>2. (n + i) + k \in 1..(n + m) /\ u[(n + i) + k] = "c"
    BY <1>1, <1>2, <2>1 DEF Complete
  <2>3. i + k \in 1..m /\ n + (i + k) = (n + i) + k
    BY <1>1, <2>2, LengthIs
  <2> QED
    BY <1>1, <2>2, <2>3
<1> QED
  BY <1>3, <1>4, Utf8Is

\* The last place in s where a character starts, among the last four.
Heads(s) == {i \in DOMAIN s : i > Len(s) - 4 /\ s[i] # "c"}

LEMMA HeadsAre ==
  ASSUME NEW s \in Seq(Bytes), Heads(s) # {}
  PROVE  /\ Max(Heads(s)) \in 1..Len(s) /\ s[Max(Heads(s))] # "c"
         /\ \A i \in 1..Len(s) : i > Max(Heads(s)) => s[i] = "c"
<1> DEFINE I == Heads(s)
<1>1. Len(s) \in Nat /\ DOMAIN s = 1..Len(s)
  OBVIOUS
<1>2. I \in SUBSET Nat /\ \A i \in I : i <= Len(s)
  BY <1>1 DEF Heads
<1>3. Max(I) \in I /\ \A j \in I : j <= Max(I)
  BY <1>1, <1>2, GreatestElement
<1>4. Max(I) \in 1..Len(s) /\ Max(I) > Len(s) - 4 /\ s[Max(I)] # "c"
  BY <1>1, <1>3 DEF Heads
<1>5. \A i \in 1..Len(s) : i > Max(I) => s[i] = "c"
  <2> SUFFICES ASSUME NEW i \in 1..Len(s), i > Max(I), s[i] # "c" PROVE FALSE
    OBVIOUS
  <2>1. i \in I
    BY <1>1, <1>4 DEF Heads
  <2> QED
    BY <1>3, <1>4, <2>1
<1> QED
  BY <1>4, <1>5

LEMMA SafeEndIs ==
  ASSUME NEW s \in Seq(Bytes)
  PROVE  /\ Utf8SafeEnd(s) \in 0..Len(s)
         /\ Utf8SafeEnd(s) # 0 =>
              /\ Heads(s) # {}
              /\ \/ Utf8SafeEnd(s) = Max(Heads(s)) - 1
                 \/ Utf8SafeEnd(s) = Len(s) /\ Max(Heads(s)) + Length(s[Max(Heads(s))]) <= Len(s) + 1
<1>1. Utf8SafeEnd(s) =
        IF Heads(s) = {} THEN 0
        ELSE IF Max(Heads(s)) + Length(s[Max(Heads(s))]) > Len(s) + 1 THEN Max(Heads(s)) - 1
        ELSE Len(s)
  BY DEF Utf8SafeEnd, Heads
<1>2. Len(s) \in Nat
  OBVIOUS
<1>3. CASE Heads(s) = {}
  BY <1>1, <1>2, <1>3
<1>4. CASE Heads(s) # {}
  <2> DEFINE h == Max(Heads(s))
             l == Length(s[h])
  <2>1. h \in 1..Len(s) /\ l \in 1..3
    BY <1>4, HeadsAre, LengthIs
  <2>2. Utf8SafeEnd(s) = IF h + l > Len(s) + 1 THEN h - 1 ELSE Len(s)
    BY <1>1, <1>4
  <2> HIDE DEF h, l
  <2>3. /\ Utf8SafeEnd(s) \in 0..Len(s)
        /\ Utf8SafeEnd(s) = h - 1 \/ (Utf8SafeEnd(s) = Len(s) /\ h + l <= Len(s) + 1)
    BY <1>2, <2>1, <2>2
  <2> QED
    BY <1>4, <2>3 DEF h, l
<1> QED
  BY <1>3, <1>4

\* What find_utf8_safe_end takes of a stream of whole characters is whole characters.
LEMMA WholeIsUtf8 ==
  ASSUME NEW s \in Seq(Bytes), NEW t \in Seq(Bytes), IsUtf8(s \o t)
  PROVE  IsUtf8(SubSeq(s, 1, Utf8SafeEnd(s)))
<1> DEFINE e == Utf8SafeEnd(s)
           n == Len(s)
           m == Len(t)
           u == s \o t
           w == SubSeq(s, 1, e)
<1>1. /\ n \in Nat /\ m \in Nat /\ DOMAIN s = 1..n /\ DOMAIN u = 1..(n + m)
      /\ \A i \in 1..n : u[i] = s[i]
  BY ConcatProperties
<1>2. e \in 0..n
  BY SafeEndIs
<1>3. Led(u) /\ Complete(u)
  BY Utf8Is
<1>4. w \in Seq(Bytes) /\ Len(w) = e /\ \A i \in 1..e : w[i] = s[i]
  BY <1>2, CutInTwo
<1>5. DOMAIN w = 1..e
  BY <1>4
<1>6. ASSUME e # 0
      PROVE  /\ Heads(s) # {}
             /\ \/ e = Max(Heads(s)) - 1
                \/ e = n /\ Max(Heads(s)) + Length(s[Max(Heads(s))]) <= n + 1
  BY <1>6, SafeEndIs
<1> DEFINE h == Max(Heads(s))
<1>7. ASSUME e # 0
      PROVE  /\ h \in 1..n /\ s[h] # "c"
             /\ \A i \in 1..n : i > h => s[i] = "c"
  BY <1>6, <1>7, HeadsAre
<1>8. ASSUME e # 0
      PROVE  e = h - 1 \/ (e = n /\ h + Length(s[h]) <= n + 1)
  BY <1>6, <1>8
<1> HIDE DEF e, n, m, u, w, h
<1>9. Led(w)
  <2> SUFFICES ASSUME NEW i \in 1..e, w[i] = "c"
               PROVE  \E j \in 1..(i - 1) : i < j + Length(w[j]) /\ \A k \in (j + 1)..i : w[k] = "c"
    BY <1>5 DEF Led
  <2>1. i \in 1..(n + m) /\ u[i] = "c"
    BY <1>1, <1>2, <1>4
  <2>2. PICK j \in 1..(i - 1) : i < j + Length(u[j]) /\ \A k \in (j + 1)..i : u[k] = "c"
    BY <1>1, <1>3, <2>1 DEF Led
  <2>3. u[j] = w[j] /\ \A k \in (j + 1)..i : u[k] = w[k]
    BY <1>1, <1>2, <1>4
  <2> QED
    BY <2>2, <2>3
<1>10. Complete(w)
  <2> SUFFICES ASSUME NEW i \in 1..e, w[i] # "c", NEW k \in 1..(Length(w[i]) - 1)
               PROVE  i + k \in 1..e /\ w[i + k] = "c"
    BY <1>5 DEF Complete
  <2>1. i \in 1..(n + m) /\ i \in 1..n /\ u[i] = w[i] /\ s[i] = w[i]
    BY <1>1, <1>2, <1>4
  <2>2. i + k \in 1..(n + m) /\ u[i + k] = "c"
    BY <1>1, <1>3, <2>1 DEF Complete
  <2>3. e # 0 /\ i <= h
    <3>1. e # 0
      BY <1>2
    <3> QED
      BY <1>1, <1>7, <2>1, <3>1
  <2>4. i + k \in 1..e
    <3>1. CASE i = h
      <4>1. e = n /\ h + Length(s[h]) <= n + 1
        BY <1>2, <1>8, <2>3, <3>1, <1>7
      <4> QED
        BY <1>2, <2>1, <3>1, <4>1, LengthIs
    <3>2. CASE i < h
      <4>1. i + k < h
        <5> SUFFICES ASSUME i + k >= h PROVE FALSE
          BY <1>7, <2>3, LengthIs
        <5>1. h - i \in 1..(Length(w[i]) - 1) /\ i + (h - i) = h
          BY <1>7, <2>3, <3>2, LengthIs
        <5>2. u[h] = "c"
          BY <1>1, <1>3, <2>1, <5>1 DEF Complete
        <5> QED
          BY <1>1, <1>7, <2>3, <5>2
      <4>2. h - 1 <= e
        BY <1>1, <1>7, <1>8, <2>3
      <4> QED
        BY <1>2, <1>7, <2>3, <4>1, <4>2, LengthIs
    <3> QED
      BY <2>3, <1>7, <3>1, <3>2
  <2> QED
    BY <1>1, <1>2, <1>4, <2>2, <2>4
<1> QED
  BY <1>9, <1>10, Utf8Is DEF w, e

\* Concatenation, as a name: the provers lose themselves in the elements of texts.
Join(s, t) == s \o t

LEMMA Joins ==
  /\ \A s, t \in Seq(Bytes) : Join(s, t) \in Seq(Bytes)
  /\ \A s, t, u \in Seq(Bytes) : Join(Join(s, t), u) = Join(s, Join(t, u))
BY ConcatProperties, ConcatAssociative DEF Join

\* A read keeps everything the child has printed: what is decoded (w), what is kept for
\* later (r) and what stays in the pseudo-terminal follow what was there.
ReadOf(S, B, R, M, T, n, data, S2, B2) ==
  /\ S \in Seq(Bytes) /\ B \in Seq(Bytes) /\ R \in Seq(Bytes) /\ M \in Seq(Bytes)
  /\ T \in Seq(Bytes) /\ n \in 0..Len(M) /\ data = R \o SubSeq(M, 1, n)
  /\ IsUtf8(S \o B) /\ IsUtf8((((S \o B) \o R) \o M) \o T)
  /\ S2 \in Seq(Bytes) /\ B2 \in Seq(Bytes) /\ S2 \o B2 = S \o (B \o Decoded(data))

Keeps(S, B, R, M, n, data, S2, B2) ==
  /\ IsUtf8(S2 \o B2)
  /\ ((S2 \o B2) \o SubSeq(data, Utf8SafeEnd(data) + 1, Len(data))) \o SubSeq(M, n + 1, Len(M))
       = ((S \o B) \o R) \o M

LEMMA ReadKeepsAll ==
  ASSUME NEW S, NEW B, NEW R, NEW M, NEW T, NEW n, NEW data, NEW S2, NEW B2,
         ReadOf(S, B, R, M, T, n, data, S2, B2)
  PROVE  Keeps(S, B, R, M, n, data, S2, B2)
<1> SUFFICES ASSUME S \in Seq(Bytes), B \in Seq(Bytes), R \in Seq(Bytes), M \in Seq(Bytes),
                    T \in Seq(Bytes), n \in 0..Len(M), data = R \o SubSeq(M, 1, n),
                    IsUtf8(S \o B), IsUtf8((((S \o B) \o R) \o M) \o T),
                    S2 \in Seq(Bytes), B2 \in Seq(Bytes), S2 \o B2 = S \o (B \o Decoded(data))
             PROVE  /\ IsUtf8(S2 \o B2)
                    /\ ((S2 \o B2) \o SubSeq(data, Utf8SafeEnd(data) + 1, Len(data))) \o SubSeq(M, n + 1, Len(M))
                         = ((S \o B) \o R) \o M
  BY DEF ReadOf, Keeps
<1> DEFINE P == S \o B
           M1 == SubSeq(M, 1, n)
           M2 == SubSeq(M, n + 1, Len(M))
           w == SubSeq(data, 1, Utf8SafeEnd(data))
           r == SubSeq(data, Utf8SafeEnd(data) + 1, Len(data))
<1>1. P \in Seq(Bytes)
  OBVIOUS
<1>2. M1 \in Seq(Bytes) /\ M2 \in Seq(Bytes) /\ M1 \o M2 = M
  BY CutInTwo
<1>3. data \in Seq(Bytes) /\ data = R \o M1
  BY <1>2, Joins DEF Join
<1>4. w \in Seq(Bytes) /\ r \in Seq(Bytes) /\ w \o r = data
  <2>1. Utf8SafeEnd(data) \in 0..Len(data)
    BY <1>3, SafeEndIs
  <2> QED
    BY <1>3, <2>1, CutInTwo
<1>5. (P \o R) \o M = ((P \o w) \o r) \o M2 /\ ((P \o R) \o M) \o T = P \o (data \o (M2 \o T))
  <2> HIDE DEF P, M1, M2, w, r
  <2>1. Join(w, r) = data /\ M = Join(M1, M2) /\ data = Join(R, M1)
    BY <1>2, <1>3, <1>4 DEF Join
  <2>2. PICK x \in Seq(Bytes) : x = Join(P, R)
    BY <1>1, Joins
  <2>3. PICK y \in Seq(Bytes) : y = Join(P, data)
    BY <1>1, <1>3, Joins
  <2>4. PICK z \in Seq(Bytes) : z = Join(M2, T)
    BY <1>2, Joins
  <2>5. Join(x, Join(M1, M2)) = Join(Join(x, M1), M2)
    BY <1>2, <2>2, Joins
  <2>6. Join(x, M1) = y
    BY <1>1, <1>2, <2>1, <2>2, <2>3, Joins
  <2>a. \A t, u \in Seq(Bytes) : Join(Join(P, t), u) = Join(P, Join(t, u))
    BY <1>1, Joins
  <2>7. Join(Join(P, w), r) = y
    <3>1. w \in Seq(Bytes) /\ r \in Seq(Bytes)
      BY <1>4
    <3>2. Join(Join(P, w), r) = Join(P, Join(w, r))
      BY <2>a, <3>1
    <3> QED
      BY <2>1, <2>3, <3>2
  <2>8. Join(Join(y, M2), T) = Join(y, z)
    BY <1>2, <2>3, <2>4, Joins
  <2>9. Join(y, z) = Join(P, Join(data, z))
    BY <1>3, <2>3, <2>4, <2>a
  <2>10. /\ Join(Join(P, R), M) = Join(Join(Join(P, w), r), M2)
         /\ Join(Join(Join(P, R), M), T) = Join(P, Join(data, Join(M2, T)))
    BY <2>1, <2>2, <2>4, <2>5, <2>6, <2>7, <2>8, <2>9
  <2> QED
    BY <2>10 DEF Join
<1>6. data \o (M2 \o T) \in Seq(Bytes) /\ M2 \o T \in Seq(Bytes)
  BY <1>2, <1>3, ConcatProperties
<1>7. IsUtf8(data \o (M2 \o T))
  BY <1>1, <1>5, <1>6, Utf8Cut
<1>8. IsUtf8(w) /\ Decoded(data) = w
  BY <1>3, <1>6, <1>7, WholeIsUtf8 DEF Decoded
<1>9. S2 \o B2 = P \o w
  <2>1. \A x \in Seq(Bytes) : (S \o B) \o x = S \o (B \o x)
    BY Joins DEF Join
  <2> QED
    BY <1>4, <1>8, <2>1
<1>10. IsUtf8(P \o w)
  BY <1>1, <1>4, <1>8, Utf8Join
<1> QED
  BY <1>5, <1>9, <1>10

-----------------------------------------------------------------------------
(* Lines that offer to resume *)

LEMMA MaxIs ==
  ASSUME NEW I \in SUBSET Nat, NEW m \in I, \A j \in I : j <= m
  PROVE  Max(I) = m
<1>1. Max(I) \in I /\ \A y \in I : Max(I) >= y
  BY DEF Max
<1>2. \A x \in I : (\A y \in I : x >= y) => x = m
  OBVIOUS
<1> QED
  BY <1>1, <1>2

LEMMA MinIs ==
  ASSUME NEW I \in SUBSET Nat, NEW m \in I, \A j \in I : m <= j
  PROVE  Min(I) = m
<1>1. Min(I) \in I /\ \A y \in I : Min(I) <= y
  BY LeastElement
<1>2. \A x \in I : (\A y \in I : x <= y) => x = m
  OBVIOUS
<1> QED
  BY <1>1, <1>2

\* t stands in s after the first k bytes.
Stands(t, s, k) ==
  /\ k + Len(t) <= Len(s)
  /\ \A j \in 1..Len(t) : s[k + j] = t[j]

LEMMA PartStands ==
  ASSUME NEW s \in Seq(Bytes), NEW t \in Seq(Bytes), NEW k \in Nat, Stands(t, s, k),
         NEW i \in 1..Len(t), NEW e \in 0..Len(t), i <= e + 1
  PROVE  SubSeq(s, k + i, k + e) = SubSeq(t, i, e)
<1> DEFINE a == SubSeq(s, k + i, k + e)
           b == SubSeq(t, i, e)
<1>1. Len(s) \in Nat /\ Len(t) \in Nat /\ k + Len(t) <= Len(s) /\ \A j \in 1..Len(t) : s[k + j] = t[j]
  BY DEF Stands
<1>2. /\ a \in Seq(Bytes) /\ Len(a) = (e - i) + 1
      /\ \A j \in 1..((e - i) + 1) : a[j] = s[(k + i) + j - 1]
  BY <1>1
<1>3. /\ b \in Seq(Bytes) /\ Len(b) = (e - i) + 1
      /\ \A j \in 1..((e - i) + 1) : b[j] = t[i + j - 1]
  BY <1>1
<1> HIDE DEF a, b
<1>4. \A j \in 1..((e - i) + 1) : a[j] = b[j]
  <2>1. TAKE j \in 1..((e - i) + 1)
  <2>2. i + j - 1 \in 1..Len(t) /\ k + (i + j - 1) = (k + i) + j - 1
    BY <1>1
  <2>3. s[(k + i) + j - 1] = t[i + j - 1]
    BY <1>1, <2>2
  <2> QED
    BY <1>2, <1>3, <2>3
<1>5. a = b
  BY <1>2, <1>3, <1>4, SeqEqual
<1> QED
  BY <1>5 DEF a, b

\* A line of t is one of s if t is the end of s, or ends with a line.
LEMMA LineStands ==
  ASSUME NEW s \in Seq(Bytes), NEW t \in Seq(Bytes), NEW k \in Nat, Stands(t, s, k),
         NEW i \in 1..Len(t), k + Len(t) = Len(s) \/ t[Len(t)] = "nl"
  PROVE  LineAt(s, k + i) = LineAt(t, i)
<1> DEFINE n == Len(t)
           m == Len(s)
           ends == {j \in i..n : t[j] = "nl"}
           Ends == {j \in (k + i)..m : s[j] = "nl"}
<1>1. n \in Nat /\ m \in Nat /\ k + n <= m /\ i \in 1..n /\ \A j \in 1..n : s[k + j] = t[j]
  BY DEF Stands
<1>2. k + n = m \/ t[n] = "nl"
  OBVIOUS
<1>3. /\ LineAt(s, k + i) = SubSeq(s, k + i, IF Ends = {} THEN m ELSE Min(Ends) - 1)
      /\ LineAt(t, i) = SubSeq(t, i, IF ends = {} THEN n ELSE Min(ends) - 1)
  BY DEF LineAt
<1>4. ASSUME NEW e \in 0..n, i <= e + 1
      PROVE  SubSeq(s, k + i, k + e) = SubSeq(t, i, e)
  BY <1>4, PartStands
<1>5. \A j \in i..n : j \in ends <=> k + j \in Ends
  BY <1>1
<1>6. \A j \in ends : j \in i..n /\ t[j] = "nl"
  OBVIOUS
<1>7. \A j \in Ends : j \in (k + i)..m /\ (j <= k + n => j - k \in ends)
  <2> SUFFICES ASSUME NEW j \in (k + i)..m, s[j] = "nl", j <= k + n
               PROVE  j - k \in ends
    OBVIOUS
  <2>1. j - k \in i..n /\ k + (j - k) = j
    BY <1>1
  <2>2. j - k \in 1..n
    BY <1>1, <2>1
  <2> QED
    BY <1>1, <2>1, <2>2
<1>8. n \in i..n /\ (t[n] = "nl" => n \in ends)
  BY <1>1
<1>9. ends \in SUBSET Nat /\ Ends \in SUBSET Nat
  BY <1>1
<1> HIDE DEF ends, Ends, n, m
<1>10. CASE ends = {}
  <2>1. k + n = m
    BY <1>2, <1>8, <1>10
  <2>2. Ends = {}
    BY <1>1, <1>7, <1>10, <2>1
  <2>3. LineAt(s, k + i) = SubSeq(s, k + i, k + n) /\ LineAt(t, i) = SubSeq(t, i, n)
    BY <1>3, <1>10, <2>1, <2>2
  <2> QED
    BY <1>1, <1>4, <2>3
<1>11. CASE ends # {}
  <2> DEFINE a == Min(ends)
  <2>1. a \in ends /\ \A j \in ends : a <= j
    BY <1>9, <1>11, LeastElement
  <2> HIDE DEF a
  <2>2. a \in i..n
    BY <1>6, <2>1
  <2>3. k + a \in Ends
    BY <1>5, <2>1, <2>2
  <2>4. \A j \in Ends : k + a <= j
    <3>1. TAKE j \in Ends
    <3>2. j \in (k + i)..m /\ (j <= k + n => j - k \in ends)
      BY <1>7
    <3> QED
      BY <1>1, <2>1, <2>2, <3>2
  <2>5. Min(Ends) = k + a
    BY <1>9, <2>3, <2>4, MinIs
  <2>6. LineAt(s, k + i) = SubSeq(s, k + i, (k + a) - 1) /\ LineAt(t, i) = SubSeq(t, i, a - 1)
    BY <1>3, <1>11, <2>3, <2>5 DEF a
  <2>7. a - 1 \in 0..n /\ i <= (a - 1) + 1 /\ (k + a) - 1 = k + (a - 1)
    BY <1>1, <2>2
  <2> QED
    BY <1>4, <2>6, <2>7
<1> QED
  BY <1>10, <1>11

\* So is an offer, if t starts with a line too.
LEMMA OfferStands ==
  ASSUME NEW s \in Seq(Bytes), NEW t \in Seq(Bytes), NEW k \in Nat, Stands(t, s, k),
         NEW i \in 1..Len(t), k + Len(t) = Len(s) \/ t[Len(t)] = "nl",
         k = 0 \/ s[k] = "nl"
  PROVE  k + i \in Offers(s) <=> i \in Offers(t)
<1>1. /\ k + Len(t) <= Len(s) /\ Len(t) \in Nat /\ Len(s) \in Nat
      /\ DOMAIN s = 1..Len(s) /\ DOMAIN t = 1..Len(t)
      /\ \A j \in 1..Len(t) : s[k + j] = t[j]
  BY DEF Stands
<1>2. LineAt(s, k + i) = LineAt(t, i)
  BY LineStands
<1>i. i \in Nat /\ 1 <= i /\ i <= Len(t)
  OBVIOUS
<1>3. k + i \in 1..Len(s) /\ s[k + i] = t[i]
  <2>1. k + i \in 1..Len(s)
    <3>1. PICK n, m : n = Len(t) /\ m = Len(s)
      OBVIOUS
    <3>2. n \in Nat /\ m \in Nat /\ i \in Nat /\ 1 <= i /\ i <= n /\ k + n <= m
      BY <1>1, <1>i, <3>1
    <3> QED
      BY <3>1, <3>2
  <2>2. s[k + i] = t[i]
    BY <1>1
  <2> QED
    BY <2>1, <2>2
<1>4. (k + i > 1 => s[(k + i) - 1] = "nl") <=> (i > 1 => t[i - 1] = "nl")
  <2>1. CASE i = 1
    <3>1. (k + i) - 1 = k
      BY <2>1
    <3> QED
      BY <2>1, <3>1
  <2>2. CASE i > 1
    <3>2. i - 1 \in 1..Len(t) /\ k + (i - 1) = (k + i) - 1 /\ k + i > 1
      BY <1>i, <2>2
    <3>3. s[(k + i) - 1] = t[i - 1]
      BY <1>1, <3>2
    <3> QED
      BY <2>2, <3>2, <3>3
  <2> QED
    BY <2>1, <2>2
<1>5. k + i \in Offers(s) <=> /\ s[k + i] = "p" /\ Len(LineAt(s, k + i)) > 1
                              /\ (k + i > 1 => s[(k + i) - 1] = "nl")
  BY <1>1, <1>3 DEF Offers
<1>6. i \in Offers(t) <=> t[i] = "p" /\ Len(LineAt(t, i)) > 1 /\ (i > 1 => t[i - 1] = "nl")
  BY <1>1 DEF Offers
<1> QED
  BY <1>2, <1>3, <1>4, <1>5, <1>6

LEMMA LastOfferIs ==
  ASSUME NEW s \in Seq(Bytes), Offers(s) # {}
  PROVE  /\ Offers(s) \in SUBSET (1..Len(s)) /\ Max(Offers(s)) \in Offers(s)
         /\ \A i \in Offers(s) : i <= Max(Offers(s))
<1>1. Offers(s) \in SUBSET (1..Len(s)) /\ Len(s) \in Nat
  BY DEF Offers
<1>2. Offers(s) \in SUBSET Nat /\ \A i \in Offers(s) : i <= Len(s)
  BY <1>1
<1> QED
  BY <1>1, <1>2, GreatestElement

\* The lines of the screen sh since the last one that a timeout cut in two, at c.
UncutOf(sh, c) ==
  LET ends == {j \in DOMAIN sh : j > c /\ sh[j] = "nl"}
  IN  IF c = 0 THEN sh
      ELSE IF ends = {} THEN << >>
      ELSE SubSeq(sh, Min(ends) + 1, Len(sh))

\* After the place c, s is empty or ends with a line.
Trim(s, c) == s = << >> \/ (c > 0 /\ Len(s) = c) \/ s[Len(s)] = "nl"

\* Where the uncut lines start.
LEMMA UncutIs ==
  ASSUME NEW s \in Seq(Bytes), NEW c \in 0..Len(s)
  PROVE  /\ UncutOf(s, c) \in Seq(Bytes)
         /\ \/ UncutOf(s, c) = << >> /\ c > 0 /\ \A j \in 1..Len(s) : j > c => s[j] # "nl"
            \/ \E v \in 0..Len(s) :
                 /\ Len(UncutOf(s, c)) = Len(s) - v
                 /\ \A j \in 1..(Len(s) - v) : UncutOf(s, c)[j] = s[v + j]
                 /\ IF c = 0 THEN v = 0
                    ELSE v > c /\ s[v] = "nl" /\ \A j \in 1..Len(s) : j > c /\ s[j] = "nl" => v <= j
<1> DEFINE ends == {j \in 1..Len(s) : j > c /\ s[j] = "nl"}
<1>1. DOMAIN s = 1..Len(s) /\ Len(s) \in Nat /\ c \in Nat
  OBVIOUS
<1>2. UncutOf(s, c) = IF c = 0 THEN s ELSE IF ends = {} THEN << >> ELSE SubSeq(s, Min(ends) + 1, Len(s))
  BY <1>1 DEF UncutOf
<1>3. CASE c = 0
  <2>1. UncutOf(s, c) = s
    BY <1>2, <1>3
  <2>2. \A j \in 1..(Len(s) - 0) : s[j] = s[0 + j]
    BY <1>1
  <2>3. 0 \in 0..Len(s) /\ Len(s) = Len(s) - 0
    BY <1>1
  <2> HIDE DEF ends
  <2> QED
    BY <1>3, <2>1, <2>2, <2>3
<1>4. CASE c # 0 /\ ends = {}
  <2>1. UncutOf(s, c) = << >>
    BY <1>2, <1>4
  <2>2. \A j \in 1..Len(s) : j > c => s[j] # "nl"
    BY <1>4
  <2>3. << >> \in Seq(Bytes) /\ c > 0
    BY <1>1, <1>4
  <2> HIDE DEF ends
  <2> QED
    BY <2>1, <2>2, <2>3
<1>5. CASE c # 0 /\ ends # {}
  <2>1. ends \in SUBSET Nat
    BY <1>1
  <2>2. PICK v : v = Min(ends)
    OBVIOUS
  <2>3. v \in ends /\ \A j \in ends : v <= j
    BY <1>5, <2>1, <2>2, LeastElement
  <2>4. v \in 1..Len(s) /\ v > c /\ s[v] = "nl" /\ \A j \in 1..Len(s) : j > c /\ s[j] = "nl" => v <= j
    BY <2>3
  <2>5. UncutOf(s, c) = SubSeq(s, v + 1, Len(s))
    BY <1>2, <1>5, <2>2
  <2>6. v \in 0..Len(s)
    BY <1>1, <2>4
  <2>7. /\ SubSeq(s, v + 1, Len(s)) \in Seq(Bytes) /\ Len(SubSeq(s, v + 1, Len(s))) = Len(s) - v
        /\ \A i \in 1..(Len(s) - v) : SubSeq(s, v + 1, Len(s))[i] = s[v + i]
    BY <2>6, CutInTwo
  <2> QED
    BY <1>5, <2>4, <2>5, <2>6, <2>7
<1> QED
  BY <1>3, <1>4, <1>5

\* The session known from the uncut lines of s is the last they offer.
SessionNamed(s, c, id) ==
  Offers(UncutOf(s, c)) # {} => id = Tail(LineAt(UncutOf(s, c), Max(Offers(UncutOf(s, c)))))

\* One more text L is looked at and shown: an offer among its lines is the last one; or
\* else the last one is where it was.
LEMMA ShowKeepsKnown ==
  ASSUME NEW s \in Seq(Bytes), NEW c \in 0..Len(s), NEW L \in Seq(Bytes), NEW id,
         Trim(s, c), SessionNamed(s, c, id)
  PROVE  SessionNamed(s \o L, c, DetectResume(L, id))
<1> DEFINE w == s \o L
           U == UncutOf(s, c)
           V == UncutOf(w, c)
<1>1. /\ w \in Seq(Bytes) /\ Len(w) = Len(s) + Len(L) /\ Len(s) \in Nat /\ Len(L) \in Nat
      /\ \A i \in 1..Len(s) : w[i] = s[i]
      /\ \A i \in 1..Len(L) : w[Len(s) + i] = L[i]
  BY ConcatProperties
<1>2. c \in 0..Len(w) /\ c \in Nat
  BY <1>1
<1>3. /\ V \in Seq(Bytes)
      /\ \/ V = << >>
         \/ \E v \in 0..Len(w) :
              /\ Len(V) = Len(w) - v
              /\ \A j \in 1..(Len(w) - v) : V[j] = w[v + j]
              /\ IF c = 0 THEN v = 0
                 ELSE v > c /\ w[v] = "nl" /\ \A j \in 1..Len(w) : j > c /\ w[j] = "nl" => v <= j
  BY <1>1, <1>2, UncutIs
<1>4. /\ U \in Seq(Bytes)
      /\ \/ U = << >> /\ c > 0 /\ \A j \in 1..Len(s) : j > c => s[j] # "nl"
         \/ \E v \in 0..Len(s) :
              /\ Len(U) = Len(s) - v
              /\ \A j \in 1..(Len(s) - v) : U[j] = s[v + j]
              /\ IF c = 0 THEN v = 0
                 ELSE v > c /\ s[v] = "nl" /\ \A j \in 1..Len(s) : j > c /\ s[j] = "nl" => v <= j
  BY UncutIs
<1>5. Offers(U) # {} => id = Tail(LineAt(U, Max(Offers(U))))
  BY DEF SessionNamed
<1>6. DetectResume(L, id) = IF Offers(L) = {} THEN id ELSE Tail(LineAt(L, Max(Offers(L))))
  BY DEF DetectResume
<1>7. s = << >> \/ (c > 0 /\ Len(s) = c) \/ s[Len(s)] = "nl"
  BY DEF Trim
<1> SUFFICES ASSUME Offers(V) # {}
             PROVE  DetectResume(L, id) = Tail(LineAt(V, Max(Offers(V))))
  BY DEF SessionNamed
<1> HIDE DEF w, U, V
<1>8. V # << >>
  BY <1>3, LastOfferIs, EmptySeq
<1>9. PICK v \in 0..Len(w) :
        /\ Len(V) = Len(w) - v
        /\ \A j \in 1..(Len(w) - v) : V[j] = w[v + j]
        /\ IF c = 0 THEN v = 0
           ELSE v > c /\ w[v] = "nl" /\ \A j \in 1..Len(w) : j > c /\ w[j] = "nl" => v <= j
  BY <1>3, <1>8
<1> DEFINE mV == Max(Offers(V))
           mL == Max(Offers(L))
           mU == Max(Offers(U))
<1>10. /\ mV \in 1..Len(V) /\ mV \in Offers(V) /\ Offers(V) \in SUBSET (1..Len(V))
       /\ \A i \in Offers(V) : i <= mV
  BY <1>3, LastOfferIs
<1>11. Offers(L) # {} => mL \in 1..Len(L) /\ mL \in Offers(L) /\ \A i \in Offers(L) : i <= mL
  BY LastOfferIs
<1>12. Offers(L) \in SUBSET (1..Len(L)) /\ Offers(U) \in SUBSET (1..Len(U))
  BY <1>4 DEF Offers
<1>13. CASE v <= Len(s)
  <2> DEFINE d == Len(s) - v
  <2>1. d \in Nat /\ v \in Nat /\ Len(V) = d + Len(L) /\ Len(w) = v + Len(V)
    BY <1>1, <1>9, <1>13
  <2>2. Len(U) = d /\ \A j \in 1..d : U[j] = s[v + j]
    <3>1. CASE c = 0
      BY <1>4, <1>9, <3>1
    <3>2. CASE c # 0
      <4>1. v > c /\ v \in 1..Len(s) /\ s[v] = "nl"
        BY <1>1, <1>2, <1>9, <1>13, <3>2
      <4>2. PICK u \in 0..Len(s) :
              /\ Len(U) = Len(s) - u
              /\ \A j \in 1..(Len(s) - u) : U[j] = s[u + j]
              /\ u > c /\ s[u] = "nl" /\ \A j \in 1..Len(s) : j > c /\ s[j] = "nl" => u <= j
        BY <1>2, <1>4, <3>2, <4>1
      <4>3. u <= v
        BY <4>1, <4>2
      <4>4. u \in 1..Len(w) /\ w[u] = "nl"
        BY <1>1, <1>2, <4>2
      <4>5. v <= u
        BY <1>9, <3>2, <4>2, <4>4
      <4>6. u = v
        BY <1>1, <4>1, <4>2, <4>3, <4>5
      <4> QED
        BY <4>2, <4>6
    <3> QED
      BY <3>1, <3>2
  <2>3. d = 0 \/ s[Len(s)] = "nl"
    <3> SUFFICES ASSUME d # 0 PROVE s[Len(s)] = "nl"
      OBVIOUS
    <3>1. s # << >>
      <4>1. Len(s) # 0
        BY <1>1, <2>1
      <4> QED
        BY <4>1, EmptySeq
    <3>2. ~(c > 0 /\ Len(s) = c)
      BY <1>1, <1>2, <1>9, <2>1
    <3> QED
      BY <1>7, <3>1, <3>2
  <2>4. Stands(L, V, d)
    <3>1. \A j \in 1..Len(L) : V[d + j] = L[j]
      <4>1. TAKE j \in 1..Len(L)
      <4>2. d + j \in 1..(Len(w) - v) /\ v + (d + j) = Len(s) + j
        BY <1>1, <2>1
      <4>3. V[d + j] = w[Len(s) + j]
        BY <1>9, <4>2
      <4> QED
        BY <1>1, <4>3
    <3> QED
      BY <2>1, <3>1 DEF Stands
  <2>5. Stands(U, V, 0)
    <3>1. \A j \in 1..d : V[0 + j] = U[j]
      <4>1. TAKE j \in 1..d
      <4>2. j \in 1..(Len(w) - v) /\ v + j \in 1..Len(s) /\ 0 + j = j
        BY <1>1, <2>1
      <4>3. V[j] = w[v + j] /\ U[j] = s[v + j]
        BY <1>9, <2>2, <4>2
      <4> QED
        BY <1>1, <4>2, <4>3
    <3>2. 0 + Len(U) <= Len(V)
      BY <1>1, <2>1, <2>2
    <3> QED
      BY <2>2, <3>1, <3>2 DEF Stands
  <2>6. d = 0 \/ (U[Len(U)] = "nl" /\ V[d] = "nl")
    <3> SUFFICES ASSUME d # 0 PROVE U[Len(U)] = "nl" /\ V[d] = "nl"
      OBVIOUS
    <3>1. d \in 1..d /\ v + d = Len(s) /\ d \in 1..(Len(w) - v) /\ Len(s) \in 1..Len(s)
      BY <1>1, <2>1
    <3>2. U[d] = s[Len(s)] /\ V[d] = w[Len(s)]
      BY <1>9, <2>2, <3>1
    <3> QED
      BY <1>1, <2>2, <2>3, <3>1, <3>2
  <2>7. d + Len(L) = Len(V)
    BY <2>1
  <2> HIDE DEF d
  <2>8. \A i \in 1..Len(L) : d + i \in Offers(V) <=> i \in Offers(L)
    BY <1>3, <2>1, <2>4, <2>6, <2>7, OfferStands
  <2>9. \A i \in 1..Len(L) : LineAt(V, d + i) = LineAt(L, i)
    BY <1>3, <2>1, <2>4, <2>7, LineStands
  <2>10. \A i \in 1..d : i \in Offers(V) <=> i \in Offers(U)
    <3>1. TAKE i \in 1..d
    <3>2. i \in 1..Len(U) /\ 0 + i = i /\ U[Len(U)] = "nl" /\ 0 \in Nat
      BY <2>1, <2>2, <2>6
    <3>3. 0 + i \in Offers(V) <=> i \in Offers(U)
      BY <1>3, <1>4, <2>5, <3>2, OfferStands
    <3> QED
      BY <3>2, <3>3
  <2>11. \A i \in 1..d : LineAt(V, i) = LineAt(U, i)
    <3>1. TAKE i \in 1..d
    <3>2. i \in 1..Len(U) /\ 0 + i = i /\ U[Len(U)] = "nl" /\ 0 \in Nat
      BY <2>1, <2>2, <2>6
    <3>3. LineAt(V, 0 + i) = LineAt(U, i)
      BY <1>3, <1>4, <2>5, <3>2, LineStands
    <3> QED
      BY <3>2, <3>3
  <2>12. CASE Offers(L) # {}
    <3>1. mL \in 1..Len(L) /\ mL \in Offers(L) /\ \A i \in Offers(L) : i <= mL
      BY <1>11, <2>12
    <3>2. d + mL \in Offers(V)
      BY <2>8, <3>1
    <3>3. mV >= d + mL
      BY <1>10, <3>2
    <3>4. mV - d \in 1..Len(L) /\ d + (mV - d) = mV
      BY <1>1, <1>10, <2>1, <3>1, <3>3
    <3>5. mV - d \in Offers(L)
      BY <1>10, <2>8, <3>4
    <3>6. mV - d = mL
      <4>1. mV - d <= mL
        BY <3>1, <3>5
      <4>2. mV \in Nat /\ mL \in Nat
        BY <1>1, <1>10, <2>1, <3>1
      <4> HIDE DEF mV, mL
      <4> QED
        BY <2>1, <3>3, <4>1, <4>2
    <3>7. LineAt(V, mV) = LineAt(L, mL)
      BY <2>9, <3>4, <3>6
    <3> QED
      BY <1>6, <2>12, <3>7
  <2>13. CASE Offers(L) = {}
    <3>1. mV <= d
      <4> SUFFICES ASSUME mV > d PROVE FALSE
        BY <1>10, <2>1, <1>1
      <4>1. mV - d \in 1..Len(L) /\ d + (mV - d) = mV
        BY <1>1, <1>10, <2>1
      <4> QED
        BY <1>10, <2>8, <2>13, <4>1
    <3>2. mV \in 1..d
      BY <1>1, <1>10, <2>1, <3>1
    <3>3. mV \in Offers(U)
      BY <1>10, <2>10, <3>2
    <3>4. \A i \in Offers(U) : i <= mV
      <4>1. TAKE i \in Offers(U)
      <4>2. i \in 1..d
        BY <1>12, <2>2
      <4> QED
        BY <1>10, <2>10, <4>2
    <3>5. Offers(U) \in SUBSET Nat
      BY <1>12, <2>1, <2>2
    <3>6. mU = mV
      BY <3>3, <3>4, <3>5, MaxIs
    <3>7. id = Tail(LineAt(U, mU))
      BY <1>5, <3>3
    <3> QED
      BY <1>6, <2>11, <2>13, <3>2, <3>6, <3>7
  <2> QED
    BY <2>12, <2>13
<1>14. CASE v > Len(s)
  <2> DEFINE d == v - Len(s)
  <2>1. d \in 1..Len(L) /\ v = Len(s) + d /\ Len(V) = Len(L) - d /\ d \in Nat /\ d # 0
    BY <1>1, <1>9, <1>14
  <2>2. L[d] = "nl"
    <3>1. v # 0
      BY <1>1, <2>1
    <3>2. w[v] = "nl"
      BY <1>9, <3>1
    <3> QED
      BY <1>1, <2>1, <3>2
  <2>3. Stands(V, L, d)
    <3>1. \A j \in 1..Len(V) : L[d + j] = V[j]
      <4>1. TAKE j \in 1..Len(V)
      <4>2. j \in 1..(Len(w) - v) /\ v + j = Len(s) + (d + j) /\ d + j \in 1..Len(L)
        BY <1>1, <1>9, <2>1
      <4>3. V[j] = w[Len(s) + (d + j)]
        BY <1>9, <4>2
      <4> QED
        BY <1>1, <4>2, <4>3
    <3>2. d + Len(V) <= Len(L)
      BY <1>1, <2>1
    <3> QED
      BY <3>1, <3>2 DEF Stands
  <2>4. d + Len(V) = Len(L)
    BY <1>1, <2>1
  <2> HIDE DEF d
  <2>5. \A i \in 1..Len(V) : d + i \in Offers(L) <=> i \in Offers(V)
    BY <1>3, <2>1, <2>2, <2>3, <2>4, OfferStands
  <2>6. \A i \in 1..Len(V) : LineAt(L, d + i) = LineAt(V, i)
    BY <1>3, <2>1, <2>3, <2>4, LineStands
  <2>7. d + mV \in Offers(L)
    BY <1>10, <2>5
  <2>8. \A i \in Offers(L) : i <= d + mV
    <3>1. TAKE i \in Offers(L)
    <3> SUFFICES ASSUME i > d + mV PROVE FALSE
      BY <1>10, <1>12, <2>1, <1>1
    <3>2. i - d \in 1..Len(V) /\ d + (i - d) = i
      BY <1>1, <1>10, <1>12, <2>1
    <3>3. i - d \in Offers(V)
      BY <2>5, <3>2
    <3> QED
      BY <1>10, <2>1, <3>2, <3>3
  <2>9. Offers(L) \in SUBSET Nat
    BY <1>1, <1>12
  <2>10. mL = d + mV
    BY <2>7, <2>8, <2>9, MaxIs
  <2> QED
    BY <1>6, <1>10, <2>6, <2>7, <2>10
<1> QED
  BY <1>1, <1>9, <1>13, <1>14

\* What was cut away is no line that was shown.
LEMMA TrimmedLines ==
  ASSUME NEW s \in Seq(Bytes), NEW c \in 0..Len(s), Trim(s, c)
  PROVE  UncutOf(LinesOf(s), c) = UncutOf(s, c)
<1>1. /\ LastNewline(s) \in 0..Len(s) /\ LinesOf(s) \in Seq(Bytes) /\ Len(LinesOf(s)) = LastNewline(s)
      /\ \A i \in 1..Len(s) : s[i] = "nl" => i <= LastNewline(s)
      /\ \A i \in 1..LastNewline(s) : LinesOf(s)[i] = s[i]
      /\ Len(s) \in Nat
  <2>1. /\ LastNewline(s) \in 0..Len(s)
        /\ \A i \in 1..Len(s) : s[i] = "nl" => i <= LastNewline(s)
    BY LastNewlineIs
  <2>2. /\ LinesOf(s) \in Seq(Bytes) /\ Len(LinesOf(s)) = LastNewline(s)
        /\ \A i \in 1..Len(LinesOf(s)) : LinesOf(s)[i] = s[i]
    BY LinesAndRest
  <2>3. Len(s) \in Nat
    OBVIOUS
  <2> QED
    BY <2>1, <2>2, <2>3
<1>2. CASE LastNewline(s) = Len(s)
  <2>1. LinesOf(s) = s
    BY <1>1, <1>2, SeqEqual
  <2> QED
    BY <2>1
<1>3. CASE LastNewline(s) # Len(s)
  <2>1. s # << >> /\ s[Len(s)] # "nl"
    <3>1. Len(s) # 0 /\ Len(s) \in 1..Len(s)
      BY <1>1, <1>3
    <3> QED
      BY <1>1, <1>3, <3>1
  <2>2. c > 0 /\ Len(s) = c
    BY <2>1 DEF Trim
  <2>3. {j \in DOMAIN s : j > c /\ s[j] = "nl"} = {}
    BY <1>1, <2>2
  <2>4. {j \in DOMAIN LinesOf(s) : j > c /\ LinesOf(s)[j] = "nl"} = {}
    BY <1>1, <2>2
  <2>5. UncutOf(s, c) = << >>
    BY <2>2, <2>3 DEF UncutOf
  <2>6. UncutOf(LinesOf(s), c) = << >>
    BY <2>2, <2>4 DEF UncutOf
  <2> QED
    BY <2>5, <2>6
<1> QED
  BY <1>2, <1>3

\* Whole lines leave the screen at the end of a line.
LEMMA LinesTrim ==
  ASSUME NEW s \in Seq(Bytes), NEW c \in 0..Len(s), Trim(s, c), NEW text \in Seq(Bytes)
  PROVE  Trim(s \o LinesOf(text), c)
<1> DEFINE L == LinesOf(text)
           w == s \o L
<1>1. /\ L \in Seq(Bytes) /\ Len(L) = LastNewline(text) /\ Len(L) \in Nat /\ Len(s) \in Nat
      /\ Len(L) # 0 => L[Len(L)] = "nl"
  <2>1. /\ L \in Seq(Bytes) /\ Len(L) = LastNewline(text) /\ Len(L) \in Nat /\ Len(s) \in Nat
        /\ \A i \in 1..Len(L) : L[i] = text[i]
        /\ LastNewline(text) # 0 => text[LastNewline(text)] = "nl"
    <3>1. /\ L \in Seq(Bytes) /\ Len(L) = LastNewline(text)
          /\ \A i \in 1..Len(L) : L[i] = text[i]
      BY LinesAndRest
    <3>2. /\ LastNewline(text) \in 0..Len(text)
          /\ LastNewline(text) # 0 => text[LastNewline(text)] = "nl"
      BY LastNewlineIs
    <3>3. Len(s) \in Nat /\ Len(text) \in Nat
      OBVIOUS
    <3> HIDE DEF L
    <3> QED
      BY <3>1, <3>2, <3>3
  <2> HIDE DEF L
  <2>2. Len(L) # 0 => Len(L) \in 1..Len(L)
    BY <2>1
  <2> QED
    BY <2>1, <2>2
<1> HIDE DEF L
<1>2. CASE Len(L) = 0
  <2>1. L = << >>
    BY <1>1, <1>2, EmptySeq
  <2>2. s \o << >> = s
    BY ConcatEmptySeq
  <2> QED
    BY <2>1, <2>2 DEF L
<1>3. CASE Len(L) # 0
  <2>1. Len(w) = Len(s) + Len(L) /\ w[Len(s) + Len(L)] = L[Len(L)]
    <3>1. Len(s) + Len(L) \in 1..(Len(s) + Len(L)) /\ ~(Len(s) + Len(L) <= Len(s))
          /\ (Len(s) + Len(L)) - Len(s) = Len(L)
      BY <1>1, <1>3
    <3> QED
      BY <1>1, <3>1, ConcatProperties
  <2>2. w[Len(w)] = "nl"
    BY <1>1, <1>3, <2>1
  <2> QED
    BY <2>2 DEF Trim, L
<1> QED
  BY <1>2, <1>3

-----------------------------------------------------------------------------
(* The inductive invariant *)

Texts ==
  /\ written \in Seq(Bytes) /\ todo \in Seq(Bytes) /\ master \in Seq(Bytes)
  /\ line_buf \in Seq(Bytes) /\ utf8_residual \in Seq(Bytes) /\ screen \in Seq(Bytes)
  /\ cut \in 0..Len(screen)

\* Nothing is lost, and what was decoded is whole characters.
AllThere ==
  WellFormed => /\ written = ((screen \o line_buf) \o utf8_residual) \o master
                /\ IsUtf8(screen \o line_buf)

\* Until the relay hangs up it shows lines, and what a timeout cuts.
ScreenOK ==
  /\ relay # "hung up" => Trim(screen, cut)
  /\ SessionNamed(screen, cut, resume_session_id)

RelayInv == Texts /\ AllThere /\ ScreenOK

LEMMA RelayInitHolds == RelayInit => RelayInv
<1> SUFFICES ASSUME RelayInit PROVE RelayInv
  OBVIOUS
<1>1. Texts
  BY TerminalAssumption DEF RelayInit, Texts
<1>2. << >> \o << >> = << >>
  OBVIOUS
<1>3. AllThere
  <2>1. IsUtf8(<< >>)
    BY DEF IsUtf8
  <2> QED
    BY <1>2, <2>1 DEF RelayInit, AllThere
<1>4. ScreenOK
  <2>1. screen = << >> /\ cut = 0
    BY DEF RelayInit
  <2>2. Offers(<< >>) = {}
    BY DEF Offers
  <2>3. UncutOf(screen, cut) = << >>
    BY <2>1 DEF UncutOf
  <2> QED
    BY <2>1, <2>2, <2>3 DEF ScreenOK, Trim, SessionNamed
<1> QED
  BY <1>1, <1>3, <1>4 DEF RelayInv

\* The steps that have nothing to do with the output.
LEMMA RelayOthersKeep ==
  ASSUME RelayInv, UNCHANGED <<todo, written, master, outputVars>>,
         relay = "hung up" => relay' = "hung up"
  PROVE  RelayInv'
<1>1. UNCHANGED <<todo, written, master, line_buf, utf8_residual, resume_session_id, screen, cut>>
  BY DEF outputVars
<1>2. Texts'
  BY <1>1 DEF RelayInv, Texts
<1>3. AllThere'
  BY <1>1 DEF RelayInv, AllThere, WellFormed
<1>4. ScreenOK'
  <2>1. relay' # "hung up" => Trim(screen', cut')
    BY <1>1 DEF RelayInv, ScreenOK
  <2>2. SessionNamed(screen', cut', resume_session_id')
    BY <1>1 DEF RelayInv, ScreenOK
  <2> QED
    BY <2>1, <2>2 DEF ScreenOK
<1> QED
  BY <1>2, <1>3, <1>4 DEF RelayInv

LEMMA WriteKeeps ==
  ASSUME RelayInv, Write
  PROVE  RelayInv'
<1> DEFINE h == Head(todo)
<1>1. /\ todo # << >> /\ todo' = Tail(todo)
      /\ written' = Append(written, h) /\ master' = Append(master, h)
      /\ UNCHANGED <<relay, outputVars>>
  BY DEF Write
<1>2. Texts
  BY DEF RelayInv
<1>3. h \in Bytes /\ Tail(todo) \in Seq(Bytes) /\ todo = <<h>> \o Tail(todo) /\ <<h>> \in Seq(Bytes)
  BY <1>1, <1>2 DEF Texts
<1>4. written' = written \o <<h>> /\ master' = master \o <<h>>
  BY <1>1, <1>2, <1>3, AppendIsConcat DEF Texts
<1> HIDE DEF h
<1>5. Texts'
  BY <1>1, <1>2, <1>3 DEF Texts, outputVars
<1>6. written' \o todo' = written \o todo
  <2>1. Join(Join(written, <<h>>), Tail(todo)) = Join(written, Join(<<h>>, Tail(todo)))
    <3>1. written \in Seq(Bytes)
      BY <1>2 DEF Texts
    <3>2. <<h>> \in Seq(Bytes) /\ Tail(todo) \in Seq(Bytes)
      BY <1>3
    <3> DEFINE t == <<h>>
               u == Tail(todo)
    <3> HIDE DEF t, u
    <3>3. t \in Seq(Bytes) /\ u \in Seq(Bytes)
      BY <3>2 DEF t, u
    <3>4. Join(Join(written, t), u) = Join(written, Join(t, u))
      BY <3>1, <3>3, Joins
    <3> QED
      BY <3>4 DEF t, u
  <2> QED
    BY <1>1, <1>3, <1>4, <2>1 DEF Join
<1>7. AllThere'
  <2> SUFFICES ASSUME WellFormed'
               PROVE  /\ written' = ((screen' \o line_buf') \o utf8_residual') \o master'
                      /\ IsUtf8(screen' \o line_buf')
    BY DEF AllThere
  <2>1. WellFormed
    BY <1>6 DEF WellFormed
  <2>2. written = ((screen \o line_buf) \o utf8_residual) \o master /\ IsUtf8(screen \o line_buf)
    BY <2>1 DEF RelayInv, AllThere
  <2> DEFINE q == Join(Join(screen, line_buf), utf8_residual)
  <2>3. q \in Seq(Bytes)
    BY <1>2, Joins DEF Texts
  <2>4. written = Join(q, master)
    BY <2>2 DEF Join
  <2>5. q' = q
    BY <1>1 DEF outputVars
  <2> HIDE DEF q
  <2>6. Join(Join(q, master), <<h>>) = Join(q, Join(master, <<h>>))
    <3>1. master \in Seq(Bytes)
      BY <1>2 DEF Texts
    <3> DEFINE t == <<h>>
    <3>2. t \in Seq(Bytes)
      BY <1>3
    <3> HIDE DEF t
    <3>3. Join(Join(q, master), t) = Join(q, Join(master, t))
      BY <2>3, <3>1, <3>2, Joins
    <3> QED
      BY <3>3 DEF t
  <2>7. written' = Join(q, master')
    BY <1>4, <2>4, <2>6 DEF Join
  <2>8. written' = Join(q', master')
    BY <2>5, <2>7
  <2>9. IsUtf8(screen' \o line_buf')
    BY <1>1, <2>2 DEF outputVars
  <2> QED
    BY <2>8, <2>9 DEF q, Join
<1>8. ScreenOK'
  <2>1. UNCHANGED <<relay, screen, cut, resume_session_id>>
    BY <1>1 DEF outputVars
  <2> QED
    BY <2>1 DEF RelayInv, ScreenOK
<1> QED
  BY <1>5, <1>7, <1>8 DEF RelayInv

LEMMA ReadOutputKeeps ==
  ASSUME RelayInv, NEW n \in 1..ReadMax, ReadOutput(n)
  PROVE  RelayInv'
<1>1. Texts
  BY DEF RelayInv
<1>2. n \in 0..Len(master)
  <2>1. ReadMax \in Nat /\ Len(master) \in Nat /\ n <= Min({Len(master), ReadMax})
    <3>1. ReadMax \in Nat
      BY TerminalAssumption
    <3>2. Len(master) \in Nat
      BY <1>1 DEF Texts
    <3>3. n <= Min({Len(master), ReadMax})
      BY DEF ReadOutput
    <3> QED
      BY <3>1, <3>2, <3>3
  <2>2. {Len(master), ReadMax} \in SUBSET Nat /\ {Len(master), ReadMax} # {}
    BY <2>1
  <2>3. \A j \in {Len(master), ReadMax} : Min({Len(master), ReadMax}) <= j
    BY <2>2, LeastElement
  <2>4. Min({Len(master), ReadMax}) \in Nat
    BY <2>1, <2>2, LeastElement
  <2> QED
    <3>1. n <= Len(master)
      <4> DEFINE m == Min({Len(master), ReadMax})
      <4>1. n <= m /\ m <= Len(master) /\ m \in Nat
        BY <2>1, <2>3, <2>4
      <4> HIDE DEF m
      <4> QED
        BY <2>1, <4>1
    <3> QED
      BY <2>1, <3>1
<1> DEFINE data == utf8_residual \o SubSeq(master, 1, n)
           text == line_buf \o Decoded(data)
           L == IF child = "alive" THEN LinesOf(text) ELSE text
<1>3. /\ utf8_residual' = SubSeq(data, Utf8SafeEnd(data) + 1, Len(data))
      /\ screen' = screen \o L
      /\ resume_session_id' = DetectResume(L, resume_session_id)
      /\ line_buf' = IF child = "alive" THEN RestOf(text) ELSE << >>
      /\ master' = SubSeq(master, n + 1, Len(master))
      /\ relay = "polling" /\ relay' = IF child = "alive" THEN relay ELSE "hung up"
      /\ UNCHANGED <<todo, written, cut>>
  BY DEF ReadOutput, Show, childVars
<1>4. data \in Seq(Bytes) /\ SubSeq(master, n + 1, Len(master)) \in Seq(Bytes)
  BY <1>1, <1>2, CutInTwo, ConcatProperties DEF Texts
<1>5. Decoded(data) \in Seq(Bytes) /\ SubSeq(data, Utf8SafeEnd(data) + 1, Len(data)) \in Seq(Bytes)
  <2>1. Utf8SafeEnd(data) \in 0..Len(data)
    BY <1>4, SafeEndIs
  <2>2. SubSeq(data, 1, Utf8SafeEnd(data)) \in Seq(Bytes)
        /\ SubSeq(data, Utf8SafeEnd(data) + 1, Len(data)) \in Seq(Bytes)
    BY <1>4, <2>1, CutInTwo
  <2>3. << >> \in Seq(Bytes)
    OBVIOUS
  <2> QED
    BY <2>2, <2>3 DEF Decoded
<1>6. text \in Seq(Bytes)
  BY <1>1, <1>5, Joins DEF Texts, Join
<1>7. L \in Seq(Bytes) /\ line_buf' \in Seq(Bytes) /\ L \o line_buf' = text
  <2>1. LinesOf(text) \in Seq(Bytes) /\ RestOf(text) \in Seq(Bytes) /\ LinesOf(text) \o RestOf(text) = text
    BY <1>6, LinesAndRest
  <2>2. text \o << >> = text /\ << >> \in Seq(Bytes)
    BY <1>6, ConcatEmptySeq
  <2> HIDE DEF data, text
  <2>3. CASE child = "alive"
    BY <1>3, <2>1, <2>3
  <2>4. CASE child # "alive"
    BY <1>3, <1>6, <2>2, <2>4
  <2> QED
    BY <2>3, <2>4
<1>8. Trim(screen, cut) /\ SessionNamed(screen, cut, resume_session_id)
  BY <1>3 DEF RelayInv, ScreenOK
<1>9. child = "alive" => Trim(screen \o L, cut)
  <2>1. screen \in Seq(Bytes) /\ cut \in 0..Len(screen)
    BY <1>1 DEF Texts
  <2> HIDE DEF data, text
  <2>2. Trim(screen \o LinesOf(text), cut)
    BY <1>6, <1>8, <2>1, LinesTrim
  <2> QED
    BY <2>2
<1> HIDE DEF data, text, L
<1>10. Texts'
  <2>1. screen' \in Seq(Bytes) /\ Len(screen') = Len(screen) + Len(L) /\ Len(L) \in Nat /\ Len(screen) \in Nat
    <3>1. screen \in Seq(Bytes)
      BY <1>1 DEF Texts
    <3>2. screen \o L \in Seq(Bytes) /\ Len(screen \o L) = Len(screen) + Len(L)
          /\ Len(L) \in Nat /\ Len(screen) \in Nat
      BY <1>7, <3>1, ConcatProperties
    <3> QED
      BY <1>3, <3>2
  <2>2. cut' \in 0..Len(screen')
    <3>1. cut \in 0..Len(screen) /\ cut' = cut
      BY <1>1, <1>3 DEF Texts
    <3> QED
      BY <2>1, <3>1
  <2> QED
    BY <1>1, <1>3, <1>4, <1>5, <1>7, <2>1, <2>2 DEF Texts
<1>11. AllThere'
  <2> SUFFICES ASSUME WellFormed'
               PROVE  /\ written' = ((screen' \o line_buf') \o utf8_residual') \o master'
                      /\ IsUtf8(screen' \o line_buf')
    BY DEF AllThere
  <2>1. WellFormed
    BY <1>3 DEF WellFormed
  <2>2. written = ((screen \o line_buf) \o utf8_residual) \o master /\ IsUtf8(screen \o line_buf)
    BY <2>1 DEF RelayInv, AllThere
  <2>3. IsUtf8((((screen \o line_buf) \o utf8_residual) \o master) \o todo)
    BY <2>1, <2>2 DEF WellFormed
  <2>4. screen' \o line_buf' = screen \o (line_buf \o Decoded(data))
    <3>1. screen \in Seq(Bytes)
      BY <1>1 DEF Texts
    <3>2. Join(Join(screen, L), line_buf') = Join(screen, Join(L, line_buf'))
      BY <1>7, <3>1, Joins
    <3>3. screen' = Join(screen, L) /\ Join(L, line_buf') = text
      BY <1>3, <1>7 DEF Join
    <3>4. Join(screen', line_buf') = Join(screen, text)
      BY <3>2, <3>3
    <3> QED
      BY <3>4 DEF text, Join
  <2>5. /\ IsUtf8(screen' \o line_buf')
        /\ ((screen' \o line_buf') \o SubSeq(data, Utf8SafeEnd(data) + 1, Len(data)))
              \o SubSeq(master, n + 1, Len(master))
             = ((screen \o line_buf) \o utf8_residual) \o master
    <3>1. /\ screen \in Seq(Bytes) /\ line_buf \in Seq(Bytes) /\ utf8_residual \in Seq(Bytes)
          /\ master \in Seq(Bytes) /\ todo \in Seq(Bytes)
      BY <1>1 DEF Texts
    <3>2. screen' \in Seq(Bytes) /\ line_buf' \in Seq(Bytes)
      BY <1>10 DEF Texts
    <3>3. data = utf8_residual \o SubSeq(master, 1, n)
      BY DEF data
    <3>4. IsUtf8(screen \o line_buf)
      BY <2>2
    <3>5. ReadOf(screen, line_buf, utf8_residual, master, todo, n, data, screen', line_buf')
      <4> HIDE DEF data
      <4> QED
        BY <1>2, <2>3, <2>4, <3>1, <3>2, <3>3, <3>4 DEF ReadOf
    <3>6. Keeps(screen, line_buf, utf8_residual, master, n, data, screen', line_buf')
      BY <3>5, ReadKeepsAll
    <3> QED
      BY <3>6 DEF Keeps
  <2> QED
    BY <1>3, <2>2, <2>5
<1>12. ScreenOK'
  <2>1. SessionNamed(screen \o L, cut, DetectResume(L, resume_session_id))
    BY <1>1, <1>7, <1>8, ShowKeepsKnown DEF Texts
  <2> QED
    BY <1>3, <1>9, <2>1 DEF ScreenOK
<1> QED
  BY <1>10, <1>11, <1>12 DEF RelayInv

LEMMA HangUpKeeps ==
  ASSUME RelayInv, HangUp
  PROVE  RelayInv'
<1>1. /\ screen' = screen \o line_buf /\ line_buf' = << >>
      /\ resume_session_id' = DetectResume(line_buf, resume_session_id)
      /\ relay = "polling" /\ relay' = "hung up"
      /\ UNCHANGED <<todo, written, master, utf8_residual, cut>>
  BY DEF HangUp, Show, childVars
<1>2. Texts
  BY DEF RelayInv
<1>3. screen' \in Seq(Bytes) /\ Len(screen') = Len(screen) + Len(line_buf)
      /\ Len(line_buf) \in Nat /\ Len(screen) \in Nat
  <2>1. screen \in Seq(Bytes) /\ line_buf \in Seq(Bytes)
    BY <1>2 DEF Texts
  <2> QED
    <3>1. /\ screen \o line_buf \in Seq(Bytes) /\ Len(screen \o line_buf) = Len(screen) + Len(line_buf)
          /\ Len(line_buf) \in Nat /\ Len(screen) \in Nat
      BY <2>1, ConcatProperties
    <3> QED
      BY <1>1, <3>1
<1>4. screen' \o line_buf' = screen \o line_buf
  BY <1>1, <1>3, ConcatEmptySeq
<1>5. Texts'
  <2>1. cut' \in 0..Len(screen')
    <3>1. cut \in 0..Len(screen) /\ cut' = cut
      BY <1>1, <1>2 DEF Texts
    <3> QED
      BY <1>3, <3>1
  <2>2. << >> \in Seq(Bytes)
    OBVIOUS
  <2> QED
    BY <1>1, <1>2, <1>3, <2>1, <2>2 DEF Texts
<1>6. AllThere'
  BY <1>1, <1>4 DEF RelayInv, AllThere, WellFormed
<1>7. ScreenOK'
  <2>1. SessionNamed(screen \o line_buf, cut, DetectResume(line_buf, resume_session_id))
    BY <1>1, <1>2, ShowKeepsKnown DEF RelayInv, Texts, ScreenOK
  <2> QED
    BY <1>1, <2>1 DEF ScreenOK
<1> QED
  BY <1>5, <1>6, <1>7 DEF RelayInv

LEMMA TimeoutKeeps ==
  ASSUME RelayInv, Timeout
  PROVE  RelayInv'
<1>1. /\ screen' = screen \o line_buf /\ line_buf' = << >> /\ cut' = Len(screen')
      /\ UNCHANGED <<todo, written, master, utf8_residual, resume_session_id, relay>>
  BY DEF Timeout, childVars
<1>2. Texts
  BY DEF RelayInv
<1>3. screen' \in Seq(Bytes) /\ Len(screen') \in Nat
  <2>1. screen \in Seq(Bytes) /\ line_buf \in Seq(Bytes)
    BY <1>2 DEF Texts
  <2> QED
    <3>1. /\ screen \o line_buf \in Seq(Bytes) /\ Len(screen \o line_buf) = Len(screen) + Len(line_buf)
          /\ Len(line_buf) \in Nat /\ Len(screen) \in Nat
      BY <2>1, ConcatProperties
    <3> QED
      BY <1>1, <3>1
<1>4. screen' \o line_buf' = screen \o line_buf
  BY <1>1, <1>3, ConcatEmptySeq
<1>5. Texts'
  BY <1>1, <1>2, <1>3 DEF Texts
<1>6. AllThere'
  BY <1>1, <1>4 DEF RelayInv, AllThere, WellFormed
<1>7. UncutOf(screen', cut') = << >>
  <2>1. CASE cut' = 0
    <3>1. screen' = << >>
      BY <1>1, <1>3, <2>1, EmptySeq
    <3> QED
      BY <2>1, <3>1 DEF UncutOf
  <2>2. CASE cut' # 0
    <3>1. {j \in DOMAIN screen' : j > cut' /\ screen'[j] = "nl"} = {}
      BY <1>1, <1>3
    <3> QED
      BY <2>2, <3>1 DEF UncutOf
  <2> QED
    BY <2>1, <2>2
<1>8. Offers(<< >>) = {}
  BY DEF Offers
<1>9. Trim(screen', cut')
  BY <1>1, <1>3, EmptySeq DEF Trim
<1>10. ScreenOK'
  BY <1>7, <1>8, <1>9 DEF ScreenOK, SessionNamed
<1> QED
  BY <1>5, <1>6, <1>10 DEF RelayInv

LEMMA RelayNextKeeps == RelayInv /\ [RelayNext]_relayVars => RelayInv'
<1> SUFFICES ASSUME RelayInv, [RelayNext]_relayVars PROVE RelayInv'
  OBVIOUS
<1>1. CASE Write
  BY <1>1, WriteKeeps
<1>2. CASE ReadKey
  BY <1>2, RelayOthersKeep DEF ReadKey, childVars, outputVars
<1>3. CASE Exit
  BY <1>3, RelayOthersKeep DEF Exit, outputVars
<1>4. CASE Type
  BY <1>4, RelayOthersKeep DEF Type, outputVars
<1>5. CASE CloseInput
  BY <1>5, RelayOthersKeep DEF CloseInput, outputVars
<1>6. CASE ReadInput
  BY <1>6, RelayOthersKeep DEF ReadInput, childVars, outputVars
<1>7. CASE InputEnds
  BY <1>7, RelayOthersKeep DEF InputEnds, childVars, outputVars
<1>8. CASE WriteInput
  BY <1>8, RelayOthersKeep DEF WriteInput, childVars, outputVars
<1>9. CASE WriteFails
  BY <1>9, RelayOthersKeep DEF WriteFails, childVars, outputVars
<1>10. ASSUME NEW n \in 1..ReadMax, ReadOutput(n) PROVE RelayInv'
  BY <1>10, ReadOutputKeeps
<1>11. CASE HangUp
  BY <1>11, HangUpKeeps
<1>12. CASE Timeout
  BY <1>12, TimeoutKeeps
<1>13. CASE Return
  BY <1>13, RelayOthersKeep DEF Return, childVars, outputVars
<1>14. CASE UNCHANGED relayVars
  BY <1>14, RelayOthersKeep DEF relayVars, childVars, outputVars
<1> QED
  BY <1>1, <1>2, <1>3, <1>4, <1>5, <1>6, <1>7, <1>8, <1>9, <1>10, <1>11, <1>12, <1>13, <1>14
     DEF RelayNext, HandleInput, HandleOutput

\* However the reads cut the child's output, and whoever ends first, RelayInv holds.
THEOREM RelayInvHolds == RelaySpec => []RelayInv
<1>1. RelayInit => RelayInv
  BY RelayInitHolds
<1>2. RelayInv /\ [RelayNext]_relayVars => RelayInv'
  BY RelayNextKeeps
<1> QED
  BY <1>1, <1>2, PTL DEF RelaySpec

\* However the reads cut a child's UTF-8 output, what it has printed is on the screen, held
\* back for the next read, or still to be read: all of it, once, and in this order.
THEOREM OutputIsKept == RelaySpec => []OutputAccountedFor
<1>1. RelayInv => OutputAccountedFor
  BY DEF RelayInv, AllThere, OutputAccountedFor
<1> QED
  BY <1>1, RelayInvHolds, PTL

\* The session the relay will offer to resume is the one the child named last, in whatever
\* pieces it was read, unless a timeout has cut a line in two since.
THEOREM SessionIsKnown == RelaySpec => []ResumeKnown
<1>1. RelayInv => ResumeKnown
  <2> SUFFICES ASSUME RelayInv PROVE ResumeKnown
    OBVIOUS
  <2>1. screen \in Seq(Bytes) /\ cut \in 0..Len(screen)
    BY DEF RelayInv, Texts
  <2>2. Uncut = UncutOf(IF relay = "hung up" THEN screen ELSE LinesOf(screen), cut)
    BY DEF Uncut, UncutOf
  <2>3. Uncut = UncutOf(screen, cut)
    <3>1. CASE relay = "hung up"
      BY <2>2, <3>1
    <3>2. CASE relay # "hung up"
      <4>1. Trim(screen, cut)
        BY <3>2 DEF RelayInv, ScreenOK
      <4>2. UncutOf(LinesOf(screen), cut) = UncutOf(screen, cut)
        BY <2>1, <4>1, TrimmedLines
      <4> QED
        BY <2>2, <3>2, <4>2
    <3> QED
      BY <3>1, <3>2
  <2> QED
    BY <2>3 DEF RelayInv, ScreenOK, SessionNamed, ResumeKnown
<1> QED
  BY <1>1, RelayInvHolds, PTL
=============================================================================
