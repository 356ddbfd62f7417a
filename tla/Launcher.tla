------------------------------ MODULE Launcher ------------------------------
(***************************************************************************)
(* A launcher session from its start to the end of Claude, beside other    *)
(* sessions and the management commands: update check, a port of its own,  *)
(* the proxy in a background task, the wait until something answers, the   *)
(* offer to sign in, Claude itself; and `proxy start', `stop' and          *)
(* `status', which share one pid file.  Signing in is module Login.        *)
(***************************************************************************)
EXTENDS Login

LOCAL INSTANCE FiniteSetsExt

CONSTANTS
  Ports,      \* what the kernel gives out when any free port will do
  Manners,    \* what another program on such a port may do with a request: answer it,
              \* close the connection, or accept it and stay silent
  MaxRuns     \* bound: processes started, all slots together

ASSUME LauncherAssumption ==
  /\ MaxRuns \in Nat /\ None \notin Ports
  /\ Manners \subseteq {"answers", "hangs_up", "silent"}

VARIABLES
  ss,         \* each process: what it was started for, and its proxy task
  told,       \* history: the last end of Claude was reported as it was
  pidFile,    \* proxy.pid: the pid of the proxy that wrote it last
  aged,       \* the access tokens up to this one have expired, or will soon
  stranger    \* the port that a program other than claudex has bound, and its manner;
              \* bound: one at a time

launchVars == <<ss, told, pidFile, aged, stranger>>
vars       == <<loginVars, launchVars>>

\* proxy: off, indexing, bound, serving or failed.  taken: another process has
\* bound the port since it was found.  guards: Claude is started with the
\* web-search guard flags.
NoSession == [job |-> None, port |-> None, proxy |-> "off", taken |-> FALSE,
              guards |-> FALSE, read |-> None]

NoStranger == [port |-> None, does |-> "answers"]

Launchers == {"launch", "run", "print"}
Interactive(p) == ss[p].job \in {"launch", "run"}
IsLauncher(p)  == ss[p].job \in Launchers

LauncherInit ==
  /\ LoginInit
  /\ ss = [p \in Procs |-> NoSession] /\ told = [p \in Procs |-> TRUE]
  /\ pidFile = None /\ stranger = NoStranger
  /\ aged \in {0, issued}

Serving(p) == ss[p].proxy = "serving"
Bound(p)   == ss[p].proxy \in {"bound", "serving"}

\* The proxy task ends with its process.
ProxiesEnd == ss' = [p \in Procs |-> IF pc'[p] = "gone" THEN NoSession ELSE ss[p]]

-----------------------------------------------------------------------------
(* The start of a process: the configuration is loaded *)

Runs == MapThenSumSet(LAMBDA p : run[p], Procs)

\* The command line: what is run, and how a sign-in would go.
Begin(p, session, place, login) ==
  /\ ~Alive(p) /\ Runs < MaxRuns
  /\ run' = [run EXCEPT ![p] = @ + 1]
  /\ GoTo(p, place)
  /\ mem' = [mem EXCEPT ![p] = cfg]
  /\ lg' = [lg EXCEPT ![p] = login]
  /\ ss' = [ss EXCEPT ![p] = session]
  /\ told' = [told EXCEPT ![p] = TRUE]
  /\ UNCHANGED <<cfg, tabs, issuerVars, fileVars, pidFile, aged, stranger>>

\* `claudex', `claudex-config run', and either of them with -p.  Whether this
\* Claude has flags to guard its web search matters to the last only.
StartLauncher(p) ==
  \/ \E kind \in {"launch", "run"} :
       Begin(p, [NoSession EXCEPT !.job = kind], "check", NoLogin)
  \/ \E guards \in BOOLEAN :
       Begin(p, [NoSession EXCEPT !.job = "print", !.guards = guards], "port", NoLogin)

StartLogin(p) ==
  \E how \in Ways, force \in BOOLEAN :
    Begin(p, [NoSession EXCEPT !.job = "login"], "login",
          [NoLogin EXCEPT !.how = how, !.force = force])

StartRefresh(p) ==
  /\ cfg.auth = "oauth"
  /\ \E how \in {"external", "browser"} :
       Begin(p, [NoSession EXCEPT !.job = "refresh"], "refresh", [NoLogin EXCEPT !.how = how])

StartCommand(p) ==
  \/ Begin(p, [NoSession EXCEPT !.job = "proxy"], "port", NoLogin)
  \/ \E kind \in {"stop", "status"} :
       Begin(p, [NoSession EXCEPT !.job = kind], "read", NoLogin)

-----------------------------------------------------------------------------
(* maybe_check_release_before_startup: interactive sessions only *)

Stays == UNCHANGED <<run, lg, tabs, configVars, issuerVars, fileVars>>

\* `claudex-config run' checks again before it starts Claude.
AfterCheck(p) == IF ss[p].port = None THEN "port" ELSE "claude"
AfterHealth(p) == IF ss[p].job = "run" THEN "check" ELSE "claude"

\* Not due within three hours of the check that any session recorded last;
\* that file only spaces the checks out, and is left open here.
DueForCheck(p) ==
  /\ pc[p] = "check"
  /\ GoTo(p, AfterCheck(p)) \/ GoTo(p, "checking")
  /\ Stays /\ UNCHANGED launchVars

\* The answer, an error or the 1.5 s limit; only a newer release leads to a
\* question.
CheckAnswered(p) ==
  /\ pc[p] = "checking"
  /\ GoTo(p, AfterCheck(p)) \/ GoTo(p, "update")
  /\ Stays /\ UNCHANGED launchVars

\* The user declines, or the installer fails: the start goes on.  A finished
\* update ends the process.
AnswerUpdate(p) ==
  /\ pc[p] = "update"
  /\ \/ GoTo(p, AfterCheck(p)) /\ Keep(p)
     \/ EndAt(p, "gone")
  /\ ProxiesEnd
  /\ UNCHANGED <<run, cfg, tabs, issuerVars, fileVars, told, pidFile, aged, stranger>>

-----------------------------------------------------------------------------
(* The proxy task, in the launcher's own process *)

\* A listener is bound to port x, a proxy's or a stranger's.
InUse(x) == stranger.port = x \/ \E q \in Procs : Bound(q) /\ ss[q].port = x

\* A port is found by binding it and letting it go again; only this process's
\* copy of the configuration is changed.  `proxy start' may also be told one.
FindPort(p) ==
  /\ pc[p] = "port"
  /\ \E x \in Ports :
       /\ IsLauncher(p) => ~InUse(x)
       /\ ss' = [ss EXCEPT ![p].port = x, ![p].proxy = "indexing"]
       /\ mem' = IF IsLauncher(p) THEN [mem EXCEPT ![p].port = x] ELSE mem
  /\ GoTo(p, IF IsLauncher(p) THEN "poll" ELSE "serve")
  /\ UNCHANGED <<run, lg, tabs, cfg, issuerVars, fileVars,
                 told, pidFile, aged, stranger>>

NoPortLeft(p) ==
  /\ pc[p] = "port" /\ IsLauncher(p) /\ \A x \in Ports : InUse(x)
  /\ Fail(p) /\ ProxiesEnd
  /\ UNCHANGED <<run, cfg, tabs, issuerVars, fileVars,
                 told, pidFile, aged, stranger>>

\* The sessions that had found port x when another process binds it.
Marked(session, x) == [session EXCEPT !.taken = @ \/ session.port = x]

\* The retrieval index is built before the port is bound.
BindProxy(p) ==
  /\ ss[p].proxy = "indexing" /\ ~InUse(ss[p].port)
  /\ ss' = [q \in Procs |-> IF q = p THEN [ss[p] EXCEPT !.proxy = "bound"]
                            ELSE Marked(ss[q], ss[p].port)]
  /\ UNCHANGED pc /\ Stays
  /\ UNCHANGED <<told, pidFile, aged, stranger>>

\* An error ends a `proxy start'; a launcher only logs it.
ProxyFails(p) ==
  /\ \/ /\ IsLauncher(p)
        /\ ss' = [ss EXCEPT ![p].proxy = "failed"]
        /\ UNCHANGED pc /\ Keep(p)
     \/ ~IsLauncher(p) /\ Fail(p) /\ ProxiesEnd
  /\ UNCHANGED <<run, cfg, tabs, issuerVars, fileVars,
                 told, pidFile, aged, stranger>>

\* The port is in use, the body limit no number, the HTTP client not to be had.
BindFails(p) == ss[p].proxy = "indexing" /\ ProxyFails(p)

\* The pid overwrites whatever is in the file; from here requests are served.
\* A file that cannot be written ends the proxy, and frees the port.
WritePid(p) ==
  /\ ss[p].proxy = "bound"
  /\ \/ /\ pidFile' = Me(p)
        /\ ss' = [ss EXCEPT ![p].proxy = "serving"]
        /\ UNCHANGED pc /\ Stays
        /\ UNCHANGED <<told, aged, stranger>>
     \/ ProxyFails(p)

Answered(p) ==
  \/ stranger = [port |-> ss[p].port, does |-> "answers"]
  \/ \E q \in Procs : Serving(q) /\ ss[q].port = ss[p].port

Refused(p) == ~InUse(ss[p].port) \/ stranger = [port |-> ss[p].port, does |-> "hangs_up"]

\* Mutant: the end of the wait lets the launcher go on.
PollGoesOn(p) ==
  /\ pc[p] = "poll"
  /\ GoTo(p, "health") /\ Keep(p)
  /\ UNCHANGED <<run, cfg, tabs, issuerVars, fileVars, launchVars>>

\* Mutant: nobody counts the failures.
PollsForEver(p) ==
  /\ pc[p] = "poll"
  /\ Answered(p) /\ GoTo(p, "health") /\ Keep(p)
  /\ UNCHANGED <<run, cfg, tabs, issuerVars, fileVars, launchVars>>

\* The wait: whatever answers on the port will do; two seconds of requests that
\* fail end the launcher.  A request that was accepted is waited for without a
\* limit, so that nothing happens here while a listener is silent.
Poll(p) ==
  /\ pc[p] = "poll"
  /\ \/ Answered(p) /\ GoTo(p, "health") /\ Keep(p)
     \/ Refused(p) /\ Fail(p)
  /\ ProxiesEnd
  /\ UNCHANGED <<run, cfg, tabs, issuerVars, fileVars,
                 told, pidFile, aged, stranger>>

-----------------------------------------------------------------------------
(* maybe_reauth_oauth_before_startup *)

\* Mutant: an expired token is offered a sign-in that takes what it finds.
NeverForce(content) == FALSE

\* A token that is there but old is to be replaced; one that is missing or
\* cannot be read is looked for again.
ForceLogin(content) == content \in Issues

Healthy == Readable /\ auth > aged

\* The profile is looked up only now.  A token in the environment passes;
\* sessions with -p and profiles with a key are not checked.
CheckHealth(p) ==
  /\ pc[p] = "health"
  /\ \/ mem[p].auth = None /\ Fail(p)
     \/ mem[p].auth # None /\ GoTo(p, AfterHealth(p)) /\ Keep(p)
     \/ /\ mem[p].auth = "oauth" /\ Interactive(p) /\ ~Healthy
        /\ lg' = [lg EXCEPT ![p].seen = auth, ![p].force = ForceLogin(auth)]
        /\ GoTo(p, "ask") /\ UNCHANGED mem
  /\ ProxiesEnd
  /\ UNCHANGED <<run, cfg, tabs, issuerVars, fileVars,
                 told, pidFile, aged, stranger>>

AnswerAsk(p) ==
  /\ pc[p] = "ask"
  /\ \/ EndAt(p, AfterHealth(p))
     \/ \E how \in {"browser", "device"} :
          /\ lg' = [lg EXCEPT ![p].back = AfterHealth(p), ![p].how = how]
          /\ GoTo(p, "login") /\ UNCHANGED mem
  /\ UNCHANGED <<run, cfg, tabs, issuerVars, fileVars, launchVars>>

-----------------------------------------------------------------------------
(* launch_claude *)

StartClaude(p) ==
  /\ pc[p] = "claude"
  /\ GoTo(p, "wait")
  /\ Stays /\ UNCHANGED launchVars

\* How a Claude ends: its status is 0; its stderr has "unknown", "unexpected" or "invalid"
\* and the name of a guard flag, whatever it has done before.
Outcomes == [ok : BOOLEAN, complains : BOOLEAN]

\* All of the captured stderr is searched; one whose status is 0 leaves none.
UnknownGuardArg(o) == ~o.ok /\ o.complains

\* A run with -p and guard flags is captured; Claude is started again without
\* them when it seems to have rejected one, with the same prompt.
RetryClaude(p) ==
  /\ pc[p] = "wait" /\ ss[p].guards
  /\ \E o \in Outcomes : UnknownGuardArg(o)
  /\ ss' = [ss EXCEPT ![p].guards = FALSE]
  /\ GoTo(p, "claude") /\ Stays
  /\ UNCHANGED <<told, pidFile, aged, stranger>>

\* Any other end of a captured run, success too, is reported as an error;
\* otherwise Claude's own status is passed on.
ClaudeEnds(p) ==
  /\ pc[p] = "wait"
  /\ \E o \in Outcomes :
       /\ ss[p].guards => ~UnknownGuardArg(o)
       /\ LET reported == o.ok /\ ~ss[p].guards
          IN  told' = [told EXCEPT ![p] = reported = o.ok]
  /\ EndAt(p, "gone") /\ ProxiesEnd
  /\ UNCHANGED <<run, cfg, tabs, issuerVars, fileVars, pidFile, aged, stranger>>

-----------------------------------------------------------------------------
(* proxy stop and proxy status *)

Live(pid) == pid # None /\ Alive(pid[1]) /\ run[pid[1]] = pid[2]

\* Processes that are gone, with all they had in memory.
Ended(procs) ==
  /\ lg' = [q \in Procs |-> IF q \in procs THEN NoLogin ELSE lg[q]]
  /\ mem' = [q \in Procs |-> IF q \in procs THEN NoConfig ELSE mem[q]]
  /\ fd' = [q \in Procs |-> IF q \in procs THEN None ELSE fd[q]]
  /\ ProxiesEnd

ReadPid(p) ==
  /\ pc[p] = "read"
  /\ \/ pidFile = None /\ Fail(p) /\ ProxiesEnd
     \/ /\ pidFile # None
        /\ ss' = [ss EXCEPT ![p].read = pidFile]
        /\ GoTo(p, "running") /\ Keep(p)
  /\ UNCHANGED <<run, cfg, tabs, issuerVars, fileVars,
                 told, pidFile, aged, stranger>>

\* is_proxy_running reads the file again; the signal goes to the pid that was
\* read first and ends that process, launcher or not.
StopProxy(p) ==
  /\ pc[p] = "running" /\ ss[p].job = "stop"
  /\ LET stopped == {q \in Procs : Live(pidFile) /\ Live(ss[p].read) /\ q = ss[p].read[1]}
     IN  /\ pc' = [q \in Procs |-> IF q = p THEN "remove"
                                   ELSE IF q \in stopped THEN "gone" ELSE pc[q]]
         /\ Ended(stopped)
  /\ UNCHANGED <<run, cfg, tabs, issuerVars, auth, tmp, raced,
                 told, pidFile, aged, stranger>>

ProxyStatus(p) ==
  /\ pc[p] = "running" /\ ss[p].job = "status"
  /\ \/ Live(pidFile) /\ Fail(p)
     \/ ~Live(pidFile) /\ GoTo(p, "remove") /\ Keep(p)
  /\ ProxiesEnd
  /\ UNCHANGED <<run, cfg, tabs, issuerVars, fileVars,
                 told, pidFile, aged, stranger>>

RemovePid(p) ==
  /\ pc[p] = "remove"
  /\ pidFile' = None
  /\ EndAt(p, "gone") /\ ProxiesEnd
  /\ UNCHANGED <<run, cfg, tabs, issuerVars, fileVars, told, aged, stranger>>

-----------------------------------------------------------------------------
(* The specification *)

\* Ctrl+C, a signal, a closed terminal, a crash.
Kill(p) ==
  /\ Alive(p)
  /\ GoTo(p, "gone") /\ Ended({p})
  /\ UNCHANGED <<run, cfg, tabs, issuerVars, auth, tmp, raced,
                 told, pidFile, aged, stranger>>

\* Another program binds the port that a proxy is about to bind ... (bound: a port
\* that has been taken from a process is not taken from it again)
StrangerBinds ==
  /\ stranger = NoStranger
  /\ \E p \in Procs, manner \in Manners :
       /\ ss[p].proxy = "indexing" /\ ~ss[p].taken /\ ~InUse(ss[p].port)
       /\ stranger' = [port |-> ss[p].port, does |-> manner]
       /\ ss' = [q \in Procs |-> Marked(ss[q], ss[p].port)]
  /\ UNCHANGED <<loginVars, told, pidFile, aged>>

\* ... and lets it go.
StrangerEnds ==
  /\ stranger # NoStranger /\ stranger' = NoStranger
  /\ UNCHANGED <<loginVars, ss, told, pidFile, aged>>

\* Days pass.
TimePasses ==
  /\ aged < issued
  /\ aged' = issued
  /\ UNCHANGED <<loginVars, ss, told, pidFile, stranger>>

SigningIn(p)  == /\ LoginStep(p) /\ ProxiesEnd
                 /\ UNCHANGED <<told, pidFile, aged, stranger>>
UserApproves  == (\E page \in tabs : Approve(page)) /\ UNCHANGED launchVars
ProxyStep(p)  == BindProxy(p) \/ BindFails(p) \/ WritePid(p)
UserStep(p)   == AnswerUpdate(p) \/ AnswerAsk(p) \/ RetryClaude(p) \/ ClaudeEnds(p)

OwnStep(p) ==
  \/ DueForCheck(p) \/ CheckAnswered(p) \/ FindPort(p) \/ NoPortLeft(p) \/ Poll(p)
  \/ CheckHealth(p) \/ StartClaude(p) \/ SigningIn(p)
  \/ ReadPid(p) \/ StopProxy(p) \/ ProxyStatus(p) \/ RemovePid(p)

Start(p) == StartLauncher(p) \/ StartLogin(p) \/ StartRefresh(p) \/ StartCommand(p)

Next ==
  \/ \E p \in Procs : Start(p) \/ OwnStep(p) \/ ProxyStep(p) \/ UserStep(p) \/ Kill(p)
  \/ UserApproves
  \/ TimePasses
  \/ StrangerBinds \/ StrangerEnds

\* A process gets on with what it does; nothing is asked of the user, of another program,
\* nor of the proxy task while it builds its index, which is requests to a provider.  Once
\* the port is bound, no request comes between it and its own.  That the issuer's answer
\* comes or its connection fails is part of it: the code sets no limit of its own on those
\* requests.
Fairness == \A p \in Procs : WF_vars(OwnStep(p)) /\ WF_vars(WritePid(p))

Spec == LauncherInit /\ [][Next]_vars /\ Fairness

-----------------------------------------------------------------------------
(* Properties *)

\* Claude runs behind the session's own proxy, unless another process took
\* the port between the search for it and the bind.  (The README of claudex says that it
\* may reuse an old proxy that is alive; the launcher starts one of its own every time.)
PrivateUnlessPortTaken ==
  \A p \in Procs : pc[p] = "wait" => Serving(p) \/ ss[p].taken

\* The port of a session stays with the session: whatever a sign-in saves,
\* the configuration file keeps its own.
PrivatePortNotSaved == cfg.port = "default"

\* A sign-in accepted at startup because the token was old, or not there,
\* leaves another one in the file when it is reported to have worked.
ReauthReplacesToken ==
  [][\A p \in Procs :
       lg[p].back # "gone" /\ pc[p] \in {"source", "rename"} /\ pc'[p] = lg[p].back
       => raced \/ auth' # lg[p].seen]_vars

\* A program that is no proxy, and silent, has the port of a session that waits.
Silenced(p) == pc[p] = "poll" /\ stranger = [port |-> ss[p].port, does |-> "silent"]

\* Whatever is started ends, or waits for the user, for Claude or for requests: no step
\* waits for ever on another claudex, on a proxy that fails or never binds its port, or on
\* a browser that never calls back.  Only a stranger that is silent for ever can hold
\* it, since the requests of the wait have no limit.
Settles ==
  \A p \in Procs :
    Alive(p) ~> (pc[p] \in {"gone", "update", "ask", "wait", "serve"} \/ []Silenced(p))

\* What the guide for contributors relies on: a run with --print that worked
\* is reported to have worked.
SuccessReported == \A p \in Procs : told[p]
=============================================================================
