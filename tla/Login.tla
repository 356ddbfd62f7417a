------------------------------- MODULE Login -------------------------------
(***************************************************************************)
(* Signing in to a provider: `claudex-config auth login', `auth refresh'   *)
(* and the sign-in a launcher offers before it starts Claude.  Several     *)
(* processes share, with no lock between them, the configuration file, the *)
(* credentials file ~/.codex/auth.json with its one temporary name, the    *)
(* fixed callback port 1455 and the user's browser.                        *)
(*                                                                         *)
(* A token pair is the number of its issue; what else auth.json holds is   *)
(* left out.  The configuration is one profile and the proxy port.  Steps  *)
(* are cut where the code waits, and where a system call on the            *)
(* credentials file may fall between those of another process.             *)
(***************************************************************************)
EXTENDS Naturals, FiniteSets

CONSTANTS
  Procs,      \* processes of the program on this machine
  None,
  Empty,      \* a file that was truncated and not written yet
  Garbled,    \* a file in which two writes overlap
  Beginnings, \* <<how the profile authenticates, pairs issued before>>
  MaxIssued   \* bound: token pairs the issuer hands out

ASSUME ProcsAssumption == IsFiniteSet(Procs) /\ MaxIssued \in Nat
ASSUME BeginningsAssumption ==
  /\ Beginnings \subseteq {None, "key", "oauth"} \X {0, 1}
  /\ \A b \in Beginnings : b[2] <= MaxIssued
ASSUME NoValueAssumption ==
  /\ None \notin {"key", "oauth"}
  /\ \A value \in {None, Empty, Garbled} : value \notin Nat

VARIABLES
  pc,       \* where each process stands; "gone" when it has ended
  run,      \* how often each process slot was started: with the slot, a pid
  mem, cfg, \* the configuration as each process loaded it, and the file
  lg,       \* each process's sign-in
  tabs,     \* authorisation pages open in the browser, named by their pid
  issued, spent,  \* the issuer: pairs handed out, refresh tokens used up
  auth, tmp,      \* contents of auth.json and auth.tmp
  fd,       \* the name the file a process has open now has
  raced     \* two processes were writing the credentials at once

configVars == <<mem, cfg>>
issuerVars == <<issued, spent>>
fileVars   == <<auth, tmp, fd, raced>>
loginVars  == <<pc, run, lg, tabs, configVars, issuerVars, fileVars>>

Issues   == 1..MaxIssued
Contents == Issues \cup {None, Empty, Garbled}

Me(p)     == <<p, run[p]>>
Alive(p)  == pc[p] # "gone"
Readable  == auth \in Issues

NoConfig == [auth |-> None, port |-> None]
NoLogin == [how |-> "browser", force |-> FALSE, back |-> "gone", seen |-> None,
            listening |-> FALSE, code |-> None, sent |-> None, got |-> None,
            again |-> FALSE]
Ways    == {"browser", "device", "external"}

LoginInit ==
  /\ pc = [p \in Procs |-> "gone"]
  /\ run = [p \in Procs |-> 0]
  /\ \E b \in Beginnings :
       /\ cfg = [auth |-> b[1], port |-> "default"]
       /\ issued = b[2] /\ auth = (IF b[2] = 1 THEN 1 ELSE None)
  /\ mem = [p \in Procs |-> NoConfig]
  /\ lg = [p \in Procs |-> NoLogin]
  /\ tabs = {}
  /\ spent = {}
  /\ tmp = None /\ fd = [p \in Procs |-> None] /\ raced = FALSE

GoTo(p, place) == pc' = [pc EXCEPT ![p] = place]

\* A sign-in is over, and what it remembered with it; so is the process, if
\* there is nothing to go back to.
EndAt(p, place) ==
  /\ GoTo(p, place)
  /\ lg' = [lg EXCEPT ![p] = NoLogin]
  /\ mem' = IF place = "gone" THEN [mem EXCEPT ![p] = NoConfig] ELSE mem
Fail(p)    == EndAt(p, "gone")
Succeed(p) == EndAt(p, lg[p].back)
Keep(p)    == UNCHANGED <<lg, mem>>

-----------------------------------------------------------------------------
(* The profile, and which way to sign in *)

\* Mutant: a profile that exists is saved as well.
EnsureProfileSaved(p) ==
  /\ mem' = [mem EXCEPT ![p].auth = "oauth"]
  /\ cfg' = mem'[p]

\* ensure_oauth_profile: a new profile is written with the rest of the
\* configuration; one that exists is changed in memory only.
EnsureProfile(p) ==
  /\ mem' = [mem EXCEPT ![p].auth = "oauth"]
  /\ cfg' = IF mem[p].auth = None THEN mem'[p] ELSE cfg

BeginLogin(p) ==
  /\ pc[p] = "login"
  /\ EnsureProfile(p)
  /\ GoTo(p, "source")
  /\ UNCHANGED <<run, lg, tabs, issuerVars, fileVars>>

\* Providers whose credentials another program keeps: they are read, or the
\* login fails; nothing is written.
LoginExternal(p) ==
  /\ pc[p] = "source" /\ lg[p].how = "external"
  /\ Succeed(p) \/ Fail(p)
  /\ UNCHANGED <<run, cfg, tabs, issuerVars, fileVars>>

\* Without force, credentials that can be read are enough, however old.
UseExisting(p) ==
  /\ pc[p] = "source" /\ lg[p].how # "external" /\ ~lg[p].force /\ Readable
  /\ Succeed(p)
  /\ UNCHANGED <<run, cfg, tabs, issuerVars, fileVars>>

SignsIn(p, how) ==
  pc[p] = "source" /\ lg[p].how = how /\ (lg[p].force \/ ~Readable)

\* The page is opened before the callback server has its port.
OpenBrowser(p) ==
  /\ SignsIn(p, "browser")
  /\ tabs' = tabs \cup {Me(p)}
  /\ GoTo(p, "bind")
  /\ UNCHANGED <<run, lg, configVars, issuerVars, fileVars>>

RequestDeviceCode(p) ==
  /\ SignsIn(p, "device")
  /\ \/ GoTo(p, "device") /\ Keep(p)
     \/ Fail(p)
  /\ UNCHANGED <<run, cfg, tabs, issuerVars, fileVars>>

-----------------------------------------------------------------------------
(* The browser's callback *)

Listeners == {p \in Procs : Alive(p) /\ lg[p].listening}

BindCallback(p) ==
  /\ pc[p] = "bind"
  /\ IF Listeners = {}
     THEN /\ lg' = [lg EXCEPT ![p].listening = TRUE]
          /\ GoTo(p, "callback") /\ UNCHANGED mem
     ELSE Fail(p)
  /\ UNCHANGED <<run, cfg, tabs, issuerVars, fileVars>>

\* The user approves on a page; the browser is sent to the callback port,
\* where whoever listens takes the first code that comes.  A refusal shows a
\* page and leaves the login waiting, which changes nothing here.
Approve(page) ==
  /\ page \in tabs
  /\ tabs' = tabs \ {page}
  /\ lg' = [p \in Procs |->
              IF p \in Listeners /\ lg[p].code = None
              THEN [lg[p] EXCEPT !.code = page] ELSE lg[p]]
  /\ UNCHANGED <<pc, run, configVars, issuerVars, fileVars>>

TakeCode(p) ==
  /\ pc[p] = "callback" /\ lg[p].code # None
  /\ lg' = [lg EXCEPT ![p].listening = FALSE]
  /\ GoTo(p, "exchange")
  /\ UNCHANGED <<run, tabs, configVars, issuerVars, fileVars>>

\* Mutant: the wait has no limit.
CallbackNeverTimesOut(p) == FALSE /\ UNCHANGED loginVars

\* Five minutes without a code: the error ends the process, in a launcher too.
CallbackTimeout(p) ==
  /\ pc[p] = "callback" /\ lg[p].code = None
  /\ Fail(p)
  /\ UNCHANGED <<run, cfg, tabs, issuerVars, fileVars>>

\* The device code: approved by the user, or an error, or still pending after
\* fifteen minutes.  (An earlier `pending' changes nothing.)
DevicePoll(p) ==
  /\ pc[p] = "device"
  /\ \/ /\ lg' = [lg EXCEPT ![p].code = Me(p)]
        /\ GoTo(p, "exchange") /\ UNCHANGED mem
     \/ Fail(p)
  /\ UNCHANGED <<run, cfg, tabs, issuerVars, fileVars>>

\* The issuer takes a code only with the verifier of the page it came from.
ExchangeCode(p) ==
  /\ pc[p] = "exchange"
  /\ \/ /\ lg[p].code = Me(p) /\ issued < MaxIssued
        /\ issued' = issued + 1
        /\ lg' = [lg EXCEPT ![p].got = issued + 1]
        /\ GoTo(p, "open") /\ UNCHANGED mem
     \/ Fail(p) /\ UNCHANGED issued
  /\ UNCHANGED <<run, cfg, tabs, spent, fileVars>>

-----------------------------------------------------------------------------
(* auth refresh: what another program keeps is only read *)

RefreshRead(p) ==
  /\ pc[p] = "refresh"
  /\ \/ lg[p].how = "external" /\ Fail(p)
     \/ lg[p].how # "external" /\ ~Readable /\ Fail(p)
     \/ /\ lg[p].how # "external" /\ Readable
        /\ lg' = [lg EXCEPT ![p].sent = auth]
        /\ GoTo(p, "refreshing") /\ UNCHANGED mem
  /\ UNCHANGED <<run, cfg, tabs, issuerVars, fileVars>>

\* The refresh token is used up when the issuer answers, whether or not the
\* answer arrives; the pair that arrives is written twice, by the exchange and
\* by its caller.
RefreshReply(p) ==
  /\ pc[p] = "refreshing"
  /\ \/ /\ lg[p].sent \notin spent /\ issued < MaxIssued
        /\ spent' = spent \cup {lg[p].sent} /\ issued' = issued + 1
        /\ lg' = [lg EXCEPT ![p].got = issued + 1, ![p].again = TRUE]
        /\ GoTo(p, "open") /\ UNCHANGED mem
     \/ /\ spent' \in {spent, spent \cup {lg[p].sent}}
        /\ Fail(p) /\ UNCHANGED issued
  /\ UNCHANGED <<run, cfg, tabs, fileVars>>

-----------------------------------------------------------------------------
(* write_codex_credentials_atomic: open and truncate, write, rename *)

Writing(p) == pc[p] \in {"fill", "rename"}

\* Mutant: auth.json is written in place.
OpenInPlace(p) ==
  /\ pc[p] = "open"
  /\ auth' = Empty
  /\ fd' = [fd EXCEPT ![p] = "auth"]
  /\ raced' = (raced \/ \E q \in Procs \ {p} : Writing(q))
  /\ GoTo(p, "fill")
  /\ UNCHANGED <<run, lg, tabs, tmp, configVars, issuerVars>>

\* Both processes use the same temporary name: the second to open it empties
\* the file of the first.
OpenTmp(p) ==
  /\ pc[p] = "open"
  /\ tmp' = Empty
  /\ fd' = [fd EXCEPT ![p] = "tmp"]
  /\ raced' = (raced \/ \E q \in Procs \ {p} : Writing(q))
  /\ GoTo(p, "fill")
  /\ UNCHANGED <<run, lg, tabs, auth, configVars, issuerVars>>

\* What a file holds once p's text is laid over what is there.
Laid(p, content) == {lg[p].got} \cup (IF content = Empty THEN {} ELSE {Garbled})

\* The write goes to the open file, whatever its name is by now.
Fill(p) ==
  /\ pc[p] = "fill"
  /\ \/ fd[p] = "tmp" /\ tmp' \in Laid(p, tmp) /\ UNCHANGED auth
     \/ fd[p] = "auth" /\ auth' \in Laid(p, auth) /\ UNCHANGED tmp
     \/ fd[p] = "lost" /\ UNCHANGED <<auth, tmp>>
  /\ fd' = [fd EXCEPT ![p] = None]
  /\ GoTo(p, "rename")
  /\ UNCHANGED <<run, lg, tabs, raced, configVars, issuerVars>>

\* What becomes of the name a file is open under when auth.tmp is renamed.
Renamed(name) ==
  CASE name = "tmp" -> "auth" [] name = "auth" -> "lost" [] OTHER -> name

\* The rename fails when another process has already moved the file away.
Rename(p) ==
  /\ pc[p] = "rename"
  /\ IF tmp = None
     THEN Fail(p) /\ UNCHANGED <<auth, tmp, fd>>
     ELSE /\ auth' = tmp /\ tmp' = None
          /\ fd' = [q \in Procs |-> Renamed(fd[q])]
          /\ IF lg[p].again
             THEN /\ lg' = [lg EXCEPT ![p].again = FALSE]
                  /\ GoTo(p, "open") /\ UNCHANGED mem
             ELSE Succeed(p)
  /\ UNCHANGED <<run, cfg, tabs, raced, issuerVars>>

-----------------------------------------------------------------------------
(* A sign-in's own steps: the user's approval is not among them *)

LoginStep(p) ==
  \/ BeginLogin(p) \/ LoginExternal(p) \/ UseExisting(p)
  \/ OpenBrowser(p) \/ RequestDeviceCode(p)
  \/ BindCallback(p) \/ TakeCode(p) \/ CallbackTimeout(p)
  \/ DevicePoll(p) \/ ExchangeCode(p)
  \/ RefreshRead(p) \/ RefreshReply(p)
  \/ OpenTmp(p) \/ Fill(p) \/ Rename(p)

-----------------------------------------------------------------------------
(* Properties *)

\* Only two writers at once can leave the credentials file cut short or
\* garbled: one process killed at any step, however often, never does.
WholeUnlessRaced == ~raced => auth \in Issues \cup {None}
=============================================================================
