----------------------------- MODULE ConfigFile -----------------------------
(***************************************************************************)
(* The configuration: a global file, a file of the project, and the        *)
(* environment, read in layers and written back as one file by the         *)
(* commands that add, remove, sign in to or migrate profiles.  Commands    *)
(* run in several terminals, wait for the user between reading and         *)
(* writing, hold no lock and may be killed at any step; the user edits the *)
(* same files by hand.                                                     *)
(*                                                                         *)
(* A document has the proxy port, which stands for every scalar setting,   *)
(* the list of profiles, and the keys the program does not know.  TOML and *)
(* YAML, and the names a file may have, are left out.                      *)
(***************************************************************************)
EXTENDS SequencesExt

CONSTANTS
  Procs, Names,
  None,        \* no file
  Unset,       \* a key that a document does not have
  HandWritten, \* documents a user may have written
  Places,      \* <<place, port the environment sets, file it was told>>: inside
               \* the project, outside of it, or told a file, which alone is read
  MaxProfiles, \* bound: profiles in a list
  MaxTurns     \* bound: commands started and edits by hand

Files == {"global", "project"}
Doc(port, profiles, extra) == [port |-> port, profiles |-> profiles, extra |-> extra]

ASSUME PlacesAssumption ==
  Places \subseteq ({"inside", "outside"} \X {Unset, "env"} \X {None})
                   \cup ({"override"} \X {Unset} \X Files)

Ports == {"default", "env", Unset} \cup {d.port : d \in HandWritten}
Documents == [ port     : Ports,
               profiles : Seq(Names) \cup {Unset},
               extra    : SUBSET {"legacy", "credential"} ]

ASSUME HandWrittenAssumption == HandWritten \subseteq Documents
ASSUME NoValueAssumption ==
  /\ None \notin Documents
  /\ None \notin {"add", "remove", "login", "doctor", "migrate", "inside", "outside", "override"}
  /\ Unset \notin Seq(Names) \cup {"default", "env"}

VARIABLES
  file,       \* what each file holds
  tmp,        \* what each temporary file holds
  pc, cmd,    \* where each process stands; its command and what it has in memory
  overtaken,  \* history: <<p, f>> where f was written since p read it
  added,      \* history: <<f, n>> where adding n to f succeeded and nothing undid it
  turns       \* commands started and edits made

vars == <<file, tmp, pc, cmd, overtaken, added, turns>>

-----------------------------------------------------------------------------
(* Layers *)

Defaults == Doc("default", << >>, {})
Emptied  == Doc(Unset, Unset, {})
Minimal  == Doc("default", Unset, {})  \* the file a first run creates

\* Figment::merge: a key of the upper layer replaces the lower one's, lists
\* included; what the program does not know is dropped.
Over(low, high) ==
  IF high = None THEN low
  ELSE Doc(IF high.port = Unset THEN low.port ELSE high.port,
           IF high.profiles = Unset THEN low.profiles ELSE high.profiles, {})

\* load_from reads one file; discover_config reads the global file, then the
\* project's if the command runs inside the project, then the environment.
Loaded(c, files) ==
  IF c.place = "override" THEN Over(Defaults, files[c.at])
  ELSE Over(Over(Over(Defaults, files["global"]),
                 IF c.place = "inside" THEN files["project"] ELSE None),
            Doc(c.env, Unset, {}))

\* The file a configuration is written back to: the uppermost that was read.
Source(c) ==
  CASE c.place = "override" -> c.at
    [] c.place = "inside" /\ file["project"] # None -> "project"
    [] OTHER -> "global"

NothingThere(c) ==
  /\ c.place # "override" /\ file["global"] = None
  /\ c.place = "inside" => file["project"] = None

Has(d, n) == \E i \in DOMAIN d.profiles : d.profiles[i] = n

WithProfile(d, n)    == [d EXCEPT !.profiles = Append(@, n)]
WithoutProfile(d, n) == [d EXCEPT !.profiles = RemoveFirst(@, n)]

-----------------------------------------------------------------------------
NoCommand == [op |-> None, name |-> None, place |-> None, env |-> Unset,
              at |-> None, doc |-> None, copy |-> None]

Init ==
  /\ file \in [Files -> HandWritten \cup {None}]
  /\ tmp = [p \in Procs |-> None]
  /\ pc = [p \in Procs |-> "gone"]
  /\ cmd = [p \in Procs |-> NoCommand]
  /\ overtaken = {} /\ added = {}
  /\ turns = 0

GoTo(p, step) == pc' = [pc EXCEPT ![p] = step]

\* Those other than p who have read f, or found it missing, and may write it.
Readers(p, f) == {q \in Procs \ {p} : pc[q] \notin {"gone", "load"}} \X {f}

\* The command is over, whatever came of it.
Exit(p) ==
  /\ GoTo(p, "gone")
  /\ cmd' = [cmd EXCEPT ![p] = NoCommand]
  /\ overtaken' = {x \in overtaken : x[1] # p}

\* Where a command runs, what the environment sets, and the file it was told.
Start(p) ==
  /\ pc[p] = "gone" /\ turns < MaxTurns
  /\ turns' = turns + 1
  /\ \E op \in {"add", "remove", "login", "doctor", "migrate"}, n \in Names :
     \E where \in Places :
       cmd' = [cmd EXCEPT ![p] =
                 [NoCommand EXCEPT !.op = op, !.name = n, !.place = where[1],
                                   !.env = where[2], !.at = where[3]]]
  /\ GoTo(p, "load")
  /\ UNCHANGED <<file, tmp, overtaken, added>>

Load(p) ==
  /\ pc[p] = "load" /\ ~NothingThere(cmd[p])
  /\ cmd' = [cmd EXCEPT ![p].doc = Loaded(cmd[p], file), ![p].at = Source(cmd[p])]
  /\ GoTo(p, "ready")
  /\ UNCHANGED <<file, tmp, overtaken, added, turns>>

\* create_default_global: no file was found.  The file is opened, which empties
\* it, and then written; the environment is not looked at.
FindNothing(p) ==
  /\ pc[p] = "load" /\ NothingThere(cmd[p])
  /\ GoTo(p, "create")
  /\ UNCHANGED <<file, tmp, cmd, overtaken, added, turns>>

OpenDefault(p) ==
  /\ pc[p] = "create"
  /\ file' = [file EXCEPT !["global"] = Emptied]
  /\ overtaken' = overtaken \cup Readers(p, "global")
  /\ added' = {x \in added : x[1] # "global"}
  /\ GoTo(p, "fill")
  /\ UNCHANGED <<tmp, cmd, turns>>

\* If another file was put in its place meanwhile, that one is not touched.
WriteDefault(p) ==
  /\ pc[p] = "fill"
  /\ file' = [file EXCEPT !["global"] = IF @ = Emptied THEN Minimal ELSE @]
  /\ overtaken' = overtaken \cup (IF file' = file THEN {} ELSE Readers(p, "global"))
  /\ cmd' = [cmd EXCEPT ![p].doc = Over(Defaults, Minimal), ![p].at = "global"]
  /\ GoTo(p, "ready")
  /\ UNCHANGED <<tmp, added, turns>>

-----------------------------------------------------------------------------
(* The commands *)

\* The configuration in memory is changed and will be saved.
Change(p, doc) ==
  /\ cmd' = [cmd EXCEPT ![p].doc = doc]
  /\ GoTo(p, "save")
  /\ UNCHANGED <<file, tmp, overtaken, added, turns>>

GiveUp(p) == Exit(p) /\ UNCHANGED <<file, tmp, added, turns>>

\* interactive_add, once its questions are answered; and ensure_oauth_profile.
AddProfile(p) ==
  /\ pc[p] = "ready" /\ cmd[p].op \in {"add", "login"}
  /\ ~Has(cmd[p].doc, cmd[p].name) /\ Len(cmd[p].doc.profiles) < MaxProfiles
  /\ Change(p, WithProfile(cmd[p].doc, cmd[p].name))

\* A profile of the name exists: `profile add' fails, and a login goes on
\* without saving anything.
ProfileExists(p) ==
  /\ pc[p] = "ready" /\ cmd[p].op \in {"add", "login"}
  /\ Has(cmd[p].doc, cmd[p].name)
  /\ GiveUp(p)

RemoveProfile(p) ==
  /\ pc[p] = "ready" /\ cmd[p].op = "remove" /\ Has(cmd[p].doc, cmd[p].name)
  /\ Change(p, WithoutProfile(cmd[p].doc, cmd[p].name))

NoSuchProfile(p) ==
  /\ pc[p] = "ready" /\ cmd[p].op = "remove" /\ ~Has(cmd[p].doc, cmd[p].name)
  /\ GiveUp(p)

\* doctor, without profiles or with one whose token is bad, offers to sign in.
AcceptFix(p) ==
  /\ pc[p] = "ready" /\ cmd[p].op = "doctor"
  /\ cmd' = [cmd EXCEPT ![p].op = "login"]
  /\ UNCHANGED <<file, tmp, pc, overtaken, added, turns>>

Decline(p) ==
  /\ \/ pc[p] = "ready" /\ cmd[p].op \in {"add", "doctor"}
     \/ pc[p] = "ask"
  /\ GiveUp(p)

\* detect_unknown_config_keys and looks_like_credential.
UnknownKeys(d)    == d.extra
Credentials(keys) == keys \ {"legacy"}

\* cmd_migrate reads the file itself, and refuses if it is gone or has a key
\* that looks like a credential and would be dropped.
CheckKeys(p) ==
  /\ pc[p] = "ready" /\ cmd[p].op = "migrate"
  /\ IF file[cmd[p].at] = None \/ Credentials(UnknownKeys(file[cmd[p].at])) # {}
     THEN Exit(p)
     ELSE GoTo(p, "ask") /\ UNCHANGED <<cmd, overtaken>>
  /\ UNCHANGED <<file, tmp, added, turns>>

\* The user has agreed.  The backup has a name of its own.
BackUp(p) ==
  /\ pc[p] = "ask"
  /\ cmd' = [cmd EXCEPT ![p].copy = file[cmd[p].at]]
  /\ overtaken' = {x \in overtaken : x[1] # p}
  /\ GoTo(p, "copied")
  /\ UNCHANGED <<file, tmp, added, turns>>

\* Mutant: what was loaded at the start, with its other layers, is saved.
Canonicalise_Merged(p) == pc[p] = "copied" /\ Change(p, cmd[p].doc)

\* The file is loaded again, alone.
Canonicalise(p) == pc[p] = "copied" /\ Change(p, Over(Defaults, file[cmd[p].at]))

-----------------------------------------------------------------------------
(* save *)

\* Mutant: the name of the temporary file is the same for all processes.
TmpName_Shared(p) == CHOOSE q \in Procs : TRUE

TmpName(p) == p

\* Mutant: the file is opened, and emptied, before there is anything to put there.
WriteTmp_InPlace(p) ==
  /\ pc[p] = "save"
  /\ tmp' = [tmp EXCEPT ![TmpName(p)] = cmd[p].doc]
  /\ file' = [file EXCEPT ![cmd[p].at] = Emptied]
  /\ GoTo(p, "rename")
  /\ UNCHANGED <<cmd, overtaken, added, turns>>

WriteTmp(p) ==
  /\ pc[p] = "save"
  /\ tmp' = [tmp EXCEPT ![TmpName(p)] = cmd[p].doc]
  /\ GoTo(p, "rename")
  /\ UNCHANGED <<file, cmd, overtaken, added, turns>>

\* What the history keeps of the additions when p replaces f.
AddedAfter(p, f) ==
  LET kept == IF <<p, f>> \in overtaken THEN {x \in added : x[1] # f} ELSE added
  IN  CASE cmd[p].op \in {"add", "login"} -> kept \cup {<<f, cmd[p].name>>}
        [] cmd[p].op = "remove"           -> kept \ {<<f, cmd[p].name>>}
        [] OTHER                          -> kept

Rename(p) ==
  /\ pc[p] = "rename"
  /\ LET f == cmd[p].at IN
       /\ tmp[TmpName(p)] # None
       /\ file' = [file EXCEPT ![f] = tmp[TmpName(p)]]
       /\ added' = AddedAfter(p, f)
       /\ overtaken' = {x \in overtaken : x[1] # p} \cup Readers(p, f)
  /\ tmp' = [tmp EXCEPT ![TmpName(p)] = None]
  /\ GoTo(p, "gone")
  /\ cmd' = [cmd EXCEPT ![p] = NoCommand]
  /\ UNCHANGED turns

\* The process is killed, or its terminal closed.
Kill(p) == pc[p] # "gone" /\ GiveUp(p)

EditByHand ==
  /\ turns < MaxTurns /\ turns' = turns + 1
  /\ \E f \in Files, d \in HandWritten :
       /\ file' = [file EXCEPT ![f] = d]
       /\ overtaken' = overtaken \cup {x \in Procs \X {f} : pc[x[1]] \notin {"gone", "load"}}
       /\ added' = {x \in added : x[1] # f}
  /\ UNCHANGED <<tmp, pc, cmd>>

Next ==
  \/ \E p \in Procs :
       \/ Start(p) \/ Load(p) \/ FindNothing(p) \/ OpenDefault(p) \/ WriteDefault(p)
       \/ AddProfile(p) \/ ProfileExists(p) \/ RemoveProfile(p) \/ NoSuchProfile(p)
       \/ AcceptFix(p) \/ Decline(p)
       \/ CheckKeys(p) \/ BackUp(p) \/ Canonicalise(p)
       \/ WriteTmp(p) \/ Rename(p) \/ Kill(p)
  \/ EditByHand

Spec == Init /\ [][Next]_vars

-----------------------------------------------------------------------------
(* Properties *)

\* p replaces the file it works on.
Saves(p) == pc[p] = "rename" /\ pc'[p] = "gone" /\ file'[cmd[p].at] # file[cmd[p].at]

Applied(c, d) ==
  IF c.op = "remove" THEN WithoutProfile(d, c.name) ELSE WithProfile(d, c.name)

\* profile add, profile remove and a login that creates its profile (save,
\* profile.rs:118-137): what the command would read afterwards is what it would
\* have read before with that one profile more or less.  Several layers are read
\* and one is written, and another process may be saving as well; only a file
\* written between reading and writing spoils this.
SaveChangesOneThing ==
  [][\A p \in Procs :
       Saves(p) /\ cmd[p].op # "migrate" /\ (\A f \in Files : <<p, f>> \notin overtaken)
       => Loaded(cmd[p], file') = Applied(cmd[p], Loaded(cmd[p], file))]_vars

\* config migrate (cmd.rs:28-100): what is replaced has been backed up, keys the
\* program does not know with it, and what replaces it has all the settings of
\* that file and none of the environment or of another layer, unless the file
\* was written after the backup.
MigrateKeepsTheFile ==
  [][\A p \in Procs :
       Saves(p) /\ cmd[p].op = "migrate" /\ <<p, cmd[p].at>> \notin overtaken
       => /\ cmd[p].copy = file[cmd[p].at]
          /\ file'[cmd[p].at] = Over(Defaults, cmd[p].copy)]_vars

\* A profile that was added stays in its file, through later commands of any
\* kind from any place and through commands killed at any step, until it is
\* removed, the user rewrites the file, or a command saves what it had read
\* before the profile was there.
AddedStays ==
  \A x \in added : file[x[1]] # None /\ Has(Over(Defaults, file[x[1]]), x[2])
=============================================================================
