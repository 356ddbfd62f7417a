------------------------------- MODULE Sets -------------------------------
(***************************************************************************)
(* Instruction sets (src/sets): `claudex-config sets add', `remove' and    *)
(* `update', run from several shells, sharing the lock file, the clones    *)
(* in the cache directory and the files under .claude.                     *)
(*                                                                         *)
(* A command loads the lock file once, then touches one component after    *)
(* the other, asking the user about each that exists already, and writes   *)
(* the whole lock file back at the end.  It may fail or be interrupted     *)
(* between any two of those steps.                                         *)
(***************************************************************************)
EXTENDS Naturals, Sequences, FiniteSets, SequencesExt

CONSTANTS
    Shells,         \* terminals with at most one command each
    Sources,        \* repositories sets come from
    SetNames,       \* names manifests give their sets
    Components,     \* records [kind, name]
    Manifest,       \* source -> version -> [name, components, lacking, env] or Malformed
    Malformed,      \* a manifest that cannot be read or is not valid
    Local,          \* the sources that are directories: they are used in place
    DirName,        \* source -> the clone's directory: the last segment of its URL
    UserFiles,      \* components the user wrote before
    MaxCommands,    \* bound on the commands ever typed
    Environment     \* what may go wrong, a subset of Faults

User == <<"user", 0>>   \* in the place of a set and its version

Faults == {"io", "interrupt", "offline"}

Kinds == {"claude_md", "rule", "skill", "mcp"}
Versions(u) == DOMAIN Manifest[u]
Dirs == Range(DirName) \cup SetNames

ASSUME SetsAssumption ==
    /\ IsFiniteSet(SetNames) /\ User[1] \notin SetNames
    /\ DOMAIN DirName = Sources
    /\ \A u \in Sources : Len(Manifest[u]) \in Nat \ {0} /\ Versions(u) = 1..Len(Manifest[u])
    /\ \A c \in Components : c.kind \in Kinds
    /\ \A u \in Sources : \A v \in Versions(u) : Manifest[u][v] # Malformed =>
         /\ Manifest[u][v].name \in SetNames
         /\ Manifest[u][v].components \in Seq(Components)
         /\ Manifest[u][v].lacking \subseteq Components
    /\ Local \subseteq Sources
    /\ UserFiles \subseteq Components
    /\ Environment \subseteq Faults

VARIABLES
    published,  \* source -> the version at origin/HEAD
    clones,     \* directory -> <<source, version>> checked out there, or << >>
    disk,       \* component -> who wrote what is in it: <<name, version>> or User
    lock,       \* sets.lock.json: name -> its record or Absent
    shell,      \* what each shell's command is doing
    commands,   \* how many commands were typed
    strays,     \* history: <<name, component>> left behind without a record, with a cause
    taken       \* history: <<name, component>> that went or were replaced under a record

setsVars == <<published, clones, disk, lock, shell, commands, strays, taken>>

Absent == [version |-> 0, source |-> "none", pinned |-> FALSE, locked_ref |-> << >>, components |-> << >>]
Latest == 0     \* no --ref was given

\* queue: sources still to add; seen: the lock file as it was loaded; done: what was
\* installed; stale: history, the sets other shells have saved since it was loaded.
Idle == [pc |-> "idle", queue |-> << >>, seen |-> << >>, manifest |-> << >>, source |-> "none",
         pinned |-> FALSE, name |-> "none", todo |-> << >>, done |-> << >>, stale |-> {}]

SetsInit ==
    /\ published = [u \in Sources |-> 1]
    /\ clones = [d \in Dirs |-> << >>]
    /\ disk = [c \in Components |-> IF c \in UserFiles THEN {User} ELSE {}]
    /\ lock = [n \in SetNames |-> Absent]
    /\ shell = [s \in Shells |-> Idle]
    /\ commands = 0 /\ strays = {} /\ taken = {}

\* find_in_dir and validate.
ManifestAt(commit) == Manifest[commit[1]][commit[2]]

\* What a shell reads in the directory of source u.
InDir(u) == IF u \in Local THEN <<u, published[u]>> ELSE clones[DirName[u]]

\* What shell s installs component c from: an MCP server from the manifest it has read, the
\* rest from what the directory holds by now.
From(s, c) == IF c.kind = "mcp" THEN shell[s].manifest ELSE InDir(shell[s].source)

\* The component's file, or the server's program, is not there.
Lacking(s, c) ==
    \/ From(s, c) = << >>
    \/ LET man == ManifestAt(From(s, c))
       IN  man = Malformed \/ c \notin Range(man.components) \/ c \in man.lacking

\* What it writes, as the name it will record and the version it really has.
Layer(s, c) == <<shell[s].name, From(s, c)[2]>>

WrittenBy(n) == {c \in Components : \E l \in disk[c] : l[1] = n}
Recorded(n) == Range(lock[n].components)
Pairs(n, C) == {n} \X C

Become(s, r) == shell' = [shell EXCEPT ![s] = r]

\* One source of a command is done with; `update' goes on with the next target.
GoOn(queue) == IF queue = << >> THEN Idle ELSE [Idle EXCEPT !.pc = "fetch", !.queue = queue]

\* A command is typed.
Type(s) ==
    /\ shell[s].pc = "idle"
    /\ commands < MaxCommands
    /\ commands' = commands + 1
    /\ UNCHANGED <<published, clones, disk, lock, strays, taken>>

\* sets add u [--ref ref]
AddSet(s, u, ref) ==
    /\ Type(s)
    /\ Become(s, GoOn(<< <<u, ref>> >>))

\* sets update [name]: the targets are the records of this moment, but for pinned ones.
UpdateSet(s, N) ==
    LET targets == {<<lock[n].source, Latest>> : n \in {n \in N : lock[n] # Absent /\ ~lock[n].pinned}}
    IN  /\ Type(s)
        /\ targets # {}
        /\ \E queue \in SetToSeqs(targets) : Become(s, GoOn(queue))

\* Mutant: `remove' forgets the set before it deletes its files.
RemoveSet_ForgetsFirst(s, n) ==
    /\ shell[s].pc = "idle" /\ commands < MaxCommands
    /\ lock[n] # Absent
    /\ commands' = commands + 1
    /\ lock' = [lock EXCEPT ![n] = Absent]
    /\ Become(s, [Idle EXCEPT !.pc = "uninstall", !.seen = lock', !.name = n, !.todo = lock[n].components])
    /\ UNCHANGED <<published, clones, disk, strays, taken>>

\* sets remove name, up to the loop over the recorded components.
RemoveSet(s, n) ==
    /\ Type(s)
    /\ lock[n] # Absent
    /\ Become(s, [Idle EXCEPT !.pc = "uninstall", !.seen = lock, !.name = n, !.todo = lock[n].components])

\* fetch_git: a directory that exists is taken for a clone of this source.
Origin(u) == IF u \in Local \/ clones[DirName[u]] = << >> THEN u ELSE clones[DirName[u]][1]

\* collect_env_values: what may come of a variable that is in the environment, in a shell
\* profile or nowhere, and that the user may accept, type or leave empty.
Answers(x) ==
    IF x.known = "environment" THEN {"value"}
    ELSE {"value"} \cup (IF x.default THEN {} ELSE IF x.required THEN {"bail"} ELSE {"none"})

\* The directory is brought up to date, the lock file loaded and the variables asked for.
Fetch(s) ==
    LET u == Head(shell[s].queue)[1]
        ref == Head(shell[s].queue)[2]
        rest == Tail(shell[s].queue)
        v == IF ref = Latest \/ u \in Local THEN published[Origin(u)] ELSE ref
        man == ManifestAt(<<Origin(u), v>>)
        installed == lock[man.name].version = v
    IN  /\ shell[s].pc = "fetch"
        /\ v \in 1..published[Origin(u)]
        /\ clones' = IF u \in Local THEN clones ELSE [clones EXCEPT ![DirName[u]] = <<Origin(u), v>>]
        /\ IF man = Malformed THEN Become(s, GoOn(rest)) ELSE
           \/ /\ installed \/ \E x \in man.env : "bail" \in Answers(x)
              /\ Become(s, GoOn(rest))
           \/ /\ ~installed
              /\ Become(s, [Idle EXCEPT !.pc = "install", !.queue = rest, !.seen = lock, !.name = man.name,
                              !.manifest = <<Origin(u), v>>, !.source = u, !.pinned = (ref # Latest), !.todo = man.components])
        /\ UNCHANGED <<published, disk, lock, commands, strays, taken>>

\* git fails: a fetch that fails deletes the clone before it tries anew, a ref may not exist.
FetchFails(s) ==
    LET u == Head(shell[s].queue)[1]
        ref == Head(shell[s].queue)[2]
    IN  /\ shell[s].pc = "fetch"
        /\ u \notin Local
        /\ \/ /\ "offline" \in Environment
              /\ clones' = [clones EXCEPT ![DirName[u]] = << >>]
           \/ /\ ref > published[Origin(u)]
              /\ UNCHANGED clones
        /\ Become(s, GoOn(Tail(shell[s].queue)))
        /\ UNCHANGED <<published, disk, lock, commands, strays, taken>>

\* What may become of an MCP server: without its program the user may skip it, and where one
\* of that name exists keep that one.
ServerResolutions(s, c) == {"replace"} \cup (IF Lacking(s, c) \/ disk[c] # {} THEN {"skip"} ELSE {})

\* What may become of a component: the answers of resolve_file_conflict and
\* resolve_dir_conflict where there is one already.
Resolutions(s, c) ==
    CASE c.kind = "mcp"  -> ServerResolutions(s, c)
      [] Lacking(s, c)   -> {"skip"}
      [] disk[c] = {}    -> {"replace"}
      [] c.kind = "skill" -> {"replace", "skip"}
      [] OTHER           -> {"replace", "merge", "skip"}

\* apply_file_resolution; appended or prepended is all the same.
Resolved(s, c, how) ==
    CASE how = "replace" -> {Layer(s, c)}
      [] how = "merge"   -> disk[c] \cup {Layer(s, c)}
      [] how = "skip"    -> disk[c]

\* Component c is rewritten by shell s: who else has written it loses it, and so does the
\* installing set if the files found are not of the version to be recorded.
Rewrite(s, c, new) ==
    /\ disk' = [disk EXCEPT ![c] = new]
    /\ taken' = taken \cup {<<l[1], c>> : l \in disk[c] \ new}
                      \cup {<<l[1], c>> : l \in {l \in new : l[1] = shell[s].name /\ l[2] # shell[s].manifest[2]}}

\* Mutant: a component the user keeps is recorded all the same.
Install_RecordsSkipped(s) ==
    /\ shell[s].pc = "install" /\ shell[s].todo # << >>
    /\ LET c == Head(shell[s].todo)
       IN  /\ \E how \in Resolutions(s, c) : Rewrite(s, c, Resolved(s, c, how))
           /\ Become(s, [shell[s] EXCEPT !.todo = Tail(@), !.done = Append(@, c)])
    /\ UNCHANGED <<published, clones, lock, commands, strays>>

\* install_set: one turn of a loop over the components.
Install(s) ==
    /\ shell[s].pc = "install" /\ shell[s].todo # << >>
    /\ LET c == Head(shell[s].todo)
       IN  \E how \in Resolutions(s, c) :
             /\ Rewrite(s, c, Resolved(s, c, how))
             /\ Become(s, [shell[s] EXCEPT !.todo = Tail(@), !.done = IF how = "skip" THEN @ ELSE Append(@, c)])
    /\ UNCHANGED <<published, clones, lock, commands, strays>>

\* An error in that turn: only for an MCP server does the installation go on; a skill may
\* already have been deleted to be copied anew.
InstallFails(s) ==
    /\ "io" \in Environment
    /\ shell[s].pc = "install" /\ shell[s].todo # << >>
    /\ LET c == Head(shell[s].todo)
       IN  \/ /\ c.kind = "mcp"
              /\ Become(s, [shell[s] EXCEPT !.todo = Tail(@)])
              /\ UNCHANGED <<disk, strays, taken>>
           \/ /\ c.kind # "mcp"
              /\ \/ UNCHANGED <<disk, taken>>
                 \/ /\ c.kind = "skill" /\ "replace" \in Resolutions(s, c)
                    /\ Rewrite(s, c, {})
              /\ strays' = strays \cup Pairs(shell[s].name, Range(shell[s].done))
              /\ Become(s, GoOn(shell[s].queue))
    /\ UNCHANGED <<published, clones, lock, commands>>

\* uninstall_set: one turn of a loop over the recorded components.
Uninstall(s) ==
    /\ shell[s].pc = "uninstall" /\ shell[s].todo # << >>
    /\ LET c == Head(shell[s].todo)
       IN  \/ /\ Rewrite(s, c, {})
              /\ UNCHANGED strays
           \/ /\ c.kind = "claude_md"   \* the user keeps it
              /\ strays' = strays \cup {<<shell[s].name, c>>}
              /\ UNCHANGED <<disk, taken>>
    /\ Become(s, [shell[s] EXCEPT !.todo = Tail(@)])
    /\ UNCHANGED <<published, clones, lock, commands>>

\* The directory with the set's name is removed from the cache.
Purge(s) ==
    /\ shell[s].pc = "uninstall" /\ shell[s].todo = << >>
    /\ clones' = [clones EXCEPT ![shell[s].name] = << >>]
    /\ Become(s, [shell[s] EXCEPT !.pc = "forget"])
    /\ UNCHANGED <<published, disk, lock, commands, strays, taken>>

\* The lock file is written back whole, as it was loaded but for set n; what n installed
\* before and its new record lacks is forgotten.
WriteBack(s, n, entry, forgotten, next) ==
    LET new == [shell[s].seen EXCEPT ![n] = entry]
        raced == shell[s].stale
    IN  /\ lock' = new
        /\ strays' = (strays \cup Pairs(n, forgotten) \cup UNION {Pairs(m, Recorded(m)) : m \in raced})
                        \ Pairs(n, Range(entry.components))
        /\ taken' = (taken \cup UNION {Pairs(m, Range(new[m].components)) : m \in raced})
                        \ Pairs(n, {c \in Range(entry.components) : <<n, entry.version>> \in disk[c]})
        /\ shell' = [t \in Shells |-> IF t = s THEN next
                                      ELSE IF shell[t].seen = << >> THEN shell[t]
                                      ELSE [shell[t] EXCEPT !.stale = @ \cup raced \cup {n}]]
        /\ UNCHANGED <<published, clones, disk, commands>>

\* get_git_sha: the commit the clone is at; a directory that is used in place has none.
LockedRef(u) == IF u \in Local THEN << >> ELSE clones[DirName[u]]

\* The end of `add': the record names only what this installation wrote.
Save(s) ==
    LET sh == shell[s]
        entry == [version |-> sh.manifest[2], source |-> sh.source, pinned |-> sh.pinned,
                  locked_ref |-> LockedRef(sh.source), components |-> sh.done]
    IN  /\ sh.pc = "install" /\ sh.todo = << >>
        /\ WriteBack(s, sh.name, entry, Recorded(sh.name), GoOn(sh.queue))

\* The end of `remove'.
Forget(s) ==
    /\ shell[s].pc = "forget"
    /\ WriteBack(s, shell[s].name, Absent, {}, Idle)

\* The command ends early: by an error of the file system, or because the user stops it.
Abandon(s) ==
    /\ \/ /\ "interrupt" \in Environment /\ shell[s].pc # "idle"
          /\ Become(s, Idle)
       \/ /\ "io" \in Environment /\ shell[s].pc \in {"uninstall", "forget"}
          /\ Become(s, Idle)
       \/ /\ "io" \in Environment /\ shell[s].pc = "install" /\ shell[s].todo = << >>
          /\ Become(s, GoOn(shell[s].queue))
    /\ strays' = strays \cup Pairs(shell[s].name, Range(shell[s].done))
    /\ UNCHANGED <<published, clones, disk, lock, commands, taken>>

\* The author of a set publishes its next version.
Publish(u) ==
    /\ published[u] < Len(Manifest[u])
    /\ published' = [published EXCEPT ![u] = @ + 1]
    /\ UNCHANGED <<clones, disk, lock, shell, commands, strays, taken>>

Command(s) ==
    \/ \E u \in Sources : \E ref \in {Latest} \cup Versions(u) : AddSet(s, u, ref)
    \/ UpdateSet(s, SetNames)
    \/ \E n \in SetNames : UpdateSet(s, {n}) \/ RemoveSet(s, n)

SetsNext ==
    \/ \E s \in Shells :
         \/ Command(s) \/ Fetch(s) \/ FetchFails(s) \/ Install(s) \/ InstallFails(s) \/ Save(s)
         \/ Uninstall(s) \/ Purge(s) \/ Forget(s) \/ Abandon(s)
    \/ \E u \in Sources : Publish(u)

SetsSpec == SetsInit /\ [][SetsNext]_setsVars

---------------------------------------------------------------------------

\* Whatever a set has written can be removed through its record, or a shell is about to
\* record it.  The exceptions, gathered in strays, are those the code leaves: what an
\* abandoned installation wrote, what a new version no longer has or the user did not take
\* over again, a CLAUDE.md the user kept, and the records of a command that saved meanwhile.
FilesRecorded ==
    \A n \in SetNames : \A c \in WrittenBy(n) :
        \/ c \in Recorded(n)
        \/ <<n, c>> \in strays
        \/ \E s \in Shells : /\ shell[s].pc = "install" /\ shell[s].name = n
                             /\ c \in Range(shell[s].done)

\* What a record names was written by the version it names, unless another set or command
\* has replaced or removed it since (taken) or brought back an older record.  `add' relies
\* on it when it says that a version is already installed.
RecordsTrue ==
    \A n \in SetNames : \A c \in Recorded(n) : <<n, lock[n].version>> \in disk[c] \/ <<n, c>> \in taken
===========================================================================
