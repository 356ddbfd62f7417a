-------------------------- MODULE ConfigFileProofs --------------------------
(***************************************************************************)
(* Proofs about ConfigFile: which profiles stay in a file, and what one    *)
(* command may change in it, for any number of processes that read and     *)
(* write the same files.  The second part is about Sets, whose commands    *)
(* read one lock file and write it back in the same way.                   *)
(***************************************************************************)
EXTENDS ConfigFile, Sets, SequenceTheorems, FiniteSetTheorems, WellFoundedInduction, TLAPS

-----------------------------------------------------------------------------
(* Taking an element out of a list *)

\* A set of numbers has a least element.
LEMMA LeastElement ==
  ASSUME NEW I \in SUBSET Nat, I # {}
  PROVE  Min(I) \in I /\ \A j \in I : Min(I) <= j
<1> DEFINE R == OpToRel(<, Nat)
<1>1. IsWellFoundedOn(R, Nat)
  BY NatLessThanWellFounded
<1>2. \A i, j \in Nat : <<j, i>> \in R <=> j < i
  BY DEF OpToRel
<1> HIDE DEF R
<1>3. \E i \in I : \A j \in I : ~ (<<j, i>> \in R)
  BY <1>1, WFMin
<1>4. \E i \in I : \A j \in I : i <= j
  <2>1. PICK i \in I : \A j \in I : ~ (<<j, i>> \in R)
    BY <1>3
  <2>2. \A j \in I : ~(j < i)
    BY <1>2, <2>1
  <2> QED
    BY <2>2
<1> QED
  BY <1>4 DEF Min

\* What RemoveFirst leaves.
LEMMA RemoveFirstKeeps ==
  ASSUME NEW S, NEW s \in Seq(S), NEW e
  PROVE  /\ RemoveFirst(s, e) \in Seq(S)
         /\ \A i \in DOMAIN s : s[i] # e
              => \E j \in DOMAIN RemoveFirst(s, e) : RemoveFirst(s, e)[j] = s[i]
<1>1. CASE ~ \E i \in 1..Len(s) : s[i] = e
  BY <1>1 DEF RemoveFirst
<1>2. CASE \E i \in 1..Len(s) : s[i] = e
  <2> DEFINE I == {i \in 1..Len(s) : s[i] = e}
             k == Min(I)
             r == RemoveFirst(s, e)
  <2>1. I # {} /\ I \in SUBSET Nat
    BY <1>2
  <2>2. k \in I
    BY <2>1, LeastElement
  <2>3. r = SubSeq(s, 1, k - 1) \o SubSeq(s, k + 1, Len(s))
    BY <1>2, <2>1 DEF RemoveFirst, RemoveAt, SelectInSeq
  <2> HIDE DEF k, r
  <2>4. k \in 1..Len(s) /\ s[k] = e
    BY <2>2
  <2>5. r \in Seq(S) /\ Len(r) = Len(s) - 1
        /\ \A j \in 1..Len(r) : r[j] = IF j < k THEN s[j] ELSE s[j + 1]
    <3> DEFINE a == SubSeq(s, 1, k - 1)
               b == SubSeq(s, k + 1, Len(s))
    <3>1. Len(s) \in Nat /\ k \in Nat /\ k >= 1 /\ k <= Len(s)
      BY <2>4
    <3>2. /\ a \in Seq(S) /\ Len(a) = k - 1
          /\ \A j \in 1..(k - 1) : a[j] = s[j]
      BY <3>1
    <3>3. /\ b \in Seq(S) /\ Len(b) = Len(s) - k
          /\ \A j \in 1..(Len(s) - k) : b[j] = s[k + j]
      BY <3>1
    <3> HIDE DEF a, b
    <3>4. /\ a \o b \in Seq(S) /\ Len(a \o b) = Len(a) + Len(b)
          /\ \A j \in 1..(Len(a) + Len(b)) :
               (a \o b)[j] = IF j <= Len(a) THEN a[j] ELSE b[j - Len(a)]
      BY <3>2, <3>3, ConcatProperties
    <3>5. Len(a) + Len(b) = Len(s) - 1
      BY <3>1, <3>2, <3>3
    <3>6. ASSUME NEW j \in 1..(Len(s) - 1), j < k
          PROVE  (a \o b)[j] = s[j]
      <4>1. j \in 1..(Len(a) + Len(b)) /\ j <= Len(a) /\ j \in 1..(k - 1)
        BY <3>1, <3>2, <3>5, <3>6
      <4> QED
        BY <3>2, <3>4, <4>1
    <3>7. ASSUME NEW j \in 1..(Len(s) - 1), ~(j < k)
          PROVE  (a \o b)[j] = s[j + 1]
      <4>1. /\ j \in 1..(Len(a) + Len(b)) /\ ~(j <= Len(a))
            /\ j - Len(a) \in 1..(Len(s) - k) /\ k + (j - Len(a)) = j + 1
        BY <3>1, <3>2, <3>5, <3>7
      <4> QED
        BY <3>3, <3>4, <4>1
    <3> QED
      BY <2>3, <3>4, <3>5, <3>6, <3>7 DEF a, b
  <2>6. ASSUME NEW i \in DOMAIN s, s[i] # e
        PROVE  \E j \in DOMAIN r : r[j] = s[i]
    <3>1. i \in 1..Len(s) /\ i # k /\ DOMAIN r = 1..Len(r) /\ Len(s) \in Nat
      BY <2>4, <2>5, <2>6
    <3>2. CASE i < k
      BY <2>4, <2>5, <3>1, <3>2
    <3>3. CASE i > k
      <4>1. i - 1 \in 1..Len(r) /\ ~(i - 1 < k) /\ (i - 1) + 1 = i
        BY <2>4, <2>5, <3>1, <3>3
      <4> QED
        BY <2>5, <3>1, <4>1
    <3> QED
      BY <2>4, <3>1, <3>2, <3>3
  <2> QED
    BY <2>5, <2>6 DEF r
<1> QED
  BY <1>1, <1>2

-----------------------------------------------------------------------------
(* The invariant *)

\* Steps at which a command has a configuration in memory.
Editing == {"ready", "ask", "copied", "save", "rename"}
Steps == {"gone", "load", "create", "fill"} \cup Editing

\* What is loaded and saved: every setting has a value.
Settings == [port : Ports \ {Unset}, profiles : Seq(Names), extra : {{}}]

Commands ==
  [ op    : {None, "add", "remove", "login", "doctor", "migrate"},
    name  : Names \cup {None},
    place : {None, "inside", "outside", "override"},
    env   : {Unset, "env"},
    at    : Files \cup {None},
    doc   : Documents \cup {None},
    copy  : Documents \cup {None} ]

TypeOK ==
  /\ file \in [Files -> Documents \cup {None}]
  /\ tmp \in [Procs -> Documents \cup {None}]
  /\ pc \in [Procs -> Steps]
  /\ cmd \in [Procs -> Commands]
  /\ added \in SUBSET (Files \X Names)

\* What is overlaid by the environment of the command.
WithEnv(c, d) == Over(d, Doc(c.env, Unset, {}))

\* No file was written since p read it.
Current(p) == \A f \in Files : <<p, f>> \notin overtaken

\* What a command is, at each of its steps.
Placed(p) ==
  /\ pc[p] # "gone" =>
       /\ cmd[p].op # None /\ cmd[p].name \in Names /\ cmd[p].place # None
       /\ cmd[p].place = "override" => cmd[p].env = Unset /\ cmd[p].at \in Files
  /\ pc[p] \in {"create", "fill"} => cmd[p].place # "override"
  /\ pc[p] \in Editing =>
       /\ cmd[p].at \in Files /\ cmd[p].doc \in Settings
       /\ cmd[p].place = "outside" => cmd[p].at = "global"
  /\ pc[p] \in {"ask", "copied"} => cmd[p].op = "migrate"
  /\ pc[p] \in {"save", "rename"} => cmd[p].op \in {"add", "login", "remove", "migrate"}
  /\ pc[p] = "rename" => tmp[p] = cmd[p].doc

\* What a command found missing is missing still.
Missing(p) ==
  /\ \/ pc[p] \in {"create", "fill"}
     \/ pc[p] = "ready" /\ cmd[p].at = "global"
     \/ pc[p] \in {"save", "rename"} /\ cmd[p].op # "migrate" /\ cmd[p].at = "global"
  /\ cmd[p].place = "inside" /\ <<p, "project">> \notin overtaken
  => file["project"] = None

Opened(p) ==
  pc[p] = "fill" /\ <<p, "global">> \notin overtaken => file["global"] = Emptied

\* What is in memory is what reading the files gives, or that with one profile more or
\* less.
Read(p) ==
  pc[p] = "ready" /\ Current(p) => WithEnv(cmd[p], cmd[p].doc) = Loaded(cmd[p], file)

Changed(p) ==
  pc[p] \in {"save", "rename"} /\ cmd[p].op # "migrate" /\ Current(p)
  => WithEnv(cmd[p], cmd[p].doc) = Applied(cmd[p], Loaded(cmd[p], file))

\* What is migrated is the file that was backed up.
Copied(p) ==
  /\ cmd[p].op = "migrate" /\ <<p, cmd[p].at>> \notin overtaken
  => /\ pc[p] \in {"copied", "save", "rename"} => cmd[p].copy = file[cmd[p].at]
     /\ pc[p] \in {"save", "rename"} => cmd[p].doc = Over(Defaults, cmd[p].copy)

\* The profiles that were added to the file are in memory too.
Remembers(p) ==
  /\ pc[p] \in {"ready", "save", "rename"} /\ <<p, cmd[p].at>> \notin overtaken
     => \A x \in added :
          x[1] = cmd[p].at /\ (pc[p] # "ready" /\ cmd[p].op = "remove" => x[2] # cmd[p].name)
          => Has(cmd[p].doc, x[2])
  /\ pc[p] \in {"save", "rename"} /\ cmd[p].op \in {"add", "login"}
     => Has(cmd[p].doc, cmd[p].name)

Own(p) ==
  Placed(p) /\ Missing(p) /\ Opened(p) /\ Read(p) /\ Changed(p) /\ Copied(p) /\ Remembers(p)

IInv == TypeOK /\ AddedStays /\ \A p \in Procs : Own(p)

-----------------------------------------------------------------------------
(* Documents and layers *)

\* The documents that the program itself starts from.
LEMMA DocumentsTyped ==
  /\ Defaults \in Settings /\ Emptied \in Documents /\ Minimal \in Documents
  /\ Settings \subseteq Documents /\ None \notin Documents
  /\ Doc(Unset, Unset, {}) \in Documents /\ Doc("env", Unset, {}) \in Documents
  /\ Unset \notin Seq(Names)
<1>1. << >> \in Seq(Names) /\ {} \in SUBSET {"legacy", "credential"}
  OBVIOUS
<1>2. "default" \in Ports \ {Unset} /\ "env" \in Ports /\ Unset \in Ports
  BY NoValueAssumption DEF Ports
<1> QED
  BY <1>1, <1>2, NoValueAssumption
     DEF Defaults, Emptied, Minimal, Doc, Settings, Documents

\* A layer replaces what it has a value for, and gives settings again.
LEMMA OverTyped ==
  ASSUME NEW low \in Settings, NEW high \in Documents \cup {None}
  PROVE  /\ Over(low, high) \in Settings
         /\ Over(low, None) = low
         /\ high # None => /\ Over(low, high).profiles
                                = (IF high.profiles = Unset THEN low.profiles ELSE high.profiles)
                           /\ Over(low, high).port
                                = (IF high.port = Unset THEN low.port ELSE high.port)
<1>1. Over(low, None) = low
  BY DEF Over
<1>2. CASE high = None
  BY <1>1, <1>2
<1>3. CASE high # None
  <2>1. high \in Documents
    BY <1>3
  <2>2. Over(low, high) = Doc(IF high.port = Unset THEN low.port ELSE high.port,
                              IF high.profiles = Unset THEN low.profiles ELSE high.profiles, {})
    BY <1>3 DEF Over
  <2>3. (IF high.port = Unset THEN low.port ELSE high.port) \in Ports \ {Unset}
    BY <2>1 DEF Settings, Documents
  <2>4. (IF high.profiles = Unset THEN low.profiles ELSE high.profiles) \in Seq(Names)
    BY <2>1 DEF Settings, Documents
  <2> QED
    BY <1>1, <2>2, <2>3, <2>4 DEF Settings, Doc
<1> QED
  BY <1>2, <1>3

\* Two settings with the same values are the same.
LEMMA SameSettings ==
  ASSUME NEW d \in Settings, NEW e \in Settings, d.port = e.port, d.profiles = e.profiles
  PROVE  d = e
<1>1. \A x \in Settings : x = [port |-> x.port, profiles |-> x.profiles, extra |-> {}]
  BY DEF Settings
<1> QED
  BY <1>1

\* The environment changes the port only.
LEMMA WithEnvTyped ==
  ASSUME NEW c \in Commands, NEW d \in Settings
  PROVE  /\ WithEnv(c, d) \in Settings
         /\ WithEnv(c, d).profiles = d.profiles
         /\ WithEnv(c, d).port = IF c.env = Unset THEN d.port ELSE c.env
         /\ c.env = Unset => WithEnv(c, d) = d
<1>1. c.env \in {Unset, "env"}
  BY DEF Commands
<1>2. Doc(c.env, Unset, {}) \in Documents \cup {None} /\ Doc(c.env, Unset, {}) # None
  BY <1>1, DocumentsTyped
<1>3. Doc(c.env, Unset, {}).profiles = Unset /\ Doc(c.env, Unset, {}).port = c.env
  BY DEF Doc
<1>4. /\ WithEnv(c, d) \in Settings
      /\ WithEnv(c, d).profiles = d.profiles
      /\ WithEnv(c, d).port = IF c.env = Unset THEN d.port ELSE c.env
  BY <1>2, <1>3, OverTyped DEF WithEnv
<1> QED
  BY <1>4, SameSettings

\* What a command loads: settings, and the profiles of its uppermost file if that
\* lists any.
LEMMA LoadedTyped ==
  ASSUME NEW c \in Commands, NEW files \in [Files -> Documents \cup {None}],
         c.place = "override" => c.at \in Files
  PROVE  Loaded(c, files) \in Settings
<1>1. CASE c.place = "override"
  BY <1>1, DocumentsTyped, OverTyped DEF Loaded
<1>2. CASE c.place # "override"
  <2> DEFINE g == Over(Defaults, files["global"])
             p == IF c.place = "inside" THEN files["project"] ELSE None
  <2>1. g \in Settings /\ p \in Documents \cup {None}
    BY DocumentsTyped, OverTyped DEF Files
  <2>2. Loaded(c, files) = WithEnv(c, Over(g, p))
    BY <1>2 DEF Loaded, WithEnv
  <2> HIDE DEF g, p
  <2> QED
    BY <2>1, <2>2, OverTyped, WithEnvTyped
<1> QED
  BY <1>1, <1>2

\* The file a command will write was the uppermost one that it read.
LEMMA UppermostRead ==
  ASSUME TypeOK, NEW c \in Commands, c.place = "override" => c.at \in Files
  PROVE  /\ Source(c) \in Files
         /\ c.place = "outside" => Source(c) = "global"
         /\ c.place = "override" => Source(c) = c.at
         /\ c.place = "inside" /\ Source(c) = "global" => file["project"] = None
         /\ file[Source(c)] # None /\ file[Source(c)].profiles # Unset
              => Loaded(c, file).profiles = file[Source(c)].profiles
<1>1. file \in [Files -> Documents \cup {None}]
  BY DEF TypeOK
<1>2. CASE c.place = "override"
  <2>1. Source(c) = c.at
    BY <1>2 DEF Source
  <2>2. Loaded(c, file) = Over(Defaults, file[c.at])
    BY <1>2 DEF Loaded
  <2>3. c.at \in Files /\ file[c.at] \in Documents \cup {None}
    BY <1>1, <1>2
  <2>4. file[c.at] # None /\ file[c.at].profiles # Unset
          => Over(Defaults, file[c.at]).profiles = file[c.at].profiles
    BY <2>3, DocumentsTyped, OverTyped
  <2> QED
    BY <1>2, <2>1, <2>2, <2>3, <2>4
<1>3. CASE c.place # "override"
  <2> DEFINE g == Over(Defaults, file["global"])
             p == IF c.place = "inside" THEN file["project"] ELSE None
  <2>1. g \in Settings /\ p \in Documents \cup {None} /\ file["global"] \in Documents \cup {None}
    BY <1>1, DocumentsTyped, OverTyped DEF Files
  <2>2. Loaded(c, file) = WithEnv(c, Over(g, p))
    BY <1>3 DEF Loaded, WithEnv
  <2>3. Source(c) = IF c.place = "inside" /\ file["project"] # None THEN "project" ELSE "global"
    BY <1>3 DEF Source
  <2>4. /\ file["global"] # None /\ file["global"].profiles # Unset
             => g.profiles = file["global"].profiles
    BY <2>1, DocumentsTyped, OverTyped
  <2>5. p # None /\ p.profiles # Unset => Over(g, p).profiles = p.profiles
    <3> HIDE DEF g, p
    <3> QED BY <2>1, OverTyped
  <2>6. p = None => Over(g, p) = g
    BY DEF Over
  <2>7. Over(g, p) \in Settings
    <3> HIDE DEF g, p
    <3> QED BY <2>1, OverTyped
  <2>8. Loaded(c, file).profiles = Over(g, p).profiles
    BY <2>2, <2>7, WithEnvTyped
  <2> HIDE DEF g
  <2>9. CASE c.place = "inside" /\ file["project"] # None
    BY <1>3, <2>3, <2>5, <2>8, <2>9 DEF Files
  <2>10. CASE ~(c.place = "inside" /\ file["project"] # None)
    BY <1>3, <2>3, <2>4, <2>6, <2>8, <2>10 DEF Files
  <2> QED
    BY <2>9, <2>10
<1> QED
  BY <1>2, <1>3

\* What is read once settings are saved: those settings, and the environment.
LEMMA LoadedAfterSave ==
  ASSUME TypeOK, NEW c \in Commands, NEW f \in Files, NEW d \in Settings,
         c.place \in {"inside", "outside", "override"},
         c.place = "override" => c.env = Unset /\ c.at = f,
         c.place = "outside" => f = "global",
         c.place = "inside" /\ f = "global" => file["project"] = None
  PROVE  Loaded(c, [file EXCEPT ![f] = d]) = WithEnv(c, d)
<1> DEFINE files == [file EXCEPT ![f] = d]
<1>1. file \in [Files -> Documents \cup {None}] /\ d \in Documents /\ d # None
  BY DocumentsTyped DEF TypeOK
<1>2. files[f] = d /\ \A g \in Files : g # f => files[g] = file[g]
  BY <1>1
<1> HIDE DEF files
<1>3. ASSUME NEW low \in Settings
      PROVE  Over(low, d) = d
  <2>1. d.profiles # Unset /\ d.port # Unset
    BY DocumentsTyped DEF Settings
  <2>2. Over(low, d) \in Settings /\ Over(low, d).profiles = d.profiles /\ Over(low,
    d).port = d.port
    BY <1>1, <2>1, OverTyped
  <2> QED
    BY <2>2, SameSettings
<1>4. CASE c.place = "override"
  <2>1. Loaded(c, files) = Over(Defaults, d)
    BY <1>2, <1>4 DEF Loaded
  <2> QED
    BY <1>3, <1>4, <2>1, DocumentsTyped, WithEnvTyped DEF files
<1>5. CASE c.place = "inside" /\ f = "project"
  <2>1. Loaded(c, files) = WithEnv(c, Over(Over(Defaults, files["global"]), d))
    BY <1>2, <1>5 DEF Loaded, WithEnv
  <2>2. files["global"] \in Documents \cup {None}
    BY <1>1, <1>2, <1>5 DEF Files
  <2>3. Over(Defaults, files["global"]) \in Settings
    BY <2>2, DocumentsTyped, OverTyped
  <2> QED
    BY <1>3, <2>1, <2>3 DEF files
<1>6. CASE f = "global" /\ c.place # "override"
  <2>1. (IF c.place = "inside" THEN files["project"] ELSE None) = None
    BY <1>2, <1>6 DEF Files
  <2>2. Loaded(c, files) = WithEnv(c, Over(Over(Defaults, d), None))
    BY <1>2, <1>6, <2>1 DEF Loaded, WithEnv
  <2>3. Over(Defaults, d) = d
    BY <1>3, DocumentsTyped
  <2> QED
    BY <2>2, <2>3, OverTyped DEF files
<1> QED
  BY <1>4, <1>5, <1>6 DEF Files

\* Adding a profile, and taking one out.
LEMMA ProfilesChanged ==
  ASSUME NEW d \in Settings, NEW n \in Names
  PROVE  /\ WithProfile(d, n) \in Settings /\ Has(WithProfile(d, n), n)
         /\ \A m : Has(d, m) => Has(WithProfile(d, n), m)
         /\ WithoutProfile(d, n) \in Settings
         /\ \A m : Has(d, m) /\ m # n => Has(WithoutProfile(d, n), m)
         /\ WithProfile(d, n).port = d.port /\ WithoutProfile(d, n).port = d.port
         /\ WithProfile(d, n).profiles = Append(d.profiles, n)
         /\ WithoutProfile(d, n).profiles = RemoveFirst(d.profiles, n)
<1>1. d.profiles \in Seq(Names)
  BY DEF Settings
<1>2. /\ WithProfile(d, n) \in Settings /\ WithProfile(d, n).port = d.port
      /\ WithProfile(d, n).profiles = Append(d.profiles, n)
  <2> DEFINE l == Append(d.profiles, n)
  <2>1. l \in Seq(Names) /\ WithProfile(d, n) = [d EXCEPT !.profiles = l]
    BY <1>1 DEF WithProfile
  <2> HIDE DEF l
  <2>2. [d EXCEPT !.profiles = l] \in Settings
    BY <2>1 DEF Settings
  <2>3. [d EXCEPT !.profiles = l].port = d.port /\ [d EXCEPT !.profiles = l].profiles = l
    BY DEF Settings
  <2> QED
    BY <2>1, <2>2, <2>3 DEF l
<1>3. RemoveFirst(d.profiles, n) \in Seq(Names)
  BY <1>1, RemoveFirstKeeps
<1>4. /\ WithoutProfile(d, n) \in Settings /\ WithoutProfile(d, n).port = d.port
      /\ WithoutProfile(d, n).profiles = RemoveFirst(d.profiles, n)
  BY <1>3 DEF WithoutProfile, Settings
<1>5. Has(WithProfile(d, n), n) /\ \A m : Has(d, m) => Has(WithProfile(d, n), m)
  <2> DEFINE a == Append(d.profiles, n)
  <2>1. /\ DOMAIN d.profiles \subseteq DOMAIN a /\ \A i \in DOMAIN d.profiles : a[i] = d.profiles[i]
        /\ Len(a) \in DOMAIN a /\ a[Len(a)] = n
    BY <1>1
  <2> HIDE DEF a
  <2> QED
    BY <1>2, <2>1 DEF Has, a
<1>6. ASSUME NEW m, Has(d, m), m # n
      PROVE  Has(WithoutProfile(d, n), m)
  <2>1. PICK i \in DOMAIN d.profiles : d.profiles[i] = m
    BY <1>6 DEF Has
  <2>2. \E j \in DOMAIN RemoveFirst(d.profiles, n) : RemoveFirst(d.profiles, n)[j] = m
    <3>1. \A k \in DOMAIN d.profiles : d.profiles[k] # n
            => \E j \in DOMAIN RemoveFirst(d.profiles, n) :
                 RemoveFirst(d.profiles, n)[j] = d.profiles[k]
      BY <1>1, RemoveFirstKeeps
    <3> QED
      BY <1>6, <2>1, <3>1
  <2> QED
    BY <1>4, <2>2 DEF Has
<1> QED
  BY <1>2, <1>4, <1>5, <1>6

\* The environment and a change of the profiles do not meet.
LEMMA ChangeUnderEnv ==
  ASSUME NEW c \in Commands, NEW d \in Settings, NEW n \in Names
  PROVE  /\ WithEnv(c, WithProfile(d, n)) = WithProfile(WithEnv(c, d), n)
         /\ WithEnv(c, WithoutProfile(d, n)) = WithoutProfile(WithEnv(c, d), n)
<1>1. /\ WithEnv(c, d) \in Settings /\ WithEnv(c, d).profiles = d.profiles
      /\ WithEnv(c, d).port = IF c.env = Unset THEN d.port ELSE c.env
  BY WithEnvTyped
<1>2. WithProfile(d, n) \in Settings /\ WithoutProfile(d, n) \in Settings
  BY ProfilesChanged
<1>3. WithEnv(c, WithProfile(d, n)) = WithProfile(WithEnv(c, d), n)
  <2> DEFINE x == WithEnv(c, WithProfile(d, n))
             y == WithProfile(WithEnv(c, d), n)
  <2>1. /\ x \in Settings /\ x.profiles = WithProfile(d, n).profiles
        /\ x.port = IF c.env = Unset THEN WithProfile(d, n).port ELSE c.env
    BY <1>2, WithEnvTyped
  <2>2. /\ y \in Settings /\ y.profiles = Append(d.profiles, n)
        /\ y.port = WithEnv(c, d).port
    BY <1>1, ProfilesChanged
  <2>3. WithProfile(d, n).profiles = Append(d.profiles, n) /\ WithProfile(d, n).port = d.port
    BY ProfilesChanged
  <2> HIDE DEF x, y
  <2>4. x.port = y.port /\ x.profiles = y.profiles
    BY <1>1, <2>1, <2>2, <2>3
  <2>5. x = y
    BY <2>1, <2>2, <2>4, SameSettings
  <2> QED
    BY <2>5 DEF x, y
<1>4. WithEnv(c, WithoutProfile(d, n)) = WithoutProfile(WithEnv(c, d), n)
  BY <1>1, <1>2, ProfilesChanged, WithEnvTyped, SameSettings
<1> QED
  BY <1>3, <1>4

\* What a command loads depends on where it runs, not on what it has in memory.
LEMMA LoadedSame ==
  ASSUME NEW c, NEW e, c.place = e.place, c.env = e.env,
         c.place = "override" => c.at = e.at
  PROVE  /\ \A files : Loaded(c, files) = Loaded(e, files)
         /\ \A d : WithEnv(c, d) = WithEnv(e, d)
BY DEF Loaded, WithEnv

\* The environment has been looked at already when a configuration is loaded.
LEMMA LoadedHasEnv ==
  ASSUME NEW c \in Commands, NEW files \in [Files -> Documents \cup {None}],
         c.place = "override" => c.at \in Files /\ c.env = Unset
  PROVE  WithEnv(c, Loaded(c, files)) = Loaded(c, files)
<1>1. Loaded(c, files) \in Settings
  BY LoadedTyped
<1>2. CASE c.place = "override"
  BY <1>1, <1>2, WithEnvTyped
<1>3. CASE c.place # "override"
  <2> DEFINE low == Over(Over(Defaults, files["global"]),
                         IF c.place = "inside" THEN files["project"] ELSE None)
  <2>1. low \in Settings
    <3>1. Over(Defaults, files["global"]) \in Settings
      BY DocumentsTyped, OverTyped DEF Files
    <3>2. (IF c.place = "inside" THEN files["project"] ELSE None) \in Documents \cup {None}
      BY DEF Files
    <3> QED
      BY <3>1, <3>2, OverTyped
  <2>2. Loaded(c, files) = WithEnv(c, low)
    BY <1>3 DEF Loaded, WithEnv
  <2> HIDE DEF low
  <2>3. WithEnv(c, low) \in Settings /\ WithEnv(c, WithEnv(c, low)) \in Settings
    BY <2>1, WithEnvTyped
  <2>4. WithEnv(c, WithEnv(c, low)).profiles = WithEnv(c, low).profiles
    BY <2>3, WithEnvTyped
  <2>5. WithEnv(c, WithEnv(c, low)).port = WithEnv(c, low).port
    BY <2>1, <2>3, WithEnvTyped
  <2> QED
    BY <2>2, <2>3, <2>4, <2>5, SameSettings
<1> QED
  BY <1>2, <1>3

\* A profile that was added is listed in its file.
LEMMA AddedListed ==
  ASSUME TypeOK, AddedStays, NEW x \in added
  PROVE  /\ x[1] \in Files /\ x[2] \in Names
         /\ file[x[1]] \in Documents /\ file[x[1]].profiles # Unset
         /\ Has(file[x[1]], x[2])
         /\ Has(Over(Defaults, file[x[1]]), x[2])
<1>1. x[1] \in Files /\ x[2] \in Names
  BY DEF TypeOK
<1>2. file[x[1]] # None /\ Has(Over(Defaults, file[x[1]]), x[2])
  BY DEF AddedStays
<1>3. file[x[1]] \in Documents
  BY <1>1, <1>2 DEF TypeOK
<1> DEFINE d == file[x[1]]
<1> HIDE DEF d
<1>4. Over(Defaults, d).profiles = IF d.profiles = Unset THEN << >> ELSE d.profiles
  <2>1. d \in Documents \cup {None} /\ d # None /\ Defaults.profiles = << >>
    BY <1>2, <1>3 DEF d, Defaults, Doc
  <2> QED
    BY <2>1, DocumentsTyped, OverTyped
<1>5. d.profiles # Unset /\ Has(d, x[2])
  <2>1. DOMAIN << >> = {}
    OBVIOUS
  <2> QED
    BY <1>2, <1>4, <2>1 DEF Has, d
<1> QED
  BY <1>1, <1>2, <1>3, <1>5 DEF d

-----------------------------------------------------------------------------
(* The other processes *)

\* The step leaves q and what it knows of the files alone, or overtakes it.
Spares(q) ==
  /\ pc'[q] = pc[q] /\ cmd'[q] = cmd[q] /\ tmp'[q] = tmp[q]
  /\ pc[q] \notin {"gone", "load"} =>
       \A f \in Files : <<q, f>> \notin overtaken'
         => /\ <<q, f>> \notin overtaken
            /\ file'[f] = file[f]
            /\ \A x \in added' : x[1] = f => x \in added

\* What q knows of the files it still knows after a step that spares it.
LEMMA SparedKeeps ==
  ASSUME TypeOK, TypeOK', NEW q \in Procs, Own(q), Spares(q)
  PROVE  Own(q)'
<1>1. pc'[q] = pc[q] /\ cmd'[q] = cmd[q] /\ tmp'[q] = tmp[q]
  BY DEF Spares
<1>2. Placed(q)'
  BY <1>1 DEF Own, Placed
<1>3. CASE pc[q] \in {"gone", "load"}
  BY <1>1, <1>2, <1>3 DEF Own, Missing, Opened, Read, Changed, Copied, Remembers
<1>4. CASE pc[q] \notin {"gone", "load"}
  <2>1. \A f \in Files : <<q, f>> \notin overtaken'
          => /\ <<q, f>> \notin overtaken
             /\ file'[f] = file[f]
             /\ \A x \in added' : x[1] = f => x \in added
    BY <1>4 DEF Spares
  <2>2. "global" \in Files /\ "project" \in Files
    BY DEF Files
  <2>3. Missing(q)' /\ Opened(q)'
    BY <1>1, <2>1, <2>2 DEF Own, Missing, Opened
  <2>4. Current(q)' => Current(q) /\ file' = file
    <3>1. Current(q)' => Current(q) /\ \A f \in Files : file'[f] = file[f]
      BY <2>1 DEF Current
    <3> QED
      BY <3>1 DEF TypeOK
  <2>5. Read(q)' /\ Changed(q)'
    BY <1>1, <2>4 DEF Own, Read, Changed
  <2>6. pc[q] \in Editing => cmd[q].at \in Files
    BY DEF Own, Placed
  <2>7. Copied(q)'
    BY <1>1, <2>1, <2>6 DEF Own, Copied, Editing
  <2>8. Remembers(q)'
    BY <1>1, <2>1, <2>6 DEF Own, Remembers, Editing
  <2> QED
    BY <1>2, <2>3, <2>5, <2>7, <2>8 DEF Own
<1> QED
  BY <1>3, <1>4

\* A step that writes no file is nothing to the others.
LEMMA QuietKeeps ==
  ASSUME IInv, TypeOK', NEW p \in Procs, file' = file, added' = added,
         \A q \in Procs : q # p => pc'[q] = pc[q] /\ cmd'[q] = cmd[q] /\ tmp'[q] = tmp[q],
         \A x \in overtaken : x[1] # p => x \in overtaken',
         Own(p)'
  PROVE  IInv'
<1>1. ASSUME NEW q \in Procs, q # p
      PROVE  Own(q)'
  <2>1. \A f \in Files : <<q, f>>[1] # p
    BY <1>1
  <2>2. Spares(q)
    BY <1>1, <2>1 DEF Spares
  <2> QED
    BY <2>2, SparedKeeps DEF IInv
<1>2. AddedStays'
  BY DEF IInv, AddedStays
<1> QED
  BY <1>1, <1>2 DEF IInv

\* A command that is over has nothing more to keep to.
LEMMA GoneKeeps ==
  ASSUME NEW p \in Procs, pc'[p] = "gone"
  PROVE  Own(p)'
BY DEF Own, Placed, Missing, Opened, Read, Changed, Copied, Remembers, Editing

\* Changing one thing about a command.
LEMMA CommandTyped ==
  ASSUME TypeOK, NEW p \in Procs, NEW e \in Commands, cmd' = [cmd EXCEPT ![p] = e]
  PROVE  cmd' \in [Procs -> Commands] /\ cmd'[p] = e
         /\ \A q \in Procs : q # p => cmd'[q] = cmd[q]
BY DEF TypeOK

\* A process goes to a step, and the others stay where they are.
LEMMA PcTyped ==
  ASSUME TypeOK, NEW p \in Procs, NEW step \in Steps, GoTo(p, step)
  PROVE  /\ pc' \in [Procs -> Steps] /\ pc'[p] = step
         /\ \A q \in Procs : q # p => pc'[q] = pc[q]
BY DEF TypeOK, GoTo

\* Another configuration in memory: the rest of the command is as it was.
LEMMA DocReplaced ==
  ASSUME NEW c \in Commands, NEW d \in Documents, NEW e, e = [c EXCEPT !.doc = d]
  PROVE  /\ e \in Commands /\ e.doc = d /\ e.at = c.at /\ e.op = c.op /\ e.name = c.name
         /\ e.place = c.place /\ e.env = c.env /\ e.copy = c.copy
<1>1. e \in Commands
  BY DEF Commands
<1>2. e.doc = d /\ e.at = c.at /\ e.op = c.op /\ e.name = c.name
  BY DEF Commands
<1>3. e.place = c.place /\ e.env = c.env /\ e.copy = c.copy
  BY DEF Commands
<1> QED
  BY <1>1, <1>2, <1>3

\* No operation and no place is the absence of one.
LEMMA NotAValue ==
  None \notin {"add", "remove", "login", "doctor", "migrate", "inside", "outside", "override"}
BY NoValueAssumption

\* No command runs at the start, and nothing has been added.
LEMMA InitHolds == Init => IInv
<1> SUFFICES ASSUME Init PROVE IInv
  OBVIOUS
<1>1. TypeOK
  <2>1. file \in [Files -> Documents \cup {None}]
    BY HandWrittenAssumption DEF Init
  <2>2. NoCommand \in Commands
    BY DEF NoCommand, Commands
  <2> QED
    BY <2>1, <2>2 DEF Init, TypeOK, Steps
<1>2. AddedStays
  BY DEF Init, AddedStays
<1>3. \A p \in Procs : Own(p)
  BY DEF Init, Own, Placed, Missing, Opened, Read, Changed, Copied, Remembers, Editing
<1> QED
  BY <1>1, <1>2, <1>3 DEF IInv

-----------------------------------------------------------------------------
(* The steps *)

\* A command starts, told where it runs and perhaps which file to use.
LEMMA StartKeeps ==
  ASSUME IInv, NEW p \in Procs, Start(p)
  PROVE  IInv'
<1>1. PICK op \in {"add", "remove", "login", "doctor", "migrate"}, n \in Names, where \in Places :
        cmd' = [cmd EXCEPT ![p] = [NoCommand EXCEPT !.op = op, !.name = n, !.place = where[1],
                                                    !.env = where[2], !.at = where[3]]]
  BY DEF Start
<1>2. GoTo(p, "load") /\ UNCHANGED <<file, tmp, overtaken, added>>
  BY DEF Start
<1> DEFINE e == [NoCommand EXCEPT !.op = op, !.name = n, !.place = where[1],
                                  !.env = where[2], !.at = where[3]]
<1>3. /\ where[1] \in {"inside", "outside", "override"} /\ where[2] \in {Unset, "env"}
      /\ where[3] \in Files \cup {None}
      /\ where[1] = "override" => where[2] = Unset /\ where[3] \in Files
  BY PlacesAssumption
<1>4. /\ e \in Commands /\ e.op = op /\ e.name = n /\ e.place = where[1] /\ e.env = where[2]
      /\ e.at = where[3]
  BY <1>3 DEF NoCommand, Commands
<1> HIDE DEF e
<1>5. /\ cmd' \in [Procs -> Commands] /\ cmd'[p] = e
      /\ \A q \in Procs : q # p => cmd'[q] = cmd[q]
  BY <1>1, <1>4, CommandTyped DEF IInv, e
<1>6. /\ pc' \in [Procs -> Steps] /\ pc'[p] = "load"
      /\ \A q \in Procs : q # p => pc'[q] = pc[q]
  BY <1>2, PcTyped DEF IInv, Steps
<1>7. TypeOK'
  BY <1>2, <1>5, <1>6 DEF IInv, TypeOK
<1>8. cmd'[p].op # None /\ cmd'[p].place # None
  BY <1>3, <1>4, <1>5, NotAValue
<1>9. Own(p)'
  BY <1>3, <1>4, <1>5, <1>6, <1>8
     DEF Own, Placed, Missing, Opened, Read, Changed, Copied, Remembers, Editing
<1> QED
  BY <1>2, <1>5, <1>6, <1>7, <1>9, QuietKeeps

\* What is read is what is remembered, with the file it will be written to.
LEMMA LoadKeeps ==
  ASSUME IInv, NEW p \in Procs, Load(p)
  PROVE  IInv'
<1> DEFINE c == cmd[p]
           d == Loaded(c, file)
           at == Source(c)
           e == [c EXCEPT !.doc = d, !.at = at]
<1>1. /\ pc[p] = "load" /\ cmd' = [cmd EXCEPT ![p] = e] /\ GoTo(p, "ready")
      /\ UNCHANGED <<file, tmp, overtaken, added>>
  BY DEF Load
<1>2. TypeOK /\ AddedStays /\ Own(p)
  BY DEF IInv
<1>3. /\ c \in Commands /\ c.op # None /\ c.name \in Names /\ c.place # None
      /\ c.place = "override" => c.env = Unset /\ c.at \in Files
      /\ file \in [Files -> Documents \cup {None}]
  BY <1>1, <1>2 DEF TypeOK, Own, Placed
<1>4. d \in Settings /\ d \in Documents
  BY <1>3, LoadedTyped, DocumentsTyped
<1>5. /\ at \in Files
      /\ c.place = "outside" => at = "global"
      /\ c.place = "override" => at = c.at
      /\ c.place = "inside" /\ at = "global" => file["project"] = None
      /\ file[at] # None /\ file[at].profiles # Unset => d.profiles = file[at].profiles
  BY <1>2, <1>3, UppermostRead
<1>6. WithEnv(c, d) = d
  BY <1>3, LoadedHasEnv
<1> HIDE DEF at, d, c
<1>7. /\ e \in Commands /\ e.doc = d /\ e.at = at
      /\ e.op = c.op /\ e.name = c.name /\ e.place = c.place /\ e.env = c.env
  <2>1. e \in Commands
    BY <1>3, <1>4, <1>5 DEF Commands
  <2>2. e.doc = d /\ e.at = at /\ e.op = c.op /\ e.name = c.name
    BY <1>3 DEF Commands
  <2>3. e.place = c.place /\ e.env = c.env
    BY <1>3 DEF Commands
  <2> QED
    BY <2>1, <2>2, <2>3
<1> HIDE DEF e
<1>8. /\ cmd' \in [Procs -> Commands] /\ cmd'[p] = e
      /\ \A q \in Procs : q # p => cmd'[q] = cmd[q]
  BY <1>1, <1>2, <1>7, CommandTyped
<1>9. /\ pc' \in [Procs -> Steps] /\ pc'[p] = "ready"
      /\ \A q \in Procs : q # p => pc'[q] = pc[q]
  BY <1>1, <1>2, PcTyped DEF Steps, Editing
<1>10. TypeOK'
  BY <1>1, <1>2, <1>8, <1>9 DEF TypeOK
<1>11. Placed(p)' /\ Missing(p)' /\ Opened(p)' /\ Changed(p)' /\ Copied(p)'
  BY <1>1, <1>3, <1>4, <1>5, <1>7, <1>8, <1>9
     DEF Placed, Missing, Opened, Changed, Copied, Editing
<1>12. Read(p)'
  <2>1. /\ \A files : Loaded(e, files) = Loaded(c, files)
        /\ \A doc : WithEnv(e, doc) = WithEnv(c, doc)
    BY <1>5, <1>7, LoadedSame
  <2>2. WithEnv(e, e.doc) = Loaded(e, file)
    BY <1>6, <1>7, <2>1 DEF d
  <2> QED
    BY <1>1, <1>8, <2>2 DEF Read
<1>13. Remembers(p)'
  <2>1. ASSUME NEW x \in added, x[1] = at
        PROVE  Has(d, x[2])
    <3>1. file[at] \in Documents /\ file[at].profiles # Unset /\ Has(file[at], x[2])
      BY <1>2, <2>1, AddedListed
    <3>2. d.profiles = file[at].profiles
      BY <1>5, <3>1, DocumentsTyped
    <3> QED
      BY <3>1, <3>2 DEF Has
  <2> QED
    BY <1>1, <1>7, <1>8, <1>9, <2>1 DEF Remembers
<1> QED
  BY <1>1, <1>8, <1>9, <1>10, <1>11, <1>12, <1>13, QuietKeeps DEF Own

\* None of the files exists, and the global one will be created.
LEMMA FindNothingKeeps ==
  ASSUME IInv, NEW p \in Procs, FindNothing(p)
  PROVE  IInv'
<1>1. /\ pc[p] = "load" /\ NothingThere(cmd[p]) /\ GoTo(p, "create")
      /\ UNCHANGED <<file, tmp, cmd, overtaken, added>>
  BY DEF FindNothing
<1>2. /\ pc' \in [Procs -> Steps] /\ pc'[p] = "create"
      /\ \A q \in Procs : q # p => pc'[q] = pc[q]
  BY <1>1, PcTyped DEF IInv, Steps
<1>3. TypeOK'
  BY <1>1, <1>2 DEF IInv, TypeOK
<1>4. Own(p)'
  BY <1>1, <1>2
     DEF IInv, NothingThere, Own, Placed, Missing, Opened, Read, Changed, Copied, Remembers,
         Editing
<1> QED
  BY <1>1, <1>2, <1>3, <1>4, QuietKeeps

\* A command that ends without writing: the others go on as they were.
LEMMA GiveUpKeeps ==
  ASSUME IInv, NEW p \in Procs, Exit(p), UNCHANGED <<file, tmp, added>>
  PROVE  IInv'
<1>1. /\ GoTo(p, "gone") /\ cmd' = [cmd EXCEPT ![p] = NoCommand]
      /\ overtaken' = {x \in overtaken : x[1] # p}
  BY DEF Exit
<1>2. NoCommand \in Commands
  BY DEF NoCommand, Commands
<1>3. /\ cmd' \in [Procs -> Commands]
      /\ \A q \in Procs : q # p => cmd'[q] = cmd[q]
  BY <1>1, <1>2, CommandTyped DEF IInv
<1>4. /\ pc' \in [Procs -> Steps] /\ pc'[p] = "gone"
      /\ \A q \in Procs : q # p => pc'[q] = pc[q]
  BY <1>1, PcTyped DEF IInv, Steps
<1>5. TypeOK'
  BY <1>3, <1>4 DEF IInv, TypeOK
<1> QED
  BY <1>1, <1>3, <1>4, <1>5, GoneKeeps, QuietKeeps

\* The new file is opened and empty. Whoever had read or created another in its
\* place is overtaken, and nothing that was added to that one counts any more.
LEMMA OpenDefaultKeeps ==
  ASSUME IInv, NEW p \in Procs, OpenDefault(p)
  PROVE  IInv'
<1>1. /\ pc[p] = "create" /\ file' = [file EXCEPT !["global"] = Emptied]
      /\ overtaken' = overtaken \cup Readers(p, "global")
      /\ added' = {x \in added : x[1] # "global"} /\ GoTo(p, "fill")
      /\ UNCHANGED <<tmp, cmd>>
  BY DEF OpenDefault
<1>2. TypeOK /\ AddedStays /\ \A q \in Procs : Own(q)
  BY DEF IInv
<1>3. /\ pc' \in [Procs -> Steps] /\ pc'[p] = "fill"
      /\ \A q \in Procs : q # p => pc'[q] = pc[q]
  BY <1>1, <1>2, PcTyped DEF Steps
<1>4. /\ file' \in [Files -> Documents \cup {None}] /\ file'["global"] = Emptied
      /\ \A f \in Files : f # "global" => file'[f] = file[f]
  BY <1>1, <1>2, DocumentsTyped DEF TypeOK, Files
<1>5. TypeOK'
  BY <1>1, <1>2, <1>3, <1>4 DEF TypeOK
<1>6. AddedStays'
  <2>1. \A x \in added' : x \in added /\ x[1] # "global" /\ x[1] \in Files
    BY <1>1, <1>2, AddedListed
  <2> QED
    BY <1>2, <1>4, <2>1 DEF AddedStays
<1>7. \A q \in Procs : q # p => Spares(q)
  <2>1. \A q \in Procs : q # p /\ pc[q] \notin {"gone", "load"}
          => <<q, "global">> \in overtaken'
    BY <1>1 DEF Readers
  <2> QED
    BY <1>1, <1>3, <1>4, <2>1 DEF Spares
<1>8. Own(p)'
  <2>1. cmd'[p] = cmd[p] /\ (<<p, "project">> \notin overtaken' => <<p,
    "project">> \notin overtaken)
    BY <1>1
  <2>2. Placed(p)'
    BY <1>1, <1>2, <1>3 DEF Own, Placed, Editing
  <2>3. Missing(p)'
    BY <1>1, <1>2, <1>3, <1>4, <2>1 DEF Own, Missing, Files
  <2>4. Opened(p)' /\ Read(p)' /\ Changed(p)' /\ Copied(p)' /\ Remembers(p)'
    BY <1>3, <1>4 DEF Opened, Read, Changed, Copied, Remembers
  <2> QED
    BY <2>2, <2>3, <2>4 DEF Own
<1>9. \A q \in Procs : Own(q)'
  BY <1>2, <1>5, <1>7, <1>8, SparedKeeps
<1> QED
  BY <1>5, <1>6, <1>9 DEF IInv

\* The new file gets its content, unless another was put in its place meanwhile.
LEMMA WriteDefaultKeeps ==
  ASSUME IInv, NEW p \in Procs, WriteDefault(p)
  PROVE  IInv'
<1> DEFINE c == cmd[p]
           d == Over(Defaults, Minimal)
           e == [c EXCEPT !.doc = d, !.at = "global"]
<1>1. /\ pc[p] = "fill" /\ GoTo(p, "ready") /\ cmd' = [cmd EXCEPT ![p] = e]
      /\ file' = [file EXCEPT !["global"] =
                    IF file["global"] = Emptied THEN Minimal ELSE file["global"]]
      /\ overtaken' = overtaken \cup (IF file' = file THEN {} ELSE Readers(p, "global"))
      /\ UNCHANGED <<tmp, added>>
  BY DEF WriteDefault
<1>2. TypeOK /\ AddedStays /\ \A q \in Procs : Own(q)
  BY DEF IInv
<1>3. /\ c \in Commands /\ c.op # None /\ c.name \in Names /\ c.place # None
      /\ c.place # "override" /\ file \in [Files -> Documents \cup {None}]
  BY <1>1, <1>2 DEF TypeOK, Own, Placed
<1>4. d \in Settings /\ d \in Documents /\ "global" \in Files
  BY DocumentsTyped, OverTyped DEF Files
<1> HIDE DEF d, c
<1>5. /\ e \in Commands /\ e.doc = d /\ e.at = "global"
      /\ e.op = c.op /\ e.name = c.name /\ e.place = c.place /\ e.env = c.env
  <2>1. e \in Commands
    BY <1>3, <1>4 DEF Commands
  <2>2. e.doc = d /\ e.at = "global" /\ e.op = c.op /\ e.name = c.name
    BY <1>3 DEF Commands
  <2>3. e.place = c.place /\ e.env = c.env
    BY <1>3 DEF Commands
  <2> QED
    BY <2>1, <2>2, <2>3
<1> HIDE DEF e
<1>6. /\ cmd' \in [Procs -> Commands] /\ cmd'[p] = e
      /\ \A q \in Procs : q # p => cmd'[q] = cmd[q]
  BY <1>1, <1>2, <1>5, CommandTyped
<1>7. /\ pc' \in [Procs -> Steps] /\ pc'[p] = "ready"
      /\ \A q \in Procs : q # p => pc'[q] = pc[q]
  BY <1>1, <1>2, PcTyped DEF Steps, Editing
<1>8. /\ file' \in [Files -> Documents \cup {None}]
      /\ file["global"] = Emptied => file'["global"] = Minimal
      /\ file["global"] # Emptied => file' = file
      /\ \A f \in Files : f # "global" => file'[f] = file[f]
  BY <1>1, <1>3, DocumentsTyped DEF Files
<1>9. TypeOK'
  BY <1>1, <1>2, <1>6, <1>7, <1>8 DEF TypeOK
<1>10. file["global"] = Emptied => \A x \in added : x[1] # "global"
  <2>1. Emptied.profiles = Unset
    BY DEF Emptied, Doc
  <2> QED
    BY <1>2, <2>1, AddedListed
<1>11. AddedStays'
  <2>1. \A x \in added : x[1] \in Files /\ file'[x[1]] = file[x[1]]
    BY <1>2, <1>8, <1>10, AddedListed
  <2> QED
    BY <1>1, <1>2, <2>1 DEF AddedStays
<1>12. \A q \in Procs : q # p => Spares(q)
  <2>1. CASE file' = file
    BY <1>1, <1>6, <1>7, <2>1 DEF Spares
  <2>2. CASE file' # file
    <3>1. \A q \in Procs : q # p /\ pc[q] \notin {"gone", "load"}
            => <<q, "global">> \in overtaken'
      BY <1>1, <2>2 DEF Readers
    <3> QED
      BY <1>1, <1>6, <1>7, <1>8, <3>1 DEF Spares
  <2> QED
    BY <2>1, <2>2
<1>13. \A f \in Files : <<p, f>> \notin overtaken' => <<p, f>> \notin overtaken
  BY <1>1
<1>14. "project" \in Files
  BY DEF Files
<1>15. Missing(p)'
  BY <1>1, <1>2, <1>5, <1>6, <1>7, <1>8, <1>13, <1>14 DEF Own, Missing, c
<1>16. Placed(p)' /\ Opened(p)' /\ Changed(p)' /\ Copied(p)'
  BY <1>3, <1>4, <1>5, <1>6, <1>7 DEF Placed, Opened, Changed, Copied, Editing
<1>17. Read(p)'
  <2>1. SUFFICES ASSUME Current(p)'
                 PROVE  WithEnv(e, d) = Loaded(e, file')
    BY <1>5, <1>6 DEF Read
  <2>2. <<p, "global">> \notin overtaken /\ <<p, "project">> \notin overtaken
    BY <1>4, <1>13, <1>14, <2>1 DEF Current
  <2>3. file'["global"] = Minimal
    BY <1>1, <1>2, <1>8, <2>2 DEF Own, Opened
  <2>4. c.place = "inside" => file'["project"] = None
    BY <1>1, <1>2, <1>8, <1>14, <2>2 DEF Own, Missing, c
  <2>5. (IF e.place = "inside" THEN file'["project"] ELSE None) = None
    BY <1>5, <2>4
  <2>6. Loaded(e, file') = WithEnv(e, Over(d, None))
    BY <1>3, <1>5, <2>3, <2>5 DEF Loaded, WithEnv, d
  <2> QED
    BY <1>4, <2>6, OverTyped
<1>18. Remembers(p)'
  <2>1. <<p, "global">> \notin overtaken' => file["global"] = Emptied
    BY <1>1, <1>2, <1>4, <1>13 DEF Own, Opened
  <2> QED
    BY <1>1, <1>5, <1>6, <1>7, <1>10, <2>1 DEF Remembers
<1>19. \A q \in Procs : Own(q)'
  BY <1>2, <1>9, <1>12, <1>15, <1>16, <1>17, <1>18, SparedKeeps DEF Own
<1> QED
  BY <1>9, <1>11, <1>19 DEF IInv

\* A command changes what it has in memory, and goes on to save it.
LEMMA ChangeKeeps ==
  ASSUME IInv, NEW p \in Procs, NEW doc \in Settings, Change(p, doc),
         pc[p] = IF cmd[p].op = "migrate" THEN "copied" ELSE "ready",
         cmd[p].op \in {"add", "login", "remove", "migrate"},
         cmd[p].op # "migrate" /\ Current(p)
           => WithEnv(cmd[p], doc) = Applied(cmd[p], Loaded(cmd[p], file)),
         cmd[p].op = "migrate" => doc = Over(Defaults, file[cmd[p].at]),
         cmd[p].op \in {"add", "login"} => Has(doc, cmd[p].name),
         <<p, cmd[p].at>> \notin overtaken
           => \A x \in added : x[1] = cmd[p].at /\ (cmd[p].op = "remove" => x[2] # cmd[p].name)
                => Has(doc, x[2])
  PROVE  IInv'
<1> DEFINE c == cmd[p]
           e == [c EXCEPT !.doc = doc]
<1>1. /\ cmd' = [cmd EXCEPT ![p] = e] /\ GoTo(p, "save")
      /\ UNCHANGED <<file, tmp, overtaken, added>>
  BY DEF Change
<1>2. TypeOK /\ Own(p)
  BY DEF IInv
<1>3. c \in Commands /\ pc[p] \in Editing /\ doc \in Documents
  BY <1>2, DocumentsTyped DEF TypeOK, Editing
<1>4. /\ c.op # None /\ c.name \in Names /\ c.place # None /\ c.at \in Files
      /\ c.place = "override" => c.env = Unset /\ c.at \in Files
      /\ c.place = "outside" => c.at = "global"
  BY <1>2, <1>3 DEF Own, Placed, Editing
<1>5. /\ e \in Commands /\ e.doc = doc /\ e.at = c.at /\ e.op = c.op /\ e.name = c.name
      /\ e.place = c.place /\ e.env = c.env /\ e.copy = c.copy
  <2> HIDE DEF c
  <2> QED
    BY <1>3, DocReplaced
<1>6. /\ \A files : Loaded(e, files) = Loaded(c, files)
      /\ \A d : WithEnv(e, d) = WithEnv(c, d)
  <2> HIDE DEF c, e
  <2> QED
    BY <1>5, LoadedSame
<1> HIDE DEF e
<1>7. /\ cmd' \in [Procs -> Commands] /\ cmd'[p] = e
      /\ \A q \in Procs : q # p => cmd'[q] = cmd[q]
  BY <1>1, <1>2, <1>5, CommandTyped
<1>8. /\ pc' \in [Procs -> Steps] /\ pc'[p] = "save"
      /\ \A q \in Procs : q # p => pc'[q] = pc[q]
  BY <1>1, <1>2, PcTyped DEF Steps, Editing
<1>9. TypeOK'
  BY <1>1, <1>2, <1>7, <1>8 DEF TypeOK
<1>10. Placed(p)'
  BY <1>4, <1>5, <1>7, <1>8 DEF Placed, Editing
<1>11. Missing(p)' /\ Opened(p)' /\ Read(p)'
  BY <1>1, <1>2, <1>5, <1>7, <1>8 DEF Own, Missing, Opened, Read
<1>12. Changed(p)'
  <2>1. Applied(e, Loaded(c, file)) = Applied(c, Loaded(c, file))
    BY <1>5 DEF Applied
  <2>2. c.op # "migrate" /\ Current(p) => WithEnv(e, e.doc) = Applied(e, Loaded(e, file))
    BY <1>5, <1>6, <2>1
  <2> QED
    BY <1>1, <1>5, <1>7, <2>2 DEF Changed, Current
<1>13. Copied(p)'
  BY <1>1, <1>2, <1>5, <1>7, <1>8 DEF Own, Copied
<1>14. Remembers(p)'
  BY <1>1, <1>5, <1>7, <1>8 DEF Remembers
<1> QED
  BY <1>1, <1>7, <1>8, <1>9, <1>10, <1>11, <1>12, <1>13, <1>14, QuietKeeps DEF Own

\* A command that has read its files remembers what reading them gives, and all
\* that was added to the file it will write.
LEMMA ReadyHas ==
  ASSUME IInv, NEW p \in Procs, pc[p] = "ready"
  PROVE  /\ TypeOK /\ cmd[p] \in Commands /\ cmd[p].doc \in Settings /\ cmd[p].name \in Names
         /\ Loaded(cmd[p], file) \in Settings
         /\ Current(p) => WithEnv(cmd[p], cmd[p].doc) = Loaded(cmd[p], file)
         /\ <<p, cmd[p].at>> \notin overtaken
              => \A x \in added : x[1] = cmd[p].at => Has(cmd[p].doc, x[2])
<1>1. TypeOK /\ Placed(p) /\ Read(p) /\ Remembers(p)
  BY DEF IInv, Own
<1>2. cmd[p] \in Commands /\ cmd[p].doc \in Settings /\ cmd[p].name \in Names
      /\ (cmd[p].place = "override" => cmd[p].at \in Files)
  BY <1>1 DEF TypeOK, Placed, Editing
<1>3. Loaded(cmd[p], file) \in Settings
  BY <1>1, <1>2, LoadedTyped DEF TypeOK
<1> QED
  BY <1>1, <1>2, <1>3 DEF Read, Remembers

\* profile add and a login: one profile more, in memory.
LEMMA AddProfileKeeps ==
  ASSUME IInv, NEW p \in Procs, AddProfile(p)
  PROVE  IInv'
<1> DEFINE c == cmd[p]
           doc == WithProfile(c.doc, c.name)
<1>1. pc[p] = "ready" /\ c.op \in {"add", "login"} /\ Change(p, doc)
  BY DEF AddProfile
<1>2. /\ TypeOK /\ c \in Commands /\ c.doc \in Settings /\ c.name \in Names
      /\ Current(p) => WithEnv(c, c.doc) = Loaded(c, file)
      /\ <<p, c.at>> \notin overtaken => \A x \in added : x[1] = c.at => Has(c.doc, x[2])
  BY <1>1, ReadyHas
<1>3. doc \in Settings /\ Has(doc, c.name) /\ \A m : Has(c.doc, m) => Has(doc, m)
  BY <1>2, ProfilesChanged
<1>4. Current(p) => WithEnv(c, doc) = Applied(c, Loaded(c, file))
  BY <1>1, <1>2, ChangeUnderEnv DEF Applied
<1> HIDE DEF doc
<1> QED
  BY <1>1, <1>2, <1>3, <1>4, ChangeKeeps

\* profile remove: one profile less, in memory.
LEMMA RemoveProfileKeeps ==
  ASSUME IInv, NEW p \in Procs, RemoveProfile(p)
  PROVE  IInv'
<1> DEFINE c == cmd[p]
           doc == WithoutProfile(c.doc, c.name)
<1>1. pc[p] = "ready" /\ c.op = "remove" /\ Change(p, doc)
  BY DEF RemoveProfile
<1>2. /\ TypeOK /\ c \in Commands /\ c.doc \in Settings /\ c.name \in Names
      /\ Current(p) => WithEnv(c, c.doc) = Loaded(c, file)
      /\ <<p, c.at>> \notin overtaken => \A x \in added : x[1] = c.at => Has(c.doc, x[2])
  BY <1>1, ReadyHas
<1>3. doc \in Settings /\ \A m : Has(c.doc, m) /\ m # c.name => Has(doc, m)
  BY <1>2, ProfilesChanged
<1>4. Current(p) => WithEnv(c, doc) = Applied(c, Loaded(c, file))
  BY <1>1, <1>2, ChangeUnderEnv DEF Applied
<1> HIDE DEF doc
<1> QED
  BY <1>1, <1>2, <1>3, <1>4, ChangeKeeps

\* The file alone, without another layer.
LEMMA CanonicaliseKeeps ==
  ASSUME IInv, NEW p \in Procs, Canonicalise(p)
  PROVE  IInv'
<1> DEFINE c == cmd[p]
           doc == Over(Defaults, file[c.at])
<1>1. pc[p] = "copied" /\ Change(p, doc)
  BY DEF Canonicalise
<1>2. TypeOK /\ AddedStays /\ c.op = "migrate" /\ c.at \in Files
  BY <1>1 DEF IInv, Own, Placed, Editing
<1>3. doc \in Settings
  BY <1>2, DocumentsTyped, OverTyped DEF TypeOK
<1>4. \A x \in added : x[1] = c.at => Has(doc, x[2])
  BY <1>2, AddedListed
<1> HIDE DEF doc
<1>5. doc = Over(Defaults, file[c.at])
  BY DEF doc
<1> QED
  BY <1>1, <1>2, <1>3, <1>4, <1>5, ChangeKeeps

\* A change to the operation or the copy of a command.
LEMMA OpReplaced ==
  ASSUME NEW c \in Commands, NEW e, e = [c EXCEPT !.op = "login"]
  PROVE  /\ e \in Commands /\ e.doc = c.doc /\ e.at = c.at /\ e.op = "login"
         /\ e.name = c.name /\ e.place = c.place /\ e.env = c.env
BY DEF Commands

\* A backup is made: the rest of the command is as it was.
LEMMA CopyTaken ==
  ASSUME NEW c \in Commands, NEW d \in Documents \cup {None}, NEW e, e = [c EXCEPT !.copy = d]
  PROVE  /\ e \in Commands /\ e.doc = c.doc /\ e.at = c.at /\ e.op = c.op /\ e.name = c.name
         /\ e.place = c.place /\ e.env = c.env /\ e.copy = d
<1>1. e \in Commands
  BY DEF Commands
<1>2. e.doc = c.doc /\ e.at = c.at /\ e.op = c.op /\ e.name = c.name
  BY DEF Commands
<1>3. e.place = c.place /\ e.env = c.env /\ e.copy = d
  BY DEF Commands
<1> QED
  BY <1>1, <1>2, <1>3

\* doctor goes on as a login with what it has read.
LEMMA AcceptFixKeeps ==
  ASSUME IInv, NEW p \in Procs, AcceptFix(p)
  PROVE  IInv'
<1> DEFINE c == cmd[p]
           e == [c EXCEPT !.op = "login"]
<1>1. /\ pc[p] = "ready" /\ cmd' = [cmd EXCEPT ![p] = e]
      /\ UNCHANGED <<file, tmp, pc, overtaken, added>>
  BY DEF AcceptFix
<1>2. TypeOK /\ Own(p) /\ c \in Commands
  BY DEF IInv, TypeOK
<1>3. /\ e \in Commands /\ e.doc = c.doc /\ e.at = c.at /\ e.op = "login"
      /\ e.name = c.name /\ e.place = c.place /\ e.env = c.env
  <2> HIDE DEF c
  <2> QED
    BY <1>2, OpReplaced
<1>4. /\ \A files : Loaded(e, files) = Loaded(c, files)
      /\ \A d : WithEnv(e, d) = WithEnv(c, d)
  <2> HIDE DEF c, e
  <2> QED
    BY <1>3, LoadedSame
<1> HIDE DEF e
<1>5. /\ cmd' \in [Procs -> Commands] /\ cmd'[p] = e
      /\ \A q \in Procs : q # p => cmd'[q] = cmd[q]
  BY <1>1, <1>2, <1>3, CommandTyped
<1>6. TypeOK'
  BY <1>1, <1>2, <1>5 DEF TypeOK
<1>7. Placed(p)'
  BY <1>1, <1>2, <1>3, <1>5, NotAValue DEF Own, Placed, Editing
<1>8. Missing(p)' /\ Opened(p)' /\ Changed(p)' /\ Copied(p)' /\ Remembers(p)'
  BY <1>1, <1>2, <1>3, <1>5 DEF Own, Missing, Opened, Changed, Copied, Remembers
<1>9. Read(p)'
  BY <1>1, <1>2, <1>3, <1>4, <1>5 DEF Own, Read, Current
<1> QED
  BY <1>1, <1>5, <1>6, <1>7, <1>8, <1>9, QuietKeeps DEF Own

\* migrate gives up, or asks the user.
LEMMA CheckKeysKeeps ==
  ASSUME IInv, NEW p \in Procs, CheckKeys(p)
  PROVE  IInv'
<1>1. CASE Exit(p)
  BY <1>1, GiveUpKeeps DEF CheckKeys
<1>2. CASE ~Exit(p)
  <2>1. /\ pc[p] = "ready" /\ cmd[p].op = "migrate" /\ GoTo(p, "ask")
        /\ UNCHANGED <<file, tmp, cmd, overtaken, added>>
    BY <1>2 DEF CheckKeys
  <2>2. /\ pc' \in [Procs -> Steps] /\ pc'[p] = "ask"
        /\ \A q \in Procs : q # p => pc'[q] = pc[q]
    BY <2>1, PcTyped DEF IInv, Steps, Editing
  <2>3. TypeOK'
    BY <2>1, <2>2 DEF IInv, TypeOK
  <2>4. Own(p)'
    BY <2>1, <2>2 DEF IInv, Own, Placed, Missing, Opened, Read, Changed, Copied, Remembers, Editing
  <2> QED
    BY <2>1, <2>2, <2>3, <2>4, QuietKeeps
<1> QED
  BY <1>1, <1>2

\* From the backup on, migrate is overtaken only by what is written after it.
LEMMA BackUpKeeps ==
  ASSUME IInv, NEW p \in Procs, BackUp(p)
  PROVE  IInv'
<1> DEFINE c == cmd[p]
           e == [c EXCEPT !.copy = file[c.at]]
<1>1. /\ pc[p] = "ask" /\ cmd' = [cmd EXCEPT ![p] = e] /\ GoTo(p, "copied")
      /\ overtaken' = {x \in overtaken : x[1] # p}
      /\ UNCHANGED <<file, tmp, added>>
  BY DEF BackUp
<1>2. TypeOK /\ Own(p) /\ c \in Commands
  BY DEF IInv, TypeOK
<1>3. /\ c.at \in Files /\ file[c.at] \in Documents \cup {None} /\ c.op = "migrate"
  BY <1>1, <1>2 DEF TypeOK, Own, Placed, Editing
<1>4. /\ e \in Commands /\ e.doc = c.doc /\ e.at = c.at /\ e.op = c.op /\ e.name = c.name
      /\ e.place = c.place /\ e.env = c.env /\ e.copy = file[c.at]
  <2> HIDE DEF c
  <2> QED
    BY <1>2, <1>3, CopyTaken
<1> HIDE DEF e
<1>5. /\ cmd' \in [Procs -> Commands] /\ cmd'[p] = e
      /\ \A q \in Procs : q # p => cmd'[q] = cmd[q]
  BY <1>1, <1>2, <1>4, CommandTyped
<1>6. /\ pc' \in [Procs -> Steps] /\ pc'[p] = "copied"
      /\ \A q \in Procs : q # p => pc'[q] = pc[q]
  BY <1>1, <1>2, PcTyped DEF Steps, Editing
<1>7. TypeOK'
  BY <1>1, <1>2, <1>5, <1>6 DEF TypeOK
<1>8. Placed(p)' /\ Missing(p)' /\ Opened(p)' /\ Read(p)' /\ Changed(p)' /\ Remembers(p)'
  BY <1>1, <1>2, <1>3, <1>4, <1>5, <1>6
     DEF Own, Placed, Missing, Opened, Read, Changed, Remembers, Editing
<1>9. Copied(p)'
  BY <1>1, <1>4, <1>5, <1>6 DEF Copied
<1> QED
  BY <1>1, <1>5, <1>6, <1>7, <1>8, <1>9, QuietKeeps DEF Own

\* The temporary file of p is its own, and holds what p will save.
LEMMA WriteTmpKeeps ==
  ASSUME IInv, NEW p \in Procs, WriteTmp(p)
  PROVE  IInv'
<1>1. /\ pc[p] = "save" /\ tmp' = [tmp EXCEPT ![p] = cmd[p].doc] /\ GoTo(p, "rename")
      /\ UNCHANGED <<file, cmd, overtaken, added>>
  BY DEF WriteTmp, TmpName
<1>2. TypeOK /\ Own(p) /\ cmd[p] \in Commands
  BY DEF IInv, TypeOK
<1>3. /\ tmp' \in [Procs -> Documents \cup {None}] /\ tmp'[p] = cmd[p].doc
      /\ \A q \in Procs : q # p => tmp'[q] = tmp[q]
  <2>1. cmd[p].doc \in Documents \cup {None}
    BY <1>2 DEF Commands
  <2> QED
    BY <1>1, <1>2, <2>1 DEF TypeOK
<1>4. /\ pc' \in [Procs -> Steps] /\ pc'[p] = "rename"
      /\ \A q \in Procs : q # p => pc'[q] = pc[q]
  BY <1>1, <1>2, PcTyped DEF Steps, Editing
<1>5. TypeOK'
  BY <1>1, <1>2, <1>3, <1>4 DEF TypeOK
<1>6. Own(p)'
  BY <1>1, <1>2, <1>3, <1>4
     DEF Own, Placed, Missing, Opened, Read, Changed, Copied, Remembers, Editing, Current
<1> QED
  BY <1>1, <1>3, <1>4, <1>5, <1>6, QuietKeeps

\* A file is put in another's place: those who had read that one are overtaken.
LEMMA RenameKeeps ==
  ASSUME IInv, NEW p \in Procs, Rename(p)
  PROVE  IInv'
<1> DEFINE c == cmd[p]
           f == c.at
           kept == IF <<p, f>> \in overtaken THEN {x \in added : x[1] # f} ELSE added
<1>1. /\ pc[p] = "rename" /\ GoTo(p, "gone") /\ tmp[p] # None
      /\ file' = [file EXCEPT ![f] = tmp[p]] /\ tmp' = [tmp EXCEPT ![p] = None]
      /\ added' = AddedAfter(p, f)
      /\ overtaken' = {x \in overtaken : x[1] # p} \cup Readers(p, f)
      /\ cmd' = [cmd EXCEPT ![p] = NoCommand]
  BY DEF Rename, TmpName
<1>2. TypeOK /\ AddedStays /\ \A q \in Procs : Own(q)
  BY DEF IInv
<1>3. /\ f \in Files /\ c.doc \in Settings /\ c.doc \in Documents /\ tmp[p] = c.doc
      /\ c.name \in Names
  BY <1>1, <1>2, DocumentsTyped DEF Own, Placed, Editing
<1>4. /\ file' \in [Files -> Documents \cup {None}] /\ file'[f] = c.doc
      /\ \A g \in Files : g # f => file'[g] = file[g]
  <2> DEFINE d == tmp[p]
  <2>1. file' = [file EXCEPT ![f] = d] /\ file \in [Files -> Documents \cup {None}] /\ d = c.doc
    BY <1>1, <1>2, <1>3 DEF TypeOK
  <2> HIDE DEF d, f, c
  <2> QED
    BY <1>3, <2>1
<1>5. /\ tmp' \in [Procs -> Documents \cup {None}]
      /\ \A q \in Procs : q # p => tmp'[q] = tmp[q]
  BY <1>1, <1>2 DEF TypeOK
<1>6. /\ cmd' \in [Procs -> Commands]
      /\ \A q \in Procs : q # p => cmd'[q] = cmd[q]
  <2>1. NoCommand \in Commands
    BY DEF NoCommand, Commands
  <2> QED
    BY <1>1, <1>2, <2>1, CommandTyped
<1>7. /\ pc' \in [Procs -> Steps] /\ pc'[p] = "gone"
      /\ \A q \in Procs : q # p => pc'[q] = pc[q]
  BY <1>1, <1>2, PcTyped DEF Steps
<1>8. /\ \A x \in added' : x \in kept \/ (c.op \in {"add", "login"} /\ x = <<f, c.name>>)
      /\ c.op = "remove" => \A x \in added' : x # <<f, c.name>>
  <2>1. added' = CASE c.op \in {"add", "login"} -> kept \cup {<<f, c.name>>}
                   [] c.op = "remove"           -> kept \ {<<f, c.name>>}
                   [] OTHER                     -> kept
    BY <1>1 DEF AddedAfter
  <2> HIDE DEF kept, c, f
  <2>2. CASE c.op \in {"add", "login"}
    <3>1. added' = kept \cup {<<f, c.name>>} /\ c.op # "remove"
      BY <2>1, <2>2
    <3> QED
      BY <2>2, <3>1
  <2>3. CASE c.op = "remove"
    <3>1. added' = kept \ {<<f, c.name>>}
      BY <2>1, <2>3
    <3> QED
      BY <2>3, <3>1
  <2>4. CASE c.op \notin {"add", "login", "remove"}
    <3>1. added' = kept
      BY <2>1, <2>4
    <3> QED
      BY <2>4, <3>1
  <2> QED
    BY <2>2, <2>3, <2>4
<1>9. kept \subseteq added /\ (<<p, f>> \in overtaken => \A x \in kept : x[1] # f)
  OBVIOUS
<1> HIDE DEF kept
<1>10. \A x \in added' : /\ x \in Files \X Names
                         /\ x[1] # f => x \in added
  BY <1>2, <1>3, <1>8, <1>9 DEF TypeOK
<1>11. TypeOK'
  BY <1>4, <1>5, <1>6, <1>7, <1>10 DEF TypeOK
<1>12. AddedStays'
  <2>1. ASSUME NEW x \in added', x[1] # f
        PROVE  file'[x[1]] # None /\ Has(Over(Defaults, file'[x[1]]), x[2])
    <3>1. x \in added /\ x[1] \in Files
      BY <1>10, <2>1
    <3>2. file'[x[1]] = file[x[1]]
      BY <1>4, <2>1, <3>1
    <3> QED
      BY <1>2, <3>1, <3>2 DEF AddedStays
  <2>2. ASSUME NEW x \in added', x[1] = f
        PROVE  file'[x[1]] # None /\ Has(Over(Defaults, file'[x[1]]), x[2])
    <3>1. Has(c.doc, x[2])
      <4>1. CASE x = <<f, c.name>> /\ c.op \in {"add", "login"}
        BY <1>1, <1>2, <4>1 DEF Own, Remembers
      <4>2. CASE x \in kept
        <5>1. x \in added /\ <<p, f>> \notin overtaken
          BY <1>9, <2>2, <4>2
        <5>2. c.op = "remove" => x[2] # c.name
          BY <1>8, <1>10, <2>2
        <5> QED
          BY <1>1, <1>2, <2>2, <5>1, <5>2 DEF Own, Remembers
      <4> QED
        BY <1>8, <4>1, <4>2
    <3>2. Over(Defaults, c.doc) = c.doc
      <4>1. c.doc.profiles # Unset /\ c.doc.port # Unset
        BY <1>3, DocumentsTyped DEF Settings
      <4> DEFINE d == c.doc
      <4>2. d \in Settings /\ d \in Documents \cup {None} /\ d # None /\ d.profiles # Unset
            /\ d.port # Unset
        BY <1>3, <4>1, DocumentsTyped
      <4> HIDE DEF d
      <4>3. Over(Defaults, d) \in Settings /\ Over(Defaults, d).profiles = d.profiles
            /\ Over(Defaults, d).port = d.port
        BY <4>2, DocumentsTyped, OverTyped
      <4>4. Over(Defaults, d) = d
        BY <4>2, <4>3, SameSettings
      <4> QED
        BY <4>4 DEF d
    <3> QED
      BY <1>3, <1>4, <2>2, <3>1, <3>2, DocumentsTyped
  <2> QED
    BY <2>1, <2>2 DEF AddedStays
<1>13. ASSUME NEW q \in Procs, q # p
       PROVE  Spares(q)
  <2>1. pc'[q] = pc[q] /\ cmd'[q] = cmd[q] /\ tmp'[q] = tmp[q]
    BY <1>5, <1>6, <1>7, <1>13
  <2>2. ASSUME pc[q] \notin {"gone", "load"}, NEW g \in Files, <<q, g>> \notin overtaken'
        PROVE  /\ <<q, g>> \notin overtaken /\ file'[g] = file[g]
               /\ \A x \in added' : x[1] = g => x \in added
    <3>1. <<q, g>>[1] # p
      BY <1>13
    <3>2. g # f
      BY <1>1, <1>13, <2>2 DEF Readers
    <3> QED
      BY <1>1, <1>4, <1>10, <2>2, <3>1, <3>2
  <2> QED
    BY <2>1, <2>2 DEF Spares
<1>14. \A q \in Procs : Own(q)'
  BY <1>2, <1>7, <1>11, <1>13, GoneKeeps, SparedKeeps
<1> QED
  BY <1>11, <1>12, <1>14 DEF IInv

\* The user edits a file: all who have read it are overtaken.
LEMMA EditByHandKeeps ==
  ASSUME IInv, EditByHand
  PROVE  IInv'
<1>1. PICK f \in Files, d \in HandWritten :
        /\ file' = [file EXCEPT ![f] = d]
        /\ overtaken' = overtaken \cup {x \in Procs \X {f} : pc[x[1]] \notin {"gone", "load"}}
        /\ added' = {x \in added : x[1] # f}
  BY DEF EditByHand
<1>2. UNCHANGED <<tmp, pc, cmd>>
  BY DEF EditByHand
<1>3. TypeOK /\ AddedStays /\ \A q \in Procs : Own(q)
  BY DEF IInv
<1>4. /\ file' \in [Files -> Documents \cup {None}]
      /\ \A g \in Files : g # f => file'[g] = file[g]
  BY <1>1, <1>3, HandWrittenAssumption DEF TypeOK
<1>5. TypeOK'
  BY <1>1, <1>2, <1>3, <1>4 DEF TypeOK
<1>6. AddedStays'
  <2>1. \A x \in added' : x \in added /\ x[1] # f /\ x[1] \in Files
    BY <1>1, <1>3, AddedListed
  <2> QED
    BY <1>3, <1>4, <2>1 DEF AddedStays
<1>7. ASSUME NEW q \in Procs
      PROVE  Spares(q)
  <2>1. ASSUME pc[q] \notin {"gone", "load"}, NEW g \in Files, <<q, g>> \notin overtaken'
        PROVE  /\ <<q, g>> \notin overtaken /\ file'[g] = file[g]
               /\ \A x \in added' : x[1] = g => x \in added
    <3>1. g # f
      <4>1. <<q, f>> \in {x \in Procs \X {f} : pc[x[1]] \notin {"gone", "load"}}
        BY <2>1
      <4> QED
        BY <1>1, <2>1, <4>1
    <3> QED
      BY <1>1, <1>4, <2>1, <3>1
  <2> QED
    BY <1>2, <2>1 DEF Spares
<1>8. \A q \in Procs : Own(q)'
  BY <1>3, <1>5, <1>7, SparedKeeps
<1> QED
  BY <1>5, <1>6, <1>8 DEF IInv

\* Nothing changes.
LEMMA StutterKeeps ==
  ASSUME IInv, UNCHANGED vars
  PROVE  IInv'
BY DEF vars, IInv, TypeOK, AddedStays, Own, Placed, Missing, Opened, Read, Changed, Copied,
       Remembers, Current, Loaded, WithEnv, Applied

\* Every step keeps the invariant.
LEMMA NextKeeps == IInv /\ [Next]_vars => IInv'
<1> SUFFICES ASSUME IInv, [Next]_vars PROVE IInv'
  OBVIOUS
<1>1. ASSUME NEW p \in Procs, GiveUp(p)
      PROVE  IInv'
  BY <1>1, GiveUpKeeps DEF GiveUp
<1>2. ASSUME NEW p \in Procs,
             \/ Start(p) \/ Load(p) \/ FindNothing(p) \/ OpenDefault(p) \/ WriteDefault(p)
      PROVE  IInv'
  BY <1>2, StartKeeps, LoadKeeps, FindNothingKeeps, OpenDefaultKeeps, WriteDefaultKeeps
<1>3. ASSUME NEW p \in Procs,
             \/ AddProfile(p) \/ ProfileExists(p) \/ RemoveProfile(p) \/ NoSuchProfile(p)
             \/ AcceptFix(p) \/ Decline(p) \/ CheckKeys(p)
      PROVE  IInv'
  BY <1>1, <1>3, AddProfileKeeps, RemoveProfileKeeps, AcceptFixKeeps, CheckKeysKeeps
     DEF ProfileExists, NoSuchProfile, Decline
<1>4. ASSUME NEW p \in Procs,
             BackUp(p) \/ Canonicalise(p) \/ WriteTmp(p) \/ Rename(p) \/ Kill(p)
      PROVE  IInv'
  BY <1>1, <1>4, BackUpKeeps, CanonicaliseKeeps, WriteTmpKeeps, RenameKeeps DEF Kill
<1>5. CASE UNCHANGED vars
  BY <1>5, StutterKeeps
<1>6. CASE EditByHand
  BY <1>6, EditByHandKeeps
<1> QED
  BY <1>2, <1>3, <1>4, <1>5, <1>6 DEF Next

-----------------------------------------------------------------------------
(* The theorems *)

\* What a command knows of the files it has read holds at every step of it,
\* whatever the other processes do.
THEOREM InvariantHolds == Spec => []IInv
<1>1. Init => IInv
  BY InitHolds
<1>2. IInv /\ [Next]_vars => IInv'
  BY NextKeeps
<1> QED
  BY <1>1, <1>2, PTL DEF Spec

\* A profile that was added stays in its file until it is removed, the user
\* rewrites the file, or a command saves what it had read before (save,
\* profile.rs:118-137; create_default_global; cmd_migrate).
THEOREM ProfilesStay == Spec => []AddedStays
<1>1. IInv => AddedStays
  BY DEF IInv
<1> QED
  BY <1>1, InvariantHolds, PTL

\* Only the renaming of its file saves what a process has in memory.
LEMMA SavesByRename ==
  ASSUME IInv, [Next]_vars, NEW p \in Procs, Saves(p)
  PROVE  Rename(p)
<1>1. pc[p] = "rename" /\ pc'[p] = "gone" /\ file' # file
  BY DEF Saves
<1>2. ASSUME NEW q \in Procs, q # p, NEW step, GoTo(q, step)
      PROVE  FALSE
  <2>1. pc'[p] = pc[p]
    BY <1>2 DEF GoTo, IInv, TypeOK
  <2> QED
    BY <1>1, <2>1
<1>3. ASSUME NEW q \in Procs, Start(q) \/ Load(q) \/ FindNothing(q)
      PROVE  FALSE
  BY <1>1, <1>3 DEF Start, Load, FindNothing
<1>4. ASSUME NEW q \in Procs, OpenDefault(q) \/ WriteDefault(q)
      PROVE  FALSE
  <2>1. q # p
    BY <1>1, <1>4 DEF OpenDefault, WriteDefault
  <2> QED
    BY <1>2, <1>4, <2>1 DEF OpenDefault, WriteDefault
<1>5. ASSUME NEW q \in Procs,
             \/ AddProfile(q) \/ ProfileExists(q) \/ RemoveProfile(q) \/ NoSuchProfile(q)
             \/ AcceptFix(q) \/ Decline(q) \/ CheckKeys(q) \/ BackUp(q) \/ Canonicalise(q)
             \/ WriteTmp(q) \/ Kill(q)
      PROVE  FALSE
  BY <1>1, <1>5 DEF AddProfile, ProfileExists, RemoveProfile, NoSuchProfile, AcceptFix, Decline,
     CheckKeys, BackUp, Canonicalise, WriteTmp, Kill, GiveUp, Change
<1>6. ASSUME NEW q \in Procs, Rename(q), q # p
      PROVE  FALSE
  BY <1>2, <1>6 DEF Rename
<1>7. ~EditByHand /\ ~UNCHANGED vars
  BY <1>1 DEF EditByHand, vars
<1> QED
  BY <1>3, <1>4, <1>5, <1>6, <1>7 DEF Next

\* What a process renames is what it has in memory.
LEMMA SavedDoc ==
  ASSUME IInv, NEW p \in Procs, Rename(p)
  PROVE  /\ cmd[p] \in Commands /\ cmd[p].at \in Files /\ cmd[p].doc \in Settings
         /\ file' = [file EXCEPT ![cmd[p].at] = cmd[p].doc] /\ file'[cmd[p].at] = cmd[p].doc
         /\ pc[p] = "rename"
         /\ cmd[p].place \in {"inside", "outside", "override"}
         /\ cmd[p].place = "override" => cmd[p].env = Unset
         /\ cmd[p].place = "outside" => cmd[p].at = "global"
<1>1. pc[p] = "rename" /\ file' = [file EXCEPT ![cmd[p].at] = tmp[p]]
  BY DEF Rename, TmpName
<1>2. TypeOK /\ Placed(p)
  BY DEF IInv, Own
<1>3. cmd[p] \in Commands /\ cmd[p].at \in Files /\ cmd[p].doc \in Settings
      /\ tmp[p] = cmd[p].doc /\ cmd[p].place # None
  BY <1>1, <1>2 DEF TypeOK, Placed, Editing
<1>4. cmd[p].place \in {"inside", "outside", "override"}
  BY <1>3 DEF Commands
<1> QED
  BY <1>1, <1>2, <1>3, <1>4 DEF TypeOK, Placed, Editing

\* profile add, profile remove and a login change the configuration by that one
\* profile, unless a file was written between reading and writing: what they
\* read of several layers and write back as one file adds nothing else.
THEOREM OneProfileSaved == Spec => SaveChangesOneThing
<1>1. ASSUME IInv, [Next]_vars, NEW p \in Procs,
             Saves(p), cmd[p].op # "migrate", \A f \in Files : <<p, f>> \notin overtaken
      PROVE  Loaded(cmd[p], file') = Applied(cmd[p], Loaded(cmd[p], file))
  <2> DEFINE c == cmd[p]
  <2>1. Rename(p)
    BY <1>1, SavesByRename
  <2>2. /\ c \in Commands /\ c.at \in Files /\ c.doc \in Settings
        /\ file' = [file EXCEPT ![c.at] = c.doc] /\ pc[p] = "rename"
        /\ c.place \in {"inside", "outside", "override"}
        /\ c.place = "override" => c.env = Unset
        /\ c.place = "outside" => c.at = "global"
    BY <1>1, <2>1, SavedDoc
  <2>3. TypeOK /\ Missing(p) /\ Changed(p)
    BY <1>1 DEF IInv, Own
  <2>4. c.place = "inside" /\ c.at = "global" => file["project"] = None
    BY <1>1, <2>2, <2>3 DEF Missing, Files
  <2>5. WithEnv(c, c.doc) = Applied(c, Loaded(c, file))
    BY <1>1, <2>2, <2>3 DEF Changed, Current
  <2>6. Loaded(c, [file EXCEPT ![c.at] = c.doc]) = WithEnv(c, c.doc)
    <3> HIDE DEF c
    <3> QED
      BY <2>2, <2>3, <2>4, LoadedAfterSave
  <2> QED
    BY <2>2, <2>5, <2>6
<1>2. IInv /\ [Next]_vars
        => [\A p \in Procs :
              Saves(p) /\ cmd[p].op # "migrate" /\ (\A f \in Files : <<p, f>> \notin overtaken)
              => Loaded(cmd[p], file') = Applied(cmd[p], Loaded(cmd[p], file))]_vars
  BY <1>1
<1> QED
  BY <1>2, InvariantHolds, PTL DEF Spec, SaveChangesOneThing

\* config migrate has backed up what it replaces, and replaces it by the settings
\* of that file alone, unless the file was written after the backup.
THEOREM MigrationKeeps == Spec => MigrateKeepsTheFile
<1>1. ASSUME IInv, [Next]_vars, NEW p \in Procs,
             Saves(p), cmd[p].op = "migrate", <<p, cmd[p].at>> \notin overtaken
      PROVE  /\ cmd[p].copy = file[cmd[p].at]
             /\ file'[cmd[p].at] = Over(Defaults, cmd[p].copy)
  <2>1. Rename(p)
    BY <1>1, SavesByRename
  <2>2. file'[cmd[p].at] = cmd[p].doc /\ pc[p] = "rename"
    BY <1>1, <2>1, SavedDoc
  <2>3. Copied(p)
    BY <1>1 DEF IInv, Own
  <2> QED
    BY <1>1, <2>2, <2>3 DEF Copied
<1>2. IInv /\ [Next]_vars
        => [\A p \in Procs :
              Saves(p) /\ cmd[p].op = "migrate" /\ <<p, cmd[p].at>> \notin overtaken
              => /\ cmd[p].copy = file[cmd[p].at]
                 /\ file'[cmd[p].at] = Over(Defaults, cmd[p].copy)]_vars
  BY <1>1
<1> QED
  BY <1>2, InvariantHolds, PTL DEF Spec, MigrateKeepsTheFile

-----------------------------------------------------------------------------
(* Instruction sets: lists of components *)

LEMMA Firsts ==
  ASSUME NEW S, NEW q \in Seq(S), q # << >>
  PROVE  /\ Head(q) \in S /\ Head(q) \in Range(q) /\ Tail(q) \in Seq(S)
         /\ \A x \in Range(q) : x = Head(q) \/ x \in Range(Tail(q))
         /\ Range(Tail(q)) \subseteq Range(q)
<1>1. Len(q) \in Nat /\ Len(q) # 0 /\ DOMAIN q = 1..Len(q)
  BY EmptySeq
<1>2. /\ Head(q) = q[1] /\ Tail(q) \in Seq(S) /\ DOMAIN Tail(q) = 1..(Len(q) - 1)
      /\ \A i \in 1..(Len(q) - 1) : Tail(q)[i] = q[i + 1]
  OBVIOUS
<1>3. \A i \in DOMAIN q : i = 1 \/ (i - 1 \in 1..(Len(q) - 1) /\ (i - 1) + 1 = i)
  BY <1>1
<1>4. \A i \in 1..(Len(q) - 1) : i + 1 \in DOMAIN q
  BY <1>1
<1>5. 1 \in DOMAIN q /\ q[1] \in S
  BY <1>1
<1>6. \A x \in Range(q) : x = Head(q) \/ x \in Range(Tail(q))
  BY <1>2, <1>3 DEF Range
<1>7. Range(Tail(q)) \subseteq Range(q)
  BY <1>2, <1>4 DEF Range
<1> QED
  BY <1>2, <1>5, <1>6, <1>7 DEF Range

LEMMA Lasts ==
  ASSUME NEW S, NEW q \in Seq(S), NEW e \in S
  PROVE  Append(q, e) \in Seq(S) /\ Range(Append(q, e)) = Range(q) \cup {e}
<1>1. /\ Append(q, e) \in Seq(S) /\ DOMAIN Append(q, e) = 1..(Len(q) + 1) /\ Len(q) \in Nat
      /\ DOMAIN q = 1..Len(q)
      /\ \A i \in 1..Len(q) : Append(q, e)[i] = q[i]
      /\ Append(q, e)[Len(q) + 1] = e
  OBVIOUS
<1>2. \A i \in 1..(Len(q) + 1) : i \in 1..Len(q) \/ i = Len(q) + 1
  BY <1>1
<1>3. 1..Len(q) \subseteq 1..(Len(q) + 1) /\ Len(q) + 1 \in 1..(Len(q) + 1)
  BY <1>1
<1>4. Range(Append(q, e)) \subseteq Range(q) \cup {e}
  BY <1>1, <1>2 DEF Range
<1>5. Range(q) \cup {e} \subseteq Range(Append(q, e))
  BY <1>1, <1>3 DEF Range
<1> QED
  BY <1>1, <1>4, <1>5

LEMMA NoneOfEmpty == Range(<< >>) = {}
BY DEF Range

-----------------------------------------------------------------------------
(* The types *)

Commits == Sources \X Nat
Records ==
  {Absent} \cup [version : Nat, source : Sources, pinned : BOOLEAN,
                 locked_ref : {<< >>} \cup Commits, components : Seq(Components)]
Locks == [SetNames -> Records]
Queues == Seq(Sources \X Nat)

Shell ==
  [pc : {"idle", "fetch", "install", "uninstall", "forget"}, queue : Queues,
   seen : {<< >>} \cup Locks, manifest : {<< >>} \cup Commits, source : {"none"} \cup Sources,
   pinned : BOOLEAN, name : {"none"} \cup SetNames, todo : Seq(Components),
   done : Seq(Components), stale : SUBSET SetNames]

\* What a shell at a place has read.
Phase(sh) ==
  /\ sh.pc = "fetch" => sh.queue # << >>
  /\ sh.pc \in {"install", "uninstall", "forget"} => sh.seen \in Locks /\ sh.name \in SetNames
  /\ sh.pc = "install" => sh.manifest \in Commits /\ sh.source \in Sources
  /\ sh.pc = "forget" => sh.todo = << >>

SetsTypes ==
  /\ published \in [Sources -> Nat]
  /\ \A u \in Sources : published[u] \in 1..Len(Manifest[u])
  /\ clones \in [Dirs -> {<< >>} \cup Commits]
  /\ DOMAIN disk = Components /\ disk = [c \in Components |-> disk[c]]
  /\ lock \in Locks
  /\ shell \in [Shells -> Shell]
  /\ \A s \in Shells : Phase(shell[s])

LEMMA IdleIsShell == Idle \in Shell /\ Phase(Idle)
<1>1. Idle \in Shell
  <2>1. << >> \in Queues /\ << >> \in Seq(Components)
    BY DEF Queues
  <2> QED
    BY <2>1 DEF Idle, Shell
<1> QED
  BY <1>1 DEF Idle, Phase

LEMMA GoOnIsShell ==
  ASSUME NEW q \in Queues
  PROVE  GoOn(q) \in Shell /\ Phase(GoOn(q))
<1>1. CASE q = << >>
  BY <1>1, IdleIsShell DEF GoOn
<1>2. CASE q # << >>
  <2>1. GoOn(q) = [Idle EXCEPT !.pc = "fetch", !.queue = q]
    BY <1>2 DEF GoOn
  <2>2. [Idle EXCEPT !.pc = "fetch", !.queue = q] \in Shell
    BY IdleIsShell DEF Shell
  <2>3. GoOn(q).pc = "fetch" /\ GoOn(q).queue = q
    BY <2>1 DEF Idle
  <2> QED
    BY <1>2, <2>1, <2>2, <2>3 DEF Phase
<1> QED
  BY <1>1, <1>2

\* What a shell becomes.
LEMMA BecomeTypes ==
  ASSUME SetsTypes, NEW s \in Shells, NEW r \in Shell, Phase(r), Become(s, r)
  PROVE  /\ shell' \in [Shells -> Shell] /\ \A t \in Shells : Phase(shell'[t])
         /\ shell'[s] = r /\ \A t \in Shells : t # s => shell'[t] = shell[t]
BY DEF SetsTypes, Become

LEMMA SetsInitTypes == SetsInit => SetsTypes
<1> SUFFICES ASSUME SetsInit PROVE SetsTypes
  OBVIOUS
<1>1. published \in [Sources -> Nat] /\ \A u \in Sources : published[u] \in 1..Len(Manifest[u])
  <2>1. \A u \in Sources : Len(Manifest[u]) \in Nat \ {0}
    BY SetsAssumption
  <2>2. \A u \in Sources : published[u] = 1
    BY DEF SetsInit
  <2> QED
    BY <2>1, <2>2 DEF SetsInit
<1>2. lock \in Locks
  BY DEF SetsInit, Locks, Records
<1>3. clones \in [Dirs -> {<< >>} \cup Commits]
  BY DEF SetsInit
<1>4. DOMAIN disk = Components /\ disk = [c \in Components |-> disk[c]]
  BY DEF SetsInit
<1>5. shell \in [Shells -> Shell] /\ \A s \in Shells : Phase(shell[s])
  BY IdleIsShell DEF SetsInit
<1> QED
  BY <1>1, <1>2, <1>3, <1>4, <1>5 DEF SetsTypes

\* Steps that change one shell and neither the lock file nor the components.
LEMMA ShellTypes ==
  ASSUME SetsTypes, NEW s \in Shells, NEW r \in Shell, Phase(r), Become(s, r),
         UNCHANGED <<published, disk, lock>>, clones' \in [Dirs -> {<< >>} \cup Commits]
  PROVE  SetsTypes'
<1>1. shell' \in [Shells -> Shell] /\ \A t \in Shells : Phase(shell'[t])
  BY BecomeTypes
<1> QED
  BY <1>1 DEF SetsTypes

LEMMA AddTypes ==
  ASSUME SetsTypes, NEW s \in Shells, NEW u \in Sources, NEW ref \in {Latest} \cup Versions(u), AddSet(s, u, ref)
  PROVE  SetsTypes'
<1>1. << <<u, ref>> >> \in Queues
  <2>1. ref \in Nat
    BY SetsAssumption DEF Latest
  <2> QED
    BY <2>1 DEF Queues
<1> QED
  BY <1>1, GoOnIsShell, ShellTypes DEF AddSet, Type, SetsTypes

LEMMA UpdateTypes ==
  ASSUME SetsTypes, NEW s \in Shells, NEW N \in SUBSET SetNames, UpdateSet(s, N)
  PROVE  SetsTypes'
<1> DEFINE M == {n \in N : lock[n] # Absent /\ ~lock[n].pinned}
           targets == {<<lock[n].source, Latest>> : n \in M}
<1>1. targets \subseteq Sources \X Nat
  <2>1. ASSUME NEW n \in M PROVE lock[n].source \in Sources
    BY DEF SetsTypes, Locks, Records
  <2> QED
    BY <2>1 DEF Latest
<1>2. IsFiniteSet(targets)
  <2>1. IsFiniteSet(M)
    <3>1. M \in SUBSET SetNames
      OBVIOUS
    <3> QED
      BY <3>1, SetsAssumption, FS_Subset
  <2> DEFINE f == [n \in M |-> <<lock[n].source, Latest>>]
  <2>2. f \in Surjection(M, targets)
    BY DEF Surjection
  <2> QED
    BY <2>1, <2>2, FS_Surjection
<1>3. \A queue \in SetToSeqs(targets) : queue \in Queues
  <2>1. Cardinality(targets) \in Nat
    BY <1>2, FS_CardinalityType
  <2> HIDE DEF targets
  <2> TAKE queue \in SetToSeqs(targets)
  <2>2. queue \in [1..Cardinality(targets) -> targets]
    BY DEF SetToSeqs
  <2>3. queue \in [1..Cardinality(targets) -> Sources \X Nat]
    BY <1>1, <2>2
  <2> QED
    BY <2>1, <2>3 DEF Queues
<1>4. PICK queue \in SetToSeqs(targets) : Become(s, GoOn(queue))
  BY DEF UpdateSet
<1>5. queue \in Queues
  BY <1>3, <1>4
<1> QED
  BY <1>4, <1>5, GoOnIsShell, ShellTypes DEF UpdateSet, Type, SetsTypes

LEMMA RemoveTypes ==
  ASSUME SetsTypes, NEW s \in Shells, NEW n \in SetNames, RemoveSet(s, n)
  PROVE  SetsTypes'
<1> DEFINE r == [Idle EXCEPT !.pc = "uninstall", !.seen = lock, !.name = n, !.todo = lock[n].components]
<1>1. lock \in Locks /\ lock[n].components \in Seq(Components)
  BY DEF SetsTypes, Locks, Records, RemoveSet
<1>2. r \in Shell
  BY <1>1, IdleIsShell DEF Shell
<1>3. r.pc = "uninstall" /\ r.seen = lock /\ r.name = n
  BY DEF Idle
<1>4. Phase(r)
  BY <1>1, <1>3 DEF Phase
<1>5. Become(s, r) /\ UNCHANGED <<published, disk, lock, clones>>
  BY DEF RemoveSet, Type
<1> HIDE DEF r
<1> QED
  BY <1>2, <1>4, <1>5, ShellTypes DEF SetsTypes

LEMMA OriginIs ==
  ASSUME SetsTypes, NEW u \in Sources
  PROVE  Origin(u) \in Sources /\ DirName[u] \in Dirs
<1>1. DirName[u] \in Dirs
  BY SetsAssumption DEF Dirs, Range
<1>2. clones[DirName[u]] \in {<< >>} \cup Commits
  BY <1>1 DEF SetsTypes
<1>3. CASE u \in Local \/ clones[DirName[u]] = << >>
  BY <1>1, <1>3 DEF Origin
<1>4. CASE ~(u \in Local \/ clones[DirName[u]] = << >>)
  BY <1>1, <1>2, <1>4 DEF Origin, Commits
<1> QED
  BY <1>3, <1>4

LEMMA InDirIs ==
  ASSUME SetsTypes, NEW u \in Sources
  PROVE  InDir(u) \in {<< >>} \cup Commits
<1>1. DirName[u] \in Dirs
  BY OriginIs
<1>2. clones[DirName[u]] \in {<< >>} \cup Commits /\ published[u] \in Nat
  BY <1>1 DEF SetsTypes
<1> QED
  BY <1>2 DEF InDir, Commits

LEMMA FetchTypes ==
  ASSUME SetsTypes, NEW s \in Shells, Fetch(s)
  PROVE  SetsTypes'
<1> DEFINE u == Head(shell[s].queue)[1]
           ref == Head(shell[s].queue)[2]
           rest == Tail(shell[s].queue)
           v == IF ref = Latest \/ u \in Local THEN published[Origin(u)] ELSE ref
           man == ManifestAt(<<Origin(u), v>>)
           r == [Idle EXCEPT !.pc = "install", !.queue = rest, !.seen = lock, !.name = man.name,
                   !.manifest = <<Origin(u), v>>, !.source = u, !.pinned = (ref # Latest), !.todo = man.components]
<1>1. /\ shell[s].pc = "fetch" /\ v \in 1..published[Origin(u)]
      /\ clones' = IF u \in Local THEN clones ELSE [clones EXCEPT ![DirName[u]] = <<Origin(u), v>>]
      /\ Become(s, GoOn(rest)) \/ (man # Malformed /\ Become(s, r))
      /\ UNCHANGED <<published, disk, lock>>
  BY DEF Fetch
<1>2. u \in Sources /\ rest \in Queues
  <2>1. shell[s].queue \in Queues /\ shell[s].queue # << >>
    BY <1>1 DEF SetsTypes, Shell, Phase
  <2>2. Head(shell[s].queue) \in Sources \X Nat /\ Tail(shell[s].queue) \in Queues
    BY <2>1, Firsts DEF Queues
  <2> QED
    BY <2>2
<1> HIDE DEF u, ref, rest, v, man
<1>3. Origin(u) \in Sources /\ DirName[u] \in Dirs
  BY <1>2, OriginIs
<1>4. v \in Nat /\ v \in Versions(Origin(u))
  <2>1. published[Origin(u)] \in Nat /\ published[Origin(u)] \in 1..Len(Manifest[Origin(u)])
    BY <1>3 DEF SetsTypes
  <2>2. Len(Manifest[Origin(u)]) \in Nat /\ Versions(Origin(u)) = 1..Len(Manifest[Origin(u)])
    BY <1>3, SetsAssumption
  <2> QED
    BY <1>1, <2>1, <2>2
<1>5. <<Origin(u), v>> \in Commits
  BY <1>3, <1>4 DEF Commits
<1>6. clones' \in [Dirs -> {<< >>} \cup Commits]
  BY <1>1, <1>5 DEF SetsTypes
<1>7. CASE Become(s, GoOn(rest))
  BY <1>1, <1>2, <1>6, <1>7, GoOnIsShell, ShellTypes
<1>8. CASE man # Malformed /\ Become(s, r)
  <2>1. man.name \in SetNames /\ man.components \in Seq(Components)
    BY <1>3, <1>4, <1>8, SetsAssumption DEF man, ManifestAt
  <2>2. lock \in Locks
    BY DEF SetsTypes
  <2>3. r \in Shell
    BY <1>2, <1>5, <2>1, <2>2, IdleIsShell DEF Shell
  <2>4. r.pc = "install" /\ r.seen = lock /\ r.name = man.name /\ r.manifest = <<Origin(u), v>> /\ r.source = u
    BY DEF Idle
  <2>5. Phase(r)
    BY <1>2, <1>5, <2>1, <2>2, <2>4 DEF Phase
  <2> HIDE DEF r
  <2> QED
    BY <1>1, <1>6, <1>8, <2>3, <2>5, ShellTypes
<1> QED
  BY <1>1, <1>7, <1>8

LEMMA FetchFailsTypes ==
  ASSUME SetsTypes, NEW s \in Shells, FetchFails(s)
  PROVE  SetsTypes'
<1> DEFINE u == Head(shell[s].queue)[1]
<1>1. /\ shell[s].pc = "fetch"
      /\ clones' = [clones EXCEPT ![DirName[u]] = << >>] \/ clones' = clones
      /\ Become(s, GoOn(Tail(shell[s].queue)))
      /\ UNCHANGED <<published, disk, lock>>
  BY DEF FetchFails
<1>2. Tail(shell[s].queue) \in Queues
  <2>1. shell[s].queue \in Queues /\ shell[s].queue # << >>
    BY <1>1 DEF SetsTypes, Shell, Phase
  <2> QED
    BY <2>1, Firsts DEF Queues
<1>3. clones' \in [Dirs -> {<< >>} \cup Commits]
  BY <1>1 DEF SetsTypes
<1> QED
  BY <1>1, <1>2, <1>3, GoOnIsShell, ShellTypes

\* A component is rewritten.
LEMMA RewriteTypes ==
  ASSUME SetsTypes, NEW s \in Shells, NEW c \in Components, NEW new, Rewrite(s, c, new)
  PROVE  /\ DOMAIN disk' = Components /\ disk' = [d \in Components |-> disk'[d]]
         /\ disk'[c] = new /\ \A d \in Components \ {c} : disk'[d] = disk[d]
BY DEF SetsTypes, Rewrite

LEMMA DiskTypes ==
  ASSUME SetsTypes, NEW s \in Shells, NEW r \in Shell, Phase(r), Become(s, r),
         UNCHANGED <<published, lock, clones>>,
         DOMAIN disk' = Components, disk' = [d \in Components |-> disk'[d]]
  PROVE  SetsTypes'
<1>1. shell' \in [Shells -> Shell] /\ \A t \in Shells : Phase(shell'[t])
  BY BecomeTypes
<1> QED
  BY <1>1 DEF SetsTypes

\* A shell in a loop over components takes the next one.
LEMMA NextComponent ==
  ASSUME SetsTypes, NEW s \in Shells, shell[s].todo # << >>, NEW done \in Seq(Components)
  PROVE  /\ Head(shell[s].todo) \in Components
         /\ [shell[s] EXCEPT !.todo = Tail(@)] \in Shell
         /\ [shell[s] EXCEPT !.todo = Tail(@), !.done = done] \in Shell
         /\ shell[s].pc # "forget" =>
              Phase([shell[s] EXCEPT !.todo = Tail(@)]) /\ Phase([shell[s] EXCEPT !.todo = Tail(@), !.done = done])
<1> DEFINE r == [shell[s] EXCEPT !.todo = Tail(@)]
           q == [shell[s] EXCEPT !.todo = Tail(@), !.done = done]
<1>1. shell[s] \in Shell /\ shell[s].todo \in Seq(Components) /\ Phase(shell[s])
  BY DEF SetsTypes, Shell
<1>2. Head(shell[s].todo) \in Components /\ Tail(shell[s].todo) \in Seq(Components)
  BY <1>1, Firsts
<1>3. r \in Shell /\ q \in Shell
  BY <1>1, <1>2 DEF Shell
<1>4. /\ r.pc = shell[s].pc /\ r.queue = shell[s].queue /\ r.seen = shell[s].seen /\ r.name = shell[s].name
      /\ r.manifest = shell[s].manifest /\ r.source = shell[s].source
      /\ q.pc = shell[s].pc /\ q.queue = shell[s].queue /\ q.seen = shell[s].seen /\ q.name = shell[s].name
      /\ q.manifest = shell[s].manifest /\ q.source = shell[s].source
  BY <1>1 DEF Shell
<1> HIDE DEF r, q
<1>5. shell[s].pc # "forget" => Phase(r) /\ Phase(q)
  BY <1>1, <1>4 DEF Phase
<1> QED
  BY <1>2, <1>3, <1>5 DEF r, q

LEMMA InstallTypes ==
  ASSUME SetsTypes, NEW s \in Shells, Install(s)
  PROVE  SetsTypes'
<1> DEFINE c == Head(shell[s].todo)
<1>1. PICK how \in Resolutions(s, c) :
        /\ Rewrite(s, c, Resolved(s, c, how))
        /\ Become(s, [shell[s] EXCEPT !.todo = Tail(@), !.done = IF how = "skip" THEN @ ELSE Append(@, c)])
  BY DEF Install
<1>2. shell[s].pc = "install" /\ shell[s].todo # << >> /\ UNCHANGED <<published, clones, lock>>
  BY DEF Install
<1> DEFINE done == IF how = "skip" THEN shell[s].done ELSE Append(shell[s].done, c)
<1>3. c \in Components /\ shell[s].todo \in Seq(Components) /\ shell[s].done \in Seq(Components)
  BY <1>2, Firsts DEF SetsTypes, Shell
<1>4. done \in Seq(Components)
  <2>1. Append(shell[s].done, c) \in Seq(Components)
    BY <1>3, Lasts
  <2> QED
    BY <1>3, <2>1
<1>5. Become(s, [shell[s] EXCEPT !.todo = Tail(@), !.done = done])
  BY <1>1
<1> HIDE DEF done, c
<1>6. [shell[s] EXCEPT !.todo = Tail(@), !.done = done] \in Shell
      /\ Phase([shell[s] EXCEPT !.todo = Tail(@), !.done = done])
  BY <1>2, <1>4, NextComponent
<1>7. DOMAIN disk' = Components /\ disk' = [d \in Components |-> disk'[d]]
  BY <1>1, <1>3, RewriteTypes
<1> QED
  BY <1>2, <1>5, <1>6, <1>7, DiskTypes

LEMMA InstallFailsTypes ==
  ASSUME SetsTypes, NEW s \in Shells, InstallFails(s)
  PROVE  SetsTypes'
<1> DEFINE c == Head(shell[s].todo)
<1>1. /\ shell[s].pc = "install" /\ shell[s].todo # << >>
      /\ UNCHANGED <<published, clones, lock>>
      /\ \/ Become(s, [shell[s] EXCEPT !.todo = Tail(@)]) /\ UNCHANGED disk
         \/ Become(s, GoOn(shell[s].queue)) /\ (UNCHANGED disk \/ Rewrite(s, c, {}))
  BY DEF InstallFails
<1>2. c \in Components /\ shell[s].queue \in Queues /\ << >> \in Seq(Components)
  BY <1>1, Firsts DEF SetsTypes, Shell
<1> HIDE DEF c
<1>3. CASE Become(s, [shell[s] EXCEPT !.todo = Tail(@)]) /\ UNCHANGED disk
  <2>1. [shell[s] EXCEPT !.todo = Tail(@)] \in Shell /\ Phase([shell[s] EXCEPT !.todo = Tail(@)])
    BY <1>1, <1>2, NextComponent
  <2>2. DOMAIN disk' = Components /\ disk' = [d \in Components |-> disk'[d]]
    BY <1>3 DEF SetsTypes
  <2> QED
    BY <1>1, <1>3, <2>1, <2>2, DiskTypes
<1>4. CASE Become(s, GoOn(shell[s].queue)) /\ (UNCHANGED disk \/ Rewrite(s, c, {}))
  <2>1. DOMAIN disk' = Components /\ disk' = [d \in Components |-> disk'[d]]
    <3>1. CASE UNCHANGED disk
      BY <3>1 DEF SetsTypes
    <3>2. CASE Rewrite(s, c, {})
      BY <1>2, <3>2, RewriteTypes
    <3> QED
      BY <1>4, <3>1, <3>2
  <2> QED
    BY <1>1, <1>2, <1>4, <2>1, GoOnIsShell, DiskTypes
<1> QED
  BY <1>1, <1>3, <1>4

LEMMA UninstallTypes ==
  ASSUME SetsTypes, NEW s \in Shells, Uninstall(s)
  PROVE  SetsTypes'
<1> DEFINE c == Head(shell[s].todo)
<1>1. /\ shell[s].pc = "uninstall" /\ shell[s].todo # << >>
      /\ UNCHANGED <<published, clones, lock>> /\ Become(s, [shell[s] EXCEPT !.todo = Tail(@)])
      /\ UNCHANGED disk \/ Rewrite(s, c, {})
  BY DEF Uninstall
<1>2. c \in Components /\ << >> \in Seq(Components)
  BY <1>1, Firsts DEF SetsTypes, Shell
<1> HIDE DEF c
<1>3. [shell[s] EXCEPT !.todo = Tail(@)] \in Shell /\ Phase([shell[s] EXCEPT !.todo = Tail(@)])
  BY <1>1, <1>2, NextComponent
<1>4. DOMAIN disk' = Components /\ disk' = [d \in Components |-> disk'[d]]
  <2>1. CASE UNCHANGED disk
    BY <2>1 DEF SetsTypes
  <2>2. CASE Rewrite(s, c, {})
    BY <1>2, <2>2, RewriteTypes
  <2> QED
    BY <1>1, <2>1, <2>2
<1> QED
  BY <1>1, <1>3, <1>4, DiskTypes

LEMMA PurgeTypes ==
  ASSUME SetsTypes, NEW s \in Shells, Purge(s)
  PROVE  SetsTypes'
<1> DEFINE r == [shell[s] EXCEPT !.pc = "forget"]
<1>1. /\ shell[s].pc = "uninstall" /\ shell[s].todo = << >> /\ Become(s, r)
      /\ clones' = [clones EXCEPT ![shell[s].name] = << >>]
      /\ UNCHANGED <<published, disk, lock>>
  BY DEF Purge
<1>2. shell[s] \in Shell /\ Phase(shell[s])
  BY DEF SetsTypes
<1>3. r \in Shell /\ r.pc = "forget" /\ r.seen = shell[s].seen /\ r.name = shell[s].name /\ r.todo = shell[s].todo
  BY <1>2 DEF Shell
<1> HIDE DEF r
<1>4. Phase(r)
  BY <1>1, <1>2, <1>3 DEF Phase
<1>5. clones' \in [Dirs -> {<< >>} \cup Commits]
  BY <1>1 DEF SetsTypes
<1> QED
  BY <1>1, <1>3, <1>4, <1>5, ShellTypes

\* What WriteBack leaves of the other shells.
Notice(sh, n, raced) ==
  IF sh.seen = << >> THEN sh ELSE [sh EXCEPT !.stale = @ \cup raced \cup {n}]

LEMMA NoticeTypes ==
  ASSUME NEW sh \in Shell, Phase(sh), NEW n \in SetNames, NEW raced \in SUBSET SetNames
  PROVE  /\ Notice(sh, n, raced) \in Shell /\ Phase(Notice(sh, n, raced))
         /\ Notice(sh, n, raced).pc = sh.pc /\ Notice(sh, n, raced).seen = sh.seen
         /\ Notice(sh, n, raced).name = sh.name /\ Notice(sh, n, raced).manifest = sh.manifest
         /\ Notice(sh, n, raced).todo = sh.todo /\ Notice(sh, n, raced).done = sh.done
         /\ sh.stale \subseteq Notice(sh, n, raced).stale
         /\ sh.seen # << >> => raced \cup {n} \subseteq Notice(sh, n, raced).stale
<1>1. CASE sh.seen = << >>
  BY <1>1 DEF Notice
<1>2. CASE sh.seen # << >>
  <2> DEFINE r == [sh EXCEPT !.stale = @ \cup raced \cup {n}]
  <2>1. /\ r \in Shell /\ r.pc = sh.pc /\ r.seen = sh.seen /\ r.name = sh.name /\ r.manifest = sh.manifest
        /\ r.todo = sh.todo /\ r.done = sh.done /\ r.queue = sh.queue /\ r.source = sh.source
        /\ r.stale = sh.stale \cup raced \cup {n}
    BY DEF Shell
  <2> HIDE DEF r
  <2>2. Phase(r)
    BY <2>1 DEF Phase
  <2>3. Notice(sh, n, raced) = r
    BY <1>2 DEF Notice, r
  <2> QED
    BY <2>1, <2>2, <2>3
<1> QED
  BY <1>1, <1>2

LEMMA WriteBackTypes ==
  ASSUME SetsTypes, NEW s \in Shells, NEW n \in SetNames, NEW entry \in Records, NEW forgotten,
         NEW next \in Shell, Phase(next), WriteBack(s, n, entry, forgotten, next), shell[s].seen \in Locks
  PROVE  /\ SetsTypes'
         /\ lock' = [shell[s].seen EXCEPT ![n] = entry] /\ disk' = disk
         /\ shell'[s] = next
         /\ \A t \in Shells : t # s => shell'[t] = Notice(shell[t], n, shell[s].stale)
<1>1. /\ lock' = [shell[s].seen EXCEPT ![n] = entry]
      /\ shell' = [t \in Shells |-> IF t = s THEN next ELSE Notice(shell[t], n, shell[s].stale)]
      /\ UNCHANGED <<published, clones, disk>>
  BY DEF WriteBack, Notice
<1>2. lock' \in Locks
  BY <1>1 DEF Locks
<1>3. shell[s].stale \in SUBSET SetNames
  BY DEF SetsTypes, Shell
<1>4. \A t \in Shells : Notice(shell[t], n, shell[s].stale) \in Shell /\ Phase(Notice(shell[t], n, shell[s].stale))
  BY <1>3, NoticeTypes DEF SetsTypes
<1>5. shell' \in [Shells -> Shell] /\ \A t \in Shells : Phase(shell'[t])
  BY <1>1, <1>4
<1>6. SetsTypes'
  BY <1>1, <1>2, <1>5 DEF SetsTypes
<1> QED
  BY <1>1, <1>6

LEMMA AbandonTypes ==
  ASSUME SetsTypes, NEW s \in Shells, Abandon(s)
  PROVE  SetsTypes'
<1>1. (Become(s, Idle) \/ Become(s, GoOn(shell[s].queue))) /\ UNCHANGED <<published, clones, disk, lock>>
  BY DEF Abandon
<1>2. shell[s].queue \in Queues
  BY DEF SetsTypes, Shell
<1>3. clones' \in [Dirs -> {<< >>} \cup Commits]
  BY <1>1 DEF SetsTypes
<1>4. CASE Become(s, Idle)
  BY <1>1, <1>3, <1>4, IdleIsShell, ShellTypes
<1>5. CASE Become(s, GoOn(shell[s].queue))
  BY <1>1, <1>2, <1>3, <1>5, GoOnIsShell, ShellTypes
<1> QED
  BY <1>1, <1>4, <1>5

LEMMA PublishTypes ==
  ASSUME SetsTypes, NEW u \in Sources, Publish(u)
  PROVE  SetsTypes'
<1>1. published[u] \in Nat /\ published[u] \in 1..Len(Manifest[u]) /\ Len(Manifest[u]) \in Nat
  BY SetsAssumption DEF SetsTypes
<1>2. published[u] + 1 \in Nat /\ published[u] + 1 \in 1..Len(Manifest[u])
  BY <1>1 DEF Publish
<1> QED
  BY <1>2 DEF SetsTypes, Publish

-----------------------------------------------------------------------------
(* The inductive invariant *)

\* A shell is about to record c as n's.
InHand(n, c) ==
  \E s \in Shells : shell[s].pc = "install" /\ shell[s].name = n /\ c \in Range(shell[s].done)

\* A record that is not as a shell has read it was saved since.
SeenInTime(s) ==
  shell[s].seen # << >> =>
    \A m \in SetNames : lock[m] = shell[s].seen[m] \/ m \in shell[s].stale

\* What a removal has passed is gone, stays on purpose, or is another command's.
RemovalKnown(s) ==
  shell[s].pc \in {"uninstall", "forget"} =>
    \A c \in Range(shell[s].seen[shell[s].name].components) :
      \/ c \in Range(shell[s].todo) \/ c \notin WrittenBy(shell[s].name)
      \/ <<shell[s].name, c>> \in strays \/ InHand(shell[s].name, c)
      \/ shell[s].name \in shell[s].stale

\* What an installation has done is of the version it will record.
InstalledTrue(s) ==
  shell[s].pc = "install" =>
    \A c \in Range(shell[s].done) :
      \/ <<shell[s].name, shell[s].manifest[2]>> \in disk[c]
      \/ <<shell[s].name, c>> \in taken \/ shell[s].name \in shell[s].stale

ShellOK(s) == SeenInTime(s) /\ RemovalKnown(s) /\ InstalledTrue(s)

SetsInv == SetsTypes /\ FilesRecorded /\ RecordsTrue /\ \A s \in Shells : ShellOK(s)

LEMMA SetsInitHolds == SetsInit => SetsInv
<1> SUFFICES ASSUME SetsInit PROVE SetsInv
  OBVIOUS
<1>1. SetsTypes
  BY SetsInitTypes
<1>2. \A n \in SetNames : lock[n].components = << >> /\ Recorded(n) = {}
  BY NoneOfEmpty DEF SetsInit, Absent, Recorded
<1>3. \A n \in SetNames : WrittenBy(n) = {}
  <2> SUFFICES ASSUME NEW n \in SetNames, NEW c \in Components, NEW l \in disk[c], l[1] = n PROVE FALSE
    BY DEF WrittenBy
  <2>1. l = User
    BY DEF SetsInit
  <2> QED
    BY <2>1, SetsAssumption
<1>4. \A s \in Shells : shell[s].seen = << >> /\ shell[s].pc = "idle"
  BY DEF SetsInit, Idle
<1>5. FilesRecorded /\ RecordsTrue
  BY <1>2, <1>3 DEF FilesRecorded, RecordsTrue
<1>6. \A s \in Shells : ShellOK(s)
  BY <1>4 DEF ShellOK, SeenInTime, RemovalKnown, InstalledTrue
<1> QED
  BY <1>1, <1>5, <1>6 DEF SetsInv

LEMMA RecordedAre ==
  ASSUME SetsTypes, NEW n \in SetNames
  PROVE  Recorded(n) \subseteq Components
<1>1. lock[n].components \in Seq(Components)
  <2>1. Absent.components = << >> /\ << >> \in Seq(Components)
    BY DEF Absent
  <2>2. lock[n] \in Records
    BY DEF SetsTypes, Locks
  <2>3. CASE lock[n] = Absent
    BY <2>1, <2>3
  <2>4. CASE lock[n] # Absent
    BY <2>2, <2>4 DEF Records
  <2> QED
    BY <2>3, <2>4
<1> QED
  BY <1>1 DEF Recorded, Range

LEMMA DoneAre ==
  ASSUME SetsTypes, NEW s \in Shells
  PROVE  Range(shell[s].done) \subseteq Components
<1>1. shell[s].done \in Seq(Components)
  BY DEF SetsTypes, Shell
<1> QED
  BY <1>1 DEF Range

\* A step of shell s that leaves the lock file alone and keeps account of what it does.
ShellStep(s) ==
  /\ lock' = lock /\ \A t \in Shells : t # s => shell'[t] = shell[t]
  /\ \A n \in SetNames : \A c \in WrittenBy(n)' :
       \/ c \in WrittenBy(n)
       \/ shell'[s].pc = "install" /\ shell'[s].name = n /\ c \in Range(shell'[s].done)
  /\ strays \subseteq strays' /\ taken \subseteq taken'
  /\ shell[s].pc = "install" =>
       \A c \in Range(shell[s].done) :
         \/ <<shell[s].name, c>> \in strays'
         \/ shell'[s].pc = "install" /\ shell'[s].name = shell[s].name /\ c \in Range(shell'[s].done)
  /\ \A c \in Components : \A l \in disk[c] : l \in disk'[c] \/ <<l[1], c>> \in taken'

LEMMA ShellStepKeeps ==
  ASSUME SetsInv, SetsTypes', NEW s \in Shells, ShellStep(s), ShellOK(s)'
  PROVE  SetsInv'
<1>1. \A n, c : InHand(n, c) => <<n, c>> \in strays' \/ InHand(n, c)'
  <2> SUFFICES ASSUME NEW n, NEW c, NEW t \in Shells,
                      shell[t].pc = "install", shell[t].name = n, c \in Range(shell[t].done)
               PROVE  <<n, c>> \in strays' \/ InHand(n, c)'
    BY DEF InHand
  <2>1. CASE t # s
    BY <2>1 DEF InHand, ShellStep
  <2>2. CASE t = s
    BY <2>2 DEF InHand, ShellStep
  <2> QED
    BY <2>1, <2>2
<1>2. \A n \in SetNames : \A c \in WrittenBy(n)' : c \in WrittenBy(n) \/ InHand(n, c)'
  BY DEF InHand, ShellStep
<1>3. FilesRecorded'
  <2> SUFFICES ASSUME NEW n \in SetNames, NEW c \in WrittenBy(n)', c \notin Recorded(n)', <<n, c>> \notin strays'
               PROVE  InHand(n, c)'
    BY DEF FilesRecorded, InHand
  <2>1. Recorded(n)' = Recorded(n)
    BY DEF Recorded, ShellStep
  <2>2. CASE c \in WrittenBy(n)
    <3>1. <<n, c>> \in strays \/ InHand(n, c)
      BY <2>1, <2>2 DEF SetsInv, FilesRecorded, InHand
    <3> QED
      BY <1>1, <3>1 DEF ShellStep
  <2> QED
    BY <1>2, <2>2
<1>4. \A n, v : \A c \in Components : <<n, v>> \in disk[c] => <<n, v>> \in disk'[c] \/ <<n, c>> \in taken'
  <2> TAKE n, v
  <2> TAKE c \in Components
  <2>1. <<n, v>>[1] = n
    OBVIOUS
  <2> QED
    BY <2>1 DEF ShellStep
<1>5. RecordsTrue'
  <2> SUFFICES ASSUME NEW n \in SetNames, NEW c \in Recorded(n)'
               PROVE  <<n, lock'[n].version>> \in disk'[c] \/ <<n, c>> \in taken'
    BY DEF RecordsTrue
  <2>1. lock' = lock /\ taken \subseteq taken'
    BY DEF ShellStep
  <2>2. c \in Recorded(n) /\ c \in Components
    BY <2>1, RecordedAre DEF SetsInv, Recorded
  <2>3. <<n, lock[n].version>> \in disk[c] \/ <<n, c>> \in taken
    BY <2>2 DEF SetsInv, RecordsTrue
  <2> QED
    BY <1>4, <2>1, <2>2, <2>3
<1>6. ASSUME NEW t \in Shells PROVE ShellOK(t)'
  <2>1. CASE t = s
    BY <2>1
  <2>2. CASE t # s
    <3>1. shell'[t] = shell[t] /\ lock' = lock /\ taken \subseteq taken' /\ strays \subseteq strays'
      BY <2>2 DEF ShellStep
    <3>2. ShellOK(t)
      BY DEF SetsInv
    <3>3. SeenInTime(t)'
      BY <3>1, <3>2 DEF ShellOK, SeenInTime
    <3>4. RemovalKnown(t)'
      <4> SUFFICES ASSUME shell[t].pc \in {"uninstall", "forget"}, NEW n, n = shell[t].name,
                          NEW c \in Range(shell[t].seen[n].components),
                          c \notin Range(shell[t].todo), c \in WrittenBy(n)',
                          <<n, c>> \notin strays', n \notin shell[t].stale
                   PROVE  InHand(n, c)'
        BY <3>1 DEF RemovalKnown, WrittenBy
      <4>1. n \in SetNames
        BY DEF SetsInv, SetsTypes, Phase
      <4>2. CASE c \in WrittenBy(n)
        <5>1. <<n, c>> \in strays \/ InHand(n, c)
          BY <3>2, <4>2 DEF ShellOK, RemovalKnown
        <5> QED
          BY <1>1, <3>1, <5>1
      <4> QED
        BY <1>2, <4>1, <4>2
    <3>5. InstalledTrue(t)'
      <4> DEFINE n == shell[t].name
      <4> SUFFICES ASSUME shell[t].pc = "install", NEW c \in Range(shell[t].done), n \notin shell[t].stale
                   PROVE  <<n, shell[t].manifest[2]>> \in disk'[c] \/ <<n, c>> \in taken'
        BY <3>1 DEF InstalledTrue
      <4>1. c \in Components
        BY DoneAre DEF SetsInv
      <4>2. <<n, shell[t].manifest[2]>> \in disk[c] \/ <<n, c>> \in taken
        BY <3>2 DEF ShellOK, InstalledTrue
      <4> QED
        BY <1>4, <3>1, <4>1, <4>2
    <3> QED
      BY <3>3, <3>4, <3>5 DEF ShellOK
  <2> QED
    BY <2>1, <2>2
<1> QED
  BY <1>3, <1>5, <1>6 DEF SetsInv

\* A shell that starts a command or its next part has done nothing of it yet.
LEMMA FreshShell ==
  ASSUME SetsInv, SetsTypes', NEW s \in Shells, NEW r, shell'[s] = r, lock' = lock,
         r.seen = << >> \/ r.seen = lock, r.pc # "forget",
         r.pc = "install" => r.done = << >>,
         r.pc = "uninstall" => r.todo = r.seen[r.name].components
  PROVE  ShellOK(s)'
<1>1. SeenInTime(s)'
  BY DEF SeenInTime
<1>2. RemovalKnown(s)'
  BY DEF RemovalKnown
<1>3. InstalledTrue(s)'
  BY NoneOfEmpty DEF InstalledTrue
<1> QED
  BY <1>1, <1>2, <1>3 DEF ShellOK

\* Steps that write nothing and end no installation.
LEMMA QuietStep ==
  ASSUME SetsInv, NEW s \in Shells, NEW r \in Shell, Phase(r), Become(s, r), shell[s].pc # "install",
         UNCHANGED <<disk, lock, strays, taken>>
  PROVE  ShellStep(s) /\ shell'[s] = r
<1>1. shell'[s] = r /\ \A t \in Shells : t # s => shell'[t] = shell[t]
  BY BecomeTypes DEF SetsInv
<1>2. \A n \in SetNames : \A c \in WrittenBy(n)' : c \in WrittenBy(n)
  BY DEF WrittenBy
<1> QED
  BY <1>1, <1>2 DEF ShellStep

LEMMA GoOnIs ==
  ASSUME NEW q
  PROVE  GoOn(q).pc \in {"idle", "fetch"} /\ GoOn(q).seen = << >>
<1>1. CASE q = << >>
  BY <1>1 DEF GoOn, Idle
<1>2. CASE q # << >>
  BY <1>2 DEF GoOn, Idle
<1> QED
  BY <1>1, <1>2

\* Steps to the next source, or to the prompt, that write nothing.
LEMMA GoOnKeeps ==
  ASSUME SetsInv, SetsTypes', NEW s \in Shells, NEW q \in Queues, Become(s, GoOn(q)),
         shell[s].pc # "install", UNCHANGED <<disk, lock, strays, taken>>
  PROVE  SetsInv'
<1>1. GoOn(q) \in Shell /\ Phase(GoOn(q))
  BY GoOnIsShell
<1>2. ShellStep(s) /\ shell'[s] = GoOn(q)
  BY <1>1, QuietStep
<1>3. GoOn(q).pc \in {"idle", "fetch"} /\ GoOn(q).seen = << >>
  BY GoOnIs
<1>4. ShellOK(s)'
  BY <1>2, <1>3, FreshShell
<1> QED
  BY <1>2, <1>4, ShellStepKeeps

LEMMA AddKeeps ==
  ASSUME SetsInv, NEW s \in Shells, NEW u \in Sources, NEW ref \in {Latest} \cup Versions(u), AddSet(s, u, ref)
  PROVE  SetsInv'
<1>1. SetsTypes'
  BY AddTypes DEF SetsInv
<1>2. << <<u, ref>> >> \in Queues
  <2>1. ref \in Nat
    BY SetsAssumption DEF Latest
  <2> QED
    BY <2>1 DEF Queues
<1>3. Become(s, GoOn(<< <<u, ref>> >>)) /\ shell[s].pc # "install" /\ UNCHANGED <<disk, lock, strays, taken>>
  BY DEF AddSet, Type
<1> QED
  BY <1>1, <1>2, <1>3, GoOnKeeps

LEMMA UpdateKeeps ==
  ASSUME SetsInv, NEW s \in Shells, NEW N \in SUBSET SetNames, UpdateSet(s, N)
  PROVE  SetsInv'
<1>1. SetsTypes'
  BY UpdateTypes DEF SetsInv
<1>2. PICK queue : Become(s, GoOn(queue))
  BY DEF UpdateSet
<1>3. shell[s].pc # "install" /\ UNCHANGED <<disk, lock, strays, taken>>
  BY DEF UpdateSet, Type
<1>4. GoOn(queue) = shell'[s]
  BY <1>2 DEF Become, SetsInv, SetsTypes
<1>5. GoOn(queue) \in Shell /\ Phase(GoOn(queue))
  BY <1>1, <1>4 DEF SetsTypes
<1>6. ShellStep(s) /\ shell'[s] = GoOn(queue)
  BY <1>2, <1>3, <1>5, QuietStep
<1>7. GoOn(queue).pc \in {"idle", "fetch"} /\ GoOn(queue).seen = << >>
  BY GoOnIs
<1>8. ShellOK(s)'
  BY <1>1, <1>3, <1>6, <1>7, FreshShell
<1> QED
  BY <1>1, <1>6, <1>8, ShellStepKeeps

LEMMA RemoveKeeps ==
  ASSUME SetsInv, NEW s \in Shells, NEW n \in SetNames, RemoveSet(s, n)
  PROVE  SetsInv'
<1> DEFINE r == [Idle EXCEPT !.pc = "uninstall", !.seen = lock, !.name = n, !.todo = lock[n].components]
<1>1. SetsTypes'
  BY RemoveTypes DEF SetsInv
<1>2. Become(s, r) /\ shell[s].pc # "install" /\ UNCHANGED <<disk, lock, strays, taken>>
  BY DEF RemoveSet, Type
<1>3. r.pc = "uninstall" /\ r.seen = lock /\ r.name = n /\ r.todo = lock[n].components
  BY DEF Idle
<1> HIDE DEF r
<1>4. r = shell'[s]
  BY <1>2 DEF Become, SetsInv, SetsTypes
<1>5. r \in Shell /\ Phase(r)
  BY <1>1, <1>4 DEF SetsTypes
<1>6. ShellStep(s)
  BY <1>2, <1>5, QuietStep
<1>7. ShellOK(s)'
  BY <1>1, <1>2, <1>3, <1>4, FreshShell
<1> QED
  BY <1>1, <1>6, <1>7, ShellStepKeeps

LEMMA FetchKeeps ==
  ASSUME SetsInv, NEW s \in Shells, Fetch(s)
  PROVE  SetsInv'
<1>1. SetsTypes'
  BY FetchTypes DEF SetsInv
<1>2. PICK r : /\ Become(s, r)
               /\ r.seen = << >> \/ r.seen = lock
               /\ r.pc \in {"idle", "fetch", "install"}
               /\ r.pc = "install" => r.done = << >>
  <2> DEFINE u == Head(shell[s].queue)[1]
             ref == Head(shell[s].queue)[2]
             rest == Tail(shell[s].queue)
             v == IF ref = Latest \/ u \in Local THEN published[Origin(u)] ELSE ref
             man == ManifestAt(<<Origin(u), v>>)
             r == [Idle EXCEPT !.pc = "install", !.queue = rest, !.seen = lock, !.name = man.name,
                     !.manifest = <<Origin(u), v>>, !.source = u, !.pinned = (ref # Latest), !.todo = man.components]
  <2>1. Become(s, GoOn(rest)) \/ Become(s, r)
    BY DEF Fetch
  <2>2. GoOn(rest).pc \in {"idle", "fetch"} /\ GoOn(rest).seen = << >>
    BY GoOnIs
  <2>3. r.pc = "install" /\ r.seen = lock /\ r.done = << >>
    BY DEF Idle
  <2> HIDE DEF rest, r
  <2> QED
    BY <2>1, <2>2, <2>3
<1>3. shell[s].pc # "install" /\ UNCHANGED <<disk, lock, strays, taken>>
  BY DEF Fetch
<1>4. r = shell'[s]
  BY <1>2 DEF Become, SetsInv, SetsTypes
<1>5. r \in Shell /\ Phase(r)
  BY <1>1, <1>4 DEF SetsTypes
<1>6. ShellStep(s)
  BY <1>2, <1>3, <1>5, QuietStep
<1>7. ShellOK(s)'
  BY <1>1, <1>2, <1>3, <1>4, FreshShell
<1> QED
  BY <1>1, <1>6, <1>7, ShellStepKeeps

LEMMA FetchFailsKeeps ==
  ASSUME SetsInv, NEW s \in Shells, FetchFails(s)
  PROVE  SetsInv'
<1>1. SetsTypes'
  BY FetchFailsTypes DEF SetsInv
<1>2. /\ shell[s].pc = "fetch" /\ Become(s, GoOn(Tail(shell[s].queue)))
      /\ UNCHANGED <<disk, lock, strays, taken>>
  BY DEF FetchFails
<1>3. Tail(shell[s].queue) \in Queues
  <2>1. shell[s].queue \in Queues /\ shell[s].queue # << >>
    BY <1>2 DEF SetsInv, SetsTypes, Shell, Phase
  <2> QED
    BY <2>1, Firsts DEF Queues
<1> QED
  BY <1>1, <1>2, <1>3, GoOnKeeps

LEMMA PurgeKeeps ==
  ASSUME SetsInv, NEW s \in Shells, Purge(s)
  PROVE  SetsInv'
<1> DEFINE r == [shell[s] EXCEPT !.pc = "forget"]
<1>1. SetsTypes'
  BY PurgeTypes DEF SetsInv
<1>2. /\ shell[s].pc = "uninstall" /\ shell[s].todo = << >> /\ Become(s, r)
      /\ UNCHANGED <<disk, lock, strays, taken>>
  BY DEF Purge
<1>3. /\ r.pc = "forget" /\ r.seen = shell[s].seen /\ r.name = shell[s].name
      /\ r.todo = shell[s].todo /\ r.stale = shell[s].stale
  BY DEF SetsInv, SetsTypes, Shell
<1> HIDE DEF r
<1>4. r = shell'[s]
  BY <1>2 DEF Become, SetsInv, SetsTypes
<1>5. r \in Shell /\ Phase(r)
  BY <1>1, <1>4 DEF SetsTypes
<1>6. ShellStep(s)
  BY <1>2, <1>5, QuietStep
<1>7. ShellOK(s)
  BY DEF SetsInv
<1>8. SeenInTime(s)'
  BY <1>2, <1>3, <1>4, <1>7 DEF ShellOK, SeenInTime
<1>9. RemovalKnown(s)'
  <2> SUFFICES ASSUME NEW n, n = shell[s].name, NEW c \in Range(shell[s].seen[n].components),
                      c \notin Range(shell[s].todo), c \in WrittenBy(n)',
                      <<n, c>> \notin strays', n \notin shell[s].stale
               PROVE  InHand(n, c)'
    BY <1>3, <1>4 DEF RemovalKnown, WrittenBy
  <2>1. c \in WrittenBy(n) /\ <<n, c>> \notin strays
    BY <1>2 DEF WrittenBy
  <2>2. InHand(n, c)
    BY <1>2, <1>7, <2>1 DEF ShellOK, RemovalKnown
  <2> QED
    BY <1>2, <1>6, <2>2 DEF InHand, ShellStep
<1>10. InstalledTrue(s)'
  BY <1>3, <1>4 DEF InstalledTrue
<1>11. ShellOK(s)'
  BY <1>8, <1>9, <1>10 DEF ShellOK
<1> QED
  BY <1>1, <1>6, <1>11, ShellStepKeeps

LEMMA PublishKeeps ==
  ASSUME SetsInv, NEW u \in Sources, Publish(u)
  PROVE  SetsInv'
<1>1. SetsTypes'
  BY PublishTypes DEF SetsInv
<1>2. UNCHANGED <<disk, lock, shell, strays, taken>>
  BY DEF Publish
<1>3. FilesRecorded'
  BY <1>2 DEF SetsInv, FilesRecorded, WrittenBy, Recorded
<1>4. RecordsTrue'
  BY <1>2 DEF SetsInv, RecordsTrue, Recorded
<1>5. \A s \in Shells : ShellOK(s)'
  BY <1>2 DEF SetsInv, ShellOK, SeenInTime, RemovalKnown, InstalledTrue, InHand, WrittenBy
<1> QED
  BY <1>1, <1>3, <1>4, <1>5 DEF SetsInv

\* What rewriting a component changes.
Account(s, c, new) ==
  /\ taken \subseteq taken'
  /\ \A d \in Components : \A l \in disk[d] : l \in disk'[d] \/ <<l[1], d>> \in taken'
  /\ \A n : \A d \in WrittenBy(n)' : d \in WrittenBy(n) \/ (d = c /\ \E l \in new : l[1] = n)
  /\ \A l \in new : l[1] = shell[s].name => l[2] = shell[s].manifest[2] \/ <<shell[s].name, c>> \in taken'

LEMMA RewriteAccounts ==
  ASSUME SetsTypes, NEW s \in Shells, NEW c \in Components, NEW new, Rewrite(s, c, new)
  PROVE  Account(s, c, new)
<1>1. disk'[c] = new /\ \A d \in Components \ {c} : disk'[d] = disk[d]
  BY RewriteTypes
<1>2. taken' = taken \cup {<<l[1], c>> : l \in disk[c] \ new}
                     \cup {<<l[1], c>> : l \in {l \in new : l[1] = shell[s].name /\ l[2] # shell[s].manifest[2]}}
  BY DEF Rewrite
<1>3. taken \subseteq taken'
  BY <1>2
<1>4. ASSUME NEW d \in Components, NEW l \in disk[d], l \notin disk'[d] PROVE <<l[1], d>> \in taken'
  <2>1. d = c /\ l \in disk[c] \ new
    BY <1>1, <1>4
  <2> QED
    BY <1>2, <2>1
<1>5. ASSUME NEW n, NEW d \in WrittenBy(n)' PROVE d \in WrittenBy(n) \/ (d = c /\ \E l \in new : l[1] = n)
  BY <1>1 DEF WrittenBy
<1>6. ASSUME NEW l \in new, l[1] = shell[s].name, l[2] # shell[s].manifest[2]
      PROVE  <<shell[s].name, c>> \in taken'
  BY <1>2, <1>6
<1> QED
  BY <1>3, <1>4, <1>5, <1>6 DEF Account

LEMMA InstallKeeps ==
  ASSUME SetsInv, NEW s \in Shells, Install(s)
  PROVE  SetsInv'
<1> DEFINE c == Head(shell[s].todo)
           name == shell[s].name
<1>1. SetsTypes' /\ SetsTypes /\ ShellOK(s)
  BY InstallTypes DEF SetsInv
<1>2. PICK how \in Resolutions(s, c) :
        /\ Rewrite(s, c, Resolved(s, c, how))
        /\ Become(s, [shell[s] EXCEPT !.todo = Tail(@), !.done = IF how = "skip" THEN @ ELSE Append(@, c)])
  BY DEF Install
<1>3. shell[s].pc = "install" /\ shell[s].todo # << >> /\ UNCHANGED <<lock, strays>>
  BY DEF Install
<1>4. how \in {"replace", "merge", "skip"}
  BY DEF Resolutions, ServerResolutions
<1>5. c \in Components /\ shell[s].done \in Seq(Components)
  BY <1>1, <1>3, Firsts DEF SetsTypes, Shell
<1> DEFINE new == Resolved(s, c, how)
           done == IF how = "skip" THEN shell[s].done ELSE Append(shell[s].done, c)
           r == [shell[s] EXCEPT !.todo = Tail(@), !.done = done]
<1>6. /\ r.pc = "install" /\ r.name = name /\ r.done = done /\ r.seen = shell[s].seen
      /\ r.stale = shell[s].stale /\ r.manifest = shell[s].manifest
  BY <1>1, <1>3 DEF SetsTypes, Shell
<1>7. shell'[s] = r /\ \A t \in Shells : t # s => shell'[t] = shell[t]
  BY <1>1, <1>2 DEF Become, SetsTypes
<1>8. Range(done) = IF how = "skip" THEN Range(shell[s].done) ELSE Range(shell[s].done) \cup {c}
  <2>1. Range(Append(shell[s].done, c)) = Range(shell[s].done) \cup {c}
    BY <1>5, Lasts
  <2> HIDE DEF c
  <2>2. CASE how = "skip"
    BY <2>2
  <2>3. CASE how # "skip"
    BY <2>1, <2>3
  <2> QED
    BY <2>2, <2>3
<1>9. Layer(s, c)[1] = name
  BY DEF Layer
<1>10. new = IF how = "skip" THEN disk[c] ELSE IF how = "merge" THEN disk[c] \cup {Layer(s, c)} ELSE {Layer(s, c)}
  BY <1>4 DEF Resolved
<1> HIDE DEF c, new, done, r
<1>11. /\ taken \subseteq taken'
       /\ \A d \in Components : \A l \in disk[d] : l \in disk'[d] \/ <<l[1], d>> \in taken'
       /\ \A n : \A d \in WrittenBy(n)' : d \in WrittenBy(n) \/ (d = c /\ \E l \in new : l[1] = n)
       /\ \A l \in new : l[1] = name => l[2] = shell[s].manifest[2] \/ <<name, c>> \in taken'
       /\ disk'[c] = new
  <2>1. Account(s, c, new)
    BY <1>1, <1>2, <1>5, RewriteAccounts DEF new
  <2>2. disk'[c] = new
    BY <1>1, <1>2, <1>5, RewriteTypes DEF new
  <2> QED
    BY <2>1, <2>2 DEF Account
<1>12. ASSUME NEW n \in SetNames, NEW d \in WrittenBy(n)', d \notin WrittenBy(n)
       PROVE  shell'[s].pc = "install" /\ shell'[s].name = n /\ d \in Range(shell'[s].done)
  <2>1. PICK l \in new : d = c /\ l[1] = n
    BY <1>11, <1>12
  <2>2. l \notin disk[c]
    BY <1>5, <1>12, <2>1 DEF WrittenBy
  <2>3. how # "skip" /\ l = Layer(s, c)
    BY <1>10, <2>1, <2>2
  <2> QED
    BY <1>6, <1>7, <1>8, <1>9, <2>1, <2>3
<1>13. ShellStep(s)
  <2>1. \A d \in Range(shell[s].done) : d \in Range(done)
    BY <1>8
  <2> QED
    BY <1>3, <1>6, <1>7, <1>11, <1>12, <2>1 DEF ShellStep
<1>14. SeenInTime(s)'
  BY <1>1, <1>3, <1>6, <1>7 DEF ShellOK, SeenInTime
<1>15. RemovalKnown(s)'
  BY <1>6, <1>7 DEF RemovalKnown
<1>16. InstalledTrue(s)'
  <2> SUFFICES ASSUME NEW d \in Range(done), name \notin shell[s].stale
               PROVE  <<name, shell[s].manifest[2]>> \in disk'[d] \/ <<name, d>> \in taken'
    BY <1>6, <1>7 DEF InstalledTrue
  <2>1. CASE d \in Range(shell[s].done)
    <3>1. <<name, shell[s].manifest[2]>> \in disk[d] \/ <<name, d>> \in taken
      BY <1>1, <1>3, <2>1 DEF ShellOK, InstalledTrue
    <3>2. d \in Components
      BY <1>1, <2>1, DoneAre
    <3>3. <<name, shell[s].manifest[2]>>[1] = name
      OBVIOUS
    <3> QED
      BY <1>11, <3>1, <3>2, <3>3
  <2>2. CASE d \notin Range(shell[s].done)
    <3>1. how # "skip" /\ d = c
      BY <1>8, <2>2
    <3>2. Layer(s, c) \in new
      BY <1>10, <3>1
    <3>3. Layer(s, c)[2] = shell[s].manifest[2] \/ <<name, c>> \in taken'
      BY <1>9, <1>11, <3>2
    <3>4. Layer(s, c) = <<name, Layer(s, c)[2]>>
      BY DEF Layer
    <3> QED
      BY <1>11, <3>1, <3>2, <3>3, <3>4
  <2> QED
    BY <2>1, <2>2
<1> QED
  BY <1>1, <1>13, <1>14, <1>15, <1>16, ShellStepKeeps DEF ShellOK

LEMMA InstallFailsKeeps ==
  ASSUME SetsInv, NEW s \in Shells, InstallFails(s)
  PROVE  SetsInv'
<1> DEFINE c == Head(shell[s].todo)
           name == shell[s].name
<1>1. SetsTypes' /\ SetsTypes /\ ShellOK(s)
  BY InstallFailsTypes DEF SetsInv
<1>2. shell[s].pc = "install" /\ shell[s].todo # << >> /\ lock' = lock
  BY DEF InstallFails
<1>3. \/ Become(s, [shell[s] EXCEPT !.todo = Tail(@)]) /\ UNCHANGED <<disk, strays, taken>>
      \/ /\ Become(s, GoOn(shell[s].queue))
         /\ UNCHANGED <<disk, taken>> \/ Rewrite(s, c, {})
         /\ strays' = strays \cup Pairs(name, Range(shell[s].done))
  BY DEF InstallFails
<1>4. c \in Components
  BY <1>1, <1>2, Firsts DEF SetsTypes, Shell
<1> HIDE DEF c
<1>5. CASE Become(s, [shell[s] EXCEPT !.todo = Tail(@)]) /\ UNCHANGED <<disk, strays, taken>>
  <2> DEFINE r == [shell[s] EXCEPT !.todo = Tail(@)]
  <2>1. /\ r.pc = "install" /\ r.name = name /\ r.done = shell[s].done /\ r.seen = shell[s].seen
        /\ r.stale = shell[s].stale /\ r.manifest = shell[s].manifest
    BY <1>1, <1>2 DEF SetsTypes, Shell
  <2>2. shell'[s] = r /\ \A t \in Shells : t # s => shell'[t] = shell[t]
    BY <1>1, <1>5 DEF Become, SetsTypes
  <2> HIDE DEF r
  <2>3. ShellStep(s)
    BY <1>2, <1>5, <2>1, <2>2 DEF ShellStep, WrittenBy
  <2>4. ShellOK(s)'
    BY <1>1, <1>2, <1>5, <2>1, <2>2 DEF ShellOK, SeenInTime, RemovalKnown, InstalledTrue
  <2> QED
    BY <1>1, <2>3, <2>4, ShellStepKeeps
<1>6. CASE /\ Become(s, GoOn(shell[s].queue))
           /\ UNCHANGED <<disk, taken>> \/ Rewrite(s, c, {})
           /\ strays' = strays \cup Pairs(name, Range(shell[s].done))
  <2>1. shell'[s] = GoOn(shell[s].queue) /\ \A t \in Shells : t # s => shell'[t] = shell[t]
    BY <1>1, <1>6 DEF Become, SetsTypes
  <2>2. GoOn(shell[s].queue).pc \in {"idle", "fetch"} /\ GoOn(shell[s].queue).seen = << >>
    BY GoOnIs
  <2>3. /\ taken \subseteq taken'
        /\ \A d \in Components : \A l \in disk[d] : l \in disk'[d] \/ <<l[1], d>> \in taken'
        /\ \A n : \A d \in WrittenBy(n)' : d \in WrittenBy(n)
    <3>1. CASE UNCHANGED <<disk, taken>>
      BY <3>1 DEF WrittenBy
    <3>2. CASE Rewrite(s, c, {})
      <4>1. Account(s, c, {})
        BY <1>1, <1>4, <3>2, RewriteAccounts
      <4> QED
        BY <4>1 DEF Account
    <3> QED
      BY <1>6, <3>1, <3>2
  <2>4. \A d \in Range(shell[s].done) : <<name, d>> \in strays'
    BY <1>6 DEF Pairs
  <2>5. ShellStep(s)
    BY <1>2, <1>6, <2>1, <2>3, <2>4 DEF ShellStep
  <2>6. ShellOK(s)'
    BY <1>1, <1>2, <2>1, <2>2, FreshShell
  <2> QED
    BY <1>1, <2>5, <2>6, ShellStepKeeps
<1> QED
  BY <1>3, <1>5, <1>6

LEMMA UninstallKeeps ==
  ASSUME SetsInv, NEW s \in Shells, Uninstall(s)
  PROVE  SetsInv'
<1> DEFINE c == Head(shell[s].todo)
           name == shell[s].name
           r == [shell[s] EXCEPT !.todo = Tail(@)]
<1>1. SetsTypes' /\ SetsTypes /\ ShellOK(s)
  BY UninstallTypes DEF SetsInv
<1>2. /\ shell[s].pc = "uninstall" /\ shell[s].todo # << >> /\ lock' = lock /\ Become(s, r)
      /\ \/ Rewrite(s, c, {}) /\ UNCHANGED strays
         \/ strays' = strays \cup {<<name, c>>} /\ UNCHANGED <<disk, taken>>
  BY DEF Uninstall
<1>3. c \in Components /\ \A x \in Range(shell[s].todo) : x = c \/ x \in Range(Tail(shell[s].todo))
  BY <1>1, <1>2, Firsts DEF SetsTypes, Shell
<1>4. /\ r.pc = "uninstall" /\ r.name = name /\ r.todo = Tail(shell[s].todo) /\ r.seen = shell[s].seen
      /\ r.stale = shell[s].stale
  BY <1>1, <1>2 DEF SetsTypes, Shell
<1>5. shell'[s] = r /\ \A t \in Shells : t # s => shell'[t] = shell[t]
  BY <1>1, <1>2 DEF Become, SetsTypes
<1> HIDE DEF c, r
<1>6. /\ taken \subseteq taken' /\ strays \subseteq strays'
      /\ \A d \in Components : \A l \in disk[d] : l \in disk'[d] \/ <<l[1], d>> \in taken'
      /\ \A n : \A d \in WrittenBy(n)' : d \in WrittenBy(n)
      /\ \A n : c \in WrittenBy(n)' => <<name, c>> \in strays'
  <2>1. CASE Rewrite(s, c, {}) /\ UNCHANGED strays
    <3>1. disk'[c] = {}
      BY <1>1, <1>3, <2>1, RewriteTypes
    <3>2. /\ taken \subseteq taken'
          /\ \A d \in Components : \A l \in disk[d] : l \in disk'[d] \/ <<l[1], d>> \in taken'
          /\ \A n : \A d \in WrittenBy(n)' : d \in WrittenBy(n)
      <4>1. Account(s, c, {})
        BY <1>1, <1>3, <2>1, RewriteAccounts
      <4> QED
        BY <4>1 DEF Account
    <3>3. \A n : c \notin WrittenBy(n)'
      BY <3>1 DEF WrittenBy
    <3> QED
      BY <2>1, <3>2, <3>3
  <2>2. CASE strays' = strays \cup {<<name, c>>} /\ UNCHANGED <<disk, taken>>
    BY <2>2 DEF WrittenBy
  <2> QED
    BY <1>2, <2>1, <2>2
<1>7. ShellStep(s)
  BY <1>2, <1>5, <1>6 DEF ShellStep
<1>8. SeenInTime(s)'
  BY <1>1, <1>2, <1>4, <1>5 DEF ShellOK, SeenInTime
<1>9. RemovalKnown(s)'
  <2> SUFFICES ASSUME NEW n, n = name, NEW d \in Range(shell[s].seen[n].components),
                      d \notin Range(Tail(shell[s].todo)), d \in WrittenBy(n)',
                      <<n, d>> \notin strays', n \notin shell[s].stale
               PROVE  InHand(n, d)'
    BY <1>4, <1>5 DEF RemovalKnown, WrittenBy
  <2>1. d # c /\ d \in WrittenBy(n) /\ <<n, d>> \notin strays
    BY <1>6
  <2>2. d \notin Range(shell[s].todo)
    BY <1>3, <2>1
  <2>3. InHand(n, d)
    BY <1>1, <1>2, <2>1, <2>2 DEF ShellOK, RemovalKnown
  <2> QED
    BY <1>2, <1>5, <2>3 DEF InHand
<1>10. InstalledTrue(s)'
  BY <1>4, <1>5 DEF InstalledTrue
<1> QED
  BY <1>1, <1>7, <1>8, <1>9, <1>10, ShellStepKeeps DEF ShellOK

LEMMA AbandonKeeps ==
  ASSUME SetsInv, NEW s \in Shells, Abandon(s)
  PROVE  SetsInv'
<1>1. SetsTypes' /\ SetsTypes
  BY AbandonTypes DEF SetsInv
<1>2. /\ Become(s, Idle) \/ Become(s, GoOn(shell[s].queue))
      /\ strays' = strays \cup Pairs(shell[s].name, Range(shell[s].done))
      /\ UNCHANGED <<disk, lock, taken>>
  BY DEF Abandon
<1>3. /\ shell'[s] = Idle \/ shell'[s] = GoOn(shell[s].queue)
      /\ \A t \in Shells : t # s => shell'[t] = shell[t]
  BY <1>1, <1>2 DEF Become, SetsTypes
<1>4. shell'[s].pc \in {"idle", "fetch"} /\ shell'[s].seen = << >>
  BY <1>3, GoOnIs DEF Idle
<1>5. \A d \in Range(shell[s].done) : <<shell[s].name, d>> \in strays'
  BY <1>2 DEF Pairs
<1>6. ShellStep(s)
  BY <1>2, <1>3, <1>5 DEF ShellStep, WrittenBy
<1>7. ShellOK(s)'
  BY <1>1, <1>2, <1>4, FreshShell
<1> QED
  BY <1>1, <1>6, <1>7, ShellStepKeeps

\* The lock file is written back: what the saved record, and the ones others saved since it
\* was loaded, no longer name is known.
LEMMA WriteBackKeeps ==
  ASSUME SetsInv, NEW s \in Shells, shell[s].seen \in Locks,
         NEW n \in SetNames, NEW entry \in Records, NEW forgotten, NEW next \in Shell, Phase(next),
         next.pc \in {"idle", "fetch"}, next.seen = << >>,
         shell[s].name = n, shell[s].pc \in {"install", "forget"},
         WriteBack(s, n, entry, forgotten, next),
         shell[s].pc = "install" => Range(shell[s].done) \subseteq Range(entry.components),
         \A c \in Recorded(n) : c \in WrittenBy(n) =>
            c \in Range(entry.components) \/ <<n, c>> \in strays' \/ InHand(n, c),
         \A c \in Range(entry.components) :
            <<n, entry.version>> \in disk[c] \/ <<n, c>> \in taken \/ n \in shell[s].stale
  PROVE  SetsInv'
<1> DEFINE raced == shell[s].stale
           new == [shell[s].seen EXCEPT ![n] = entry]
<1>1. /\ SetsTypes' /\ lock' = new /\ disk' = disk /\ shell'[s] = next
      /\ \A t \in Shells : t # s => shell'[t] = Notice(shell[t], n, raced)
  BY WriteBackTypes DEF SetsInv
<1>2. /\ SetsTypes /\ raced \in SUBSET SetNames /\ shell[s].seen # << >>
  <2>1. DOMAIN shell[s].seen = SetNames /\ DOMAIN << >> = {}
    BY DEF Locks
  <2> QED
    BY <2>1 DEF SetsInv, SetsTypes, Shell
<1>3. strays' = (strays \cup Pairs(n, forgotten) \cup UNION {Pairs(m, Recorded(m)) : m \in raced})
                    \ Pairs(n, Range(entry.components))
  BY DEF WriteBack
<1>4. taken' = (taken \cup UNION {Pairs(m, Range(new[m].components)) : m \in raced})
                   \ Pairs(n, {c \in Range(entry.components) : <<n, entry.version>> \in disk[c]})
  BY DEF WriteBack
<1>5. new[n] = entry /\ \A m \in SetNames \ {n} : new[m] = shell[s].seen[m]
  BY DEF Locks
<1>6. \A m \in SetNames : m \in raced \/ lock[m] = shell[s].seen[m]
  BY <1>2 DEF SetsInv, ShellOK, SeenInTime
<1> HIDE DEF raced, new
<1>7. \A t \in Shells : t # s =>
        /\ shell'[t].pc = shell[t].pc /\ shell'[t].seen = shell[t].seen /\ shell'[t].name = shell[t].name
        /\ shell'[t].manifest = shell[t].manifest /\ shell'[t].todo = shell[t].todo
        /\ shell'[t].done = shell[t].done /\ shell[t].stale \subseteq shell'[t].stale
        /\ shell[t].seen # << >> => raced \cup {n} \subseteq shell'[t].stale
  BY <1>1, <1>2, NoticeTypes DEF SetsTypes
<1>8. \A m, c : m \in raced /\ c \in Recorded(m) /\ ~(m = n /\ c \in Range(entry.components)) => <<m, c>> \in strays'
  BY <1>3 DEF Pairs
<1>9. \A m, c : <<m, c>> \in strays /\ ~(m = n /\ c \in Range(entry.components)) => <<m, c>> \in strays'
  BY <1>3 DEF Pairs
<1>10. \A m, c : InHand(m, c) => InHand(m, c)' \/ (m = n /\ c \in Range(entry.components))
  <2> SUFFICES ASSUME NEW m, NEW c, NEW t \in Shells,
                      shell[t].pc = "install", shell[t].name = m, c \in Range(shell[t].done)
               PROVE  InHand(m, c)' \/ (m = n /\ c \in Range(entry.components))
    BY DEF InHand
  <2>1. CASE t # s
    BY <1>7, <2>1 DEF InHand
  <2>2. CASE t = s
    BY <2>2
  <2> QED
    BY <2>1, <2>2
<1>11. \A m, c : <<m, c>> \in taken => <<m, c>> \in taken' \/ (m = n /\ <<n, entry.version>> \in disk[c])
  BY <1>4 DEF Pairs
<1>12. \A m, c : m \in raced /\ c \in Range(new[m].components) =>
         <<m, c>> \in taken' \/ (m = n /\ <<n, entry.version>> \in disk[c])
  BY <1>4 DEF Pairs
<1>13. \A m : WrittenBy(m)' = WrittenBy(m)
  BY <1>1 DEF WrittenBy
<1>14. Recorded(n)' = Range(entry.components)
  BY <1>1, <1>5 DEF Recorded
<1>15. \A m \in SetNames : m # n /\ m \notin raced => lock'[m] = lock[m]
  BY <1>1, <1>5, <1>6
<1>16. FilesRecorded'
  <2> SUFFICES ASSUME NEW m \in SetNames, NEW c \in WrittenBy(m), c \notin Recorded(m)', <<m, c>> \notin strays'
               PROVE  InHand(m, c)'
    BY <1>13 DEF FilesRecorded, InHand
  <2>1. c \in Recorded(m) \/ <<m, c>> \in strays \/ InHand(m, c)
    BY DEF SetsInv, FilesRecorded, InHand
  <2>2. ~(m = n /\ c \in Range(entry.components))
    BY <1>14
  <2>3. CASE <<m, c>> \in strays
    BY <1>9, <2>2, <2>3
  <2>4. CASE InHand(m, c)
    BY <1>10, <2>2, <2>4
  <2>5. CASE c \in Recorded(m)
    <3>1. CASE m = n
      BY <1>10, <2>2, <2>5, <3>1
    <3>2. CASE m # n
      <4>1. m \notin raced
        BY <1>8, <2>2, <2>5
      <4>2. Recorded(m)' = Recorded(m)
        BY <1>15, <3>2, <4>1 DEF Recorded
      <4> QED
        BY <2>5, <4>2
    <3> QED
      BY <3>1, <3>2
  <2> QED
    BY <2>1, <2>3, <2>4, <2>5
<1>17. RecordsTrue'
  <2> SUFFICES ASSUME NEW m \in SetNames, NEW c \in Recorded(m)', <<m, c>> \notin taken'
               PROVE  <<m, lock'[m].version>> \in disk[c]
    BY <1>1 DEF RecordsTrue
  <2>1. c \in Range(new[m].components)
    BY <1>1 DEF Recorded
  <2>2. CASE m = n
    <3>1. c \in Range(entry.components) /\ lock'[m] = entry
      BY <1>1, <1>5, <2>1, <2>2
    <3>2. <<n, entry.version>> \in disk[c] \/ <<n, c>> \in taken \/ n \in raced
      BY <3>1 DEF raced
    <3> QED
      BY <1>11, <1>12, <2>1, <2>2, <3>1, <3>2
  <2>3. CASE m # n
    <3>1. m \notin raced
      BY <1>12, <2>1, <2>3
    <3>2. lock'[m] = lock[m] /\ c \in Recorded(m)
      BY <1>1, <1>15, <2>1, <2>3, <3>1 DEF Recorded
    <3>3. <<m, lock[m].version>> \in disk[c] \/ <<m, c>> \in taken
      BY <3>2 DEF SetsInv, RecordsTrue
    <3> QED
      BY <1>11, <2>3, <3>2, <3>3
  <2> QED
    BY <2>2, <2>3
<1>18. ASSUME NEW t \in Shells PROVE ShellOK(t)'
  <2>1. CASE t = s
    BY <1>1, <2>1 DEF ShellOK, SeenInTime, RemovalKnown, InstalledTrue
  <2>2. CASE t # s
    <3>1. ShellOK(t) /\ Phase(shell[t])
      BY DEF SetsInv, SetsTypes
    <3>2. shell[t].pc \in {"install", "uninstall", "forget"} => shell[t].seen # << >>
      <4>1. \A L \in Locks : DOMAIN L = SetNames
        BY DEF Locks
      <4>2. DOMAIN << >> = {}
        OBVIOUS
      <4> QED
        BY <3>1, <4>1, <4>2 DEF Phase
    <3>3. SeenInTime(t)'
      <4> SUFFICES ASSUME shell[t].seen # << >>, NEW m \in SetNames, m \notin shell'[t].stale
                   PROVE  lock'[m] = shell[t].seen[m]
        BY <1>7, <2>2 DEF SeenInTime
      <4>1. m # n /\ m \notin raced /\ m \notin shell[t].stale
        BY <1>7, <2>2
      <4>2. lock[m] = shell[t].seen[m]
        BY <3>1, <4>1 DEF ShellOK, SeenInTime
      <4> QED
        BY <1>15, <4>1, <4>2
    <3>4. RemovalKnown(t)'
      <4> SUFFICES ASSUME shell[t].pc \in {"uninstall", "forget"}, NEW m, m = shell[t].name,
                          NEW c \in Range(shell[t].seen[m].components),
                          c \notin Range(shell[t].todo), c \in WrittenBy(m),
                          <<m, c>> \notin strays', m \notin shell'[t].stale
                   PROVE  InHand(m, c)'
        BY <1>7, <1>13, <2>2 DEF RemovalKnown
      <4>1. m # n /\ m \notin shell[t].stale
        BY <1>7, <2>2, <3>2
      <4>2. <<m, c>> \in strays \/ InHand(m, c)
        BY <3>1, <4>1 DEF ShellOK, RemovalKnown
      <4> QED
        BY <1>9, <1>10, <4>1, <4>2
    <3>5. InstalledTrue(t)'
      <4> SUFFICES ASSUME shell[t].pc = "install", NEW m, m = shell[t].name,
                          NEW c \in Range(shell[t].done), m \notin shell'[t].stale
                   PROVE  <<m, shell[t].manifest[2]>> \in disk[c] \/ <<m, c>> \in taken'
        BY <1>1, <1>7, <2>2 DEF InstalledTrue
      <4>1. m # n /\ m \notin shell[t].stale
        BY <1>7, <2>2, <3>2
      <4>2. <<m, shell[t].manifest[2]>> \in disk[c] \/ <<m, c>> \in taken
        BY <3>1, <4>1 DEF ShellOK, InstalledTrue
      <4> QED
        BY <1>11, <4>1, <4>2
    <3> QED
      BY <3>3, <3>4, <3>5 DEF ShellOK
  <2> QED
    BY <2>1, <2>2
<1> QED
  BY <1>1, <1>16, <1>17, <1>18 DEF SetsInv

LEMMA SaveKeeps ==
  ASSUME SetsInv, NEW s \in Shells, Save(s)
  PROVE  SetsInv'
<1> DEFINE sh == shell[s]
           entry == [version |-> sh.manifest[2], source |-> sh.source, pinned |-> sh.pinned,
                     locked_ref |-> LockedRef(sh.source), components |-> sh.done]
           n == sh.name
<1>1. sh.pc = "install" /\ WriteBack(s, n, entry, Recorded(n), GoOn(sh.queue))
  BY DEF Save
<1>2. SetsTypes /\ ShellOK(s)
  BY DEF SetsInv
<1>3. sh.seen \in Locks /\ n \in SetNames /\ sh.manifest \in Commits /\ sh.source \in Sources
      /\ sh \in Shell /\ sh.queue \in Queues
  BY <1>1, <1>2 DEF SetsTypes, Phase, Shell
<1>4. entry \in Records
  <2>1. sh.manifest[2] \in Nat /\ LockedRef(sh.source) \in {<< >>} \cup Commits
        /\ sh.pinned \in BOOLEAN /\ sh.done \in Seq(Components)
    BY <1>2, <1>3, InDirIs DEF InDir, LockedRef, Commits, Shell
  <2> QED
    BY <1>3, <2>1 DEF Records
<1>5. entry.components = sh.done /\ entry.version = sh.manifest[2]
  OBVIOUS
<1>6. GoOn(sh.queue) \in Shell /\ Phase(GoOn(sh.queue))
      /\ GoOn(sh.queue).pc \in {"idle", "fetch"} /\ GoOn(sh.queue).seen = << >>
  BY <1>3, GoOnIsShell, GoOnIs
<1> HIDE DEF entry
<1>7. \A c \in Recorded(n) : c \in Range(entry.components) \/ <<n, c>> \in strays'
  <2>1. strays' = (strays \cup Pairs(n, Recorded(n)) \cup UNION {Pairs(m, Recorded(m)) : m \in sh.stale})
                      \ Pairs(n, Range(entry.components))
    BY <1>1 DEF WriteBack
  <2> QED
    BY <2>1 DEF Pairs
<1>8. \A c \in Range(entry.components) :
        <<n, entry.version>> \in disk[c] \/ <<n, c>> \in taken \/ n \in sh.stale
  BY <1>1, <1>2, <1>5 DEF ShellOK, InstalledTrue
<1> QED
  BY <1>1, <1>3, <1>4, <1>5, <1>6, <1>7, <1>8, WriteBackKeeps

LEMMA ForgetKeeps ==
  ASSUME SetsInv, NEW s \in Shells, Forget(s)
  PROVE  SetsInv'
<1> DEFINE sh == shell[s]
           n == sh.name
<1>1. sh.pc = "forget" /\ WriteBack(s, n, Absent, {}, Idle)
  BY DEF Forget
<1>2. SetsTypes /\ ShellOK(s) /\ Phase(sh)
  BY DEF SetsInv, SetsTypes
<1>3. sh.seen \in Locks /\ n \in SetNames /\ sh.todo = << >>
  BY <1>1, <1>2 DEF Phase
<1>4. Absent \in Records /\ Absent.components = << >> /\ Range(Absent.components) = {}
  BY NoneOfEmpty DEF Records, Absent
<1>5. Idle \in Shell /\ Phase(Idle) /\ Idle.pc = "idle" /\ Idle.seen = << >>
  BY IdleIsShell DEF Idle
<1>6. strays' = strays \cup UNION {Pairs(m, Recorded(m)) : m \in sh.stale}
  <2>1. strays' = (strays \cup Pairs(n, {}) \cup UNION {Pairs(m, Recorded(m)) : m \in sh.stale})
                      \ Pairs(n, Range(Absent.components))
    BY <1>1 DEF WriteBack
  <2> QED
    BY <1>4, <2>1 DEF Pairs
<1>7. ASSUME NEW c \in Recorded(n), c \in WrittenBy(n) PROVE <<n, c>> \in strays' \/ InHand(n, c)
  <2>1. CASE n \in sh.stale
    BY <1>6, <2>1 DEF Pairs
  <2>2. CASE n \notin sh.stale
    <3>1. sh.seen # << >>
      <4>1. DOMAIN sh.seen = SetNames /\ DOMAIN << >> = {}
        BY <1>3 DEF Locks
      <4> QED
        BY <1>3, <4>1
    <3>2. lock[n] = sh.seen[n]
      BY <1>2, <1>3, <2>2, <3>1 DEF ShellOK, SeenInTime
    <3>3. c \in Range(sh.seen[n].components) /\ c \notin Range(sh.todo)
      BY <1>3, <3>2, NoneOfEmpty DEF Recorded
    <3>4. <<n, c>> \in strays \/ InHand(n, c)
      BY <1>1, <1>2, <1>7, <2>2, <3>3 DEF ShellOK, RemovalKnown
    <3> QED
      BY <1>6, <3>4
  <2> QED
    BY <2>1, <2>2
<1> QED
  BY <1>1, <1>3, <1>4, <1>5, <1>7, WriteBackKeeps

LEMMA SetsNextKeeps == SetsInv /\ [SetsNext]_setsVars => SetsInv'
<1> SUFFICES ASSUME SetsInv, [SetsNext]_setsVars PROVE SetsInv'
  OBVIOUS
<1>1. ASSUME NEW s \in Shells, NEW u \in Sources, NEW ref \in {Latest} \cup Versions(u), AddSet(s, u, ref)
      PROVE  SetsInv'
  BY <1>1, AddKeeps
<1>2. ASSUME NEW s \in Shells, NEW N \in SUBSET SetNames, UpdateSet(s, N) PROVE SetsInv'
  BY <1>2, UpdateKeeps
<1>3. ASSUME NEW s \in Shells, NEW n \in SetNames, RemoveSet(s, n) PROVE SetsInv'
  BY <1>3, RemoveKeeps
<1>4. ASSUME NEW s \in Shells, Command(s) PROVE SetsInv'
  <2>1. \A n \in SetNames : {n} \in SUBSET SetNames
    OBVIOUS
  <2> QED
    BY <1>1, <1>2, <1>3, <1>4, <2>1 DEF Command
<1>5. ASSUME NEW s \in Shells, Fetch(s) \/ FetchFails(s) \/ Purge(s) \/ Abandon(s) PROVE SetsInv'
  BY <1>5, FetchKeeps, FetchFailsKeeps, PurgeKeeps, AbandonKeeps
<1>6. ASSUME NEW s \in Shells, Install(s) \/ InstallFails(s) \/ Uninstall(s) PROVE SetsInv'
  BY <1>6, InstallKeeps, InstallFailsKeeps, UninstallKeeps
<1>7. ASSUME NEW s \in Shells, Save(s) \/ Forget(s) PROVE SetsInv'
  BY <1>7, SaveKeeps, ForgetKeeps
<1>8. ASSUME NEW u \in Sources, Publish(u) PROVE SetsInv'
  BY <1>8, PublishKeeps
<1>9. CASE UNCHANGED setsVars
  <2>1. UNCHANGED <<published, clones, disk, lock, shell, strays, taken>>
    BY <1>9 DEF setsVars
  <2>2. SetsTypes'
    BY <2>1 DEF SetsInv, SetsTypes
  <2>3. FilesRecorded' /\ RecordsTrue'
    BY <2>1 DEF SetsInv, FilesRecorded, RecordsTrue, WrittenBy, Recorded
  <2>4. \A s \in Shells : ShellOK(s)'
    BY <2>1 DEF SetsInv, ShellOK, SeenInTime, RemovalKnown, InstalledTrue, InHand, WrittenBy
  <2> QED
    BY <2>2, <2>3, <2>4 DEF SetsInv
<1> QED
  BY <1>4, <1>5, <1>6, <1>7, <1>8, <1>9 DEF SetsNext

\* However many shells run commands on the sets at once, and wherever they are interrupted,
\* SetsInv holds.
THEOREM SetsInvHolds == SetsSpec => []SetsInv
<1>1. SetsInit => SetsInv
  BY SetsInitHolds
<1>2. SetsInv /\ [SetsNext]_setsVars => SetsInv'
  BY SetsNextKeeps
<1> QED
  BY <1>1, <1>2, PTL DEF SetsSpec

\* Every file a set has written is in its record, or about to be, or one of the strays the
\* code leaves: by a failure, by a new version, by the user or by another command's save.
THEOREM NoFileUnrecorded == SetsSpec => []FilesRecorded
<1>1. SetsInv => FilesRecorded
  BY DEF SetsInv
<1> QED
  BY <1>1, SetsInvHolds, PTL

\* What a record names is there, as the version it names, unless it was taken since.
THEOREM RecordsAreTrue == SetsSpec => []RecordsTrue
<1>1. SetsInv => RecordsTrue
  BY DEF SetsInv
<1> QED
  BY <1>1, SetsInvHolds, PTL
=============================================================================
