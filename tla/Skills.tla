------------------------------- MODULE Skills -------------------------------
(***************************************************************************)
(* Skills (src/skill): parsing and gating, the list of loaded skills, hot   *)
(* installation by a scan and by a watcher thread, skills.update, the skill *)
(* tool, and the installation of what a skill depends on.                   *)
(*                                                                         *)
(* A SKILL.md is [dir, folder, name, key, always, needs, installs]: dir its *)
(* place among the directories, name "" when the front matter gives none,   *)
(* needs the binaries it requires, an install [bin, method, valid].         *)
(***************************************************************************)
EXTENDS Naturals, FiniteSets, Sequences, SequencesExt

CONSTANTS
  SkillFiles,     \* path -> SKILL.md
  MaxEdits        \* bound: changes of a file

ASSUME SkillsAssumption ==
  /\ IsFiniteSet(DOMAIN SkillFiles)
  /\ \A p \in DOMAIN SkillFiles : SkillFiles[p].installs \in Seq(Range(SkillFiles[p].installs))

VARIABLES
  skDisk,     \* the files there are and their mtime
  skOff,      \* skills.entries.X.enabled = false: in the file and in the running config
  skList,     \* SkillLoaderMeta: whether the scan is complete, and skills_meta_
  skHot,      \* SkillHotInstall: watching_, known_paths_, file_mtimes_, known_names_
  skScan,     \* a thread in ScanForNewSkills
  skWatch,    \* the watcher thread
  skSaid,     \* how often the callback was told of a name since SetKnownMetadatas
  skBins,     \* binaries on the PATH
  skInstall   \* an installation of dependencies

skillVars == <<skDisk, skOff, skList, skHot, skScan, skWatch, skSaid, skBins, skInstall>>
hotVars == <<skHot, skScan, skWatch, skSaid>>

\* ParseSkillFile: the front matter or, without one that gives a name, the folder's.
NameOf(p) == IF SkillFiles[p].name = "" THEN SkillFiles[p].folder ELSE SkillFiles[p].name
AllNames == {NameOf(p) : p \in DOMAIN SkillFiles}
Binaries == UNION {SkillFiles[p].needs \cup {i.bin : i \in Range(SkillFiles[p].installs)} : p \in DOMAIN SkillFiles}
Methods == {"node", "go", "uv", "apt", "brew", "download"}

IdleScan == [pc |-> "idle", todo |-> {}, file |-> "none", found |-> {}]
IdleWatch == [pc |-> "idle", todo |-> {}, file |-> "none", mtime |-> 0]
NoInstall == [pc |-> "idle", file |-> "none", next |-> 1, ok |-> TRUE, fetched |-> {}]

SkillsInit(present, bins) ==
  /\ skDisk = [present |-> present, mtime |-> [p \in DOMAIN SkillFiles |-> 0]]
  /\ skOff = [file |-> {}, running |-> {}]
  /\ skList = [complete |-> FALSE, list |-> <<>>]
  /\ skHot = [watching |-> FALSE, paths |-> {}, mtimes |-> [p \in {} |-> 0], names |-> {}]
  /\ skScan = IdleScan
  /\ skWatch = IdleWatch
  /\ skSaid = [n \in AllNames |-> 0]
  /\ skBins = bins
  /\ skInstall = NoInstall

FileAppears(p) ==
  /\ p \notin skDisk.present
  /\ skDisk' = [skDisk EXCEPT !.present = @ \cup {p}]
  /\ UNCHANGED <<skOff, skList, hotVars, skBins, skInstall>>

FileChanges(p) ==
  /\ p \in skDisk.present /\ skDisk.mtime[p] < MaxEdits
  /\ skDisk' = [skDisk EXCEPT !.mtime[p] = @ + 1]
  /\ UNCHANGED <<skOff, skList, hotVars, skBins, skInstall>>

(***************************************************************************)
(* SkillLoaderMeta.                                                        *)
(***************************************************************************)
Names(list) == {NameOf(list[i]) : i \in DOMAIN list}

\* LoaderAllMetaData: once, in the order of the directories (within one the order is
\* the file system's); the first of a name counts and a disabled name is left out.
LoaderAllMetaData ==
  /\ ~ skList.complete
  /\ \E files \in SUBSET skDisk.present :
       /\ {NameOf(p) : p \in files} = {NameOf(p) : p \in skDisk.present} \ skOff.running
       /\ \A p \in files, q \in skDisk.present :
            NameOf(p) = NameOf(q) => SkillFiles[p].dir <= SkillFiles[q].dir /\ (q \in files => p = q)
       /\ \E list \in SetToSeqs(files) :
            /\ \A i, j \in DOMAIN list : i < j => SkillFiles[list[i]].dir <= SkillFiles[list[j]].dir
            /\ skList' = [complete |-> TRUE, list |-> list]
  /\ UNCHANGED <<skDisk, skOff, hotVars, skBins, skInstall>>

\* AddOneMetaData, under the loader's lock.
Added(list, p) == IF NameOf(p) \in Names(list) THEN list ELSE Append(list, p)

\* FindMetaDataByKey.
NameByKey(key) ==
  LET hits == {i \in DOMAIN skList.list : SkillFiles[skList.list[i]].key = key}
  IN  IF hits = {} THEN key ELSE NameOf(skList.list[CHOOSE i \in hits : \A j \in hits : i <= j])

\* skills.update: the entry is written under the key, a disabled skill leaves the
\* list, where the others keep their order; an enabled one stays out of it, since
\* nothing scans again.  The reload ends it.
HandleSkillsUpdate(key, enabled) ==
  LET off == IF enabled THEN skOff.file \ {key} ELSE skOff.file \cup {key}
      rest == {i \in DOMAIN skList.list : enabled \/ NameOf(skList.list[i]) # NameByKey(key)}
      n == Cardinality(rest)
  IN  /\ skList.complete /\ key # ""
      /\ skOff' = [file |-> off, running |-> off]
      /\ \E s \in [1 .. n -> rest] :
           /\ \A i, j \in 1 .. n : i < j => s[i] < s[j]
           /\ skList' = [skList EXCEPT !.list = [i \in 1 .. n |-> skList.list[s[i]]]]
      /\ UNCHANGED <<skDisk, hotVars, skBins, skInstall>>

(***************************************************************************)
(* SkillHotInstall.                                                        *)
(***************************************************************************)
\* RecordFileMtimes: every file there is becomes a known one.
Recorded(h) == [h EXCEPT !.paths = @ \cup skDisk.present,
                         !.mtimes = [p \in DOMAIN @ \cup skDisk.present |->
                                       IF p \in skDisk.present THEN skDisk.mtime[p] ELSE @[p]]]

\* SetKnownMetadatas with the list, then StartWatching.  A scan that has chosen what it
\* tells, by the names known before, is late with it.
StartWatching ==
  /\ skList.complete /\ ~ skHot.watching
  /\ skHot' = Recorded([skHot EXCEPT !.watching = TRUE, !.paths = Range(skList.list),
                                     !.names = Names(skList.list)])
  /\ skSaid' = [n \in AllNames |-> 0]
  /\ skScan' = IF skScan.pc = "say" THEN [skScan EXCEPT !.pc = "late"] ELSE skScan
  /\ UNCHANGED <<skDisk, skOff, skList, skWatch, skBins, skInstall>>

\* ScanForNewSkills, used after the list is loaded, watcher or not, first records what
\* there is, so that it finds only the files that appear after that.
ScanForNewSkills ==
  /\ skList.complete /\ skScan.pc = "idle"
  /\ skHot' = Recorded(skHot)
  /\ skScan' = [IdleScan EXCEPT !.pc = "dirs", !.todo = DOMAIN SkillFiles]
  /\ UNCHANGED <<skDisk, skOff, skList, skWatch, skSaid, skBins, skInstall>>

\* ScanDirectory, a file at a time: known_paths_ is looked at under its lock, the
\* file parsed without it, and then the path added.
ScanFile(p) ==
  /\ skScan.pc = "dirs" /\ p \in skScan.todo
  /\ skScan' = IF p \in skDisk.present \ skHot.paths
               THEN [skScan EXCEPT !.pc = "parse", !.file = p, !.todo = @ \ {p}]
               ELSE [skScan EXCEPT !.todo = @ \ {p}]
  /\ UNCHANGED <<skDisk, skOff, skList, skHot, skWatch, skSaid, skBins, skInstall>>

ScanParsed ==
  /\ skScan.pc = "parse"
  /\ skScan' = [skScan EXCEPT !.pc = "dirs", !.file = "none", !.found = @ \cup {skScan.file}]
  /\ skHot' = [skHot EXCEPT !.paths = @ \cup {skScan.file},
                            !.mtimes = [p \in DOMAIN @ \cup {skScan.file} |->
                                          IF p = skScan.file THEN skDisk.mtime[p] ELSE @[p]]]
  /\ UNCHANGED <<skDisk, skOff, skList, skWatch, skSaid, skBins, skInstall>>

\* Mutant: what the scan found is announced without a second look at the names.
ScanMerge_Trusting ==
  /\ skScan.pc = "dirs" /\ skScan.todo = {}
  /\ LET new == {p \in skScan.found : NameOf(p) \notin skOff.running}
     IN  /\ skHot' = [skHot EXCEPT !.names = @ \cup {NameOf(p) : p \in new}]
         /\ skScan' = [skScan EXCEPT !.pc = "say", !.found = new]
  /\ UNCHANGED <<skDisk, skOff, skList, skWatch, skSaid, skBins, skInstall>>

\* The names are looked up again under their lock; of several files of a name one is
\* added.
ScanMerge ==
  /\ skScan.pc = "dirs" /\ skScan.todo = {}
  /\ LET new == {p \in skScan.found : NameOf(p) \notin skHot.names \cup skOff.running}
     IN  \E added \in SUBSET new :
           /\ \A p, q \in added : NameOf(p) = NameOf(q) => p = q
           /\ {NameOf(p) : p \in added} = {NameOf(p) : p \in new}
           /\ skHot' = [skHot EXCEPT !.names = @ \cup {NameOf(p) : p \in added}]
           /\ skScan' = [skScan EXCEPT !.pc = "say", !.found = added]
  /\ UNCHANGED <<skDisk, skOff, skList, skWatch, skSaid, skBins, skInstall>>

\* The callbacks, outside the lock.
ScanSays ==
  /\ skScan.pc \in {"say", "late"}
  /\ skScan' = IdleScan
  /\ skSaid' = IF skScan.pc = "late" THEN skSaid
               ELSE [n \in AllNames |-> skSaid[n] + Cardinality({p \in skScan.found : NameOf(p) = n})]
  /\ UNCHANGED <<skDisk, skOff, skList, skHot, skWatch, skBins, skInstall>>

WatchPoll ==
  /\ skHot.watching /\ skWatch.pc = "idle"
  /\ skWatch' = [IdleWatch EXCEPT !.pc = "dirs", !.todo = skDisk.present]
  /\ UNCHANGED <<skDisk, skOff, skList, skHot, skScan, skSaid, skBins, skInstall>>

\* A path that is not known is remembered for the next steps.
WatchFile(p) ==
  /\ skWatch.pc = "dirs" /\ p \in skWatch.todo \ skHot.paths
  /\ skWatch' = [pc |-> "add", todo |-> skWatch.todo \ {p}, file |-> p, mtime |-> skDisk.mtime[p]]
  /\ UNCHANGED <<skDisk, skOff, skList, skHot, skScan, skSaid, skBins, skInstall>>

\* For a known one the time is kept and, when it differs, the file callback told; the
\* list of skills stays as it is.
WatchKnownFile(p) ==
  /\ skWatch.pc = "dirs" /\ p \in skWatch.todo \cap skHot.paths
  /\ skWatch' = [skWatch EXCEPT !.todo = @ \ {p}]
  /\ skHot' = IF p \in DOMAIN skHot.mtimes THEN [skHot EXCEPT !.mtimes[p] = skDisk.mtime[p]] ELSE skHot
  /\ UNCHANGED <<skDisk, skOff, skList, skScan, skSaid, skBins, skInstall>>

\* AddOneMetaData and FindMetaDataByFile, which wants the folder to have the skill's
\* name: without it, and for a name that is listed, the watcher goes on.
WatchAdds ==
  /\ skWatch.pc = "add"
  /\ skList' = [skList EXCEPT !.list = Added(@, skWatch.file)]
  /\ skWatch' = IF NameOf(skWatch.file) \in Names(skList.list) \/ NameOf(skWatch.file) # SkillFiles[skWatch.file].folder
                THEN [skWatch EXCEPT !.pc = "dirs", !.file = "none", !.mtime = 0]
                ELSE [skWatch EXCEPT !.pc = "names"]
  /\ UNCHANGED <<skDisk, skOff, skHot, skScan, skSaid, skBins, skInstall>>

\* known_names_ under its lock, then the path and the callbacks.
WatchKnows ==
  LET n == NameOf(skWatch.file)
      new == n \notin skHot.names \cup skOff.running
  IN  /\ skWatch.pc = "names"
      /\ skHot' = IF new THEN [skHot EXCEPT !.names = @ \cup {n}] ELSE skHot
      /\ skWatch' = IF new THEN [skWatch EXCEPT !.pc = "say"]
                    ELSE [skWatch EXCEPT !.pc = "dirs", !.file = "none", !.mtime = 0]
      /\ UNCHANGED <<skDisk, skOff, skList, skScan, skSaid, skBins, skInstall>>

WatchSays ==
  /\ skWatch.pc = "say"
  /\ skHot' = [skHot EXCEPT !.paths = @ \cup {skWatch.file},
                            !.mtimes = [p \in DOMAIN @ \cup {skWatch.file} |->
                                          IF p = skWatch.file THEN skWatch.mtime ELSE @[p]]]
  /\ skSaid' = [skSaid EXCEPT ![NameOf(skWatch.file)] = @ + 1]
  /\ skWatch' = [skWatch EXCEPT !.pc = "dirs", !.file = "none", !.mtime = 0]
  /\ UNCHANGED <<skDisk, skOff, skList, skScan, skBins, skInstall>>

WatchEnds ==
  /\ skWatch.pc = "dirs" /\ skWatch.todo = {}
  /\ skWatch' = IdleWatch
  /\ UNCHANGED <<skDisk, skOff, skList, skHot, skScan, skSaid, skBins, skInstall>>

\* StopWatching joins the watcher; a scan goes on.
StopWatching ==
  /\ skHot.watching /\ skWatch.pc = "idle"
  /\ skHot' = [skHot EXCEPT !.watching = FALSE]
  /\ UNCHANGED <<skDisk, skOff, skList, skScan, skWatch, skSaid, skBins, skInstall>>

(***************************************************************************)
(* SkillInstallDeps and the skill tool.                                    *)
(***************************************************************************)
CheckSkillGating(p) == SkillFiles[p].always \/ SkillFiles[p].needs \subseteq skBins

\* InstallSkillDependenceByName: the list's first of the name; the gate may keep it
\* from what it would install.
InstallStarts(n) ==
  LET hits == {i \in DOMAIN skList.list : NameOf(skList.list[i]) = n}
      p == skList.list[CHOOSE i \in hits : \A j \in hits : i <= j]
  IN  /\ skInstall.pc # "run" /\ hits # {}
      /\ skInstall' = [file |-> p, next |-> 1, ok |-> CheckSkillGating(p), fetched |-> {},
                       pc |-> IF CheckSkillGating(p) THEN "run" ELSE "done"]
      /\ UNCHANGED <<skDisk, skOff, skList, hotVars, skBins>>

\* Mutant: the last command's result is the answer.
InstallStep_LastCounts(ret) ==
  LET i == SkillFiles[skInstall.file].installs[skInstall.next]
      skip == i.bin \in skBins \/ (i.valid /\ i.method \notin Methods)
      got == IF skip \/ ~ i.valid \/ ret # 0 THEN {} ELSE {i.bin}
  IN  /\ skInstall.pc = "run" /\ skInstall.next <= Len(SkillFiles[skInstall.file].installs)
      /\ skip \/ ~ i.valid => ret = 0
      /\ skInstall' = [skInstall EXCEPT !.next = @ + 1, !.ok = IF skip THEN @ ELSE i.valid /\ ret = 0,
                                        !.fetched = IF i.method = "download" THEN @ \cup got ELSE @]
      /\ skBins' = IF i.method = "download" THEN skBins ELSE skBins \cup got
      /\ UNCHANGED <<skDisk, skOff, skList, hotVars>>

\* One instruction: what is on the PATH is skipped, an invalid name is a failure and an
\* unknown method is passed over.  A command that succeeds puts its binary on the PATH
\* (the package managers are taken at their word), a download in ~/.quantclaw/bin,
\* where IsBinaryAvailable does not look.
InstallStep(ret) ==
  LET i == SkillFiles[skInstall.file].installs[skInstall.next]
      skip == i.bin \in skBins \/ (i.valid /\ i.method \notin Methods)
      got == IF skip \/ ~ i.valid \/ ret # 0 THEN {} ELSE {i.bin}
  IN  /\ skInstall.pc = "run" /\ skInstall.next <= Len(SkillFiles[skInstall.file].installs)
      /\ skip \/ ~ i.valid => ret = 0
      /\ skInstall' = [skInstall EXCEPT !.next = @ + 1, !.ok = @ /\ (skip \/ (i.valid /\ ret = 0)),
                                        !.fetched = IF i.method = "download" THEN @ \cup got ELSE @]
      /\ skBins' = IF i.method = "download" THEN skBins ELSE skBins \cup got
      /\ UNCHANGED <<skDisk, skOff, skList, hotVars>>

InstallEnds ==
  /\ skInstall.pc = "run" /\ skInstall.next > Len(SkillFiles[skInstall.file].installs)
  /\ skInstall' = [skInstall EXCEPT !.pc = "done"]
  /\ UNCHANGED <<skDisk, skOff, skList, hotVars, skBins>>

\* The list, and the two machines on top of it.
HotNext ==
  \/ LoaderAllMetaData \/ StartWatching \/ StopWatching \/ ScanForNewSkills \/ ScanParsed \/ ScanMerge
  \/ ScanSays \/ WatchPoll \/ WatchAdds \/ WatchKnows \/ WatchSays \/ WatchEnds
  \/ \E p \in DOMAIN SkillFiles : FileAppears(p) \/ FileChanges(p) \/ ScanFile(p) \/ WatchFile(p) \/ WatchKnownFile(p)

InstallNext ==
  \/ LoaderAllMetaData \/ InstallEnds
  \/ \E p \in DOMAIN SkillFiles, e \in BOOLEAN : HandleSkillsUpdate(SkillFiles[p].key, e)
  \/ \E n \in AllNames : InstallStarts(n)
  \/ \E ret \in 0 .. 1 : InstallStep(ret)

(***************************************************************************)
(* Properties.                                                             *)
(***************************************************************************)
\* The scan and the watcher may find the same skill, or two files of one name, at the
\* same time: from one SetKnownMetadatas to the next nobody is told of a name twice, nor
\* of one that is not a known name (what a scan chose before it and tells late aside).
AnnouncedOnce == \A n \in AllNames : skSaid[n] <= IF n \in skHot.names THEN 1 ELSE 0

\* An installation that reports success has passed every instruction it can carry out:
\* the binary is on the PATH or, for a download, was fetched by this installation,
\* whichever of the instructions failed and whatever else was installed meanwhile.
InstallReport ==
  (skInstall.pc = "done" /\ skInstall.ok) =>
    \A i \in Range(SkillFiles[skInstall.file].installs) :
      i.method \in Methods => i.bin \in skBins \/ (i.method = "download" /\ i.bin \in skInstall.fetched)

\* What is said about skills is right: the parts above.
SkillsSound == AnnouncedOnce /\ InstallReport
=============================================================================
