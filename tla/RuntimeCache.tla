---------------------------- MODULE RuntimeCache ------------------------------
(***************************************************************************)
(* The npm launcher on Windows: launchNativeRuntime and                    *)
(* spawnNativeProviderRuntime of native-dispatch.ts, and the cache of      *)
(* windows-runtime-cache.ts they start the runtime from, while npm         *)
(* replaces the installed packages, other launches fill and collect the    *)
(* cache, and processes are killed.                                        *)
(*                                                                         *)
(* A version stands for its release: an executable holds the bytes of a    *)
(* version or others, and its hash tells which.  The cache has one entry   *)
(* directory per version.  fs.rmSync refuses a directory unless            *)
(* `recursive' is set, so removeEmptyDirectory removes nothing: the        *)
(* directories above the entries, and those of the leases, stay.           *)
(***************************************************************************)
EXTENDS Naturals, FiniteSets, TLAPS

CONSTANTS Releases, Launchers, MaxUpdates, MaxKills, None

Empty == "empty"    \* a directory without the executable
Mixed == "mixed"    \* the bytes of no release

VARIABLES
    cli,        \* the version of the installed @palladin/cli
    package,    \* the executable in the platform package
    updates,    \* updates of npm so far
    entry,      \* by version: the entry directory of the cache
    leases,     \* lease files: version, and the process that is named
    launcher,   \* the launcher processes
    wrapper     \* the PowerShell process of each launch, and its program

vars == <<cli, package, updates, entry, leases, launcher, wrapper>>

NoLaunch == [at |-> "idle", version |-> None, read |-> None, temp |-> None,
             todo |-> {}, target |-> None]

Init ==
    /\ cli \in Releases /\ package = cli /\ updates = 0
    /\ entry = [v \in Releases |-> None]
    /\ leases = {}
    /\ launcher = [l \in Launchers |-> NoLaunch]
    /\ wrapper = [l \in Launchers |-> "none"]

\* NATIVE_RUNTIME_VERSION of the code this launcher has loaded.
Version(l) == launcher[l].version
At(l, step) == launcher[l].at = step
Becomes(l, r) == launcher' = [launcher EXCEPT ![l] = r]
Goto(l, step) == Becomes(l, [launcher[l] EXCEPT !.at = step])
Lease(kind, l) == [version |-> Version(l), kind |-> kind, process |-> l]

\* systemProcessIsAlive: a launcher until it has returned or was killed; a
\* provider's host goes on after a launch has failed.
processIsAlive(x) ==
    IF x.kind = "child" THEN wrapper[x.process] \notin {"none", "gone"}
    ELSE launcher[x.process].at \notin {"idle", "killed", "done"}

\* The wrapper opens the file with FileShare.Read and keeps the handle: until
\* it ends, the file can be neither written nor removed.
Held(v) == \E l \in Launchers : Version(l) = v /\ wrapper[l] \in {"locked", "running"}

Npm == UNCHANGED <<cli, package, updates>>

-----------------------------------------------------------------------------
(* npm: the CLI and its platform package are replaced one after the other. *)

UpdateCli(v) ==
    /\ updates < MaxUpdates /\ v # cli
    /\ cli' = v /\ updates' = updates + 1
    /\ UNCHANGED <<package, entry, leases, launcher, wrapper>>

UpdatePackage ==
    /\ package # cli
    /\ package' = IF package = Mixed THEN cli ELSE Mixed
    /\ UNCHANGED <<cli, updates, entry, leases, launcher, wrapper>>

-----------------------------------------------------------------------------
(* A launch, up to its entry in the cache. *)

\* Both entry points of native-dispatch.ts; they differ in how they end.
Start(l) ==
    /\ At(l, "idle")
    /\ Becomes(l, [NoLaunch EXCEPT !.at = "resolve", !.version = cli])
    /\ UNCHANGED <<entry, leases, wrapper>> /\ Npm

\* launchNativeRuntime returns 1, and its process ends;
\* spawnNativeProviderRuntime throws, and the process of its caller goes on.
Ended == {"done", "failed"}

\* launchNativeRuntime releases its lease if the entry fails the last
\* verification, the provider keeps it.  The `finally' of installCacheEntry
\* removes the temporary directory.
Fails(l) ==
    \E step \in IF At(l, "before") THEN {"release", "failed"} ELSE Ended :
        Becomes(l, [launcher[l] EXCEPT !.at = step, !.temp = None])

\* validatePackageManifest compares the version of the package.
Resolve(l) ==
    /\ At(l, "resolve")
    /\ \/ package \in {Version(l), Mixed} /\ Goto(l, "hash")
       \/ package # Version(l) /\ Fails(l)
    /\ UNCHANGED <<entry, leases, wrapper>> /\ Npm

\* The hash of the executable in the package is compared with the release
\* manifest, on entering the cache and once the entry is there.
CheckSource(l) ==
    /\ launcher[l].at \in {"hash", "verify", "recheck"}
    /\ IF package = Version(l)
       THEN Goto(l, CASE At(l, "hash") -> "verify" [] At(l, "verify") -> "look" [] At(l, "recheck") -> "lease")
       ELSE Fails(l)
    /\ UNCHANGED <<entry, leases, wrapper>> /\ Npm

\* existsSync(entryDirectory)
Look(l) ==
    /\ At(l, "look")
    /\ Goto(l, IF entry[Version(l)] = None THEN "mkdir" ELSE "verifyEntry")
    /\ UNCHANGED <<entry, leases, wrapper>> /\ Npm

\* installCacheEntry: the copy goes on while npm replaces what is copied.
MakeTemporary(l) ==
    /\ At(l, "mkdir")
    /\ Becomes(l, [launcher[l] EXCEPT !.at = "copy", !.temp = Empty, !.read = package])
    /\ UNCHANGED <<entry, leases, wrapper>> /\ Npm

Copy(l) ==
    /\ At(l, "copy")
    /\ \E bytes \in IF package = launcher[l].read THEN {package} ELSE {package, launcher[l].read, Mixed} :
           Becomes(l, [launcher[l] EXCEPT !.at = "checkTemp", !.temp = bytes])
    /\ UNCHANGED <<entry, leases, wrapper>> /\ Npm

\* Mutant: the copy is published before it is verified.
CheckTemporaryLater(l) ==
    /\ At(l, "checkTemp")
    /\ Goto(l, "rename")
    /\ UNCHANGED <<entry, leases, wrapper>> /\ Npm

CheckTemporary(l) ==
    /\ At(l, "checkTemp")
    /\ IF launcher[l].temp = Version(l) THEN Goto(l, "rename") ELSE Fails(l)
    /\ UNCHANGED <<entry, leases, wrapper>> /\ Npm

\* renameSync fails if another launch was first, or a collector has left the
\* directory; what is there is looked at next.
Rename(l) ==
    /\ At(l, "rename")
    /\ entry' = [entry EXCEPT ![Version(l)] = IF @ = None THEN launcher[l].temp ELSE @]
    /\ Goto(l, "verifyEntry")
    /\ UNCHANGED <<leases, wrapper>> /\ Npm

\* verifyHash of the cached executable.
VerifyEntry(l) ==
    /\ At(l, "verifyEntry")
    /\ IF entry[Version(l)] = Version(l)
       THEN Becomes(l, [launcher[l] EXCEPT !.at = "recheck", !.temp = None]) ELSE Fails(l)
    /\ UNCHANGED <<entry, leases, wrapper>> /\ Npm

CreateLease(l) ==
    /\ At(l, "lease")
    /\ leases' = leases \cup {Lease("launcher", l)}
    /\ Becomes(l, [launcher[l] EXCEPT !.at = "collect", !.todo = Releases \ {Version(l)}])
    /\ UNCHANGED <<entry, wrapper>> /\ Npm

-----------------------------------------------------------------------------
(* collectInactiveEntries *)

\* hasActiveLease of one entry that is not the launcher's own: leases of
\* processes that have ended are removed.
hasActiveLease(l, v) ==
    /\ At(l, "collect") /\ v \in launcher[l].todo /\ UNCHANGED <<entry, wrapper>> /\ Npm
    /\ LET of == {x \in leases : x.version = v}
           active == {x \in of : processIsAlive(x)}
       IN IF entry[v] = None THEN UNCHANGED leases /\ Becomes(l, [launcher[l] EXCEPT !.todo = @ \ {v}])
          ELSE /\ leases' = leases \ (of \ active)
               /\ Becomes(l, [launcher[l] EXCEPT !.at = IF active = {} THEN "remove" ELSE "collect",
                                                 !.todo = @ \ {v}, !.target = IF active = {} THEN v ELSE None])

\* rmSync, first the executable.  A file that is held stays, and so does all
\* of the entry.
RemoveExecutable(l) ==
    /\ At(l, "remove") /\ UNCHANGED <<leases, wrapper>> /\ Npm
    /\ LET v == launcher[l].target
           stays == Held(v) \/ entry[v] = None
       IN /\ entry' = [entry EXCEPT ![v] = IF stays THEN @ ELSE Empty]
          /\ Goto(l, IF stays THEN "collect" ELSE "rmdir")

\* What another launch has published there meanwhile makes rmSync fail, or is
\* removed in turn.
RemoveEntry(l) ==
    /\ At(l, "rmdir") /\ UNCHANGED <<leases, wrapper>> /\ Npm
    /\ LET v == launcher[l].target
       IN /\ entry' = [entry EXCEPT ![v] = IF @ = Empty THEN None ELSE @]
          /\ \E step \in IF entry[v] \in Releases THEN {"collect", "remove"} ELSE {"collect"} : Goto(l, step)

Collected(l) ==
    /\ At(l, "collect") /\ launcher[l].todo = {}
    /\ Goto(l, "before")
    /\ UNCHANGED <<entry, leases, wrapper>> /\ Npm

-----------------------------------------------------------------------------
(* The program *)

verifyBeforeSpawn(l) ==
    /\ At(l, "before")
    /\ IF entry[Version(l)] = Version(l) THEN Goto(l, "spawn") ELSE Fails(l)
    /\ UNCHANGED <<entry, leases, wrapper>> /\ Npm

\* spawnLocked starts PowerShell, or fails and the lease is released.
spawnLocked(l) ==
    /\ At(l, "spawn")
    /\ \/ wrapper' = [wrapper EXCEPT ![l] = "spawned"] /\ Goto(l, "bind")
       \/ UNCHANGED wrapper /\ Goto(l, "release")
    /\ UNCHANGED <<entry, leases>> /\ Npm

\* The launcher's lease stays if the child's cannot be written.
bindToChild(l) ==
    /\ At(l, "bind")
    /\ \/ leases' = (leases \ {Lease("launcher", l)}) \cup {Lease("child", l)}
       \/ UNCHANGED leases
    /\ Goto(l, "wait")
    /\ UNCHANGED <<entry, wrapper>> /\ Npm

\* PowerShell opens the file, then hashes it and tests its signature with the
\* handle open.
WrapperOpens(l) ==
    /\ wrapper[l] = "spawned"
    /\ wrapper' = [wrapper EXCEPT ![l] = IF entry[Version(l)] = Version(l) THEN "locked" ELSE "gone"]
    /\ UNCHANGED <<entry, leases, launcher>> /\ Npm

\* PalladinLockedProcess.Run: the program runs in a job that ends with the
\* wrapper, whether the program ends, a step fails or the wrapper is killed.
WrapperRuns(l) ==
    /\ wrapper[l] = "locked"
    /\ wrapper' = [wrapper EXCEPT ![l] = "running"]
    /\ UNCHANGED <<entry, leases, launcher>> /\ Npm

WrapperEnds(l) ==
    /\ wrapper[l] \in {"spawned", "locked", "running"}
    /\ wrapper' = [wrapper EXCEPT ![l] = "gone"]
    /\ UNCHANGED <<entry, leases, launcher>> /\ Npm

\* cleanup, once the child has exited; release of the lease.
release(l) ==
    /\ At(l, "release") \/ (At(l, "wait") /\ wrapper[l] = "gone")
    /\ leases' = leases \ {Lease("launcher", l), Lease("child", l)}
    /\ \E step \in Ended : Goto(l, step)
    /\ UNCHANGED <<entry, wrapper>> /\ Npm

\* A launcher is killed: its lease, its temporary directory and a half removed
\* entry stay.
Killed(l) ==
    /\ launcher[l].at \notin {"idle", "killed", "done"}
    /\ Cardinality({k \in Launchers : At(k, "killed")}) < MaxKills
    /\ Goto(l, "killed")
    /\ UNCHANGED <<entry, leases, wrapper>> /\ Npm

Launch(l) ==
    \/ Start(l) \/ Resolve(l) \/ CheckSource(l) \/ Look(l)
    \/ MakeTemporary(l) \/ Copy(l) \/ CheckTemporary(l) \/ Rename(l) \/ VerifyEntry(l) \/ CreateLease(l)
    \/ \E v \in Releases : hasActiveLease(l, v)
    \/ RemoveExecutable(l) \/ RemoveEntry(l) \/ Collected(l)
    \/ verifyBeforeSpawn(l) \/ spawnLocked(l) \/ bindToChild(l) \/ release(l) \/ Killed(l)
    \/ WrapperOpens(l) \/ WrapperRuns(l) \/ WrapperEnds(l)

Next ==
    \/ \E v \in Releases : UpdateCli(v)
    \/ UpdatePackage
    \/ \E l \in Launchers : Launch(l)

Spec == Init /\ [][Next]_vars

-----------------------------------------------------------------------------
\* An entry holds the release its path names, or has lost its executable to a
\* collector: whatever npm does during a copy, whoever publishes first and
\* whoever is killed.  What runs is the release its launcher was built with,
\* and stays in its entry until it ends (installCacheEntry,
\* spawnLockedSystemRuntime).
RunsTheRelease ==
    /\ \A v \in Releases : entry[v] \in {None, Empty, v}
    /\ \A l \in Launchers : wrapper[l] = "running" => entry[Version(l)] = Version(l)

\* "collects only inactive old entries" (windows-runtime-cache.test.ts): an
\* executable goes only while no living process has a lease on it.  It fails:
\* a lease written after hasActiveLease has looked is not seen, and the launch
\* that wrote it then ends with an error.
CollectsOnlyInactive ==
    [][\A v \in Releases : entry[v] = v /\ entry'[v] = Empty =>
           ~\E x \in leases : x.version = v /\ processIsAlive(x)]_vars

-----------------------------------------------------------------------------
(* RunsTheRelease, for any number of releases, launches, updates and kills. *)

\* The steps of one launch, and the states of its PowerShell process.
Steps == {"idle", "resolve", "hash", "verify", "look", "mkdir", "copy", "checkTemp", "rename", "verifyEntry",
          "recheck", "lease", "collect", "remove", "rmdir", "before", "spawn", "bind", "wait", "release",
          "done", "failed", "killed"}

LaunchType ==
    [at : Steps, version : Releases \cup {None}, read : Releases \cup {None, Mixed},
     temp : Releases \cup {None, Empty, Mixed}, todo : SUBSET Releases, target : Releases \cup {None}]

TypeOK ==
    /\ cli \in Releases /\ package \in Releases \cup {Mixed}
    /\ entry \in [Releases -> Releases \cup {None, Empty}]
    /\ launcher \in [Launchers -> LaunchType]
    /\ wrapper \in [Launchers -> {"none", "spawned", "locked", "running", "gone"}]

\* Why the program stays what it is: a copy that may be published is the
\* release, a program is in its entry from the moment the file is held, and a
\* launcher that has not begun has no program.
Sound(l) ==
    /\ At(l, "idle") => wrapper[l] = "none"
    /\ ~At(l, "idle") => Version(l) \in Releases
    /\ At(l, "rename") => launcher[l].temp = Version(l)
    /\ launcher[l].at \in {"remove", "rmdir"} => launcher[l].target \in Releases
    /\ wrapper[l] \in {"locked", "running"} => entry[Version(l)] = Version(l)

Inv == TypeOK /\ (\A v \in Releases : entry[v] \in {None, Empty, v}) /\ \A l \in Launchers : Sound(l)

\* The steps that leave the cache and the programs alone: a launcher keeps its
\* The records a launch goes through.
LEMMA Records ==
    ASSUME NEW x \in LaunchType, NEW step \in Steps
    PROVE  /\ [x EXCEPT !.at = step] \in LaunchType
           /\ [x EXCEPT !.at = step, !.temp = None] \in LaunchType
           /\ \A bytes \in Releases \cup {None, Mixed} : [x EXCEPT !.at = step, !.temp = bytes] \in LaunchType
           /\ \A bytes \in Releases \cup {Mixed} : [x EXCEPT !.at = step, !.temp = Empty, !.read = bytes] \in LaunchType
           /\ \A todo \in SUBSET Releases :
                  /\ [x EXCEPT !.todo = todo] \in LaunchType
                  /\ [x EXCEPT !.at = step, !.todo = todo] \in LaunchType
                  /\ \A v \in Releases \cup {None} : [x EXCEPT !.at = step, !.todo = todo, !.target = v] \in LaunchType
BY Zenon DEF LaunchType

\* version, and only a verified copy gets to the rename.
LEMMA Quiet ==
    ASSUME Inv, NEW l \in Launchers, NEW r \in LaunchType, Becomes(l, r),
           UNCHANGED <<entry, wrapper>> /\ Npm,
           r.version = Version(l), ~At(l, "idle"), r.at # "idle",
           r.at = "rename" => r.temp = Version(l),
           r.at \in {"remove", "rmdir"} => r.target \in Releases
    PROVE  Inv'
BY DEF Inv, TypeOK, Sound, Becomes, At, Version, Npm

LEMMA Typed ==
    ASSUME Inv, NEW l \in Launchers
    PROVE  launcher[l] \in LaunchType
BY DEF Inv, TypeOK

LEMMA InitInv ==
    Init => Inv
BY DEF Init, Inv, TypeOK, Sound, LaunchType, Steps, NoLaunch, At, Version

LEMMA UpdateInv ==
    ASSUME Inv, UpdatePackage \/ \E v \in Releases : UpdateCli(v)
    PROVE  Inv'
BY DEF Inv, TypeOK, Sound, At, Version, UpdateCli, UpdatePackage

LEMMA StartInv ==
    ASSUME Inv, NEW l \in Launchers, Start(l)
    PROVE  Inv'
BY Zenon DEF Inv, TypeOK, Sound, LaunchType, Steps, NoLaunch, At, Version, Start, Becomes, Npm

\* A failed launch does not get to the rename.
LEMMA FailsInv ==
    ASSUME Inv, NEW l \in Launchers, ~At(l, "idle"), Fails(l), UNCHANGED <<entry, wrapper>> /\ Npm
    PROVE  Inv'
<1>1. PICK step \in {"release", "failed", "done"} :
          Becomes(l, [launcher[l] EXCEPT !.at = step, !.temp = None])
  BY Zenon DEF Fails, Ended
<1>2. [launcher[l] EXCEPT !.at = step, !.temp = None] \in LaunchType
  BY Typed, Records, Zenon DEF Steps
<1> QED BY <1>1, <1>2, Quiet, Typed, Zenon DEF LaunchType, Version

\* A step that only goes on, but not to the rename or to a removal.
LEMMA GotoInv ==
    ASSUME Inv, NEW l \in Launchers, ~At(l, "idle"), NEW step \in Steps, Goto(l, step),
           UNCHANGED <<entry, wrapper>> /\ Npm,
           step \notin {"idle", "remove", "rmdir"}, step = "rename" => launcher[l].temp = Version(l)
    PROVE  Inv'
<1>1. [launcher[l] EXCEPT !.at = step] \in LaunchType
  BY Typed, Records, Zenon
<1> QED BY <1>1, Quiet DEF Inv, TypeOK, LaunchType, Version, Goto

\* Up to the entry in the cache.
LEMMA PrepareInv ==
    ASSUME Inv, NEW l \in Launchers,
           \/ Resolve(l) \/ CheckSource(l) \/ Look(l) \/ MakeTemporary(l) \/ Copy(l)
           \/ CheckTemporary(l) \/ VerifyEntry(l) \/ CreateLease(l)
    PROVE  Inv'
<1>1. CASE Resolve(l)
  <2>1. CASE Goto(l, "hash") BY <1>1, <2>1, GotoInv DEF Steps, Resolve, At
  <2>2. CASE Fails(l) BY <1>1, <2>2, FailsInv DEF Resolve, At
  <2> QED BY <1>1, <2>1, <2>2 DEF Resolve
<1>2. CASE CheckSource(l)
  <2>1. CASE \E step \in {"verify", "look", "lease"} : Goto(l, step)
    BY <1>2, <2>1, GotoInv DEF Steps, CheckSource, At
  <2>2. CASE Fails(l) BY <1>2, <2>2, FailsInv DEF CheckSource, At
  <2> QED BY <1>2, <2>1, <2>2 DEF CheckSource, At
<1>3. CASE Look(l)
  BY <1>3, GotoInv DEF Steps, Look, At
<1>4. CASE MakeTemporary(l)
  <2>1. [launcher[l] EXCEPT !.at = "copy", !.temp = Empty, !.read = package] \in LaunchType
    BY Typed, Records, Zenon DEF Steps, Inv, TypeOK
  <2> QED BY <1>4, <2>1, Quiet, Typed, Zenon DEF MakeTemporary, LaunchType, Version, At
<1>5. CASE Copy(l)
  <2>1. PICK bytes \in Releases \cup {None, Mixed} :
            Becomes(l, [launcher[l] EXCEPT !.at = "checkTemp", !.temp = bytes])
    BY <1>5, Typed, Zenon DEF Copy, Inv, TypeOK, LaunchType
  <2>2. [launcher[l] EXCEPT !.at = "checkTemp", !.temp = bytes] \in LaunchType
    <3>1. launcher[l] \in LaunchType /\ "checkTemp" \in Steps BY DEF Inv, TypeOK, Steps
    <3> QED BY <3>1, Records, Zenon
  <2> QED BY <1>5, <2>1, <2>2, Quiet DEF Copy, Inv, TypeOK, LaunchType, Version, At
<1>6. CASE CheckTemporary(l)
  <2>1. CASE launcher[l].temp = Version(l) BY <1>6, <2>1, GotoInv DEF Steps, CheckTemporary, At
  <2>2. CASE Fails(l) BY <1>6, <2>2, FailsInv DEF CheckTemporary, At
  <2> QED BY <1>6, <2>1, <2>2 DEF CheckTemporary
<1>7. CASE VerifyEntry(l)
  <2>1. CASE entry[Version(l)] = Version(l)
    <3>1. [launcher[l] EXCEPT !.at = "recheck", !.temp = None] \in LaunchType
      BY Typed, Records, Zenon DEF Steps
    <3> QED BY <1>7, <2>1, <3>1, Quiet, Typed, Zenon DEF VerifyEntry, LaunchType, Version, At
  <2>2. CASE Fails(l) BY <1>7, <2>2, FailsInv DEF VerifyEntry, At
  <2> QED BY <1>7, <2>1, <2>2 DEF VerifyEntry
<1>8. CASE CreateLease(l)
  <2>1. [launcher[l] EXCEPT !.at = "collect", !.todo = Releases \ {Version(l)}] \in LaunchType
    BY Typed, Records, Zenon DEF Steps
  <2> QED BY <1>8, <2>1, Quiet, Typed, Zenon DEF CreateLease, LaunchType, Version, At
<1> QED BY <1>1, <1>2, <1>3, <1>4, <1>5, <1>6, <1>7, <1>8

\* Another launch's entry is collected, or the own program is started and waited for.
LEMMA RunInv ==
    ASSUME Inv, NEW l \in Launchers,
           \/ \E v \in Releases : hasActiveLease(l, v)
           \/ Collected(l) \/ verifyBeforeSpawn(l) \/ bindToChild(l) \/ release(l) \/ Killed(l)
    PROVE  Inv'
<1>1. ASSUME NEW v \in Releases, hasActiveLease(l, v) PROVE Inv'
  <2> DEFINE todo == launcher[l].todo \ {v}
  <2>1. launcher[l] \in LaunchType /\ todo \in SUBSET Releases /\ {"remove", "collect"} \subseteq Steps
    BY DEF Inv, TypeOK, LaunchType, Steps
  <2> HIDE DEF todo
  <2>2. CASE Becomes(l, [launcher[l] EXCEPT !.todo = todo])
    <3>1. [launcher[l] EXCEPT !.todo = todo] \in LaunchType BY <2>1, Records, Zenon
    <3> QED BY <1>1, <2>1, <2>2, <3>1, Quiet, Zenon DEF hasActiveLease, LaunchType, Version, At
  <2>3. CASE Becomes(l, [launcher[l] EXCEPT !.at = "remove", !.todo = todo, !.target = v])
    <3>1. [launcher[l] EXCEPT !.at = "remove", !.todo = todo, !.target = v] \in LaunchType BY <2>1, Records, Zenon
    <3> QED BY <1>1, <2>1, <2>3, <3>1, Quiet, Zenon DEF hasActiveLease, LaunchType, Version, At
  <2>4. CASE Becomes(l, [launcher[l] EXCEPT !.at = "collect", !.todo = todo, !.target = None])
    <3>1. [launcher[l] EXCEPT !.at = "collect", !.todo = todo, !.target = None] \in LaunchType BY <2>1, Records, Zenon
    <3> QED BY <1>1, <2>1, <2>4, <3>1, Quiet, Zenon DEF hasActiveLease, LaunchType, Version, At
  <2> QED BY <1>1, <2>2, <2>3, <2>4, Zenon DEF hasActiveLease, todo
<1>2. CASE Collected(l) BY <1>2, GotoInv DEF Steps, Collected, At
<1>3. CASE verifyBeforeSpawn(l)
  <2>1. CASE Goto(l, "spawn") BY <1>3, <2>1, GotoInv DEF Steps, verifyBeforeSpawn, At
  <2>2. CASE Fails(l) BY <1>3, <2>2, FailsInv DEF verifyBeforeSpawn, At
  <2> QED BY <1>3, <2>1, <2>2 DEF verifyBeforeSpawn
<1>4. CASE bindToChild(l) BY <1>4, GotoInv DEF Steps, bindToChild, At
<1>5. CASE release(l) BY <1>5, GotoInv DEF Steps, release, Ended, At
<1>6. CASE Killed(l) BY <1>6, GotoInv DEF Steps, Killed, At
<1> QED BY <1>1, <1>2, <1>3, <1>4, <1>5, <1>6

\* Publishing changes an entry that is not there, so none that is held.
LEMMA RenameInv ==
    ASSUME Inv, NEW l \in Launchers, Rename(l)
    PROVE  Inv'
<1>1. launcher'[l] \in LaunchType
  BY Typed, Records, Zenon DEF Inv, TypeOK, Steps, Rename, Goto, Becomes
<1> QED BY <1>1 DEF Inv, TypeOK, Sound, LaunchType, Rename, Goto, Becomes, At, Version, Npm

\* A collector takes away only what no program holds.
LEMMA RemoveInv ==
    ASSUME Empty \notin Releases, Inv, NEW l \in Launchers, RemoveExecutable(l) \/ RemoveEntry(l)
    PROVE  Inv'
<1>1. CASE RemoveExecutable(l)
  BY <1>1 DEF Inv, TypeOK, Sound, LaunchType, Steps, RemoveExecutable, Held, Goto, Becomes, At, Version, Npm
<1>2. CASE RemoveEntry(l)
  BY <1>2, SMTT(30) DEF Inv, TypeOK, Sound, LaunchType, Steps, RemoveEntry, Goto, Becomes, At, Version, Npm
<1> QED BY <1>1, <1>2

\* The PowerShell process.
LEMMA WrapperInv ==
    ASSUME Inv, NEW l \in Launchers, spawnLocked(l) \/ WrapperOpens(l) \/ WrapperRuns(l) \/ WrapperEnds(l)
    PROVE  Inv'
<1>1. CASE spawnLocked(l)
  <2>1. CASE Goto(l, "release") /\ UNCHANGED wrapper BY <1>1, <2>1, GotoInv DEF Steps, spawnLocked, At
  <2>2. CASE Goto(l, "bind") /\ wrapper' = [wrapper EXCEPT ![l] = "spawned"]
    <3>1. launcher'[l] \in LaunchType /\ launcher' = [launcher EXCEPT ![l] = launcher'[l]]
          /\ launcher'[l].version = Version(l) /\ launcher'[l].at = "bind" /\ ~At(l, "idle")
      BY <1>1, <2>2 DEF Inv, TypeOK, LaunchType, Steps, spawnLocked, Goto, Becomes, At, Version
    <3> QED BY <1>1, <2>2, <3>1 DEF Inv, TypeOK, Sound, spawnLocked, At, Version, Npm
  <2> QED BY <1>1, <2>1, <2>2 DEF spawnLocked
<1>2. CASE WrapperOpens(l)
  BY <1>2 DEF Inv, TypeOK, Sound, WrapperOpens, At, Version, Npm
<1>3. CASE WrapperRuns(l) \/ WrapperEnds(l)
  BY <1>3 DEF Inv, TypeOK, Sound, WrapperRuns, WrapperEnds, At, Version, Npm
<1> QED BY <1>1, <1>2, <1>3

\* RunsTheRelease for any number of releases, launches, updates and kills: the
\* program a launch of the npm package runs is its own release, and its entry
\* is not taken from under it (prepareWindowsRuntimeCache,
\* collectInactiveEntries, spawnLockedSystemRuntime).
THEOREM AlwaysRunsTheRelease ==
    ASSUME Empty \notin Releases
    PROVE  Spec => []RunsTheRelease
<1>1. Inv /\ [Next]_vars => Inv'
  <2> SUFFICES ASSUME Inv, [Next]_vars PROVE Inv' OBVIOUS
  <2>1. CASE UNCHANGED vars
    BY <2>1 DEF vars, Inv, TypeOK, Sound, At, Version
  <2>2. ASSUME NEW l \in Launchers, Launch(l) PROVE Inv'
    BY <2>2, StartInv, PrepareInv, RunInv, RenameInv, RemoveInv, WrapperInv DEF Launch
  <2> QED BY <2>1, <2>2, UpdateInv DEF Next
<1>2. Inv => RunsTheRelease
  BY DEF Inv, Sound, RunsTheRelease
<1> QED BY <1>1, <1>2, InitInv, PTL DEF Spec

=============================================================================
