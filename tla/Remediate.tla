----------------------------- MODULE Remediate -----------------------------
(***************************************************************************)
(* Packages and services: how the manifest gets its view of them           *)
(* (GenerateManifest, RecordEnd), how a check compares it with the node    *)
(* (checkPackages ... checkUnauthorizedServices) and how an authorized     *)
(* pass enforces it (Remediate).  A play writes the manifest, the agent    *)
(* runs checks and passes, and anybody changes the node in between: every  *)
(* command the code runs is a step of its own.  Files are in CheckFiles,   *)
(* the manifest's bytes in ManifestStore.                                  *)
(***************************************************************************)
EXTENDS Naturals, FiniteSets

CONSTANTS
    Packages, Services,
    Versions,          \* versions a package may be installed in
    Absent,            \* the answer for a package that is not there
    Needs,             \* per package and version: what it depends on
    Archives,          \* what somebody may install: a version per package
    Manual,            \* packages apt marks as installed on request
    DeclaredPackages,  \* -packages: per name the pinned version, or Absent
    DeclaredServices,  \* -services
    Hosts,             \* pairs of what removes packages, "apt", "dnf", "dpkg"
                       \* or, for a Mac, "brew", and of what systemd lets the
                       \* agent do, "root", "reader" or "denied"; only root
                       \* may change anything
    Nodes,             \* how the node may be at the start
    NoManifest,        \* there is no manifest file
    MaxEvents          \* bound, for all of these together: runs that write
                       \* the manifest, changes by others, commands of root
                       \* that fail

ASSUME RemediateAssumption ==
    /\ Absent \notin Versions /\ Versions # {}
    /\ Needs \in [Packages -> [Versions -> SUBSET Packages]]
    /\ Archives \subseteq [Packages -> Versions]
    /\ Manual \subseteq Packages
    /\ DOMAIN DeclaredPackages \subseteq Packages
    /\ \A p \in DOMAIN DeclaredPackages : DeclaredPackages[p] \in Versions \cup {Absent}
    /\ DeclaredServices \subseteq Services
    /\ Hosts \subseteq ({"apt", "dnf", "dpkg"} \X {"root", "reader", "denied"})
                   \cup {<<"brew", "reader">>}
    /\ Nodes \subseteq [version : [Packages -> Versions \cup {Absent}],
                        active : SUBSET Services, enabled : SUBSET Services]

VARIABLES
    version,                   \* the node: what a query of a package answers
    residual,                  \* packages removed, their configuration left
    active, enabled,           \* units running, started at boot
    manager, access,           \* which package manager, which rights
    manifest,                  \* the file
    play, draft,               \* a run that writes it: place, in memory
    pc, mode,                  \* the agent: place, "daemon", "once", "recheck"
    m,                         \* its copy of the manifest
    devs,                      \* its deviations so far
    todo, left, unit,          \* loops: the list, what remains, the service
    rem,                       \* its Remediation
    events,
    before, lost,              \* history: node when the pass began, what the
                               \* pass has removed
    disturbed, failed          \* history: since the manifest was loaded,
                               \* somebody changed the node, a command failed

node == <<version, residual, active, enabled>>
setting == <<manager, access>>
writer == <<manifest, play, draft>>
loop == <<todo, left, unit>>
trouble == <<events, failed>>
past == <<before, lost, disturbed>>
vars == <<node, setting, writer, pc, mode, m, devs, loop, rem, trouble, past>>

-----------------------------------------------------------------------------
(* dpkg-query -W answers for a package that was removed without purging    *)
(* it, and lists it, as long as its configuration files are there.         *)
Known == {p \in Packages : version[p] # Absent}
Installed == Known \ residual
KeepsConfiguration == manager \in {"apt", "dpkg"}

(* S with all it depends on in the versions ver, directly or not: what is  *)
(* in no set that S and all other packages can do without.                 *)
Complete(S, ver) == \A p \in S : ver[p] \in Versions => Needs[p][ver[p]] \subseteq S
Closure(S, ver) ==
    Packages \ UNION {spare \in SUBSET (Packages \ S) : Complete(Packages \ spare, ver)}

Fresh == [pkgs |-> [p \in {} |-> Absent], svcs |-> [s \in {} |-> {}],
          pkgSnap |-> {}, svcSnap |-> {}]
NoNode == [version |-> [p \in Packages |-> Absent], active |-> {}, enabled |-> {}]
Nothing == [removed |-> {}, started |-> {}, stopped |-> {}, enabled |-> {},
            disabled |-> {}]

(* systemctl without the right to ask answers "no such unit" for a unit    *)
(* and lists none.                                                         *)
Seen(units) == IF access = "denied" THEN {} ELSE units

UnauthorizedUnguarded(allowed, current) == \* Mutant: an empty snapshot counts
    current \ allowed
(* An empty snapshot disables the comparison. *)
Unauthorized(allowed, current) == IF allowed = {} THEN {} ELSE current \ allowed

PackageDeviations(installed) ==
    {<<"missing", p>> : p \in {q \in DOMAIN m.pkgs : installed[q] = Absent}}
    \cup {<<"version_mismatch", p>> :
            p \in {q \in DOMAIN m.pkgs :
                     installed[q] # Absent /\ m.pkgs[q] \notin {Absent, installed[q]}}}

(* Only states recorded as true are looked at. *)
NotAsRecorded(inactive, disabled, running, boot) ==
    {<<inactive, s>> : s \in {t \in DOMAIN m.svcs : m.svcs[t].running /\ t \notin running}}
    \cup {<<disabled, s>> : s \in {t \in DOMAIN m.svcs : m.svcs[t].enabled /\ t \notin boot}}

SystemctlDeviationsDeniedIsFine(running, boot) == \* Mutant: exit code 4 is no deviation
    IF access = "denied" THEN {}
    ELSE NotAsRecorded("inactive", "disabled", running, boot)
SystemctlDeviations(running, boot) ==
    IF access = "denied"
      THEN NotAsRecorded("unverifiable", "unverifiable", Seen(running), Seen(boot))
      ELSE NotAsRecorded("inactive", "disabled", running, boot)
(* brew has one listing of all services, which needs no right. *)
BrewDeviations(running, boot) == NotAsRecorded("inactive", "disabled", running, boot)
ServiceDeviations(running, boot) ==
    IF manager = "brew" THEN BrewDeviations(running, boot) ELSE SystemctlDeviations(running, boot)

(* What a query that breaks makes of the services running and enabled: of  *)
(* systemctl one state looks like down, of brew's listing both.            *)
SystemctlBreaks(s) == {<<active \ {s}, enabled>>, <<active, enabled \ {s}>>}
BrewBreaks(s) == {<<active \ {s}, enabled \ {s}>>}
LooksDown(s) == IF manager = "brew" THEN BrewBreaks(s) ELSE SystemctlBreaks(s)
(* A check takes the exit code, which is that of a service that is up if   *)
(* systemctl could not even be started.                                    *)
LooksUp(s) == IF manager = "brew" THEN {}
              ELSE {<<active \cup {s}, enabled>>, <<active, enabled \cup {s}>>}

(* What GenerateManifest finds; with -snapshot and on a node n that rests  *)
(* it writes RecordedAt(n).                                                *)
RecordedPackages(installed) == [p \in DOMAIN DeclaredPackages |->
    IF DeclaredPackages[p] # Absent THEN DeclaredPackages[p] ELSE installed[p]]
RecordedServices(running, boot) == [s \in DeclaredServices |->
    [running |-> s \in running, enabled |-> s \in boot]]
RecordedAt(n) ==
    [pkgs |-> RecordedPackages(n.version), svcs |-> RecordedServices(n.active, n.enabled),
     pkgSnap |-> {p \in Packages : n.version[p] # Absent}, svcSnap |-> n.active]

(* The manifest, if there is one, was recorded when the node was in this   *)
(* or another state.                                                       *)
Init ==
    /\ \E n \in Nodes : version = n.version /\ active = n.active /\ enabled = n.enabled
    /\ residual = {}
    /\ \E h \in Hosts : manager = h[1] /\ access = h[2]
    /\ manifest \in {NoManifest} \cup {RecordedAt(n) : n \in Nodes}
    /\ play = "idle" /\ draft = Fresh
    /\ pc = "idle" /\ mode = "daemon" /\ m = Fresh /\ devs = {}
    /\ todo = {} /\ left = {} /\ unit = {}
    /\ rem = Nothing /\ before = NoNode /\ lost = {}
    /\ events = 0 /\ disturbed = FALSE /\ failed = FALSE

(* A command that needs root, or a listing that may break (any), and how   *)
(* it ends.                                                                *)
Succeeds == access = "root" /\ UNCHANGED trouble
Event == events < MaxEvents /\ events' = events + 1
Breaks == Event /\ failed' = TRUE
Fails == IF access = "root" THEN Breaks ELSE UNCHANGED trouble
Answers == UNCHANGED trouble

-----------------------------------------------------------------------------
(* The writer of the manifest: always root, on the node itself.            *)
agent == <<pc, mode, m, devs, loop, rem>>
PlayStep(from, to) ==
    /\ play = from /\ play' = to
    /\ UNCHANGED <<node, setting, agent, past>>

Generate ==
    /\ PlayStep("idle", "collectPackages")
    /\ Event
    /\ draft' = Fresh
    /\ UNCHANGED <<manifest, failed>>

(* RecordEnd keeps what was declared and takes the snapshots anew. *)
RecordEnd ==
    /\ PlayStep("idle", "listPackages")
    /\ Event
    /\ draft' = IF manifest = NoManifest THEN Fresh ELSE manifest
    /\ UNCHANGED <<manifest, failed>>

CollectPackages ==
    /\ PlayStep("collectPackages", "collectServices")
    /\ \/ Answers /\ draft' = [draft EXCEPT !.pkgs = RecordedPackages(version)]
       \/ Breaks /\ \E p \in DOMAIN DeclaredPackages :
             draft' = [draft EXCEPT !.pkgs = RecordedPackages([version EXCEPT ![p] = Absent])]
    /\ UNCHANGED manifest

(* A service whose query breaks is recorded as down.  With -snapshot the   *)
(* listings follow.                                                        *)
CollectServices ==
    /\ \E next \in {"listPackages", "write"} : PlayStep("collectServices", next)
    /\ \/ Answers /\ draft' = [draft EXCEPT !.svcs = RecordedServices(active, enabled)]
       \/ Breaks /\ \E s \in DeclaredServices : \E states \in LooksDown(s) :
             draft' = [draft EXCEPT !.svcs = RecordedServices(states[1], states[2])]
    /\ UNCHANGED manifest

(* A listing that fails yields nil. *)
ListInstalledPackages ==
    /\ PlayStep("listPackages", "listServices")
    /\ \/ Answers /\ draft' = [draft EXCEPT !.pkgSnap = Known]
       \/ Breaks /\ draft' = [draft EXCEPT !.pkgSnap = {}]
    /\ UNCHANGED manifest

ListActiveServices ==
    /\ PlayStep("listServices", "write")
    /\ \/ Answers /\ draft' = [draft EXCEPT !.svcSnap = active]
       \/ Breaks /\ draft' = [draft EXCEPT !.svcSnap = {}]
    /\ UNCHANGED manifest

WriteManifest ==
    /\ PlayStep("write", "idle")
    /\ manifest' = draft /\ draft' = Fresh
    /\ UNCHANGED trouble

Play == Generate \/ RecordEnd \/ CollectPackages \/ CollectServices
        \/ ListInstalledPackages \/ ListActiveServices \/ WriteManifest
-----------------------------------------------------------------------------
(* The agent.  loadManifest starts both a check and a pass.                *)
Load ==
    /\ manifest # NoManifest /\ m' = manifest
    /\ disturbed' = FALSE /\ failed' = FALSE

Rest ==
    /\ pc' = "idle" /\ mode' = "daemon" /\ m' = Fresh /\ devs' = {}
    /\ disturbed' = FALSE /\ failed' = FALSE

(* The daemon's next audit, or an operator's run of -check -remediate.     *)
(* checkFiles comes first and may find something: module CheckFiles.       *)
BeginCheck ==
    /\ pc = "idle" /\ pc' = "packages" /\ Load
    /\ mode' \in {"daemon", "once"} /\ devs' \in {{}, {<<"file", "any">>}}
    /\ UNCHANGED <<node, setting, writer, loop, rem, events, before, lost>>

(* The verdict MANIFEST_NOT_FOUND: nothing to compare, nothing to enforce.  *)
NotFound == pc = "idle" /\ manifest = NoManifest /\ UNCHANGED vars

CheckStep(from, to) ==
    /\ pc = from /\ pc' = to
    /\ UNCHANGED <<node, setting, writer, mode, m, loop, rem, past>>

CheckPackagesOnly == \* Mutant: the verdict is clean once packages are
    /\ pc = "packages" /\ UNCHANGED <<node, setting, writer, loop, rem, events, before, lost>>
    /\ IF PackageDeviations(version) = {} THEN Rest
       ELSE /\ pc' = "services" /\ devs' = devs \cup PackageDeviations(version)
            /\ UNCHANGED <<mode, m, disturbed, failed>>
CheckPackages ==
    /\ CheckStep("packages", "services")
    /\ \/ Answers /\ devs' = devs \cup PackageDeviations(version)
       \/ Breaks /\ \E p \in DOMAIN m.pkgs :
             devs' = devs \cup PackageDeviations([version EXCEPT ![p] = Absent])

CheckServices ==
    /\ CheckStep("services", "extraPackages")
    /\ \/ Answers /\ devs' = devs \cup ServiceDeviations(active, enabled)
       \/ Breaks /\ \E s \in DOMAIN m.svcs : \E states \in LooksDown(s) \cup LooksUp(s) :
             devs' = devs \cup ServiceDeviations(states[1], states[2])

(* A failed listing is not drift. *)
CheckUnauthorizedPackages ==
    /\ CheckStep("extraPackages", "extraServices")
    /\ \/ Answers /\ devs' = devs \cup ({"unauthorized package"}
                              \X Unauthorized(m.pkgSnap, Known))
       \/ m.pkgSnap # {} /\ Breaks /\ devs' = devs

CheckUnauthorizedServices ==
    /\ CheckStep("extraServices", "verdict")
    /\ \/ Answers /\ devs' = devs \cup ({"unauthorized service"}
                              \X Unauthorized(m.svcSnap, Seen(active)))
       \/ m.svcSnap # {} /\ Breaks /\ devs' = devs

(* The daemon enforces after a verdict of drift, the command line always;  *)
(* both read the manifest again.  Except on Linux a pass does nothing.     *)
FirstStep == IF manager = "brew" THEN "done" ELSE "list"
WantsPass == mode = "once" \/ (mode = "daemon" /\ devs # {})
Decide ==
    /\ pc = "verdict"
    /\ UNCHANGED <<node, setting, writer, loop, rem, events, lost>>
    /\ IF WantsPass
         THEN /\ pc' = FirstStep /\ Load /\ devs' = {} /\ mode' = mode
              /\ before' = [version |-> version, active |-> active,
                            enabled |-> enabled]
         ELSE Rest /\ before' = before
-----------------------------------------------------------------------------
(* Remediate: packages first.                                              *)
PassStep(from, to) ==
    /\ pc = from /\ pc' = to
    /\ UNCHANGED <<setting, writer, mode, m, devs, before, disturbed>>
KeepsNode == UNCHANGED <<node, lost>>

ListForRemovalAlways == \* Mutant: no return when nothing is unauthorized
    LET extra == Unauthorized(m.pkgSnap, Known) IN
       /\ Answers /\ todo' = extra /\ left' = extra
       /\ PassStep("list", IF extra = {} /\ manager # "apt" THEN "relist" ELSE "remove")
       /\ KeepsNode /\ UNCHANGED <<unit, rem>>
ListForRemoval ==
    LET extra == Unauthorized(m.pkgSnap, Known) IN
       /\ \/ Answers /\ todo' = extra /\ left' = extra
             /\ PassStep("list", IF extra = {} THEN "listServices" ELSE "remove")
          \/ m.pkgSnap # {} /\ Breaks /\ PassStep("list", "listServices") /\ UNCHANGED <<todo, left>>
       /\ KeepsNode /\ UNCHANGED <<unit, rem>>

(* What goes with gone: apt and dnf take the packages that need it along,  *)
(* so that only sets stay that are complete without it.                    *)
Dependents(gone) ==
    gone \cup (Installed \ UNION {S \in SUBSET (Packages \ gone) : Complete(S, version)})
(* What apt-get autoremove takes. *)
Orphans == Installed \ Closure(Installed \cap Manual, version)

(* gone is removed; of the packages in kept the configuration stays.       *)
TakeOff(gone, kept) ==
    /\ version' = [p \in Packages |-> IF p \in gone \ kept THEN Absent ELSE version[p]]
    /\ residual' = (residual \ gone) \cup kept
    /\ lost' = lost \cup (gone \cap Known)
    /\ UNCHANGED <<active, enabled>>
Purge(gone) == TakeOff(gone, {})

(* One apt-get call for the whole set; one that fails may have done a part.*)
RemoveTogether ==
    /\ manager = "apt" /\ PassStep("remove", "autoremove")
    /\ \/ Succeeds /\ Purge(Dependents(todo))
       \/ Fails /\ \E part \in IF access = "root" THEN SUBSET todo ELSE {{}} :
                      Purge(Dependents(part))
    /\ UNCHANGED <<loop, rem>>

Autoremove ==
    /\ PassStep("autoremove", "relist")
    /\ \/ Succeeds /\ Purge(Orphans)
       \/ Fails /\ KeepsNode
    /\ UNCHANGED <<loop, rem>>

(* dnf, or dpkg -r --force-depends, package by package.  The latter leaves *)
(* configuration files and does nothing when only they are left.           *)
RemoveOne(p) ==
    \/ manager = "dnf" /\ Purge(Dependents({p}))
    \/ /\ manager = "dpkg"
       /\ \E kept \in SUBSET ({p} \cap Installed) : TakeOff({p} \cap Installed, kept)
RemovePackage(p) ==
    /\ manager \in {"dnf", "dpkg"} /\ p \in left
    /\ PassStep("remove", IF left = {p} THEN "relist" ELSE "remove")
    /\ left' = left \ {p}
    /\ \/ Succeeds /\ RemoveOne(p)
       \/ Fails /\ KeepsNode
    /\ UNCHANGED <<todo, unit, rem>>

RelistIgnored == \* Mutant: everything meant to be removed is reported
    /\ PassStep("relist", "listServices")
    /\ todo' = {} /\ left' = {} /\ Answers /\ rem' = [rem EXCEPT !.removed = todo]
    /\ KeepsNode /\ UNCHANGED unit
(* The report holds what a second listing no longer shows. *)
Relist ==
    /\ PassStep("relist", "listServices")
    /\ todo' = {} /\ left' = {}
    /\ \/ Answers /\ rem' = [rem EXCEPT !.removed = todo \ Known]
       \/ Breaks /\ rem' = rem
    /\ KeepsNode /\ UNCHANGED unit
-----------------------------------------------------------------------------
(* Then services: first the ones running that are not in the snapshot.     *)
Declared == DOMAIN m.svcs

ListForStoppingMixed == \* Mutant: one loop for extra and declared services
    /\ PassStep("listServices", "running") /\ Answers
    /\ left' = Declared \cup Unauthorized(m.svcSnap, Seen(active))
    /\ KeepsNode /\ UNCHANGED <<todo, unit, rem>>
ListForStopping ==
    LET extra == Unauthorized(m.svcSnap, Seen(active)) IN
       /\ \/ Answers /\ left' = (IF extra = {} THEN Declared ELSE extra)
             /\ PassStep("listServices", IF extra = {} THEN "running" ELSE "stop")
          \/ m.svcSnap # {} /\ Breaks /\ left' = Declared /\ PassStep("listServices", "running")
       /\ KeepsNode /\ UNCHANGED <<todo, unit, rem>>

Start(s) == active' = active \cup {s} /\ UNCHANGED <<version, residual, enabled, lost>>
Stop(s) == active' = active \ {s} /\ UNCHANGED <<version, residual, enabled, lost>>
Enable(s) == enabled' = enabled \cup {s} /\ UNCHANGED <<version, residual, active, lost>>
Disable(s) == enabled' = enabled \ {s} /\ UNCHANGED <<version, residual, active, lost>>

StopUnauthorized(s) ==
    /\ PassStep("stop", "disable") /\ s \in left /\ unit' = {s}
    /\ \/ Succeeds /\ Stop(s)
       \/ Fails /\ KeepsNode
    /\ UNCHANGED <<todo, left, rem>>

(* ServicesStopped gets s whether or not the commands succeeded. *)
DisableUnauthorized(s) ==
    /\ s \in unit /\ unit' = {}
    /\ PassStep("disable", IF left = {s} THEN "running" ELSE "stop")
    /\ left' = (IF left = {s} THEN Declared ELSE left \ {s})
    /\ rem' = [rem EXCEPT !.stopped = @ \cup {s}]
    /\ \/ Succeeds /\ Disable(s)
       \/ Fails /\ KeepsNode
    /\ UNCHANGED todo

FixRunningUpOnly(s) == \* Mutant: a service recorded as stopped is not stopped
    /\ PassStep("running", "boot") /\ s \in left /\ unit' = {s}
    /\ IF m.svcs[s].running => s \in Seen(active)
         THEN KeepsNode /\ UNCHANGED <<rem, trouble>>
       ELSE \/ Succeeds /\ Start(s) /\ rem' = [rem EXCEPT !.started = @ \cup {s}]
            \/ Fails /\ KeepsNode /\ UNCHANGED rem
    /\ UNCHANGED <<todo, left>>
(* Then the declared ones, in the order of the manifest: is-active and the *)
(* command that follows it, is-enabled and the command that follows it.  A *)
(* query that breaks makes the service look down: if it is down it changes *)
(* nothing, if it is up it may be started once more.                       *)
QueryBreaks(up, recorded, reported) ==
    /\ Breaks /\ up /\ KeepsNode
    /\ rem' = IF recorded /\ access = "root" THEN reported ELSE rem

FixRunning(s) ==
    LET up == s \in Seen(active)
        started == [rem EXCEPT !.started = @ \cup {s}]
    IN /\ PassStep("running", "boot") /\ s \in left /\ unit' = {s}
       /\ \/ m.svcs[s].running = up /\ KeepsNode /\ UNCHANGED <<rem, trouble>>
          \/ QueryBreaks(up, m.svcs[s].running, started)
          \/ /\ m.svcs[s].running /\ ~up
             /\ \/ Succeeds /\ Start(s) /\ rem' = started
                \/ Fails /\ KeepsNode /\ UNCHANGED rem
          \/ /\ ~m.svcs[s].running /\ up
             /\ rem' = [rem EXCEPT !.stopped = @ \cup {s}]
             /\ \/ Succeeds /\ Stop(s)
                \/ Fails /\ KeepsNode
       /\ UNCHANGED <<todo, left>>

FixEnabled(s) ==
    LET up == s \in Seen(enabled)
        restored == [rem EXCEPT !.enabled = @ \cup {s}]
    IN /\ PassStep("boot", "running") /\ s \in unit /\ unit' = {} /\ left' = left \ {s}
       /\ \/ m.svcs[s].enabled = up /\ KeepsNode /\ UNCHANGED <<rem, trouble>>
          \/ QueryBreaks(up, m.svcs[s].enabled, restored)
          \/ /\ m.svcs[s].enabled /\ ~up
             /\ \/ Succeeds /\ Enable(s) /\ rem' = restored
                \/ Fails /\ KeepsNode /\ UNCHANGED rem
          \/ /\ ~m.svcs[s].enabled /\ up
             /\ rem' = [rem EXCEPT !.disabled = @ \cup {s}]
             /\ \/ Succeeds /\ Disable(s)
                \/ Fails /\ KeepsNode
       /\ UNCHANGED todo

PassDone == (pc = "running" /\ left = {}) \/ pc = "done"

(* The command line checks again and prints that verdict. *)
EndPass ==
    /\ PassDone
    /\ IF mode = "once" THEN pc' = "packages" /\ mode' = "recheck" /\ Load /\ UNCHANGED devs
       ELSE Rest
    /\ rem' = Nothing /\ before' = NoNode /\ lost' = {}
    /\ UNCHANGED <<node, setting, writer, loop, events>>

Agent ==
    \/ BeginCheck \/ NotFound \/ CheckPackages \/ CheckServices
    \/ CheckUnauthorizedPackages \/ CheckUnauthorizedServices \/ Decide
    \/ ListForRemoval \/ RemoveTogether \/ Autoremove \/ Relist
    \/ \E p \in Packages : RemovePackage(p)
    \/ ListForStopping \/ EndPass
    \/ \E s \in Services : StopUnauthorized(s) \/ DisableUnauthorized(s)
                           \/ FixRunning(s) \/ FixEnabled(s)
-----------------------------------------------------------------------------
(* Anybody else: the package manager installs or upgrades with what the    *)
(* new version needs, removes with dependents, on Debian with or without   *)
(* their configuration; an operator turns services on and off.             *)
InstallFrom(archive, p) ==
    LET there == Installed \ {p}
        ver == [q \in Packages |-> IF q \in there THEN version[q] ELSE archive[q]]
        installed == there \cup Closure({p}, ver)
    IN /\ version' = [q \in Packages |-> IF q \in installed THEN ver[q] ELSE version[q]]
       /\ residual' = residual \ installed

RemoveByHand(p) ==
    LET gone == Dependents({p}) IN
       \E kept \in IF KeepsConfiguration THEN {{}, gone} ELSE {{}} :
           /\ version' = [q \in Packages |-> IF q \in gone \ kept THEN Absent ELSE version[q]]
           /\ residual' = residual \cup kept

Drift ==
    /\ Event /\ disturbed' = TRUE
    /\ \/ \E archive \in Archives, p \in Packages :
             /\ p \notin Installed \/ version[p] # archive[p]
             /\ InstallFrom(archive, p) /\ UNCHANGED <<active, enabled>>
       \/ \E p \in Installed : RemoveByHand(p) /\ UNCHANGED <<active, enabled>>
       \/ \E s \in Services :
             /\ active' = (active \ {s}) \cup ({s} \ active)
             /\ UNCHANGED <<version, residual, enabled>>
       \/ \E s \in Services :
             /\ enabled' = (enabled \ {s}) \cup ({s} \ enabled)
             /\ UNCHANGED <<version, residual, active>>
    /\ UNCHANGED <<setting, writer, agent, failed, before, lost>>

Next == Play \/ Agent \/ Drift

(* The daemon checks at every interval and its commands return; a play     *)
(* that has begun goes on.                                                 *)
Spec == Init /\ [][Next]_vars /\ WF_vars(Agent)
-----------------------------------------------------------------------------
(* A manifest as any of its three copies may be: the file, the writer's,   *)
(* the agent's.                                                            *)
ManifestType(x) ==
    /\ x = [pkgs |-> x.pkgs, svcs |-> x.svcs, pkgSnap |-> x.pkgSnap, svcSnap |-> x.svcSnap]
    /\ DOMAIN x.pkgs \subseteq Packages
    /\ \A p \in DOMAIN x.pkgs : x.pkgs[p] \in Versions \cup {Absent}
    /\ DOMAIN x.svcs \subseteq Services
    /\ \A s \in DOMAIN x.svcs : x.svcs[s] \in [running : BOOLEAN, enabled : BOOLEAN]
    /\ x.pkgSnap \subseteq Packages /\ x.svcSnap \subseteq Services

(* Types of the node, the manifest and the agent's loops: the loop over    *)
(* declared services only meets names of the manifest that was loaded.     *)
TypeOK ==
    /\ version \in [Packages -> Versions \cup {Absent}]
    /\ residual \subseteq (IF KeepsConfiguration THEN Known ELSE {})
    /\ active \subseteq Services /\ enabled \subseteq Services
    /\ <<manager, access>> \in Hosts
    /\ manifest = NoManifest \/ ManifestType(manifest)
    /\ ManifestType(draft) /\ ManifestType(m)
    /\ play \in {"idle", "collectPackages", "collectServices", "listPackages",
                 "listServices", "write"}
    /\ mode \in {"daemon", "once", "recheck"}
    /\ todo \subseteq Packages
    /\ left \subseteq (IF pc \in {"remove", "autoremove", "relist"} THEN Packages
                      ELSE IF pc \in {"running", "boot"} THEN Declared ELSE Services)
    /\ unit \subseteq (IF pc = "boot" THEN Declared ELSE Services)
    /\ rem \in [removed : SUBSET Packages, started : SUBSET Services,
               stopped : SUBSET Services, enabled : SUBSET Services,
               disabled : SUBSET Services]
    /\ lost \subseteq Packages

(* A clean verdict is a true one, if the node rested while it was made:    *)
(* declared packages are known in their version, even if a query broke,    *)
(* and installed, unless one was removed and its configuration left, which *)
(* only Debian's manager does and which escapes the check; services        *)
(* declared running or enabled are so, whatever systemd would tell the     *)
(* agent.  Those can escape only through a command that broke,             *)
(* unauthorized packages and services also through a denied listing.       *)
CleanIsTrue ==
    pc = "verdict" /\ devs = {} /\ ~disturbed =>
        /\ \A p \in DOMAIN m.pkgs :
              /\ p \in Installed \/ (KeepsConfiguration /\ p \in residual)
              /\ m.pkgs[p] \in {Absent, version[p]}
        /\ ~failed =>
              /\ \A s \in DOMAIN m.svcs : (m.svcs[s].running => s \in active)
                                       /\ (m.svcs[s].enabled => s \in enabled)
              /\ m.pkgSnap # {} => Known \subseteq m.pkgSnap
              /\ m.svcSnap # {} /\ access # "denied" => active \subseteq m.svcSnap

InRecordedState(s, running, boot) ==
    (s \in running) = m.svcs[s].running /\ (s \in boot) = m.svcs[s].enabled

(* "removes installed packages that are not in the package snapshot, ...   *)
(* and brings declared services back to their recorded running/enabled     *)
(* state": a pass of root on a node that rests, whose commands succeed,    *)
(* leaves no package outside the snapshot, whatever depends on what, every *)
(* declared service in its recorded state, and no other service running    *)
(* that is not in the snapshot.  It installs nothing: a declared package   *)
(* that is missing, or in another version, stays so.                       *)
PassEnforces ==
    PassDone /\ access = "root" /\ ~disturbed /\ ~failed =>
        /\ m.pkgSnap # {} => Installed \subseteq m.pkgSnap
        /\ \A s \in Declared : InRecordedState(s, active, enabled)
        /\ m.svcSnap # {} => active \subseteq m.svcSnap \cup Declared

(* A pass on a node that is as recorded changes nothing, not even through  *)
(* autoremove or when commands break, and reports nothing if none does: an *)
(* operator may run -remediate on any node, and the daemon does not        *)
(* restart what runs.                                                      *)
SettledIsLeftAlone ==
    /\ PassDone /\ ~disturbed
    /\ m.pkgSnap # {} => {p \in Packages : before.version[p] # Absent} \subseteq m.pkgSnap
    /\ m.svcSnap # {} => before.active \subseteq m.svcSnap
    /\ \A s \in Declared : InRecordedState(s, before.active, before.enabled)
    => /\ lost = {} /\ version = before.version /\ active = before.active /\ enabled = before.enabled
       /\ access # "denied" /\ ~failed => rem = Nothing

(* No step of a pass takes a recorded package that was installed on        *)
(* request, or one that such a package needs, whatever else is removed and *)
(* whatever fails or changes meanwhile, as long as everything it needs in  *)
(* the version it has now is recorded too.  (An upgrade may have brought a *)
(* dependency that is not: that one goes, and the package with it.)  And   *)
(* with no snapshot, as after a listing that failed when the manifest was  *)
(* written, nothing is removed at all.                                     *)
NeededIsKept ==
    [][/\ m.pkgSnap = {} => lost' \subseteq lost
       /\ \A p \in (lost' \ lost) \cap m.pkgSnap :
             \/ ~(Closure({p}, version) \subseteq m.pkgSnap)
             \/ p \notin Closure(Installed \cap Manual \cap m.pkgSnap, version)]_vars

(* "only packages actually removed are recorded": a package reported       *)
(* removed was there and the pass took it away, and unless a listing or a  *)
(* command failed every package outside the snapshot that it took is       *)
(* reported, but for one whose configuration dpkg -r left; services        *)
(* reported started or enabled are so.                                     *)
ReportIsTrue ==
    PassDone /\ ~disturbed =>
        /\ rem.removed \subseteq lost
        /\ ~failed => lost \ (m.pkgSnap \cup residual) = rem.removed
        /\ rem.started \subseteq active /\ rem.enabled \subseteq enabled

(* What the daemon both sees and can put right. *)
Repairable(x) ==
    Unauthorized(x.pkgSnap, Installed) \cup Unauthorized(x.svcSnap, active)
    \cup {s \in DOMAIN x.svcs : (x.svcs[s].running /\ s \notin active)
                               \/ (x.svcs[s].enabled /\ s \notin enabled)}
Coherent(x) ==
    x.svcSnap # {} => \A s \in DOMAIN x.svcs : x.svcs[s].running => s \in x.svcSnap

(* With remediate = true and as root the daemon brings the node back: once *)
(* nobody changes it any more, unauthorized packages and services and      *)
(* services that were stopped or disabled are put right for good, if every *)
(* service declared running is in the service snapshot.                    *)
EventuallyEnforced ==
    <>[](access = "root" /\ manifest # NoManifest /\ Coherent(manifest))
        => <>[](manifest # NoManifest => Repairable(manifest) = {})

(* Remediate "removes installed packages that are not in the package       *)
(* snapshot": one that is in it stays.                                     *)
SnapshotKept == lost \cap m.pkgSnap = {}
=============================================================================
