--------------------------- MODULE RemediateProofs ---------------------------
(***************************************************************************)
(* Theorems about Remediate, for any packages, dependencies, failures,     *)
(* changes and manifests: types; that a pass does not take a recorded      *)
(* package somebody asked for, or one that such a package needs, while all *)
(* that it needs is recorded; that a clean verdict is true; and what a     *)
(* pass leaves behind and reports.                                         *)
(***************************************************************************)
EXTENDS Remediate, TLAPS

(* A list to remove has nothing in common with a snapshot.                 *)
ListInv ==
    pc \in {"remove", "autoremove", "relist"} =>
        m.pkgSnap # {} /\ todo \cap m.pkgSnap = {} /\ left \subseteq todo

USE DEF node, setting, writer, loop, trouble, past, agent

-----------------------------------------------------------------------------
(* What TakeOff leaves, when the configuration of kept may stay. *)
LEMMA TakeOffLeaves ==
    ASSUME TypeOK, NEW gone, NEW kept \in SUBSET (gone \cap Installed),
           kept = {} \/ KeepsConfiguration, UNCHANGED setting,
           TakeOff(gone, kept)
    PROVE  /\ version' \in [Packages -> Versions \cup {Absent}]
           /\ Known' = (Known \ gone) \cup kept
           /\ Installed' = Installed \ gone
           /\ residual' = (residual \ gone) \cup kept
           /\ residual' \subseteq (IF KeepsConfiguration' THEN Known' ELSE {})
           /\ lost' = lost \cup (gone \cap Known)
  <1>1. /\ version \in [Packages -> Versions \cup {Absent}]
        /\ residual \subseteq (IF KeepsConfiguration THEN Known ELSE {})
    BY DEF TypeOK
  <1>2. /\ version' = [p \in Packages |-> IF p \in gone \ kept THEN Absent ELSE version[p]]
        /\ residual' = (residual \ gone) \cup kept /\ lost' = lost \cup (gone \cap Known)
    BY DEF TakeOff
  <1>3. version' \in [Packages -> Versions \cup {Absent}]
    BY <1>1, <1>2
  <1>4. Known' = Known \ (gone \ kept)
    BY <1>1, <1>2 DEF Known
  <1>5. kept \subseteq gone \cap Known
    BY DEF Installed
  <1>6. Known' = (Known \ gone) \cup kept
    BY <1>4, <1>5
  <1>7. KeepsConfiguration' = KeepsConfiguration
    BY DEF KeepsConfiguration
  <1>8. Installed' = Known' \ residual'
    BY DEF Installed
  <1> QED
    BY <1>1, <1>2, <1>3, <1>5, <1>6, <1>7, <1>8 DEF Installed

LEMMA FreshType == ManifestType(Fresh) /\ Fresh.pkgSnap = {}
  BY SMT DEF Fresh, ManifestType

LEMMA RecordedPackagesType ==
    ASSUME NEW v \in [Packages -> Versions \cup {Absent}]
    PROVE  /\ DOMAIN RecordedPackages(v) \subseteq Packages
           /\ \A p \in DOMAIN RecordedPackages(v) :
                 RecordedPackages(v)[p] \in Versions \cup {Absent}
  BY RemediateAssumption, SMT DEF RemediateAssumption, RecordedPackages

LEMMA RecordedServicesType ==
    ASSUME NEW running, NEW boot
    PROVE  /\ DOMAIN RecordedServices(running, boot) \subseteq Services
           /\ \A s \in DOMAIN RecordedServices(running, boot) :
                 RecordedServices(running, boot)[s] \in [running : BOOLEAN, enabled : BOOLEAN]
  BY RemediateAssumption, SMT DEF RemediateAssumption, RecordedServices

LEMMA RecordedAtType ==
    ASSUME NEW n \in Nodes
    PROVE  /\ ManifestType(RecordedAt(n))
           /\ RecordedAt(n).pkgSnap = {p \in Packages : n.version[p] # Absent}
  <1>1. /\ n.version \in [Packages -> Versions \cup {Absent}]
        /\ n.active \subseteq Services
    BY RemediateAssumption, SMT DEF RemediateAssumption
  <1>2. /\ DOMAIN RecordedPackages(n.version) \subseteq Packages
        /\ \A p \in DOMAIN RecordedPackages(n.version) :
              RecordedPackages(n.version)[p] \in Versions \cup {Absent}
    BY <1>1, RecordedPackagesType
  <1>3. /\ DOMAIN RecordedServices(n.active, n.enabled) \subseteq Services
        /\ \A s \in DOMAIN RecordedServices(n.active, n.enabled) :
              RecordedServices(n.active, n.enabled)[s] \in [running : BOOLEAN, enabled : BOOLEAN]
    BY RecordedServicesType
  <1> QED
    BY <1>1, <1>2, <1>3, SMT DEF RecordedAt, ManifestType

-----------------------------------------------------------------------------
LEMMA InitType == Init => TypeOK
  <1> SUFFICES ASSUME Init PROVE TypeOK
    OBVIOUS
  <1>1. PICK n \in Nodes : version = n.version /\ active = n.active /\ enabled = n.enabled
    BY DEF Init
  <1>2. /\ version \in [Packages -> Versions \cup {Absent}]
        /\ active \subseteq Services /\ enabled \subseteq Services
        /\ residual = {}
    BY <1>1, RemediateAssumption, SMT DEF RemediateAssumption, Init
  <1>3. manifest = NoManifest \/ ManifestType(manifest)
    BY RecordedAtType DEF Init
  <1>4. ManifestType(draft) /\ ManifestType(m)
    BY FreshType DEF Init
  <1>5. <<manager, access>> \in Hosts
    <2>1. PICK h \in Hosts : manager = h[1] /\ access = h[2]
      BY DEF Init
    <2>2. h = <<h[1], h[2]>>
      BY <2>1, RemediateAssumption, SMT DEF RemediateAssumption
    <2> QED
      BY <2>1, <2>2
  <1> QED
    BY <1>2, <1>3, <1>4, <1>5, SMT DEF Init, TypeOK, Nothing

(* The writer of the manifest keeps the types. *)
LEMMA PlayType == TypeOK /\ Play => TypeOK'
  <1> SUFFICES ASSUME TypeOK, Play PROVE TypeOK'
    OBVIOUS
  <1> USE DEF PlayStep, Answers, Breaks, Event
  <1>1. UNCHANGED <<node, setting, agent, lost>>
    BY DEF Play, Generate, RecordEnd, CollectPackages, CollectServices,
           ListInstalledPackages, ListActiveServices, WriteManifest
  <1>2. /\ ManifestType(draft')
        /\ manifest' = NoManifest \/ ManifestType(manifest')
        /\ play' \in {"idle", "collectPackages", "collectServices", "listPackages",
                      "listServices", "write"}
    <2>0. ManifestType(draft) /\ (manifest = NoManifest \/ ManifestType(manifest))
          /\ version \in [Packages -> Versions \cup {Absent}] /\ active \subseteq Services
      BY DEF TypeOK
    <2>1. CASE Generate
      BY <2>0, <2>1, FreshType DEF Generate
    <2>2. CASE RecordEnd
      BY <2>0, <2>2, FreshType DEF RecordEnd
    <2>3. CASE CollectPackages
      <3>1. PICK v \in [Packages -> Versions \cup {Absent}] :
                draft' = [draft EXCEPT !.pkgs = RecordedPackages(v)]
        BY <2>0, <2>3 DEF CollectPackages
      <3>2. UNCHANGED manifest /\ play' = "collectServices"
        BY <2>3 DEF CollectPackages
      <3> QED
        BY <2>0, <3>1, <3>2, RecordedPackagesType, SMT DEF ManifestType
    <2>4. CASE CollectServices
      BY <2>0, <2>4, RecordedServicesType, SMT DEF CollectServices, ManifestType
    <2>5. CASE ListInstalledPackages
      BY <2>0, <2>5, SMT DEF ListInstalledPackages, ManifestType, Known
    <2>6. CASE ListActiveServices
      BY <2>0, <2>6, SMT DEF ListActiveServices, ManifestType
    <2>7. CASE WriteManifest
      BY <2>0, <2>7, FreshType DEF WriteManifest
    <2> QED
      BY <2>1, <2>2, <2>3, <2>4, <2>5, <2>6, <2>7 DEF Play
  <1> QED
    BY <1>1, <1>2, SMT DEF TypeOK, Declared, Known, KeepsConfiguration

(* Checks read, and load or forget the manifest. *)
Checks ==
    \/ BeginCheck \/ NotFound \/ CheckPackages \/ CheckServices
    \/ CheckUnauthorizedPackages \/ CheckUnauthorizedServices \/ Decide \/ EndPass

LEMMA ChecksType == TypeOK /\ Checks => TypeOK'
  <1> SUFFICES ASSUME TypeOK, Checks PROVE TypeOK'
    OBVIOUS
  <1>1. UNCHANGED <<node, setting, writer, loop>>
    BY DEF Checks, BeginCheck, NotFound, CheckPackages, CheckServices, vars, CheckStep,
           CheckUnauthorizedPackages, CheckUnauthorizedServices, Decide, EndPass
  <1>2. /\ ManifestType(m') /\ mode' \in {"daemon", "once", "recheck"}
        /\ (rem' = rem /\ lost' = lost) \/ (rem' = Nothing /\ lost' = {})
    BY FreshType DEF Checks, BeginCheck, NotFound, CheckPackages, CheckServices, vars,
           CheckStep, CheckUnauthorizedPackages, CheckUnauthorizedServices, Decide,
           EndPass, Load, Rest, TypeOK
  <1>3. \/ pc' \notin {"remove", "autoremove", "relist", "running", "boot"}
           /\ (left = {} \/ pc \notin {"remove", "autoremove", "relist", "running", "boot"})
           /\ pc # "boot"
        \/ UNCHANGED vars
    BY DEF Checks, BeginCheck, NotFound, CheckPackages, CheckServices,
           CheckStep, CheckUnauthorizedPackages, CheckUnauthorizedServices, Decide,
           EndPass, Load, Rest, PassDone, FirstStep
  <1> QED
    BY <1>1, <1>2, <1>3, SMT DEF TypeOK, Declared, Nothing, vars, Known, KeepsConfiguration

(* A step of Remediate: the part about packages, then that about services. *)
Removing ==
    \/ ListForRemoval \/ RemoveTogether \/ Autoremove \/ Relist
    \/ \E p \in Packages : RemovePackage(p)
Serving ==
    \/ ListForStopping
    \/ \E s \in Services : StopUnauthorized(s) \/ DisableUnauthorized(s)
                           \/ FixRunning(s) \/ FixEnabled(s)

(* The packages that one step of a pass removes. *)
Removal(gone) ==
    \/ gone = {}
    \/ manager = "apt" /\ pc = "remove" /\ \E part \in SUBSET todo : gone = Dependents(part)
    \/ pc = "autoremove" /\ gone = Orphans
    \/ pc = "remove" /\ manager = "dnf" /\ \E p \in left : gone = Dependents({p})
    \/ pc = "remove" /\ manager = "dpkg" /\ \E p \in left : gone = {p} \cap Installed

LEMMA RemovingTakes ==
    ASSUME Removing
    PROVE  \/ KeepsNode
           \/ \E gone : \E kept \in SUBSET (gone \cap Installed) :
                 /\ Removal(gone) /\ (kept = {} \/ KeepsConfiguration)
                 /\ UNCHANGED setting /\ TakeOff(gone, kept)
  <1> DEFINE Takes == \E gone : \E kept \in SUBSET (gone \cap Installed) :
                 /\ Removal(gone) /\ (kept = {} \/ KeepsConfiguration)
                 /\ UNCHANGED setting /\ TakeOff(gone, kept)
  <1>1. ASSUME NEW gone, Removal(gone), Purge(gone), UNCHANGED setting PROVE Takes
    <2>1. {} \in SUBSET (gone \cap Installed) /\ TakeOff(gone, {})
      BY <1>1 DEF Purge
    <2> QED
      BY <1>1, <2>1
  <1>2. CASE RemoveTogether
    <2>1. PICK part \in SUBSET todo : Purge(Dependents(part))
      BY <1>2 DEF RemoveTogether
    <2>2. Removal(Dependents(part)) /\ UNCHANGED setting
      BY <1>2 DEF RemoveTogether, Removal, PassStep
    <2> QED
      BY <1>1, <2>1, <2>2
  <1>3. CASE Autoremove
    <2>1. KeepsNode \/ Purge(Orphans)
      BY <1>3 DEF Autoremove
    <2>2. Removal(Orphans) /\ UNCHANGED setting
      BY <1>3 DEF Autoremove, Removal, PassStep
    <2> QED
      BY <1>1, <2>1, <2>2
  <1>4. ASSUME NEW p \in Packages, RemovePackage(p) PROVE KeepsNode \/ Takes
    <2>1. KeepsNode \/ RemoveOne(p)
      BY <1>4 DEF RemovePackage
    <2>2. pc = "remove" /\ p \in left /\ UNCHANGED setting
      BY <1>4 DEF RemovePackage, PassStep
    <2>3. CASE manager = "dnf" /\ Purge(Dependents({p}))
      BY <1>1, <2>2, <2>3 DEF Removal
    <2>4. CASE manager = "dpkg"
               /\ \E kept \in SUBSET ({p} \cap Installed) : TakeOff({p} \cap Installed, kept)
      <3>1. PICK kept \in SUBSET ({p} \cap Installed) : TakeOff({p} \cap Installed, kept)
        BY <2>4
      <3>2. kept \in SUBSET (({p} \cap Installed) \cap Installed)
        OBVIOUS
      <3>3. Removal({p} \cap Installed) /\ KeepsConfiguration
        BY <2>2, <2>4 DEF Removal, KeepsConfiguration
      <3> QED
        BY <2>2, <3>1, <3>2, <3>3
    <2> QED
      BY <2>1, <2>3, <2>4 DEF RemoveOne
  <1> QED
    BY <1>2, <1>3, <1>4 DEF Removing, ListForRemoval, Relist

LEMMA RemovingRemoves ==
    ASSUME TypeOK, Removing
    PROVE  \E gone : \E kept \in SUBSET (gone \cap Installed) :
              /\ Removal(gone)
              /\ version' \in [Packages -> Versions \cup {Absent}]
              /\ Known' = (Known \ gone) \cup kept
              /\ Installed' = Installed \ gone
              /\ residual' = (residual \ gone) \cup kept
              /\ residual' \subseteq (IF KeepsConfiguration' THEN Known' ELSE {})
              /\ lost' = lost \cup (gone \cap Known)
  <1>1. CASE KeepsNode
    <2>1. {} \in SUBSET ({} \cap Installed) /\ Removal({})
      BY DEF Removal
    <2>2. /\ version \in [Packages -> Versions \cup {Absent}]
          /\ residual \subseteq (IF KeepsConfiguration THEN Known ELSE {})
      BY DEF TypeOK
    <2>3. /\ version' = version /\ residual' = residual /\ lost' = lost
          /\ Known' = Known /\ Installed' = Installed
      BY <1>1 DEF KeepsNode, Known, Installed
    <2>4. KeepsConfiguration' = KeepsConfiguration
      BY DEF Removing, ListForRemoval, RemoveTogether, Autoremove, Relist, RemovePackage,
             PassStep, KeepsConfiguration
    <2> QED
      BY <2>1, <2>2, <2>3, <2>4
  <1>2. CASE \E gone : \E kept \in SUBSET (gone \cap Installed) :
                 /\ Removal(gone) /\ (kept = {} \/ KeepsConfiguration)
                 /\ UNCHANGED setting /\ TakeOff(gone, kept)
    BY <1>2, TakeOffLeaves
  <1> QED
    BY <1>1, <1>2, RemovingTakes

LEMMA RemovingType == TypeOK /\ Removing => TypeOK'
  <1> SUFFICES ASSUME TypeOK, Removing PROVE TypeOK'
    OBVIOUS
  <1>0. /\ version \in [Packages -> Versions \cup {Absent}]
        /\ todo \subseteq Packages /\ lost \subseteq Packages
    BY DEF TypeOK
  <1>1. /\ UNCHANGED <<setting, writer, mode, m, active, enabled, unit>>
        /\ pc \in {"list", "remove", "autoremove", "relist"}
        /\ pc' \in {"remove", "autoremove", "relist", "listServices"}
    BY DEF Removing, ListForRemoval, RemoveTogether, Autoremove, Relist, RemovePackage,
           RemoveOne, PassStep, KeepsNode, Purge, TakeOff
  <1>2. Known \subseteq Packages
    BY DEF Known
  <1>3. /\ version' \in [Packages -> Versions \cup {Absent}]
        /\ residual' \subseteq (IF KeepsConfiguration' THEN Known' ELSE {})
        /\ lost' \subseteq Packages
    BY <1>0, <1>2, RemovingRemoves
  <1>4. /\ todo' \subseteq Packages
        /\ pc' \in {"remove", "autoremove", "relist"} => left' \subseteq Packages
        /\ pc' = "listServices" => left' \subseteq Services
        /\ rem' = rem \/ rem' = [rem EXCEPT !.removed = todo \ Known]
    <2>1. CASE ListForRemoval
      BY <1>0, <1>2, <2>1 DEF ListForRemoval, PassStep, Unauthorized, TypeOK
    <2>2. CASE RemoveTogether \/ Autoremove
      BY <1>0, <2>2 DEF RemoveTogether, Autoremove, PassStep, TypeOK
    <2>3. CASE Relist
      BY <2>3 DEF Relist, PassStep
    <2>4. ASSUME NEW p \in Packages, RemovePackage(p)
          PROVE  /\ todo' \subseteq Packages
                 /\ pc' \in {"remove", "autoremove", "relist"} => left' \subseteq Packages
                 /\ pc' # "listServices" /\ rem' = rem
      BY <1>0, <2>4 DEF RemovePackage, PassStep, TypeOK
    <2> QED
      BY <2>1, <2>2, <2>3, <2>4 DEF Removing
  <1> QED
    BY <1>0, <1>1, <1>3, <1>4, SMT DEF TypeOK, Declared

LEMMA ServingType == TypeOK /\ Serving => TypeOK'
  <1> SUFFICES ASSUME TypeOK, Serving PROVE TypeOK'
    OBVIOUS
  <1> USE DEF PassStep, KeepsNode, QueryBreaks, Start, Stop, Enable, Disable
  <1>0. Declared \subseteq Services
    BY DEF TypeOK, ManifestType, Declared
  <1>1. UNCHANGED <<setting, writer, mode, m, version, residual, lost, todo>>
    BY DEF Serving, ListForStopping, StopUnauthorized, DisableUnauthorized, FixRunning,
           FixEnabled
  <1>2. /\ active' \subseteq Services /\ enabled' \subseteq Services
    BY SMT DEF TypeOK, Serving, ListForStopping, StopUnauthorized, DisableUnauthorized,
               FixRunning, FixEnabled
  <1> DEFINE LoopsTyped ==
        /\ pc \in {"stop", "disable", "running", "boot"}
        /\ left \subseteq (IF pc \in {"running", "boot"} THEN Declared ELSE Services)
        /\ unit \subseteq (IF pc = "boot" THEN Declared ELSE Services)
  <1>3. LoopsTyped'
    <2>0. Declared' = Declared
      BY <1>1 DEF Declared
    <2>1. CASE ListForStopping
      BY <1>0, <2>0, <2>1, SMT DEF ListForStopping, Unauthorized, Seen, TypeOK
    <2>2. ASSUME NEW s \in Services, StopUnauthorized(s) \/ DisableUnauthorized(s)
          PROVE  LoopsTyped'
      BY <1>0, <2>0, <2>2, SMT DEF StopUnauthorized, DisableUnauthorized, TypeOK
    <2>3. ASSUME NEW s \in Services, FixRunning(s) \/ FixEnabled(s)
          PROVE  LoopsTyped'
      BY <1>0, <2>0, <2>3, SMT DEF FixRunning, FixEnabled, TypeOK
    <2> QED
      BY <2>1, <2>2, <2>3 DEF Serving
  <1>4. rem' \in [removed : SUBSET Packages, started : SUBSET Services,
                  stopped : SUBSET Services, enabled : SUBSET Services,
                  disabled : SUBSET Services]
    BY SMT DEF TypeOK, Serving, ListForStopping, StopUnauthorized, DisableUnauthorized,
               FixRunning, FixEnabled
  <1> QED
    BY <1>0, <1>1, <1>2, <1>3, <1>4, SMT DEF TypeOK, Declared, Known, KeepsConfiguration

(* Whoever installs or removes keeps a version for what dpkg still knows.  *)
LEMMA InstallType ==
    ASSUME TypeOK, UNCHANGED setting,
           NEW archive \in Archives, NEW p \in Packages, InstallFrom(archive, p)
    PROVE  /\ version' \in [Packages -> Versions \cup {Absent}]
           /\ residual' \subseteq (IF KeepsConfiguration' THEN Known' ELSE {})
  <1>1. /\ version \in [Packages -> Versions \cup {Absent}]
        /\ residual \subseteq (IF KeepsConfiguration THEN Known ELSE {})
        /\ archive \in [Packages -> Versions]
    BY RemediateAssumption DEF RemediateAssumption, TypeOK
  <1>2. PICK ver, installed :
            /\ ver \in [Packages -> Versions \cup {Absent}]
            /\ version' = [q \in Packages |-> IF q \in installed THEN ver[q] ELSE version[q]]
            /\ residual' = residual \ installed
    <2> DEFINE ver == [q \in Packages |-> IF q \in Installed \ {p} THEN version[q]
                                         ELSE archive[q]]
               installed == (Installed \ {p}) \cup Closure({p}, ver)
    <2>1. ver \in [Packages -> Versions \cup {Absent}]
      BY <1>1
    <2>2. /\ version' = [q \in Packages |-> IF q \in installed THEN ver[q] ELSE version[q]]
          /\ residual' = residual \ installed
      BY Zenon DEF InstallFrom
    <2> HIDE DEF ver, installed
    <2> QED
      BY <2>1, <2>2
  <1>3. KeepsConfiguration' = KeepsConfiguration
    BY DEF KeepsConfiguration
  <1> QED
    BY <1>1, <1>2, <1>3 DEF Known

LEMMA RemoveByHandType ==
    ASSUME TypeOK, UNCHANGED setting, NEW p \in Installed, RemoveByHand(p)
    PROVE  /\ version' \in [Packages -> Versions \cup {Absent}]
           /\ residual' \subseteq (IF KeepsConfiguration' THEN Known' ELSE {})
  <1>1. /\ version \in [Packages -> Versions \cup {Absent}]
        /\ residual \subseteq (IF KeepsConfiguration THEN Known ELSE {})
    BY DEF TypeOK
  <1>2. PICK kept \in IF KeepsConfiguration THEN {{}, Dependents({p})} ELSE {{}} :
            /\ version' = [q \in Packages |-> IF q \in Dependents({p}) \ kept THEN Absent
                                              ELSE version[q]]
            /\ residual' = residual \cup kept
    BY DEF RemoveByHand
  <1> DEFINE gone == Dependents({p})
  <1>4. gone \subseteq Known \ residual
    BY DEF Dependents, Installed
  <1> HIDE DEF gone
  <1>3. KeepsConfiguration' = KeepsConfiguration
    BY DEF KeepsConfiguration
  <1>5. CASE kept = {} /\ version' = [q \in Packages |-> IF q \in gone THEN Absent
                                                      ELSE version[q]]
    <2>1. residual' = residual
      BY <1>2, <1>5
    <2> QED
      BY <1>1, <1>3, <1>4, <1>5, <2>1 DEF Known
  <1>6. CASE KeepsConfiguration /\ kept = gone
    <2>1. version' = version /\ residual' = residual \cup gone
      BY <1>1, <1>2, <1>6 DEF gone
    <2> QED
      BY <1>1, <1>3, <1>4, <1>6, <2>1 DEF Known
  <1> QED
    BY <1>2, <1>5, <1>6 DEF gone

LEMMA DriftType == TypeOK /\ Drift => TypeOK'
  <1> SUFFICES ASSUME TypeOK, Drift PROVE TypeOK'
    OBVIOUS
  <1>1. UNCHANGED <<setting, writer, agent, lost>>
    BY DEF Drift
  <1>2. /\ version' \in [Packages -> Versions \cup {Absent}]
        /\ residual' \subseteq (IF KeepsConfiguration' THEN Known' ELSE {})
        /\ active' \subseteq Services /\ enabled' \subseteq Services
    <2> DEFINE Kept == UNCHANGED <<active, enabled>>
    <2>0. /\ version \in [Packages -> Versions \cup {Absent}]
          /\ residual \subseteq (IF KeepsConfiguration THEN Known ELSE {})
          /\ active \subseteq Services /\ enabled \subseteq Services
      BY DEF TypeOK
    <2>1. CASE \E archive \in Archives, p \in Packages : InstallFrom(archive, p) /\ Kept
      BY <1>1, <2>0, <2>1, InstallType
    <2>2. CASE \E p \in Installed : RemoveByHand(p) /\ Kept
      BY <1>1, <2>0, <2>2, RemoveByHandType
    <2>3. CASE \E s \in Services :
                  /\ active' = (active \ {s}) \cup ({s} \ active)
                  /\ UNCHANGED <<version, residual, enabled>>
      BY <1>1, <2>0, <2>3 DEF Known, KeepsConfiguration
    <2>4. CASE \E s \in Services :
                  /\ enabled' = (enabled \ {s}) \cup ({s} \ enabled)
                  /\ UNCHANGED <<version, residual, active>>
      BY <1>1, <2>0, <2>4 DEF Known, KeepsConfiguration
    <2> QED
      BY <2>1, <2>2, <2>3, <2>4 DEF Drift
  <1> QED
    BY <1>1, <1>2, SMT DEF TypeOK, Declared

LEMMA NextSplit == Next <=> Play \/ Checks \/ Removing \/ Serving \/ Drift
  BY DEF Next, Agent, Checks, Removing, Serving

(* The node, the manifest in its three copies and the agent's loops keep   *)
(* their types; in particular the loop over the declared services only     *)
(* meets names of the manifest it was loaded from, whatever is written or  *)
(* changed meanwhile.                                                      *)
THEOREM RemediateTypes == Spec => []TypeOK
  <1>1. Init => TypeOK
    BY InitType
  <1>2. TypeOK /\ [Next]_vars => TypeOK'
    <2>1. TypeOK /\ Next => TypeOK'
      BY NextSplit, PlayType, ChecksType, RemovingType, ServingType, DriftType
    <2>2. TypeOK /\ UNCHANGED vars => TypeOK'
      BY DEF TypeOK, vars, Declared, Known, KeepsConfiguration
    <2> QED
      BY <2>1, <2>2
  <1> QED
    BY <1>1, <1>2, PTL DEF Spec
-----------------------------------------------------------------------------
LEMMA ListRemoving == ASSUME ListInv, Removing PROVE ListInv'
  <1>1. CASE ListForRemoval
    BY <1>1 DEF ListForRemoval, ListInv, PassStep, Unauthorized
  <1>2. CASE RemoveTogether \/ Autoremove \/ Relist
    BY <1>2 DEF RemoveTogether, Autoremove, Relist, ListInv, PassStep
  <1>3. ASSUME NEW p \in Packages, RemovePackage(p) PROVE ListInv'
    BY <1>3 DEF RemovePackage, ListInv, PassStep
  <1> QED
    BY <1>1, <1>2, <1>3 DEF Removing

LEMMA ListOthers == ASSUME ListInv, Play \/ Checks \/ Serving \/ Drift PROVE ListInv'
  <1>1. CASE Play \/ Drift
    <2>1. UNCHANGED agent
      BY <1>1 DEF Drift, Play, Generate, RecordEnd, CollectPackages, CollectServices, PlayStep,
           ListInstalledPackages, ListActiveServices, WriteManifest
    <2> QED
      BY <2>1 DEF ListInv
  <1>2. CASE Checks
    <2>1. pc' \notin {"remove", "autoremove", "relist"} \/ UNCHANGED vars
      BY <1>2 DEF Checks, BeginCheck, NotFound, CheckPackages, CheckServices, CheckStep,
           CheckUnauthorizedPackages, CheckUnauthorizedServices, Decide, EndPass, Load, Rest,
           FirstStep
    <2> QED
      BY <2>1 DEF ListInv, vars
  <1>3. CASE Serving
    <2>1. pc' \notin {"remove", "autoremove", "relist"}
      BY <1>3 DEF Serving, ListForStopping, StopUnauthorized, DisableUnauthorized,
           FixRunning, FixEnabled, PassStep
    <2> QED
      BY <2>1 DEF ListInv
  <1> QED
    BY <1>1, <1>2, <1>3

RemediateInv == TypeOK /\ ListInv

(* What a pass is about to remove is outside the snapshot, whatever is     *)
(* changed or written meanwhile, and without a snapshot it removes nothing.*)
THEOREM RemediateInvariant == Spec => []RemediateInv
  <1>1. Init => RemediateInv
    BY InitType DEF RemediateInv, ListInv, Init
  <1>2. RemediateInv /\ [Next]_vars => RemediateInv'
    <2>1. RemediateInv /\ Next => RemediateInv'
      BY NextSplit, PlayType, ChecksType, RemovingType, ServingType, DriftType,
         ListRemoving, ListOthers DEF RemediateInv
    <2>2. RemediateInv /\ UNCHANGED vars => RemediateInv'
      BY DEF RemediateInv, TypeOK, ListInv, vars, Declared, Known, KeepsConfiguration
    <2> QED
      BY <2>1, <2>2
  <1> QED
    BY <1>1, <1>2, PTL DEF Spec

-----------------------------------------------------------------------------
(* What a package needs is complete in its dependencies and holds it.      *)
LEMMA ClosureIsComplete ==
    ASSUME NEW S \in SUBSET Packages, NEW ver
    PROVE  S \subseteq Closure(S, ver) /\ Complete(Closure(S, ver), ver)
  <1> DEFINE Spares == {spare \in SUBSET (Packages \ S) : Complete(Packages \ spare, ver)}
  <1>0. Closure(S, ver) = Packages \ UNION Spares
    BY DEF Closure
  <1>1. S \subseteq Closure(S, ver)
    BY <1>0
  <1>2. ASSUME NEW p \in Closure(S, ver), ver[p] \in Versions, NEW q \in Needs[p][ver[p]]
        PROVE  q \in Closure(S, ver)
    <2>1. p \in Packages /\ Needs[p][ver[p]] \subseteq Packages
      BY <1>0, <1>2, RemediateAssumption DEF RemediateAssumption
    <2>2. ASSUME NEW spare \in Spares, q \in spare PROVE FALSE
      <3>1. p \in Packages \ spare
        BY <1>0, <1>2, <2>1, <2>2
      <3>2. Needs[p][ver[p]] \subseteq Packages \ spare
        BY <1>2, <2>2, <3>1 DEF Complete
      <3> QED
        BY <1>2, <2>2, <3>2
    <2> QED
      BY <1>0, <1>2, <2>1, <2>2
  <1> QED
    BY <1>1, <1>2 DEF Complete

(* The more there is to be kept, the less can be spared. *)
LEMMA ClosureGrows ==
    ASSUME NEW S, NEW T \in SUBSET Packages, S \subseteq T, NEW ver
    PROVE  Closure(S, ver) \subseteq Closure(T, ver)
  BY DEF Closure

(* apt and dnf take along no package whose needs have nothing to do with   *)
(* what they are asked to remove.                                          *)
LEMMA DependentsNeed ==
    ASSUME NEW gone, NEW p \in Installed, p \in Dependents(gone)
    PROVE  Closure({p}, version) \cap gone # {}
  <1> SUFFICES ASSUME Closure({p}, version) \cap gone = {} PROVE FALSE
    OBVIOUS
  <1>1. {p} \in SUBSET Packages
    BY DEF Installed, Known
  <1>2. /\ p \in Closure({p}, version) /\ Complete(Closure({p}, version), version)
    BY <1>1, ClosureIsComplete
  <1>3. Closure({p}, version) \in SUBSET (Packages \ gone)
    BY DEF Closure
  <1> QED
    BY <1>2, <1>3 DEF Dependents

KeepsNeeded ==
    /\ m.pkgSnap = {} => lost' \subseteq lost
    /\ \A p \in (lost' \ lost) \cap m.pkgSnap :
          \/ ~(Closure({p}, version) \subseteq m.pkgSnap)
          \/ p \notin Closure(Installed \cap Manual \cap m.pkgSnap, version)

LEMMA RemovingKeepsNeeded == RemediateInv /\ Removing => KeepsNeeded
  <1> SUFFICES ASSUME RemediateInv, Removing PROVE KeepsNeeded
    OBVIOUS
  <1>1. PICK gone : Removal(gone) /\ lost' = lost \cup (gone \cap Known)
    BY RemovingRemoves DEF RemediateInv
  <1>2. pc \in {"remove", "autoremove"} =>
            m.pkgSnap # {} /\ todo \cap m.pkgSnap = {} /\ left \subseteq todo
    BY DEF RemediateInv, ListInv
  <1>3. m.pkgSnap = {} => gone = {}
    BY <1>1, <1>2 DEF Removal
  <1>4. ASSUME NEW p \in gone \cap Known \cap m.pkgSnap,
               Closure({p}, version) \subseteq m.pkgSnap
        PROVE  p \notin Closure(Installed \cap Manual \cap m.pkgSnap, version)
    <2>1. ASSUME NEW part \in SUBSET todo, gone = Dependents(part), pc = "remove" PROVE FALSE
      <3>1. part \cap m.pkgSnap = {}
        BY <1>2, <2>1
      <3>2. p \in Installed
        BY <1>4, <2>1, <3>1 DEF Dependents
      <3>3. Closure({p}, version) \cap part # {}
        BY <1>4, <2>1, <3>2, DependentsNeed
      <3> QED
        BY <1>4, <3>1, <3>3
    <2>2. ASSUME pc = "remove", NEW r \in left, gone = {r} \cap Installed PROVE FALSE
      BY <1>2, <1>4, <2>2
    <2>3. ASSUME pc = "remove", NEW r \in left, gone = Dependents({r}) PROVE FALSE
      BY <1>2, <2>1, <2>3
    <2>4. gone = Orphans
      BY <1>1, <1>4, <2>1, <2>2, <2>3 DEF Removal
    <2>5. Installed \cap Manual \in SUBSET Packages
      BY DEF Installed, Known
    <2>6. Closure(Installed \cap Manual \cap m.pkgSnap, version)
             \subseteq Closure(Installed \cap Manual, version)
      BY <2>5, ClosureGrows
    <2> QED
      BY <1>4, <2>4, <2>6 DEF Orphans
  <1> QED
    BY <1>1, <1>3, <1>4 DEF KeepsNeeded

(* An enforcement pass never takes a recorded package that was installed   *)
(* on request, nor what such a package needs, as long as all the package   *)
(* taken needs is recorded as well, and without a snapshot it takes        *)
(* nothing.  What can be lost of the recorded ones are the orphans of      *)
(* apt-get autoremove and what has come to need an unrecorded package.     *)
THEOREM NeededAreKept == Spec => NeededIsKept
  <1>1. RemediateInv /\ [Next]_vars => [KeepsNeeded]_vars
    <2>1. CASE UNCHANGED vars
      BY <2>1
    <2>2. ASSUME Play \/ Checks \/ Serving \/ Drift PROVE lost' \subseteq lost
      BY <2>2 DEF Play, Generate, RecordEnd, CollectPackages, CollectServices, PlayStep,
           ListInstalledPackages, ListActiveServices, WriteManifest,
           Checks, BeginCheck, NotFound, CheckPackages, CheckServices, vars, CheckStep,
           CheckUnauthorizedPackages, CheckUnauthorizedServices, Decide, EndPass,
           Serving, ListForStopping, StopUnauthorized, DisableUnauthorized, FixRunning,
           FixEnabled, QueryBreaks, PassStep, KeepsNode, Start, Stop, Enable, Disable,
           Drift
    <2>3. CASE Play \/ Checks \/ Serving \/ Drift
      BY <2>2, <2>3 DEF KeepsNeeded
    <2> QED
      BY <2>1, <2>3, NextSplit, RemovingKeepsNeeded
  <1> QED
    BY <1>1, RemediateInvariant, PTL DEF Spec, NeededIsKept, KeepsNeeded

-----------------------------------------------------------------------------
(* Outside the middle of a pass there is nothing to report yet, and on a   *)
(* Mac there never is: its pass is over at once.                           *)
Acted == {"remove", "autoremove", "relist", "listServices", "stop", "disable",
          "running", "boot"}
Passing == Acted \cup {"list", "done"}

RestInv ==
    /\ pc \notin Acted => rem = Nothing /\ lost = {}
    /\ manager = "brew" => access = "reader"
    /\ pc = "done" => manager = "brew"

PackagesInOrder == \A p \in DOMAIN m.pkgs :
    version[p] # Absent /\ m.pkgs[p] \in {Absent, version[p]}
ServicesInOrder == \A s \in DOMAIN m.svcs :
    (m.svcs[s].running => s \in active) /\ (m.svcs[s].enabled => s \in enabled)
NoExtraPackages == m.pkgSnap # {} => Installed \subseteq m.pkgSnap
NoExtraKnown == m.pkgSnap # {} => Known \subseteq m.pkgSnap

(* What a check that has found nothing so far has made sure of. *)
CleanInv ==
    ~disturbed /\ devs = {} =>
        /\ pc \in {"services", "extraPackages", "extraServices", "verdict"} => PackagesInOrder
        /\ ~failed =>
              /\ pc \in {"extraPackages", "extraServices", "verdict"} => ServicesInOrder
              /\ pc \in {"extraServices", "verdict"} => NoExtraKnown
              /\ pc = "verdict" /\ m.svcSnap # {} /\ access # "denied"
                    => active \subseteq m.svcSnap

(* What a pass of root has put right so far. *)
EnforceInv ==
    access = "root" /\ ~disturbed /\ ~failed =>
        /\ pc = "remove" => Installed \ m.pkgSnap \subseteq left
        /\ pc \in Acted \ {"remove"} => NoExtraPackages
        /\ pc = "stop" => active \ m.svcSnap \subseteq left
        /\ pc = "disable" => active \ m.svcSnap \subseteq left \ unit
        /\ pc \in {"running", "boot"} =>
              /\ m.svcSnap # {} => active \subseteq m.svcSnap \cup Declared
              /\ \A s \in Declared \ left : InRecordedState(s, active, enabled)
        /\ pc = "boot" => \A s \in unit : (s \in active) = m.svcs[s].running

(* A pass that began on a node in order. *)
Settled ==
    /\ m.pkgSnap # {} => {p \in Packages : before.version[p] # Absent} \subseteq m.pkgSnap
    /\ m.svcSnap # {} => before.active \subseteq m.svcSnap
    /\ \A s \in Declared : InRecordedState(s, before.active, before.enabled)

(* Such a pass takes the short way and leaves the node as it was. *)
SettledInv ==
    ~disturbed /\ pc \in Passing /\ Settled =>
        /\ pc \in {"list", "listServices", "running", "boot", "done"}
        /\ version = before.version /\ active = before.active /\ enabled = before.enabled
        /\ lost = {}
        /\ access # "denied" /\ ~failed => rem = Nothing

(* What a pass has taken and what it reports. *)
ReportInv ==
    ~disturbed =>
        /\ pc \in {"remove", "autoremove", "relist"} =>
              /\ rem = Nothing /\ Known \cap lost \subseteq residual
              /\ (Known \cup lost) \ m.pkgSnap = todo
        /\ rem.removed \subseteq lost
        /\ pc \in {"listServices", "stop", "disable", "running", "boot"} /\ ~failed =>
              lost \ (m.pkgSnap \cup residual) = rem.removed
        /\ pc \in {"listServices", "stop", "disable"} => rem.started = {} /\ rem.enabled = {}
        /\ rem.started \subseteq active /\ rem.enabled \subseteq enabled
        /\ \A s \in rem.started : s \in Declared /\ m.svcs[s].running
        /\ \A s \in rem.enabled : s \in Declared /\ m.svcs[s].enabled


OutcomeInv == RestInv /\ CleanInv /\ EnforceInv /\ SettledInv /\ ReportInv

USE DEF Acted, Passing

LEMMA OutcomeInit == Init => OutcomeInv
  <1>1. \A h \in Hosts : h[1] = "brew" => h[2] = "reader"
    BY RemediateAssumption DEF RemediateAssumption
  <1>2. Init => RestInv
    BY <1>1, SMT DEF Init, RestInv
  <1> QED
    BY <1>2, SMT DEF Init, OutcomeInv, CleanInv, EnforceInv, SettledInv, ReportInv, Nothing

(* The writer changes nothing the agent looks at, and whoever changes the  *)
(* node disturbs it.                                                       *)
LEMMA OthersOutcome ==
    ASSUME OutcomeInv, Play \/ Drift
    PROVE  OutcomeInv'
  <1>1. /\ UNCHANGED <<agent, setting, before, lost>>
        /\ ~disturbed' => UNCHANGED node /\ ~disturbed
        /\ ~failed' => ~failed
    BY DEF Play, Generate, RecordEnd, CollectPackages, CollectServices, PlayStep, Event,
           ListInstalledPackages, ListActiveServices, WriteManifest, Drift, Answers, Breaks
  <1>2. RestInv'
    BY <1>1 DEF OutcomeInv, RestInv
  <1>3. CleanInv'
    BY <1>1 DEF OutcomeInv, CleanInv, PackagesInOrder, ServicesInOrder, NoExtraKnown, Known
  <1>4. EnforceInv'
    BY <1>1 DEF OutcomeInv, EnforceInv, NoExtraPackages, Installed, Known, Declared,
                InRecordedState
  <1>5. SettledInv'
    BY <1>1 DEF OutcomeInv, SettledInv, Settled, Declared, InRecordedState
  <1>6. ReportInv'
    BY <1>1 DEF OutcomeInv, ReportInv, Known, Declared
  <1> QED
    BY <1>2, <1>3, <1>4, <1>5, <1>6 DEF OutcomeInv

(* A check adds what it finds; finding nothing means there is nothing.     *)
LEMMA NoPackageDeviations ==
    ASSUME NEW v, PackageDeviations(v) = {}
    PROVE  \A p \in DOMAIN m.pkgs : v[p] # Absent /\ m.pkgs[p] \in {Absent, v[p]}
  <1> SUFFICES ASSUME NEW p \in DOMAIN m.pkgs
               PROVE  v[p] # Absent /\ m.pkgs[p] \in {Absent, v[p]}
    OBVIOUS
  <1>1. <<"missing", p>> \notin PackageDeviations(v)
        /\ <<"version_mismatch", p>> \notin PackageDeviations(v)
    OBVIOUS
  <1>2. v[p] # Absent
    BY <1>1 DEF PackageDeviations
  <1>3. m.pkgs[p] \in {Absent, v[p]}
    BY <1>1, <1>2 DEF PackageDeviations
  <1> QED
    BY <1>2, <1>3

LEMMA NoneNotAsRecorded ==
    ASSUME NEW inactive, NEW disabled, NEW running, NEW boot,
           NotAsRecorded(inactive, disabled, running, boot) = {}
    PROVE  \A s \in DOMAIN m.svcs : /\ m.svcs[s].running => s \in running
                                    /\ m.svcs[s].enabled => s \in boot
  BY DEF NotAsRecorded

LEMMA NoServiceDeviations ==
    ASSUME ServiceDeviations(active, enabled) = {}
    PROVE  ServicesInOrder
  BY NoneNotAsRecorded
  DEF ServiceDeviations, BrewDeviations, SystemctlDeviations, Seen, ServicesInOrder

LEMMA NoneUnauthorized ==
    ASSUME NEW kind, NEW allowed, NEW current,
           ({kind} \X Unauthorized(allowed, current)) = {}
    PROVE  allowed # {} => current \subseteq allowed
  <1> SUFFICES ASSUME allowed # {}, NEW x \in current, x \notin allowed PROVE FALSE
    OBVIOUS
  <1>1. <<kind, x>> \in {kind} \X Unauthorized(allowed, current)
    BY DEF Unauthorized
  <1> QED
    BY <1>1

LEMMA ChecksClean ==
    ASSUME TypeOK, CleanInv, Checks
    PROVE  CleanInv'
  <1>0. CASE UNCHANGED vars
    BY <1>0 DEF vars, CleanInv, PackagesInOrder, ServicesInOrder, NoExtraKnown, Known
  <1>1. CASE BeginCheck \/ Decide \/ EndPass
    <2>1. pc' \in {"packages", "list", "done", "idle"}
      BY <1>1 DEF BeginCheck, Decide, EndPass, Rest, FirstStep
    <2> QED
      BY <2>1 DEF CleanInv
  <1>2. ASSUME UNCHANGED <<node, setting, m, disturbed>>, failed => failed',
               \E found : devs' = devs \cup found
        PROVE  /\ PackagesInOrder => PackagesInOrder'
               /\ ServicesInOrder => ServicesInOrder'
               /\ NoExtraKnown => NoExtraKnown'
               /\ ~disturbed' => ~disturbed
               /\ ~failed' => ~failed
               /\ devs' = {} => devs = {}
    <2>1. PackagesInOrder => PackagesInOrder'
      BY <1>2 DEF PackagesInOrder
    <2>2. ServicesInOrder => ServicesInOrder'
      BY <1>2 DEF ServicesInOrder
    <2>3. NoExtraKnown => NoExtraKnown'
      BY <1>2 DEF NoExtraKnown, Known
    <2>4. devs' = {} => devs = {}
      BY <1>2
    <2> QED
      BY <1>2, <2>1, <2>2, <2>3, <2>4
  <1>3. CASE CheckPackages
    <2>1. /\ UNCHANGED <<node, setting, m, disturbed>> /\ pc' = "services"
          /\ failed => failed'
      BY <1>3 DEF CheckPackages, CheckStep, Answers, Breaks
    <2>2. PICK v : /\ devs' = devs \cup PackageDeviations(v)
                   /\ v = version \/ \E p \in DOMAIN m.pkgs : v = [version EXCEPT ![p] = Absent]
      BY <1>3 DEF CheckPackages
    <2>3. devs' = {} => PackagesInOrder
      <3> SUFFICES ASSUME devs' = {} PROVE PackagesInOrder
        OBVIOUS
      <3>1. PackageDeviations(v) = {}
        BY <2>2
      <3>2. \A p \in DOMAIN m.pkgs : v[p] # Absent /\ m.pkgs[p] \in {Absent, v[p]}
        BY <3>1, NoPackageDeviations
      <3>3. v = version
        <4> SUFFICES ASSUME NEW p \in DOMAIN m.pkgs, v = [version EXCEPT ![p] = Absent]
                     PROVE  FALSE
          BY <2>2
        <4>1. p \in Packages /\ version \in [Packages -> Versions \cup {Absent}]
          BY DEF TypeOK, ManifestType
        <4> QED
          BY <3>2, <4>1
      <3> QED
        BY <3>2, <3>3 DEF PackagesInOrder
    <2> QED
      BY <1>2, <2>1, <2>2, <2>3 DEF CleanInv
  <1>4. CASE CheckServices
    <2>1. /\ UNCHANGED <<node, setting, m, disturbed>>
          /\ pc = "services" /\ pc' = "extraPackages"
          /\ failed => failed'
      BY <1>4 DEF CheckServices, CheckStep, Answers, Breaks
    <2>2. PICK found : /\ devs' = devs \cup found
                       /\ ~failed' => found = ServiceDeviations(active, enabled)
      BY <1>4 DEF CheckServices, Breaks
    <2>3. devs' = {} /\ ~failed' => ServicesInOrder
      BY <2>2, NoServiceDeviations
    <2> QED
      BY <1>2, <2>1, <2>2, <2>3 DEF CleanInv
  <1>5. CASE CheckUnauthorizedPackages
    <2>0. failed => failed'
      BY <1>5, Zenon DEF CheckUnauthorizedPackages, Answers, Breaks
    <2>1. /\ UNCHANGED <<node, setting, m, disturbed>>
          /\ pc = "extraPackages" /\ pc' = "extraServices"
          /\ failed => failed'
      BY <1>5, <2>0 DEF CheckUnauthorizedPackages, CheckStep
    <2>2. PICK found : /\ devs' = devs \cup found
                       /\ ~failed' => found = ({"unauthorized package"}
                                                 \X Unauthorized(m.pkgSnap, Known))
      <3>1. devs \cup {} = devs
        OBVIOUS
      <3> QED
        BY <1>5, <3>1 DEF CheckUnauthorizedPackages, Breaks
    <2>3. devs' = {} /\ ~failed' => NoExtraKnown
      BY <2>2, NoneUnauthorized DEF NoExtraKnown
    <2> QED
      BY <1>2, <2>1, <2>2, <2>3 DEF CleanInv
  <1>6. CASE CheckUnauthorizedServices
    <2>0. failed => failed'
      BY <1>6, Zenon DEF CheckUnauthorizedServices, Answers, Breaks
    <2>1. /\ UNCHANGED <<node, setting, m, disturbed>>
          /\ pc = "extraServices" /\ pc' = "verdict"
          /\ failed => failed'
      BY <1>6, <2>0 DEF CheckUnauthorizedServices, CheckStep
    <2>2. PICK found : /\ devs' = devs \cup found
                       /\ ~failed' => found = ({"unauthorized service"}
                                                 \X Unauthorized(m.svcSnap, Seen(active)))
      <3>1. devs \cup {} = devs
        OBVIOUS
      <3> QED
        BY <1>6, <3>1 DEF CheckUnauthorizedServices, Breaks
    <2>3. devs' = {} /\ ~failed' /\ m.svcSnap # {} /\ access # "denied"
             => active \subseteq m.svcSnap
      BY <2>2, NoneUnauthorized DEF Seen
    <2> QED
      BY <1>2, <2>1, <2>2, <2>3 DEF CleanInv
  <1> QED
    BY <1>0, <1>1, <1>3, <1>4, <1>5, <1>6 DEF Checks, NotFound

(* A pass begins with the node it finds and ends with an empty report.     *)
LEMMA ChecksOutcome ==
    ASSUME TypeOK, OutcomeInv, Checks
    PROVE  OutcomeInv'
  <1>0. CASE UNCHANGED vars
    <2>1. UNCHANGED <<agent, node, setting, past, failed>>
      BY <1>0 DEF vars
    <2>2. RestInv' /\ SettledInv'
      BY <2>1 DEF OutcomeInv, RestInv, SettledInv, Settled, Declared, InRecordedState
    <2>3. CleanInv'
      BY <2>1 DEF OutcomeInv, CleanInv, PackagesInOrder, ServicesInOrder,
                  NoExtraKnown, Known
    <2>4. EnforceInv' /\ ReportInv'
      BY <2>1 DEF OutcomeInv, EnforceInv, ReportInv, NoExtraPackages, Installed, Known,
                  Declared, InRecordedState
    <2> QED
      BY <2>2, <2>3, <2>4 DEF OutcomeInv
  <1>1. CASE ~UNCHANGED vars
    <2>1. /\ UNCHANGED <<node, setting, loop>>
          /\ pc \notin Acted \/ EndPass
          /\ pc' \notin Acted /\ (pc' = "done" => manager = "brew")
          /\ (rem' = rem /\ lost' = lost) \/ (rem' = Nothing /\ lost' = {})
          /\ EndPass => rem' = Nothing /\ lost' = {}
          /\ pc' \in Passing =>
                before' = [version |-> version, active |-> active, enabled |-> enabled]
      BY <1>1 DEF Checks, BeginCheck, NotFound, CheckPackages, CheckServices, CheckStep,
           CheckUnauthorizedPackages, CheckUnauthorizedServices, Decide, EndPass, Load,
           Rest, FirstStep
    <2>2. RestInv'
      BY <2>1 DEF OutcomeInv, RestInv
    <2>3. CleanInv'
      BY ChecksClean DEF OutcomeInv
    <2>4. rem' = Nothing /\ lost' = {}
      BY <2>1, <2>2 DEF RestInv
    <2>5. EnforceInv'
      BY <2>1 DEF EnforceInv
    <2>6. SettledInv'
      <3>1. pc' \in Passing =>
               version' = before'.version /\ active' = before'.active /\ enabled' = before'.enabled
        BY <2>1
      <3> QED
        BY <2>1, <2>4, <3>1 DEF SettledInv
    <2>7. ReportInv'
      BY <2>1, <2>4 DEF ReportInv, Nothing
    <2> QED
      BY <2>2, <2>3, <2>5, <2>6, <2>7 DEF OutcomeInv
  <1> QED
    BY <1>0, <1>1

-----------------------------------------------------------------------------
(* A step that ends without a failure is one that succeeded, for root.     *)
LEMMA RemovingKeeps ==
    ASSUME Removing
    PROVE  /\ UNCHANGED <<setting, m, before, disturbed, active, enabled, unit>>
           /\ pc \in {"list", "remove", "autoremove", "relist"}
           /\ pc' \in {"remove", "autoremove", "relist", "listServices"}
           /\ pc = "list" => pc' \in {"remove", "listServices"}
  BY DEF Removing, ListForRemoval, RemoveTogether, Autoremove, Relist, RemovePackage,
         RemoveOne, PassStep, KeepsNode, Purge, TakeOff

LEMMA RemovingFailed == ASSUME Removing PROVE failed => failed'
  <1>1. Answers \/ Succeeds \/ Fails \/ Breaks => (failed => failed')
    BY Zenon DEF Answers, Succeeds, Fails, Breaks
  <1> QED
    BY <1>1 DEF Removing, ListForRemoval, RemoveTogether, Autoremove, Relist, RemovePackage

LEMMA RemovingEnforces ==
    ASSUME TypeOK, ListInv, EnforceInv, Removing
    PROVE  EnforceInv'
  <1> SUFFICES ASSUME access' = "root", ~disturbed', ~failed' PROVE EnforceInv'
    BY DEF EnforceInv
  <1>0. /\ UNCHANGED <<setting, m, before, disturbed, active, enabled, unit>>
        /\ pc' \in {"remove", "autoremove", "relist", "listServices"}
    BY RemovingKeeps
  <1>1. /\ access = "root" /\ ~disturbed /\ ~failed
        /\ ~Breaks /\ ~Fails
    BY <1>0, RemovingFailed DEF Breaks, Fails
  <1> SUFFICES /\ pc' = "remove" => Installed' \ m.pkgSnap \subseteq left'
               /\ pc' # "remove" => NoExtraPackages'
    BY <1>0 DEF EnforceInv
  <1>3. CASE ListForRemoval
    BY <1>0, <1>1, <1>3
    DEF ListForRemoval, Unauthorized, PassStep, KeepsNode, NoExtraPackages, Installed, Known
  <1>4. CASE RemoveTogether
    <2>1. /\ pc = "remove" /\ pc' = "autoremove" /\ Purge(Dependents(todo))
      BY <1>1, <1>4 DEF RemoveTogether, PassStep
    <2>2. Installed' = Installed \ Dependents(todo)
      BY <1>0, <2>1, TakeOffLeaves DEF Purge
    <2>3. Installed \ m.pkgSnap \subseteq todo
      BY <1>1, <2>1 DEF EnforceInv, ListInv
    <2> QED
      BY <1>0, <2>1, <2>2, <2>3 DEF NoExtraPackages, Dependents
  <1>5. CASE Autoremove
    <2>1. pc = "autoremove" /\ pc' = "relist" /\ Purge(Orphans)
      BY <1>1, <1>5 DEF Autoremove, PassStep
    <2>2. Installed' = Installed \ Orphans
      BY <1>0, <2>1, TakeOffLeaves DEF Purge
    <2> QED
      BY <1>0, <1>1, <2>1, <2>2 DEF EnforceInv, NoExtraPackages
  <1>6. CASE Relist
    BY <1>0, <1>1, <1>6
    DEF Relist, PassStep, KeepsNode, EnforceInv, NoExtraPackages, Installed, Known
  <1>7. ASSUME NEW p \in Packages, RemovePackage(p)
        PROVE  /\ pc' = "remove" => Installed' \ m.pkgSnap \subseteq left'
               /\ pc' # "remove" => NoExtraPackages'
    <2>1. RemoveOne(p)
      BY <1>1, <1>7 DEF RemovePackage
    <2>2. PICK gone : Installed' = Installed \ gone /\ p \notin Installed'
      <3>1. CASE manager = "dnf" /\ Purge(Dependents({p}))
        <4>1. Installed' = Installed \ Dependents({p})
          BY <1>0, <3>1, TakeOffLeaves DEF Purge
        <4> QED
          BY <4>1 DEF Dependents
      <3>2. CASE manager = "dpkg"
                 /\ \E kept \in SUBSET ({p} \cap Installed) : TakeOff({p} \cap Installed, kept)
        <4>1. PICK kept \in SUBSET (({p} \cap Installed) \cap Installed) :
                  TakeOff({p} \cap Installed, kept)
          BY <3>2
        <4>2. Installed' = Installed \ ({p} \cap Installed)
          BY <1>0, <3>2, <4>1, TakeOffLeaves DEF KeepsConfiguration
        <4> QED
          BY <4>2
      <3> QED
        BY <2>1, <3>1, <3>2 DEF RemoveOne
    <2>3. /\ pc = "remove" /\ left' = left \ {p}
          /\ pc' = IF left = {p} THEN "relist" ELSE "remove"
      BY <1>7 DEF RemovePackage, PassStep
    <2>4. Installed \ m.pkgSnap \subseteq left
      BY <1>1, <2>3 DEF EnforceInv
    <2> QED
      BY <1>0, <2>2, <2>3, <2>4 DEF NoExtraPackages
  <1> QED
    BY <1>3, <1>4, <1>5, <1>6, <1>7 DEF Removing

LEMMA RemovingSettled ==
    ASSUME OutcomeInv, Removing
    PROVE  SettledInv'
  <1> SUFFICES ASSUME ~disturbed', Settled'
               PROVE  /\ pc' \in {"list", "listServices", "running", "boot", "done"}
                      /\ UNCHANGED node
                      /\ rem' = rem
                      /\ version = before.version /\ active = before.active
                      /\ enabled = before.enabled
                      /\ lost' = {}
                      /\ access # "denied" /\ ~failed => rem = Nothing
    BY RemovingKeeps, RemovingFailed DEF SettledInv
  <1>1. UNCHANGED <<m, before, disturbed>>
    BY RemovingKeeps
  <1>2. ~disturbed /\ Settled
    BY <1>1 DEF Settled, Declared, InRecordedState
  <1>3. /\ pc = "list" /\ version = before.version
        /\ active = before.active /\ enabled = before.enabled
        /\ lost = {}
        /\ access # "denied" /\ ~failed => rem = Nothing
    BY <1>2, RemovingKeeps DEF OutcomeInv, SettledInv
  <1>4. ListForRemoval
    BY <1>3 DEF Removing, RemoveTogether, Autoremove, Relist, RemovePackage, PassStep
  <1>5. Unauthorized(m.pkgSnap, Known) = {}
    BY <1>2, <1>3 DEF Settled, Known, Unauthorized
  <1> QED
    BY <1>3, <1>4, <1>5 DEF ListForRemoval, PassStep, KeepsNode

LEMMA RemovingReports ==
    ASSUME TypeOK, ListInv, OutcomeInv, Removing
    PROVE  ReportInv'
  <1> SUFFICES ASSUME ~disturbed' PROVE ReportInv'
    BY DEF ReportInv
  <1>0. /\ UNCHANGED <<setting, m, before, disturbed, active, enabled, unit>>
        /\ ~disturbed
        /\ pc = "list" => rem = Nothing /\ lost = {}
        /\ pc \in {"remove", "autoremove", "relist"} =>
              /\ rem = Nothing /\ Known \cap lost \subseteq residual
              /\ (Known \cup lost) \ m.pkgSnap = todo
    BY RemovingKeeps DEF OutcomeInv, ReportInv, RestInv
  <1>1. ASSUME rem' = Nothing,
               pc' = "listServices" /\ ~failed' => lost' \ (m.pkgSnap \cup residual') = {},
               pc' # "listServices" =>
                  /\ Known' \cap lost' \subseteq residual'
                  /\ (Known' \cup lost') \ m.pkgSnap = todo'
        PROVE  ReportInv'
    BY <1>0, <1>1, RemovingKeeps DEF ReportInv, Nothing
  <1>2. CASE ListForRemoval
    <2>1. pc = "list" /\ UNCHANGED <<rem, node, lost>>
      BY <1>2 DEF ListForRemoval, PassStep, KeepsNode
    <2>2. pc' # "listServices" => todo' = Known \ m.pkgSnap
      BY <1>2 DEF ListForRemoval, PassStep, Unauthorized
    <2> QED
      BY <1>0, <1>1, <2>1, <2>2 DEF Known
  <1>3. CASE Relist
    <2>1. /\ pc = "relist" /\ pc' = "listServices" /\ UNCHANGED <<version, residual, lost>>
          /\ rem' = [rem EXCEPT !.removed = todo \ Known] \/ (rem' = rem /\ Breaks)
      BY <1>3 DEF Relist, PassStep, KeepsNode
    <2>2. CASE rem' = [rem EXCEPT !.removed = todo \ Known]
      <3>1. /\ rem'.removed = todo \ Known /\ rem'.started = {} /\ rem'.enabled = {}
        BY <1>0, <2>1, <2>2 DEF Nothing
      <3>2. rem'.removed = lost \ (m.pkgSnap \cup residual)
        <4>1. residual \subseteq Known
          BY DEF TypeOK
        <4> QED
          BY <1>0, <2>1, <3>1, <4>1
      <3> QED
        BY <1>0, <2>1, <3>1, <3>2 DEF ReportInv
    <2>3. CASE rem' = rem /\ Breaks
      <3>1. failed' /\ rem' = Nothing
        BY <1>0, <2>1, <2>3 DEF Breaks
      <3> QED
        BY <1>1, <2>1, <3>1
    <2> QED
      BY <2>1, <2>2, <2>3
  <1>4. ASSUME RemoveTogether \/ Autoremove \/ \E p \in Packages : RemovePackage(p)
        PROVE  ReportInv'
    <2>1. /\ pc \in {"remove", "autoremove"} /\ pc' # "listServices"
          /\ UNCHANGED <<rem, todo>>
      BY <1>4 DEF RemoveTogether, Autoremove, RemovePackage, PassStep
    <2>2. PICK gone, kept :
              /\ kept \subseteq gone \cap Installed
              /\ Known' = (Known \ gone) \cup kept
              /\ residual' = (residual \ gone) \cup kept
              /\ lost' = lost \cup (gone \cap Known)
      BY RemovingRemoves
    <2>3. /\ Known' \cap lost' \subseteq residual'
          /\ Known' \cup lost' = Known \cup lost
      BY <1>0, <2>1, <2>2 DEF Installed
    <2> QED
      BY <1>0, <1>1, <2>1, <2>3
  <1> QED
    BY <1>2, <1>3, <1>4 DEF Removing

LEMMA RemovingOutcome ==
    ASSUME TypeOK, ListInv, OutcomeInv, Removing
    PROVE  OutcomeInv'
  <1>1. RestInv' /\ CleanInv'
    BY RemovingKeeps DEF OutcomeInv, RestInv, CleanInv
  <1> QED
    BY <1>1, RemovingEnforces, RemovingSettled, RemovingReports DEF OutcomeInv

-----------------------------------------------------------------------------
LEMMA ServingKeeps ==
    ASSUME Serving
    PROVE  /\ UNCHANGED <<setting, m, before, disturbed, version, residual, lost>>
           /\ pc \in {"listServices", "stop", "disable", "running", "boot"}
           /\ pc' \in {"stop", "disable", "running", "boot"}
           /\ Declared' = Declared
  BY DEF Serving, ListForStopping, StopUnauthorized, DisableUnauthorized, FixRunning,
         FixEnabled, QueryBreaks, PassStep, KeepsNode, Start, Stop, Enable, Disable, Declared

LEMMA ServingFailed == ASSUME Serving PROVE failed => failed'
  <1>1. Answers \/ Succeeds \/ Fails \/ Breaks => (failed => failed')
    BY Zenon DEF Answers, Succeeds, Fails, Breaks
  <1>2. UNCHANGED trouble => (failed => failed')
    OBVIOUS
  <1> QED
    BY <1>1, <1>2 DEF Serving, ListForStopping, StopUnauthorized, DisableUnauthorized,
                      FixRunning, FixEnabled, QueryBreaks

LEMMA ServingEnforces ==
    ASSUME TypeOK, EnforceInv, Serving
    PROVE  EnforceInv'
  <1> SUFFICES ASSUME access' = "root", ~disturbed', ~failed' PROVE EnforceInv'
    BY DEF EnforceInv
  <1>0. /\ UNCHANGED <<setting, m, before, disturbed, version, residual, lost>>
        /\ pc \in {"listServices", "stop", "disable", "running", "boot"}
        /\ pc' \in {"stop", "disable", "running", "boot"}
        /\ Declared' = Declared
    BY ServingKeeps
  <1>1. /\ access = "root" /\ ~disturbed /\ ~failed
        /\ ~Breaks /\ ~Fails
        /\ \A units : Seen(units) = units
    BY <1>0, ServingFailed DEF Breaks, Fails, Seen
  <1>2. NoExtraPackages /\ NoExtraPackages'
    BY <1>0, <1>1 DEF EnforceInv, NoExtraPackages, Installed, Known
  <1> DEFINE Served ==
        /\ pc = "stop" => active \ m.svcSnap \subseteq left
        /\ pc = "disable" => active \ m.svcSnap \subseteq left \ unit
        /\ pc \in {"running", "boot"} =>
              /\ m.svcSnap # {} => active \subseteq m.svcSnap \cup Declared
              /\ \A s \in Declared \ left : InRecordedState(s, active, enabled)
        /\ pc = "boot" => \A s \in unit : (s \in active) = m.svcs[s].running
  <1>3. Served
    BY <1>1 DEF EnforceInv
  <1> SUFFICES Served'
    BY <1>0, <1>2 DEF EnforceInv
  <1>4. CASE ListForStopping
    BY <1>0, <1>1, <1>4
    DEF ListForStopping, Unauthorized, PassStep, KeepsNode, Declared
  <1>5. ASSUME NEW s \in Services, StopUnauthorized(s) PROVE Served'
    BY <1>0, <1>1, <1>3, <1>5 DEF StopUnauthorized, PassStep, Stop
  <1>6. ASSUME NEW s \in Services, DisableUnauthorized(s) PROVE Served'
    <2>1. /\ pc = "disable" /\ s \in unit /\ active' = active
          /\ pc' = IF left = {s} THEN "running" ELSE "stop"
          /\ left' = IF left = {s} THEN Declared ELSE left \ {s}
      BY <1>1, <1>6 DEF DisableUnauthorized, PassStep, Disable
    <2> QED
      BY <1>0, <1>3, <2>1
  <1>7. ASSUME NEW s \in Services, FixRunning(s) PROVE Served'
    <2>1. /\ pc = "running" /\ pc' = "boot" /\ s \in left /\ unit' = {s} /\ left' = left
          /\ s \in Declared /\ enabled' = enabled
          /\ m.svcs[s] \in [running : BOOLEAN, enabled : BOOLEAN]
      BY <1>1, <1>7
      DEF FixRunning, QueryBreaks, PassStep, KeepsNode, Start, Stop, TypeOK, ManifestType,
          Declared
    <2>2. /\ \A t \in Services \ {s} : (t \in active') = (t \in active)
          /\ (s \in active') = m.svcs[s].running
          /\ active' \subseteq active \cup {s}
      BY <1>1, <1>7, <2>1
      DEF FixRunning, QueryBreaks, PassStep, KeepsNode, Start, Stop
    <2>3. Declared \subseteq Services
      BY DEF TypeOK, ManifestType, Declared
    <2> QED
      BY <1>0, <1>3, <2>1, <2>2, <2>3 DEF InRecordedState
  <1>8. ASSUME NEW s \in Services, FixEnabled(s) PROVE Served'
    <2>1. /\ pc = "boot" /\ pc' = "running" /\ s \in unit /\ unit' = {} /\ left' = left \ {s}
          /\ s \in Declared /\ active' = active
          /\ m.svcs[s] \in [running : BOOLEAN, enabled : BOOLEAN]
      BY <1>1, <1>8
      DEF FixEnabled, QueryBreaks, PassStep, KeepsNode, Enable, Disable, TypeOK, ManifestType,
          Declared
    <2>2. /\ \A t \in Services \ {s} : (t \in enabled') = (t \in enabled)
          /\ (s \in enabled') = m.svcs[s].enabled
      BY <1>1, <1>8, <2>1
      DEF FixEnabled, QueryBreaks, PassStep, KeepsNode, Enable, Disable
    <2>3. Declared \subseteq Services
      BY DEF TypeOK, ManifestType, Declared
    <2> QED
      BY <1>0, <1>3, <2>1, <2>2, <2>3 DEF InRecordedState
  <1> QED
    BY <1>4, <1>5, <1>6, <1>7, <1>8 DEF Serving

LEMMA ServingSettled ==
    ASSUME TypeOK, OutcomeInv, Serving
    PROVE  SettledInv'
  <1>0. /\ UNCHANGED <<setting, m, before, disturbed, version, residual, lost>>
        /\ Declared' = Declared
        /\ pc \in {"listServices", "stop", "disable", "running", "boot"}
        /\ failed => failed'
    BY ServingKeeps, ServingFailed
  <1> SUFFICES ASSUME ~disturbed, Settled
               PROVE  /\ pc' \in {"running", "boot"}
                      /\ UNCHANGED node
                      /\ access # "denied" /\ ~failed' => rem' = rem
    <2>1. Settled' => Settled
      BY <1>0 DEF Settled, InRecordedState
    <2> QED
      BY <1>0, <2>1 DEF OutcomeInv, SettledInv
  <1>1. /\ pc \in {"listServices", "running", "boot"} /\ version = before.version
        /\ active = before.active /\ enabled = before.enabled
    BY <1>0 DEF OutcomeInv, SettledInv
  <1>2. \A units : IF access = "denied" THEN Seen(units) = {} ELSE Seen(units) = units
    BY DEF Seen
  <1>3. \A s \in Declared : /\ (s \in active) = m.svcs[s].running
                            /\ (s \in enabled) = m.svcs[s].enabled
    BY <1>1 DEF Settled, InRecordedState
  <1>4. Breaks => failed'
    BY DEF Breaks
  <1>5. CASE ListForStopping
    <2>1. Unauthorized(m.svcSnap, Seen(active)) = {}
      BY <1>1, <1>2 DEF Settled, Unauthorized
    <2> QED
      BY <1>0, <1>5, <2>1 DEF ListForStopping, PassStep, KeepsNode
  <1>6. ASSUME NEW s \in Services, FixRunning(s)
        PROVE  /\ pc' = "boot" /\ UNCHANGED node
               /\ access # "denied" /\ ~failed' => rem' = rem
    <2>1. /\ pc = "running" /\ s \in left
      BY <1>6 DEF FixRunning, PassStep
    <2>2. s \in Declared
      BY <2>1 DEF TypeOK
    <2> QED
      BY <1>2, <1>3, <1>4, <1>6, <2>2
      DEF FixRunning, QueryBreaks, PassStep, KeepsNode, Succeeds
  <1>7. ASSUME NEW s \in Services, FixEnabled(s)
        PROVE  /\ pc' = "running" /\ UNCHANGED node
               /\ access # "denied" /\ ~failed' => rem' = rem
    <2>1. /\ pc = "boot" /\ s \in unit
      BY <1>7 DEF FixEnabled, PassStep
    <2>2. s \in Declared
      BY <2>1 DEF TypeOK
    <2> QED
      BY <1>2, <1>3, <1>4, <1>7, <2>2
      DEF FixEnabled, QueryBreaks, PassStep, KeepsNode, Succeeds
  <1> QED
    BY <1>1, <1>5, <1>6, <1>7 DEF Serving, StopUnauthorized, DisableUnauthorized, PassStep

(* What a step on services makes of the report: it adds what it has just   *)
(* brought up, and never takes down what the manifest records as up.       *)
LEMMA ServingReports ==
    ASSUME TypeOK, OutcomeInv, Serving
    PROVE  ReportInv'
  <1>0. /\ UNCHANGED <<setting, m, before, disturbed, version, residual, lost>>
        /\ Declared' = Declared
        /\ pc \in {"listServices", "stop", "disable", "running", "boot"}
        /\ pc' \in {"stop", "disable", "running", "boot"}
        /\ failed => failed'
    BY ServingKeeps, ServingFailed
  <1>1. rem \in [removed : SUBSET Packages, started : SUBSET Services,
                 stopped : SUBSET Services, enabled : SUBSET Services,
                 disabled : SUBSET Services]
    BY DEF TypeOK
  <1> SUFFICES ASSUME ~disturbed' PROVE ReportInv'
    BY DEF ReportInv
  <1>2. /\ rem.removed \subseteq lost /\ (~failed => lost \ (m.pkgSnap \cup residual) = rem.removed)
        /\ pc \in {"listServices", "stop", "disable"} => rem.started = {} /\ rem.enabled = {}
        /\ rem.started \subseteq active /\ rem.enabled \subseteq enabled
        /\ \A s \in rem.started : s \in Declared /\ m.svcs[s].running
        /\ \A s \in rem.enabled : s \in Declared /\ m.svcs[s].enabled
    BY <1>0 DEF OutcomeInv, ReportInv
  <1>3. ASSUME rem'.removed = rem.removed,
               pc' \in {"stop", "disable"} => rem'.started = {} /\ rem'.enabled = {},
               rem'.started \subseteq active', rem'.enabled \subseteq enabled',
               \A s \in rem'.started : s \in Declared /\ m.svcs[s].running,
               \A s \in rem'.enabled : s \in Declared /\ m.svcs[s].enabled
        PROVE  ReportInv'
    BY <1>0, <1>2, <1>3 DEF ReportInv
  <1>4. CASE ListForStopping
    BY <1>2, <1>3, <1>4 DEF ListForStopping, PassStep, KeepsNode
  <1>5. ASSUME NEW s \in Services, StopUnauthorized(s) PROVE ReportInv'
    BY <1>2, <1>3, <1>5 DEF StopUnauthorized, PassStep, KeepsNode, Stop
  <1>6. ASSUME NEW s \in Services, DisableUnauthorized(s) PROVE ReportInv'
    <2>1. /\ pc = "disable" /\ active' = active
          /\ rem' = [rem EXCEPT !.stopped = @ \cup {s}]
      BY <1>6 DEF DisableUnauthorized, PassStep, KeepsNode, Disable
    <2>2. /\ rem'.removed = rem.removed
          /\ rem'.started = rem.started /\ rem'.enabled = rem.enabled
      BY <1>1, <2>1
    <2> QED
      BY <1>2, <1>3, <2>1, <2>2
  <1>7. ASSUME NEW s \in Services, FixRunning(s) PROVE ReportInv'
    <2>0. pc = "running" /\ pc' = "boot" /\ s \in left /\ enabled' = enabled
      BY <1>7 DEF FixRunning, QueryBreaks, PassStep, KeepsNode, Start, Stop
    <2>1. s \in Declared
      BY <2>0 DEF TypeOK
    <2>2. \/ /\ rem' = rem \/ rem' = [rem EXCEPT !.stopped = @ \cup {s}]
             /\ active' = active \/ (~m.svcs[s].running /\ active' = active \ {s})
          \/ /\ rem' = [rem EXCEPT !.started = @ \cup {s}] /\ m.svcs[s].running
             /\ active' = active \cup {s}
      <3>1. s \in Seen(active) => active = active \cup {s}
        BY DEF Seen
      <3> QED
        BY <1>7, <3>1 DEF FixRunning, QueryBreaks, PassStep, KeepsNode, Start, Stop
    <2>3. CASE /\ rem' = rem \/ rem' = [rem EXCEPT !.stopped = @ \cup {s}]
               /\ active' = active \/ (~m.svcs[s].running /\ active' = active \ {s})
      <3>1. /\ rem'.removed = rem.removed
            /\ rem'.started = rem.started /\ rem'.enabled = rem.enabled
        BY <1>1, <2>3
      <3>2. rem.started \subseteq active'
        BY <1>2, <2>3
      <3> QED
        BY <1>2, <1>3, <2>0, <3>1, <3>2
    <2>4. CASE /\ rem' = [rem EXCEPT !.started = @ \cup {s}] /\ m.svcs[s].running
               /\ active' = active \cup {s}
      <3>1. /\ rem'.removed = rem.removed
            /\ rem'.started = rem.started \cup {s} /\ rem'.enabled = rem.enabled
        BY <1>1, <2>4
      <3> QED
        BY <1>2, <1>3, <2>0, <2>1, <2>4, <3>1
    <2> QED
      BY <2>2, <2>3, <2>4
  <1>8. ASSUME NEW s \in Services, FixEnabled(s) PROVE ReportInv'
    <2>0. pc = "boot" /\ pc' = "running" /\ s \in unit /\ active' = active
      BY <1>8 DEF FixEnabled, QueryBreaks, PassStep, KeepsNode, Enable, Disable
    <2>1. s \in Declared
      BY <2>0 DEF TypeOK
    <2>2. \/ /\ rem' = rem \/ rem' = [rem EXCEPT !.disabled = @ \cup {s}]
             /\ enabled' = enabled \/ (~m.svcs[s].enabled /\ enabled' = enabled \ {s})
          \/ /\ rem' = [rem EXCEPT !.enabled = @ \cup {s}] /\ m.svcs[s].enabled
             /\ enabled' = enabled \cup {s}
      <3>1. s \in Seen(enabled) => enabled = enabled \cup {s}
        BY DEF Seen
      <3> QED
        BY <1>8, <3>1 DEF FixEnabled, QueryBreaks, PassStep, KeepsNode, Enable, Disable
    <2>3. CASE /\ rem' = rem \/ rem' = [rem EXCEPT !.disabled = @ \cup {s}]
               /\ enabled' = enabled \/ (~m.svcs[s].enabled /\ enabled' = enabled \ {s})
      <3>1. /\ rem'.removed = rem.removed
            /\ rem'.started = rem.started /\ rem'.enabled = rem.enabled
        BY <1>1, <2>3
      <3>2. rem.enabled \subseteq enabled'
        BY <1>2, <2>3
      <3> QED
        BY <1>2, <1>3, <2>0, <3>1, <3>2
    <2>4. CASE /\ rem' = [rem EXCEPT !.enabled = @ \cup {s}] /\ m.svcs[s].enabled
               /\ enabled' = enabled \cup {s}
      <3>1. /\ rem'.removed = rem.removed
            /\ rem'.started = rem.started /\ rem'.enabled = rem.enabled \cup {s}
        BY <1>1, <2>4
      <3> QED
        BY <1>2, <1>3, <2>0, <2>1, <2>4, <3>1
    <2> QED
      BY <2>2, <2>3, <2>4
  <1> QED
    BY <1>4, <1>5, <1>6, <1>7, <1>8 DEF Serving

LEMMA ServingOutcome ==
    ASSUME TypeOK, OutcomeInv, Serving
    PROVE  OutcomeInv'
  <1>1. RestInv' /\ CleanInv'
    BY ServingKeeps DEF OutcomeInv, RestInv, CleanInv
  <1>2. EnforceInv'
    BY ServingEnforces DEF OutcomeInv
  <1> QED
    BY <1>1, <1>2, ServingSettled, ServingReports DEF OutcomeInv

(* The inductive invariant of the check and of the pass.                   *)
THEOREM OutcomeInvariant == Spec => [](RemediateInv /\ OutcomeInv)
  <1>1. Init => OutcomeInv
    BY OutcomeInit
  <1>2. RemediateInv /\ OutcomeInv /\ [Next]_vars => OutcomeInv'
    <2>1. RemediateInv /\ OutcomeInv /\ Next => OutcomeInv'
      BY NextSplit, OthersOutcome, ChecksOutcome, RemovingOutcome, ServingOutcome
      DEF RemediateInv
    <2>2. RemediateInv /\ OutcomeInv /\ UNCHANGED vars => OutcomeInv'
      <3> SUFFICES ASSUME OutcomeInv, UNCHANGED vars PROVE OutcomeInv'
        OBVIOUS
      <3>1. UNCHANGED <<agent, node, setting, past, failed>>
        BY DEF vars
      <3>2. RestInv' /\ SettledInv'
        BY <3>1 DEF OutcomeInv, RestInv, SettledInv, Settled, Declared, InRecordedState
      <3>3. CleanInv'
        BY <3>1 DEF OutcomeInv, CleanInv, PackagesInOrder, ServicesInOrder,
                    NoExtraKnown, Known
      <3>4. EnforceInv' /\ ReportInv'
        BY <3>1 DEF OutcomeInv, EnforceInv, ReportInv, NoExtraPackages, Installed, Known,
                    Declared, InRecordedState
      <3> QED
        BY <3>2, <3>3, <3>4 DEF OutcomeInv
    <2> QED
      BY <2>1, <2>2
  <1> QED
    BY <1>1, <1>2, RemediateInvariant, PTL DEF Spec

(* A clean verdict of the agent is true of the node, if it rested while it *)
(* was made: for declared packages even when a query broke, but on Debian  *)
(* for one of which only the configuration is left; for the rest when no   *)
(* query broke and systemd let the agent ask.                              *)
THEOREM CleanVerdictsAreTrue == Spec => []CleanIsTrue
  <1>1. TypeOK /\ OutcomeInv => CleanIsTrue
    <2>1. ASSUME TypeOK, PackagesInOrder, NEW p \in DOMAIN m.pkgs
          PROVE  /\ p \in Installed \/ (KeepsConfiguration /\ p \in residual)
                 /\ m.pkgs[p] \in {Absent, version[p]}
      <3>1. p \in Known /\ m.pkgs[p] \in {Absent, version[p]}
        BY <2>1 DEF PackagesInOrder, TypeOK, ManifestType, Known
      <3>2. residual \subseteq (IF KeepsConfiguration THEN Known ELSE {})
        BY <2>1 DEF TypeOK
      <3> QED
        BY <3>1, <3>2 DEF Installed
    <2> QED
      BY <2>1 DEF OutcomeInv, CleanInv, CleanIsTrue, ServicesInOrder, NoExtraKnown
  <1> QED
    BY <1>1, OutcomeInvariant, PTL DEF RemediateInv

(* A pass of root whose commands succeed on a node that rests leaves the   *)
(* node as the manifest has it, for any dependencies and package manager.  *)
THEOREM PassesEnforce == Spec => []PassEnforces
  <1>1. OutcomeInv => PassEnforces
    <2> SUFFICES ASSUME OutcomeInv, PassDone, access = "root", ~disturbed, ~failed
                 PROVE  /\ m.pkgSnap # {} => Installed \subseteq m.pkgSnap
                        /\ \A s \in Declared : InRecordedState(s, active, enabled)
                        /\ m.svcSnap # {} => active \subseteq m.svcSnap \cup Declared
      BY DEF PassEnforces
    <2>1. pc = "running" /\ left = {}
      BY DEF OutcomeInv, RestInv, PassDone
    <2> QED
      BY <2>1 DEF OutcomeInv, EnforceInv, NoExtraPackages
  <1> QED
    BY <1>1, OutcomeInvariant, PTL

(* A pass over a node in order changes nothing and reports nothing.        *)
THEOREM OrderIsLeftAlone == Spec => []SettledIsLeftAlone
  <1>1. OutcomeInv => SettledIsLeftAlone
    BY DEF OutcomeInv, SettledInv, Settled, SettledIsLeftAlone, PassDone
  <1> QED
    BY <1>1, OutcomeInvariant, PTL

(* The report of a pass is true of the node: nothing is reported removed   *)
(* that the pass did not remove, nothing it removed is left out, and what  *)
(* it reports started or enabled is.                                       *)
THEOREM ReportsAreTrue == Spec => []ReportIsTrue
  <1>1. OutcomeInv => ReportIsTrue
    <2> SUFFICES ASSUME OutcomeInv, PassDone, ~disturbed
                 PROVE  /\ rem.removed \subseteq lost
                        /\ ~failed => lost \ (m.pkgSnap \cup residual) = rem.removed
                        /\ rem.started \subseteq active /\ rem.enabled \subseteq enabled
      BY DEF ReportIsTrue
    <2>1. pc = "done" => rem = Nothing /\ lost = {}
      BY DEF OutcomeInv, RestInv
    <2> QED
      BY <2>1 DEF OutcomeInv, ReportInv, PassDone, Nothing
  <1> QED
    BY <1>1, OutcomeInvariant, PTL
=============================================================================
