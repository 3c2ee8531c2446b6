------------------------------ MODULE Release ------------------------------
(***************************************************************************)
(* How a release is made: cmd/versionbump writes the version into five     *)
(* files, cmd/devtool builds, packages, installs and sums, and             *)
(* tools/bootstrap makes missing files.  One command runs at a time; any   *)
(* step of it may fail or be killed half way, and what it leaves behind is *)
(* what the next command starts from.                                      *)
(***************************************************************************)
EXTENDS Integers, FiniteSets, Sequences

CONSTANTS
    FirstVersion,  \* the version the project is at
    Overrides,     \* versions given as VERSION in the environment
    MaxCommands,   \* bound on the commands that are run
    MaxFaults      \* bound on failures, kills and repairs

ASSUME ReleaseAssumption ==
    /\ FirstVersion \in Nat \ {0} /\ Overrides \subseteq Nat \ {0}
    /\ MaxCommands \in Nat /\ MaxFaults \in Nat

None == 0                          \* no such file
Torn == -1                         \* written in part: no version can be read
BootstrapVersion == 1              \* 1.0.0 in the template of nfpm.yaml
Contents == Nat \cup {Torn}

\* The files that hold the version, in the order versionbump writes them.
VersionFiles == <<"VERSION", "nfpm", "manual", "devtool", "binary">>
Files == {"VERSION", "nfpm", "manual", "devtool", "binary"}

Kinds == {"tar", "deb", "rpm"}

VARIABLES
    files,      \* version in each of the version files
    config,     \* nfpm.yaml is the "repository"'s, which packs the manual page, or the
                \* one of "bootstrap", which does not
    goMod,      \* go.mod: "absent", "ready", "bare" (it requires nothing) or "torn"
    built,      \* version the binary in build/ reports
    dist,       \* artifacts in dist/
    sums,       \* artifacts SHA256SUMS has the sums of
    root,       \* what is installed: the binary and the manual page
    target,     \* the command under way, or run last
    at,         \* its next step; 0 when no command runs
    version,    \* its version: cfg.Version, or the next one for a bump
    left,       \* artifacts it still has to sum
    outcome,    \* how it ended: "none", "ok", "error", "killed"
    committed,  \* version of the last bump that succeeded
    overridden, \* the version came from the environment
    lost,       \* history: a line of SHA256SUMS could not be written
    commands, faults

tree == <<files, config, goMod>>
made == <<built, dist, sums, root>>
job  == <<target, version, overridden>>
vars == <<tree, made, job, at, left, outcome, committed, lost, commands, faults>>

-----------------------------------------------------------------------------
\* The targets

\* Faulty variants: a package is made of whatever binary is in build/; the source
\* archive, which cleans, is made last.
PackageOnly(kind) == <<kind>>
TarLast == <<"module", "compile", "deb", "module", "compile", "rpm", "clean", "tar">>

PackageSteps(kind) == <<"module", "compile", kind>>

DistSteps == <<"clean", "tar", "module", "compile", "deb", "module", "compile", "rpm">>

Steps ==
    [modulecheck |-> <<"module">>,
     build       |-> <<"module", "compile">>,
     install     |-> <<"module", "compile", "copyBinary", "copyManual">>,
     uninstall   |-> <<"removeBinary", "removeManual">>,
     clean       |-> <<"clean">>,
     deb         |-> PackageSteps("deb"),
     rpm         |-> PackageSteps("rpm"),
     tar         |-> <<"clean", "tar">>,
     dist        |-> DistSteps,
     checksums   |-> <<"create", "sum">>,
     bump        |-> VersionFiles,
     bootstrap   |-> <<"module", "config">>]
Targets == DOMAIN Steps

Pending(step) == at # 0 /\ Steps[target][at] = step

\* Faulty variant: one step too many is awaited.
DoneLate ==
    IF at > Len(Steps[target]) THEN at' = 0 /\ outcome' = "ok"
                               ELSE at' = at + 1 /\ UNCHANGED outcome

\* The step is done; behind the last one the command succeeds.
Done ==
    IF at = Len(Steps[target]) THEN at' = 0 /\ outcome' = "ok"
                               ELSE at' = at + 1 /\ UNCHANGED outcome

Refused == at' = 0 /\ outcome' = "error"

\* Faulty variant: the version is taken from the package configuration.
AfterConfig == files["nfpm"] + 1

NextVersion == files["VERSION"] + 1

\* A command begins: the version is read, from the environment (v; only artifacts
\* show it), or from the default that is compiled into devtool.  Without its
\* source it does not start, and a VERSION.txt that holds no version cannot be bumped.
Command(t, v) ==
    /\ at = 0
    /\ commands < MaxCommands
    /\ v # None => t \in {"tar", "deb", "rpm", "dist"}
    /\ commands' = commands + 1
    /\ target' = t
    /\ overridden' = (v # None)
    /\ version' = IF t = "bump" THEN NextVersion
                  ELSE IF v # None THEN v ELSE files["devtool"]
    /\ LET source == IF t = "bump" THEN "VERSION" ELSE "devtool" IN
       IF files[source] > 0 \/ t = "bootstrap"
       THEN at' = 1 /\ outcome' = "none"
       ELSE Refused
    /\ left' = {} /\ lost' = FALSE
    /\ UNCHANGED <<tree, made, committed, faults>>

-----------------------------------------------------------------------------
\* versionbump

\* The file with its version replaced; without one it stays as it is.
Updated(f) == IF files[f] > 0 THEN version ELSE files[f]

\* Faulty variant: a file in which no version is found is passed over.
NoneFound(f) == FALSE

\* No version is found in the file, or it is there already.
NoPattern(f) == Updated(f) = files[f]

\* VERSION.txt is only overwritten; in the others a pattern must match.
WriteVersion ==
    /\ target = "bump" /\ at # 0
    /\ LET f == VersionFiles[at] IN
       /\ f = "VERSION" \/ ~NoPattern(f)
       /\ files' = [files EXCEPT ![f] = Updated(f)]
    /\ Done
    /\ committed' = IF at = Len(VersionFiles) THEN version ELSE committed
    /\ UNCHANGED <<config, goMod, made, job, left, lost, commands, faults>>

NoVersionFound ==
    /\ target = "bump" /\ at > 1
    /\ NoPattern(VersionFiles[at])
    /\ Refused
    /\ UNCHANGED <<tree, made, job, left, committed, lost, commands, faults>>

-----------------------------------------------------------------------------
\* devtool and bootstrap

\* A go.mod that is there is kept, whatever is in it; one that is made requires no
\* module.
EnsureModule ==
    /\ Pending("module")
    /\ goMod' = IF goMod = "absent" THEN "bare" ELSE goMod
    /\ Done
    /\ UNCHANGED <<files, config, made, job, left, committed, lost, commands, faults>>

\* An nfpm.yaml that is made does not list the manual page.
EnsureConfig ==
    /\ Pending("config")
    /\ files' = [files EXCEPT !["nfpm"] = IF @ = None THEN BootstrapVersion ELSE @]
    /\ Done
    /\ UNCHANGED <<config, goMod, made, job, left, committed, lost, commands, faults>>

\* The linker flag names no variable, so the binary reports what the source says.
\* Without the gzip module in go.mod it is not built.
Compile ==
    /\ Pending("compile")
    /\ IF goMod = "ready" /\ files["binary"] > 0
       THEN built' = files["binary"] /\ Done
       ELSE UNCHANGED built /\ Refused
    /\ UNCHANGED <<tree, dist, sums, root, job, left, committed, lost, commands, faults>>

\* nfpm takes the package's version from nfpm.yaml, its name from devtool.  The
\* source archive holds the configuration and the manual, and no binary.
Artifact(kind, whole) ==
    [kind |-> kind, name |-> version, whole |-> whole, by |-> commands,
     control |-> files["nfpm"],
     manual |-> IF kind = "tar" \/ config = "repository" THEN files["manual"] ELSE None,
     binary |-> IF kind = "tar" THEN None ELSE built,
     agreed |-> ~overridden /\ \A f \in Files : files[f] = files["VERSION"]]

Others(kind) == {a \in dist : a.kind # kind \/ a.name # version}

Package(kind) ==
    /\ Pending(kind)
    /\ IF files["nfpm"] > 0
       THEN dist' = Others(kind) \cup {Artifact(kind, TRUE)} /\ Done
       ELSE UNCHANGED dist /\ Refused
    /\ UNCHANGED <<tree, built, sums, root, job, left, committed, lost, commands, faults>>

\* The errors of the deferred closes are ignored: an archive that is cut short
\* counts as made.
SourceTarball ==
    /\ Pending("tar")
    /\ \E whole \in BOOLEAN :
          /\ ~whole => faults < MaxFaults
          /\ faults' = IF whole THEN faults ELSE faults + 1
          /\ dist' = Others("tar") \cup {Artifact("tar", whole)}
    /\ Done
    /\ UNCHANGED <<tree, built, sums, root, job, left, committed, lost, commands>>

Clean ==
    /\ Pending("clean")
    /\ built' = None /\ dist' = {} /\ sums' = {}
    /\ Done
    /\ UNCHANGED <<tree, root, job, left, committed, lost, commands, faults>>

\* Faulty variant: a file that is there is kept, as bootstrap does.
KeptIfThere(old) == IF old = None THEN built ELSE old

Overwritten(old) == built

CopyBinary ==
    /\ Pending("copyBinary")
    /\ root' = [root EXCEPT !.binary = Overwritten(@)]
    /\ Done
    /\ UNCHANGED <<tree, built, dist, sums, job, left, committed, lost, commands, faults>>

\* A page that cannot be copied is only a warning.
CopyManual ==
    /\ Pending("copyManual")
    /\ \E page \in {files["manual"], root.manual, Torn} :
          /\ page # files["manual"] => faults < MaxFaults
          /\ faults' = IF page = files["manual"] THEN faults ELSE faults + 1
          /\ root' = [root EXCEPT !.manual = page]
    /\ Done
    /\ UNCHANGED <<tree, built, dist, sums, job, left, committed, lost, commands>>

Remove(f, step) ==
    /\ Pending(step)
    /\ root' = [root EXCEPT ![f] = None]
    /\ Done
    /\ UNCHANGED <<tree, built, dist, sums, job, left, committed, lost, commands, faults>>

\* Faulty variant: the sums are added to those of an earlier command.
Appended == sums

Created == {}

\* SHA256SUMS is created anew; the directory is read before.
CreateSums ==
    /\ Pending("create")
    /\ left' = dist
    /\ sums' = Created
    /\ Done
    /\ UNCHANGED <<tree, built, dist, root, job, committed, lost, commands, faults>>

\* One line; a write that fails is not noticed.
SumLine ==
    /\ Pending("sum")
    /\ \E a \in left, written \in BOOLEAN :
          /\ left' = left \ {a}
          /\ ~written => faults < MaxFaults
          /\ faults' = IF written THEN faults ELSE faults + 1
          /\ sums' = IF written THEN sums \cup {a} ELSE sums
          /\ lost' = (lost \/ ~written)
    /\ UNCHANGED <<tree, built, dist, root, job, at, outcome, committed, commands>>

SumsDone ==
    /\ Pending("sum")
    /\ left = {}
    /\ Done
    /\ UNCHANGED <<tree, made, job, left, committed, lost, commands, faults>>

-----------------------------------------------------------------------------
\* The environment

\* The version file a step overwrites or makes.
BeingWritten(step) ==
    IF target = "bump" THEN {step}
    ELSE IF step = "config" /\ files["nfpm"] = None THEN {"nfpm"} ELSE {}

\* What a step leaves that fails or is killed half way.
Interrupted ==
    /\ at # 0
    /\ faults < MaxFaults
    /\ faults' = faults + 1
    /\ at' = 0
    /\ outcome' \in {"error", "killed"}
    /\ LET step == Steps[target][at] IN
       /\ files' \in {files} \cup {[files EXCEPT ![f] = Torn] : f \in BeingWritten(step)}
       /\ goMod' \in IF step = "module" /\ goMod = "absent" THEN {"absent", "torn"} ELSE {goMod}
       /\ built' \in IF step \in {"compile", "clean"} THEN {built, None} ELSE {built}
       /\ dist' \in CASE step = "clean" -> SUBSET dist
                      [] step \in Kinds -> {dist, Others(step),
                                            Others(step) \cup {Artifact(step, FALSE)}}
                      [] OTHER -> {dist}
       /\ sums' \in IF step \in {"clean", "create"} THEN {sums, {}} ELSE {sums}
       /\ root' \in IF step = "copyBinary" THEN {root, [root EXCEPT !.binary = Torn]}
                    ELSE {root}
    /\ UNCHANGED <<config, job, left, committed, lost, commands>>

\* A developer takes one file back from the repository.
Restore ==
    /\ at = 0
    /\ faults < MaxFaults
    /\ faults' = faults + 1
    /\ \/ /\ \E f \in Files :
                /\ files' = [files EXCEPT ![f] = committed]
                /\ config' = IF f = "nfpm" THEN "repository" ELSE config
          /\ UNCHANGED goMod
       \/ goMod' = "ready" /\ UNCHANGED <<files, config>>
    /\ outcome' = "none"
    /\ UNCHANGED <<made, job, at, left, committed, lost, commands>>

-----------------------------------------------------------------------------

Init ==
    /\ files \in {[f \in Files |-> FirstVersion],
                  [f \in Files |-> IF f = "nfpm" THEN None ELSE FirstVersion]}
    /\ config = IF files["nfpm"] = None THEN "bootstrap" ELSE "repository"
    /\ goMod \in {"absent", "ready"}
    /\ built = None /\ dist = {} /\ sums = {} /\ root = [binary |-> None, manual |-> None]
    /\ target = "clean" /\ version = FirstVersion /\ overridden = FALSE
    /\ at = 0 /\ left = {} /\ outcome = "none" /\ committed = FirstVersion
    /\ lost = FALSE /\ commands = 0 /\ faults = 0

Next ==
    \/ \E t \in Targets, v \in Overrides \cup {None} : Command(t, v)
    \/ WriteVersion \/ NoVersionFound
    \/ EnsureModule \/ EnsureConfig \/ Compile
    \/ \E kind \in {"deb", "rpm"} : Package(kind)
    \/ SourceTarball \/ Clean
    \/ CopyBinary \/ CopyManual
    \/ Remove("binary", "removeBinary") \/ Remove("manual", "removeManual")
    \/ CreateSums \/ SumLine \/ SumsDone
    \/ Interrupted \/ Restore

Spec == Init /\ [][Next]_vars

-----------------------------------------------------------------------------
\* Properties

Artifacts ==
    [kind : Kinds, name : Nat, whole : BOOLEAN, by : Nat, control : Contents,
     manual : Contents, binary : Contents, agreed : BOOLEAN]

TypeOK ==
    /\ files \in [Files -> Contents] /\ config \in {"repository", "bootstrap"}
    /\ goMod \in {"absent", "ready", "bare", "torn"}
    /\ built \in Nat /\ dist \subseteq Artifacts /\ sums \subseteq Artifacts
    /\ root \in [binary : Contents, manual : Contents]
    /\ target \in Targets /\ at \in 0..Len(Steps[target])
    /\ version \in Contents /\ overridden \in BOOLEAN
    /\ left \subseteq dist /\ outcome \in {"none", "ok", "error", "killed"}
    /\ committed \in Nat \ {0} /\ lost \in BOOLEAN
    /\ commands \in Nat /\ faults \in Nat

\* A bump that succeeds leaves one version in all five files, however many bumps
\* before it broke off between or inside the files and whatever was taken back.
BumpAgrees ==
    target = "bump" /\ outcome = "ok" => \A f \in Files : files[f] = version

\* It is a version no bump has given out before.
VersionsGrow == [][committed' # committed => committed' > committed]_vars

\* A package made while the files agree, without a version in the environment, is
\* of one version: its name, its control file, its binary, and its manual if
\* nfpm.yaml packs one.
PackagesAgree ==
    \A a \in dist :
        a.whole /\ a.agreed /\ a.kind # "tar" =>
            a.name = a.control /\ a.control = a.binary /\ a.manual \in {None, a.binary}

\* dist succeeds only with all three artifacts there, made by this very command.
DistComplete ==
    target = "dist" /\ outcome = "ok" =>
        \A kind \in Kinds : \E a \in dist :
            /\ a.kind = kind /\ a.name = version /\ a.by = commands
            /\ a.whole \/ kind = "tar"

\* After checksums SHA256SUMS has the sums of what is in dist and nothing else,
\* but for lines that were lost without notice.
SumsMatch ==
    target = "checksums" /\ outcome = "ok" =>
        sums \subseteq dist /\ (~lost => sums = dist)

\* install succeeds only with a whole binary of the sources in place, whatever
\* was there or in build/ before; uninstall only with nothing left of them.
InstalledAsSaid ==
    /\ target = "install" /\ outcome = "ok" =>
          root.binary = files["binary"] /\ root.binary > 0
    /\ target = "uninstall" /\ outcome = "ok" =>
          root.binary = None /\ root.manual = None
=============================================================================
