--------------------------- MODULE Release_proofs ---------------------------
(***************************************************************************)
(* Proofs about Release for any number of commands and faults: what a      *)
(* command that succeeds has really done.                                  *)
(***************************************************************************)
EXTENDS Release, TLAPS

\* A command under way has not ended.
OutcomeInv == at # 0 => outcome = "none"

\* The version of a command that started, and where it came from.
VersionInv ==
    /\ at # 0 /\ target # "bootstrap" => version > 0
    /\ at # 0 /\ target \notin {"bump", "bootstrap"} /\ ~overridden => version = files["devtool"]

\* The bump gives out a new version, and the files behind it have it.
BumpInv ==
    /\ files["VERSION"] > 0 => files["VERSION"] >= committed
    /\ target = "bump" /\ at # 0 =>
          /\ version > committed
          /\ at = 1 => files["VERSION"] > 0
          /\ \A i \in 1..(at - 1) : files[VersionFiles[i]] = version

\* Behind its compile step a command has a binary of the sources as they are.
BuiltInv ==
    at > 1 /\ Steps[target][at - 1] = "compile" =>
        built = files["binary"] /\ built > 0

InstallInv ==
    /\ target = "install" /\ at = 4 => root.binary = files["binary"] /\ root.binary > 0
    /\ target = "uninstall" /\ at = 2 => root.binary = None

\* Only checksums sums, and it leaves dist alone.
SumInv ==
    /\ at # 0 /\ target # "checksums" => left = {}
    /\ target = "checksums" /\ at = 2 =>
          sums \subseteq dist /\ (~lost => dist = sums \cup left)

Made(kind) ==
    \E a \in dist :
        /\ a.kind = kind /\ a.name = version /\ a.by = commands
        /\ a.whole \/ kind = "tar"

\* dist cleans first, so what it has made stays.
DistInv ==
    /\ target = "dist" /\ at > 2 => Made("tar")
    /\ target = "dist" /\ at > 5 => Made("deb")

RInv ==
    /\ TypeOK
    /\ OutcomeInv
    /\ VersionInv
    /\ BumpInv
    /\ BuiltInv
    /\ InstallInv
    /\ SumInv
    /\ DistInv
    /\ BumpAgrees
    /\ PackagesAgree
    /\ DistComplete
    /\ SumsMatch
    /\ InstalledAsSaid

-----------------------------------------------------------------------------
\* Where the steps are

LEMMA Table ==
    /\ Targets = {"modulecheck", "build", "install", "uninstall", "clean", "deb", "rpm",
                  "tar", "dist", "checksums", "bump", "bootstrap"}
    /\ Steps["modulecheck"] = <<"module">>
    /\ Steps["build"] = <<"module", "compile">>
    /\ Steps["install"] = <<"module", "compile", "copyBinary", "copyManual">>
    /\ Steps["uninstall"] = <<"removeBinary", "removeManual">>
    /\ Steps["clean"] = <<"clean">>
    /\ Steps["deb"] = <<"module", "compile", "deb">>
    /\ Steps["rpm"] = <<"module", "compile", "rpm">>
    /\ Steps["tar"] = <<"clean", "tar">>
    /\ Steps["dist"] = <<"clean", "tar", "module", "compile", "deb", "module", "compile", "rpm">>
    /\ Steps["checksums"] = <<"create", "sum">>
    /\ Steps["bump"] = <<"VERSION", "nfpm", "manual", "devtool", "binary">>
    /\ Steps["bootstrap"] = <<"module", "config">>
  BY DEF Targets, Steps, PackageSteps, DistSteps, VersionFiles

LEMMA Lengths ==
    ASSUME NEW t \in Targets
    PROVE  Len(Steps[t]) \in Nat \ {0}
  <1>1. t = "modulecheck" => Len(Steps[t]) \in Nat \ {0}
    BY Table
  <1>2. t = "build" => Len(Steps[t]) \in Nat \ {0}
    BY Table
  <1>3. t = "install" => Len(Steps[t]) \in Nat \ {0}
    BY Table
  <1>4. t = "uninstall" => Len(Steps[t]) \in Nat \ {0}
    BY Table
  <1>5. t = "clean" => Len(Steps[t]) \in Nat \ {0}
    BY Table
  <1>6. t = "deb" => Len(Steps[t]) \in Nat \ {0}
    BY Table
  <1>7. t = "rpm" => Len(Steps[t]) \in Nat \ {0}
    BY Table
  <1>8. t = "tar" => Len(Steps[t]) \in Nat \ {0}
    BY Table
  <1>9. t = "dist" => Len(Steps[t]) \in Nat \ {0}
    BY Table
  <1>10. t = "checksums" => Len(Steps[t]) \in Nat \ {0}
    BY Table
  <1>11. t = "bump" => Len(Steps[t]) \in Nat \ {0}
    BY Table
  <1>12. t = "bootstrap" => Len(Steps[t]) \in Nat \ {0}
    BY Table
  <1> QED BY <1>1, <1>2, <1>3, <1>4, <1>5, <1>6, <1>7, <1>8, <1>9, <1>10, <1>11, <1>12, Table

Last(t, i) == i = Len(Steps[t])

\* Every step of every command, and whether it is the last one.
LEMMA Positions ==
    ASSUME NEW t \in Targets, NEW i \in 1..Len(Steps[t])
    PROVE
    /\ Steps[t][i] = "module" =>
          \/ t = "modulecheck" /\ i = 1 /\ Last(t, i)
          \/ t \in {"build", "install", "deb", "rpm", "bootstrap"} /\ i = 1 /\ ~Last(t, i)
          \/ t = "dist" /\ i \in {3, 6} /\ ~Last(t, i)
    /\ Steps[t][i] = "compile" =>
          \/ t = "build" /\ i = 2 /\ Last(t, i)
          \/ t \in {"install", "deb", "rpm"} /\ i = 2 /\ ~Last(t, i)
          \/ t = "dist" /\ i \in {4, 7} /\ ~Last(t, i)
    /\ Steps[t][i] = "clean" =>
          \/ t = "clean" /\ i = 1 /\ Last(t, i)
          \/ t \in {"tar", "dist"} /\ i = 1 /\ ~Last(t, i)
    /\ Steps[t][i] = "tar" =>
          \/ t = "tar" /\ i = 2 /\ Last(t, i)
          \/ t = "dist" /\ i = 2 /\ ~Last(t, i)
    /\ Steps[t][i] = "deb" =>
          \/ t = "deb" /\ i = 3 /\ Last(t, i)
          \/ t = "dist" /\ i = 5 /\ ~Last(t, i)
    /\ Steps[t][i] = "rpm" =>
          \/ t = "rpm" /\ i = 3 /\ Last(t, i)
          \/ t = "dist" /\ i = 8 /\ Last(t, i)
    /\ Steps[t][i] = "copyBinary" => t = "install" /\ i = 3 /\ ~Last(t, i)
    /\ Steps[t][i] = "copyManual" => t = "install" /\ i = 4 /\ Last(t, i)
    /\ Steps[t][i] = "removeBinary" => t = "uninstall" /\ i = 1 /\ ~Last(t, i)
    /\ Steps[t][i] = "removeManual" => t = "uninstall" /\ i = 2 /\ Last(t, i)
    /\ Steps[t][i] = "create" => t = "checksums" /\ i = 1 /\ ~Last(t, i)
    /\ Steps[t][i] = "sum" => t = "checksums" /\ i = 2 /\ Last(t, i)
    /\ Steps[t][i] = "config" => t = "bootstrap" /\ i = 2 /\ Last(t, i)
    /\ t = "bump" => i \in 1..5 /\ (Last(t, i) <=> i = 5) /\ Steps[t][i] \in Files
    /\ t = "checksums" => Steps[t][i] \in {"create", "sum"}
  <1>1. CASE t = "modulecheck"
    BY <1>1, Table DEF Last
  <1>2. CASE t = "build"
    BY <1>2, Table DEF Last
  <1>3. CASE t = "install"
    BY <1>3, Table DEF Last
  <1>4. CASE t = "uninstall"
    BY <1>4, Table DEF Last
  <1>5. CASE t = "clean"
    BY <1>5, Table DEF Last
  <1>6. CASE t = "deb"
    BY <1>6, Table DEF Last
  <1>7. CASE t = "rpm"
    BY <1>7, Table DEF Last
  <1>8. CASE t = "tar"
    BY <1>8, Table DEF Last
  <1>9. CASE t = "dist"
    BY <1>9, Table DEF Last
  <1>10. CASE t = "checksums"
    BY <1>10, Table DEF Last
  <1>11. CASE t = "bump"
    BY <1>11, Table DEF Last, Files
  <1>12. CASE t = "bootstrap"
    BY <1>12, Table DEF Last
  <1> QED BY <1>1, <1>2, <1>3, <1>4, <1>5, <1>6, <1>7, <1>8, <1>9, <1>10, <1>11, <1>12, Table

-----------------------------------------------------------------------------
\* One lemma per action

LEMMA CommandStep ==
    ASSUME RInv, NEW t \in Targets, NEW v \in Overrides \cup {None}, Command(t, v)
    PROVE  RInv'
  <1>1. /\ target' = t /\ left' = {}
        /\ (at' = 1 /\ outcome' = "none") \/ (at' = 0 /\ outcome' = "error")
        /\ UNCHANGED <<files, config, goMod, built, dist, sums, root, committed, faults>>
    <2>1. target' = t /\ left' = {}
      BY DEF Command
    <2>2. (at' = 1 /\ outcome' = "none") \/ (at' = 0 /\ outcome' = "error")
      BY Zenon DEF Command, Refused
    <2>3. UNCHANGED <<files, config, goMod, built, dist, sums, root, committed, faults>>
      BY DEF Command, tree, made
    <2> QED BY <2>1, <2>2, <2>3
  <1>2. Len(Steps[t]) \in Nat \ {0}
    BY Lengths
  <1>3. version' \in Contents
    BY ReleaseAssumption DEF Command, NextVersion, RInv, TypeOK, Contents, Torn, Files
  <1>4. TypeOK'
    <2>1. at' \in 0..Len(Steps[target'])
      BY <1>1, <1>2
    <2>2. overridden' \in BOOLEAN
      BY Zenon DEF Command
    <2>3. lost' \in BOOLEAN
      BY DEF Command
    <2>4. commands' \in Nat
      BY DEF Command, RInv, TypeOK
    <2> QED BY <1>1, <1>3, <2>1, <2>2, <2>3, <2>4 DEF RInv, TypeOK
  <1>5. OutcomeInv' /\ BuiltInv' /\ InstallInv' /\ SumInv' /\ DistInv'
    BY <1>1 DEF OutcomeInv, BuiltInv, InstallInv, SumInv, DistInv
  <1>6. VersionInv'
    <2>1. at' # 0 /\ t # "bootstrap" =>
              files[IF t = "bump" THEN "VERSION" ELSE "devtool"] > 0
      <3>1. ~(files[IF t = "bump" THEN "VERSION" ELSE "devtool"] > 0 \/ t = "bootstrap")
                => Refused
        BY Zenon DEF Command
      <3>2. Refused => at' = 0
        BY DEF Refused
      <3> QED BY <3>1, <3>2
    <2>2. files["VERSION"] \in Int /\ files["devtool"] \in Int
      BY DEF RInv, TypeOK, Files, Contents, Torn
    <2>3. v # None => v \in Nat /\ v > 0
      BY ReleaseAssumption DEF None
    <2>4. version' = IF t = "bump" THEN files["VERSION"] + 1
                     ELSE IF v # None THEN v ELSE files["devtool"]
      BY DEF Command, NextVersion
    <2>5. overridden' = (v # None)
      BY DEF Command
    <2>6. at' # 0 /\ target' # "bootstrap" => version' > 0
      BY <1>1, <2>1, <2>2, <2>3, <2>4
    <2>7. at' # 0 /\ target' \notin {"bump", "bootstrap"} /\ ~overridden'
              => version' = files'["devtool"]
      BY <1>1, <2>4, <2>5
    <2> QED BY <2>6, <2>7 DEF VersionInv
  <1>7. BumpInv'
    <2>1. target' = "bump" /\ at' # 0 => files["VERSION"] > 0 /\ version' = files["VERSION"] + 1
      BY <1>1 DEF Command, Refused, NextVersion
    <2>2. files["VERSION"] \in Int /\ committed \in Int
      BY DEF RInv, TypeOK, Files, Contents, Torn
    <2> QED BY <1>1, <2>1, <2>2 DEF BumpInv, RInv
  <1>8. BumpAgrees' /\ DistComplete' /\ SumsMatch' /\ InstalledAsSaid'
    BY <1>1 DEF BumpAgrees, DistComplete, SumsMatch, InstalledAsSaid
  <1>9. PackagesAgree'
    BY <1>1 DEF PackagesAgree, RInv
  <1> QED BY <1>4, <1>5, <1>6, <1>7, <1>8, <1>9 DEF RInv

\* A version is written: it is the one of the files before it as well.
LEMMA WriteVersionStep == RInv /\ WriteVersion => RInv'
  <1> SUFFICES ASSUME RInv, WriteVersion PROVE RInv'
    OBVIOUS
  <1> DEFINE f == VersionFiles[at]
  <1>1. /\ target = "bump" /\ at \in 1..5 /\ f \in Files /\ Len(Steps[target]) = 5
        /\ VersionFiles = <<"VERSION", "nfpm", "manual", "devtool", "binary">>
        /\ Len(VersionFiles) = 5
    <2>1. target = "bump" /\ at # 0 /\ at \in 0..Len(Steps[target])
      BY DEF WriteVersion, RInv, TypeOK
    <2> QED BY <2>1, Table DEF VersionFiles, Files
  <1>2. /\ UNCHANGED <<config, goMod, built, dist, sums, root, target, version, overridden, left,
                       lost, commands, faults>>
        /\ at' = IF at = 5 THEN 0 ELSE at + 1
        /\ outcome' = IF at = 5 THEN "ok" ELSE outcome
        /\ committed' = IF at = 5 THEN version ELSE committed
    BY <1>1 DEF WriteVersion, Done, made, job
  <1>3. version \in Nat /\ version > 0 /\ version > committed /\ committed \in Nat \ {0}
    BY <1>1 DEF RInv, TypeOK, VersionInv, BumpInv, Contents, Torn
  <1>4. files' = [files EXCEPT ![f] = version]
    <2>1. Updated(f) = version
      <3>1. CASE f = "VERSION"
        <4>1. at = 1
          BY <3>1, <1>1
        <4> QED BY <3>1, <4>1, <1>1 DEF Updated, RInv, BumpInv
      <3>2. CASE f # "VERSION"
        BY <3>2 DEF WriteVersion, NoPattern, Updated
      <3> QED BY <3>1, <3>2
    <2> QED BY <2>1 DEF WriteVersion
  <1>5. files' \in [Files -> Contents]
    BY <1>3, <1>4, <1>1 DEF RInv, TypeOK, Contents
  <1>6. \A i \in 1..at : files'[VersionFiles[i]] = version
    <2>1. \A i \in 1..(at - 1) : files[VersionFiles[i]] = version
      BY <1>1 DEF RInv, BumpInv
    <2>2. \A i \in 1..5 : VersionFiles[i] \in DOMAIN files
      BY <1>1 DEF RInv, TypeOK, Files
    <2> QED BY <2>1, <2>2, <1>1, <1>4
  <1>7. TypeOK'
    <2>1. at' \in 0..Len(Steps[target'])
      <3>1. Len(Steps[target']) = 5
        <4>1. target' = target
          BY <1>2
        <4> QED BY <4>1, <1>1
      <3>2. at' \in 0..5
        <4>1. at \in 1..5 /\ at' = IF at = 5 THEN 0 ELSE at + 1
          BY <1>1, <1>2
        <4> QED BY <4>1
      <3> QED BY <3>1, <3>2
    <2>2. overridden' \in BOOLEAN /\ lost' \in BOOLEAN
      BY <1>2 DEF RInv, TypeOK
    <2> QED BY <1>2, <1>3, <1>5, <2>1, <2>2 DEF RInv, TypeOK
  <1>8. OutcomeInv' /\ VersionInv'
    BY <1>1, <1>2, <1>3 DEF RInv, OutcomeInv, VersionInv
  <1>9. BumpInv'
    <2>1. files'["VERSION"] = version
      BY <1>1, <1>6
    <2> QED BY <1>1, <1>2, <1>3, <1>6, <2>1 DEF BumpInv
  <1>10. BuiltInv'
    <2>1. Steps[target][at] # "compile"
      BY <1>1, Positions DEF RInv, TypeOK
    <2> QED BY <1>1, <1>2, <2>1 DEF BuiltInv
  <1>11. InstallInv' /\ SumInv' /\ DistInv'
    BY <1>1, <1>2 DEF RInv, InstallInv, SumInv, DistInv
  <1>12. BumpAgrees'
    <2>1. at = 5 => \A g \in Files : files'[g] = version
      <3>1. \A g \in Files : \E i \in 1..5 : g = VersionFiles[i]
        BY <1>1 DEF Files
      <3> QED BY <3>1, <1>6
    <2>2. at # 5 => outcome' # "ok"
      BY <1>1, <1>2 DEF RInv, OutcomeInv
    <2> QED BY <1>2, <2>1, <2>2 DEF BumpAgrees
  <1>13. DistComplete' /\ SumsMatch' /\ InstalledAsSaid' /\ PackagesAgree'
    BY <1>1, <1>2 DEF RInv, DistComplete, SumsMatch, InstalledAsSaid, PackagesAgree
  <1> QED BY <1>7, <1>8, <1>9, <1>10, <1>11, <1>12, <1>13 DEF RInv

LEMMA NoVersionFoundStep == RInv /\ NoVersionFound => RInv'
  <1> SUFFICES ASSUME RInv, NoVersionFound PROVE RInv'
    OBVIOUS
  <1>1. /\ at' = 0 /\ outcome' = "error"
        /\ UNCHANGED <<files, config, goMod, built, dist, sums, root, target, version, overridden,
                       left, committed, lost, commands, faults>>
    BY DEF NoVersionFound, Refused, tree, made, job
  <1>2. TypeOK'
    <2>1. at' \in 0..Len(Steps[target'])
      BY <1>1 DEF RInv, TypeOK
    <2>2. overridden' \in BOOLEAN /\ lost' \in BOOLEAN
      BY <1>1 DEF RInv, TypeOK
    <2> QED BY <1>1, <2>1, <2>2 DEF RInv, TypeOK
  <1> QED BY <1>1, <1>2
          DEF RInv, OutcomeInv, VersionInv, BumpInv, BuiltInv, InstallInv, SumInv, DistInv,
              BumpAgrees, PackagesAgree, DistComplete, SumsMatch, InstalledAsSaid

\* Where a step is pending, Positions applies to it.
LEMMA Here ==
    ASSUME RInv, NEW step, Pending(step)
    PROVE  /\ target \in Targets /\ at \in 1..Len(Steps[target]) /\ Len(Steps[target]) \in Nat
           /\ Steps[target][at] = step /\ outcome = "none"
           /\ version \in Contents /\ (version > 0 \/ target = "bootstrap")
  <1>1. target \in Targets /\ at \in 0..Len(Steps[target]) /\ at # 0
        /\ Steps[target][at] = step
    BY DEF Pending, RInv, TypeOK
  <1>2. Len(Steps[target]) \in Nat
    BY <1>1, Table
  <1> QED BY <1>1, <1>2 DEF RInv, TypeOK, OutcomeInv, VersionInv

\* A step that is done leaves at where it may be.
LEMMA AtType ==
    ASSUME target \in Targets, at \in 1..Len(Steps[target]), Len(Steps[target]) \in Nat,
           target' = target, Done, outcome = "none"
    PROVE  at' \in 0..Len(Steps[target']) /\ outcome' \in {"none", "ok"}
           /\ (at' # 0 => outcome' = "none")
  BY DEF Done

LEMMA EnsureModuleStep == RInv /\ EnsureModule => RInv'
  <1> SUFFICES ASSUME RInv, EnsureModule PROVE RInv'
    OBVIOUS
  <1>1. Pending("module") /\ Done
        /\ UNCHANGED <<files, config, built, dist, sums, root, target, version, overridden, left,
                       committed, lost, commands, faults>>
    BY DEF EnsureModule, made, job
  <1>2. target \in Targets /\ at \in 1..Len(Steps[target]) /\ Len(Steps[target]) \in Nat
        /\ Steps[target][at] = "module" /\ outcome = "none"
    BY <1>1, Here
  <1>3. \/ target = "modulecheck" /\ at' = 0
        \/ target \in {"build", "install", "deb", "rpm", "bootstrap"} /\ at = 1 /\ at' = 2
        \/ target = "dist" /\ at \in {3, 6} /\ at' = at + 1
    BY <1>1, <1>2, Positions DEF Done, Last
  <1>4. at' \in 0..Len(Steps[target']) /\ outcome' \in {"none", "ok"}
        /\ (at' # 0 => outcome' = "none")
    BY <1>1, <1>2, AtType
  <1>5. TypeOK'
    <2>1. overridden' \in BOOLEAN /\ lost' \in BOOLEAN
      BY <1>1 DEF RInv, TypeOK
    <2>2. goMod' \in {"absent", "ready", "bare", "torn"}
      BY DEF EnsureModule, RInv, TypeOK
    <2> QED BY <1>1, <1>4, <2>1, <2>2 DEF RInv, TypeOK
  <1>6. OutcomeInv' /\ VersionInv' /\ BumpInv' /\ InstallInv' /\ SumInv'
    <2>1. OutcomeInv'
      BY <1>4 DEF OutcomeInv
    <2>2. VersionInv' /\ BumpInv'
      BY <1>1, <1>2, <1>3 DEF RInv, VersionInv, BumpInv
    <2>3. InstallInv' /\ SumInv'
      BY <1>1, <1>2, <1>3 DEF RInv, InstallInv, SumInv
    <2> QED BY <2>1, <2>2, <2>3
  <1>7. BuiltInv'
    BY <1>1, <1>2, <1>3 DEF BuiltInv
  <1>8. DistInv'
    BY <1>1, <1>2, <1>3 DEF RInv, DistInv, Made
  <1>9. BumpAgrees' /\ DistComplete' /\ SumsMatch' /\ InstalledAsSaid'
    BY <1>1, <1>3, <1>4 DEF BumpAgrees, DistComplete, SumsMatch, InstalledAsSaid
  <1>10. PackagesAgree'
    BY <1>1 DEF RInv, PackagesAgree
  <1> QED BY <1>5, <1>6, <1>7, <1>8, <1>9, <1>10 DEF RInv

LEMMA EnsureConfigStep == RInv /\ EnsureConfig => RInv'
  <1> SUFFICES ASSUME RInv, EnsureConfig PROVE RInv'
    OBVIOUS
  <1>1. Pending("config") /\ Done
        /\ UNCHANGED <<config, goMod, built, dist, sums, root, target, version, overridden, left,
                       committed, lost, commands, faults>>
    BY DEF EnsureConfig, made, job
  <1>2. target = "bootstrap" /\ at \in 1..Len(Steps[target]) /\ Len(Steps[target]) \in Nat
        /\ outcome = "none" /\ at' = 0
    BY <1>1, Here, Positions DEF Done, Last
  <1>3. files' \in [Files -> Contents] /\ files'["VERSION"] = files["VERSION"]
    BY DEF EnsureConfig, RInv, TypeOK, Files, Contents, BootstrapVersion
  <1>4. TypeOK'
    <2>1. overridden' \in BOOLEAN /\ lost' \in BOOLEAN
      BY <1>1 DEF RInv, TypeOK
    <2>2. at' \in 0..Len(Steps[target']) /\ outcome' \in {"none", "ok"}
      BY <1>1, <1>2, AtType DEF RInv, TypeOK
    <2> QED BY <1>1, <1>3, <2>1, <2>2 DEF RInv, TypeOK
  <1>5. OutcomeInv' /\ VersionInv' /\ BumpInv' /\ BuiltInv' /\ InstallInv' /\ SumInv'
        /\ DistInv'
    BY <1>1, <1>2, <1>3
       DEF RInv, OutcomeInv, VersionInv, BumpInv, BuiltInv, InstallInv, SumInv, DistInv
  <1>6. BumpAgrees' /\ DistComplete' /\ SumsMatch' /\ InstalledAsSaid' /\ PackagesAgree'
    BY <1>1, <1>2
       DEF RInv, BumpAgrees, DistComplete, SumsMatch, InstalledAsSaid, PackagesAgree
  <1> QED BY <1>4, <1>5, <1>6 DEF RInv

LEMMA CompileStep == RInv /\ Compile => RInv'
  <1> SUFFICES ASSUME RInv, Compile PROVE RInv'
    OBVIOUS
  <1>1. Pending("compile")
        /\ UNCHANGED <<files, config, goMod, dist, sums, root, target, version, overridden, left,
                       committed, lost, commands, faults>>
    BY DEF Compile, tree, job
  <1>2. target \in Targets /\ at \in 1..Len(Steps[target]) /\ Len(Steps[target]) \in Nat
        /\ Steps[target][at] = "compile" /\ outcome = "none"
    BY <1>1, Here
  <1>3. \/ Done /\ built' = files["binary"] /\ files["binary"] > 0
        \/ Refused /\ built' = built
    BY DEF Compile
  <1>4. \/ at' = 0 /\ outcome' = "error"
        \/ target = "build" /\ at' = 0 /\ outcome' = "ok"
        \/ target \in {"install", "deb", "rpm"} /\ at = 2 /\ at' = 3 /\ outcome' = "none"
        \/ target = "dist" /\ at \in {4, 7} /\ at' = at + 1 /\ outcome' = "none"
    BY <1>1, <1>2, <1>3, Positions DEF Done, Refused, Last
  <1>5. at' \in 0..Len(Steps[target'])
    BY <1>1, <1>2, <1>3, AtType DEF Refused
  <1>6. built' \in Nat
    BY <1>3 DEF RInv, TypeOK, Files, Contents, Torn
  <1>7. TypeOK'
    <2>1. overridden' \in BOOLEAN /\ lost' \in BOOLEAN
      BY <1>1 DEF RInv, TypeOK
    <2> QED BY <1>1, <1>4, <1>5, <1>6, <2>1 DEF RInv, TypeOK
  <1>8. OutcomeInv' /\ VersionInv' /\ BumpInv' /\ InstallInv' /\ SumInv'
    BY <1>1, <1>2, <1>4
       DEF RInv, OutcomeInv, VersionInv, BumpInv, InstallInv, SumInv
  <1>9. BuiltInv'
    BY <1>1, <1>3, <1>4 DEF BuiltInv, Refused
  <1>10. DistInv'
    BY <1>1, <1>2, <1>4 DEF RInv, DistInv, Made
  <1>11. BumpAgrees' /\ DistComplete' /\ SumsMatch' /\ InstalledAsSaid' /\ PackagesAgree'
    BY <1>1, <1>4
       DEF RInv, BumpAgrees, DistComplete, SumsMatch, InstalledAsSaid, PackagesAgree
  <1> QED BY <1>7, <1>8, <1>9, <1>10, <1>11 DEF RInv

\* What an artifact is made of.
LEMMA ArtifactType ==
    ASSUME RInv, NEW kind \in Kinds, NEW whole \in BOOLEAN, version \in Nat
    PROVE  Artifact(kind, whole) \in Artifacts
  <1>1. /\ commands \in Nat /\ files["nfpm"] \in Contents /\ files["manual"] \in Contents
        /\ built \in Contents /\ None \in Contents
    BY DEF RInv, TypeOK, Files, Contents, None
  <1>2. (~overridden /\ \A f \in Files : files[f] = files["VERSION"]) \in BOOLEAN
    OBVIOUS
  <1> QED BY <1>1, <1>2 DEF Artifact, Artifacts

\* A package behind a compile step is of one version.
LEMMA ArtifactAgrees ==
    ASSUME RInv, NEW kind \in Kinds, at # 0, target \notin {"bump", "bootstrap"},
           kind # "tar", built = files["binary"],
           NEW a, a = Artifact(kind, TRUE), a.agreed
    PROVE  a.name = a.control /\ a.control = a.binary /\ a.manual \in {None, a.binary}
  <1>1. ~overridden /\ \A f \in Files : files[f] = files["VERSION"]
    BY Zenon DEF Artifact
  <1>2. version = files["devtool"]
    BY <1>1 DEF RInv, VersionInv
  <1>3. files["devtool"] = files["nfpm"] /\ files["nfpm"] = files["manual"]
        /\ files["manual"] = files["binary"]
    BY <1>1 DEF Files
  <1>4. /\ a.name = version /\ a.control = files["nfpm"] /\ a.manual \in {None, files["manual"]}
        /\ a.binary = built
    BY DEF Artifact
  <1> QED BY <1>2, <1>3, <1>4

LEMMA PackageStep ==
    ASSUME RInv, NEW kind \in {"deb", "rpm"}, Package(kind)
    PROVE  RInv'
  <1>1. Pending(kind)
        /\ UNCHANGED <<files, config, goMod, built, sums, root, target, version, overridden, left,
                       committed, lost, commands, faults>>
    BY DEF Package, tree, job
  <1>2. target \in Targets /\ at \in 1..Len(Steps[target]) /\ Len(Steps[target]) \in Nat
        /\ Steps[target][at] = kind /\ outcome = "none"
    BY <1>1, Here
  <1>3. \/ Done /\ dist' = Others(kind) \cup {Artifact(kind, TRUE)}
        \/ Refused /\ dist' = dist
    BY DEF Package
  <1>4. \/ target = kind /\ at = 3
        \/ target = "dist" /\ kind = "deb" /\ at = 5
        \/ target = "dist" /\ kind = "rpm" /\ at = 8
    BY <1>2, Positions
  <1>5. \/ at' = 0 /\ outcome' = "error"
        \/ target = kind /\ at' = 0 /\ outcome' = "ok"
        \/ target = "dist" /\ kind = "deb" /\ at' = 6 /\ outcome' = "none"
        \/ target = "dist" /\ kind = "rpm" /\ at' = 0 /\ outcome' = "ok"
    <2>1. Last(target, at) <=> (target = kind \/ kind = "rpm")
      BY <1>2, <1>4, Positions
    <2>2. CASE Refused
      BY <2>2 DEF Refused
    <2>3. CASE Done /\ Last(target, at)
      BY <2>1, <2>3, <1>4 DEF Done, Last
    <2>4. CASE Done /\ ~Last(target, at)
      <3>1. at' = at + 1 /\ outcome' = "none"
        BY <2>4, <1>2 DEF Done, Last
      <3> QED BY <2>1, <2>4, <1>4, <3>1
    <2> QED BY <1>3, <2>2, <2>3, <2>4
  <1>6. version \in Nat /\ left = {}
    BY <1>1, <1>2, <1>4, Here DEF RInv, SumInv, Contents, Torn
  <1>7. built = files["binary"]
    <2>1. Steps[target][at - 1] = "compile"
      BY <1>4, Table
    <2> QED BY <2>1, <1>4 DEF RInv, BuiltInv
  <1>8. dist' \subseteq Artifacts
    <2>1. Artifact(kind, TRUE) \in Artifacts
      BY <1>6, ArtifactType DEF Kinds
    <2> QED BY <1>3, <2>1 DEF Others, RInv, TypeOK
  <1>9. TypeOK'
    <2>1. overridden' \in BOOLEAN /\ lost' \in BOOLEAN
      BY <1>1 DEF RInv, TypeOK
    <2>2. at' \in 0..Len(Steps[target']) /\ outcome' \in {"none", "ok", "error"}
      <3>1. CASE Done
        BY <3>1, <1>1, <1>2, AtType
      <3>2. CASE Refused
        BY <3>2, <1>1, <1>2 DEF Refused
      <3> QED BY <1>3, <3>1, <3>2
    <2> QED BY <1>1, <1>6, <1>8, <2>1, <2>2 DEF RInv, TypeOK
  <1>10. OutcomeInv' /\ VersionInv' /\ BumpInv' /\ InstallInv' /\ SumInv'
    BY <1>1, <1>2, <1>4, <1>5, <1>6
       DEF RInv, OutcomeInv, VersionInv, BumpInv, InstallInv, SumInv
  <1>11. BuiltInv'
    BY <1>1, <1>2, <1>5, Table DEF BuiltInv
  <1>12. Artifact(kind, TRUE).kind = kind /\ Artifact(kind, TRUE).name = version
         /\ Artifact(kind, TRUE).by = commands /\ Artifact(kind, TRUE).whole
    BY DEF Artifact
  <1>13. ASSUME NEW other \in Kinds, other # kind, Made(other) PROVE Made(other)'
    BY <1>1, <1>3, <1>13 DEF Made, Others
  <1>14. Done => Made(kind)'
    BY <1>1, <1>2, <1>3, <1>12 DEF Made, Done, Refused
  <1>15. DistInv'
    <2>1. CASE target = "dist" /\ at' # 0
      <3>1. kind = "deb" /\ at = 5 /\ Made("tar")
        BY <2>1, <1>4, <1>5 DEF RInv, DistInv
      <3>2. Done
        BY <2>1, <1>3 DEF Refused
      <3> QED BY <3>1, <3>2, <1>13, <1>14 DEF DistInv, Kinds
    <2>2. CASE ~(target = "dist" /\ at' # 0)
      BY <2>2, <1>1 DEF DistInv
    <2> QED BY <2>1, <2>2
  <1>16. DistComplete'
    <2>1. CASE target = "dist" /\ outcome' = "ok"
      <3>1. Done /\ kind = "rpm" /\ Made("tar") /\ Made("deb")
        BY <2>1, <1>3, <1>4, <1>5 DEF Refused, RInv, DistInv
      <3> QED BY <3>1, <1>13, <1>14 DEF DistComplete, Made, Kinds
    <2> QED BY <2>1, <1>1 DEF DistComplete
  <1>17. BumpAgrees' /\ SumsMatch' /\ InstalledAsSaid'
    BY <1>1, <1>4 DEF BumpAgrees, SumsMatch, InstalledAsSaid
  <1>18. PackagesAgree'
    <2> SUFFICES ASSUME NEW a \in dist', a.whole, a.agreed, a.kind # "tar"
                 PROVE  a.name = a.control /\ a.control = a.binary /\ a.manual \in {None, a.binary}
      BY DEF PackagesAgree
    <2>1. CASE a \in dist
      BY <2>1 DEF RInv, PackagesAgree
    <2>2. CASE a = Artifact(kind, TRUE)
      <3>1. kind \in Kinds /\ kind # "tar"
        BY DEF Kinds
      <3>2. at # 0 /\ target \notin {"bump", "bootstrap"}
        BY <1>4
      <3> QED BY <2>2, <3>1, <3>2, <1>7, ArtifactAgrees
    <2> QED BY <1>3, <2>1, <2>2 DEF Others
  <1> QED BY <1>9, <1>10, <1>11, <1>15, <1>16, <1>17, <1>18 DEF RInv

LEMMA SourceTarballStep == RInv /\ SourceTarball => RInv'
  <1> SUFFICES ASSUME RInv, SourceTarball PROVE RInv'
    OBVIOUS
  <1>1. Pending("tar") /\ Done
        /\ UNCHANGED <<files, config, goMod, built, sums, root, target, version, overridden, left,
                       committed, lost, commands>>
    BY DEF SourceTarball, tree, job
  <1>2. target \in Targets /\ at \in 1..Len(Steps[target]) /\ Len(Steps[target]) \in Nat
        /\ Steps[target][at] = "tar" /\ outcome = "none"
    BY <1>1, Here
  <1>3. PICK whole \in BOOLEAN :
            /\ faults' = IF whole THEN faults ELSE faults + 1
            /\ dist' = Others("tar") \cup {Artifact("tar", whole)}
    BY DEF SourceTarball
  <1>4. \/ target = "tar" /\ at' = 0 /\ outcome' = "ok"
        \/ target = "dist" /\ at = 2 /\ at' = 3 /\ outcome' = "none"
    BY <1>1, <1>2, Positions DEF Done, Last
  <1>5. version \in Nat /\ left = {}
    BY <1>1, <1>2, <1>4, Here DEF RInv, SumInv, Contents, Torn
  <1>6. dist' \subseteq Artifacts
    <2>1. Artifact("tar", whole) \in Artifacts
      BY <1>5, ArtifactType DEF Kinds
    <2> QED BY <1>3, <2>1 DEF Others, RInv, TypeOK
  <1>7. TypeOK'
    <2>1. overridden' \in BOOLEAN /\ lost' \in BOOLEAN
      BY <1>1 DEF RInv, TypeOK
    <2>2. at' \in 0..Len(Steps[target']) /\ outcome' \in {"none", "ok"}
      BY <1>1, <1>2, AtType
    <2>3. faults' \in Nat
      BY <1>3 DEF RInv, TypeOK
    <2> QED BY <1>1, <1>5, <1>6, <2>1, <2>2, <2>3 DEF RInv, TypeOK
  <1>8. OutcomeInv' /\ VersionInv' /\ BumpInv' /\ InstallInv' /\ SumInv'
    BY <1>1, <1>2, <1>4, <1>5
       DEF RInv, OutcomeInv, VersionInv, BumpInv, InstallInv, SumInv
  <1>9. BuiltInv'
    BY <1>1, <1>2, <1>4 DEF BuiltInv
  <1>10. DistInv'
    <2>1. Artifact("tar", whole).kind = "tar" /\ Artifact("tar", whole).name = version
          /\ Artifact("tar", whole).by = commands
      BY DEF Artifact
    <2>2. Made("tar")'
      BY <1>1, <1>3, <2>1 DEF Made
    <2> QED BY <1>1, <1>4, <2>2 DEF DistInv
  <1>11. BumpAgrees' /\ DistComplete' /\ SumsMatch' /\ InstalledAsSaid'
    BY <1>1, <1>4 DEF BumpAgrees, DistComplete, SumsMatch, InstalledAsSaid
  <1>12. PackagesAgree'
    <2>1. Artifact("tar", whole).kind = "tar"
      BY DEF Artifact
    <2> QED BY <1>3, <2>1 DEF RInv, PackagesAgree, Others
  <1> QED BY <1>7, <1>8, <1>9, <1>10, <1>11, <1>12 DEF RInv

LEMMA CleanStep == RInv /\ Clean => RInv'
  <1> SUFFICES ASSUME RInv, Clean PROVE RInv'
    OBVIOUS
  <1>1. Pending("clean") /\ Done /\ built' = None /\ dist' = {} /\ sums' = {}
        /\ UNCHANGED <<files, config, goMod, root, target, version, overridden, left, committed,
                       lost, commands, faults>>
    BY DEF Clean, tree, job
  <1>2. target \in Targets /\ at \in 1..Len(Steps[target]) /\ Len(Steps[target]) \in Nat
        /\ Steps[target][at] = "clean" /\ outcome = "none"
    BY <1>1, Here
  <1>3. \/ target = "clean" /\ at' = 0 /\ outcome' = "ok"
        \/ target \in {"tar", "dist"} /\ at = 1 /\ at' = 2 /\ outcome' = "none"
    BY <1>1, <1>2, Positions DEF Done, Last
  <1>4. left = {}
    BY <1>2, <1>3 DEF RInv, SumInv
  <1>5. TypeOK'
    <2>1. overridden' \in BOOLEAN /\ lost' \in BOOLEAN
      BY <1>1 DEF RInv, TypeOK
    <2>2. at' \in 0..Len(Steps[target']) /\ outcome' \in {"none", "ok"}
      BY <1>1, <1>2, AtType
    <2>3. built' \in Nat /\ dist' \subseteq Artifacts /\ sums' \subseteq Artifacts
      BY <1>1 DEF None
    <2> QED BY <1>1, <1>4, <2>1, <2>2, <2>3 DEF RInv, TypeOK
  <1>6. OutcomeInv' /\ VersionInv' /\ BumpInv' /\ InstallInv' /\ SumInv' /\ DistInv'
    BY <1>1, <1>2, <1>3, <1>4
       DEF RInv, OutcomeInv, VersionInv, BumpInv, InstallInv, SumInv, DistInv
  <1>7. BuiltInv'
    BY <1>1, <1>2, <1>3 DEF BuiltInv
  <1>8. BumpAgrees' /\ DistComplete' /\ SumsMatch' /\ InstalledAsSaid' /\ PackagesAgree'
    BY <1>1, <1>3
       DEF BumpAgrees, DistComplete, SumsMatch, InstalledAsSaid, PackagesAgree
  <1> QED BY <1>5, <1>6, <1>7, <1>8 DEF RInv

LEMMA CopyBinaryStep == RInv /\ CopyBinary => RInv'
  <1> SUFFICES ASSUME RInv, CopyBinary PROVE RInv'
    OBVIOUS
  <1>1. Pending("copyBinary") /\ Done /\ root' = [root EXCEPT !.binary = built]
        /\ UNCHANGED <<files, config, goMod, built, dist, sums, target, version, overridden, left,
                       committed, lost, commands, faults>>
    BY DEF CopyBinary, Overwritten, tree, job
  <1>2. target = "install" /\ at = 3 /\ at' = 4 /\ outcome' = "none" /\ outcome = "none"
    BY <1>1, Here, Positions DEF Done, Last
  <1>3. built = files["binary"] /\ built > 0
    <2>1. Steps[target][at - 1] = "compile"
      BY <1>2, Table
    <2> QED BY <2>1, <1>2 DEF RInv, BuiltInv
  <1>4. root' \in [binary : Contents, manual : Contents] /\ root'.binary = built
    BY <1>1 DEF RInv, TypeOK, Contents
  <1>5. TypeOK'
    <2>1. overridden' \in BOOLEAN /\ lost' \in BOOLEAN
      BY <1>1 DEF RInv, TypeOK
    <2>2. at' \in 0..Len(Steps[target'])
      BY <1>1, <1>2, Table
    <2> QED BY <1>1, <1>2, <1>4, <2>1, <2>2 DEF RInv, TypeOK
  <1>6. OutcomeInv' /\ VersionInv' /\ BumpInv' /\ InstallInv' /\ SumInv' /\ DistInv'
    BY <1>1, <1>2, <1>3, <1>4
       DEF RInv, OutcomeInv, VersionInv, BumpInv, InstallInv, SumInv, DistInv
  <1>7. BuiltInv'
    BY <1>1, <1>2, Table DEF BuiltInv
  <1>8. BumpAgrees' /\ DistComplete' /\ SumsMatch' /\ InstalledAsSaid' /\ PackagesAgree'
    BY <1>1, <1>2
       DEF RInv, BumpAgrees, DistComplete, SumsMatch, InstalledAsSaid, PackagesAgree
  <1> QED BY <1>5, <1>6, <1>7, <1>8 DEF RInv

LEMMA CopyManualStep == RInv /\ CopyManual => RInv'
  <1> SUFFICES ASSUME RInv, CopyManual PROVE RInv'
    OBVIOUS
  <1>1. Pending("copyManual") /\ Done
        /\ UNCHANGED <<files, config, goMod, built, dist, sums, target, version, overridden, left,
                       committed, lost, commands>>
    BY DEF CopyManual, tree, job
  <1>2. target = "install" /\ at = 4 /\ at' = 0 /\ outcome' = "ok" /\ outcome = "none"
    BY <1>1, Here, Positions DEF Done, Last
  <1>3. PICK page \in {files["manual"], root.manual, Torn} :
            /\ faults' = IF page = files["manual"] THEN faults ELSE faults + 1
            /\ root' = [root EXCEPT !.manual = page]
    BY DEF CopyManual
  <1>4. root' \in [binary : Contents, manual : Contents] /\ root'.binary = root.binary
    BY <1>3 DEF RInv, TypeOK, Contents, Torn, Files
  <1>5. TypeOK'
    <2>1. overridden' \in BOOLEAN /\ lost' \in BOOLEAN
      BY <1>1 DEF RInv, TypeOK
    <2>2. at' \in 0..Len(Steps[target'])
      BY <1>1, <1>2, Table
    <2>3. faults' \in Nat
      BY <1>3 DEF RInv, TypeOK
    <2> QED BY <1>1, <1>2, <1>4, <2>1, <2>2, <2>3 DEF RInv, TypeOK
  <1>6. OutcomeInv' /\ VersionInv' /\ BumpInv' /\ BuiltInv' /\ InstallInv' /\ SumInv'
        /\ DistInv'
    BY <1>1, <1>2
       DEF RInv, OutcomeInv, VersionInv, BumpInv, BuiltInv, InstallInv, SumInv, DistInv
  <1>7. InstalledAsSaid'
    BY <1>1, <1>2, <1>4 DEF RInv, InstallInv, InstalledAsSaid
  <1>8. BumpAgrees' /\ DistComplete' /\ SumsMatch' /\ PackagesAgree'
    BY <1>1, <1>2 DEF RInv, BumpAgrees, DistComplete, SumsMatch, PackagesAgree
  <1> QED BY <1>5, <1>6, <1>7, <1>8 DEF RInv

LEMMA RemoveStep ==
    ASSUME RInv, \/ Remove("binary", "removeBinary")
                 \/ Remove("manual", "removeManual")
    PROVE  RInv'
  <1>1. Done
        /\ UNCHANGED <<files, config, goMod, built, dist, sums, target, version, overridden, left,
                       committed, lost, commands, faults>>
    BY DEF Remove, tree, job
  <1>2. \/ /\ target = "uninstall" /\ at = 1 /\ at' = 2 /\ outcome' = "none"
           /\ root' = [root EXCEPT !["binary"] = None]
        \/ /\ target = "uninstall" /\ at = 2 /\ at' = 0 /\ outcome' = "ok"
           /\ root' = [root EXCEPT !["manual"] = None]
    BY Here, Positions DEF Remove, Done, Last
  <1>3. root' \in [binary : Contents, manual : Contents]
        /\ (at = 1 => root'.binary = None)
        /\ (at = 2 => root'.binary = root.binary /\ root'.manual = None)
    BY <1>2 DEF RInv, TypeOK, Contents, None
  <1>4. TypeOK'
    <2>1. overridden' \in BOOLEAN /\ lost' \in BOOLEAN
      BY <1>1 DEF RInv, TypeOK
    <2>2. at' \in 0..Len(Steps[target'])
      <3>1. Len(Steps["uninstall"]) = 2
        BY Table
      <3> QED BY <1>1, <1>2, <3>1
    <2> QED BY <1>1, <1>2, <1>3, <2>1, <2>2 DEF RInv, TypeOK
  <1>5. OutcomeInv' /\ VersionInv' /\ BumpInv' /\ InstallInv' /\ SumInv' /\ DistInv'
    BY <1>1, <1>2, <1>3
       DEF RInv, OutcomeInv, VersionInv, BumpInv, InstallInv, SumInv, DistInv
  <1>6. BuiltInv'
    BY <1>1, <1>2, Table DEF BuiltInv
  <1>7. InstalledAsSaid'
    BY <1>1, <1>2, <1>3 DEF RInv, InstallInv, InstalledAsSaid
  <1>8. BumpAgrees' /\ DistComplete' /\ SumsMatch' /\ PackagesAgree'
    BY <1>1, <1>2 DEF RInv, BumpAgrees, DistComplete, SumsMatch, PackagesAgree
  <1> QED BY <1>4, <1>5, <1>6, <1>7, <1>8 DEF RInv

LEMMA CreateSumsStep == RInv /\ CreateSums => RInv'
  <1> SUFFICES ASSUME RInv, CreateSums PROVE RInv'
    OBVIOUS
  <1>1. Pending("create") /\ Done /\ left' = dist /\ sums' = {}
        /\ UNCHANGED <<files, config, goMod, built, dist, root, target, version, overridden,
                       committed, lost, commands, faults>>
    BY DEF CreateSums, Created, tree, job
  <1>2. target = "checksums" /\ at = 1 /\ at' = 2 /\ outcome' = "none" /\ outcome = "none"
    BY <1>1, Here, Positions DEF Done, Last
  <1>3. TypeOK'
    <2>1. overridden' \in BOOLEAN /\ lost' \in BOOLEAN
      BY <1>1 DEF RInv, TypeOK
    <2>2. at' \in 0..Len(Steps[target'])
      BY <1>1, <1>2, Table
    <2> QED BY <1>1, <1>2, <2>1, <2>2 DEF RInv, TypeOK
  <1>4. OutcomeInv' /\ VersionInv' /\ BumpInv' /\ InstallInv' /\ SumInv' /\ DistInv'
    BY <1>1, <1>2
       DEF RInv, OutcomeInv, VersionInv, BumpInv, InstallInv, SumInv, DistInv
  <1>5. BuiltInv'
    BY <1>1, <1>2, Table DEF BuiltInv
  <1>6. BumpAgrees' /\ DistComplete' /\ SumsMatch' /\ InstalledAsSaid' /\ PackagesAgree'
    BY <1>1, <1>2
       DEF RInv, BumpAgrees, DistComplete, SumsMatch, InstalledAsSaid, PackagesAgree
  <1> QED BY <1>3, <1>4, <1>5, <1>6 DEF RInv

LEMMA SumLineStep == RInv /\ SumLine => RInv'
  <1> SUFFICES ASSUME RInv, SumLine PROVE RInv'
    OBVIOUS
  <1>1. Pending("sum")
        /\ UNCHANGED <<files, config, goMod, built, dist, root, target, version, overridden, at,
                       outcome, committed, commands>>
    BY DEF SumLine, tree, job
  <1>2. target = "checksums" /\ at = 2 /\ outcome = "none"
    BY <1>1, Here, Positions
  <1>3. PICK a \in left, written \in BOOLEAN :
            /\ left' = left \ {a}
            /\ faults' = IF written THEN faults ELSE faults + 1
            /\ sums' = IF written THEN sums \cup {a} ELSE sums
            /\ lost' = (lost \/ ~written)
    BY DEF SumLine
  <1>4. left \subseteq dist /\ dist \subseteq Artifacts /\ sums \subseteq dist
        /\ (~lost => dist = sums \cup left)
    BY <1>2 DEF RInv, TypeOK, SumInv
  <1>5. sums' \subseteq dist /\ left' \subseteq dist
    BY <1>3, <1>4
  <1>6. ~lost' => dist = sums' \cup left'
    BY <1>3, <1>4
  <1>7. TypeOK'
    <2>1. overridden' \in BOOLEAN /\ lost' \in BOOLEAN
      BY <1>1, <1>3 DEF RInv, TypeOK
    <2>2. faults' \in Nat
      BY <1>3 DEF RInv, TypeOK
    <2>3. sums' \subseteq Artifacts /\ left' \subseteq dist'
      BY <1>1, <1>4, <1>5
    <2> QED BY <1>1, <2>1, <2>2, <2>3 DEF RInv, TypeOK
  <1>8. SumInv'
    BY <1>1, <1>2, <1>5, <1>6 DEF SumInv
  <1>9. OutcomeInv' /\ VersionInv' /\ BumpInv' /\ BuiltInv' /\ InstallInv' /\ DistInv'
    BY <1>1, <1>2
       DEF RInv, OutcomeInv, VersionInv, BumpInv, BuiltInv, InstallInv, DistInv
  <1>10. BumpAgrees' /\ DistComplete' /\ SumsMatch' /\ InstalledAsSaid' /\ PackagesAgree'
    BY <1>1, <1>2
       DEF RInv, BumpAgrees, DistComplete, SumsMatch, InstalledAsSaid, PackagesAgree
  <1> QED BY <1>7, <1>8, <1>9, <1>10 DEF RInv

LEMMA SumsDoneStep == RInv /\ SumsDone => RInv'
  <1> SUFFICES ASSUME RInv, SumsDone PROVE RInv'
    OBVIOUS
  <1>1. Pending("sum") /\ left = {} /\ Done
        /\ UNCHANGED <<files, config, goMod, built, dist, sums, root, target, version, overridden,
                       left, committed, lost, commands, faults>>
    BY DEF SumsDone, tree, made, job
  <1>2. target = "checksums" /\ at = 2 /\ at' = 0 /\ outcome' = "ok"
    BY <1>1, Here, Positions DEF Done, Last
  <1>3. TypeOK'
    <2>1. overridden' \in BOOLEAN /\ lost' \in BOOLEAN
      BY <1>1 DEF RInv, TypeOK
    <2>2. at' \in 0..Len(Steps[target'])
      BY <1>1, <1>2, Table
    <2> QED BY <1>1, <1>2, <2>1, <2>2 DEF RInv, TypeOK
  <1>4. OutcomeInv' /\ VersionInv' /\ BumpInv' /\ BuiltInv' /\ InstallInv' /\ SumInv'
        /\ DistInv'
    BY <1>1, <1>2
       DEF RInv, OutcomeInv, VersionInv, BumpInv, BuiltInv, InstallInv, SumInv, DistInv
  <1>5. SumsMatch'
    BY <1>1, <1>2 DEF RInv, SumInv, SumsMatch
  <1>6. BumpAgrees' /\ DistComplete' /\ InstalledAsSaid' /\ PackagesAgree'
    BY <1>1, <1>2 DEF RInv, BumpAgrees, DistComplete, InstalledAsSaid, PackagesAgree
  <1> QED BY <1>3, <1>4, <1>5, <1>6 DEF RInv

\* Whatever a step leaves that breaks off, nothing of it counts as a success.
LEMMA InterruptedStep == RInv /\ Interrupted => RInv'
  <1> SUFFICES ASSUME RInv, Interrupted PROVE RInv'
    OBVIOUS
  <1> DEFINE step == Steps[target][at]
  <1>1. /\ at # 0 /\ at' = 0 /\ outcome' \in {"error", "killed"} /\ faults' = faults + 1
        /\ UNCHANGED <<config, target, version, overridden, left, committed, lost, commands>>
    BY DEF Interrupted, job
  <1>2. target \in Targets /\ at \in 1..Len(Steps[target]) /\ Len(Steps[target]) \in Nat
    <2>1. Pending(step)
      BY <1>1 DEF Pending
    <2> QED BY <2>1, Here
  <1>3. files' \in {files} \cup {[files EXCEPT ![f] = Torn] : f \in BeingWritten(step)}
    BY DEF Interrupted
  <1>4. files' \in [Files -> Contents] /\ files'["VERSION"] \in {files["VERSION"], Torn}
    <2>1. BeingWritten(step) \subseteq Files
      BY <1>2, Positions DEF BeingWritten, Files
    <2>2. files \in [Files -> Contents] /\ Torn \in Contents /\ "VERSION" \in Files
      BY DEF RInv, TypeOK, Contents, Torn, Files
    <2> QED BY <1>3, <2>1, <2>2
  <1>5. goMod' \in {"absent", "ready", "bare", "torn"} /\ built' \in Nat
    <2>1. goMod \in {"absent", "ready", "bare", "torn"} /\ built \in Nat
      BY DEF RInv, TypeOK
    <2>2. goMod' \in {goMod, "absent", "torn"}
      BY DEF Interrupted
    <2>3. built' \in {built, None}
      BY DEF Interrupted
    <2> QED BY <2>1, <2>2, <2>3 DEF None
  <1>6. sums' \subseteq Artifacts
    <2>1. sums' \in {sums, {}}
      BY DEF Interrupted
    <2> QED BY <2>1 DEF RInv, TypeOK
  <1>7. root' \in [binary : Contents, manual : Contents]
    <2>1. root' \in {root, [root EXCEPT !.binary = Torn]}
      BY DEF Interrupted
    <2> QED BY <2>1 DEF RInv, TypeOK, Contents, Torn
  <1>8. \/ dist' = dist
        \/ step = "clean" /\ dist' \subseteq dist
        \/ step \in Kinds /\ dist' \subseteq dist \cup {Artifact(step, FALSE)}
    <2>1. dist' \in CASE step = "clean" -> SUBSET dist
                      [] step \in Kinds -> {dist, Others(step),
                                            Others(step) \cup {Artifact(step, FALSE)}}
                      [] OTHER -> {dist}
      BY DEF Interrupted
    <2>2. Others(step) \subseteq dist
      BY DEF Others
    <2>3. "clean" \notin Kinds
      BY DEF Kinds
    <2>4. CASE step = "clean"
      BY <2>1, <2>3, <2>4
    <2>5. CASE step \in Kinds
      BY <2>1, <2>2, <2>3, <2>5
    <2>6. CASE step # "clean" /\ step \notin Kinds
      BY <2>1, <2>6
    <2> QED BY <2>4, <2>5, <2>6
  <1>9. dist' # dist => target \notin {"checksums", "bootstrap"}
    <2>1. dist' # dist => step \in {"clean"} \cup Kinds
      BY <1>8
    <2>2. target = "checksums" => step \in {"create", "sum"}
      BY <1>2, Positions
    <2>3. target = "bootstrap" => step \in {"module", "config"}
      BY <1>2, Table
    <2> QED BY <2>1, <2>2, <2>3 DEF Kinds
  <1>10. dist' \subseteq Artifacts /\ left' \subseteq dist'
    <2>1. CASE dist' = dist
      BY <2>1, <1>1 DEF RInv, TypeOK
    <2>2. CASE dist' # dist
      <3>1. version \in Nat /\ left' = {}
        BY <2>2, <1>1, <1>9 DEF RInv, TypeOK, VersionInv, SumInv, Contents, Torn
      <3>2. step \in Kinds => Artifact(step, FALSE) \in Artifacts
        BY <3>1, ArtifactType
      <3> QED BY <2>2, <1>8, <3>1, <3>2 DEF RInv, TypeOK
    <2> QED BY <2>1, <2>2
  <1>11. TypeOK'
    <2>1. overridden' \in BOOLEAN /\ lost' \in BOOLEAN /\ faults' \in Nat
      BY <1>1 DEF RInv, TypeOK
    <2>2. at' \in 0..Len(Steps[target'])
      BY <1>1, <1>2
    <2> QED BY <1>1, <1>4, <1>5, <1>6, <1>7, <1>10, <2>1, <2>2 DEF RInv, TypeOK
  <1>12. OutcomeInv' /\ VersionInv' /\ BuiltInv' /\ InstallInv' /\ SumInv' /\ DistInv'
    BY <1>1 DEF OutcomeInv, VersionInv, BuiltInv, InstallInv, SumInv, DistInv
  <1>13. BumpInv'
    BY <1>1, <1>4 DEF RInv, BumpInv, Torn
  <1>14. BumpAgrees' /\ DistComplete' /\ SumsMatch' /\ InstalledAsSaid'
    BY <1>1 DEF BumpAgrees, DistComplete, SumsMatch, InstalledAsSaid
  <1>15. PackagesAgree'
    <2>1. \A a \in dist' : a.whole => a \in dist
      <3>1. ~Artifact(step, FALSE).whole
        BY DEF Artifact
      <3> QED BY <3>1, <1>8
    <2> QED BY <2>1 DEF RInv, PackagesAgree
  <1> QED BY <1>11, <1>12, <1>13, <1>14, <1>15 DEF RInv

LEMMA RestoreStep == RInv /\ Restore => RInv'
  <1> SUFFICES ASSUME RInv, Restore PROVE RInv'
    OBVIOUS
  <1>1. /\ at = 0 /\ at' = 0 /\ outcome' = "none" /\ faults' = faults + 1
        /\ UNCHANGED <<built, dist, sums, root, target, version, overridden, left,
                       committed, lost, commands>>
    BY DEF Restore, made, job
  <1>2. files' = files \/ \E f \in Files : files' = [files EXCEPT ![f] = committed]
    BY DEF Restore
  <1>3. files' \in [Files -> Contents] /\ files'["VERSION"] \in {files["VERSION"], committed}
    BY <1>2 DEF RInv, TypeOK, Contents, Files
  <1>4. TypeOK'
    <2>1. overridden' \in BOOLEAN /\ lost' \in BOOLEAN /\ faults' \in Nat
      BY <1>1 DEF RInv, TypeOK
    <2>2. at' \in 0..Len(Steps[target'])
      BY <1>1 DEF RInv, TypeOK
    <2>3. /\ config' \in {"repository", "bootstrap"}
          /\ goMod' \in {"absent", "ready", "bare", "torn"}
      BY DEF Restore, RInv, TypeOK
    <2> QED BY <1>1, <1>3, <2>1, <2>2, <2>3 DEF RInv, TypeOK
  <1>5. OutcomeInv' /\ VersionInv' /\ BuiltInv' /\ InstallInv' /\ SumInv' /\ DistInv'
    BY <1>1 DEF RInv, OutcomeInv, VersionInv, BuiltInv, InstallInv, SumInv, DistInv
  <1>6. BumpInv'
    BY <1>1, <1>3 DEF RInv, TypeOK, BumpInv
  <1>7. BumpAgrees' /\ DistComplete' /\ SumsMatch' /\ InstalledAsSaid' /\ PackagesAgree'
    BY <1>1
       DEF RInv, BumpAgrees, DistComplete, SumsMatch, InstalledAsSaid, PackagesAgree
  <1> QED BY <1>4, <1>5, <1>6, <1>7 DEF RInv

-----------------------------------------------------------------------------
\* The theorems

LEMMA InitInv == Init => RInv
  <1> SUFFICES ASSUME Init PROVE RInv
    OBVIOUS
  <1>1. FirstVersion \in Nat \ {0}
    BY ReleaseAssumption
  <1>2. files \in [Files -> Contents] /\ files["VERSION"] = FirstVersion
    BY <1>1 DEF Init, Contents, Files, None
  <1>3. TypeOK
    <2>1. target \in Targets /\ at \in 0..Len(Steps[target])
      BY Table DEF Init
    <2>2. goMod \in {"absent", "ready", "bare", "torn"}
      BY DEF Init
    <2>3. built \in Nat /\ root \in [binary : Contents, manual : Contents]
      BY DEF Init, None, Contents
    <2> QED BY <1>1, <1>2, <2>1, <2>2, <2>3 DEF Init, TypeOK, Contents
  <1> QED BY <1>1, <1>2, <1>3
          DEF Init, RInv, OutcomeInv, VersionInv, BumpInv, BuiltInv, InstallInv, SumInv,
              DistInv, BumpAgrees, PackagesAgree, DistComplete, SumsMatch, InstalledAsSaid

\* Versions, artifacts, sums and installed files fit together at every step of
\* every command, however often one breaks off.
THEOREM ReleaseInvariant == Spec => []RInv
  <1>1. RInv /\ [Next]_vars => RInv'
    <2> SUFFICES ASSUME RInv, [Next]_vars PROVE RInv'
      OBVIOUS
    <2>1. CASE UNCHANGED vars
      <3>1. UNCHANGED <<files, config, goMod, built, dist, sums, root, target, version, overridden,
                        at, left, outcome, committed, lost, commands, faults>>
        BY <2>1 DEF vars, tree, made, job
      <3> QED BY <3>1
              DEF RInv, TypeOK, OutcomeInv, VersionInv, BumpInv, BuiltInv, InstallInv,
                  SumInv, DistInv, Made, BumpAgrees, PackagesAgree, DistComplete,
                  SumsMatch, InstalledAsSaid
    <2> QED BY <2>1, CommandStep, WriteVersionStep, NoVersionFoundStep, EnsureModuleStep,
               EnsureConfigStep, CompileStep, PackageStep, SourceTarballStep, CleanStep,
               CopyBinaryStep, CopyManualStep, RemoveStep, CreateSumsStep, SumLineStep,
               SumsDoneStep, InterruptedStep, RestoreStep
               DEF Next
  <1> QED BY <1>1, InitInv, PTL DEF Spec

\* Type correctness.
THEOREM ReleaseTypeCorrect == Spec => []TypeOK
  <1>1. RInv => TypeOK
    BY DEF RInv
  <1> QED BY <1>1, ReleaseInvariant, PTL

\* A bump that succeeds leaves one version in all five files.
THEOREM BumpsAgree == Spec => []BumpAgrees
  <1>1. RInv => BumpAgrees
    BY DEF RInv
  <1> QED BY <1>1, ReleaseInvariant, PTL

\* No version is given out twice, nor a lower one after a higher.
THEOREM VersionsNeverReturn == Spec => VersionsGrow
  <1>1. RInv /\ [Next]_vars => [committed' # committed => committed' > committed]_vars
    <2> SUFFICES ASSUME RInv, Next, committed' # committed PROVE committed' > committed
      OBVIOUS
    <2>1. WriteVersion /\ committed' = version
      BY DEF Next, Command, WriteVersion, NoVersionFound, EnsureModule, EnsureConfig,
             Compile, Package, SourceTarball, Clean, CopyBinary, CopyManual, Remove,
             CreateSums, SumLine, SumsDone, Interrupted, Restore
    <2> QED BY <2>1 DEF WriteVersion, RInv, BumpInv
  <1> QED BY <1>1, ReleaseInvariant, PTL DEF Spec, VersionsGrow

\* A package made while the files agree is of one version throughout.
THEOREM PackagesOfOneVersion == Spec => []PackagesAgree
  <1>1. RInv => PackagesAgree
    BY DEF RInv
  <1> QED BY <1>1, ReleaseInvariant, PTL

\* dist succeeds only with three artifacts of its own making.
THEOREM DistIsComplete == Spec => []DistComplete
  <1>1. RInv => DistComplete
    BY DEF RInv
  <1> QED BY <1>1, ReleaseInvariant, PTL

\* SHA256SUMS lists what is in dist, but for lines that were lost.
THEOREM SumsAreRight == Spec => []SumsMatch
  <1>1. RInv => SumsMatch
    BY DEF RInv
  <1> QED BY <1>1, ReleaseInvariant, PTL

\* install and uninstall do what they report.
THEOREM InstallIsRight == Spec => []InstalledAsSaid
  <1>1. RInv => InstalledAsSaid
    BY DEF RInv
  <1> QED BY <1>1, ReleaseInvariant, PTL
=============================================================================
