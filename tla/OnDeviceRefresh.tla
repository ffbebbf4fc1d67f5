-------------------------- MODULE OnDeviceRefresh --------------------------
(***************************************************************************)
(* odrefresh (odrefresh/odrefresh.cc, odrefresh_main.cc): at boot it       *)
(* checks the compiled boot images and system server artifacts against the *)
(* modules installed, removes what is out of date from /data, and compiles *)
(* what is missing, over crashes, failures of dex2oat and of single file   *)
(* operations, and updates and rollbacks between the boots.                *)
(*                                                                         *)
(* An artifact is a few files (image, oat, vdex).  A file is None, Torn    *)
(* (its writer died), Empty (erased but not unlinked), or what it was      *)
(* compiled from.  Dex2oat itself, and what dex2oat is told, is left out.  *)
(***************************************************************************)
EXTENDS Integers, Sequences, SequencesExt, FiniteSets

CONSTANTS
    Isas, SystemServerIsa,  \* GetBootClasspathIsas, GetSystemServerIsa
    Jars,                   \* all_systemserver_jars_, in order
    Envs,                   \* installed versions [art, main, ss]; 0 is factory
    Systems,                \* the choices for the artifacts on /system
    Configs,                \* records [partial, refresh] of the configuration
    NumFiles,               \* files of an artifact: image, oat and vdex
    MaxBoots, None, Torn, Empty

Kinds == 1 .. NumFiles
Boot(isa, image) == <<isa, image>>
Jar(j) == <<SystemServerIsa, j>>
JarArtifacts == {Jar(j) : j \in ToSet(Jars)}
Artifacts == (Isas \X {"primary", "mainline", "minimal"}) \cup JarArtifacts

VARIABLES
    system, config,   \* fixed
    env, boots,
    data,             \* the files on /data, by artifact and kind
    cacheInfo,        \* cache-info.xml: None, Torn or an environment
    pc, result,       \* the process, and how the last one ended
    keep,             \* what CleanupArtifactDirectory keeps
    required,         \* does the check ask for a compilation?
    jobs,             \* artifacts still to compile
    failed,           \* what could not be compiled: ISAs and jars
    kind,             \* the kind of file that is moved
    saved             \* the file that is rewritten: [of, content]

diskVars == <<data, cacheInfo>>
processVars == <<pc, result, keep, required, jobs, failed, kind, saved>>
vars == <<system, config, env, boots, diskVars, processVars>>

NoFiles == [a \in Artifacts |-> [k \in Kinds |-> None]]

(* Idle between boots; the last process ended with result r.               *)
Ended(r) ==
    /\ pc' = "off" /\ result' = r
    /\ keep' = {} /\ required' = FALSE /\ jobs' = <<>> /\ failed' = {}
    /\ kind' = 1 /\ saved' = None

Init ==
    /\ system \in Systems /\ config \in Configs
    /\ env \in Envs /\ boots = 0
    /\ data = NoFiles /\ cacheInfo = None
    /\ pc = "off" /\ result = None
    /\ keep = {} /\ required = FALSE /\ jobs = <<>> /\ failed = {}
    /\ kind = 1 /\ saved = None

-----------------------------------------------------------------------------
(* What the check decides.                                                 *)

ExistsIn(d, a) == \A k \in Kinds : d[a][k] # None
Exists(a) == ExistsIn(data, a)

(* CheckPreconditionForSystem and -ForData: the kinds of artifacts that    *)
(* may be used.                                                            *)
SystemOk ==
    CASE env.art # 0 -> {}
      [] env.art = 0 /\ env.main # 0 -> {"primary"}
      [] OTHER -> {"primary", "mainline", "jars"}

DataOk ==
    CASE cacheInfo \in {None, Torn} -> {}
      [] cacheInfo \notin {None, Torn} ->
           IF cacheInfo.art # env.art THEN {}
           ELSE IF cacheInfo.main # env.main THEN {"primary"}
           ELSE IF cacheInfo.ss # env.ss THEN {"primary", "mainline"}
           ELSE {"primary", "mainline", "jars"}

(* CheckBootClasspathArtifactsAreUpToDate for one ISA: what to generate    *)
(* and what was checked.                                                   *)
PrimaryOnSystem(isa) == "primary" \in SystemOk /\ Boot(isa, "primary") \in system
AllOnSystem(isa) ==
    PrimaryOnSystem(isa) /\ "mainline" \in SystemOk /\ Boot(isa, "mainline") \in system
PrimaryOnData(isa) == "primary" \in DataOk /\ Exists(Boot(isa, "primary"))
MainlineOnData(isa) ==
    /\ PrimaryOnSystem(isa) \/ PrimaryOnData(isa)
    /\ "mainline" \in DataOk /\ Exists(Boot(isa, "mainline"))

ImagesToGenerate(isa) ==
    IF AllOnSystem(isa) THEN {}
    ELSE (IF PrimaryOnSystem(isa) \/ PrimaryOnData(isa) THEN {} ELSE {Boot(isa, "primary")})
         \cup (IF MainlineOnData(isa) THEN {} ELSE {Boot(isa, "mainline")})

CheckedImages(isa) ==
    IF AllOnSystem(isa) THEN {}
    ELSE {a \in {Boot(isa, "primary")} : PrimaryOnData(isa)}
         \cup {a \in {Boot(isa, "mainline")} : MainlineOnData(isa)}
         \cup {a \in {Boot(isa, "minimal")} :
                 "primary" \in DataOk /\ ~Exists(Boot(isa, "primary")) /\ Exists(a)}

(* CheckSystemServerArtifactsAreUpToDate, unless the boot images of the    *)
(* system server's ISA are generated: then all jars are.                   *)
JarsMissingOnSystem == IF "jars" \in SystemOk THEN JarArtifacts \ system ELSE JarArtifacts
JarsOnData == {a \in JarArtifacts : "jars" \in DataOk /\ Exists(a)}
ImagesInvalid == ImagesToGenerate(SystemServerIsa) # {}

JarsToCompile ==
    IF ImagesInvalid THEN JarArtifacts ELSE JarsMissingOnSystem \ JarsOnData
CheckedJars ==
    IF ImagesInvalid \/ JarsMissingOnSystem = {} THEN {} ELSE JarsOnData

ToGenerate == UNION {ImagesToGenerate(isa) : isa \in Isas} \cup JarsToCompile
CompilationRequired == ToGenerate # {} \/ DataOk # {"primary", "mainline", "jars"}

(* The order in which Compile goes through a set of artifacts.             *)
InOrder(S) ==
    LET images == SetToSeq(Isas)
        bcp(isa) == SelectSeq(<<Boot(isa, "primary"), Boot(isa, "mainline")>>,
                              LAMBDA a : a \in S)
    IN  FlattenSeq([i \in 1 .. Len(images) |-> bcp(images[i])])
        \o SelectSeq([i \in 1 .. Len(Jars) |-> Jar(Jars[i])], LAMBDA a : a \in S)

CompileAll == InOrder({a \in Artifacts : a[2] # "minimal"})

-----------------------------------------------------------------------------
(* The external world: an update or a rollback, and a reboot.  odsign      *)
(* clears the directory when it finds a torn artifact.                     *)
Reboot ==
    /\ pc = "off" /\ boots < MaxBoots
    /\ boots' = boots + 1
    /\ env' \in Envs
    /\ IF \E a \in Artifacts, k \in Kinds : data[a][k] = Torn
       THEN data' = NoFiles /\ cacheInfo' = None
       ELSE UNCHANGED diskVars
    /\ pc' = "check" /\ result' = None
    /\ UNCHANGED <<system, config, keep, required, jobs, failed, kind, saved>>

Crash ==
    /\ pc # "off"
    /\ Ended("crash")
    /\ UNCHANGED <<system, config, env, boots, diskVars>>

-----------------------------------------------------------------------------
(* CheckArtifactsAreUpToDate.                                              *)
Check ==
    /\ pc = "check"
    /\ required' = CompilationRequired
    /\ jobs' = InOrder(ToGenerate)
    /\ keep' = UNION {CheckedImages(isa) : isa \in Isas} \cup CheckedJars
    /\ pc' = "cleanup"
    /\ UNCHANGED <<system, config, env, boots, diskVars, result, failed, kind, saved>>

(* --force-compile: the directory is removed, and everything compiled.     *)
ForceCompile ==
    /\ pc = "check"
    /\ jobs' = CompileAll /\ required' = TRUE
    /\ keep' = {}
    /\ pc' = "remove"
    /\ UNCHANGED <<system, config, env, boots, diskVars, result, failed, kind, saved>>

(* Mutant: artifacts that are complete stay, whatever they were made from. *)
ToRemoveIncomplete ==
    {a \in Artifacts : a \notin keep /\ data[a] # NoFiles[a] /\ ~Exists(a)}

ToRemove == {a \in Artifacts : a \notin keep /\ data[a] # NoFiles[a]}

(* A file of CleanupArtifactDirectory, which always keeps the cache info,  *)
(* or of RemoveDirectory, in whatever order the directory is listed.       *)
RemoveFile ==
    /\ pc \in {"cleanup", "remove", "giveUp"}
    /\ \/ /\ \E a \in ToRemove, k \in Kinds :
                data[a][k] # None /\ data' = [data EXCEPT ![a][k] = None]
          /\ UNCHANGED cacheInfo
       \/ /\ pc # "cleanup" /\ cacheInfo # None
          /\ cacheInfo' = None
          /\ UNCHANGED data
    /\ UNCHANGED <<system, config, env, boots, processVars>>

Removed == ToRemove = {} /\ (pc = "cleanup" \/ cacheInfo = None)

(* An unlink fails: the whole directory is removed, and when that fails,   *)
(* too, odrefresh gives up.                                                *)
CleanupFails ==
    /\ ~Removed
    /\ \/ /\ pc = "cleanup"
          /\ keep' = {} /\ pc' = "giveUp"
          /\ UNCHANGED <<result, required, jobs, failed, kind, saved>>
       \/ pc \in {"remove", "giveUp"} /\ Ended("cleanupFailed")
    /\ UNCHANGED <<system, config, env, boots, diskVars>>

(* After the cleanup: nothing to do; or compilation is disabled or was     *)
(* tried too recently; or Compile, which starts over when partial          *)
(* compilation is off.                                                     *)
AfterCleanup ==
    /\ Removed
    /\ \/ pc = "cleanup" /\ ~required /\ Ended("upToDate")
       \/ pc = "cleanup" /\ required /\ Ended("skipped")
       \/ pc = "giveUp" /\ Ended("cleanupFailed")
       \/ /\ pc = "cleanup" /\ required /\ ~config.partial
          /\ jobs' = CompileAll /\ keep' = {} /\ pc' = "remove"
          /\ UNCHANGED <<result, required, failed, kind, saved>>
       \/ /\ pc = "remove" \/ (pc = "cleanup" /\ required /\ config.partial)
          /\ pc' = "refresh"
          /\ UNCHANGED <<result, keep, required, jobs, failed, kind, saved>>
    /\ UNCHANGED <<system, config, env, boots, diskVars>>

(* RefreshExistingArtifacts reads, unlinks and rewrites the files one by   *)
(* one, the cache info among them.  A file rewritten is as it was; but a   *)
(* crash from the unlink on finds it missing or torn.                      *)
Rewritten(content) ==
    IF saved.of = "cacheInfo" THEN cacheInfo' = content /\ UNCHANGED data
    ELSE /\ data' = [data EXCEPT ![saved.of[1]][saved.of[2]] = content]
         /\ UNCHANGED cacheInfo

RefreshFile ==
    /\ pc = "refresh" /\ config.refresh /\ saved = None
    /\ \E left \in {None, Torn} :
        \/ \E a \in Artifacts, k \in Kinds :
            /\ data[a][k] # None
            /\ saved' = [of |-> <<a, k>>, content |-> data[a][k]]
            /\ data' = [data EXCEPT ![a][k] = left]
            /\ UNCHANGED cacheInfo
        \/ /\ cacheInfo # None
           /\ saved' = [of |-> "cacheInfo", content |-> cacheInfo]
           /\ cacheInfo' = left
           /\ UNCHANGED data
    /\ UNCHANGED <<system, config, env, boots>>
    /\ UNCHANGED <<pc, result, keep, required, jobs, failed, kind>>

(* It is whole again; or the write failed and left it missing or partial,  *)
(* or only its mode could not be set, and odrefresh gives up.              *)
RewriteFile ==
    /\ pc = "refresh" /\ saved # None
    /\ \/ /\ Rewritten(saved.content)
          /\ saved' = None
          /\ UNCHANGED <<pc, result, keep, required, jobs, failed, kind>>
       \/ /\ Ended("cleanupFailed")
          /\ \E left \in {None, Torn, saved.content} : Rewritten(left)
    /\ UNCHANGED <<system, config, env, boots>>

(* WriteCacheInfo unlinks the old file and writes the new one.             *)
WriteCacheInfo ==
    /\ \/ /\ pc = "refresh" /\ saved = None
          /\ cacheInfo' = Torn
          /\ pc' = "info"
          /\ UNCHANGED <<result, keep, required, jobs, failed, kind, saved>>
       \/ /\ pc = "info"
          /\ cacheInfo' = env
          /\ pc' = "job"
          /\ UNCHANGED <<result, keep, required, jobs, failed, kind, saved>>
       \/ pc = "info" /\ Ended("cleanupFailed") /\ UNCHANGED cacheInfo
    /\ UNCHANGED <<system, config, env, boots, data>>

-----------------------------------------------------------------------------
(* Compile: one artifact after the other.                                  *)

(* GetBestBootImages: where the images come from.                          *)
BestPrimary(d, isa) == IF ExistsIn(d, Boot(isa, "primary")) THEN "data" ELSE "system"
BestMainline(d, isa) == IF ExistsIn(d, Boot(isa, "mainline")) THEN "data" ELSE "system"

(* What an artifact is compiled from now.                                  *)
Inputs(a) ==
    IF a[2] \in {"primary", "minimal"} THEN [art |-> env.art]
    ELSE IF a[2] = "mainline"
    THEN [art |-> env.art, main |-> env.main, on |-> <<BestPrimary(data, a[1])>>]
    ELSE [art |-> env.art, main |-> env.main, ss |-> env.ss,
          on |-> <<BestPrimary(data, a[1]), BestMainline(data, a[1])>>]

(* The job at the head of jobs is done: a primary boot image makes the     *)
(* minimal one superfluous.                                                *)
JobDone(d) ==
    LET a == Head(jobs) IN
    /\ data' = IF a[2] = "primary" THEN [d EXCEPT ![Boot(a[1], "minimal")] = [k \in Kinds |-> None]]
               ELSE d
    /\ jobs' = Tail(jobs) /\ pc' = "job" /\ kind' = 1 /\ UNCHANGED saved
    /\ UNCHANGED <<result, keep, required, failed>>

(* Mutant: the failure is not remembered.                                  *)
FailureForgotten(d) ==
    /\ data' = d
    /\ jobs' = Tail(jobs) /\ pc' = "job" /\ kind' = 1
    /\ UNCHANGED <<saved, failed, result, keep, required>>

(* It failed.  Without a primary boot image there is no mainline extension *)
(* either, and the minimal image is the way out.                           *)
JobFailed(d) ==
    LET a == Head(jobs)
        minimal == Boot(a[1], "minimal")
        rest == SelectSeq(Tail(jobs), LAMBDA b : b # Boot(a[1], "mainline"))
    IN
    /\ data' = d
    /\ failed' = failed \cup {IF a \in JarArtifacts THEN a ELSE a[1]}
    /\ jobs' = IF a[2] = "primary" THEN (IF ExistsIn(d, minimal) THEN rest ELSE <<minimal>> \o rest)
               ELSE Tail(jobs)
    /\ pc' = "job" /\ kind' = 1 /\ UNCHANGED saved
    /\ UNCHANGED <<result, keep, required>>

(* Mutant: jars are compiled although boot images could not be.            *)
RunDex2oatAnyway ==
    /\ pc = "job" /\ jobs # <<>>
    /\ \/ JobFailed(data)
       \/ /\ pc' = "create"
          /\ UNCHANGED <<data, result, keep, required, jobs, failed, kind, saved>>
    /\ UNCHANGED <<system, config, env, boots, cacheInfo>>

(* dex2oat succeeds, or it fails or there is no space for it; jars are not *)
(* compiled without the boot images of their ISA.                          *)
RunDex2oat ==
    /\ pc = "job" /\ jobs # <<>>
    /\ IF Head(jobs) \in JarArtifacts /\ SystemServerIsa \in failed
       THEN jobs' = <<>> /\ UNCHANGED <<data, pc, result, keep, required, failed, kind, saved>>
       ELSE \/ JobFailed(data)
            \/ /\ pc' = "create"
               /\ UNCHANGED <<data, result, keep, required, jobs, failed, kind, saved>>
    /\ UNCHANGED <<system, config, env, boots, cacheInfo>>

(* MoveOrEraseFiles: an output file is created; then it is copied, flushed *)
(* and closed.                                                             *)
CreateOutput ==
    /\ pc = "create"
    /\ data' = [data EXCEPT ![Head(jobs)][kind] = Torn]
    /\ pc' = "move"
    /\ UNCHANGED <<system, config, env, boots, cacheInfo, result, keep, required, jobs, failed, kind, saved>>

MoveFile ==
    LET done == [data EXCEPT ![Head(jobs)][kind] = Inputs(Head(jobs))] IN
    /\ pc = "move"
    /\ IF kind = NumFiles
       THEN JobDone(done)
       ELSE /\ data' = done
            /\ kind' = kind + 1 /\ pc' = "create"
            /\ UNCHANGED <<result, keep, required, jobs, failed, saved>>
    /\ UNCHANGED <<system, config, env, boots, cacheInfo>>

(* A failure erases the output file that is open.  Those closed before it  *)
(* no longer have a descriptor, and FdFile::Unlink leaves them alone.      *)
MoveFails ==
    /\ pc \in {"create", "move"}
    /\ JobFailed([data EXCEPT ![Head(jobs)][kind] = None])
    /\ UNCHANGED <<system, config, env, boots, cacheInfo>>

(* When the flush fails, the file is truncated and closed before it could  *)
(* be unlinked.  A close never fails on Linux.                             *)
FlushFails ==
    /\ pc = "move"
    /\ JobFailed([data EXCEPT ![Head(jobs)][kind] = Empty])
    /\ UNCHANGED <<system, config, env, boots, cacheInfo>>

Finish ==
    /\ pc = "job" /\ jobs = <<>>
    /\ Ended(IF failed = {} THEN "success" ELSE "compilationFailed")
    /\ UNCHANGED <<system, config, env, boots, diskVars>>

-----------------------------------------------------------------------------
Next ==
    \/ Reboot \/ Crash \/ Check \/ ForceCompile \/ RemoveFile \/ CleanupFails \/ AfterCleanup
    \/ RefreshFile \/ RewriteFile \/ WriteCacheInfo \/ RunDex2oat \/ CreateOutput \/ MoveFile
    \/ MoveFails \/ FlushFails \/ Finish

Spec == Init /\ [][Next]_vars

-----------------------------------------------------------------------------
(* A file is what it should be in the present environment.                 *)
Current(a, k) ==
    /\ data[a][k] # Torn
    /\ data[a][k] # None =>
        \A f \in DOMAIN data[a][k] \cap {"art", "main", "ss"} : data[a][k][f] = env[f]

(* When odrefresh finds everything up to date, or has compiled everything, *)
(* every file it leaves on /data is whole and was compiled from the        *)
(* versions installed, whatever crashed, failed or was rolled back before. *)
(* The exception is a file that was erased and not unlinked, which only a  *)
(* failed flush leaves: see FailedMoveGone.                                *)
NoStaleArtifacts ==
    result \in {"upToDate", "success"} =>
        \A a \in Artifacts, k \in Kinds : data[a][k] = Empty \/ Current(a, k)

(* "If any of the files cannot be moved, then all copies of the files are  *)
(* removed" (MoveOrEraseFiles), so what odrefresh finds up to date is not  *)
(* what a failed move has left.                                            *)
FailedMoveGone ==
    result = "upToDate" => \A a \in Artifacts, k \in Kinds : data[a][k] # Empty

(* A successful compilation settles the matter: the check would find       *)
(* nothing left to do.                                                     *)
SuccessSettles == result = "success" => ~CompilationRequired

(* The CHECK of GetBestBootImages: when a jar is compiled, a primary boot  *)
(* image on /data comes with its mainline extension.                       *)
ImagesComeTogether ==
    (pc = "create" /\ Head(jobs) \in JarArtifacts) =>
        (BestPrimary(data, SystemServerIsa) = "data" => BestMainline(data, SystemServerIsa) = "data")
=============================================================================
