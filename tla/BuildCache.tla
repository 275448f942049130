----------------------------- MODULE BuildCache -----------------------------
(***************************************************************************)
(* The cached build of riscv_build_utils.py: an IP core, the block design  *)
(* (PL) that contains it and the software (PS) that runs next to it are    *)
(* built one after the other, each only when the digest of its sources     *)
(* differs from the one stored.  The Vivado and Vitis runs take from       *)
(* minutes to hours, so the sources may change under them; they may fail   *)
(* or be interrupted.                                                      *)
(*                                                                         *)
(* A source is one of the sets of files that are hashed together, and its  *)
(* content a number.  A digest is the tuple of the contents that went into *)
(* the MD5 sum.  What an artifact was made from is part of its state.      *)
(***************************************************************************)
EXTENDS Integers, Sequences

CONSTANTS
  Cores,              \* the directories of cores/ that hold a core
  Boards,             \* the boards of hardware.json that can be built for
  Contents,           \* Contents[s]: what the developer may give source s
  FirmwareFiles,      \* FirmwareFiles[c]: name -> version of the .c and .h files in content c
  MaxDisturbances     \* bound: edits during a build and builds that fail or are interrupted

\* cores/<core>/src, scripts/*.tcl, platforms/xilinx/src with platforms/xilinx/include
Sources == Cores \cup {"scripts", "firmware"}

ASSUME BuildAssumption ==
  /\ MaxDisturbances \in Nat
  /\ Cores \cap {"pl", "ps", "scripts", "firmware"} = {}   \* tell the digest files and sources apart
  /\ DOMAIN Contents = Sources
  /\ \A s \in Sources : Contents[s] \subseteq Nat \ {0}
  /\ \A c, d \in Cores : c # d => Contents[c] \cap Contents[d] = {}

VARIABLES
  tree,       \* the sources
  digest,     \* the digest files, by the name of what was built
  ip_repo,    \* ip_repo[c]: the packaged IP core
  pl_dir,     \* pl_dir[c]: the block design project with its XSA
  workspace,  \* the Vitis workspace: the XSA of its platform, its application, its sources
  job,        \* the build that runs
  doubtful,     \* history: artifacts that a disturbance may have made differ from their digest
  disturbances  \* how many there were

build_vars == <<tree, digest, ip_repo, pl_dir, workspace, job, doubtful,
                disturbances>>

IpMissing == [state |-> "missing", hdl |-> 0]
PlMissing == [state |-> "missing", ip |-> IpMissing, scripts |-> 0, board |-> "none"]
NoFiles   == [f \in UNION {DOMAIN FirmwareFiles[c] : c \in Contents["firmware"]} |-> 0]
NoWorkspace == [platform |-> PlMissing, app |-> FALSE, src |-> NoFiles]
Idle      == [stage |-> "none", at |-> "idle", core |-> "none", board |-> "none",
              hash |-> <<>>, quiet |-> TRUE]
Running   == job.at # "idle"
NoDigest  == <<>>

\* Mutants: one digest file for every stage of a core, and one for the IPs of all cores.
DigestName_PerCore(stage, core)   == core
DigestName_PerStage(stage, core)  == IF stage = "ip" THEN CHOOSE c \in Cores : TRUE ELSE stage

DigestName(stage, core) == IF stage = "ip" THEN core ELSE stage

(***************************************************************************)
(* _compute_hash with _add_extra_hash_content: the hash of a stage takes   *)
(* in the hash of the stage it depends on, computed anew from the sources  *)
(* of the moment.                                                          *)
(***************************************************************************)
ip_hash(core) == <<tree[core]>>
\* Mutant: the hash of the IP is not mixed in.
pl_hash_OwnFiles(core) == <<tree["scripts"]>>

pl_hash(core) == <<tree["scripts"]>> \o ip_hash(core)
ps_hash(core) == <<tree["firmware"]>> \o pl_hash(core)

compute_hash(stage, core) ==
  CASE stage = "ip" -> ip_hash(core)
    [] stage = "pl" -> pl_hash(core)
    [] stage = "ps" -> ps_hash(core)

(***************************************************************************)
(* _check_build_artifacts_exist looks for a directory, which a tool that   *)
(* failed leaves as well.  The PS stage looks for it under build/, where   *)
(* no tool puts it: Vitis creates it in build/vitis_ws/.                   *)
(***************************************************************************)
ip_exists(core) == ip_repo[core].state # "missing"
pl_exists(core) == pl_dir[core].state # "missing"
ps_exists(core) == FALSE

artifacts_exist(stage, core) ==
  CASE stage = "ip" -> ip_exists(core)
    [] stage = "pl" -> pl_exists(core)
    [] stage = "ps" -> ps_exists(core)

up_to_date(stage, core) ==
  /\ digest[DigestName(stage, core)] = compute_hash(stage, core)
  /\ artifacts_exist(stage, core)

\* What the tools would make of the present sources.
\* (What the packaging script itself puts into an IP is left out: no digest covers it.)
FreshIp(core)        == [state |-> "made", hdl |-> tree[core]]
FreshPl(core, board) == [state |-> "made", ip |-> FreshIp(core), scripts |-> tree["scripts"],
                         board |-> board]

BuildInit ==
  /\ tree \in {t \in [Sources -> UNION {Contents[s] : s \in Sources}] :
                \A s \in Sources : t[s] \in Contents[s]}
  /\ digest = [n \in Cores \cup {"pl", "ps"} |-> NoDigest]
  /\ ip_repo = [c \in Cores |-> IpMissing]
  /\ pl_dir = [c \in Cores |-> PlMissing]
  /\ workspace = NoWorkspace
  /\ job = Idle
  /\ doubtful = {}
  /\ disturbances = 0

BuildTypeOK ==
  /\ \A s \in Sources : tree[s] \in Contents[s]
  /\ \A c \in Cores :
       /\ digest[c] = NoDigest \/ digest[c] \in {<<x>> : x \in Contents[c]}
       /\ ip_repo[c].state \in {"missing", "torn", "made"}
       /\ pl_dir[c].state \in {"missing", "torn", "made"}
  /\ Len(digest["pl"]) \in {0, 2} /\ Len(digest["ps"]) \in {0, 3}
  /\ workspace.platform.state \in {"missing", "torn", "made"}
  /\ job = Idle \/ /\ job.stage \in {"ip", "pl", "ps"} /\ job.core \in Cores /\ job.board \in Boards
                    /\ job.at \in {"check", "tool", "application", "record"}
  /\ doubtful \subseteq ({"ip", "pl"} \X Cores)
  /\ disturbances \in 0..MaxDisturbances

\* The artifacts an edit during the running build throws doubt on: what is made between two
\* reads of the source.  Before the check of the first stage nothing has been read.
JustBegun == job.stage = "ip" /\ job.at = "check"
InDoubt(s) ==
  {<<t, job.core>> : t \in
     CASE s = job.core /\ job.stage = "ip"                -> {"ip", "pl"}
       [] s \in {job.core, "scripts"} /\ job.stage = "pl" -> {"pl"}
       [] OTHER                                           -> {}}

\* The tool cannot succeed: an IP that is half packaged, a project without XSA.
InputsUnusable ==
  /\ job.at = "tool"
  /\ \/ job.stage = "pl" /\ ip_repo[job.core].state # "made"
     \/ job.stage = "ps" /\ pl_dir[job.core].state # "made"

\* The bound counts what need not have happened.
Disturb(artifacts) ==
  /\ InputsUnusable \/ disturbances < MaxDisturbances
  /\ disturbances' = IF InputsUnusable THEN disturbances ELSE disturbances + 1
  /\ doubtful' = doubtful \cup artifacts

(***************************************************************************)
(* The developer: an edit (a return to older contents is one, too), and    *)
(* rm -rf of the build directory, which leaves the digests in              *)
(* .build_cache.                                                           *)
(***************************************************************************)
Edit(s, c) ==
  /\ c # tree[s]
  /\ tree' = [tree EXCEPT ![s] = c]
  /\ IF Running /\ ~JustBegun
     THEN /\ Disturb(InDoubt(s))
          /\ job' = [job EXCEPT !.quiet = FALSE]
     ELSE UNCHANGED <<job, doubtful, disturbances>>
  /\ UNCHANGED <<digest, ip_repo, pl_dir, workspace>>

RemoveBuildDir ==
  /\ ~Running
  /\ ip_repo' = [c \in Cores |-> IpMissing]
  /\ pl_dir' = [c \in Cores |-> PlMissing]
  /\ workspace' = NoWorkspace
  /\ UNCHANGED <<tree, digest, job, doubtful, disturbances>>

\* runtime_hardware_handler creates the three stages and builds them in order.
Begin(core, board) ==
  /\ ~Running
  /\ job' = [Idle EXCEPT !.stage = "ip", !.at = "check", !.core = core, !.board = board]
  /\ UNCHANGED <<tree, digest, ip_repo, pl_dir, workspace, doubtful, disturbances>>

NextStage ==
  CASE job.stage = "ip" -> [job EXCEPT !.stage = "pl", !.at = "check", !.hash = <<>>]
    [] job.stage = "pl" -> [job EXCEPT !.stage = "ps", !.at = "check", !.hash = <<>>]
    [] job.stage = "ps" -> Idle

(***************************************************************************)
(* generic_design.build.                                                   *)
(***************************************************************************)
Skip ==
  /\ job.at = "check" /\ up_to_date(job.stage, job.core)
  /\ job' = NextStage
  /\ UNCHANGED <<tree, digest, ip_repo, pl_dir, workspace, doubtful, disturbances>>

Outdated ==
  /\ job.at = "check" /\ ~up_to_date(job.stage, job.core)
  /\ job' = [job EXCEPT !.at = "tool", !.hash = compute_hash(job.stage, job.core)]
  /\ UNCHANGED <<tree, digest, ip_repo, pl_dir, workspace, doubtful, disturbances>>

\* The digest that is written is the one computed before the tool ran.
Record ==
  /\ job.at = "record"
  /\ digest' = [digest EXCEPT ![DigestName(job.stage, job.core)] = job.hash]
  /\ doubtful' = IF job.quiet /\ (job.stage = "pl" => <<"ip", job.core>> \notin doubtful)
                 THEN doubtful \ {<<job.stage, job.core>>} ELSE doubtful
  /\ job' = NextStage
  /\ UNCHANGED <<tree, ip_repo, pl_dir, workspace, disturbances>>

(***************************************************************************)
(* _run_build_tool: package_riscv_ip.tcl packages the core into the        *)
(* repository; build_riscv_worker_pl.tcl recreates the project directory   *)
(* (create_project -force) and takes the IP from the repository.           *)
(***************************************************************************)
PackageIp ==
  /\ job.stage = "ip" /\ job.at = "tool"
  /\ ip_repo' = [ip_repo EXCEPT ![job.core] = FreshIp(job.core)]
  /\ job' = [job EXCEPT !.at = "record"]
  /\ UNCHANGED <<tree, digest, pl_dir, workspace, doubtful, disturbances>>

BuildPl ==
  /\ job.stage = "pl" /\ job.at = "tool"
  /\ ip_repo[job.core].state = "made"
  /\ pl_dir' = [pl_dir EXCEPT ![job.core] = [state |-> "made", ip |-> ip_repo[job.core],
                                             scripts |-> tree["scripts"],
                                             board |-> job.board]]
  /\ job' = [job EXCEPT !.at = "record"]
  /\ doubtful' = IF <<"ip", job.core>> \in doubtful THEN doubtful \cup {<<"pl", job.core>>} ELSE doubtful
  /\ UNCHANGED <<tree, digest, ip_repo, workspace, disturbances>>

(***************************************************************************)
(* build_riscv_worker_ps_pl.py.  The platform is created from the XSA, or  *)
(* updated to it when the directory exists; the application is created     *)
(* once; the sources are copied over those of the builds before; the ELF   *)
(* is compiled from what the workspace holds then.                         *)
(***************************************************************************)
\* Mutant: a platform that exists is used as it is.
VitisPlatform_KeepsHardware ==
  /\ job.stage = "ps" /\ job.at = "tool"
  /\ pl_dir[job.core].state = "made"
  /\ workspace' = IF workspace.platform.state = "missing"
                  THEN [workspace EXCEPT !.platform = pl_dir[job.core]] ELSE workspace
  /\ job' = [job EXCEPT !.at = "application"]
  /\ UNCHANGED <<tree, digest, ip_repo, pl_dir, doubtful, disturbances>>

VitisPlatform ==
  /\ job.stage = "ps" /\ job.at = "tool"
  /\ pl_dir[job.core].state = "made"
  /\ workspace' = [workspace EXCEPT !.platform = pl_dir[job.core]]
  /\ job' = [job EXCEPT !.at = "application"]
  /\ UNCHANGED <<tree, digest, ip_repo, pl_dir, doubtful, disturbances>>

VitisApplication ==
  LET files == FirmwareFiles[tree["firmware"]]
      old   == IF workspace.app THEN workspace.src ELSE NoFiles
  IN /\ job.at = "application"
     /\ workspace' = [workspace EXCEPT !.app = TRUE,
          !.src = [f \in DOMAIN old |-> IF f \in DOMAIN files THEN files[f] ELSE old[f]]]
     /\ job' = [job EXCEPT !.at = "record"]
     /\ UNCHANGED <<tree, digest, ip_repo, pl_dir, doubtful, disturbances>>

(***************************************************************************)
(* A tool reports an error (exit(1) in build), or somebody interrupts the  *)
(* build.  What the tool was making is left as it was or half made; a      *)
(* digest file that was being written may be left empty.                   *)
(***************************************************************************)
TornIp == [IpMissing EXCEPT !.state = "torn"]
TornPl == [PlMissing EXCEPT !.state = "torn"]

Abort ==
  /\ Running
  /\ job' = Idle
  /\ Disturb({a \in {"ip", "pl"} \X Cores : a = <<job.stage, job.core>> /\ job.at # "check"})
  /\ \/ /\ job.at = "record"
        /\ digest' \in {digest, [digest EXCEPT ![DigestName(job.stage, job.core)] = NoDigest]}
        /\ UNCHANGED <<ip_repo, pl_dir, workspace>>
     \/ /\ job.at = "tool" /\ job.stage = "ip"
        /\ ip_repo' \in {ip_repo, [ip_repo EXCEPT ![job.core] = TornIp]}
        /\ UNCHANGED <<digest, pl_dir, workspace>>
     \/ /\ job.at = "tool" /\ job.stage = "pl"
        /\ pl_dir' \in {pl_dir, [pl_dir EXCEPT ![job.core] = TornPl]}
        /\ UNCHANGED <<digest, ip_repo, workspace>>
     \/ /\ job.at = "tool" /\ job.stage = "ps"
        /\ workspace' \in {workspace, [workspace EXCEPT !.platform = TornPl]}
        /\ UNCHANGED <<digest, ip_repo, pl_dir>>
     \/ /\ job.at = "application"
        /\ workspace' \in {workspace, [workspace EXCEPT !.app = TRUE]}
        /\ UNCHANGED <<digest, ip_repo, pl_dir>>
     \/ /\ job.at = "check"
        /\ UNCHANGED <<digest, ip_repo, pl_dir, workspace>>
  /\ UNCHANGED tree

ToolStep ==
  \/ PackageIp \/ BuildPl
  \/ VitisPlatform \/ VitisApplication

BuildStep == Skip \/ Outdated \/ Record \/ ToolStep
=============================================================================
