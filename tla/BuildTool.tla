----------------------------- MODULE BuildTool -----------------------------
(***************************************************************************)
(* build.py --runtime hardware: one launch at a time, which resolves its   *)
(* options and then runs the cached build of BuildCache, while a developer *)
(* edits the sources.                                                      *)
(*                                                                         *)
(* A name stands for all its spellings (options are matched in lower       *)
(* case); an option that is not given is asked for, and the answer to a    *)
(* prompt is one of the choices.                                           *)
(***************************************************************************)
EXTENDS BuildCache

CONSTANTS
  BoardsOf,     \* hardware.json: vendor -> boards
  CommandLines  \* the options build.py is called with

NotGiven == "not given"

ASSUME LaunchAssumption == UNION {BoardsOf[v] : v \in DOMAIN BoardsOf} \subseteq Boards

\* load_vendors_and_boards
Vendors == DOMAIN BoardsOf

\* What an option can resolve to: the empty set is exit(1), or a prompt that takes no answer.
Resolve(option, choices) == IF option = NotGiven THEN choices ELSE {option} \cap choices

HardwareChoices(cli) ==
  {[board |-> b, core |-> c] :
     b \in UNION {Resolve(cli.board, BoardsOf[v]) : v \in Resolve(cli.vendor, Vendors)},
     c \in Resolve(cli.core, Cores)}

LaunchHardware == \E cli \in CommandLines : \E c \in HardwareChoices(cli) : Begin(c.core, c.board)

Developer == (\E s \in Sources : \E c \in Contents[s] : Edit(s, c)) \/ RemoveBuildDir

Next == LaunchHardware \/ BuildStep \/ Abort \/ Developer

Spec == BuildInit /\ [][Next]_build_vars

-----------------------------------------------------------------------------
Stage(s) == <<s, job.core>>

(***************************************************************************)
(* A stage that build() skips as up to date has an artifact made from the  *)
(* present sources, and from a fresh artifact of the stage before, unless  *)
(* a source was edited while it was built, or the run that last touched it *)
(* did not finish.  Each later build without such a disturbance makes the  *)
(* digest trustworthy again.                                               *)
(***************************************************************************)
IsFresh(stage) ==
  \/ stage = "ip" /\ ip_repo[job.core] = FreshIp(job.core)
  \/ stage = "pl" /\ pl_dir[job.core] = FreshPl(job.core, job.board)

SkipsAreFresh == [][Skip => Stage(job.stage) \in doubtful \/ IsFresh(job.stage)]_build_vars

(***************************************************************************)
(* The other direction, for the IP core: a packaged IP is not built again  *)
(* while it is what the tools would make of the present sources, whatever  *)
(* was edited and edited back, and whichever cores were built in between.  *)
(***************************************************************************)
FreshIpIsNotRebuilt ==
  [][Outdated /\ job.stage = "ip" => Stage("ip") \in doubtful \/ ~IsFresh("ip")]_build_vars

(***************************************************************************)
(* When a build that was not disturbed completes, the ELF is compiled from *)
(* the present firmware against the XSA of the present core and block      *)
(* design, whatever the workspace held before.  (Sources that were removed *)
(* from the tree may still be compiled in: Vitis keeps its copies.)        *)
(***************************************************************************)
CompletedBuildIsFresh ==
  [][/\ Record /\ job.stage = "ps" /\ job.quiet
     /\ {Stage("ip"), Stage("pl")} \cap doubtful = {}
     => /\ workspace.platform = FreshPl(job.core, job.board)
        /\ LET files == FirmwareFiles[tree["firmware"]]
           IN \A f \in DOMAIN files : workspace.src[f] = files[f]]_build_vars

(***************************************************************************)
(* "If an IP changes then an entire block diagram has to be rebuilt"       *)
(* (fpga_design, riscv_build_utils.py:273): a PL stage that is skipped     *)
(* holds the IP that is in the repository.                                 *)
(***************************************************************************)
IpChangeRebuildsDiagram ==
  [][Skip /\ job.stage = "pl" /\ ip_repo[job.core].state = "made"
     => pl_dir[job.core].ip = ip_repo[job.core]]_build_vars
=============================================================================
