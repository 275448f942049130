--------------------------- MODULE SimulationLaunch ---------------------------
(***************************************************************************)
(* build.py --runtime simulation and the test_runner.py it starts under    *)
(* pytest.  A launch resolves its options, writes .sim_run_config.json and *)
(* starts the runner, which reads that file and builds and simulates one   *)
(* test after the other; the test bench then reads the core's name from    *)
(* its environment.  Launches in two terminals share the file and the      *)
(* build directories.                                                      *)
(*                                                                         *)
(* Names stand for all their spellings (options are matched in lower       *)
(* case), a program's name for its directory.  The file is the text of a   *)
(* launch, or what several of them left of each other's.                   *)
(***************************************************************************)
EXTENDS SequencesExt, ComponentBenches

CONSTANTS
  Launchers,     \* terminals
  Cores,         \* directories under cores/
  HdlOf,         \* core -> the HDLs its hdl/ directory has sources in
  Benches,       \* components_testbenches/test_*.py
  CommandLines,  \* the options of the launches: [mode, which, core, hdl], which is a
                 \* list of names, empty if it is not given
  Names          \* what a developer answers to the prompt for tests

ASSUME SimulationAssumption ==
  /\ IsFiniteSet(Benches) /\ "none" \notin Cores
  /\ Names \subseteq Seq(STRING) /\ \A cli \in CommandLines : cli.which \in Seq(STRING)

NotGiven == "not given"
Modes    == {"components", "full"}
Hdls     == {"verilog", "vhdl", "systemverilog"}
\* SIMULATOR_MAP
SIMULATOR_MAP == {"verilog", "vhdl"}

VARIABLES
  config,     \* .sim_run_config.json
  launches,   \* terminal -> launch
  build_dirs  \* build directory -> what is built there, and who is writing to it

launch_vars == <<config, launches, build_dirs>>

NoText == [mode |-> "none", tests |-> {}, core |-> "none", hdl |-> "none"]

\* A file that can be read is the text of one launch, or put together of those `by' it.
\* Of a torn one it is remembered what text it ends with, if it ends with the end of one.
Absent       == [state |-> "absent", by |-> {}, text |-> NoText]
Empty        == [state |-> "empty",  by |-> {}, text |-> NoText]
Beginning    == [state |-> "torn",   by |-> {}, text |-> NoText]
Whole(ls, x) == [state |-> "whole",  by |-> ls, text |-> x]
Rest(file)   == [file EXCEPT !.state = "torn"]

NotRun == [at |-> "not run", options |-> NoText, wanted |-> {}, by |-> {}, run |-> NoText,
           todo |-> <<>>, results |-> {}]

\* Mutant: the cores share the build directories.
BuildDir_NoCore(mode, core, test) ==
  <<mode, "any core", IF mode = "full" /\ test \in Benches THEN "." ELSE test>>

\* build/<core>/<test> under the directory of the mode; a bench has no directory among the
\* programs.
BuildDir(mode, core, test) ==
  <<mode, core, IF mode = "full" /\ test \in Benches THEN "." ELSE test>>
hdl_toplevel(mode, test) == IF mode = "full" THEN "riscv_cpu" ELSE test

LaunchInit ==
  /\ config = Absent
  /\ launches = [l \in Launchers |-> NotRun]
  /\ build_dirs = [d \in {} |-> NotRun]

-----------------------------------------------------------------------------
Resolve(option, choices) == IF option = NotGiven THEN choices ELSE {option} \cap choices

\* Mutant: unknown names are not looked for.
Selection_Unchecked(which, available) ==
  {IF \E i \in DOMAIN which : which[i] = "all" THEN available ELSE {which[i] : i \in DOMAIN which}}

\* Mutant: `all' is looked for in the last place only.
Selection_LastAll(which, available) ==
  LET named == {which[i] : i \in DOMAIN which}
  IN IF which = <<>> \/ named \ (available \cup {"all"}) # {} THEN {}
     ELSE IF which[Len(which)] = "all" THEN {available} ELSE {named}

\* The names in order: an unknown one is exit(1), and `all' takes every test and ends the list.
Selection(which, available) ==
  LET alls  == {i \in DOMAIN which : which[i] = "all"}
      until == IF alls = {} THEN Len(which) ELSE CHOOSE i \in alls : \A j \in alls : i <= j
      named == {which[i] : i \in 1 .. until}
  IN IF named \subseteq available \cup {"all"}
     THEN {IF "all" \in named THEN available ELSE named}
     ELSE {}

\* detect_tests
Available(mode, programs) == IF mode = "components" THEN Benches ELSE programs

\* What the options can resolve to, with the names of the tests as they were given.
SimulationChoices(cli, programs) ==
  UNION {{[mode |-> m, which |-> w, tests |-> t, core |-> c, hdl |-> h] :
            t \in Selection(w, Available(m, programs)),
            c \in Resolve(cli.core, Cores), h \in Resolve(cli.hdl, Hdls)} :
         m \in Resolve(cli.mode, Modes), w \in IF cli.which = <<>> THEN Names ELSE {cli.which}}

\* What the options ask for, in words: the named tests, or all there are.
Asked(which, available) ==
  IF \E i \in DOMAIN which : which[i] = "all" THEN available ELSE {which[i] : i \in DOMAIN which}

Set(l, f) == launches' = [launches EXCEPT ![l] = f]

Launch(l, programs) ==
  /\ launches[l].at = "not run"
  /\ \E cli \in CommandLines : \E c \in SimulationChoices(cli, programs) :
       Set(l, [NotRun EXCEPT
         !.at = "resolved",
         !.options = [mode |-> c.mode, tests |-> c.tests, core |-> c.core, hdl |-> c.hdl],
         !.wanted = Asked(c.which, Available(c.mode, programs))])
  /\ UNCHANGED <<config, build_dirs>>

\* open(config_path, "w") empties the file, and the text reaches it when it is closed.
OpenConfig(l) ==
  /\ launches[l].at = "resolved" /\ config' = Empty
  /\ Set(l, [launches[l] EXCEPT !.at = "opened"])
  /\ UNCHANGED build_dirs

\* A file that was written to since it was opened here is written over: a longer text
\* leaves its end behind.
DumpConfig(l) ==
  /\ launches[l].at = "opened"
  /\ config' \in {Whole({l}, launches[l].options)}
                 \cup (IF config.state = "empty" THEN {} ELSE {Rest(config)})
  /\ Set(l, [launches[l] EXCEPT !.at = "dumped"])
  /\ UNCHANGED build_dirs

\* The beginning of the text x and the end of y, when they meet at the right place:
\* CORE, HDL, MODE and TESTS_TO_RUN are written in this order, and a text without one of
\* them is no more use to the runner than a torn one.
Spliced(x, y) ==
  {[y EXCEPT !.core = x.core], [y EXCEPT !.core = x.core, !.hdl = x.hdl], [x EXCEPT !.tests = y.tests]}
  \cup {[x EXCEPT !.tests = a \cup b] : a \in (SUBSET x.tests) \ {{}}, b \in SUBSET y.tests}

\* What an exception in json.dump leaves when the file is closed with the text half
\* written: a beginning, and behind it what the file held from there on.
HalfDumped(l) ==
  {Beginning} \cup
  IF config.text = NoText THEN {}
  ELSE {Rest(config)} \cup
       {Whole(config.by \cup {l}, x) : x \in Spliced(launches[l].options, config.text)}

\* read_sim_config and discover_tests, when pytest imports the runner: a file that is being
\* written and an HDL without a simulator end the run, and the launch does not notice.
StartRunner(l) ==
  /\ launches[l].at = "dumped"
  /\ IF config.state # "whole" \/ config.text.hdl \notin SIMULATOR_MAP
     THEN Set(l, [launches[l] EXCEPT !.at = "collection error"])
     ELSE Set(l, [launches[l] EXCEPT
            !.at = "running", !.by = config.by, !.todo = SetToSeq(config.text.tests),
            !.run = config.text])
  /\ UNCHANGED <<config, build_dirs>>

\* tb_utils/memory.py, bitops.py and constants.py: the environment, else the file.
TargetCore(env) ==
  IF env # "none" THEN env
  ELSE CASE config.state = "absent" -> "rv32i"
         [] config.state = "whole"  -> config.text.core
         [] OTHER                   -> "unreadable"

extra_env(run) == run.core

Test(l)   == Head(launches[l].todo)
Dir(l)    == BuildDir(launches[l].run.mode, launches[l].run.core, Test(l))
Result(l, outcome) ==
  Set(l, [launches[l] EXCEPT !.at = "running", !.todo = Tail(@),
            !.results = @ \cup {[test |-> Test(l), outcome |-> outcome]}])

\* There is something to build: sources in the HDL, and among them the top level.
CanBuild(run, test) == run.hdl \in HdlOf[run.core] /\ (run.mode = "components" => test \in Benches)

\* test_generic_runner, runner.build: whatever is in the directory is built anew, over what
\* another launch may be writing there.
StartBuild(l) ==
  LET r == launches[l].run IN
  /\ launches[l].at = "running" /\ launches[l].todo # <<>>
  /\ IF CanBuild(r, Test(l))
     THEN /\ build_dirs' = [e \in DOMAIN build_dirs \cup {Dir(l)} |->
               IF e = Dir(l)
               THEN [core |-> r.core, top |-> hdl_toplevel(r.mode, Test(l)),
                     writers |-> {l} \cup {k \in Launchers : launches[k].at = "building" /\ Dir(k) = e}]
               ELSE build_dirs[e]]
          /\ Set(l, [launches[l] EXCEPT !.at = "building"])
     ELSE Result(l, "build failed") /\ UNCHANGED build_dirs
  /\ UNCHANGED config

EndBuild(l) ==
  /\ launches[l].at = "building"
  /\ build_dirs' = [build_dirs EXCEPT ![Dir(l)].writers = @ \ {l}]
  /\ Set(l, [launches[l] EXCEPT !.at = "built"])
  /\ UNCHANGED config

\* runner.test: the bench imports the utilities, which exist for rv32i alone.
Outcome(run, test) ==
  CASE TargetCore(extra_env(run)) # "rv32i"       -> "import error"
    [] run.mode = "full" /\ test \in Benches      -> "no such program"
    [] run.mode = "full" /\ test \notin Benches   -> "program run"
    [] run.mode = "components"                    -> IF Passes(test) THEN "passed" ELSE "failed"

\* A simulation that another launch is writing, or was stopped while it wrote, may not start.
Simulate(l) ==
  /\ launches[l].at = "built"
  /\ \E outcome \in {Outcome(launches[l].run, Test(l))}
                     \cup (IF build_dirs[Dir(l)].writers = {} THEN {} ELSE {"no simulation"}) :
       Result(l, outcome)
  /\ UNCHANGED <<config, build_dirs>>

Done(l) ==
  /\ launches[l].at = "running" /\ launches[l].todo = <<>>
  /\ Set(l, [launches[l] EXCEPT !.at = "done"])
  /\ UNCHANGED <<config, build_dirs>>

\* Ctrl-C: while the file is written, with closes it.
Interrupt(l) ==
  /\ launches[l].at \notin {"not run", "done", "collection error", "interrupted"}
  /\ config' \in {config} \cup (IF launches[l].at = "opened" THEN HalfDumped(l) ELSE {})
  /\ Set(l, [launches[l] EXCEPT !.at = "interrupted"])
  /\ UNCHANGED build_dirs
=============================================================================
