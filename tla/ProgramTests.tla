----------------------------- MODULE ProgramTests -----------------------------
(***************************************************************************)
(* The simulated tests as a developer uses them: a program is edited and   *)
(* converted while tests are launched in two terminals, which discover the *)
(* program by its program.S and load its program.hex.                      *)
(***************************************************************************)
EXTENDS ProgramConverter, SimulationLaunch

CONSTANTS
  Program,        \* the directory of the program that is edited
  OtherPrograms   \* those of the others

ASSUME ProgramsAssumption == IsFiniteSet(OtherPrograms)

vars == <<converter_vars, launch_vars>>

Init == ConverterInit /\ LaunchInit

\* rglob("*.S")
Programs == OtherPrograms \cup (IF source = NoFile THEN {} ELSE {Program})

LaunchStep ==
  \E l \in Launchers :
    \/ Launch(l, Programs) \/ OpenConfig(l) \/ DumpConfig(l) \/ StartRunner(l)
    \/ StartBuild(l) \/ EndBuild(l) \/ Simulate(l) \/ Done(l) \/ Interrupt(l)

Next ==
  \/ ConverterStep /\ UNCHANGED launch_vars
  \/ LaunchStep /\ UNCHANGED converter_vars

Spec == Init /\ [][Next]_vars

-----------------------------------------------------------------------------
Steps == {"not run", "resolved", "opened", "dumped", "running", "building", "built", "done",
          "collection error", "interrupted"}
ProgramsTypeOK ==
  /\ source \in Versions \cup {NoFile} /\ made \in Versions \cup {NoFile}
  /\ converter.at \in {"idle", "make_o", "make_elf", "make_hex", "convert", "write"}
  /\ \A l \in Launchers :
       /\ launches[l].at \in Steps
       /\ launches[l].options.tests \subseteq Benches \cup OtherPrograms \cup {Program}

(***************************************************************************)
(* Whenever a test of the program is about to load it, the bytes it loads  *)
(* are those of an image: assembled, dumped byte by byte, packed into      *)
(* words, printed, parsed and unpacked.  When the last conversion that     *)
(* emptied program.hex has finished, they are the whole words of all its   *)
(* sections, one after the other: a gap between two is closed up, and a    *)
(* rest of less than four bytes is dropped.  While it has not, or if it    *)
(* failed or was killed, they are the words one image begins with, and     *)
(* perhaps a half of the next: never words of two programs, nor of one     *)
(* with some left out.                                                     *)
(***************************************************************************)
WholeWords(bytes) == SubSeq(bytes, 1, Len(bytes) - (Len(bytes) % 4))
ImageBytes(version) ==
  FlattenSeq([s \in DOMAIN Image[version] |-> WholeWords(Image[version][s].bytes)])

LoadsTheImage ==
  (\E l \in Launchers : launches[l].at = "built" /\ Test(l) = Program) =>
    LET loaded == read_program_from_file(hex)
        whole  == FlattenSeq(SelectSeq(loaded, LAMBDA w : w # HalfWord)) IN
    IF made # NoFile THEN FlattenSeq(loaded) = ImageBytes(made)
    ELSE /\ \E v \in Versions : IsPrefix(whole, ImageBytes(v))
         /\ \A i \in 1 .. Len(loaded) - 1 : loaded[i] # HalfWord

(***************************************************************************)
(* A launch that comes to its end has run all the tests that one launch    *)
(* asked for, with that launch's options: its own, or those of a launch    *)
(* that wrote .sim_run_config.json in between.  Only an interrupt in the   *)
(* middle of writing can mix what several asked for (all of these but one  *)
(* were interrupted then), and even so each test and each option of the    *)
(* run was asked for by one of them, and nothing of it is left out.        *)
(***************************************************************************)
RunsOf(f, k) == f.run = launches[k].options /\ f.run.tests = launches[k].wanted

MixtureOf(f, ls) ==
  /\ \E k \in ls : \A j \in ls \ {k} : launches[j].at = "interrupted"
  /\ \A x \in {"core", "hdl", "mode"} : \E k \in ls : f.run[x] = launches[k].options[x]
  /\ f.run.tests \subseteq UNION {launches[k].wanted : k \in ls}

TestsAsRequested ==
  \A l \in Launchers :
    launches[l].at = "done" =>
      LET f == launches[l] IN
      /\ {r.test : r \in f.results} = f.run.tests
      /\ \/ \E k \in f.by : f.by = {k} /\ RunsOf(f, k)
         \/ (\E j, k \in f.by : j # k) /\ MixtureOf(f, f.by)

(***************************************************************************)
(* When a bench is simulated, its build directory holds its own core and   *)
(* its own top level, although launches for other cores and tests build at *)
(* the same time, and holds all of it unless another launch is building    *)
(* the same, or was interrupted while it did, since this one built; and    *)
(* the utilities it imports are its core's, although another launch may    *)
(* have rewritten the file they would read.                                *)
(***************************************************************************)
BenchMatchesBuild ==
  \A l \in Launchers :
    launches[l].at = "built" =>
      LET r == launches[l].run
          b == build_dirs[Dir(l)] IN
      /\ b.core = r.core /\ b.top = hdl_toplevel(r.mode, Test(l))
      /\ \A k \in b.writers :
           \/ launches[k].at = "building" /\ launches[k].run.core = r.core
              /\ hdl_toplevel(launches[k].run.mode, Test(k)) = b.top
           \/ launches[k].at = "interrupted"
      /\ TargetCore(extra_env(r)) = r.core

(***************************************************************************)
(* The decoder, the ALU codes and the control module agree with what       *)
(* tb_utils builds for them, so that no component bench that is simulated  *)
(* fails: each format's immediate comes back with its sign at the limits   *)
(* of its range, and each address selects the register it names.           *)
(***************************************************************************)
BenchesPass == \A l \in Launchers : \A r \in launches[l].results : r.outcome # "failed"
=============================================================================
