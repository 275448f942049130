--------------------------- MODULE SimulationProofs ---------------------------
(***************************************************************************)
(* That a launch of the simulated tests runs what one launch asked for, or *)
(* what several did of which an interrupt mixed the texts, on a build of   *)
(* its own core and test, for any number of terminals that share           *)
(* .sim_run_config.json and the build directories, all options, and        *)
(* programs that come and go.                                              *)
(*                                                                         *)
(* What a launch resolved to never changes afterwards; the file, when it   *)
(* can be read, and a runner, when it has read it, hold what its authors   *)
(* resolved, who are one or interrupted but for one; a runner has run, or  *)
(* has still to run, each test that it read; and who writes to a build     *)
(* directory builds what it is named after, or was interrupted.            *)
(***************************************************************************)
EXTENDS ProgramTests, SequenceTheorems, FiniteSetTheorems, WellFoundedInduction, TLAPS

\* The elements of a list.
Elements(s) == {s[i] : i \in 1 .. Len(s)}

AllTests == Benches \cup OtherPrograms \cup {Program}

LaunchFields == {"at", "options", "wanted", "by", "run", "todo", "results"}

\* A launch that has resolved its options, and one that has written them since.
Resolved(l) == l \in Launchers /\ launches[l].at # "not run"
Wrote(l)    == Resolved(l) /\ launches[l].at \notin {"resolved", "opened"}

IsText(x) == x = [mode |-> x.mode, tests |-> x.tests, core |-> x.core, hdl |-> x.hdl]

\* It looks for the tests that were asked for.
OptionsFit(f) ==
  /\ f.options.tests = f.wanted
  /\ f.options.tests \subseteq AllTests
  /\ f.options.core \in Cores
  /\ IsText(f.options)

\* The text is what its authors have left of each other's.
Authored(ls, x) ==
  /\ IsText(x)
  /\ \A k \in ls : Wrote(k)
  /\ \E k \in ls : \A j \in ls \ {k} : launches[j].at = "interrupted"
  /\ \E k \in ls : x.core = launches[k].options.core
  /\ \E k \in ls : x.hdl  = launches[k].options.hdl
  /\ \E k \in ls : x.mode = launches[k].options.mode
  /\ \A t \in x.tests : \E k \in ls : t \in launches[k].wanted
  /\ \A k \in ls : ls = {k} => x = launches[k].options

DirOf(f) == BuildDir(f.run.mode, f.run.core, Head(f.todo))

\* A launch whose runner has read the file.
RunFits(f, dirs) ==
  /\ Authored(f.by, f.run)
  /\ f.todo \in Seq(f.run.tests)
  /\ {r.test : r \in f.results} \cup Elements(f.todo) = f.run.tests
  /\ f.at = "done" => f.todo = <<>>
  /\ f.at \in {"building", "built"} => f.todo # <<>> /\ DirOf(f) \in DOMAIN dirs

LaunchInv ==
  /\ DOMAIN launches = Launchers
  /\ \A l \in Launchers :
       /\ DOMAIN launches[l] = LaunchFields /\ launches[l].at \in Steps
       /\ launches[l].at = "not run" => launches[l] = NotRun
       /\ Resolved(l) => OptionsFit(launches[l])
       /\ launches[l].at \in {"resolved", "opened", "dumped"} => launches[l].results = {}
       /\ launches[l].at \in {"running", "building", "built", "done"} =>
            RunFits(launches[l], build_dirs)

\* The file, and what is left of a text at the end of one that cannot be read.
ConfigInv ==
  /\ config = [state |-> config.state, by |-> config.by, text |-> config.text]
  /\ config.state = "whole" \/ config.text # NoText => Authored(config.by, config.text)

\* Each build directory holds the core and the top level it is named after.
TopOf(d) == IF d[1] = "full" THEN "riscv_cpu" ELSE d[3]

Writes(k, d) ==
  /\ k \in Launchers
  /\ \/ launches[k].at = "interrupted"
     \/ launches[k].at = "building" /\ DirOf(launches[k]) = d

DirsInv ==
  \A d \in DOMAIN build_dirs :
    /\ build_dirs[d] = [core |-> d[2], top |-> TopOf(d), writers |-> build_dirs[d].writers]
    /\ \A k \in build_dirs[d].writers : Writes(k, d)

ConverterInv ==
  /\ source \in Versions \cup {NoFile} /\ made \in Versions \cup {NoFile}
  /\ DOMAIN converter = {"at", "of"} /\ converter.of \in Versions \cup {NoFile}
  /\ converter.at \in {"idle", "make_o", "make_elf", "make_hex", "convert", "write"}

IInv == LaunchInv /\ ConfigInv /\ DirsInv /\ ConverterInv

-----------------------------------------------------------------------------
\* The runner's list holds the tests of the file, and nothing else.
LEMMA ListOfSet ==
  ASSUME NEW S, IsFiniteSet(S)
  PROVE  SetToSeq(S) \in Seq(S) /\ Elements(SetToSeq(S)) = S
  <1> DEFINE n == Cardinality(S)
             f == SetToSeq(S)
  <1>1. n \in Nat /\ ExistsBijection(1 .. n, S)
    BY FS_CardinalityType
  <1>2. \E g \in [1 .. n -> S] : IsInjective(g)
    BY <1>1 DEF ExistsBijection, Bijection, Injection
  <1>3. f \in [1 .. n -> S] /\ IsInjective(f)
    BY <1>2 DEF SetToSeq
  <1> HIDE DEF f
  <1>4. f \in Injection(1 .. n, S)
    BY <1>3 DEF Injection
  <1>5. IsFiniteSet(1 .. n) /\ Cardinality(1 .. n) = n
    BY <1>1, FS_Interval
  <1>6. f \in Surjection(1 .. n, S)
    BY <1>4, <1>5, FS_Injection
  <1>7. \A x \in S : \E i \in 1 .. n : f[i] = x
    BY <1>6 DEF Surjection
  <1>8. f \in Seq(S) /\ Len(f) = n
    BY <1>1, <1>3
  <1>9. Elements(f) = S
    BY <1>3, <1>7, <1>8 DEF Elements
  <1> QED
    BY <1>8, <1>9 DEF f

\* A test that is taken from the list leaves the others in it.
LEMMA TakeTest ==
  ASSUME NEW S, NEW s \in Seq(S), s # <<>>
  PROVE  /\ Tail(s) \in Seq(S)
         /\ Elements(s) = {Head(s)} \cup Elements(Tail(s))
  <1>1. /\ Tail(s) \in Seq(S) /\ Len(Tail(s)) = Len(s) - 1
        /\ \A i \in 1 .. Len(Tail(s)) : Tail(s)[i] = s[i + 1]
        /\ Head(s) = s[1]
    BY HeadTailProperties
  <1>2. Len(s) \in Nat /\ Len(s) > 0
    BY EmptySeq, LenProperties
  <1>3. Elements(s) \subseteq {Head(s)} \cup Elements(Tail(s))
    <2> SUFFICES ASSUME NEW i \in 1 .. Len(s), i # 1
                 PROVE  s[i] \in Elements(Tail(s))
      BY <1>1 DEF Elements
    <2>1. i - 1 \in 1 .. Len(Tail(s)) /\ Tail(s)[i - 1] = s[i]
      BY <1>1, <1>2
    <2> QED
      BY <2>1 DEF Elements
  <1>4. {Head(s)} \cup Elements(Tail(s)) \subseteq Elements(s)
    <2>1. Head(s) \in Elements(s)
      BY <1>1, <1>2 DEF Elements
    <2>2. \A i \in 1 .. Len(Tail(s)) : i + 1 \in 1 .. Len(s) /\ Tail(s)[i] = s[i + 1]
      BY <1>1, <1>2
    <2> QED
      BY <2>1, <2>2 DEF Elements
  <1> QED
    BY <1>1, <1>3, <1>4

\* What the options resolve to is what they ask for, in whatever order the names come.
LEMMA SelectionAsked ==
  ASSUME NEW w \in Seq(STRING), NEW a, NEW t \in Selection(w, a)
  PROVE  t = Asked(w, a) /\ t \subseteq a
  <1> DEFINE alls  == {i \in DOMAIN w : w[i] = "all"}
             until == IF alls = {} THEN Len(w) ELSE CHOOSE i \in alls : \A j \in alls : i <= j
             named == {w[i] : i \in 1 .. until}
  <1>1. named \subseteq a \cup {"all"} /\ t = IF "all" \in named THEN a ELSE named
    BY DEF Selection
  <1>2. Len(w) \in Nat /\ DOMAIN w = 1 .. Len(w)
    BY LenProperties
  <1>3. CASE alls = {}
    <2>1. named = {w[i] : i \in DOMAIN w}
      BY <1>2, <1>3
    <2>2. ~(\E i \in DOMAIN w : w[i] = "all")
      BY <1>3
    <2> HIDE DEF named
    <2>3. "all" \notin named
      BY <2>1, <2>2
    <2> QED
      BY <1>1, <2>1, <2>2, <2>3 DEF Asked
  <1>4. CASE alls # {}
    <2>1. \E i \in alls : \A j \in alls : i <= j
      <3>1. alls \subseteq Nat
        BY <1>2
      <3> HIDE DEF alls
      <3>2. PICK i \in alls : \A j \in alls : ~(<<j, i>> \in OpToRel(<, Nat))
        BY <1>4, <3>1, NatLessThanWellFounded, WFMin
      <3>3. ASSUME NEW j \in alls
            PROVE  i <= j
        <4>1. i \in Nat /\ j \in Nat /\ ~(j < i)
          BY <3>1, <3>2 DEF OpToRel
        <4> QED
          BY <4>1
      <3> QED
        BY <3>3
    <2>2. until \in alls
      BY <1>4, <2>1
    <2>3. w[until] = "all" /\ until \in 1 .. Len(w)
      BY <1>2, <2>2
    <2> HIDE DEF until
    <2>4. "all" \in named
      <3>1. until \in 1 .. until
        BY <1>2, <2>3
      <3> QED
        BY <2>3, <3>1
    <2>5. \E i \in DOMAIN w : w[i] = "all"
      BY <1>2, <2>3
    <2> HIDE DEF named
    <2> QED
      BY <1>1, <2>4, <2>5 DEF Asked
  <1> QED
    BY <1>3, <1>4

\* The tests there are.
LEMMA TestsThereAre == \A m : Available(m, Programs) \subseteq AllTests
  BY DEF Available, Programs, AllTests

\* Every choice a launch has is one of the tests that were asked for.
LEMMA ChoicesFit ==
  ASSUME NEW cli \in CommandLines, NEW p, NEW c \in SimulationChoices(cli, p)
  PROVE  /\ c.tests = Asked(c.which, Available(c.mode, p))
         /\ c.tests \subseteq Available(c.mode, p)
         /\ c.core \in Cores
  <1>1. \E m, w, t, d, h :
          /\ c = [mode |-> m, which |-> w, tests |-> t, core |-> d, hdl |-> h]
          /\ w \in (IF cli.which = <<>> THEN Names ELSE {cli.which})
          /\ t \in Selection(w, Available(m, p)) /\ d \in Resolve(cli.core, Cores)
    BY DEF SimulationChoices
  <1>2. PICK m, w, t, d, h :
          /\ c = [mode |-> m, which |-> w, tests |-> t, core |-> d, hdl |-> h]
          /\ w \in (IF cli.which = <<>> THEN Names ELSE {cli.which})
          /\ t \in Selection(w, Available(m, p)) /\ d \in Resolve(cli.core, Cores)
    BY <1>1
  <1>3. w \in Seq(STRING)
    BY <1>2, SimulationAssumption
  <1>4. t = Asked(w, Available(m, p)) /\ t \subseteq Available(m, p)
    BY <1>2, <1>3, SelectionAsked
  <1>5. d \in Cores
    BY <1>2 DEF Resolve
  <1> QED
    BY <1>2, <1>4, <1>5

-----------------------------------------------------------------------------
\* What launches keep while others go on: their options and what these ask for, that they
\* wrote them, and that they were interrupted.
Keep ==
  /\ \A k : Wrote(k) => Wrote(k)'
  /\ \A k : Resolved(k) =>
       /\ launches'[k].options = launches[k].options /\ launches'[k].wanted = launches[k].wanted
       /\ launches[k].at = "interrupted" => launches'[k].at = "interrupted"

\* A text keeps its authors.
LEMMA TextStays ==
  ASSUME NEW ls, NEW x, Authored(ls, x), Keep
  PROVE  Authored(ls, x)'
  <1>1. \A k \in ls :
          /\ Wrote(k)' /\ launches'[k].options = launches[k].options
          /\ launches'[k].wanted = launches[k].wanted
          /\ launches[k].at = "interrupted" => launches'[k].at = "interrupted"
    BY DEF Authored, Keep, Wrote
  <1>2. \E k \in ls : \A j \in ls \ {k} : launches'[j].at = "interrupted"
    BY <1>1 DEF Authored
  <1>3. /\ \E k \in ls : x.core = launches'[k].options.core
        /\ \E k \in ls : x.hdl  = launches'[k].options.hdl
        /\ \E k \in ls : x.mode = launches'[k].options.mode
    BY <1>1 DEF Authored
  <1>4. /\ \A t \in x.tests : \E k \in ls : t \in launches'[k].wanted
        /\ \A k \in ls : ls = {k} => x = launches'[k].options
    BY <1>1 DEF Authored
  <1>5. IsText(x)
    BY DEF Authored
  <1> QED
    BY <1>1, <1>2, <1>3, <1>4, <1>5 DEF Authored

\* Between the beginning of one text and the end of another each value is one of the two's.
LEMMA SplicedText ==
  ASSUME NEW x, NEW y, IsText(x), IsText(y), NEW z \in Spliced(x, y)
  PROVE  /\ IsText(z) /\ z.core \in {x.core, y.core} /\ z.hdl \in {x.hdl, y.hdl}
         /\ z.mode \in {x.mode, y.mode} /\ z.tests \subseteq x.tests \cup y.tests
  <1>1. CASE z \in {[y EXCEPT !.core = x.core], [y EXCEPT !.core = x.core, !.hdl = x.hdl],
                    [x EXCEPT !.tests = y.tests]}
    <2>1. CASE z = [y EXCEPT !.core = x.core]
      <3>1. z = [mode |-> y.mode, tests |-> y.tests, core |-> x.core, hdl |-> y.hdl]
        BY <2>1 DEF IsText
      <3> QED
        BY <3>1 DEF IsText
    <2>2. CASE z = [y EXCEPT !.core = x.core, !.hdl = x.hdl]
      <3>1. z = [mode |-> y.mode, tests |-> y.tests, core |-> x.core, hdl |-> x.hdl]
        BY <2>2 DEF IsText
      <3> QED
        BY <3>1 DEF IsText
    <2>3. CASE z = [x EXCEPT !.tests = y.tests]
      <3>1. z = [mode |-> x.mode, tests |-> y.tests, core |-> x.core, hdl |-> x.hdl]
        BY <2>3 DEF IsText
      <3> QED
        BY <3>1 DEF IsText
    <2> QED
      BY <1>1, <2>1, <2>2, <2>3
  <1>2. ASSUME NEW a \in SUBSET x.tests, NEW b \in SUBSET y.tests, z = [x EXCEPT !.tests = a \cup b]
        PROVE  /\ IsText(z) /\ z.core = x.core /\ z.hdl = x.hdl /\ z.mode = x.mode
               /\ z.tests \subseteq x.tests \cup y.tests
    <2>1. PICK c : c = a \cup b
      OBVIOUS
    <2>2. z = [mode |-> x.mode, tests |-> c, core |-> x.core, hdl |-> x.hdl]
      BY <1>2, <2>1 DEF IsText
    <2>3. IsText(z) /\ z.core = x.core /\ z.hdl = x.hdl /\ z.mode = x.mode /\ z.tests = c
      BY <2>2 DEF IsText
    <2> QED
      BY <2>1, <2>3
  <1>3. \/ z \in {[y EXCEPT !.core = x.core], [y EXCEPT !.core = x.core, !.hdl = x.hdl],
                  [x EXCEPT !.tests = y.tests]}
        \/ \E a \in (SUBSET x.tests) \ {{}}, b \in SUBSET y.tests :
             z = [x EXCEPT !.tests = a \cup b]
    BY DEF Spliced
  <1> QED
    BY <1>1, <1>2, <1>3

\* A launch that is interrupted while it writes joins the authors of what it writes over.
LEMMA MixedText ==
  ASSUME NEW ls, NEW y, Authored(ls, y)', NEW l, Wrote(l)', l \notin ls,
         launches'[l].at = "interrupted", OptionsFit(launches'[l]),
         NEW x, x = launches'[l].options, NEW z \in Spliced(x, y),
         NEW ms, ms = ls \cup {l}
  PROVE  Authored(ms, z)'
  <1>1. /\ IsText(x) /\ IsText(y) /\ x.tests = launches'[l].wanted
    BY DEF OptionsFit, Authored
  <1>2. /\ IsText(z) /\ z.core \in {x.core, y.core} /\ z.hdl \in {x.hdl, y.hdl}
        /\ z.mode \in {x.mode, y.mode} /\ z.tests \subseteq x.tests \cup y.tests
    BY <1>1, SplicedText
  <1>3. /\ \A k \in ms : Wrote(k)'
        /\ \E k \in ms : \A j \in ms \ {k} : launches'[j].at = "interrupted"
    <2>1. PICK k \in ls : \A j \in ls \ {k} : launches'[j].at = "interrupted"
      BY DEF Authored
    <2>2. \A j \in ms \ {k} : launches'[j].at = "interrupted"
      BY <2>1
    <2> QED
      BY <2>1, <2>2 DEF Authored
  <1>4. \E k \in ms : z.core = launches'[k].options.core
    BY <1>2 DEF Authored
  <1>5. \E k \in ms : z.hdl = launches'[k].options.hdl
    BY <1>2 DEF Authored
  <1>6. \E k \in ms : z.mode = launches'[k].options.mode
    BY <1>2 DEF Authored
  <1>7. \A t \in z.tests : \E k \in ms : t \in launches'[k].wanted
    <2> SUFFICES ASSUME NEW t \in z.tests
                 PROVE  \E k \in ms : t \in launches'[k].wanted
      OBVIOUS
    <2>1. t \in x.tests \/ t \in y.tests
      BY <1>2
    <2>2. t \in x.tests => t \in launches'[l].wanted
      BY <1>1
    <2> QED
      BY <2>1, <2>2 DEF Authored
  <1>8. \A k \in ms : ms # {k}
    <2>1. \E k \in ls : TRUE
      BY DEF Authored
    <2> QED
      BY <2>1
  <1> QED
    BY <1>2, <1>3, <1>4, <1>5, <1>6, <1>7, <1>8 DEF Authored

\* The tests of a text are tests that there are, and finitely many; its core is a core.
LEMMA TextFits ==
  ASSUME LaunchInv, NEW ls, NEW x, Authored(ls, x)
  PROVE  x.tests \subseteq AllTests /\ IsFiniteSet(x.tests) /\ x.core \in Cores
  <1>1. \A k \in ls : OptionsFit(launches[k])
    BY DEF Authored, Wrote, Resolved, LaunchInv
  <1>2. x.core \in Cores
    BY <1>1 DEF Authored, OptionsFit
  <1>3. x.tests \subseteq AllTests
    BY <1>1 DEF Authored, OptionsFit
  <1>4. IsFiniteSet({Program})
    BY FS_Singleton
  <1>5. IsFiniteSet(AllTests)
    BY <1>4, FS_Union, SimulationAssumption, ProgramsAssumption DEF AllTests
  <1> QED
    BY <1>2, <1>3, <1>5, FS_Subset

-----------------------------------------------------------------------------
\* What a runner read, and has run of it, stays as it is.
LEMMA RunStays ==
  ASSUME NEW g, RunFits(g, build_dirs'), Keep
  PROVE  RunFits(g, build_dirs)'
  <1>1. Authored(g.by, g.run)
    BY DEF RunFits
  <1>2. PICK ls, x : ls = g.by /\ x = g.run
    OBVIOUS
  <1>3. Authored(ls, x)'
    BY <1>1, <1>2, TextStays
  <1>4. Authored(g.by, g.run)'
    BY <1>2, <1>3
  <1> QED
    BY <1>4 DEF RunFits, DirOf

\* A step of one launcher, which keeps its options once it has resolved them, leaves every
\* launch in order.
LEMMA OneLauncher ==
  ASSUME LaunchInv, NEW l \in Launchers, NEW f,
         launches' = [launches EXCEPT ![l] = f],
         DOMAIN build_dirs \subseteq DOMAIN build_dirs',
         DOMAIN f = LaunchFields, f.at \in Steps, f.at # "not run", OptionsFit(f),
         launches[l].at # "not run" =>
           f.options = launches[l].options /\ f.wanted = launches[l].wanted,
         launches[l].at # "interrupted",
         f.at \in {"resolved", "opened"} => launches[l].at \in {"not run", "resolved"},
         f.at \in {"resolved", "opened", "dumped"} => f.results = {},
         f.at \in {"running", "building", "built", "done"} => RunFits(f, build_dirs')
  PROVE  LaunchInv' /\ Keep
  <1>1. /\ DOMAIN launches' = Launchers /\ launches'[l] = f
        /\ \A k \in Launchers \ {l} : launches'[k] = launches[k]
    BY DEF LaunchInv
  <1>2. Keep
    <2>1. ASSUME NEW k, Resolved(k)
          PROVE  /\ launches'[k].options = launches[k].options
                 /\ launches'[k].wanted = launches[k].wanted
                 /\ launches[k].at = "interrupted" => launches'[k].at = "interrupted"
                 /\ Wrote(k) => Wrote(k)'
      <3>1. CASE k = l
        BY <1>1, <2>1, <3>1 DEF Resolved, Wrote
      <3>2. CASE k # l
        BY <1>1, <2>1, <3>2 DEF Resolved, Wrote
      <3> QED
        BY <3>1, <3>2
    <2> QED
      BY <2>1 DEF Keep, Wrote
  <1>3. ASSUME NEW k \in Launchers, NEW g, g = launches'[k]
        PROVE  /\ DOMAIN g = LaunchFields /\ g.at \in Steps
               /\ g.at = "not run" => g = NotRun
               /\ Resolved(k)' => OptionsFit(g)
               /\ g.at \in {"resolved", "opened", "dumped"} => g.results = {}
               /\ g.at \in {"running", "building", "built", "done"} => RunFits(g, build_dirs)'
    <2>1. CASE k = l
      <3>1. g = f
        BY <1>1, <1>3, <2>1
      <3>2. f.at \in {"running", "building", "built", "done"} => RunFits(f, build_dirs)'
        BY <1>2, RunStays
      <3> QED
        BY <3>1, <3>2
    <2>2. CASE k # l
      <3>1. g = launches[k]
        BY <1>1, <1>3, <2>2
      <3>2. Resolved(k)' <=> Resolved(k)
        BY <1>3, <3>1 DEF Resolved
      <3>3. g.at \in {"running", "building", "built", "done"} => RunFits(g, build_dirs')
        BY <3>1 DEF LaunchInv, RunFits
      <3>4. g.at \in {"running", "building", "built", "done"} => RunFits(g, build_dirs)'
        BY <1>2, <3>3, RunStays
      <3> QED
        BY <3>1, <3>2, <3>4 DEF LaunchInv
    <2> QED
      BY <2>1, <2>2
  <1> QED
    BY <1>1, <1>2, <1>3 DEF LaunchInv

\* The file stays as good as it was while nobody writes to it.
LEMMA FileStays ==
  ASSUME ConfigInv, config' = config, Keep
  PROVE  ConfigInv'
  <1>1. PICK ls, x : ls = config.by /\ x = config.text
    OBVIOUS
  <1>2. Authored(ls, x) => Authored(ls, x)'
    BY TextStays
  <1> QED
    BY <1>1, <1>2 DEF ConfigInv

\* The build directories stay as good while nobody builds, or a build is interrupted.
LEMMA DirsStay ==
  ASSUME LaunchInv, DirsInv, build_dirs' = build_dirs, NEW l \in Launchers, NEW f,
         launches' = [launches EXCEPT ![l] = f],
         launches[l].at \in {"building", "interrupted"} => f.at = "interrupted"
  PROVE  DirsInv'
  <1>1. /\ launches'[l] = f
        /\ \A k \in Launchers \ {l} : launches'[k] = launches[k]
    BY DEF LaunchInv
  <1>2. ASSUME NEW k, NEW d, Writes(k, d)
        PROVE  Writes(k, d)'
    <2>1. CASE k = l
      BY <1>1, <1>2, <2>1 DEF Writes
    <2>2. CASE k # l
      BY <1>1, <1>2, <2>2 DEF Writes
    <2> QED
      BY <2>1, <2>2
  <1> QED
    BY <1>2 DEF DirsInv

\* A launch resolves its options.
LEMMA LaunchKeeps ==
  ASSUME IInv, NEW l \in Launchers, Launch(l, Programs)
  PROVE  LaunchInv' /\ ConfigInv' /\ DirsInv'
  <1>1. PICK cli \in CommandLines : \E c \in SimulationChoices(cli, Programs) :
          Set(l, [NotRun EXCEPT
            !.at = "resolved",
            !.options = [mode |-> c.mode, tests |-> c.tests, core |-> c.core, hdl |-> c.hdl],
            !.wanted = Asked(c.which, Available(c.mode, Programs))])
    BY DEF Launch
  <1>2. PICK c \in SimulationChoices(cli, Programs) :
          Set(l, [NotRun EXCEPT
            !.at = "resolved",
            !.options = [mode |-> c.mode, tests |-> c.tests, core |-> c.core, hdl |-> c.hdl],
            !.wanted = Asked(c.which, Available(c.mode, Programs))])
    BY <1>1
  <1> DEFINE o == [mode |-> c.mode, tests |-> c.tests, core |-> c.core, hdl |-> c.hdl]
             w == Asked(c.which, Available(c.mode, Programs))
             f == [NotRun EXCEPT !.at = "resolved", !.options = o, !.wanted = w]
  <1>3. launches' = [launches EXCEPT ![l] = f]
    BY <1>2 DEF Set
  <1>4. c.tests = w /\ c.tests \subseteq AllTests /\ c.core \in Cores
    BY ChoicesFit, TestsThereAre
  <1>5. /\ DOMAIN f = LaunchFields /\ f.at = "resolved" /\ f.results = {}
        /\ f.options = o /\ f.wanted = w
    BY DEF NotRun, LaunchFields
  <1>6. OptionsFit(f)
    <2>1. o.tests = w /\ o.core \in Cores /\ IsText(o)
      BY <1>4 DEF IsText
    <2> HIDE DEF o, f, w
    <2>2. o.tests \subseteq AllTests
      BY <1>4, <2>1
    <2> QED
      BY <1>5, <2>1, <2>2 DEF OptionsFit
  <1> HIDE DEF f
  <1>7. launches[l].at = "not run" /\ UNCHANGED <<config, build_dirs>>
    BY DEF Launch
  <1>8. LaunchInv' /\ Keep
    BY <1>3, <1>5, <1>6, <1>7, OneLauncher DEF IInv, Steps
  <1> QED
    BY <1>3, <1>7, <1>8, FileStays, DirsStay DEF IInv

\* A launch that has resolved its options goes on with them.
LEMMA GoesOn ==
  ASSUME LaunchInv, NEW l \in Launchers, launches[l].at # "not run"
  PROVE  \A a : LET f == [launches[l] EXCEPT !.at = a] IN
         /\ DOMAIN f = LaunchFields /\ f.at = a
         /\ f.options = launches[l].options /\ f.wanted = launches[l].wanted
         /\ f.by = launches[l].by /\ f.run = launches[l].run
         /\ f.todo = launches[l].todo /\ f.results = launches[l].results
         /\ OptionsFit(f)
  <1> SUFFICES ASSUME NEW a, NEW f, f = [launches[l] EXCEPT !.at = a]
               PROVE  /\ DOMAIN f = LaunchFields /\ f.at = a
                      /\ f.options = launches[l].options /\ f.wanted = launches[l].wanted
                      /\ f.by = launches[l].by /\ f.run = launches[l].run
                      /\ f.todo = launches[l].todo /\ f.results = launches[l].results
                      /\ OptionsFit(f)
    OBVIOUS
  <1>1. DOMAIN launches[l] = LaunchFields /\ OptionsFit(launches[l])
    BY DEF LaunchInv, Resolved
  <1>2. /\ DOMAIN f = LaunchFields /\ f.at = a
        /\ f.options = launches[l].options /\ f.wanted = launches[l].wanted
        /\ f.by = launches[l].by /\ f.run = launches[l].run
        /\ f.todo = launches[l].todo /\ f.results = launches[l].results
    BY <1>1 DEF LaunchFields
  <1> QED
    BY <1>1, <1>2 DEF OptionsFit

\* It opens the file,
LEMMA OpenConfigKeeps ==
  ASSUME IInv, NEW l \in Launchers, OpenConfig(l)
  PROVE  LaunchInv' /\ ConfigInv' /\ DirsInv'
  <1>1. PICK f : /\ f = [launches[l] EXCEPT !.at = "opened"]
                 /\ launches' = [launches EXCEPT ![l] = f]
    BY DEF OpenConfig, Set
  <1>2. /\ launches[l].at = "resolved" /\ config' = Empty /\ build_dirs' = build_dirs
    BY DEF OpenConfig
  <1>3. /\ DOMAIN f = LaunchFields /\ f.at = "opened" /\ OptionsFit(f)
        /\ f.options = launches[l].options /\ f.wanted = launches[l].wanted
        /\ f.results = launches[l].results
    BY <1>1, <1>2, GoesOn DEF IInv, Steps
  <1>4. LaunchInv'
    BY <1>1, <1>2, <1>3, OneLauncher DEF IInv, LaunchInv, Steps
  <1>5. ConfigInv'
    BY <1>2 DEF ConfigInv, Empty
  <1> QED
    BY <1>1, <1>2, <1>4, <1>5, DirsStay DEF IInv

\* and writes what it resolved.
LEMMA DumpConfigKeeps ==
  ASSUME IInv, NEW l \in Launchers, DumpConfig(l)
  PROVE  LaunchInv' /\ ConfigInv' /\ DirsInv'
  <1>1. PICK f : /\ f = [launches[l] EXCEPT !.at = "dumped"]
                 /\ launches' = [launches EXCEPT ![l] = f]
    BY DEF DumpConfig, Set
  <1>2. /\ launches[l].at = "opened" /\ build_dirs' = build_dirs
        /\ config' = Whole({l}, launches[l].options) \/ config' = Rest(config)
    BY DEF DumpConfig
  <1>3. /\ DOMAIN f = LaunchFields /\ f.at = "dumped" /\ OptionsFit(f)
        /\ f.options = launches[l].options /\ f.wanted = launches[l].wanted
        /\ f.results = launches[l].results
    BY <1>1, <1>2, GoesOn DEF IInv, Steps
  <1>4. LaunchInv' /\ Keep
    BY <1>1, <1>2, <1>3, OneLauncher DEF IInv, LaunchInv, Steps
  <1>5. ConfigInv'
    <2>1. CASE config' = Rest(config)
      <3>1. /\ config'.by = config.by /\ config'.text = config.text /\ config'.state = "torn"
            /\ config' = [state |-> config'.state, by |-> config'.by, text |-> config'.text]
        BY <2>1 DEF Rest, IInv, ConfigInv
      <3>2. PICK ls, x : ls = config.by /\ x = config.text
        OBVIOUS
      <3>3. x # NoText => Authored(ls, x)'
        BY <1>4, <3>2, TextStays DEF IInv, ConfigInv
      <3> QED
        BY <3>1, <3>2, <3>3 DEF ConfigInv
    <2>2. CASE config' = Whole({l}, launches[l].options)
      <3>1. PICK x : x = launches[l].options
        OBVIOUS
      <3>2. /\ config'.by = {l} /\ config'.text = x
            /\ config' = [state |-> config'.state, by |-> config'.by, text |-> config'.text]
        BY <2>2, <3>1 DEF Whole
      <3>3. launches'[l] = f
        BY <1>1 DEF IInv, LaunchInv
      <3>4. Authored({l}, x)'
        BY <1>3, <3>1, <3>3 DEF Authored, OptionsFit, Wrote, Resolved
      <3> QED
        BY <3>2, <3>4 DEF ConfigInv
    <2> QED
      BY <1>2, <2>1, <2>2
  <1> QED
    BY <1>1, <1>2, <1>4, <1>5, DirsStay DEF IInv

\* A launch that leaves the file as it is.
LEMMA Afterwards ==
  ASSUME LaunchInv, ConfigInv, NEW l \in Launchers, NEW f,
         launches' = [launches EXCEPT ![l] = f], config' = config,
         DOMAIN build_dirs \subseteq DOMAIN build_dirs',
         launches[l].at \notin {"not run", "interrupted"},
         DOMAIN f = LaunchFields, OptionsFit(f), f.options = launches[l].options,
         f.wanted = launches[l].wanted,
         f.at \in {"running", "building", "built", "done", "collection error", "interrupted"},
         f.at \in {"running", "building", "built", "done"} => RunFits(f, build_dirs')
  PROVE  LaunchInv' /\ ConfigInv'
  <1>1. LaunchInv' /\ Keep
    BY OneLauncher DEF Steps
  <1> QED
    BY <1>1, FileStays

\* The runner reads a text whole, and lists its tests.
LEMMA StartRunnerKeeps ==
  ASSUME IInv, NEW l \in Launchers, StartRunner(l)
  PROVE  LaunchInv' /\ ConfigInv' /\ DirsInv'
  <1>1. /\ launches[l].at = "dumped" /\ config' = config /\ build_dirs' = build_dirs
        /\ DOMAIN launches[l] = LaunchFields /\ OptionsFit(launches[l])
        /\ launches[l].results = {}
    BY DEF StartRunner, IInv, LaunchInv, Resolved
  <1>2. CASE config.state # "whole" \/ config.text.hdl \notin SIMULATOR_MAP
    <2>1. PICK f : /\ f = [launches[l] EXCEPT !.at = "collection error"]
                   /\ launches' = [launches EXCEPT ![l] = f]
      BY <1>2 DEF StartRunner, Set
    <2>2. /\ DOMAIN f = LaunchFields /\ f.at = "collection error" /\ OptionsFit(f)
          /\ f.options = launches[l].options /\ f.wanted = launches[l].wanted
      BY <1>1, <2>1, GoesOn DEF IInv
    <2> QED
      BY <1>1, <2>1, <2>2, Afterwards, DirsStay DEF IInv
  <1>3. CASE ~(config.state # "whole" \/ config.text.hdl \notin SIMULATOR_MAP)
    <2>0. PICK ls, o : ls = config.by /\ o = config.text
      OBVIOUS
    <2> DEFINE todo == SetToSeq(o.tests)
    <2>1. PICK f :
            /\ f = [launches[l] EXCEPT !.at = "running", !.by = ls, !.todo = todo, !.run = o]
            /\ launches' = [launches EXCEPT ![l] = f]
      BY <1>3, <2>0 DEF StartRunner, Set
    <2>2. Authored(ls, o)
      BY <1>3, <2>0 DEF IInv, ConfigInv
    <2>3. todo \in Seq(o.tests) /\ Elements(todo) = o.tests
      BY <2>2, TextFits, ListOfSet DEF IInv
    <2> HIDE DEF todo
    <2>4. /\ DOMAIN f = LaunchFields /\ f.at = "running" /\ f.options = launches[l].options
          /\ f.wanted = launches[l].wanted /\ f.results = {} /\ f.by = ls
          /\ f.todo = todo /\ f.run = o
      BY <1>1, <2>1 DEF LaunchFields
    <2>5. OptionsFit(f)
      BY <1>1, <2>4 DEF OptionsFit
    <2>6. RunFits(f, build_dirs')
      <3>1. {r.test : r \in f.results} = {}
        BY <2>4
      <3> QED
        BY <2>2, <2>3, <2>4, <3>1 DEF RunFits
    <2> QED
      BY <1>1, <2>1, <2>4, <2>5, <2>6, Afterwards, DirsStay DEF IInv
  <1> QED
    BY <1>2, <1>3

\* A test that has its result is no longer to be run.
LEMMA ResultKeeps ==
  ASSUME IInv, NEW l \in Launchers, NEW outcome, Result(l, outcome),
         config' = config, build_dirs' = build_dirs,
         launches[l].at \in {"running", "built"}, launches[l].todo # <<>>
  PROVE  LaunchInv' /\ ConfigInv' /\ DirsInv'
  <1> DEFINE x == [test |-> Test(l), outcome |-> outcome]
             g == launches[l]
  <1>1. PICK f :
          /\ f = [launches[l] EXCEPT !.at = "running", !.todo = Tail(@), !.results = @ \cup {x}]
          /\ launches' = [launches EXCEPT ![l] = f]
    BY DEF Result, Set
  <1>2. /\ DOMAIN g = LaunchFields /\ OptionsFit(g) /\ RunFits(g, build_dirs)
    BY DEF IInv, LaunchInv, Resolved
  <1>3. x.test = Head(g.todo)
    BY DEF Test
  <1> HIDE DEF x
  <1>4. /\ DOMAIN f = LaunchFields /\ f.at = "running" /\ f.options = g.options
        /\ f.wanted = g.wanted /\ f.results = g.results \cup {x} /\ f.by = g.by
        /\ f.todo = Tail(g.todo) /\ f.run = g.run
    BY <1>1, <1>2 DEF LaunchFields
  <1>5. OptionsFit(f)
    BY <1>2, <1>4 DEF OptionsFit
  <1>6. RunFits(f, build_dirs')
    <2>1. /\ Tail(g.todo) \in Seq(g.run.tests)
          /\ Elements(g.todo) = {Head(g.todo)} \cup Elements(Tail(g.todo))
      BY <1>2, TakeTest DEF RunFits
    <2>2. {r.test : r \in f.results} = {r.test : r \in g.results} \cup {Head(g.todo)}
      BY <1>3, <1>4
    <2> HIDE DEF g
    <2>3. {r.test : r \in f.results} \cup Elements(f.todo) = f.run.tests
      BY <1>2, <1>4, <2>1, <2>2 DEF RunFits
    <2> QED
      BY <1>2, <1>4, <2>1, <2>3 DEF RunFits
  <1> QED
    BY <1>1, <1>4, <1>5, <1>6, Afterwards, DirsStay DEF IInv

\* A build overwrites the directory of its core and its top level, and no other; who is
\* writing there already goes on.
LEMMA StartBuildKeeps ==
  ASSUME IInv, NEW l \in Launchers, StartBuild(l)
  PROVE  LaunchInv' /\ ConfigInv' /\ DirsInv'
  <1>1. PICK g : g = launches[l]
    OBVIOUS
  <1>2. /\ g.at = "running" /\ g.todo # <<>> /\ config' = config
        /\ OptionsFit(g) /\ RunFits(g, build_dirs)
    BY <1>1 DEF StartBuild, IInv, LaunchInv, Resolved
  <1>3. CASE ~CanBuild(g.run, Test(l))
    <2>1. Result(l, "build failed") /\ build_dirs' = build_dirs
      BY <1>1, <1>3 DEF StartBuild
    <2> QED
      BY <1>1, <1>2, <2>1, ResultKeeps
  <1>4. CASE CanBuild(g.run, Test(l))
    <2> DEFINE d == DirOf(g)
               ws == {l} \cup {k \in Launchers : launches[k].at = "building" /\ Dir(k) = d}
               b == [core |-> g.run.core, top |-> hdl_toplevel(g.run.mode, Head(g.todo)),
                     writers |-> ws]
    <2>0. Dir(l) = d /\ \A k : Dir(k) = DirOf(launches[k])
      BY <1>1 DEF Dir, DirOf, Test
    <2>1. /\ build_dirs' = [e \in DOMAIN build_dirs \cup {d} |->
                             IF e = d THEN b ELSE build_dirs[e]]
          /\ launches' = [launches EXCEPT ![l] = [launches[l] EXCEPT !.at = "building"]]
      BY <1>1, <1>4, <2>0 DEF StartBuild, Set, Test
    <2>2. PICK f : /\ f = [launches[l] EXCEPT !.at = "building"]
                   /\ launches' = [launches EXCEPT ![l] = f]
      BY <2>1
    <2>3. /\ DOMAIN f = LaunchFields /\ f.at = "building" /\ OptionsFit(f)
          /\ f.options = g.options /\ f.wanted = g.wanted /\ f.by = g.by /\ f.run = g.run
          /\ f.todo = g.todo /\ f.results = g.results
      BY <1>1, <1>2, <2>2, GoesOn DEF IInv
    <2>4. b = [core |-> d[2], top |-> TopOf(d), writers |-> ws]
      BY DEF DirOf, BuildDir, TopOf, hdl_toplevel
    <2>5. \A k \in ws :
            k # l => k \in Launchers /\ launches[k].at = "building" /\ DirOf(launches[k]) = d
      BY <2>0
    <2>6. DirOf(f) = d
      BY <2>3 DEF DirOf
    <2> HIDE DEF d, b, ws
    <2>7. /\ DOMAIN build_dirs' = {d} \cup DOMAIN build_dirs
          /\ \A e \in DOMAIN build_dirs' :
               build_dirs'[e] = IF e = d THEN b ELSE build_dirs[e]
      BY <2>1
    <2>8. RunFits(f, build_dirs')
      BY <1>2, <2>3, <2>6, <2>7 DEF RunFits
    <2>9. LaunchInv' /\ ConfigInv'
      BY <1>1, <1>2, <2>2, <2>3, <2>7, <2>8, Afterwards DEF IInv
    <2>10. /\ launches'[l] = f
           /\ \A k \in Launchers \ {l} : launches'[k] = launches[k]
      BY <2>2 DEF IInv, LaunchInv
    <2>11. \A k \in ws : Writes(k, d)'
      <3>1. Writes(l, d)'
        BY <2>3, <2>6, <2>10 DEF Writes
      <3>2. ASSUME NEW k \in ws, k # l
            PROVE  Writes(k, d)'
        BY <2>5, <2>10, <3>2 DEF Writes
      <3> QED
        BY <3>1, <3>2
    <2>12. ASSUME NEW k, NEW e, Writes(k, e)
           PROVE  Writes(k, e)'
      BY <1>1, <1>2, <2>10, <2>12 DEF Writes
    <2>13. DirsInv'
      <3> SUFFICES ASSUME NEW e \in DOMAIN build_dirs', NEW c, c = build_dirs'[e]
                   PROVE  /\ c = [core |-> e[2], top |-> TopOf(e), writers |-> c.writers]
                          /\ \A k \in c.writers : Writes(k, e)'
        BY DEF DirsInv
      <3>1. CASE e = d
        BY <2>4, <2>7, <2>11, <3>1
      <3>2. CASE e # d
        <4>1. e \in DOMAIN build_dirs /\ c = build_dirs[e]
          BY <2>7, <3>2
        <4> QED
          BY <2>12, <4>1 DEF IInv, DirsInv
      <3> QED
        BY <3>1, <3>2
    <2> QED
      BY <2>9, <2>13
  <1> QED
    BY <1>3, <1>4

\* A build that has ended is no longer written by its launch.
LEMMA EndBuildKeeps ==
  ASSUME IInv, NEW l \in Launchers, EndBuild(l)
  PROVE  LaunchInv' /\ ConfigInv' /\ DirsInv'
  <1>1. PICK g : g = launches[l]
    OBVIOUS
  <1>2. /\ g.at = "building" /\ config' = config /\ OptionsFit(g) /\ RunFits(g, build_dirs)
    BY <1>1 DEF EndBuild, IInv, LaunchInv, Resolved
  <1>3. PICK f : /\ f = [launches[l] EXCEPT !.at = "built"]
                 /\ launches' = [launches EXCEPT ![l] = f]
    BY DEF EndBuild, Set
  <1>4. /\ DOMAIN f = LaunchFields /\ f.at = "built" /\ OptionsFit(f)
        /\ f.options = g.options /\ f.wanted = g.wanted /\ f.by = g.by /\ f.run = g.run
        /\ f.todo = g.todo /\ f.results = g.results
    BY <1>1, <1>2, <1>3, GoesOn DEF IInv
  <1>5. PICK d : d = DirOf(g) /\ d = Dir(l) /\ d \in DOMAIN build_dirs
    BY <1>1, <1>2 DEF Dir, DirOf, Test, RunFits
  <1>6. build_dirs' = [build_dirs EXCEPT ![d].writers = @ \ {l}]
    BY <1>5 DEF EndBuild
  <1>7. DOMAIN build_dirs' = DOMAIN build_dirs
    BY <1>6
  <1>8. RunFits(f, build_dirs')
    BY <1>2, <1>4, <1>7 DEF RunFits, DirOf
  <1>9. LaunchInv' /\ ConfigInv'
    BY <1>1, <1>2, <1>3, <1>4, <1>7, <1>8, Afterwards DEF IInv
  <1>10. /\ launches'[l] = f
         /\ \A k \in Launchers \ {l} : launches'[k] = launches[k]
    BY <1>3 DEF IInv, LaunchInv
  <1>11. ASSUME NEW k, NEW e, Writes(k, e), k # l
         PROVE  Writes(k, e)'
    BY <1>10, <1>11 DEF Writes
  <1>12. ASSUME NEW e, Writes(l, e)
         PROVE  e = d
    BY <1>1, <1>2, <1>5, <1>12 DEF Writes
  <1>13. DirsInv'
    <2> SUFFICES ASSUME NEW e \in DOMAIN build_dirs, NEW c, c = build_dirs'[e]
                 PROVE  /\ c = [core |-> e[2], top |-> TopOf(e), writers |-> c.writers]
                        /\ \A k \in c.writers : Writes(k, e)'
      BY <1>7 DEF DirsInv
    <2>1. PICK b : b = build_dirs[e]
      OBVIOUS
    <2>2. /\ b = [core |-> e[2], top |-> TopOf(e), writers |-> b.writers]
          /\ \A k \in b.writers : Writes(k, e)
      BY <2>1 DEF IInv, DirsInv
    <2>3. CASE e = d
      <3>1. c = [b EXCEPT !.writers = b.writers \ {l}]
        BY <1>5, <1>6, <2>1, <2>3
      <3>2. c = [core |-> e[2], top |-> TopOf(e), writers |-> b.writers \ {l}]
        BY <2>2, <3>1
      <3> QED
        BY <1>11, <2>2, <3>2
    <2>4. CASE e # d
      <3>1. c = b
        BY <1>5, <1>6, <2>1, <2>4
      <3>2. l \notin b.writers
        BY <1>12, <2>2, <2>4
      <3> QED
        BY <1>11, <2>2, <3>1, <3>2
    <2> QED
      BY <2>3, <2>4
  <1> QED
    BY <1>9, <1>13

\* A simulation gives its test a result.
LEMMA SimulateKeeps ==
  ASSUME IInv, NEW l \in Launchers, Simulate(l)
  PROVE  LaunchInv' /\ ConfigInv' /\ DirsInv'
  <1>1. /\ launches[l].at = "built" /\ config' = config /\ build_dirs' = build_dirs
        /\ \E outcome : Result(l, outcome)
    BY DEF Simulate
  <1>2. launches[l].todo # <<>>
    BY <1>1 DEF IInv, LaunchInv, RunFits
  <1> QED
    BY <1>1, <1>2, ResultKeeps

\* A run ends when no test is left,
LEMMA DoneKeeps ==
  ASSUME IInv, NEW l \in Launchers, Done(l)
  PROVE  LaunchInv' /\ ConfigInv' /\ DirsInv'
  <1>1. /\ launches[l].at = "running" /\ launches[l].todo = <<>>
        /\ config' = config /\ build_dirs' = build_dirs
    BY DEF Done
  <1>2. PICK f : /\ f = [launches[l] EXCEPT !.at = "done"]
                 /\ launches' = [launches EXCEPT ![l] = f]
    BY DEF Done, Set
  <1>3. /\ DOMAIN f = LaunchFields /\ f.at = "done" /\ OptionsFit(f)
        /\ f.options = launches[l].options /\ f.wanted = launches[l].wanted
        /\ f.by = launches[l].by /\ f.run = launches[l].run /\ f.todo = launches[l].todo
        /\ f.results = launches[l].results
    BY <1>1, <1>2, GoesOn DEF IInv
  <1>4. RunFits(f, build_dirs')
    BY <1>1, <1>3 DEF IInv, LaunchInv, RunFits
  <1> QED
    BY <1>1, <1>2, <1>3, <1>4, Afterwards, DirsStay DEF IInv

\* or when somebody stops it, who may leave the beginning of one text before the end of
\* another's.
LEMMA InterruptKeeps ==
  ASSUME IInv, NEW l \in Launchers, Interrupt(l)
  PROVE  LaunchInv' /\ ConfigInv' /\ DirsInv'
  <1>1. /\ launches[l].at \notin {"not run", "interrupted"} /\ build_dirs' = build_dirs
        /\ \/ config' = config
           \/ launches[l].at = "opened" /\ config' \in HalfDumped(l)
    BY DEF Interrupt
  <1>2. PICK f : /\ f = [launches[l] EXCEPT !.at = "interrupted"]
                 /\ launches' = [launches EXCEPT ![l] = f]
    BY DEF Interrupt, Set
  <1>3. /\ DOMAIN f = LaunchFields /\ f.at = "interrupted" /\ OptionsFit(f)
        /\ f.options = launches[l].options /\ f.wanted = launches[l].wanted
    BY <1>1, <1>2, GoesOn DEF IInv
  <1>4. LaunchInv' /\ Keep
    BY <1>1, <1>2, <1>3, OneLauncher DEF IInv, Steps
  <1>5. DirsInv'
    BY <1>1, <1>2, <1>3, DirsStay DEF IInv
  <1>6. PICK ls, y : ls = config.by /\ y = config.text
    OBVIOUS
  <1>7. CASE config' = config
    BY <1>4, <1>5, <1>7, FileStays DEF IInv
  <1>8. CASE config' = Beginning
    BY <1>4, <1>5, <1>8 DEF ConfigInv, Beginning
  <1>9. CASE y # NoText /\ config' = Rest(config)
    <2>1. /\ config'.by = ls /\ config'.text = y /\ config'.state = "torn"
          /\ config' = [state |-> config'.state, by |-> config'.by, text |-> config'.text]
      BY <1>6, <1>9 DEF Rest, IInv, ConfigInv
    <2>2. Authored(ls, y)'
      BY <1>4, <1>6, <1>9, TextStays DEF IInv, ConfigInv
    <2>3. ConfigInv'
      BY <2>1, <2>2 DEF ConfigInv
    <2> QED
      BY <1>4, <1>5, <2>3
  <1>10. ASSUME y # NoText, launches[l].at = "opened",
                NEW z \in Spliced(launches[l].options, y), config' = Whole(ls \cup {l}, z)
         PROVE  LaunchInv' /\ ConfigInv' /\ DirsInv'
    <2>1. PICK ms : ms = ls \cup {l}
      OBVIOUS
    <2>2. /\ config'.by = ms /\ config'.text = z
          /\ config' = [state |-> config'.state, by |-> config'.by, text |-> config'.text]
      BY <1>10, <2>1 DEF Whole
    <2>3. Authored(ls, y)
      BY <1>6, <1>10 DEF IInv, ConfigInv
    <2>4. l \notin ls
      BY <1>10, <2>3 DEF Authored, Wrote
    <2>5. launches'[l] = f
      BY <1>2 DEF IInv, LaunchInv
    <2>6. /\ Authored(ls, y)' /\ Wrote(l)' /\ launches'[l].at = "interrupted"
          /\ OptionsFit(launches'[l]) /\ launches'[l].options = launches[l].options
      BY <1>3, <1>4, <1>10, <2>3, <2>5, TextStays DEF Wrote, Resolved
    <2>7. Authored(ms, z)'
      BY <1>10, <2>1, <2>4, <2>6, MixedText
    <2>8. ConfigInv'
      BY <2>2, <2>7 DEF ConfigInv
    <2> QED
      BY <1>4, <1>5, <2>8
  <1> QED
    BY <1>1, <1>6, <1>7, <1>8, <1>9, <1>10 DEF HalfDumped

\* The converter's state is of its type.
LEMMA ConverterKeeps == ConverterInv /\ ConverterStep => ConverterInv'
  <1> SUFFICES ASSUME ConverterInv, ConverterStep
               PROVE  ConverterInv'
    OBVIOUS
  <1>1. CASE Execute
    BY <1>1 DEF ConverterInv, Execute
  <1>2. CASE RunCommand
    <2>1. /\ DOMAIN converter' = {"at", "of"} /\ converter'.of \in Versions \cup {NoFile}
          /\ converter'.at \in {"make_elf", "make_hex", "convert"}
      BY <1>2 DEF ConverterInv, RunCommand
    <2> QED
      BY <1>2, <2>1 DEF ConverterInv, RunCommand
  <1>3. CASE OpenOutputs
    BY <1>3 DEF ConverterInv, OpenOutputs
  <1>4. CASE Flush
    BY <1>4 DEF ConverterInv, Flush
  <1>5. CASE CloseOutputs
    BY <1>5 DEF ConverterInv, CloseOutputs, NotConverting
  <1>6. CASE Fail
    BY <1>6 DEF ConverterInv, Fail, NotConverting
  <1>7. CASE EditSource
    BY <1>7 DEF ConverterInv, EditSource
  <1> QED
    BY <1>1, <1>2, <1>3, <1>4, <1>5, <1>6, <1>7 DEF ConverterStep

-----------------------------------------------------------------------------
\* The invariant holds to begin with,
LEMMA InvariantInit == Init => IInv
  <1> SUFFICES ASSUME Init
               PROVE  IInv
    OBVIOUS
  <1>1. LaunchInv
    BY DEF Init, LaunchInit, LaunchInv, NotRun, LaunchFields, Steps, Resolved
  <1>2. ConfigInv
    BY DEF Init, LaunchInit, ConfigInv, Absent, NotRun
  <1>3. DirsInv
    BY DEF Init, LaunchInit, DirsInv
  <1>4. ConverterInv
    BY ConverterAssumption DEF Init, ConverterInit, ConverterInv, NotConverting
  <1> QED
    BY <1>1, <1>2, <1>3, <1>4 DEF IInv

\* the converter's steps leave it alone as far as the launches go,
LEMMA LaunchesUnchanged ==
  ASSUME IInv, UNCHANGED launch_vars
  PROVE  LaunchInv' /\ ConfigInv' /\ DirsInv'
  <1>1. config' = config /\ launches' = launches /\ build_dirs' = build_dirs
    BY DEF launch_vars
  <1>2. Keep
    BY <1>1 DEF Keep, Wrote, Resolved
  <1>3. \A k, d : Writes(k, d) => Writes(k, d)'
    BY <1>1 DEF Writes
  <1>4. \A l \in Launchers : RunFits(launches[l], build_dirs) => RunFits(launches[l], build_dirs)'
    BY <1>1 DEF RunFits, Authored, Wrote, Resolved
  <1>5. LaunchInv'
    BY <1>1, <1>4 DEF IInv, LaunchInv, Resolved
  <1>6. DirsInv'
    BY <1>1, <1>3 DEF IInv, DirsInv
  <1> QED
    BY <1>1, <1>2, <1>5, <1>6, FileStays DEF IInv

\* and every step keeps it.
LEMMA InvariantStep == IInv /\ [Next]_vars => IInv'
  <1> SUFFICES ASSUME IInv, [Next]_vars
               PROVE  IInv'
    OBVIOUS
  <1>1. CASE ConverterStep /\ UNCHANGED launch_vars
    <2>1. ConverterInv'
      BY <1>1, ConverterKeeps DEF IInv
    <2>2. LaunchInv' /\ ConfigInv' /\ DirsInv'
      BY <1>1, LaunchesUnchanged
    <2> QED
      BY <2>1, <2>2 DEF IInv
  <1>2. CASE LaunchStep /\ UNCHANGED converter_vars
    <2>1. ConverterInv'
      BY <1>2 DEF IInv, ConverterInv, converter_vars
    <2>2. PICK l \in Launchers :
            \/ Launch(l, Programs) \/ OpenConfig(l) \/ DumpConfig(l) \/ StartRunner(l)
            \/ StartBuild(l) \/ EndBuild(l) \/ Simulate(l) \/ Done(l) \/ Interrupt(l)
      BY <1>2 DEF LaunchStep
    <2>3. LaunchInv' /\ ConfigInv' /\ DirsInv'
      BY <2>2, LaunchKeeps, OpenConfigKeeps, DumpConfigKeeps, StartRunnerKeeps, StartBuildKeeps,
         EndBuildKeeps, SimulateKeeps, DoneKeeps, InterruptKeeps
    <2> QED
      BY <2>1, <2>3 DEF IInv
  <1>3. CASE UNCHANGED vars
    <2>1. LaunchInv' /\ ConfigInv' /\ DirsInv'
      BY <1>3, LaunchesUnchanged DEF vars
    <2>2. ConverterInv'
      BY <1>3 DEF IInv, ConverterInv, vars, converter_vars
    <2> QED
      BY <2>1, <2>2 DEF IInv
  <1> QED
    BY <1>1, <1>2, <1>3 DEF Next

LEMMA Invariant == Spec => []IInv
  BY InvariantInit, InvariantStep, PTL DEF Spec

\* Types: what each launch looks for is a test that there is, or has been.
THEOREM ProgramsTypeCorrect == Spec => []ProgramsTypeOK
  <1>1. IInv => ProgramsTypeOK
    <2> SUFFICES ASSUME IInv, NEW l \in Launchers
                 PROVE  /\ launches[l].at \in Steps
                        /\ launches[l].options.tests \subseteq AllTests
      BY DEF IInv, ConverterInv, ProgramsTypeOK, AllTests
    <2>1. CASE launches[l].at = "not run"
      <3>1. launches[l] = NotRun /\ launches[l].at \in Steps
        BY <2>1 DEF IInv, LaunchInv
      <3>2. NotRun.options.tests = {}
        BY DEF NotRun, NoText
      <3> QED
        BY <3>1, <3>2
    <2>2. CASE launches[l].at # "not run"
      BY <2>2 DEF IInv, LaunchInv, Resolved, OptionsFit
    <2> QED
      BY <2>1, <2>2
  <1> QED
    BY <1>1, Invariant, PTL

\* A launch that comes to its end has run all the tests that one launch asked for, with that
\* launch's options, or those that several asked for of which an interrupt mixed the texts.
THEOREM RequestedTestsRun == Spec => []TestsAsRequested
  <1>1. IInv => TestsAsRequested
    <2> SUFFICES ASSUME IInv, NEW l \in Launchers, launches[l].at = "done",
                        NEW g, g = launches[l]
                 PROVE  /\ {r.test : r \in g.results} = g.run.tests
                        /\ \/ \E k \in g.by : g.by = {k} /\ RunsOf(g, k)
                           \/ (\E j, k \in g.by : j # k) /\ MixtureOf(g, g.by)
      BY DEF TestsAsRequested
    <2>1. RunFits(g, build_dirs) /\ g.todo = <<>> /\ Authored(g.by, g.run)
      BY DEF IInv, LaunchInv, RunFits
    <2>2. {r.test : r \in g.results} = g.run.tests
      <3>1. Elements(<<>>) = {}
        BY DEF Elements
      <3> QED
        BY <2>1, <3>1 DEF RunFits
    <2>3. CASE \E k \in g.by : g.by = {k}
      <3>1. PICK k \in g.by : g.by = {k}
        BY <2>3
      <3>2. g.run = launches[k].options /\ OptionsFit(launches[k])
        BY <2>1, <3>1 DEF Authored, Wrote, Resolved, IInv, LaunchInv
      <3> QED
        BY <2>2, <3>1, <3>2 DEF RunsOf, OptionsFit
    <2>4. CASE ~\E k \in g.by : g.by = {k}
      <3>1. \E j, k \in g.by : j # k
        <4>1. PICK k \in g.by : TRUE
          BY <2>1 DEF Authored
        <4> QED
          BY <2>4, <4>1
      <3>2. \A x \in {"core", "hdl", "mode"} : \E k \in g.by : g.run[x] = launches[k].options[x]
        BY <2>1 DEF Authored
      <3>3. g.run.tests \subseteq UNION {launches[k].wanted : k \in g.by}
        <4>1. \A t \in g.run.tests : \E k \in g.by : t \in launches[k].wanted
          BY <2>1 DEF Authored
        <4> QED
          BY <4>1
      <3>4. MixtureOf(g, g.by)
        BY <2>1, <3>2, <3>3 DEF MixtureOf, Authored
      <3> QED
        BY <2>2, <3>1, <3>4
    <2> QED
      BY <2>3, <2>4
  <1> QED
    BY <1>1, Invariant, PTL

\* What is simulated was built of the bench's own core and top level, whoever builds at the
\* same time, and the bench imports the utilities of that core.
THEOREM BenchesMatch == Spec => []BenchMatchesBuild
  <1>1. IInv => BenchMatchesBuild
    <2> SUFFICES ASSUME IInv, NEW l \in Launchers, launches[l].at = "built",
                        NEW r, r = launches[l].run, NEW b, b = build_dirs[Dir(l)]
                 PROVE  /\ b.core = r.core /\ b.top = hdl_toplevel(r.mode, Test(l))
                        /\ \A k \in b.writers :
                             \/ /\ launches[k].at = "building" /\ launches[k].run.core = r.core
                                /\ hdl_toplevel(launches[k].run.mode, Test(k)) = b.top
                             \/ launches[k].at = "interrupted"
                        /\ TargetCore(extra_env(r)) = r.core
      BY DEF BenchMatchesBuild
    <2>1. RunFits(launches[l], build_dirs)
      BY DEF IInv, LaunchInv
    <2>2. /\ \A k : Dir(k) = DirOf(launches[k])
          /\ \A k : Dir(k)[2] = launches[k].run.core
          /\ \A k : TopOf(Dir(k)) = hdl_toplevel(launches[k].run.mode, Test(k))
      BY DEF Dir, DirOf, Test, BuildDir, TopOf, hdl_toplevel
    <2>3. PICK d : d = Dir(l) /\ d \in DOMAIN build_dirs
      BY <2>1, <2>2 DEF RunFits
    <2>4. /\ b = [core |-> d[2], top |-> TopOf(d), writers |-> b.writers]
          /\ \A k \in b.writers : Writes(k, d)
      BY <2>3 DEF IInv, DirsInv
    <2>5. b.core = r.core /\ b.top = hdl_toplevel(r.mode, Test(l))
      BY <2>2, <2>3, <2>4
    <2>6. ASSUME NEW k \in b.writers, launches[k].at # "interrupted"
          PROVE  /\ launches[k].at = "building" /\ launches[k].run.core = r.core
                 /\ hdl_toplevel(launches[k].run.mode, Test(k)) = b.top
      <3>1. launches[k].at = "building" /\ Dir(k) = d
        BY <2>2, <2>4, <2>6 DEF Writes
      <3> QED
        BY <2>2, <2>3, <2>4, <3>1
    <2>7. r.core \in Cores
      BY <2>1, TextFits DEF RunFits, IInv
    <2>8. TargetCore(extra_env(r)) = r.core
      BY <2>7, SimulationAssumption DEF TargetCore, extra_env
    <2> QED
      BY <2>5, <2>6, <2>8
  <1> QED
    BY <1>1, Invariant, PTL
=============================================================================
