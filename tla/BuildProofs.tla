----------------------------- MODULE BuildProofs -----------------------------
(***************************************************************************)
(* That the digests can be relied on, for every set of cores, contents of  *)
(* the sources and launches, and every sequence of builds, edits, failures *)
(* and interruptions.                                                      *)
(*                                                                         *)
(* What the three properties rest on is that an artifact nothing threw     *)
(* doubt on was made from what its digest says (IpAgrees, PlAgrees), but   *)
(* for the moment between the tool's end and the writing of the digest;    *)
(* and that a build under way knows the present sources as long as they    *)
(* were not edited after it looked (the ...UnderWay invariants).           *)
(***************************************************************************)
EXTENDS BuildTool, SequenceTheorems, TLAPS

\* The digests a stage of a core can have.
HashesOf(stage, core) ==
  CASE stage = "ip" -> {<<h>> : h \in Contents[core]}
    [] stage = "pl" -> {<<s, h>> : s \in Contents["scripts"], h \in Contents[core]}
    [] stage = "ps" -> {<<f, s, h>> : f \in Contents["firmware"], s \in Contents["scripts"],
                                      h \in Contents[core]}

Stages     == {"ip", "pl", "ps"}
JobFields  == {"stage", "at", "core", "board", "hash", "quiet"}
MadeStates == {"missing", "torn", "made"}

StoreShape ==
  /\ \A s \in Sources : tree[s] \in Contents[s]
  /\ DOMAIN tree = Sources
  /\ DOMAIN digest = Cores \cup {"pl", "ps"}
  /\ \A c \in Cores : digest[c] = NoDigest \/ digest[c] \in HashesOf("ip", c)
  /\ \A t \in {"pl", "ps"} : digest[t] = NoDigest \/ \E c \in Cores : digest[t] \in HashesOf(t, c)
  /\ DOMAIN ip_repo = Cores /\ DOMAIN pl_dir = Cores
  /\ \A c \in Cores : ip_repo[c].state \in MadeStates /\ pl_dir[c].state \in MadeStates
  /\ DOMAIN workspace = {"platform", "app", "src"}
  /\ workspace.platform.state \in MadeStates
  /\ DOMAIN workspace.src = DOMAIN NoFiles

JobShape ==
  /\ DOMAIN job = JobFields
  /\ \/ job = Idle
     \/ /\ job.stage \in Stages /\ job.core \in Cores /\ job.board \in Boards
        /\ job.at \in {"check", "tool", "application", "record"}
        /\ job.quiet \in BOOLEAN
        /\ job.at = "application" => job.stage = "ps"
        /\ job.at # "check" => job.hash \in HashesOf(job.stage, job.core)

History ==
  /\ doubtful \subseteq ({"ip", "pl"} \X Cores)
  /\ disturbances \in 0 .. MaxDisturbances

\* An IP core, and a block design, that are what their digest says.
MadeIp(h) == [state |-> "made", hdl |-> h]
IpSettled(c) ==
  \/ ip_repo[c].state = "missing"
  \/ \E h \in Contents[c] : ip_repo[c] = MadeIp(h) /\ digest[c] = <<h>>

MadePl(s, h, b) == [state |-> "made", ip |-> MadeIp(h), scripts |-> s, board |-> b]
PlSettled(c) ==
  \/ pl_dir[c].state = "missing"
  \/ \A s \in Contents["scripts"], h \in Contents[c] :
       digest["pl"] = <<s, h>> => \E b \in Boards : pl_dir[c] = MadePl(s, h, b)

IpAgrees ==
  \A c \in Cores :
    <<"ip", c>> \notin doubtful /\ ~(job.stage = "ip" /\ job.at = "record" /\ job.core = c)
      => IpSettled(c)
PlAgrees ==
  \A c \in Cores :
    <<"pl", c>> \notin doubtful /\ ~(job.stage = "pl" /\ job.at = "record" /\ job.core = c)
      => PlSettled(c)

\* What a build under way knows of the present sources.
IpUnderWay ==
  /\ job.stage = "ip" /\ job.at \in {"tool", "record"}
  /\ job.quiet \/ Stage("ip") \notin doubtful
  => /\ job.hash = <<tree[job.core]>>
     /\ job.at = "record" => ip_repo[job.core] = MadeIp(tree[job.core])

IpDone ==
  /\ job.stage = "pl"
  /\ job.quiet \/ Stage("pl") \notin doubtful
  /\ Stage("ip") \notin doubtful
  => ip_repo[job.core] = MadeIp(tree[job.core])

PlFresh == MadePl(tree["scripts"], tree[job.core], job.board)
PlUnderWay ==
  /\ job.stage = "pl" /\ job.at \in {"tool", "record"}
  /\ \/ Stage("pl") \notin doubtful
     \/ job.quiet /\ Stage("ip") \notin doubtful
  => /\ job.hash = <<tree["scripts"], tree[job.core]>>
     /\ job.at = "record" => pl_dir[job.core] = PlFresh

\* hardware.json names one board that can be built for; no digest tells boards apart.
OneBoard == \A b, d \in Boards : b = d

PsUnderWay ==
  /\ OneBoard
  /\ job.stage = "ps" /\ job.quiet /\ {Stage("ip"), Stage("pl")} \cap doubtful = {}
  => /\ pl_dir[job.core] = PlFresh
     /\ job.at \in {"application", "record"} => workspace.platform = PlFresh
     /\ job.at = "record" =>
          LET files == FirmwareFiles[tree["firmware"]]
          IN \A f \in DOMAIN files : workspace.src[f] = files[f]

IInv == /\ StoreShape /\ JobShape /\ History
        /\ IpAgrees /\ PlAgrees
        /\ IpUnderWay /\ IpDone /\ PlUnderWay /\ PsUnderWay

-----------------------------------------------------------------------------
\* What is concatenated into a digest can be told apart again.
LEMMA Tuples ==
  /\ \A a, b : <<a>> \o <<b>> = <<a, b>>
  /\ \A a, b, c : <<a>> \o <<b, c>> = <<a, b, c>>
  <1>1. ASSUME NEW a, NEW b PROVE <<a>> \o <<b>> = <<a, b>>
    <2>1. <<a>> \in Seq({a, b}) /\ <<b>> \in Seq({a, b}) /\ <<a, b>> \in Seq({a, b})
      OBVIOUS
    <2>2. /\ <<a>> \o <<b>> \in Seq({a, b}) /\ Len(<<a>> \o <<b>>) = 2
          /\ \A i \in 1 .. 2 : (<<a>> \o <<b>>)[i] = IF i <= 1 THEN <<a>>[i] ELSE <<b>>[i - 1]
      BY <2>1, ConcatProperties
    <2>3. \A i \in 1 .. 2 : (<<a>> \o <<b>>)[i] = <<a, b>>[i]
      BY <2>2
    <2> QED
      BY <2>1, <2>2, <2>3, SeqEqual
  <1>2. ASSUME NEW a, NEW b, NEW c PROVE <<a>> \o <<b, c>> = <<a, b, c>>
    <2> DEFINE S == {a, b, c}
    <2>1. <<a>> \in Seq(S) /\ <<b, c>> \in Seq(S) /\ <<a, b, c>> \in Seq(S)
      OBVIOUS
    <2>2. /\ <<a>> \o <<b, c>> \in Seq(S) /\ Len(<<a>> \o <<b, c>>) = 3
          /\ \A i \in 1 .. 3 :
               (<<a>> \o <<b, c>>)[i] = IF i <= 1 THEN <<a>>[i] ELSE <<b, c>>[i - 1]
      BY <2>1, ConcatProperties
    <2>3. \A i \in 1 .. 3 : (<<a>> \o <<b, c>>)[i] = <<a, b, c>>[i]
      BY <2>2
    <2> QED
      BY <2>1, <2>2, <2>3, SeqEqual
  <1> QED
    BY <1>1, <1>2

\* The digests that the present sources call for.
LEMMA HashForms ==
  ASSUME NEW c
  PROVE  /\ compute_hash("ip", c) = <<tree[c]>>
         /\ compute_hash("pl", c) = <<tree["scripts"], tree[c]>>
         /\ compute_hash("ps", c) = <<tree["firmware"], tree["scripts"], tree[c]>>
  BY Tuples DEF compute_hash, ip_hash, pl_hash, ps_hash

\* They are digests of that stage and core.
LEMMA HashTyped ==
  ASSUME StoreShape, NEW c \in Cores, NEW t \in Stages
  PROVE  compute_hash(t, c) \in HashesOf(t, c)
  BY HashForms DEF StoreShape, Sources, Stages, HashesOf

\* A digest tells the core and the contents it was made from.
LEMMA HashTells ==
  /\ \A c, d \in Cores : \A h \in HashesOf("ip", c) \cap HashesOf("ip", d) : c = d
  /\ \A c, d \in Cores : \A h \in HashesOf("pl", c) \cap HashesOf("pl", d) : c = d
  /\ \A c \in Cores : \A t \in Stages : NoDigest \notin HashesOf(t, c)
  BY BuildAssumption DEF HashesOf, Stages, NoDigest

\* The digest files of the stages and of the cores are different files.
LEMMA Names ==
  ASSUME NEW c \in Cores
  PROVE  /\ c \notin {"pl", "ps", "scripts", "firmware"}
         /\ DigestName("ip", c) = c
         /\ DigestName("pl", c) = "pl" /\ DigestName("ps", c) = "ps"
  BY BuildAssumption DEF DigestName

\* Whatever the options, a launch builds a core there is for a board there is.
LEMMA LaunchTyped == LaunchHardware => \E c \in Cores, b \in Boards : Begin(c, b)
  <1> SUFFICES ASSUME LaunchHardware PROVE \E c \in Cores, b \in Boards : Begin(c, b)
    OBVIOUS
  <1>1. PICK cli \in CommandLines : \E c \in HardwareChoices(cli) : Begin(c.core, c.board)
    BY DEF LaunchHardware
  <1>2. PICK c \in HardwareChoices(cli) : Begin(c.core, c.board)
    BY <1>1
  <1>3. PICK v \in Resolve(cli.vendor, Vendors) :
          c.board \in Resolve(cli.board, BoardsOf[v]) /\ c.core \in Resolve(cli.core, Cores)
    BY <1>2 DEF HardwareChoices
  <1>4. v \in DOMAIN BoardsOf /\ c.board \in BoardsOf[v] /\ c.core \in Cores
    BY <1>3 DEF Resolve, Vendors
  <1> QED
    BY <1>2, <1>4, LaunchAssumption

\* Between builds nothing is known of a build under way.
LEMMA IdleKnowsNothing ==
  ASSUME job.stage = "none"
  PROVE  IpUnderWay /\ IpDone /\ PlUnderWay /\ PsUnderWay
  BY DEF IpUnderWay, IpDone, PlUnderWay, PsUnderWay

\* A job that has a stage is running.
LEMMA JobStates ==
  ASSUME JobShape
  PROVE  /\ Running <=> job.stage \in Stages
         /\ ~Running => job = Idle /\ job.stage = "none" /\ job.at = "idle"
         /\ Running => /\ job.core \in Cores /\ job.board \in Boards
                       /\ job.at \in {"check", "tool", "application", "record"}
                       /\ job.quiet \in BOOLEAN
  BY DEF JobShape, Running, Idle, Stages

-----------------------------------------------------------------------------
\* The developer.
LEMMA EditStep ==
  ASSUME IInv, NEW s \in Sources, NEW c \in Contents[s], Edit(s, c)
  PROVE  IInv'
  <1>1. /\ tree' = [tree EXCEPT ![s] = c]
        /\ UNCHANGED <<digest, ip_repo, pl_dir, workspace>>
    BY DEF Edit
  <1>2. StoreShape'
    BY <1>1 DEF IInv, StoreShape
  <1>3. \A r \in Sources : r # s => tree'[r] = tree[r]
    BY <1>1 DEF IInv, StoreShape
  <1>4. CASE Running /\ ~JustBegun
    <2>1. /\ Disturb(InDoubt(s))
          /\ job' = [job EXCEPT !.quiet = FALSE]
      BY <1>4 DEF Edit
    <2>2. /\ DOMAIN job' = JobFields
          /\ job'.stage = job.stage /\ job'.at = job.at /\ job'.core = job.core
          /\ job'.board = job.board /\ job'.hash = job.hash /\ job'.quiet = FALSE
      BY <2>1 DEF IInv, JobShape, JobFields
    <2>3. job.stage \in Stages /\ job.core \in Cores
      BY <1>4, JobStates DEF IInv
    <2>4. JobShape'
      <3>1. /\ job.at \in {"check", "tool", "application", "record"} /\ job.board \in Boards
            /\ job.at = "application" => job.stage = "ps"
            /\ job.at # "check" => job.hash \in HashesOf(job.stage, job.core)
        BY <1>4 DEF IInv, JobShape, Running, Idle
      <3> QED
        BY <2>2, <2>3, <3>1 DEF JobShape
    <2>5. doubtful' = doubtful \cup InDoubt(s)
      BY <2>1 DEF Disturb
    <2>6. History'
      <3>1. InDoubt(s) \subseteq {"ip", "pl"} \X Cores
        BY <2>3 DEF InDoubt
      <3> QED
        BY <2>1, <2>5, <3>1, BuildAssumption DEF Disturb, IInv, History
    <2>7. /\ s = job.core /\ job.stage = "ip"
               => {<<"ip", job.core>>, <<"pl", job.core>>} \subseteq doubtful'
          /\ s \in {job.core, "scripts"} /\ job.stage = "pl" => <<"pl", job.core>> \in doubtful'
      BY <2>5 DEF InDoubt
    <2>8. IpAgrees' /\ PlAgrees'
      BY <1>1, <2>2, <2>5 DEF IInv, IpAgrees, PlAgrees, IpSettled, PlSettled
    <2>9. IpUnderWay' /\ IpDone' /\ PlUnderWay' /\ PsUnderWay'
      <3>1. job.core # s => tree'[job.core] = tree[job.core]
        BY <1>3, <2>3 DEF Sources
      <3>2. "scripts" # s => tree'["scripts"] = tree["scripts"]
        BY <1>3 DEF Sources
      <3>3. job.stage = "ip" => IpUnderWay'
        BY <1>1, <2>2, <2>5, <2>7, <3>1 DEF IInv, IpUnderWay, Stage
      <3>4. job.stage = "pl" => IpDone' /\ PlUnderWay'
        BY <1>1, <2>2, <2>5, <2>7, <3>1, <3>2 DEF IInv, IpDone, PlUnderWay, Stage, PlFresh
      <3>5. PsUnderWay'
        BY <2>2 DEF PsUnderWay
      <3> QED
        BY <2>2, <3>3, <3>4, <3>5 DEF IpUnderWay, IpDone, PlUnderWay
    <2> QED
      BY <1>2, <2>4, <2>6, <2>8, <2>9 DEF IInv
  <1>5. CASE ~(Running /\ ~JustBegun)
    <2>1. UNCHANGED <<job, doubtful, disturbances>>
      BY <1>5 DEF Edit
    <2>2. job.stage = "none" \/ (job.stage = "ip" /\ job.at = "check")
      BY <1>5, JobStates DEF IInv, JustBegun
    <2>3. JobShape' /\ History'
      BY <2>1 DEF IInv, JobShape, History
    <2>4. IpAgrees' /\ PlAgrees'
      BY <1>1, <2>1 DEF IInv, IpAgrees, PlAgrees, IpSettled, PlSettled
    <2>5. IpUnderWay' /\ IpDone' /\ PlUnderWay' /\ PsUnderWay'
      BY <2>1, <2>2 DEF IpUnderWay, IpDone, PlUnderWay, PsUnderWay
    <2> QED
      BY <1>2, <2>3, <2>4, <2>5 DEF IInv
  <1> QED
    BY <1>4, <1>5

\* The build directory goes, the digests stay: nothing is there to disagree with them.
LEMMA RemoveStep == ASSUME IInv, RemoveBuildDir PROVE IInv'
  <1>1. /\ ip_repo' = [c \in Cores |-> IpMissing] /\ pl_dir' = [c \in Cores |-> PlMissing]
        /\ workspace' = NoWorkspace
        /\ UNCHANGED <<tree, digest, job, doubtful, disturbances>>
        /\ job.stage = "none"
    BY JobStates DEF RemoveBuildDir, IInv
  <1>2. /\ \A c \in Cores : ip_repo'[c].state = "missing" /\ pl_dir'[c].state = "missing"
        /\ workspace'.platform.state = "missing"
        /\ DOMAIN workspace' = {"platform", "app", "src"} /\ workspace'.src = NoFiles
    BY <1>1 DEF IpMissing, PlMissing, NoWorkspace
  <1>3. StoreShape'
    BY <1>1, <1>2 DEF IInv, StoreShape, MadeStates
  <1>4. JobShape' /\ History'
    BY <1>1 DEF IInv, JobShape, History
  <1>5. IpAgrees' /\ PlAgrees'
    BY <1>2 DEF IpAgrees, PlAgrees, IpSettled, PlSettled
  <1>6. IpUnderWay' /\ IpDone' /\ PlUnderWay' /\ PsUnderWay'
    BY <1>1 DEF IpUnderWay, IpDone, PlUnderWay, PsUnderWay
  <1> QED
    BY <1>3, <1>4, <1>5, <1>6 DEF IInv

\* A launch knows nothing yet.
LEMMA BeginStep ==
  ASSUME IInv, NEW c \in Cores, NEW b \in Boards, Begin(c, b)
  PROVE  IInv'
  <1>1. /\ job' = [Idle EXCEPT !.stage = "ip", !.at = "check", !.core = c, !.board = b]
        /\ UNCHANGED <<tree, digest, ip_repo, pl_dir, workspace, doubtful, disturbances>>
    BY DEF Begin
  <1>2. /\ DOMAIN job' = JobFields
        /\ job'.stage = "ip" /\ job'.at = "check" /\ job'.core = c /\ job'.board = b
        /\ job'.quiet = TRUE
    BY <1>1 DEF Idle, JobFields
  <1>3. StoreShape' /\ History'
    BY <1>1 DEF IInv, StoreShape, History
  <1>4. JobShape'
    BY <1>2 DEF JobShape, Stages
  <1>5. job.stage = "none"
    BY JobStates DEF IInv, Begin
  <1>6. IpAgrees' /\ PlAgrees'
    BY <1>1, <1>5 DEF IInv, IpAgrees, PlAgrees, IpSettled, PlSettled
  <1>7. IpUnderWay' /\ IpDone' /\ PlUnderWay' /\ PsUnderWay'
    BY <1>2 DEF IpUnderWay, IpDone, PlUnderWay, PsUnderWay
  <1> QED
    BY <1>3, <1>4, <1>6, <1>7 DEF IInv

-----------------------------------------------------------------------------
\* The stage that follows.
LEMMA NextStageFields ==
  ASSUME JobShape, Running, job' = NextStage
  PROVE  /\ JobShape'
         /\ job.stage \in {"ip", "pl"} =>
              /\ job'.stage = IF job.stage = "ip" THEN "pl" ELSE "ps"
              /\ job'.at = "check" /\ job'.core = job.core /\ job'.board = job.board
              /\ job'.quiet = job.quiet
         /\ job.stage = "ps" => job'.stage = "none"
  <1>1. job.stage \in Stages /\ job.core \in Cores /\ job.board \in Boards /\ job.quiet \in BOOLEAN
    BY JobStates
  <1>2. CASE job.stage = "ip"
    <2>1. job' = [job EXCEPT !.stage = "pl", !.at = "check", !.hash = <<>>]
      BY <1>2 DEF NextStage
    <2>2. /\ DOMAIN job' = JobFields /\ job'.stage = "pl" /\ job'.at = "check"
          /\ job'.core = job.core /\ job'.board = job.board /\ job'.quiet = job.quiet
      BY <2>1 DEF JobShape, JobFields
    <2> QED
      BY <1>1, <1>2, <2>2 DEF JobShape, Stages
  <1>3. CASE job.stage = "pl"
    <2>1. job' = [job EXCEPT !.stage = "ps", !.at = "check", !.hash = <<>>]
      BY <1>3 DEF NextStage
    <2>2. /\ DOMAIN job' = JobFields /\ job'.stage = "ps" /\ job'.at = "check"
          /\ job'.core = job.core /\ job'.board = job.board /\ job'.quiet = job.quiet
      BY <2>1 DEF JobShape, JobFields
    <2> QED
      BY <1>1, <1>3, <2>2 DEF JobShape, Stages
  <1>4. CASE job.stage = "ps"
    <2>1. job' = Idle
      BY <1>4 DEF NextStage
    <2> QED
      BY <1>4, <2>1 DEF JobShape, JobFields, Idle
  <1> QED
    BY <1>1, <1>2, <1>3, <1>4 DEF Stages

\* A stage that is skipped is what its digest says, which is what the present
\* sources call for.
LEMMA SkipFresh ==
  ASSUME IInv, Skip
  PROVE  /\ job.stage \in {"ip", "pl"} /\ job.core \in Cores /\ job.board \in Boards
         /\ job.stage = "ip" /\ Stage("ip") \notin doubtful =>
              ip_repo[job.core] = MadeIp(tree[job.core])
         /\ job.stage = "pl" /\ Stage("pl") \notin doubtful =>
              \E b \in Boards : pl_dir[job.core] = MadePl(tree["scripts"], tree[job.core], b)
  <1> DEFINE c == job.core
  <1>1. job.stage \in Stages /\ c \in Cores /\ job.board \in Boards /\ job.at = "check"
    <2>1. job.at = "check"
      BY DEF Skip
    <2> QED
      BY <2>1, JobStates DEF IInv, Running
  <1>2. /\ digest[DigestName(job.stage, c)] = compute_hash(job.stage, c)
        /\ artifacts_exist(job.stage, c)
    BY DEF Skip, up_to_date
  <1>3. job.stage # "ps"
    BY <1>2 DEF artifacts_exist, ps_exists
  <1>4. ASSUME job.stage = "ip", Stage("ip") \notin doubtful
        PROVE  ip_repo[c] = MadeIp(tree[c])
    <2>1. digest[c] = <<tree[c]>> /\ ip_repo[c].state # "missing"
      BY <1>1, <1>2, <1>4, Names, HashForms DEF artifacts_exist, ip_exists
    <2>2. IpSettled(c)
      BY <1>1, <1>4 DEF IInv, IpAgrees, Stage
    <2>3. PICK h \in Contents[c] : ip_repo[c] = MadeIp(h) /\ digest[c] = <<h>>
      BY <2>1, <2>2 DEF IpSettled
    <2>4. h = tree[c]
      BY <2>1, <2>3
    <2> QED
      BY <2>3, <2>4
  <1>5. ASSUME job.stage = "pl", Stage("pl") \notin doubtful
        PROVE  \E b \in Boards : pl_dir[c] = MadePl(tree["scripts"], tree[c], b)
    <2>1. digest["pl"] = <<tree["scripts"], tree[c]>> /\ pl_dir[c].state # "missing"
      BY <1>1, <1>2, <1>5, Names, HashForms DEF artifacts_exist, pl_exists
    <2>2. PlSettled(c)
      BY <1>1, <1>5 DEF IInv, PlAgrees, Stage
    <2>3. tree["scripts"] \in Contents["scripts"] /\ tree[c] \in Contents[c]
      BY <1>1 DEF IInv, StoreShape, Sources
    <2> QED
      BY <2>1, <2>2, <2>3 DEF PlSettled
  <1> QED
    BY <1>1, <1>3, <1>4, <1>5 DEF Stages

\* A stage is skipped: what it would have made is there.
LEMMA SkipStep == ASSUME IInv, Skip PROVE IInv'
  <1>1. /\ job.at = "check" /\ job' = NextStage
        /\ UNCHANGED <<tree, digest, ip_repo, pl_dir, workspace, doubtful, disturbances>>
    BY DEF Skip
  <1>2. StoreShape' /\ History'
    BY <1>1 DEF IInv, StoreShape, History
  <1>3. job.stage \in {"ip", "pl"} /\ Running
    BY <1>1, SkipFresh DEF Running
  <1>4. /\ JobShape'
        /\ job'.stage = IF job.stage = "ip" THEN "pl" ELSE "ps"
        /\ job'.at = "check" /\ job'.core = job.core /\ job'.board = job.board
        /\ job'.quiet = job.quiet
    BY <1>1, <1>3, NextStageFields DEF IInv
  <1>5. IpAgrees' /\ PlAgrees'
    BY <1>1, <1>4 DEF IInv, IpAgrees, PlAgrees, IpSettled, PlSettled
  <1>6. IpUnderWay' /\ PlUnderWay'
    BY <1>4 DEF IpUnderWay, PlUnderWay
  <1>7. IpDone'
    BY <1>1, <1>3, <1>4, SkipFresh DEF IpDone, Stage
  <1>8. PsUnderWay'
    <2> SUFFICES ASSUME OneBoard, job.stage = "pl", {Stage("ip"), Stage("pl")} \cap doubtful = {}
                 PROVE  (pl_dir[job.core] = PlFresh)'
      BY <1>1, <1>3, <1>4 DEF PsUnderWay, Stage
    <2>1. PICK b \in Boards : pl_dir[job.core] = MadePl(tree["scripts"], tree[job.core], b)
      BY SkipFresh
    <2>2. b = job.board
      BY SkipFresh DEF OneBoard
    <2> QED
      BY <1>1, <1>4, <2>1, <2>2 DEF PlFresh
  <1> QED
    BY <1>2, <1>4, <1>5, <1>6, <1>7, <1>8 DEF IInv

\* The digest of the present sources is computed.
LEMMA OutdatedStep == ASSUME IInv, Outdated PROVE IInv'
  <1> DEFINE c == job.core
  <1>1. /\ job.at = "check"
        /\ job' = [job EXCEPT !.at = "tool", !.hash = compute_hash(job.stage, c)]
        /\ UNCHANGED <<tree, digest, ip_repo, pl_dir, workspace, doubtful, disturbances>>
    BY DEF Outdated
  <1>2. job.stage \in Stages /\ c \in Cores /\ job.board \in Boards /\ job.quiet \in BOOLEAN
    BY <1>1, JobStates DEF IInv, Running
  <1>3. /\ DOMAIN job' = JobFields /\ job'.stage = job.stage /\ job'.at = "tool"
        /\ job'.core = c /\ job'.board = job.board /\ job'.quiet = job.quiet
        /\ job'.hash = compute_hash(job.stage, c)
    BY <1>1 DEF IInv, JobShape, JobFields
  <1>4. StoreShape' /\ History'
    BY <1>1 DEF IInv, StoreShape, History
  <1>5. JobShape'
    <2>1. compute_hash(job.stage, c) \in HashesOf(job.stage, c)
      BY <1>2, HashTyped DEF IInv
    <2> QED
      BY <1>2, <1>3, <2>1 DEF JobShape
  <1>6. IpAgrees' /\ PlAgrees'
    BY <1>1, <1>3 DEF IInv, IpAgrees, PlAgrees, IpSettled, PlSettled
  <1>7. IpUnderWay' /\ PlUnderWay'
    BY <1>1, <1>3, HashForms DEF IpUnderWay, PlUnderWay
  <1>8. IpDone' /\ PsUnderWay'
    BY <1>1, <1>3 DEF IInv, IpDone, PsUnderWay, Stage, PlFresh
  <1> QED
    BY <1>4, <1>5, <1>6, <1>7, <1>8 DEF IInv

-----------------------------------------------------------------------------
\* The packaging script makes the IP core of the present sources.
LEMMA PackageStep == ASSUME IInv, PackageIp PROVE IInv'
  <1> DEFINE c == job.core
  <1>1. /\ job.stage = "ip" /\ job.at = "tool"
        /\ ip_repo' = [ip_repo EXCEPT ![c] = FreshIp(c)]
        /\ job' = [job EXCEPT !.at = "record"]
        /\ UNCHANGED <<tree, digest, pl_dir, workspace, doubtful, disturbances>>
    BY DEF PackageIp
  <1>2. c \in Cores
    BY <1>1, JobStates DEF IInv, Stages
  <1>3. /\ DOMAIN job' = JobFields /\ job'.stage = "ip" /\ job'.at = "record"
        /\ job'.core = c /\ job'.board = job.board /\ job'.quiet = job.quiet
        /\ job'.hash = job.hash
    BY <1>1 DEF IInv, JobShape, JobFields
  <1>4. /\ ip_repo'[c] = MadeIp(tree[c]) /\ ip_repo'[c].state = "made"
        /\ DOMAIN ip_repo' = Cores
        /\ \A d \in Cores \ {c} : ip_repo'[d] = ip_repo[d]
    BY <1>1, <1>2 DEF IInv, StoreShape, FreshIp, MadeIp
  <1>5. StoreShape' /\ History'
    BY <1>1, <1>4 DEF IInv, StoreShape, History, MadeStates
  <1>6. JobShape'
    BY <1>1, <1>3 DEF IInv, JobShape, Idle
  <1>7. IpAgrees'
    BY <1>1, <1>3, <1>4 DEF IInv, IpAgrees, IpSettled
  <1>8. PlAgrees'
    BY <1>1, <1>3 DEF IInv, PlAgrees, PlSettled
  <1>9. IpUnderWay'
    BY <1>1, <1>3, <1>4 DEF IInv, IpUnderWay, Stage
  <1>10. IpDone' /\ PlUnderWay' /\ PsUnderWay'
    BY <1>3 DEF IpDone, PlUnderWay, PsUnderWay
  <1> QED
    BY <1>5, <1>6, <1>7, <1>8, <1>9, <1>10 DEF IInv

\* The block design takes the IP core from the repository, with what is wrong about it.
LEMMA BuildPlStep == ASSUME IInv, BuildPl PROVE IInv'
  <1> DEFINE c == job.core
             design == [state |-> "made", ip |-> ip_repo[c], scripts |-> tree["scripts"],
                        board |-> job.board]
  <1>1. /\ job.stage = "pl" /\ job.at = "tool"
        /\ pl_dir' = [pl_dir EXCEPT ![c] = design]
        /\ job' = [job EXCEPT !.at = "record"]
        /\ doubtful' = IF <<"ip", c>> \in doubtful THEN doubtful \cup {<<"pl", c>>} ELSE doubtful
        /\ UNCHANGED <<tree, digest, ip_repo, workspace, disturbances>>
    BY DEF BuildPl
  <1>2. c \in Cores
    BY <1>1, JobStates DEF IInv, Stages
  <1>3. /\ DOMAIN job' = JobFields /\ job'.stage = "pl" /\ job'.at = "record"
        /\ job'.core = c /\ job'.board = job.board /\ job'.quiet = job.quiet
        /\ job'.hash = job.hash
    BY <1>1 DEF IInv, JobShape, JobFields
  <1>4. /\ pl_dir'[c] = design /\ pl_dir'[c].state = "made"
        /\ DOMAIN pl_dir' = Cores
        /\ \A d \in Cores \ {c} : pl_dir'[d] = pl_dir[d]
    BY <1>1, <1>2 DEF IInv, StoreShape
  <1>5. StoreShape'
    BY <1>1, <1>4 DEF IInv, StoreShape, MadeStates
  <1>6. JobShape' /\ History'
    BY <1>1, <1>2, <1>3 DEF IInv, JobShape, Idle, History
  <1>7. IpAgrees'
    BY <1>1, <1>3 DEF IInv, IpAgrees, IpSettled
  <1>8. PlAgrees'
    BY <1>1, <1>3, <1>4 DEF IInv, PlAgrees, PlSettled
  <1>9. IpDone'
    BY <1>1, <1>2, <1>3 DEF IInv, IpDone, Stage
  <1>10. PlUnderWay'
    <2> SUFFICES ASSUME \/ <<"pl", c>> \notin doubtful'
                        \/ job.quiet /\ <<"ip", c>> \notin doubtful'
                 PROVE  /\ job.hash = <<tree["scripts"], tree[c]>>
                        /\ design = MadePl(tree["scripts"], tree[c], job.board)
      BY <1>1, <1>3, <1>4 DEF PlUnderWay, Stage, PlFresh
    <2>1. <<"ip", c>> \notin doubtful /\ (job.quiet \/ <<"pl", c>> \notin doubtful)
      BY <1>1
    <2>2. ip_repo[c] = MadeIp(tree[c])
      BY <1>1, <2>1 DEF IInv, IpDone, Stage
    <2>3. job.hash = <<tree["scripts"], tree[c]>>
      BY <1>1, <2>1 DEF IInv, PlUnderWay, Stage
    <2> QED
      BY <2>2, <2>3 DEF MadePl
  <1>11. IpUnderWay' /\ PsUnderWay'
    BY <1>3 DEF IpUnderWay, PsUnderWay
  <1> QED
    BY <1>5, <1>6, <1>7, <1>8, <1>9, <1>10, <1>11 DEF IInv

\* The platform takes the hardware of the block design, whatever it had.
LEMMA PlatformStep == ASSUME IInv, VitisPlatform PROVE IInv'
  <1> DEFINE c == job.core
  <1>1. /\ job.stage = "ps" /\ job.at = "tool"
        /\ workspace' = [workspace EXCEPT !.platform = pl_dir[c]]
        /\ job' = [job EXCEPT !.at = "application"]
        /\ UNCHANGED <<tree, digest, ip_repo, pl_dir, doubtful, disturbances>>
    BY DEF VitisPlatform
  <1>2. c \in Cores
    BY <1>1, JobStates DEF IInv, Stages
  <1>3. /\ DOMAIN job' = JobFields /\ job'.stage = "ps" /\ job'.at = "application"
        /\ job'.core = c /\ job'.board = job.board /\ job'.quiet = job.quiet
        /\ job'.hash = job.hash
    BY <1>1 DEF IInv, JobShape, JobFields
  <1>4. /\ workspace'.platform = pl_dir[c] /\ workspace'.src = workspace.src
        /\ DOMAIN workspace' = {"platform", "app", "src"}
    BY <1>1 DEF IInv, StoreShape
  <1>5. StoreShape' /\ History'
    BY <1>1, <1>2, <1>4 DEF IInv, StoreShape, History
  <1>6. JobShape'
    BY <1>1, <1>3 DEF IInv, JobShape, Idle
  <1>7. IpAgrees' /\ PlAgrees'
    BY <1>1, <1>3 DEF IInv, IpAgrees, PlAgrees, IpSettled, PlSettled
  <1>8. IpUnderWay' /\ IpDone' /\ PlUnderWay'
    BY <1>3 DEF IpUnderWay, IpDone, PlUnderWay
  <1>9. PsUnderWay'
    BY <1>1, <1>3, <1>4 DEF IInv, PsUnderWay, Stage, PlFresh
  <1> QED
    BY <1>5, <1>6, <1>7, <1>8, <1>9 DEF IInv

\* The sources of the present firmware are copied over whatever the application had.
LEMMA ApplicationStep == ASSUME IInv, VitisApplication PROVE IInv'
  <1> DEFINE c == job.core
             files == FirmwareFiles[tree["firmware"]]
             old == IF workspace.app THEN workspace.src ELSE NoFiles
             new == [f \in DOMAIN old |-> IF f \in DOMAIN files THEN files[f] ELSE old[f]]
  <1>1. /\ job.at = "application"
        /\ workspace' = [workspace EXCEPT !.app = TRUE, !.src = new]
        /\ job' = [job EXCEPT !.at = "record"]
        /\ UNCHANGED <<tree, digest, ip_repo, pl_dir, doubtful, disturbances>>
    BY DEF VitisApplication
  <1>2. job.stage = "ps" /\ c \in Cores
    BY <1>1, JobStates DEF IInv, JobShape, Running, Idle
  <1>3. /\ DOMAIN job' = JobFields /\ job'.stage = "ps" /\ job'.at = "record"
        /\ job'.core = c /\ job'.board = job.board /\ job'.quiet = job.quiet
        /\ job'.hash = job.hash
    BY <1>1, <1>2 DEF IInv, JobShape, JobFields
  <1>4. DOMAIN old = DOMAIN NoFiles /\ DOMAIN new = DOMAIN NoFiles
    BY DEF IInv, StoreShape
  <1>5. DOMAIN files \subseteq DOMAIN NoFiles
    BY DEF IInv, StoreShape, Sources, NoFiles
  <1>6. \A f \in DOMAIN files : new[f] = files[f]
    BY <1>4, <1>5
  <1> HIDE DEF new, old
  <1>7. /\ workspace'.platform = workspace.platform /\ workspace'.src = new
        /\ DOMAIN workspace' = {"platform", "app", "src"}
    BY <1>1 DEF IInv, StoreShape
  <1>8. StoreShape' /\ History'
    BY <1>1, <1>4, <1>7 DEF IInv, StoreShape, History, NoFiles
  <1>9. JobShape'
    BY <1>1, <1>2, <1>3 DEF IInv, JobShape, Idle
  <1>10. IpAgrees' /\ PlAgrees'
    BY <1>1, <1>2, <1>3 DEF IInv, IpAgrees, PlAgrees, IpSettled, PlSettled
  <1>11. IpUnderWay' /\ IpDone' /\ PlUnderWay'
    BY <1>3 DEF IpUnderWay, IpDone, PlUnderWay
  <1>12. PsUnderWay'
    BY <1>1, <1>2, <1>3, <1>6, <1>7 DEF IInv, PsUnderWay, Stage, PlFresh
  <1> QED
    BY <1>8, <1>9, <1>10, <1>11, <1>12 DEF IInv

-----------------------------------------------------------------------------
\* The digest is written that was computed before the tool ran: it is that of
\* the artifact, and of the present sources, or the artifact stays in doubt.
LEMMA RecordStep == ASSUME IInv, Record PROVE IInv'
  <1> DEFINE c == job.core
             n == DigestName(job.stage, c)
  <1>1. /\ job.at = "record"
        /\ digest' = [digest EXCEPT ![n] = job.hash]
        /\ doubtful' = IF job.quiet /\ (job.stage = "pl" => <<"ip", c>> \notin doubtful)
                       THEN doubtful \ {<<job.stage, c>>} ELSE doubtful
        /\ job' = NextStage
        /\ UNCHANGED <<tree, ip_repo, pl_dir, workspace, disturbances>>
    BY DEF Record
  <1>2. /\ Running /\ job.stage \in Stages /\ c \in Cores /\ job.board \in Boards
        /\ job.hash \in HashesOf(job.stage, c)
    BY <1>1, JobStates DEF IInv, JobShape, Running, Idle
  <1>3. /\ JobShape'
        /\ job.stage \in {"ip", "pl"} =>
             /\ job'.stage = IF job.stage = "ip" THEN "pl" ELSE "ps"
             /\ job'.at = "check" /\ job'.core = c /\ job'.board = job.board
             /\ job'.quiet = job.quiet
        /\ job.stage = "ps" => job'.stage = "none"
    BY <1>1, <1>2, NextStageFields DEF IInv
  <1>4. n = IF job.stage = "ip" THEN c ELSE job.stage
    BY <1>2, Names DEF Stages
  <1>5. /\ n \in Cores \cup {"pl", "ps"} /\ DOMAIN digest' = Cores \cup {"pl", "ps"}
        /\ digest'[n] = job.hash
        /\ \A m \in (Cores \cup {"pl", "ps"}) \ {n} : digest'[m] = digest[m]
    BY <1>1, <1>2, <1>4 DEF IInv, StoreShape, Stages
  <1>6. StoreShape'
    <2>1. \A d \in Cores : digest'[d] = NoDigest \/ digest'[d] \in HashesOf("ip", d)
      BY <1>2, <1>4, <1>5, Names DEF IInv, StoreShape, Stages
    <2>2. \A t \in {"pl", "ps"} :
            digest'[t] = NoDigest \/ \E d \in Cores : digest'[t] \in HashesOf(t, d)
      BY <1>2, <1>4, <1>5, Names DEF IInv, StoreShape, Stages
    <2> QED
      BY <1>1, <1>5, <2>1, <2>2 DEF IInv, StoreShape
  <1>7. History'
    BY <1>1 DEF IInv, History
  <1>8. \A t \in {"ip", "pl"} : \A d \in Cores :
          t # job.stage \/ d # c => (<<t, d>> \in doubtful' <=> <<t, d>> \in doubtful)
    BY <1>1
  <1>9. CASE job.stage = "ip"
    <2>1. job.quiet \/ Stage("ip") \notin doubtful' => job.quiet \/ Stage("ip") \notin doubtful
      BY <1>1
    <2>2. job.quiet \/ Stage("ip") \notin doubtful =>
            /\ job.hash = <<tree[c]>> /\ ip_repo[c] = MadeIp(tree[c])
      BY <1>1, <1>9 DEF IInv, IpUnderWay
    <2>3. \A d \in {c} : <<"ip", d>> \notin doubtful' => IpSettled(d)'
      <3> SUFFICES ASSUME NEW d, d = c, <<"ip", c>> \notin doubtful' PROVE IpSettled(d)'
        OBVIOUS
      <3>1. job.quiet \/ <<"ip", c>> \notin doubtful
        BY <1>1
      <3>2. digest'[c] = <<tree[c]>> /\ ip_repo'[c] = MadeIp(tree[c])
        BY <1>1, <1>4, <1>5, <1>9, <2>2, <3>1 DEF Stage
      <3>3. tree[c] \in Contents[c]
        BY <1>2 DEF IInv, StoreShape, Sources
      <3> QED
        BY <3>2, <3>3 DEF IpSettled
    <2>4. \A d \in Cores \ {c} : <<"ip", d>> \notin doubtful' => IpSettled(d)'
      BY <1>1, <1>4, <1>5, <1>8, <1>9 DEF IInv, IpAgrees, IpSettled
    <2>5. IpAgrees'
      BY <2>3, <2>4 DEF IpAgrees
    <2>6. PlAgrees'
      BY <1>1, <1>4, <1>5, <1>8, <1>9, Names, <1>2 DEF IInv, PlAgrees, PlSettled
    <2>7. IpDone'
      BY <1>1, <1>3, <1>8, <1>9, <1>2, <2>2 DEF IpDone, Stage
    <2>8. IpUnderWay' /\ PlUnderWay' /\ PsUnderWay'
      BY <1>3, <1>9 DEF IpUnderWay, PlUnderWay, PsUnderWay
    <2> QED
      BY <1>3, <1>6, <1>7, <2>5, <2>6, <2>7, <2>8 DEF IInv
  <1>10. CASE job.stage = "pl"
    <2>1. IpAgrees'
      BY <1>1, <1>4, <1>5, <1>8, <1>10, Names DEF IInv, IpAgrees, IpSettled
    <2>2. \/ Stage("pl") \notin doubtful
          \/ job.quiet /\ Stage("ip") \notin doubtful
          => job.hash = <<tree["scripts"], tree[c]>> /\ pl_dir[c] = PlFresh
      BY <1>1, <1>10 DEF IInv, PlUnderWay
    <2>3. \A d \in {c} : <<"pl", d>> \notin doubtful' => PlSettled(d)'
      <3> SUFFICES ASSUME NEW d, d = c, <<"pl", c>> \notin doubtful' PROVE PlSettled(d)'
        OBVIOUS
      <3>1. job.hash = <<tree["scripts"], tree[c]>> /\ pl_dir[c] = PlFresh
        BY <1>1, <1>10, <2>2 DEF Stage
      <3>2. digest'["pl"] = <<tree["scripts"], tree[c]>>
        BY <1>4, <1>5, <1>10, <3>1
      <3>3. \A s, h : digest'["pl"] = <<s, h>> => s = tree["scripts"] /\ h = tree[c]
        BY <3>2
      <3>4. pl_dir'[c] = MadePl(tree["scripts"], tree[c], job.board)
        BY <1>1, <3>1 DEF PlFresh
      <3> QED
        BY <1>2, <3>3, <3>4 DEF PlSettled
    <2>4. \A d \in Cores \ {c} : \A s \in Contents["scripts"], h \in Contents[d] :
            digest'["pl"] # <<s, h>>
      <3> SUFFICES ASSUME NEW d \in Cores \ {c}, NEW s \in Contents["scripts"],
                          NEW h \in Contents[d], digest'["pl"] = <<s, h>>
                   PROVE  FALSE
        OBVIOUS
      <3>1. <<s, h>> \in HashesOf("pl", c)
        BY <1>2, <1>4, <1>5, <1>10
      <3>2. h \in Contents[c]
        BY <3>1 DEF HashesOf
      <3> QED
        BY <1>2, <3>2, BuildAssumption
    <2>5. PlAgrees'
      <3>1. \A d \in Cores \ {c} : PlSettled(d)'
        BY <2>4 DEF PlSettled
      <3> QED
        BY <2>3, <3>1 DEF PlAgrees
    <2>6. PsUnderWay'
      <3> SUFFICES ASSUME job.quiet, {Stage("ip"), Stage("pl")}' \cap doubtful' = {}
                   PROVE  (pl_dir[job.core] = PlFresh)'
        BY <1>3, <1>10 DEF PsUnderWay
      <3>1. Stage("ip") \notin doubtful
        BY <1>2, <1>3, <1>8, <1>10 DEF Stage
      <3> QED
        BY <1>1, <1>3, <1>10, <2>2, <3>1 DEF PlFresh
    <2>7. IpUnderWay' /\ IpDone' /\ PlUnderWay'
      BY <1>3, <1>10 DEF IpUnderWay, IpDone, PlUnderWay
    <2> QED
      BY <1>3, <1>6, <1>7, <2>1, <2>5, <2>6, <2>7 DEF IInv
  <1>11. CASE job.stage = "ps"
    <2>1. IpAgrees' /\ PlAgrees'
      BY <1>1, <1>4, <1>5, <1>8, <1>11, Names DEF IInv, IpAgrees, IpSettled, PlAgrees, PlSettled
    <2>2. IpUnderWay' /\ IpDone' /\ PlUnderWay' /\ PsUnderWay'
      BY <1>3, <1>11 DEF IpUnderWay, IpDone, PlUnderWay, PsUnderWay
    <2> QED
      BY <1>3, <1>6, <1>7, <2>1, <2>2 DEF IInv
  <1> QED
    BY <1>2, <1>9, <1>10, <1>11 DEF Stages

\* A build that fails, or is interrupted, leaves what it was making in doubt.
LEMMA AbortStep == ASSUME IInv, Abort PROVE IInv'
  <1> DEFINE c == job.core
             torn == {a \in {"ip", "pl"} \X Cores : a = <<job.stage, c>> /\ job.at # "check"}
             n == DigestName(job.stage, c)
  <1>1. Running /\ job' = Idle /\ Disturb(torn) /\ tree' = tree
    BY DEF Abort
  <1>2. /\ job.stage \in Stages /\ c \in Cores
        /\ job.at \in {"check", "tool", "application", "record"}
        /\ job.at = "application" => job.stage = "ps"
    BY <1>1, JobStates DEF IInv, JobShape, Running, Idle
  <1>3. doubtful' = doubtful \cup torn
    BY <1>1 DEF Disturb
  <1>4. JobShape' /\ History'
    <2>1. JobShape'
      BY <1>1 DEF JobShape, JobFields, Idle
    <2> QED
      BY <1>1, <1>3, <2>1, BuildAssumption DEF IInv, History, Disturb
  <1>5. n = (IF job.stage = "ip" THEN c ELSE job.stage) /\ n \in DOMAIN digest
    BY <1>2, Names DEF Stages, IInv, StoreShape
  <1>6. /\ \A d \in Cores : ip_repo'[d] # ip_repo[d] =>
             job.stage = "ip" /\ job.at = "tool" /\ d = c /\ ip_repo'[d].state = "torn"
        /\ \A d \in Cores : pl_dir'[d] # pl_dir[d] =>
             job.stage = "pl" /\ job.at = "tool" /\ d = c /\ pl_dir'[d].state = "torn"
        /\ \A m \in DOMAIN digest : digest'[m] # digest[m] =>
             job.at = "record" /\ m = n /\ digest'[m] = NoDigest
        /\ DOMAIN ip_repo' = Cores /\ DOMAIN pl_dir' = Cores /\ DOMAIN digest' = DOMAIN digest
        /\ \/ workspace' = workspace
           \/ workspace' = [workspace EXCEPT !.platform = TornPl]
           \/ workspace' = [workspace EXCEPT !.app = TRUE]
    <2>0. StoreShape
      BY DEF IInv
    <2>1. CASE /\ job.at = "record"
               /\ digest' \in {digest, [digest EXCEPT ![n] = NoDigest]}
               /\ UNCHANGED <<ip_repo, pl_dir, workspace>>
      BY <2>0, <2>1, <1>5 DEF StoreShape
    <2>2. CASE /\ job.at = "tool" /\ job.stage = "ip"
               /\ ip_repo' \in {ip_repo, [ip_repo EXCEPT ![c] = TornIp]}
               /\ UNCHANGED <<digest, pl_dir, workspace>>
      <3>1. TornIp.state = "torn"
        BY DEF TornIp, IpMissing
      <3> QED
        BY <1>2, <2>0, <2>2, <3>1 DEF StoreShape
    <2>3. CASE /\ job.at = "tool" /\ job.stage = "pl"
               /\ pl_dir' \in {pl_dir, [pl_dir EXCEPT ![c] = TornPl]}
               /\ UNCHANGED <<digest, ip_repo, workspace>>
      <3>1. TornPl.state = "torn"
        BY DEF TornPl, PlMissing
      <3> QED
        BY <1>2, <2>0, <2>3, <3>1 DEF StoreShape
    <2>4. CASE /\ job.at = "tool" /\ job.stage = "ps"
               /\ workspace' \in {workspace, [workspace EXCEPT !.platform = TornPl]}
               /\ UNCHANGED <<digest, ip_repo, pl_dir>>
      BY <2>0, <2>4 DEF StoreShape
    <2>5. CASE /\ job.at = "application"
               /\ workspace' \in {workspace, [workspace EXCEPT !.app = TRUE]}
               /\ UNCHANGED <<digest, ip_repo, pl_dir>>
      BY <2>0, <2>5 DEF StoreShape
    <2>6. CASE job.at = "check" /\ UNCHANGED <<digest, ip_repo, pl_dir, workspace>>
      BY <2>0, <2>6 DEF StoreShape
    <2> QED
      BY <2>1, <2>2, <2>3, <2>4, <2>5, <2>6 DEF Abort
  <1>7. /\ DOMAIN workspace' = {"platform", "app", "src"}
        /\ workspace'.platform.state \in MadeStates /\ DOMAIN workspace'.src = DOMAIN NoFiles
    <2>1. TornPl.state = "torn"
      BY DEF TornPl, PlMissing
    <2> QED
      BY <1>6, <2>1 DEF IInv, StoreShape, MadeStates
  <1>8. StoreShape'
    <2>1. \A d \in Cores : ip_repo'[d].state \in MadeStates /\ pl_dir'[d].state \in MadeStates
      BY <1>6 DEF IInv, StoreShape, MadeStates
    <2>2. \A d \in Cores : digest'[d] = NoDigest \/ digest'[d] \in HashesOf("ip", d)
      BY <1>6 DEF IInv, StoreShape
    <2>3. \A t \in {"pl", "ps"} :
            digest'[t] = NoDigest \/ \E d \in Cores : digest'[t] \in HashesOf(t, d)
      BY <1>6 DEF IInv, StoreShape
    <2> QED
      BY <1>1, <1>6, <1>7, <2>1, <2>2, <2>3 DEF IInv, StoreShape
  <1>9. job.at # "check" /\ job.stage \in {"ip", "pl"} => <<job.stage, c>> \in doubtful'
    BY <1>2, <1>3
  <1>10. IpAgrees'
    <2> SUFFICES ASSUME NEW d \in Cores, <<"ip", d>> \notin doubtful' PROVE IpSettled(d)'
      BY DEF IpAgrees
    <2>1. ~(job.stage = "ip" /\ job.at # "check" /\ d = c) /\ <<"ip", d>> \notin doubtful
      BY <1>3, <1>9
    <2>2. IpSettled(d)
      BY <2>1 DEF IInv, IpAgrees
    <2>3. ip_repo'[d] = ip_repo[d]
      BY <1>6, <2>1
    <2>4. digest'[d] = digest[d]
      BY <1>2, <1>5, <1>6, <2>1, Names DEF IInv, StoreShape, Stages
    <2> QED
      BY <2>2, <2>3, <2>4 DEF IpSettled
  <1>11. PlAgrees'
    <2> SUFFICES ASSUME NEW d \in Cores, <<"pl", d>> \notin doubtful' PROVE PlSettled(d)'
      BY DEF PlAgrees
    <2>1. ~(job.stage = "pl" /\ job.at # "check" /\ d = c) /\ <<"pl", d>> \notin doubtful
      BY <1>3, <1>9
    <2>2. PlSettled(d)
      BY <2>1 DEF IInv, PlAgrees
    <2>3. pl_dir'[d] = pl_dir[d]
      BY <1>6, <2>1
    <2>4. digest'["pl"] = digest["pl"] \/ digest'["pl"] = NoDigest
      BY <1>6 DEF IInv, StoreShape
    <2>5. \A s, h : <<s, h>> # NoDigest
      BY DEF NoDigest
    <2> QED
      BY <2>2, <2>3, <2>4, <2>5 DEF PlSettled
  <1>12. IpUnderWay' /\ IpDone' /\ PlUnderWay' /\ PsUnderWay'
    BY <1>1 DEF IpUnderWay, IpDone, PlUnderWay, PsUnderWay, Idle
  <1> QED
    BY <1>4, <1>8, <1>10, <1>11, <1>12 DEF IInv

-----------------------------------------------------------------------------
\* Nothing has been built, so nothing disagrees.
LEMMA BuildInitIInv == BuildInit => IInv
  <1> SUFFICES ASSUME BuildInit PROVE IInv
    OBVIOUS
  <1>1. /\ \A c \in Cores : /\ ip_repo[c].state = "missing" /\ pl_dir[c].state = "missing"
                            /\ digest[c] = NoDigest
        /\ digest["pl"] = NoDigest /\ digest["ps"] = NoDigest
    BY DEF BuildInit, IpMissing, PlMissing
  <1>2. StoreShape
    BY <1>1 DEF BuildInit, StoreShape, MadeStates, NoWorkspace, PlMissing
  <1>3. JobShape /\ job.stage = "none"
    BY DEF BuildInit, JobShape, JobFields, Idle
  <1>4. History
    BY BuildAssumption DEF BuildInit, History
  <1>5. IpAgrees /\ PlAgrees
    BY <1>1 DEF IpAgrees, PlAgrees, IpSettled, PlSettled
  <1>6. IpUnderWay /\ IpDone /\ PlUnderWay /\ PsUnderWay
    BY <1>3, IdleKnowsNothing
  <1> QED
    BY <1>2, <1>3, <1>4, <1>5, <1>6 DEF IInv

\* Every step keeps the invariant.
LEMMA BuildStepIInv == IInv /\ [Next]_build_vars => IInv'
  <1> SUFFICES ASSUME IInv, [Next]_build_vars PROVE IInv'
    OBVIOUS
  <1>1. CASE LaunchHardware
    BY <1>1, LaunchTyped, BeginStep
  <1>2. CASE BuildStep
    BY <1>2, SkipStep, OutdatedStep, RecordStep, PackageStep, BuildPlStep, PlatformStep,
       ApplicationStep DEF BuildStep, ToolStep
  <1>3. CASE Abort
    BY <1>3, AbortStep
  <1>4. CASE Developer
    BY <1>4, EditStep, RemoveStep DEF Developer
  <1>5. CASE UNCHANGED build_vars
    BY <1>5 DEF build_vars, IInv, StoreShape, JobShape, History, IpAgrees, PlAgrees, IpSettled,
                PlSettled, IpUnderWay, IpDone, PlUnderWay, PsUnderWay, Stage, PlFresh
  <1> QED
    BY <1>1, <1>2, <1>3, <1>4, <1>5 DEF Next

\* The invariant holds throughout.
LEMMA BuildInvariant == Spec => []IInv
  BY BuildInitIInv, BuildStepIInv, PTL DEF Spec

\* BuildTypeOK: digests have the parts of their stage, artifacts are missing, torn
\* or made, and a job is in one of the places of generic_design.build.
THEOREM BuildTypeCorrect == Spec => []BuildTypeOK
  <1>1. IInv => BuildTypeOK
    <2> SUFFICES ASSUME IInv PROVE BuildTypeOK
      OBVIOUS
    <2>1. \A c \in Cores : digest[c] = NoDigest \/ digest[c] \in {<<x>> : x \in Contents[c]}
      <3>1. \A c \in Cores : HashesOf("ip", c) = {<<x>> : x \in Contents[c]}
        BY DEF HashesOf
      <3> QED
        BY <3>1 DEF IInv, StoreShape
    <2>2. /\ \A c \in Cores : \A h \in HashesOf("pl", c) : Len(h) = 2
          /\ \A c \in Cores : \A h \in HashesOf("ps", c) : Len(h) = 3
      BY DEF HashesOf
    <2>3. Len(digest["pl"]) \in {0, 2} /\ Len(digest["ps"]) \in {0, 3}
      BY <2>2 DEF IInv, StoreShape, NoDigest
    <2> QED
      BY <2>1, <2>3 DEF IInv, StoreShape, JobShape, History, MadeStates, Stages, BuildTypeOK
  <1> QED
    BY <1>1, BuildInvariant, PTL

\* A stage that generic_design.build skips as up to date was made from the present
\* sources, unless a disturbance threw doubt on it.
THEOREM SkipsFresh == ASSUME OneBoard PROVE Spec => SkipsAreFresh
  <1>1. IInv /\ Skip => Stage(job.stage) \in doubtful \/ IsFresh(job.stage)
    <2> SUFFICES ASSUME IInv, Skip, Stage(job.stage) \notin doubtful PROVE IsFresh(job.stage)
      OBVIOUS
    <2>1. CASE job.stage = "ip"
      BY <2>1, SkipFresh DEF IsFresh, FreshIp, MadeIp
    <2>2. CASE job.stage = "pl"
      <3>1. PICK b \in Boards : pl_dir[job.core] = MadePl(tree["scripts"], tree[job.core], b)
        BY <2>2, SkipFresh
      <3>2. b = job.board
        BY SkipFresh DEF OneBoard
      <3> QED
        BY <2>2, <3>1, <3>2 DEF IsFresh, FreshPl, FreshIp, MadePl, MadeIp
    <2> QED
      BY <2>1, <2>2, SkipFresh
  <1> QED
    BY <1>1, BuildInvariant, PTL DEF SkipsAreFresh

\* A packaged IP core is not built again while it is what the present sources make.
THEOREM FreshIpsAreKept == Spec => FreshIpIsNotRebuilt
  <1>1. IInv /\ Outdated /\ job.stage = "ip" => Stage("ip") \in doubtful \/ ~IsFresh("ip")
    <2> SUFFICES ASSUME IInv, Outdated, job.stage = "ip", Stage("ip") \notin doubtful,
                        ip_repo[job.core] = MadeIp(tree[job.core])
                 PROVE  FALSE
      BY DEF IsFresh, FreshIp, MadeIp
    <2> DEFINE c == job.core
    <2>1. job.at = "check" /\ ~up_to_date("ip", c)
      BY DEF Outdated
    <2>2. c \in Cores
      BY JobStates DEF IInv, Stages
    <2>3. IpSettled(c)
      BY <2>1, <2>2 DEF IInv, IpAgrees, Stage
    <2>4. ip_repo[c].state = "made" /\ ip_repo[c].hdl = tree[c]
      BY DEF MadeIp
    <2>5. PICK h \in Contents[c] : ip_repo[c] = MadeIp(h) /\ digest[c] = <<h>>
      BY <2>3, <2>4 DEF IpSettled
    <2>6. h = tree[c]
      BY <2>4, <2>5 DEF MadeIp
    <2>7. up_to_date("ip", c)
      BY <2>2, <2>4, <2>5, <2>6, Names, HashForms DEF up_to_date, artifacts_exist, ip_exists
    <2> QED
      BY <2>1, <2>7
  <1> QED
    BY <1>1, BuildInvariant, PTL DEF FreshIpIsNotRebuilt

\* A build that nothing disturbed ends with an ELF of the present firmware on the
\* present hardware, whatever the workspace held before.
THEOREM CompletedFresh == ASSUME OneBoard PROVE Spec => CompletedBuildIsFresh
  <1>1. IInv /\ Record /\ job.stage = "ps" /\ job.quiet
        /\ {Stage("ip"), Stage("pl")} \cap doubtful = {}
        => /\ workspace.platform = FreshPl(job.core, job.board)
           /\ LET files == FirmwareFiles[tree["firmware"]]
              IN \A f \in DOMAIN files : workspace.src[f] = files[f]
    <2>1. FreshPl(job.core, job.board) = PlFresh
      BY DEF FreshPl, FreshIp, PlFresh, MadePl, MadeIp
    <2> QED
      BY <2>1 DEF IInv, PsUnderWay, Record
  <1> QED
    BY <1>1, BuildInvariant, PTL DEF CompletedBuildIsFresh
=============================================================================
