--------------------------- MODULE WorkerLinkProofs ---------------------------
(***************************************************************************)
(* Theorems about the link, for every program, memory and words of a       *)
(* test case, and every sequence of sessions that end, fail, time out or   *)
(* are killed, over a worker that may restart at any time: one reply comes *)
(* back for one command, FAULT_MEM of a shipped script meets no running    *)
(* core, no value is taken for another, a test case starts from what its   *)
(* set-up wrote, and what it reports is what differs.                      *)
(*                                                                         *)
(* OneReplyPerCommand is inductive once the lines are known to be finite   *)
(* sequences and the session and the firmware's loop to be in one of their *)
(* states.  Each action then moves one line (an answer, a fault that is    *)
(* half done), adds one (a command), takes one (a reply) or leaves the     *)
(* count alone, and says which in the session's state.  The others need    *)
(* what a shipped script is made of (WellMade, SetsUpSo, ComparesSo) and   *)
(* where in its script a session stands (Following).                       *)
(***************************************************************************)
EXTENDS WorkerLink, SequenceTheorems, TLAPS

-----------------------------------------------------------------------------
(***************************************************************************)
(* Lines of messages of any kind: a sequence over its own elements.        *)
(***************************************************************************)
IsLine(s) == s \in Seq({s[i] : i \in DOMAIN s})

\* A line has a length.
LEMMA LineLen == ASSUME NEW s, IsLine(s) PROVE Len(s) \in Nat /\ DOMAIN s = 1 .. Len(s)
  BY LenProperties DEF IsLine

\* Every sequence over any set is a line.
LEMMA LineOfSeq ==
  ASSUME NEW S, NEW s \in Seq(S)
  PROVE  IsLine(s)
  <1> DEFINE n == Len(s)
             R == {s[i] : i \in DOMAIN s}
  <1>1. n \in Nat /\ s \in [1 .. n -> S] /\ DOMAIN s = 1 .. n
    BY LenProperties
  <1>2. \A i \in 1 .. n : s[i] \in R
    BY <1>1
  <1>3. SubSeq(s, 1, n) \in Seq(R)
    BY <1>1, <1>2, SubSeqProperties
  <1>4. SubSeq(s, 1, n) = s
    BY SubSeqFull
  <1> QED
    BY <1>3, <1>4 DEF IsLine

\* The same, for the set to be found by the prover.
LEMMA EveryLine == \A S : \A s \in Seq(S) : IsLine(s)
  BY LineOfSeq

\* A command is written, an answer is sent.
LEMMA AppendLine ==
  ASSUME NEW s, IsLine(s), NEW e
  PROVE  IsLine(Append(s, e)) /\ Len(Append(s, e)) = Len(s) + 1
  <1> DEFINE R == {s[i] : i \in DOMAIN s}
             S == R \cup {e}
  <1>1. s \in Seq(R)
    BY DEF IsLine
  <1>2. s \in Seq(S) /\ e \in S
    <2>1. R \subseteq S
      OBVIOUS
    <2> HIDE DEF R, S
    <2>2. s \in Seq(S)
      BY <1>1, <2>1, SeqMonotonic
    <2> QED
      BY <2>2 DEF S
  <1> HIDE DEF S
  <1>3. Append(s, e) \in Seq(S) /\ Len(Append(s, e)) = Len(s) + 1
    BY <1>2, AppendProperties
  <1>4. IsLine(Append(s, e))
    BY <1>3, EveryLine, Zenon
  <1> QED
    BY <1>3, <1>4

\* A line is read.
LEMMA TailLine ==
  ASSUME NEW s, IsLine(s), s # <<>>
  PROVE  IsLine(Tail(s)) /\ Len(Tail(s)) = Len(s) - 1 /\ Len(s) > 0
  <1> DEFINE R == {s[i] : i \in DOMAIN s}
  <1>1. s \in Seq(R)
    BY DEF IsLine
  <1> HIDE DEF R
  <1>2. Tail(s) \in Seq(R) /\ Len(Tail(s)) = Len(s) - 1
    BY <1>1, HeadTailProperties
  <1>3. Len(s) > 0
    BY <1>1, EmptySeq, LenProperties
  <1>4. IsLine(Tail(s))
    BY <1>2, EveryLine, Zenon
  <1> QED
    BY <1>2, <1>3, <1>4

\* reset_input_buffer discards the first k lines.
LEMMA DropLine ==
  ASSUME NEW s, IsLine(s), NEW k \in 0 .. Len(s)
  PROVE  IsLine(SubSeq(s, k + 1, Len(s))) /\ Len(SubSeq(s, k + 1, Len(s))) = Len(s) - k
  <1> DEFINE R == {s[i] : i \in DOMAIN s}
             d == SubSeq(s, k + 1, Len(s))
  <1>1. Len(s) \in Nat /\ DOMAIN s = 1 .. Len(s)
    BY LineLen
  <1>2. \A i \in (k + 1) .. Len(s) : s[i] \in R
    BY <1>1
  <1> HIDE DEF R
  <1>3. /\ d \in Seq(R)
        /\ Len(d) = IF k + 1 <= Len(s) THEN Len(s) - (k + 1) + 1 ELSE 0
    BY <1>1, <1>2, SubSeqProperties
  <1> HIDE DEF d
  <1>4. IsLine(d)
    BY <1>3, EveryLine, Zenon
  <1>5. Len(d) = Len(s) - k
    <2> DEFINE n == Len(s)
               m == Len(d)
    <2>1. n \in Nat /\ k \in 0 .. n /\ m = IF k + 1 <= n THEN n - (k + 1) + 1 ELSE 0
      BY <1>1, <1>3
    <2> HIDE DEF n, m
    <2>2. m = n - k
      BY <2>1
    <2> QED
      BY <2>2 DEF n, m
  <1> QED
    BY <1>4, <1>5 DEF d

\* The end of a session leaves as many lines as there were.
LEMMA DisownedLine ==
  ASSUME NEW s, IsLine(s)
  PROVE  IsLine(Pc!Disowned(s)) /\ Len(Pc!Disowned(s)) = Len(s)
  <1> DEFINE n == Len(s)
             d == Pc!Disowned(s)
             R == {d[i] : i \in 1 .. n}
  <1>1. n \in Nat /\ DOMAIN s = 1 .. n
    BY LineLen
  <1>2. d = [i \in 1 .. n |-> d[i]]
    BY <1>1 DEF Pc!Disowned
  <1>3. \A i \in 1 .. n : d[i] \in R
    OBVIOUS
  <1> HIDE DEF d, R, n
  <1>4. d \in [1 .. n -> R]
    BY <1>2, <1>3
  <1>5. d \in Seq(R)
    BY <1>1, <1>4
  <1>6. Len(d) = n
    BY <1>1, <1>4, <1>5, LenProperties
  <1>7. IsLine(d)
    BY <1>5, EveryLine, Zenon
  <1> QED
    BY <1>6, <1>7 DEF d, n

-----------------------------------------------------------------------------
\* The inductive invariant.
SessionFields ==
  {"at", "script", "i", "call", "pc", "steps", "reported", "leftover", "rebooted"}

Shape ==
  /\ IsLine(to_worker) /\ IsLine(to_pc)
  /\ DOMAIN session = SessionFields
  /\ session.at \in {"closed", "ready", "waiting", "done"}
  /\ session.leftover \in Nat
  /\ DOMAIN fw = {"at", "line", "current"}
  /\ fw.at \in {"readline", "fault_mem", "aborted"}

LinkInv == Shape /\ OneReplyPerCommand

\* Arithmetic on the three lengths: a command becomes a reply.
LEMMA Moved ==
  ASSUME NEW a \in Nat, NEW b \in Nat, NEW p, NEW c, NEW d,
         c = a - 1, d = b + 1, p = 0
  PROVE  c + p + d = a + p + b
  OBVIOUS

\* A reply is taken from the last of them.
LEMMA Taken ==
  ASSUME NEW a \in Nat, NEW p \in Nat, NEW b \in Nat, NEW c, c = b - 1
  PROVE  a + p + c = (a + p + b) - 1
  OBVIOUS

-----------------------------------------------------------------------------
\* It holds when the worker has started and no session is open.
LEMMA InitLink == Init => LinkInv
  <1>1. IsLine(<<>>)
    BY EmptySeq, EveryLine, Zenon
  <1>2. ASSUME Init PROVE LinkInv
    BY <1>1, <1>2 DEF Init, LineInit, FirmwareInit, Reading, NoLine, Pc!Closed,
      LinkInv, Shape, OneReplyPerCommand, SessionFields
  <1> QED
    BY <1>2

-----------------------------------------------------------------------------
\* The session stays: what is under way moves, or stays.
LEMMA MovedOn ==
  ASSUME LinkInv, Shape', UnderWay' = UnderWay, UNCHANGED session,
         fw'.at = "aborted" \/ fw.at # "aborted"
  PROVE  LinkInv'
  BY DEF LinkInv, OneReplyPerCommand

\* A command that is answered at once is a reply instead.
LEMMA Answered ==
  ASSUME LinkInv, UNCHANGED session, to_worker # <<>>, fw.at = "readline",
         NEW kind, NEW value, Answer(kind, value)
  PROVE  LinkInv'
  <1>1. /\ IsLine(to_worker') /\ Len(to_worker') = Len(to_worker) - 1
        /\ IsLine(to_pc') /\ Len(to_pc') = Len(to_pc) + 1
    BY TailLine, AppendLine DEF LinkInv, Shape, Answer
  <1>2. Shape'
    BY <1>1 DEF LinkInv, Shape, Answer
  <1>3. Len(to_worker) \in Nat /\ Len(to_pc) \in Nat
    BY LineLen DEF LinkInv, Shape
  <1>4. Pending = 0 /\ Pending' = 0
    BY DEF Pending, Answer
  <1>5. UnderWay' = UnderWay
    BY <1>1, <1>3, <1>4, Moved DEF UnderWay
  <1> QED
    BY <1>2, <1>5, MovedOn DEF Answer

\* FAULT_MEM between its two transfers, and a data abort, whose command has no answer.
LEMMA CommandTaken ==
  ASSUME LinkInv, UNCHANGED <<session, to_pc>>, to_worker # <<>>, fw.at = "readline",
         to_worker' = Tail(to_worker), DOMAIN fw' = {"at", "line", "current"},
         fw'.at \in {"fault_mem", "aborted"}
  PROVE  LinkInv'
  <1>1. IsLine(to_worker') /\ Len(to_worker') = Len(to_worker) - 1
    BY TailLine DEF LinkInv, Shape
  <1>2. Shape'
    BY <1>1 DEF LinkInv, Shape
  <1>3. CASE fw'.at = "aborted"
    BY <1>2, <1>3 DEF LinkInv, OneReplyPerCommand
  <1>4. CASE fw'.at = "fault_mem"
    <2>1. Len(to_worker) \in Nat /\ Len(to_pc) \in Nat
      BY LineLen DEF LinkInv, Shape
    <2>2. UnderWay' = UnderWay
      BY <1>1, <1>4, <2>1 DEF UnderWay, Pending
    <2> QED
      BY <1>2, <2>2, MovedOn
  <1> QED
    BY <1>3, <1>4

\* The second transfer of FAULT_MEM, and its answer.
LEMMA FaultWritten ==
  ASSUME LinkInv, UNCHANGED session, FAULT_MEM_Write
  PROVE  LinkInv'
  <1>1. IsLine(to_pc') /\ Len(to_pc') = Len(to_pc) + 1
    BY AppendLine DEF LinkInv, Shape, FAULT_MEM_Write
  <1>2. fw.at = "fault_mem" /\ fw'.at = "readline" /\ UNCHANGED to_worker
    BY DEF FAULT_MEM_Write, Reading
  <1>3. Shape'
    BY <1>1, <1>2 DEF LinkInv, Shape, FAULT_MEM_Write, Reading
  <1>4. Len(to_worker) \in Nat /\ Len(to_pc) \in Nat
    BY LineLen DEF LinkInv, Shape
  <1>5. UnderWay' = UnderWay
    BY <1>1, <1>2, <1>4 DEF UnderWay, Pending
  <1> QED
    BY <1>2, <1>3, <1>5, MovedOn

\* Every command of the firmware's loop.
LEMMA FirmwareKeeps ==
  ASSUME LinkInv, UNCHANGED session, FirmwareStep
  PROVE  LinkInv'
  <1>1. CASE Rejected
    BY <1>1, Answered DEF Rejected
  <1>2. CASE PROTOCOL_VERSION
    BY <1>2, Answered DEF PROTOCOL_VERSION, Reads, reply_ok_u32
  <1>3. CASE START
    BY <1>3, Answered DEF START, Reads, reply_ok
  <1>4. CASE STOP
    BY <1>4, Answered DEF STOP, Reads, reply_ok
  <1>5. CASE STEP
    BY <1>5, Answered DEF STEP, Reads, reply_ok
  <1>6. CASE GET_PC
    BY <1>6, Answered DEF GET_PC, Reads, reply_ok_u32
  <1>7. CASE SET_PC
    BY <1>7, Answered DEF SET_PC, Reads, reply_ok
  <1>8. CASE GET_REG
    BY <1>8, Answered DEF GET_REG, Reads, reply_ok_u32
  <1>9. CASE SET_REG
    BY <1>9, Answered DEF SET_REG, Reads, reply_ok
  <1>10. CASE FAULT_REG
    BY <1>10, Answered DEF FAULT_REG, Reads, reply_ok
  <1>11. CASE DataAbort
    <2>1. /\ to_worker # <<>> /\ fw.at = "readline" /\ to_worker' = Tail(to_worker)
          /\ UNCHANGED to_pc /\ fw' = [fw EXCEPT !.at = "aborted"]
      BY <1>11 DEF DataAbort, Aborts, Reads
    <2>2. DOMAIN fw' = {"at", "line", "current"} /\ fw'.at = "aborted"
      BY <2>1 DEF LinkInv, Shape
    <2> QED
      BY <2>1, <2>2, CommandTaken
  <1>12. CASE READ_WORD
    BY <1>12, Answered DEF READ_WORD, Reads, reply_ok_u32
  <1>13. CASE WRITE_WORD
    BY <1>13, Answered DEF WRITE_WORD, Reads, reply_ok
  <1>14. CASE FAULT_MEM_Read
    <2>1. /\ to_worker # <<>> /\ fw.at = "readline" /\ to_worker' = Tail(to_worker)
          /\ UNCHANGED to_pc /\ fw' = [at |-> "fault_mem", line |-> Line, current |-> mem[Arg(1)]]
      BY <1>14 DEF FAULT_MEM_Read, Reads
    <2>2. DOMAIN fw' = {"at", "line", "current"} /\ fw'.at = "fault_mem"
      BY <2>1
    <2> QED
      BY <2>1, <2>2, CommandTaken
  <1>15. CASE FAULT_MEM_Write
    BY <1>15, FaultWritten
  <1> QED
    BY <1>1, <1>2, <1>3, <1>4, <1>5, <1>6, <1>7, <1>8, <1>9, <1>10, <1>11, <1>12, <1>13,
       <1>14, <1>15 DEF FirmwareStep

\* A restart loses the commands: a session that is open knows no count any more.
LEMMA RestartKeeps == ASSUME LinkInv, Restart PROVE LinkInv'
  <1>1. IsLine(<<>>)
    BY EmptySeq, EveryLine, Zenon
  <1>2. /\ session' = [session EXCEPT !.rebooted = session.at # "closed"]
        /\ fw' = Reading /\ to_worker' = <<>> /\ UNCHANGED to_pc
    BY DEF Restart, Reboot
  <1>3. session'.at = session.at /\ session'.rebooted = (session.at # "closed")
        /\ session'.leftover = session.leftover /\ DOMAIN session' = SessionFields
    BY <1>2 DEF LinkInv, Shape, SessionFields
  <1>4. Shape'
    BY <1>1, <1>2, <1>3 DEF LinkInv, Shape, Reading
  <1> QED
    BY <1>3, <1>4 DEF LinkInv, OneReplyPerCommand

-----------------------------------------------------------------------------
\* The session is closed: whatever is left is left to the next one.
LEMMA Closes ==
  ASSUME LinkInv, Pc!Closed = session', IsLine(to_worker'), IsLine(to_pc'),
         fw' = [fw EXCEPT !.line.own = FALSE]
  PROVE  LinkInv'
  <1>1. DOMAIN fw' = DOMAIN fw /\ fw'.at = fw.at
    BY DEF LinkInv, Shape
  <1>2. session'.at = "closed" /\ session'.leftover = 0 /\ DOMAIN session' = SessionFields
    BY DEF Pc!Closed, SessionFields
  <1>3. Shape'
    BY <1>1, <1>2 DEF LinkInv, Shape
  <1> QED
    BY <1>2, <1>3 DEF LinkInv, OneReplyPerCommand

\* Every way out of a session.
LEMMA Raises == ASSUME LinkInv, ClientStep(Pc!Close) PROVE LinkInv'
  <1>1. /\ session' = Pc!Closed
        /\ to_worker' = Pc!Disowned(to_worker) /\ to_pc' = Pc!Disowned(to_pc)
    BY DEF ClientStep, Pc!Close
  <1>2. session'.at = "closed"
    BY <1>1 DEF Pc!Closed
  <1>3. fw' = [fw EXCEPT !.line.own = FALSE]
    BY <1>2 DEF ClientStep
  <1>4. IsLine(to_worker') /\ IsLine(to_pc')
    BY <1>1, DisownedLine DEF LinkInv, Shape
  <1> QED
    BY <1>1, <1>3, <1>4, Closes

\* A new session counts what it finds.
LEMMA OpensKeeps == ASSUME LinkInv, Opens PROVE LinkInv'
  <1>1. PICK arrived \in 0 .. Len(to_pc) :
          LET lines == Len(to_pc) - arrived + Len(to_worker) + Pending IN
          /\ to_pc' = SubSeq(to_pc, arrived + 1, Len(to_pc))
          /\ \E s \in {TestOrder[1], "demo", "faults", "user"} : Pc!Begin(s, lines)
    BY DEF Opens, ClientStep, Pc!Open
  <1>2. Len(to_worker) \in Nat /\ Len(to_pc) \in Nat
    BY LineLen DEF LinkInv, Shape
  <1>3. IsLine(to_pc') /\ Len(to_pc') = Len(to_pc) - arrived
    BY <1>1, DropLine DEF LinkInv, Shape
  <1>4. PICK s : session' = [Pc!Closed EXCEPT !.at = "ready", !.script = s, !.i = 1,
                   !.leftover = Len(to_pc) - arrived + Len(to_worker) + Pending]
    BY <1>1 DEF Pc!Begin
  <1>5. /\ session'.at = "ready" /\ DOMAIN session' = SessionFields
        /\ session'.leftover = Len(to_pc) - arrived + Len(to_worker) + Pending
    BY <1>4 DEF Pc!Closed, SessionFields
  <1>6. UNCHANGED <<to_worker, fw>>
    BY <1>5 DEF Opens, ClientStep, Pc!Open
  <1>7. Pending \in Nat /\ Pending' = Pending
    BY <1>6 DEF Pending
  <1>8. /\ session'.leftover \in Nat
        /\ Len(to_worker') + Pending' + Len(to_pc') = session'.leftover
    BY <1>2, <1>3, <1>5, <1>6, <1>7
  <1>9. Shape'
    BY <1>3, <1>5, <1>6, <1>8 DEF LinkInv, Shape
  <1>10. UnderWay' = session'.leftover + 0
    BY <1>8 DEF UnderWay
  <1> QED
    BY <1>5, <1>9, <1>10 DEF LinkInv, OneReplyPerCommand

\* One command more, and one answer to wait for.
LEMMA SendsKeeps == ASSUME LinkInv, Sends PROVE LinkInv'
  <1>1. PICK c \in Pc!NextCalls :
          IF Pc!CallAllowed(c)
          THEN /\ Pc!WriteLine([cmd |-> c.cmd, args |-> c.args, script |-> session.script, own |-> TRUE])
               /\ session' = [session EXCEPT !.at = "waiting", !.call = c]
               /\ UNCHANGED to_pc
          ELSE Pc!Raise
    BY DEF Sends, ClientStep, Pc!SendCommand
  <1>2. CASE ~Pc!CallAllowed(c)
    <2>1. ClientStep(Pc!Close)
      BY <1>1, <1>2 DEF Sends, ClientStep, Pc!Raise
    <2> QED
      BY <2>1, Raises
  <1>3. CASE Pc!CallAllowed(c)
    <2>1. PICK e : to_worker' = Append(to_worker, e)
      BY <1>1, <1>3 DEF Pc!WriteLine
    <2>2. UNCHANGED to_pc /\ session' = [session EXCEPT !.at = "waiting", !.call = c]
      BY <1>1, <1>3
    <2>3. IsLine(to_worker') /\ Len(to_worker') = Len(to_worker) + 1
      BY <2>1, AppendLine DEF LinkInv, Shape
    <2>4. /\ session'.at = "waiting" /\ session'.leftover = session.leftover
          /\ session'.rebooted = session.rebooted /\ DOMAIN session' = SessionFields
      BY <2>2 DEF LinkInv, Shape, SessionFields
    <2>5. session.at = "ready" /\ UNCHANGED fw
      BY <2>4 DEF Sends, ClientStep, Pc!SendCommand
    <2>6. Shape'
      BY <2>2, <2>3, <2>4, <2>5 DEF LinkInv, Shape
    <2>7. Len(to_worker) \in Nat /\ Len(to_pc) \in Nat /\ Pending \in Nat /\ Pending' = Pending
      BY <2>5, LineLen DEF LinkInv, Shape, Pending
    <2>8. UnderWay' = UnderWay + 1
      BY <2>2, <2>3, <2>7 DEF UnderWay
    <2>9. ~session.rebooted /\ fw.at # "aborted" => UnderWay = session.leftover + 0
      BY <2>5 DEF LinkInv, OneReplyPerCommand
    <2>10. ~session'.rebooted /\ fw'.at # "aborted" => UnderWay' = session'.leftover + 1
      BY <2>4, <2>5, <2>8, <2>9 DEF LinkInv, Shape
    <2> QED
      BY <2>4, <2>6, <2>10 DEF LinkInv, OneReplyPerCommand
  <1> QED
    BY <1>2, <1>3

\* One reply less, and none to wait for; or the reply ends the session.
LEMMA ReceivesKeeps == ASSUME LinkInv, Receives PROVE LinkInv'
  <1> DEFINE r == Head(to_pc)
             ok == Pc!Acceptable(r) /\ (session.call.then = "expect" => r.value = session.call.expected)
  <1>1. session.at = "waiting" /\ to_pc # <<>>
    BY DEF Receives, ClientStep, Pc!Receive
  <1>2. IsLine(Tail(to_pc)) /\ Len(Tail(to_pc)) = Len(to_pc) - 1
    BY <1>1, TailLine DEF LinkInv, Shape
  <1>3. CASE ~ok
    <2>1. /\ session' = Pc!Closed
          /\ to_worker' = Pc!Disowned(to_worker) /\ to_pc' = Pc!Disowned(Tail(to_pc))
      BY <1>3 DEF Receives, ClientStep, Pc!Receive
    <2>2. session'.at = "closed"
      BY <2>1 DEF Pc!Closed
    <2>3. fw' = [fw EXCEPT !.line.own = FALSE]
      BY <2>2 DEF Receives, ClientStep
    <2>4. IsLine(to_worker') /\ IsLine(to_pc')
      BY <1>2, <2>1, DisownedLine DEF LinkInv, Shape
    <2> QED
      BY <2>1, <2>3, <2>4, Closes
  <1>4. CASE ok
    <2>1. session' = Pc!Judge(r.value) /\ to_pc' = Tail(to_pc) /\ UNCHANGED to_worker
      BY <1>4 DEF Receives, ClientStep, Pc!Receive
    <2>2. /\ session'.at \in {"ready", "done"} /\ session'.leftover = session.leftover
          /\ session'.rebooted = session.rebooted /\ DOMAIN session' = SessionFields
      BY <2>1 DEF LinkInv, Shape, SessionFields, Pc!Judge
    <2>3. UNCHANGED fw
      BY <2>2 DEF Receives, ClientStep
    <2>4. Shape'
      BY <1>2, <2>1, <2>2, <2>3 DEF LinkInv, Shape
    <2>5. Len(to_worker) \in Nat /\ Len(to_pc) \in Nat /\ Pending \in Nat /\ Pending' = Pending
      BY <2>3, LineLen DEF LinkInv, Shape, Pending
    <2>6. UnderWay' = UnderWay - 1
      <3>1. Len(to_pc') = Len(to_pc) - 1 /\ Len(to_worker') = Len(to_worker)
        BY <1>2, <2>1
      <3>2. Len(to_worker) + Pending + Len(to_pc') = (Len(to_worker) + Pending + Len(to_pc)) - 1
        BY <2>5, <3>1, Taken
      <3> QED
        BY <2>5, <3>1, <3>2 DEF UnderWay
    <2>7. ~session.rebooted /\ fw.at # "aborted" => UnderWay = session.leftover + 1
      BY <1>1 DEF LinkInv, OneReplyPerCommand
    <2>8. ~session'.rebooted /\ fw'.at # "aborted" => UnderWay' = session'.leftover + 0
      BY <2>2, <2>3, <2>6, <2>7 DEF LinkInv, Shape
    <2> QED
      BY <2>2, <2>4, <2>8 DEF LinkInv, OneReplyPerCommand
  <1> QED
    BY <1>3, <1>4

\* The next test case is in the same session, with nothing sent in between.
LEMMA FinishesKeeps == ASSUME LinkInv, Finishes PROVE LinkInv'
  <1>1. CASE Pc!Raise
    <2>1. ClientStep(Pc!Close)
      BY <1>1 DEF Finishes, ClientStep, Pc!Raise
    <2> QED
      BY <2>1, Raises
  <1>2. CASE ~Pc!Raise
    <2>1. /\ session.at = "done" /\ UNCHANGED <<to_worker, to_pc>>
          /\ \E s : session' = [Pc!Closed EXCEPT !.at = "ready", !.script = s, !.i = 1,
                      !.leftover = session.leftover, !.rebooted = session.rebooted]
      BY <1>2 DEF Finishes, ClientStep, Pc!Finish, line_vars, Pc!line_vars
    <2>2. /\ session'.at = "ready" /\ session'.leftover = session.leftover
          /\ session'.rebooted = session.rebooted /\ DOMAIN session' = SessionFields
      BY <2>1 DEF Pc!Closed, SessionFields
    <2>3. UNCHANGED fw
      BY <2>2 DEF Finishes, ClientStep
    <2>4. Shape'
      BY <2>1, <2>2, <2>3 DEF LinkInv, Shape
    <2>5. UnderWay' = UnderWay
      BY <2>1, <2>3 DEF UnderWay, Pending
    <2> QED
      BY <2>1, <2>2, <2>3, <2>4, <2>5 DEF LinkInv, OneReplyPerCommand
  <1> QED
    BY <1>1, <1>2

-----------------------------------------------------------------------------
\* The core runs and touches no line.
LEMMA StutterKeeps == ASSUME LinkInv, UNCHANGED <<session, to_worker, to_pc, fw>> PROVE LinkInv'
  BY DEF LinkInv, Shape, OneReplyPerCommand, UnderWay, Pending

\* Every step keeps the invariant.
LEMMA NextKeeps == LinkInv /\ [Next]_vars => LinkInv'
  <1> SUFFICES ASSUME LinkInv, [Next]_vars PROVE LinkInv'
    OBVIOUS
  <1>1. CASE Opens
    BY <1>1, OpensKeeps
  <1>2. CASE Sends
    BY <1>2, SendsKeeps
  <1>3. CASE Receives
    BY <1>3, ReceivesKeeps
  <1>4. CASE TimesOut
    <2>1. ClientStep(Pc!Close)
      BY <1>4 DEF TimesOut, ClientStep, Pc!Timeout, Pc!Raise
    <2> QED
      BY <2>1, Raises
  <1>5. CASE Finishes
    BY <1>5, FinishesKeeps
  <1>6. CASE Leaves
    <2>1. ClientStep(Pc!Close)
      BY <1>6 DEF Leaves, ClientStep, Pc!Leave, Pc!Raise
    <2> QED
      BY <2>1, Raises
  <1>7. CASE IsKilled
    <2>1. ClientStep(Pc!Close)
      BY <1>7 DEF IsKilled, ClientStep, Pc!Kill
    <2> QED
      BY <2>1, Raises
  <1>8. CASE WorkerStep
    <2>1. CASE FirmwareStep
      BY <1>8, <2>1, FirmwareKeeps DEF WorkerStep
    <2>2. CASE CoreRuns
      BY <1>8, <2>2, StutterKeeps DEF WorkerStep, CoreRuns, line_vars
    <2> QED
      BY <1>8, <2>1, <2>2 DEF WorkerStep
  <1>9. CASE Restart
    BY <1>9, RestartKeeps
  <1>10. CASE UNCHANGED vars
    BY <1>10, StutterKeeps DEF vars, line_vars
  <1> QED
    BY <1>1, <1>2, <1>3, <1>4, <1>5, <1>6, <1>7, <1>8, <1>9, <1>10 DEF Next

(***************************************************************************)
(* The replies under way are those that were under way when the session    *)
(* was opened, and one more while the client waits for an answer: the      *)
(* command loop of main.c answers every line it takes once, and send of    *)
(* worker_interface.py sends no command before it has taken a line.        *)
(***************************************************************************)
THEOREM RepliesAreCounted == Spec => []OneReplyPerCommand
  <1>1. LinkInv => OneReplyPerCommand
    BY DEF LinkInv
  <1> QED
    BY InitLink, NextKeeps, <1>1, PTL DEF Spec

-----------------------------------------------------------------------------
(***************************************************************************)
(* What the shipped scripts are made of, whatever the programs and the     *)
(* words that they upload and compare.                                     *)
(***************************************************************************)
\* A line that follows another.
LEMMA ConcatLine ==
  ASSUME NEW s, NEW t, IsLine(s), IsLine(t)
  PROVE  /\ IsLine(s \o t) /\ Len(s \o t) = Len(s) + Len(t)
         /\ \A i \in 1 .. Len(s) + Len(t) :
              (s \o t)[i] = IF i <= Len(s) THEN s[i] ELSE t[i - Len(s)]
  <1> DEFINE A == {s[i] : i \in DOMAIN s}
             B == {t[i] : i \in DOMAIN t}
             S == A \cup B
  <1>1. s \in Seq(A) /\ t \in Seq(B)
    BY DEF IsLine
  <1>2. A \subseteq S /\ B \subseteq S
    OBVIOUS
  <1> HIDE DEF A, B, S
  <1>3. s \in Seq(S) /\ t \in Seq(S)
    BY <1>1, <1>2, SeqMonotonic
  <1>4. /\ s \o t \in Seq(S) /\ Len(s \o t) = Len(s) + Len(t)
        /\ \A i \in 1 .. Len(s) + Len(t) :
              (s \o t)[i] = IF i <= Len(s) THEN s[i] ELSE t[i - Len(s)]
    BY <1>3, ConcatProperties
  <1>5. IsLine(s \o t)
    BY <1>4, EveryLine, Zenon
  <1> QED
    BY <1>4, <1>5

\* One call for each register, or for each word.
LEMMA CallPerWord ==
  ASSUME NEW f, NEW n \in Nat, DOMAIN f = 1 .. n, f = [i \in 1 .. n |-> f[i]]
  PROVE  IsLine(f) /\ Len(f) = n
  <1> DEFINE R == {f[i] : i \in 1 .. n}
  <1>1. \A i \in 1 .. n : f[i] \in R
    OBVIOUS
  <1> HIDE DEF R
  <1>2. f \in [1 .. n -> R]
    BY <1>1
  <1>3. f \in Seq(R) /\ Len(f) = n
    BY <1>2, LenProperties
  <1>4. IsLine(f)
    BY <1>3, EveryLine, Zenon
  <1> QED
    BY <1>3, <1>4

\* Calls that are acknowledged, and inject no fault into memory.
AckCmds == {"STOP", "STEP", "SET_PC", "SET_REG", "WRITE_WORD", "FAULT_REG"}
IsAck(c) == c.then = "ack" /\ c.cmd \in AckCmds
Acks(s)  == IsLine(s) /\ \A i \in 1 .. Len(s) : IsAck(s[i])

\* Calls that change no memory on their own and lead to the next call.
IsQuiet(c) ==
  /\ c.cmd \notin {"START", "FAULT_MEM"} /\ c.then \in {"ack", "expect", "report"}
  /\ c.then = "ack" => c.cmd \in AckCmds
Quiet(s)   == IsLine(s) /\ \A i \in 1 .. Len(s) : IsQuiet(s[i])

\* Every acknowledgement is such a call,
LEMMA AckIsQuiet == ASSUME NEW c, IsAck(c) PROVE IsQuiet(c)
  BY DEF IsAck, IsQuiet, AckCmds

\* in any number,
LEMMA AcksAreQuiet == ASSUME NEW s, Acks(s) PROVE Quiet(s)
  BY AckIsQuiet DEF Acks, Quiet

\* and one piece of a script after another is as quiet as the two.
LEMMA ConcatAcks == ASSUME NEW s, NEW t, Acks(s), Acks(t) PROVE Acks(s \o t)
  <1>1. Len(s) \in Nat /\ Len(t) \in Nat
    BY LineLen DEF Acks
  <1>2. \A i \in 1 .. Len(s) + Len(t) : i <= Len(s) \/ i - Len(s) \in 1 .. Len(t)
    BY <1>1
  <1> QED
    BY <1>1, <1>2, ConcatLine DEF Acks

\* The same, for calls that ask for values.
LEMMA ConcatQuiet == ASSUME NEW s, NEW t, Quiet(s), Quiet(t) PROVE Quiet(s \o t)
  <1>1. Len(s) \in Nat /\ Len(t) \in Nat
    BY LineLen DEF Quiet
  <1>2. \A i \in 1 .. Len(s) + Len(t) : i <= Len(s) \/ i - Len(s) \in 1 .. Len(t)
    BY <1>1
  <1> QED
    BY <1>1, <1>2, ConcatLine DEF Quiet

\* The acknowledgements of a call for each register, or for each word.
LEMMA AckPerWord ==
  ASSUME NEW f, NEW n \in Nat, DOMAIN f = 1 .. n, f = [i \in 1 .. n |-> f[i]],
         \A i \in 1 .. n : IsAck(f[i])
  PROVE  Acks(f) /\ Len(f) = n
  BY CallPerWord DEF Acks

\* The same, for calls that ask for values.
LEMMA QuietPerWord ==
  ASSUME NEW f, NEW n \in Nat, DOMAIN f = 1 .. n, f = [i \in 1 .. n |-> f[i]],
         \A i \in 1 .. n : IsQuiet(f[i])
  PROVE  Quiet(f) /\ Len(f) = n
  BY CallPerWord DEF Quiet

\* No call, as upload_words adds when it does not verify.
LEMMA NoCalls == Acks(<<>>)
  <1>1. IsLine(<<>>)
    BY EmptySeq, EveryLine, Zenon
  <1> QED
    BY <1>1 DEF Acks

\* A call alone.
LEMMA OneCall == ASSUME NEW a, IsAck(a) PROVE Acks(<<a>>) /\ Len(<<a>>) = 1
  <1>1. <<a>> \in Seq({a}) /\ Len(<<a>>) = 1 /\ <<a>>[1] = a
    OBVIOUS
  <1>2. IsLine(<<a>>)
    BY <1>1, EveryLine, Zenon
  <1> QED
    BY <1>1, <1>2 DEF Acks

\* Two calls.
LEMMA TwoCalls == ASSUME NEW a, NEW b, IsAck(a), IsAck(b) PROVE Acks(<<a, b>>) /\ Len(<<a, b>>) = 2
  <1>1. <<a, b>> \in Seq({a, b}) /\ Len(<<a, b>>) = 2 /\ <<a, b>>[1] = a /\ <<a, b>>[2] = b
    OBVIOUS
  <1>2. IsLine(<<a, b>>)
    BY <1>1, EveryLine, Zenon
  <1> QED
    BY <1>1, <1>2 DEF Acks

\* upload_words without verification, and with it.
LEMMA Uploads ==
  ASSUME NEW base, NEW words \in Seq(Word)
  PROVE  /\ Acks(Pc!upload_words(base, words, FALSE))
         /\ Len(Pc!upload_words(base, words, FALSE)) = Len(words)
         /\ \A i \in 1 .. Len(words) : Pc!upload_words(base, words, FALSE)[i] =
              Pc!Ack("WRITE_WORD", <<base + 4 * (i - 1), words[i]>>)
         /\ Quiet(Pc!upload_words(base, words, TRUE))
         /\ Len(Pc!upload_words(base, words, TRUE)) = 2 * Len(words)
         /\ \A i \in 1 .. Len(words) : IsAck(Pc!upload_words(base, words, TRUE)[i])
  <1> DEFINE n == Len(words)
             w == [i \in DOMAIN words |-> Pc!Ack("WRITE_WORD", <<base + 4 * (i - 1), words[i]>>)]
             r == [i \in DOMAIN words |->
                     Pc!Expect("READ_WORD", <<base + 4 * (i - 1)>>, words[i])]
  <1>1. n \in Nat /\ DOMAIN words = 1 .. n
    BY LenProperties
  <1>2. /\ Acks(w) /\ Len(w) = n
        /\ \A i \in 1 .. n : w[i] = Pc!Ack("WRITE_WORD", <<base + 4 * (i - 1), words[i]>>)
    <2>3. \A i \in 1 .. n : w[i] = Pc!Ack("WRITE_WORD", <<base + 4 * (i - 1), words[i]>>)
      BY <1>1
    <2>1. \A i \in 1 .. n : IsAck(w[i])
      BY <1>1 DEF IsAck, AckCmds, Pc!Ack, Pc!Call
    <2>2. DOMAIN w = 1 .. n /\ w = [i \in 1 .. n |-> w[i]]
      BY <1>1
    <2> HIDE DEF w
    <2> QED
      BY <1>1, <2>1, <2>2, <2>3, AckPerWord
  <1>3. Quiet(r) /\ Len(r) = n
    <2>1. \A i \in 1 .. n : IsQuiet(r[i])
      BY <1>1 DEF IsQuiet, Pc!Expect, Pc!Call
    <2>2. DOMAIN r = 1 .. n /\ r = [i \in 1 .. n |-> r[i]]
      BY <1>1
    <2> HIDE DEF r
    <2> QED
      BY <1>1, <2>1, <2>2, QuietPerWord
  <1>4. /\ Pc!upload_words(base, words, FALSE) = w \o <<>>
        /\ Pc!upload_words(base, words, TRUE) = w \o r
    BY DEF Pc!upload_words
  <1> HIDE DEF w, r, n
  <1>5. Acks(w \o <<>>) /\ Quiet(w \o r)
    BY <1>2, <1>3, NoCalls, ConcatAcks, ConcatQuiet, AcksAreQuiet
  <1>6. Len(<<>>) = 0
    OBVIOUS
  <1>7. Len(w \o <<>>) = n /\ \A i \in 1 .. n : (w \o <<>>)[i] = w[i]
    <2>1. /\ Len(w \o <<>>) = Len(w) + Len(<<>>)
          /\ \A i \in 1 .. Len(w) + Len(<<>>) :
               (w \o <<>>)[i] = IF i <= Len(w) THEN w[i] ELSE <<>>[i - Len(w)]
      BY <1>2, NoCalls, ConcatLine DEF Acks
    <2>2. Len(w) + Len(<<>>) = n /\ \A i \in 1 .. n : i <= n
      BY <1>1, <1>2, <1>6
    <2> QED
      BY <1>2, <2>1, <2>2
  <1>8. /\ Len(w \o r) = 2 * n
        /\ \A i \in 1 .. n : (w \o r)[i] = w[i]
    <2>1. /\ Len(w \o r) = Len(w) + Len(r)
          /\ \A i \in 1 .. Len(w) + Len(r) : (w \o r)[i] = IF i <= Len(w) THEN w[i] ELSE r[i - Len(w)]
      BY <1>2, <1>3, ConcatLine DEF Acks, Quiet
    <2> QED
      BY <1>1, <1>2, <1>3, <2>1
  <1> QED
    BY <1>2, <1>4, <1>5, <1>7, <1>8 DEF Acks, n

\* The acknowledgements a script begins with.
Lead(s) ==
  CASE s \in Pc!Tests -> Len(Pc!setup_test_case(TestCases[s]))
    [] s = "demo"     -> Len(demo.program)
    [] s = "faults"   -> Len(demo.program) + 3

\* The scripts that stop the core before they depend on what it does not do, and where.
Halting   == Pc!Tests \cup {"faults"}
StopAt(s) == IF s = "faults" THEN Len(demo.program) + 1 ELSE Lead(s) - 1

\* What the i-th call of a script can be.
Fits(s, i, c) ==
  /\ c.then \in {"ack", "expect", "report", "pc", "instr", "again"}
  /\ c.then = "ack" => c.cmd \in AckCmds \cup {"FAULT_MEM"}
  /\ c.then = "again" => i > Lead(s) + 2 /\ c.cmd = "STEP"
  /\ c.cmd # "START"
  /\ c.cmd = "FAULT_MEM" => s = "faults" /\ i > Len(demo.program) + 1
  /\ s = "faults" => c.then \in {"ack", "expect"}
  /\ c.then = "instr" => DOMAIN c = {"cmd", "args", "then", "expected"}

\* A script begins with acknowledgements, and goes on with a value.
WellMade(s, calls) ==
  /\ IsLine(calls) /\ Lead(s) \in Nat /\ Len(calls) > Lead(s)
  /\ \A i \in 1 .. Lead(s) : IsAck(calls[i])
  /\ calls[Lead(s) + 1].then \notin {"ack", "again"}
  /\ \A i \in 1 .. Len(calls) : Fits(s, i, calls[i])
  /\ s \in Halting => StopAt(s) \in 2 .. Lead(s) /\ calls[StopAt(s)].cmd = "STOP"

\* Three calls in a row.
LEMMA ThreeCalls ==
  ASSUME NEW a, NEW b, NEW c
  PROVE  /\ IsLine(<<a, b, c>>) /\ Len(<<a, b, c>>) = 3
         /\ <<a, b, c>>[1] = a /\ <<a, b, c>>[2] = b /\ <<a, b, c>>[3] = c
  <1>1. <<a, b, c>> \in Seq({a, b, c}) /\ Len(<<a, b, c>>) = 3
    OBVIOUS
  <1>2. IsLine(<<a, b, c>>)
    BY <1>1, EveryLine, Zenon
  <1> QED
    BY <1>1, <1>2

\* Quiet calls that follow a line.
LEMMA Followed ==
  ASSUME NEW s, IsLine(s), NEW q, Quiet(q)
  PROVE  /\ IsLine(s \o q) /\ Len(s \o q) \in Nat /\ Len(s \o q) >= Len(s)
         /\ \A i \in 1 .. Len(s) : (s \o q)[i] = s[i]
         /\ \A i \in 1 .. Len(s \o q) : i > Len(s) => IsQuiet((s \o q)[i])
  <1>1. Len(s) \in Nat /\ Len(q) \in Nat
    BY LineLen DEF Quiet
  <1>2. /\ IsLine(s \o q) /\ Len(s \o q) = Len(s) + Len(q)
        /\ \A i \in 1 .. Len(s) + Len(q) :
              (s \o q)[i] = IF i <= Len(s) THEN s[i] ELSE q[i - Len(s)]
    BY ConcatLine DEF Quiet
  <1>3. \A i \in 1 .. Len(s) + Len(q) : i > Len(s) => i - Len(s) \in 1 .. Len(q)
    BY <1>1
  <1>4. \A i \in 1 .. Len(s) + Len(q) : i > Len(s) => IsQuiet((s \o q)[i])
    BY <1>1, <1>2, <1>3 DEF Quiet
  <1> QED
    BY <1>1, <1>2, <1>4

\* A piece of a script behind another: where their calls are.
LEMMA Behind ==
  ASSUME NEW s, NEW t, IsLine(s), IsLine(t)
  PROVE  /\ IsLine(s \o t) /\ Len(s \o t) = Len(s) + Len(t)
         /\ \A i \in 1 .. Len(s) : (s \o t)[i] = s[i]
         /\ \A i \in 1 .. Len(t) : (s \o t)[Len(s) + i] = t[i]
  <1> DEFINE n == Len(s)
             m == Len(t)
  <1>1. n \in Nat /\ m \in Nat
    BY LineLen
  <1>2. /\ IsLine(s \o t) /\ Len(s \o t) = n + m
        /\ \A i \in 1 .. n + m : (s \o t)[i] = IF i <= n THEN s[i] ELSE t[i - n]
    BY ConcatLine
  <1> HIDE DEF n, m
  <1>3. ASSUME NEW i \in 1 .. m
        PROVE  (s \o t)[n + i] = t[i]
    <2>1. n + i \in 1 .. n + m /\ ~(n + i <= n) /\ (n + i) - n = i
      BY <1>1
    <2> QED
      BY <1>2, <2>1
  <1>4. \A i \in 1 .. n : (s \o t)[i] = s[i]
    BY <1>1, <1>2
  <1> QED
    BY <1>2, <1>3, <1>4 DEF n, m

\* Where a test case's calls are: the last call before each part of it.
ClearAt(s)   == 1 + REG_MAX
ProgramAt(s) == ClearAt(s) + Len(TestCases[s].expected_memory)
DataAt(s)    == ProgramAt(s) + Len(TestCases[s].program)
LastAt(s)    == DataAt(s) + Len(TestCases[s].initial_memory)
LoopAt(s)    == LastAt(s) + 2
RegsAt(s)    == LoopAt(s) + 3
WordsAt(s)   == RegsAt(s) + REG_MAX

SetsUpSo(s, c) ==
  LET t == TestCases[s] IN
  /\ c[1] = Pc!Ack("STOP", <<>>)
  /\ \A r \in 1 .. REG_MAX : c[1 + r] = Pc!Ack("SET_REG", <<r, 0>>)
  /\ \A i \in 1 .. Len(t.expected_memory) :
       c[ClearAt(s) + i] = Pc!Ack("WRITE_WORD", <<BRAM_BASE_ADDR + 4 * (i - 1), 0>>)
  /\ \A i \in 1 .. Len(t.program) :
       c[ProgramAt(s) + i] = Pc!Ack("WRITE_WORD", <<boot_addr + 4 * (i - 1), t.program[i]>>)
  /\ \A i \in 1 .. Len(t.initial_memory) :
       c[DataAt(s) + i] = Pc!Ack("WRITE_WORD", <<BRAM_BASE_ADDR + 4 * (i - 1), t.initial_memory[i]>>)
  /\ c[LastAt(s) + 1] = Pc!Ack("STOP", <<>>)
  /\ c[LastAt(s) + 2] = Pc!Ack("SET_PC", <<boot_addr>>)

ComparesSo(s, c) ==
  LET t == TestCases[s] IN
  /\ \A j \in 1 .. 3 : c[LoopAt(s) + j] = Pc!step_loop[j]
  /\ \A r \in 1 .. REG_MAX : c[RegsAt(s) + r] = Pc!Report("GET_REG", <<r>>, t.expected_registers[r])
  /\ \A i \in 1 .. Len(t.expected_memory) :
       c[WordsAt(s) + i] =
         Pc!Report("READ_WORD", <<BRAM_BASE_ADDR + 4 * (i - 1)>>, t.expected_memory[i])

\* The lengths are numbers.
LEMMA Places ==
  ASSUME NEW s \in Pc!Tests
  PROVE  /\ REG_MAX \in Nat \ {0} /\ Regs = 1 .. REG_MAX
         /\ \A l \in {TestCases[s].program, TestCases[s].initial_memory, TestCases[s].expected_memory} :
              l \in Seq(Word) /\ Len(l) \in Nat /\ DOMAIN l = 1 .. Len(l)
         /\ ClearAt(s) \in Nat /\ ProgramAt(s) \in Nat /\ DataAt(s) \in Nat /\ LastAt(s) \in Nat
         /\ LoopAt(s) \in Nat /\ RegsAt(s) \in Nat /\ WordsAt(s) \in Nat
         /\ 1 < ClearAt(s) /\ ClearAt(s) <= ProgramAt(s) /\ ProgramAt(s) <= DataAt(s) /\ DataAt(s) <= LastAt(s)
         /\ ClearAt(s) = 1 + REG_MAX /\ ProgramAt(s) = ClearAt(s) + Len(TestCases[s].expected_memory)
         /\ DataAt(s) = ProgramAt(s) + Len(TestCases[s].program)
         /\ LastAt(s) = DataAt(s) + Len(TestCases[s].initial_memory)
         /\ LoopAt(s) = LastAt(s) + 2 /\ RegsAt(s) = LoopAt(s) + 3 /\ WordsAt(s) = RegsAt(s) + REG_MAX
  <1> DEFINE P == TestCases[s].program
             D == TestCases[s].initial_memory
             E == TestCases[s].expected_memory
  <1>1. REG_MAX \in Nat \ {0} /\ Regs = 1 .. REG_MAX
    BY FirmwareAssumption DEF REG_MAX, Regs
  <1>2. P \in Seq(Word) /\ D \in Seq(Word) /\ E \in Seq(Word)
    BY ScriptAssumption DEF Pc!Tests
  <1>3. \A l \in {P, D, E} : l \in Seq(Word) /\ Len(l) \in Nat /\ DOMAIN l = 1 .. Len(l)
    BY <1>2, LenProperties
  <1>4. Len(P) \in Nat /\ Len(D) \in Nat /\ Len(E) \in Nat
    BY <1>3
  <1> HIDE DEF P, D, E
  <1>5. /\ ClearAt(s) = 1 + REG_MAX /\ ProgramAt(s) = ClearAt(s) + Len(E)
        /\ DataAt(s) = ProgramAt(s) + Len(P) /\ LastAt(s) = DataAt(s) + Len(D)
        /\ LoopAt(s) = LastAt(s) + 2 /\ RegsAt(s) = LoopAt(s) + 3 /\ WordsAt(s) = RegsAt(s) + REG_MAX
    BY DEF ClearAt, ProgramAt, DataAt, LastAt, LoopAt, RegsAt, WordsAt, P, D, E
  <1>6. ClearAt(s) \in Nat /\ ProgramAt(s) \in Nat /\ DataAt(s) \in Nat /\ LastAt(s) \in Nat
    BY <1>1, <1>4, <1>5
  <1>7. LoopAt(s) \in Nat /\ RegsAt(s) \in Nat /\ WordsAt(s) \in Nat
    BY <1>1, <1>5, <1>6
  <1>8. 1 < ClearAt(s) /\ ClearAt(s) <= ProgramAt(s) /\ ProgramAt(s) <= DataAt(s) /\ DataAt(s) <= LastAt(s)
    BY <1>1, <1>4, <1>5, <1>6
  <1> QED
    BY <1>1, <1>3, <1>5, <1>6, <1>7, <1>8 DEF P, D, E

\* A test case is the set-up, the loop and the comparisons, each where it was said.
LEMMA TestPlaced ==
  ASSUME NEW s \in Pc!Tests
  PROVE  LET c == Pc!execute_test_case(TestCases[s]) IN
         /\ IsLine(c) /\ SetsUpSo(s, c) /\ ComparesSo(s, c)
         /\ Len(c) = WordsAt(s) + Len(TestCases[s].expected_memory)
         /\ Len(Pc!setup_test_case(TestCases[s])) = LoopAt(s)
  <1> DEFINE t == TestCases[s]
             stop == <<Pc!Ack("STOP", <<>>)>>
             zero == [r \in Regs |-> Pc!Ack("SET_REG", <<r, 0>>)]
             clear == [i \in DOMAIN t.expected_memory |->
                         Pc!Ack("WRITE_WORD", <<BRAM_BASE_ADDR + 4 * (i - 1), 0>>)]
             prog == Pc!upload_words(boot_addr, t.program, FALSE)
             data == Pc!upload_words(BRAM_BASE_ADDR, t.initial_memory, FALSE)
             last == <<Pc!Ack("STOP", <<>>), Pc!Ack("SET_PC", <<boot_addr>>)>>
             loop == Pc!step_loop
             regis == [r \in Regs |-> Pc!Report("GET_REG", <<r>>, t.expected_registers[r])]
             words == [i \in DOMAIN t.expected_memory |->
                         Pc!Report("READ_WORD", <<BRAM_BASE_ADDR + 4 * (i - 1)>>, t.expected_memory[i])]
             E == Len(t.expected_memory)
             P == Len(t.program)
             D == Len(t.initial_memory)
  <1>1. /\ IsLine(stop) /\ Len(stop) = 1 /\ stop[1] = Pc!Ack("STOP", <<>>)
    <2>1. stop \in Seq({Pc!Ack("STOP", <<>>)}) /\ Len(stop) = 1 /\ stop[1] = Pc!Ack("STOP", <<>>)
      OBVIOUS
    <2> HIDE DEF stop
    <2>2. IsLine(stop)
      BY <2>1, EveryLine, Zenon
    <2> QED
      BY <2>1, <2>2
  <1>2. /\ IsLine(last) /\ Len(last) = 2
        /\ last[1] = Pc!Ack("STOP", <<>>) /\ last[2] = Pc!Ack("SET_PC", <<boot_addr>>)
    <2>1. /\ last \in Seq({Pc!Ack("STOP", <<>>), Pc!Ack("SET_PC", <<boot_addr>>)}) /\ Len(last) = 2
          /\ last[1] = Pc!Ack("STOP", <<>>) /\ last[2] = Pc!Ack("SET_PC", <<boot_addr>>)
      OBVIOUS
    <2> HIDE DEF last
    <2>2. IsLine(last)
      BY <2>1, EveryLine, Zenon
    <2> QED
      BY <2>1, <2>2
  <1>3. IsLine(loop) /\ Len(loop) = 3
    BY ThreeCalls DEF Pc!step_loop
  <1>4. /\ DOMAIN t.program = 1 .. P /\ DOMAIN t.initial_memory = 1 .. D /\ DOMAIN t.expected_memory = 1 .. E
        /\ P \in Nat /\ D \in Nat /\ E \in Nat
        /\ t.program \in Seq(Word) /\ t.initial_memory \in Seq(Word)
        /\ REG_MAX \in Nat /\ Regs = 1 .. REG_MAX
    BY Places
  <1>0. P \in Nat /\ D \in Nat /\ E \in Nat /\ REG_MAX \in Nat
    BY <1>4
  <1>5. /\ IsLine(zero) /\ Len(zero) = REG_MAX
        /\ \A r \in 1 .. REG_MAX : zero[r] = Pc!Ack("SET_REG", <<r, 0>>)
    <2>1. DOMAIN zero = 1 .. REG_MAX /\ zero = [r \in 1 .. REG_MAX |-> zero[r]]
          /\ \A r \in 1 .. REG_MAX : zero[r] = Pc!Ack("SET_REG", <<r, 0>>)
      BY <1>4
    <2> HIDE DEF zero
    <2> QED
      BY <1>4, <2>1, CallPerWord
  <1>6. /\ IsLine(clear) /\ Len(clear) = E
        /\ \A i \in 1 .. E : clear[i] = Pc!Ack("WRITE_WORD", <<BRAM_BASE_ADDR + 4 * (i - 1), 0>>)
    <2>1. DOMAIN clear = 1 .. E /\ clear = [i \in 1 .. E |-> clear[i]]
          /\ \A i \in 1 .. E : clear[i] = Pc!Ack("WRITE_WORD", <<BRAM_BASE_ADDR + 4 * (i - 1), 0>>)
      BY <1>4
    <2> HIDE DEF clear
    <2> QED
      BY <1>4, <2>1, CallPerWord
  <1>7. /\ IsLine(regis) /\ Len(regis) = REG_MAX
        /\ \A r \in 1 .. REG_MAX : regis[r] = Pc!Report("GET_REG", <<r>>, t.expected_registers[r])
    <2>1. DOMAIN regis = 1 .. REG_MAX /\ regis = [r \in 1 .. REG_MAX |-> regis[r]]
          /\ \A r \in 1 .. REG_MAX : regis[r] = Pc!Report("GET_REG", <<r>>, t.expected_registers[r])
      BY <1>4
    <2> HIDE DEF regis
    <2> QED
      BY <1>4, <2>1, CallPerWord
  <1>8. /\ IsLine(words) /\ Len(words) = E
        /\ \A i \in 1 .. E : words[i] = Pc!Report("READ_WORD", <<BRAM_BASE_ADDR + 4 * (i - 1)>>,
                                                  t.expected_memory[i])
    <2>1. DOMAIN words = 1 .. E /\ words = [i \in 1 .. E |-> words[i]]
          /\ \A i \in 1 .. E : words[i] = Pc!Report("READ_WORD", <<BRAM_BASE_ADDR + 4 * (i - 1)>>,
                                                    t.expected_memory[i])
      BY <1>4
    <2> HIDE DEF words
    <2> QED
      BY <1>4, <2>1, CallPerWord
  <1>9. /\ IsLine(prog) /\ Len(prog) = P
        /\ \A i \in 1 .. P : prog[i] = Pc!Ack("WRITE_WORD", <<boot_addr + 4 * (i - 1), t.program[i]>>)
        /\ IsLine(data) /\ Len(data) = D
        /\ \A i \in 1 .. D : data[i] = Pc!Ack("WRITE_WORD", <<BRAM_BASE_ADDR + 4 * (i - 1),
                                                              t.initial_memory[i]>>)
    BY <1>4, Uploads DEF Acks
  <1> DEFINE x2 == stop \o zero
             x3 == x2 \o clear
             x4 == x3 \o prog
             x5 == x4 \o data
             x6 == x5 \o last
             x7 == x6 \o loop
             x8 == x7 \o regis
             x9 == x8 \o words
  <1>10. Pc!execute_test_case(t) = x9 /\ Pc!setup_test_case(t) = x6
    BY DEF Pc!execute_test_case, Pc!setup_test_case
  <1>11. /\ ClearAt(s) = 1 + REG_MAX /\ ProgramAt(s) = ClearAt(s) + E /\ DataAt(s) = ProgramAt(s) + P
         /\ LastAt(s) = DataAt(s) + D /\ LoopAt(s) = LastAt(s) + 2 /\ RegsAt(s) = LoopAt(s) + 3
         /\ WordsAt(s) = RegsAt(s) + REG_MAX
    BY Places
  <1> HIDE DEF stop, zero, clear, prog, data, last, loop, regis, words, E, P, D, t
  <1>12. /\ IsLine(x2) /\ Len(x2) = ClearAt(s) /\ x2[1] = stop[1]
         /\ \A r \in 1 .. REG_MAX : x2[1 + r] = zero[r]
    <2>1. IsLine(stop) /\ IsLine(zero)
      BY <1>1, <1>5, <1>11
    <2>2. /\ IsLine(x2) /\ Len(x2) = Len(stop) + Len(zero)
          /\ \A i \in 1 .. Len(stop) : x2[i] = stop[i]
          /\ \A i \in 1 .. Len(zero) : x2[Len(stop) + i] = zero[i]
      BY <2>1, Behind
    <2> HIDE DEF x2
    <2> QED
      BY <1>1, <1>5, <1>11, <1>0, <2>2
  <1> HIDE DEF x2
  <1>13. /\ IsLine(x3) /\ Len(x3) = ProgramAt(s) /\ \A i \in 1 .. ClearAt(s) : x3[i] = x2[i]
         /\ \A i \in 1 .. E : x3[ClearAt(s) + i] = clear[i]
    <2>1. IsLine(x2) /\ IsLine(clear)
      BY <1>6, <1>11, <1>12
    <2>2. /\ IsLine(x3) /\ Len(x3) = Len(x2) + Len(clear)
          /\ \A i \in 1 .. Len(x2) : x3[i] = x2[i]
          /\ \A i \in 1 .. Len(clear) : x3[Len(x2) + i] = clear[i]
      BY <2>1, Behind
    <2> HIDE DEF x3
    <2> QED
      BY <1>6, <1>11, <1>12, <1>0, <2>2
  <1> HIDE DEF x3
  <1>14. /\ IsLine(x4) /\ Len(x4) = DataAt(s) /\ \A i \in 1 .. ProgramAt(s) : x4[i] = x3[i]
         /\ \A i \in 1 .. P : x4[ProgramAt(s) + i] = prog[i]
    <2>1. IsLine(x3) /\ IsLine(prog)
      BY <1>9, <1>11, <1>13
    <2>2. /\ IsLine(x4) /\ Len(x4) = Len(x3) + Len(prog)
          /\ \A i \in 1 .. Len(x3) : x4[i] = x3[i]
          /\ \A i \in 1 .. Len(prog) : x4[Len(x3) + i] = prog[i]
      BY <2>1, Behind
    <2> HIDE DEF x4
    <2> QED
      BY <1>9, <1>11, <1>13, <1>0, <2>2
  <1> HIDE DEF x4
  <1>15. /\ IsLine(x5) /\ Len(x5) = LastAt(s) /\ \A i \in 1 .. DataAt(s) : x5[i] = x4[i]
         /\ \A i \in 1 .. D : x5[DataAt(s) + i] = data[i]
    <2>1. IsLine(x4) /\ IsLine(data)
      BY <1>9, <1>11, <1>14
    <2>2. /\ IsLine(x5) /\ Len(x5) = Len(x4) + Len(data)
          /\ \A i \in 1 .. Len(x4) : x5[i] = x4[i]
          /\ \A i \in 1 .. Len(data) : x5[Len(x4) + i] = data[i]
      BY <2>1, Behind
    <2> HIDE DEF x5
    <2> QED
      BY <1>9, <1>11, <1>14, <1>0, <2>2
  <1> HIDE DEF x5
  <1>16. /\ IsLine(x6) /\ Len(x6) = LoopAt(s) /\ \A i \in 1 .. LastAt(s) : x6[i] = x5[i]
         /\ \A i \in 1 .. 2 : x6[LastAt(s) + i] = last[i]
    <2>1. IsLine(x5) /\ IsLine(last)
      BY <1>2, <1>11, <1>15
    <2>2. /\ IsLine(x6) /\ Len(x6) = Len(x5) + Len(last)
          /\ \A i \in 1 .. Len(x5) : x6[i] = x5[i]
          /\ \A i \in 1 .. Len(last) : x6[Len(x5) + i] = last[i]
      BY <2>1, Behind
    <2> HIDE DEF x6
    <2> QED
      BY <1>2, <1>11, <1>15, <1>0, <2>2
  <1> HIDE DEF x6
  <1>17. /\ IsLine(x7) /\ Len(x7) = RegsAt(s) /\ \A i \in 1 .. LoopAt(s) : x7[i] = x6[i]
         /\ \A i \in 1 .. 3 : x7[LoopAt(s) + i] = loop[i]
    <2>1. IsLine(x6) /\ IsLine(loop)
      BY <1>3, <1>11, <1>16
    <2>2. /\ IsLine(x7) /\ Len(x7) = Len(x6) + Len(loop)
          /\ \A i \in 1 .. Len(x6) : x7[i] = x6[i]
          /\ \A i \in 1 .. Len(loop) : x7[Len(x6) + i] = loop[i]
      BY <2>1, Behind
    <2> HIDE DEF x7
    <2> QED
      BY <1>3, <1>11, <1>16, <1>0, <2>2
  <1> HIDE DEF x7
  <1>18. /\ IsLine(x8) /\ Len(x8) = WordsAt(s) /\ \A i \in 1 .. RegsAt(s) : x8[i] = x7[i]
         /\ \A r \in 1 .. REG_MAX : x8[RegsAt(s) + r] = regis[r]
    <2>1. IsLine(x7) /\ IsLine(regis)
      BY <1>7, <1>11, <1>17
    <2>2. /\ IsLine(x8) /\ Len(x8) = Len(x7) + Len(regis)
          /\ \A i \in 1 .. Len(x7) : x8[i] = x7[i]
          /\ \A i \in 1 .. Len(regis) : x8[Len(x7) + i] = regis[i]
      BY <2>1, Behind
    <2> HIDE DEF x8
    <2> QED
      BY <1>7, <1>11, <1>17, <1>0, <2>2
  <1> HIDE DEF x8
  <1>19. /\ IsLine(x9) /\ Len(x9) = WordsAt(s) + E /\ \A i \in 1 .. WordsAt(s) : x9[i] = x8[i]
         /\ \A i \in 1 .. E : x9[WordsAt(s) + i] = words[i]
    <2>1. IsLine(x8) /\ IsLine(words)
      BY <1>8, <1>18
    <2>2. /\ IsLine(x9) /\ Len(x9) = Len(x8) + Len(words)
          /\ \A i \in 1 .. Len(x8) : x9[i] = x8[i]
          /\ \A i \in 1 .. Len(words) : x9[Len(x8) + i] = words[i]
      BY <2>1, Behind
    <2> HIDE DEF x9
    <2> QED
      BY <1>8, <1>18, <1>0, <2>2
  <1> HIDE DEF x9
  <1>20. /\ ClearAt(s) \in Nat /\ ProgramAt(s) \in Nat /\ DataAt(s) \in Nat /\ LastAt(s) \in Nat
         /\ LoopAt(s) \in Nat /\ RegsAt(s) \in Nat /\ WordsAt(s) \in Nat /\ REG_MAX \in Nat
         /\ 1 < ClearAt(s) /\ ClearAt(s) <= ProgramAt(s) /\ ProgramAt(s) <= DataAt(s) /\ DataAt(s) <= LastAt(s)
    BY Places
  <1>21. \A i \in 1 .. RegsAt(s) : x9[i] = x7[i]
    BY <1>0, <1>11, <1>18, <1>19, <1>20
  <1>22. \A i \in 1 .. LoopAt(s) : x9[i] = x6[i]
    BY <1>11, <1>17, <1>20, <1>21
  <1>23. \A i \in 1 .. LastAt(s) : x9[i] = x5[i]
    BY <1>11, <1>16, <1>20, <1>22
  <1>24. \A i \in 1 .. DataAt(s) : x9[i] = x4[i]
    BY <1>15, <1>20, <1>23
  <1>25. \A i \in 1 .. ProgramAt(s) : x9[i] = x3[i]
    BY <1>14, <1>20, <1>24
  <1>26. \A i \in 1 .. ClearAt(s) : x9[i] = x2[i]
    BY <1>13, <1>20, <1>25
  <1>27. SetsUpSo(s, x9)
    <2>1. x9[1] = stop[1]
      <3>1. 1 \in 1 .. ClearAt(s)
        BY <1>20
      <3> QED
        BY <1>12, <1>26, <3>1
    <2>2. \A r \in 1 .. REG_MAX : x9[1 + r] = zero[r]
      <3> SUFFICES ASSUME NEW r \in 1 .. REG_MAX PROVE x9[1 + r] = zero[r]
        OBVIOUS
      <3>1. 1 + r \in 1 .. ClearAt(s)
        BY <1>11, <1>20
      <3> QED
        BY <1>12, <1>26, <3>1
    <2>3. \A i \in 1 .. E : x9[ClearAt(s) + i] = clear[i]
      <3> SUFFICES ASSUME NEW i \in 1 .. E PROVE x9[ClearAt(s) + i] = clear[i]
        OBVIOUS
      <3>1. ClearAt(s) + i \in 1 .. ProgramAt(s)
        BY <1>0, <1>11, <1>20
      <3> QED
        BY <1>13, <1>25, <3>1
    <2>4. \A i \in 1 .. P : x9[ProgramAt(s) + i] = prog[i]
      <3> SUFFICES ASSUME NEW i \in 1 .. P PROVE x9[ProgramAt(s) + i] = prog[i]
        OBVIOUS
      <3>1. ProgramAt(s) + i \in 1 .. DataAt(s)
        BY <1>0, <1>11, <1>20
      <3> QED
        BY <1>14, <1>24, <3>1
    <2>5. \A i \in 1 .. D : x9[DataAt(s) + i] = data[i]
      <3> SUFFICES ASSUME NEW i \in 1 .. D PROVE x9[DataAt(s) + i] = data[i]
        OBVIOUS
      <3>1. DataAt(s) + i \in 1 .. LastAt(s)
        BY <1>0, <1>11, <1>20
      <3> QED
        BY <1>15, <1>23, <3>1
    <2>6. x9[LastAt(s) + 1] = last[1] /\ x9[LastAt(s) + 2] = last[2]
      BY <1>11, <1>16, <1>20, <1>22
    <2> QED
      BY <1>1, <1>2, <1>5, <1>6, <1>9, <2>1, <2>2, <2>3, <2>4, <2>5, <2>6 DEF SetsUpSo, t, E, P, D
  <1>28. ComparesSo(s, x9)
    <2>1. \A j \in 1 .. 3 : x9[LoopAt(s) + j] = loop[j]
      <3> SUFFICES ASSUME NEW j \in 1 .. 3 PROVE x9[LoopAt(s) + j] = loop[j]
        OBVIOUS
      <3>1. LoopAt(s) + j \in 1 .. RegsAt(s)
        BY <1>11, <1>20
      <3> QED
        BY <1>17, <1>21, <3>1
    <2>2. \A r \in 1 .. REG_MAX : x9[RegsAt(s) + r] = regis[r]
      <3> SUFFICES ASSUME NEW r \in 1 .. REG_MAX PROVE x9[RegsAt(s) + r] = regis[r]
        OBVIOUS
      <3>1. RegsAt(s) + r \in 1 .. WordsAt(s)
        BY <1>11, <1>20
      <3> QED
        BY <1>18, <1>19, <3>1
    <2> QED
      BY <1>7, <1>8, <1>19, <2>1, <2>2 DEF ComparesSo, t, E, loop
  <1> QED
    BY <1>10, <1>16, <1>19, <1>27, <1>28 DEF t, E

\* A call of the set-up, and one of the comparisons.
IsSetUp(c) ==
  /\ c.then = "ack" /\ c.cmd \in {"STOP", "SET_REG", "WRITE_WORD", "SET_PC"}
  /\ c.cmd = "SET_REG" => c.args[1] \in Regs /\ c.args[2] = 0
IsReport(c) ==
  /\ c.then = "report" /\ c.cmd \in {"GET_REG", "READ_WORD"}
  /\ c.cmd = "GET_REG" => c.args[1] \in Regs

\* The set-up consists of the one, and the comparisons of the other.
LEMMA TestCalls ==
  ASSUME NEW s \in Pc!Tests, NEW c, SetsUpSo(s, c), ComparesSo(s, c)
  PROVE  /\ \A i \in 1 .. LoopAt(s) : IsSetUp(c[i])
         /\ \A i \in 1 .. WordsAt(s) + Len(TestCases[s].expected_memory) : i > RegsAt(s) => IsReport(c[i])
  <1> DEFINE E == Len(TestCases[s].expected_memory)
             P == Len(TestCases[s].program)
             D == Len(TestCases[s].initial_memory)
  <1>1. /\ ClearAt(s) = 1 + REG_MAX /\ ProgramAt(s) = ClearAt(s) + E /\ DataAt(s) = ProgramAt(s) + P
        /\ LastAt(s) = DataAt(s) + D /\ LoopAt(s) = LastAt(s) + 2 /\ RegsAt(s) = LoopAt(s) + 3
        /\ WordsAt(s) = RegsAt(s) + REG_MAX
        /\ ClearAt(s) \in Nat /\ ProgramAt(s) \in Nat /\ DataAt(s) \in Nat /\ LastAt(s) \in Nat
        /\ LoopAt(s) \in Nat /\ RegsAt(s) \in Nat /\ WordsAt(s) \in Nat
        /\ E \in Nat /\ P \in Nat /\ D \in Nat /\ REG_MAX \in Nat
    BY Places
  <1>2. \A r \in 1 .. REG_MAX : IsSetUp(c[1 + r]) /\ IsReport(c[RegsAt(s) + r])
    <2> SUFFICES ASSUME NEW r \in 1 .. REG_MAX
                 PROVE  IsSetUp(c[1 + r]) /\ IsReport(c[RegsAt(s) + r])
      OBVIOUS
    <2>1. c[1 + r] = Pc!Ack("SET_REG", <<r, 0>>)
      BY DEF SetsUpSo
    <2>2. c[RegsAt(s) + r] = Pc!Report("GET_REG", <<r>>, TestCases[s].expected_registers[r])
      BY DEF ComparesSo
    <2>3. r \in Regs
      BY Places
    <2> QED
      BY <2>1, <2>2, <2>3 DEF IsSetUp, IsReport, Pc!Ack, Pc!Report, Pc!Call
  <1>3. /\ \A j \in 1 .. E : IsSetUp(c[ClearAt(s) + j]) /\ IsReport(c[WordsAt(s) + j])
        /\ \A j \in 1 .. P : IsSetUp(c[ProgramAt(s) + j])
        /\ \A j \in 1 .. D : IsSetUp(c[DataAt(s) + j])
    <2>1. ASSUME NEW k, NEW a, NEW v, c[k] = Pc!Ack("WRITE_WORD", <<a, v>>)
          PROVE  IsSetUp(c[k])
      BY <2>1 DEF IsSetUp, Pc!Ack, Pc!Call
    <2>2. ASSUME NEW j \in 1 .. E
          PROVE  IsSetUp(c[ClearAt(s) + j]) /\ IsReport(c[WordsAt(s) + j])
      <3>1. c[ClearAt(s) + j] = Pc!Ack("WRITE_WORD", <<BRAM_BASE_ADDR + 4 * (j - 1), 0>>)
        BY DEF SetsUpSo
      <3>2. c[WordsAt(s) + j] = Pc!Report("READ_WORD", <<BRAM_BASE_ADDR + 4 * (j - 1)>>,
                                          TestCases[s].expected_memory[j])
        BY DEF ComparesSo
      <3>3. IsReport(c[WordsAt(s) + j])
        BY <3>2 DEF IsReport, Pc!Report, Pc!Call
      <3> QED
        BY <2>1, <3>1, <3>3
    <2>3. ASSUME NEW j \in 1 .. P
          PROVE  IsSetUp(c[ProgramAt(s) + j])
      <3>1. c[ProgramAt(s) + j] =
              Pc!Ack("WRITE_WORD", <<boot_addr + 4 * (j - 1), TestCases[s].program[j]>>)
        BY DEF SetsUpSo
      <3> QED
        BY <2>1, <3>1
    <2>4. ASSUME NEW j \in 1 .. D
          PROVE  IsSetUp(c[DataAt(s) + j])
      <3>1. c[DataAt(s) + j] =
              Pc!Ack("WRITE_WORD", <<BRAM_BASE_ADDR + 4 * (j - 1), TestCases[s].initial_memory[j]>>)
        BY DEF SetsUpSo
      <3> QED
        BY <2>1, <3>1
    <2> QED
      BY <2>2, <2>3, <2>4
  <1>4. IsSetUp(c[1]) /\ IsSetUp(c[LastAt(s) + 1]) /\ IsSetUp(c[LastAt(s) + 2])
    BY DEF SetsUpSo, IsSetUp, Pc!Ack, Pc!Call
  <1> HIDE DEF E, P, D
  <1>6. ASSUME NEW i \in 1 .. LoopAt(s)
        PROVE  IsSetUp(c[i])
    <2>1. CASE i = 1 \/ i = LastAt(s) + 1 \/ i = LastAt(s) + 2
      BY <1>4, <2>1
    <2>2. CASE 1 < i /\ i <= ClearAt(s)
      <3>1. i - 1 \in 1 .. REG_MAX /\ 1 + (i - 1) = i
        BY <1>1, <2>2
      <3> QED
        BY <1>2, <3>1
    <2>3. CASE ClearAt(s) < i /\ i <= ProgramAt(s)
      <3>1. i - ClearAt(s) \in 1 .. E /\ ClearAt(s) + (i - ClearAt(s)) = i
        BY <1>1, <2>3
      <3> QED
        BY <1>3, <3>1
    <2>4. CASE ProgramAt(s) < i /\ i <= DataAt(s)
      <3>1. i - ProgramAt(s) \in 1 .. P /\ ProgramAt(s) + (i - ProgramAt(s)) = i
        BY <1>1, <2>4
      <3> QED
        BY <1>3, <3>1
    <2>5. CASE DataAt(s) < i /\ i <= LastAt(s)
      <3>1. i - DataAt(s) \in 1 .. D /\ DataAt(s) + (i - DataAt(s)) = i
        BY <1>1, <2>5
      <3> QED
        BY <1>3, <3>1
    <2> QED
      BY <1>1, <2>1, <2>2, <2>3, <2>4, <2>5
  <1>7. ASSUME NEW i \in 1 .. WordsAt(s) + E, i > RegsAt(s)
        PROVE  IsReport(c[i])
    <2>1. CASE i <= WordsAt(s)
      <3>1. i - RegsAt(s) \in 1 .. REG_MAX /\ RegsAt(s) + (i - RegsAt(s)) = i
        BY <1>1, <1>7, <2>1
      <3> QED
        BY <1>2, <3>1
    <2>2. CASE ~(i <= WordsAt(s))
      <3>1. i - WordsAt(s) \in 1 .. E /\ WordsAt(s) + (i - WordsAt(s)) = i
        BY <1>1, <1>7, <2>2
      <3> QED
        BY <1>3, <3>1
    <2> QED
      BY <2>1, <2>2
  <1> QED
    BY <1>6, <1>7 DEF E

\* A test case is well made.
LEMMA TestMade ==
  ASSUME NEW s \in Pc!Tests
  PROVE  WellMade(s, Pc!execute_test_case(TestCases[s]))
  <1> DEFINE c == Pc!execute_test_case(TestCases[s])
             n == LoopAt(s)
             E == Len(TestCases[s].expected_memory)
  <1>1. /\ IsLine(c) /\ SetsUpSo(s, c) /\ ComparesSo(s, c) /\ Len(c) = WordsAt(s) + E
        /\ Len(Pc!setup_test_case(TestCases[s])) = n
    BY TestPlaced
  <1> HIDE DEF c
  <1>2. Lead(s) = n /\ s # "faults" /\ s # "demo"
    BY <1>1, ScriptAssumption DEF Lead, Pc!Tests
  <1>3. /\ n \in Nat /\ n > 3 /\ n = LastAt(s) + 2 /\ RegsAt(s) = n + 3 /\ WordsAt(s) \in Nat
        /\ WordsAt(s) > n + 3 /\ E \in Nat
    <2>1. /\ REG_MAX \in Nat \ {0} /\ E \in Nat /\ LastAt(s) \in Nat /\ n \in Nat
          /\ RegsAt(s) \in Nat /\ WordsAt(s) \in Nat
          /\ 1 < ClearAt(s) /\ ClearAt(s) <= ProgramAt(s)
          /\ ProgramAt(s) <= DataAt(s) /\ DataAt(s) <= LastAt(s)
          /\ n = LastAt(s) + 2 /\ RegsAt(s) = n + 3 /\ WordsAt(s) = RegsAt(s) + REG_MAX
          /\ ClearAt(s) \in Nat /\ ProgramAt(s) \in Nat /\ DataAt(s) \in Nat
      BY Places
    <2> HIDE DEF n, E
    <2> QED
      BY <2>1
  <1>4. /\ \A i \in 1 .. n : IsSetUp(c[i])
        /\ \A i \in 1 .. WordsAt(s) + E : i > RegsAt(s) => IsReport(c[i])
    BY <1>1, TestCalls
  <1>5. /\ c[n + 1].then = "pc" /\ c[n + 1].cmd = "GET_PC"
        /\ c[n + 2].then = "instr" /\ c[n + 2].cmd = "READ_WORD"
        /\ DOMAIN c[n + 2] = {"cmd", "args", "then", "expected"}
        /\ c[n + 3].then = "again" /\ c[n + 3].cmd = "STEP"
    <2>1. /\ Pc!step_loop[1].then = "pc" /\ Pc!step_loop[1].cmd = "GET_PC"
          /\ Pc!step_loop[2].then = "instr" /\ Pc!step_loop[2].cmd = "READ_WORD"
          /\ DOMAIN Pc!step_loop[2] = {"cmd", "args", "then", "expected"}
          /\ Pc!step_loop[3].then = "again" /\ Pc!step_loop[3].cmd = "STEP"
      BY ThreeCalls DEF Pc!step_loop, Pc!Call
    <2>2. \A j \in 1 .. 3 : c[n + j] = Pc!step_loop[j]
      BY <1>1 DEF ComparesSo
    <2> QED
      BY <2>1, <2>2
  <1> HIDE DEF n, E
  <1>6. \A i \in 1 .. Len(c) : i \in 1 .. n \/ i \in {n + 1, n + 2, n + 3} \/ i > RegsAt(s)
    BY <1>1, <1>3
  <1>7. ASSUME NEW i \in 1 .. Len(c)
        PROVE  Fits(s, i, c[i])
    <2>1. CASE i \in 1 .. n
      BY <1>4, <2>1 DEF Fits, IsSetUp, AckCmds
    <2>2. CASE i \in {n + 1, n + 2, n + 3}
      BY <1>2, <1>3, <1>5, <2>2 DEF Fits
    <2>3. CASE i > RegsAt(s)
      BY <1>1, <1>2, <1>4, <2>3 DEF Fits, IsReport
    <2> QED
      BY <1>6, <2>1, <2>2, <2>3
  <1>8. \A i \in 1 .. n : IsAck(c[i])
    BY <1>4 DEF IsSetUp, IsAck, AckCmds
  <1>9. Len(c) > n
    BY <1>1, <1>3
  <1>10. s \in Halting => StopAt(s) \in 2 .. Lead(s) /\ c[StopAt(s)].cmd = "STOP"
    <2>1. StopAt(s) = LastAt(s) + 1 /\ StopAt(s) \in 2 .. n
      <3>1. LastAt(s) \in Nat
        BY Places
      <3> QED
        BY <1>2, <1>3, <3>1 DEF StopAt
    <2>2. c[LastAt(s) + 1].cmd = "STOP"
      BY <1>1 DEF SetsUpSo, Pc!Ack, Pc!Call
    <2> QED
      BY <1>2, <2>1, <2>2
  <1>11. WellMade(s, c)
    BY <1>1, <1>2, <1>3, <1>5, <1>7, <1>8, <1>9, <1>10 DEF WellMade
  <1> QED
    BY <1>11 DEF c

\* The eight calls at the end of run_demo_program_test.
LEMMA EightCalls ==
  ASSUME NEW a, NEW b, NEW c, NEW d, NEW e, NEW f, NEW g, NEW h,
         \A x \in {a, b, c, d, e, f, g, h} : IsQuiet(x)
  PROVE  Quiet(<<a, b, c, d, e, f, g, h>>)
  <1> DEFINE s == <<a, b, c, d, e, f, g, h>>
             S == {a, b, c, d, e, f, g, h}
  <1>1. s \in Seq(S)
    OBVIOUS
  <1> HIDE DEF s, S
  <1>2. \A i \in 1 .. Len(s) : s[i] \in S
    BY <1>1, LenProperties
  <1>3. IsLine(s)
    BY <1>1, EveryLine, Zenon
  <1>4. \A x \in S : IsQuiet(x)
    BY DEF S
  <1>5. Quiet(s)
    BY <1>2, <1>3, <1>4 DEF Quiet
  <1> QED
    BY <1>5 DEF s

\* The demo: upload with verification, two steps.
LEMMA DemoMade == WellMade("demo", Pc!run_demo_program_test)
  <1> DEFINE up == Pc!upload_words(demo.boot_addr, demo.program, TRUE)
             n == Len(demo.program)
  <1>1. PICK last :
          /\ Quiet(last)
          /\ Pc!run_demo_program_test = up \o last
    <2> DEFINE a == Pc!Ack("STOP", <<>>)
               b == Pc!Ack("SET_PC", <<demo.boot_addr>>)
               c == Pc!Expect("GET_PC", <<>>, demo.boot_addr)
               d == Pc!Ack("STEP", <<>>)
               e == Pc!Expect("GET_PC", <<>>, demo.boot_addr + 4)
               f == Pc!Expect("GET_REG", <<1>>, demo.x1)
               g == Pc!Ack("STEP", <<>>)
               h == Pc!Expect("READ_WORD", <<demo.data_addr>>, demo.x1)
    <2>1. IsQuiet(a) /\ IsQuiet(b) /\ IsQuiet(c) /\ IsQuiet(d) /\ IsQuiet(e) /\ IsQuiet(f)
          /\ IsQuiet(g) /\ IsQuiet(h)
      BY DEF IsQuiet, AckCmds, Pc!Ack, Pc!Expect, Pc!Call
    <2>2. Pc!run_demo_program_test = up \o <<a, b, c, d, e, f, g, h>>
      BY DEF Pc!run_demo_program_test
    <2> HIDE DEF a, b, c, d, e, f, g, h
    <2>3. \A x \in {a, b, c, d, e, f, g, h} : IsQuiet(x)
      BY <2>1
    <2>4. Quiet(<<a, b, c, d, e, f, g, h>>)
      BY <2>3, EightCalls
    <2> QED
      BY <2>2, <2>4
  <1>2. /\ demo.program \in Seq(Word) /\ n \in Nat /\ n > 0
    BY ScriptAssumption, EmptySeq, LenProperties
  <1>3. /\ Quiet(up) /\ Len(up) = 2 * n
        /\ \A i \in 1 .. n : IsAck(up[i])
    BY <1>2, Uploads
  <1>4. up[n + 1].then = "expect"
    <2> DEFINE w == [i \in DOMAIN demo.program |->
                       Pc!Ack("WRITE_WORD", <<demo.boot_addr + 4 * (i - 1), demo.program[i]>>)]
               r == [i \in DOMAIN demo.program |->
                       Pc!Expect("READ_WORD", <<demo.boot_addr + 4 * (i - 1)>>, demo.program[i])]
    <2>1. DOMAIN demo.program = 1 .. n
      BY <1>2, LenProperties
    <2>2. up = w \o r
      BY DEF Pc!upload_words
    <2>3. IsLine(w) /\ Len(w) = n /\ IsLine(r) /\ Len(r) = n
      <3>1. DOMAIN w = 1 .. n /\ w = [i \in 1 .. n |-> w[i]]
        BY <2>1
      <3>2. DOMAIN r = 1 .. n /\ r = [i \in 1 .. n |-> r[i]]
        BY <2>1
      <3> HIDE DEF w, r
      <3> QED
        BY <1>2, <3>1, <3>2, CallPerWord
    <2>4. r[1].then = "expect"
      BY <1>2, <2>1 DEF Pc!Expect, Pc!Call
    <2> HIDE DEF w, r, up, n
    <2>5. \A i \in 1 .. Len(w) + Len(r) : up[i] = IF i <= Len(w) THEN w[i] ELSE r[i - Len(w)]
      BY <2>2, <2>3, ConcatLine
    <2>6. up[n + 1] = r[1]
      BY <1>2, <2>3, <2>5
    <2> QED
      BY <2>4, <2>6
  <1> DEFINE c == up \o last
  <1> HIDE DEF up
  <1>5. /\ IsLine(c) /\ Len(c) \in Nat /\ Len(c) >= Len(up)
        /\ \A i \in 1 .. Len(up) : c[i] = up[i]
        /\ \A i \in 1 .. Len(c) : i > Len(up) => IsQuiet(c[i])
    BY <1>1, <1>3, Followed DEF Quiet
  <1> HIDE DEF c
  <1>6. Lead("demo") = n
    BY ScriptAssumption DEF Lead, Pc!Tests
  <1> HIDE DEF n
  <1>7. \A i \in 1 .. Len(c) : i > Len(up) \/ i \in 1 .. Len(up)
    BY <1>2, <1>3, <1>5
  <1>8. \A i \in 1 .. Len(c) : IsQuiet(c[i])
    BY <1>3, <1>5, <1>7 DEF Quiet
  <1>9. \A i \in 1 .. Len(c) : Fits("demo", i, c[i])
    BY <1>8 DEF Fits, IsQuiet
  <1>10. (1 .. n) \subseteq (1 .. Len(up)) /\ n + 1 \in 1 .. Len(up) /\ Len(c) > n
    BY <1>2, <1>3, <1>5
  <1>11. /\ \A i \in 1 .. n : IsAck(c[i])
         /\ c[n + 1].then = "expect"
    BY <1>3, <1>4, <1>5, <1>10
  <1>12. WellMade("demo", c)
    <2>1. "demo" \notin Halting
      BY ScriptAssumption DEF Halting, Pc!Tests
    <2> QED
      BY <1>2, <1>5, <1>6, <1>9, <1>10, <1>11, <2>1 DEF WellMade
  <1> QED
    BY <1>1, <1>12 DEF c

\* The nine calls at the end of run_fault_injection_test.
LEMMA NineCalls ==
  ASSUME NEW a, NEW b, NEW c, NEW d, NEW e, NEW f, NEW g, NEW h, NEW l,
         NEW s, s = <<a, b, c, d, e, f, g, h, l>>
  PROVE  /\ IsLine(s) /\ Len(s) = 9
         /\ s[1] = a /\ s[2] = b /\ s[3] = c /\ s[4] = d /\ s[5] = e /\ s[6] = f
         /\ s[7] = g /\ s[8] = h /\ s[9] = l
  <1>1. s \in Seq({a, b, c, d, e, f, g, h, l}) /\ Len(s) = 9
    OBVIOUS
  <1>2. IsLine(s)
    BY <1>1, EveryLine, Zenon
  <1> QED
    BY <1>1, <1>2

\* Fault injection: the core is stopped before the word of memory is changed.
LEMMA FaultsMade == WellMade("faults", Pc!run_fault_injection_test)
  <1> DEFINE up == Pc!upload_words(demo.boot_addr, demo.program, FALSE)
             n == Len(demo.program)
  <1>1. PICK last :
          /\ Pc!run_fault_injection_test = up \o last
          /\ IsLine(last) /\ Len(last) = 9
          /\ IsAck(last[1]) /\ last[1].cmd = "STOP" /\ IsAck(last[2]) /\ IsAck(last[3])
          /\ last[4].then = "expect" /\ last[4].cmd = "GET_REG"
          /\ IsAck(last[5]) /\ IsAck(last[7])
          /\ last[6].then = "expect" /\ last[6].cmd = "GET_REG"
          /\ last[8].then = "ack" /\ last[8].cmd = "FAULT_MEM"
          /\ last[9].then = "expect" /\ last[9].cmd = "READ_WORD"
    <2>1. PICK v, w :
            Pc!run_fault_injection_test =
              up \o <<Pc!Ack("STOP", <<>>), Pc!Ack("SET_PC", <<demo.boot_addr>>),
                      Pc!Ack("STEP", <<>>), Pc!Expect("GET_REG", <<1>>, demo.x1),
                      Pc!Ack("FAULT_REG", <<1, 1, demo.mask>>), Pc!Expect("GET_REG", <<1>>, v),
                      Pc!Ack("WRITE_WORD", <<demo.probe_addr, demo.x1>>),
                      Pc!Ack("FAULT_MEM", <<demo.probe_addr, 2, demo.mask>>),
                      Pc!Expect("READ_WORD", <<demo.probe_addr>>, w)>>
      BY Zenon DEF Pc!run_fault_injection_test
    <2> DEFINE a == Pc!Ack("STOP", <<>>)
               b == Pc!Ack("SET_PC", <<demo.boot_addr>>)
               c == Pc!Ack("STEP", <<>>)
               d == Pc!Expect("GET_REG", <<1>>, demo.x1)
               e == Pc!Ack("FAULT_REG", <<1, 1, demo.mask>>)
               f == Pc!Expect("GET_REG", <<1>>, v)
               g == Pc!Ack("WRITE_WORD", <<demo.probe_addr, demo.x1>>)
               h == Pc!Ack("FAULT_MEM", <<demo.probe_addr, 2, demo.mask>>)
               l == Pc!Expect("READ_WORD", <<demo.probe_addr>>, w)
    <2>2. /\ IsAck(a) /\ a.cmd = "STOP" /\ IsAck(b) /\ IsAck(c) /\ IsAck(e) /\ IsAck(g)
          /\ d.then = "expect" /\ d.cmd = "GET_REG" /\ f.then = "expect" /\ f.cmd = "GET_REG"
          /\ h.then = "ack" /\ h.cmd = "FAULT_MEM" /\ l.then = "expect" /\ l.cmd = "READ_WORD"
      BY DEF IsAck, AckCmds, Pc!Ack, Pc!Expect, Pc!Call
    <2> HIDE DEF a, b, c, d, e, f, g, h, l
    <2>3. PICK s : s = <<a, b, c, d, e, f, g, h, l>>
      OBVIOUS
    <2>4. Pc!run_fault_injection_test = up \o s
      BY <2>1, <2>3 DEF a, b, c, d, e, f, g, h, l
    <2>5. /\ IsLine(s) /\ Len(s) = 9
          /\ s[1] = a /\ s[2] = b /\ s[3] = c /\ s[4] = d /\ s[5] = e /\ s[6] = f
          /\ s[7] = g /\ s[8] = h /\ s[9] = l
      BY <2>3, NineCalls
    <2> QED
      BY <2>2, <2>4, <2>5
  <1>2. /\ demo.program \in Seq(Word) /\ n \in Nat /\ n > 0
    BY ScriptAssumption, EmptySeq, LenProperties
  <1>3. IsLine(up) /\ Len(up) = n /\ \A i \in 1 .. n : IsAck(up[i])
    BY <1>2, Uploads DEF Acks
  <1> DEFINE c == up \o last
  <1> HIDE DEF up
  <1>4. /\ IsLine(c) /\ Len(c) = n + 9
        /\ \A i \in 1 .. n + 9 : c[i] = IF i <= n THEN up[i] ELSE last[i - n]
    <2>1. /\ IsLine(c) /\ Len(c) = Len(up) + Len(last)
          /\ \A i \in 1 .. Len(up) + Len(last) :
               c[i] = IF i <= Len(up) THEN up[i] ELSE last[i - Len(up)]
      BY <1>1, <1>3, ConcatLine
    <2> HIDE DEF c
    <2>2. Len(up) = n /\ Len(last) = 9
      BY <1>1, <1>3
    <2> HIDE DEF n
    <2> QED
      BY <2>1, <2>2
  <1> HIDE DEF c
  <1>5. Lead("faults") = n + 3
    BY ScriptAssumption DEF Lead, Pc!Tests
  <1>6. Len(demo.program) = n
    OBVIOUS
  <1> HIDE DEF n
  <1>7. ASSUME NEW j \in 1 .. 9
        PROVE  c[n + j] = last[j]
    <2>1. PICK i : i = n + j
      OBVIOUS
    <2>2. i \in 1 .. n + 9 /\ ~(i <= n) /\ i - n = j
      BY <1>2, <2>1
    <2> QED
      BY <1>4, <2>1, <2>2
  <1>8. \A i \in 1 .. n : c[i] = up[i] /\ IsAck(c[i])
    <2>1. \A i \in 1 .. n : i \in 1 .. n + 9 /\ i <= n
      BY <1>2
    <2> QED
      BY <1>3, <1>4, <2>1
  <1>9. \A i \in 1 .. n + 9 : i \in 1 .. n \/ \E j \in 1 .. 9 : i = n + j
    <2> SUFFICES ASSUME NEW i \in 1 .. n + 9, i \notin 1 .. n
                 PROVE  \E j \in 1 .. 9 : i = n + j
      OBVIOUS
    <2>1. i - n \in 1 .. 9 /\ i = n + (i - n)
      BY <1>2
    <2> QED
      BY <2>1
  <1>10. ASSUME NEW i \in 1 .. n + 9
         PROVE  Fits("faults", i, c[i])
    <2>1. CASE i \in 1 .. n
      BY <1>8, <2>1 DEF Fits, IsAck, AckCmds
    <2>2. ASSUME NEW j \in 1 .. 9, i = n + j
          PROVE  Fits("faults", i, c[i])
      <3>1. c[i] = last[j]
        BY <1>7, <2>2
      <3>2. CASE j = 8
        <4>1. i > Len(demo.program) + 1
          BY <1>2, <1>6, <2>2, <3>2
        <4> QED
          BY <1>1, <3>1, <3>2, <4>1 DEF Fits
      <3>3. CASE j # 8
        <4>1. j \in {1, 2, 3, 4, 5, 6, 7, 9}
          BY <3>3
        <4>2. \/ IsAck(last[j])
              \/ last[j].then = "expect" /\ last[j].cmd \in {"GET_REG", "READ_WORD"}
          BY <1>1, <4>1
        <4> QED
          BY <3>1, <4>2 DEF Fits, IsAck, AckCmds
      <3> QED
        BY <3>2, <3>3
    <2> QED
      BY <1>9, <2>1, <2>2
  <1>11. \A i \in 1 .. n + 3 : IsAck(c[i])
    <2>1. IsAck(c[n + 1]) /\ IsAck(c[n + 2]) /\ IsAck(c[n + 3])
      BY <1>1, <1>7
    <2>2. \A i \in 1 .. n + 3 : i \in 1 .. n \/ i = n + 1 \/ i = n + 2 \/ i = n + 3
      BY <1>2
    <2> QED
      BY <1>8, <2>1, <2>2
  <1>12. c[n + 1].cmd = "STOP" /\ c[(n + 3) + 1].then = "expect"
    <2>1. (n + 3) + 1 = n + 4
      BY <1>2
    <2> QED
      BY <1>1, <1>7, <2>1
  <1>13. n + 3 \in Nat /\ Len(c) > n + 3
    BY <1>2, <1>4
  <1>14. WellMade("faults", c)
    <2>1. StopAt("faults") = n + 1 /\ n + 1 \in 2 .. n + 3
      BY <1>2, <1>6 DEF StopAt
    <2> QED
      BY <1>4, <1>5, <1>6, <1>10, <1>11, <1>12, <1>13, <2>1 DEF WellMade
  <1> QED
    BY <1>1, <1>14 DEF c

\* Every script that is shipped is made like that.
LEMMA ScriptsMade == \A s \in Pc!Shipped : WellMade(s, Pc!Scripts[s])
  <1>1. Pc!Shipped = Pc!Tests \cup {"demo", "faults"}
    BY DEF Pc!Shipped, Pc!Scripts
  <1>2. "demo" \notin Pc!Tests /\ "faults" \notin Pc!Tests
    BY ScriptAssumption DEF Pc!Tests
  <1>3. /\ \A s \in Pc!Tests : Pc!Scripts[s] = Pc!execute_test_case(TestCases[s])
        /\ Pc!Scripts["demo"] = Pc!run_demo_program_test
        /\ Pc!Scripts["faults"] = Pc!run_fault_injection_test
    BY <1>2 DEF Pc!Scripts
  <1> QED
    BY <1>1, <1>3, TestMade, DemoMade, FaultsMade

-----------------------------------------------------------------------------
(***************************************************************************)
(* Where a session is in its script, and what it has put on the line.      *)
(***************************************************************************)
LineFields  == {"cmd", "args", "script", "own"}
ReplyFields == {"kind", "value", "own", "to"}

\* The commands that are answered with a value.
ValueCmds == {"PROTOCOL_VERSION", "GET_PC", "GET_REG", "READ_WORD"}

\* The session follows its script, and half a line is completed by its first command.
Following ==
  /\ session.at # "closed" => session.script \in Pc!Shipped \cup {"user"}
  /\ session.at # "closed" /\ session.script \in Pc!Shipped => session.i \in Nat \ {0}
  /\ session.at \in {"ready", "waiting"} /\ session.script \in Pc!Shipped =>
       session.i <= Len(Pc!Scripts[session.script])
  /\ session.at = "waiting" /\ session.script \in Pc!Shipped =>
       LET c == Pc!Scripts[session.script][session.i] IN
       /\ session.call.cmd = c.cmd /\ session.call.then = c.then
       /\ c.then # "instr" => session.call = c
  /\ session.at = "waiting" \/ (session.at = "ready" /\ session.script \in Pc!Shipped /\ session.i > 1)
       => ~half

\* Every line keeps its fields.
Formed ==
  /\ \A n \in 1 .. Len(to_worker) : DOMAIN to_worker[n] = LineFields
  /\ \A n \in 1 .. Len(to_pc) : DOMAIN to_pc[n] = ReplyFields
  /\ DOMAIN fw.line = LineFields

\* The core is stopped, or will be when the first n commands of s are carried out.
Stopped(s, n, r) ==
  \E k \in 0 .. n :
    /\ IF k = 0 THEN ~r ELSE s[k].cmd = "STOP"
    /\ \A j \in (k + 1) .. n : s[j].cmd # "START"

\* It is for every FAULT_MEM of a shipped script, on the line or half done, and when a
\* script is past its STOP.
FaultsFollowStops ==
  /\ \A n \in 1 .. Len(to_worker) :
       to_worker[n].cmd = "FAULT_MEM" /\ to_worker[n].script \in Pc!Shipped
         => Stopped(to_worker, n - 1, running)
  /\ session.script \in Halting
     /\ (\/ session.at = "ready" /\ session.i > StopAt(session.script)
         \/ session.at = "waiting" /\ session.i >= StopAt(session.script))
       => Stopped(to_worker, Len(to_worker), running)
  /\ FaultsAreAtomic

FaultInv == LinkInv /\ Following /\ Formed /\ FaultsFollowStops

-----------------------------------------------------------------------------
\* What is where after a line is written,
LEMMA AppendAt ==
  ASSUME NEW s, IsLine(s), NEW e
  PROVE  \A i \in 1 .. Len(s) + 1 : Append(s, e)[i] = IF i <= Len(s) THEN s[i] ELSE e
  <1> DEFINE R == {s[i] : i \in DOMAIN s}
             S == R \cup {e}
  <1>1. s \in Seq(R)
    BY DEF IsLine
  <1>2. s \in Seq(S) /\ e \in S
    <2>1. R \subseteq S
      OBVIOUS
    <2> HIDE DEF R, S
    <2>2. s \in Seq(S)
      BY <1>1, <2>1, SeqMonotonic
    <2> QED
      BY <2>2 DEF S
  <1> HIDE DEF S
  <1> QED
    BY <1>2, AppendProperties, LenProperties

\* read,
LEMMA TailAt ==
  ASSUME NEW s, IsLine(s), s # <<>>
  PROVE  Head(s) = s[1] /\ \A i \in 1 .. Len(s) - 1 : Tail(s)[i] = s[i + 1]
  <1> DEFINE R == {s[i] : i \in DOMAIN s}
  <1>1. s \in Seq(R)
    BY DEF IsLine
  <1> HIDE DEF R
  <1> QED
    BY <1>1, HeadTailProperties

\* discarded,
LEMMA DropAt ==
  ASSUME NEW s, IsLine(s), NEW k \in 0 .. Len(s)
  PROVE  \A i \in 1 .. Len(s) - k : SubSeq(s, k + 1, Len(s))[i] = s[i + k]
  <1>1. Len(s) \in Nat /\ DOMAIN s = 1 .. Len(s)
    BY LineLen
  <1> DEFINE R == {s[i] : i \in DOMAIN s}
             n == Len(s)
  <1>2. \A i \in (k + 1) .. n : s[i] \in R
    BY <1>1
  <1>3. n \in Nat /\ k \in 0 .. n
    BY <1>1
  <1> HIDE DEF R, n
  <1>4. \A i \in 1 .. n - (k + 1) + 1 : SubSeq(s, k + 1, n)[i] = s[(k + 1) + i - 1]
    BY <1>2, <1>3, SubSeqProperties
  <1>5. \A i \in 1 .. n - k : SubSeq(s, k + 1, n)[i] = s[i + k]
    <2> SUFFICES ASSUME NEW i \in 1 .. n - k
                 PROVE  SubSeq(s, k + 1, n)[i] = s[i + k]
      OBVIOUS
    <2>1. i \in 1 .. n - (k + 1) + 1 /\ (k + 1) + i - 1 = i + k
      BY <1>3
    <2> QED
      BY <1>4, <2>1
  <1> QED
    BY <1>5 DEF n

\* or left by a session that ends.
LEMMA DisownedAt ==
  ASSUME NEW s, IsLine(s), NEW F, \A i \in 1 .. Len(s) : DOMAIN s[i] = F, "own" \in F
  PROVE  \A i \in 1 .. Len(s) :
           /\ DOMAIN Pc!Disowned(s)[i] = F /\ ~Pc!Disowned(s)[i].own
           /\ \A f \in F \ {"own"} : Pc!Disowned(s)[i][f] = s[i][f]
  BY LineLen DEF Pc!Disowned

\* Stopped looks at the commands only,
LEMMA StoppedSame ==
  ASSUME NEW s, NEW t, NEW n \in Nat, NEW r, \A i \in 1 .. n : t[i].cmd = s[i].cmd, Stopped(s, n, r)
  PROVE  Stopped(t, n, r)
  <1>1. PICK k \in 0 .. n : /\ IF k = 0 THEN ~r ELSE s[k].cmd = "STOP"
                            /\ \A j \in (k + 1) .. n : s[j].cmd # "START"
    BY DEF Stopped
  <1>2. \A j \in (k + 1) .. n : j \in 1 .. n
    OBVIOUS
  <1>3. \A j \in (k + 1) .. n : t[j].cmd # "START"
    BY <1>1, <1>2
  <1>4. CASE k = 0
    BY <1>1, <1>3, <1>4 DEF Stopped
  <1>5. CASE k # 0
    <2>1. t[k].cmd = "STOP"
      BY <1>1, <1>5
    <2> QED
      BY <1>3, <1>5, <2>1 DEF Stopped
  <1> QED
    BY <1>4, <1>5

\* lasts until a START,
LEMMA StoppedOn ==
  ASSUME NEW s, NEW n \in Nat, NEW r, NEW m, m = n + 1,
         \/ Stopped(s, n, r) /\ s[m].cmd # "START"
         \/ s[m].cmd = "STOP"
  PROVE  Stopped(s, m, r)
  <1>1. CASE s[m].cmd = "STOP"
    <2>1. m \in 0 .. m /\ m # 0 /\ \A j \in (m + 1) .. m : FALSE
      OBVIOUS
    <2> QED
      BY <1>1, <2>1 DEF Stopped
  <1>2. CASE Stopped(s, n, r) /\ s[m].cmd # "START"
    <2>1. PICK k \in 0 .. n : /\ IF k = 0 THEN ~r ELSE s[k].cmd = "STOP"
                              /\ \A j \in (k + 1) .. n : s[j].cmd # "START"
      BY <1>2 DEF Stopped
    <2>2. \A j \in (k + 1) .. m : j \in (k + 1) .. n \/ j = m
      OBVIOUS
    <2>3. \A j \in (k + 1) .. m : s[j].cmd # "START"
      BY <1>2, <2>1, <2>2
    <2>4. k \in 0 .. m
      OBVIOUS
    <2> QED
      BY <2>1, <2>3, <2>4 DEF Stopped
  <1> QED
    BY <1>1, <1>2

\* and holds on while the line is worked off.
LEMMA StoppedTail ==
  ASSUME NEW s, IsLine(s), s # <<>>, NEW n \in 1 .. Len(s), NEW r, Stopped(s, n, r),
         NEW q, q => r \/ s[1].cmd = "START", s[1].cmd = "STOP" => ~q
  PROVE  Stopped(Tail(s), n - 1, q)
  <1>1. Len(s) \in Nat /\ \A i \in 1 .. Len(s) - 1 : Tail(s)[i] = s[i + 1]
    BY LineLen, TailAt
  <1>2. PICK k \in 0 .. n : /\ IF k = 0 THEN ~r ELSE s[k].cmd = "STOP"
                            /\ \A j \in (k + 1) .. n : s[j].cmd # "START"
    BY DEF Stopped
  <1>3. CASE k \in {0, 1}
    <2>1. ~q
      <3>1. CASE k = 0
        <4>1. 1 \in (k + 1) .. n
          BY <3>1
        <4> QED
          BY <1>2, <3>1, <4>1
      <3>2. CASE k = 1
        BY <1>2, <3>2
      <3> QED
        BY <1>3, <3>1, <3>2
    <2>2. \A j \in (0 + 1) .. n - 1 : j \in 1 .. Len(s) - 1 /\ j + 1 \in (k + 1) .. n
      BY <1>1, <1>3
    <2>3. \A j \in (0 + 1) .. n - 1 : Tail(s)[j].cmd # "START"
      BY <1>1, <1>2, <2>2
    <2>4. 0 \in 0 .. n - 1
      BY <1>1
    <2> QED
      BY <2>1, <2>3, <2>4 DEF Stopped
  <1>4. CASE k \notin {0, 1}
    <2>1. PICK l : l = k - 1
      OBVIOUS
    <2>2. l \in 1 .. n - 1 /\ l \in 0 .. n - 1 /\ l # 0 /\ l + 1 = k /\ l \in 1 .. Len(s) - 1
      BY <1>1, <1>4, <2>1
    <2>3. Tail(s)[l].cmd = "STOP"
      BY <1>1, <1>2, <1>4, <2>2
    <2>4. \A j \in (l + 1) .. n - 1 : j \in 1 .. Len(s) - 1 /\ j + 1 \in (k + 1) .. n
      BY <1>1, <2>2
    <2>5. \A j \in (l + 1) .. n - 1 : Tail(s)[j].cmd # "START"
      BY <1>1, <1>2, <2>4
    <2> QED
      BY <2>2, <2>3, <2>5 DEF Stopped
  <1> QED
    BY <1>3, <1>4

-----------------------------------------------------------------------------
(***************************************************************************)
(* What a step does to the session, to the lines and to the core's stall,  *)
(* and nothing else of it.                                                 *)
(***************************************************************************)
\* A session ends: an error, a timeout, the end of the script, of the user or the process.
Closing ==
  /\ session' = Pc!Closed
  /\ to_worker' = Pc!Disowned(to_worker)
  /\ \/ to_pc' = Pc!Disowned(to_pc)
     \/ to_pc # <<>> /\ to_pc' = Pc!Disowned(Tail(to_pc))
  /\ fw' = [fw EXCEPT !.line.own = FALSE] /\ UNCHANGED core_vars

\* A session begins.
Opening ==
  \E k \in 0 .. Len(to_pc) :
    /\ session.at = "closed" /\ session'.at = "ready" /\ session'.i = 1
    /\ session'.script \in Pc!Shipped \cup {"user"}
    /\ to_pc' = SubSeq(to_pc, k + 1, Len(to_pc))
    /\ Len(to_pc) - k + Len(to_worker) + Pending <= MaxBacklog
    /\ session'.leftover = Len(to_pc) - k + Len(to_worker) + Pending
    /\ session'.steps = 0 /\ session'.reported = {}
    /\ UNCHANGED <<to_worker, half, fw, core_vars>>

\* What a session was opened with, and has found, stays.
Stays ==
  /\ session'.leftover = session.leftover /\ session'.rebooted = session.rebooted
  /\ session'.steps = session.steps /\ session'.reported = session.reported

\* The call c of the script is written, as the line e.
Sending ==
  \E c, e :
    /\ session.at = "ready" /\ session'.at = "waiting" /\ session'.call = c
    /\ session'.script = session.script /\ session'.i = session.i
    /\ Stays
    /\ session.script \in Pc!Shipped =>
         LET d == Pc!Scripts[session.script][session.i] IN
         c.cmd = d.cmd /\ c.then = d.then /\ (d.then # "instr" => c = d)
    /\ DOMAIN e = LineFields /\ e.own /\ e.script = session.script
    /\ \/ e.cmd = c.cmd /\ e.args = c.args
       \/ half /\ e.cmd = "garbled"
    /\ to_worker' = Append(to_worker, e) /\ ~half'
    /\ UNCHANGED <<to_pc, fw, core_vars>>

\* A reply is taken for the answer, and leads to the call at n.
Taking ==
  /\ session.at = "waiting" /\ to_pc # <<>> /\ Pc!Acceptable(Head(to_pc))
  /\ session'.script = session.script
  /\ session.script \in Pc!Shipped =>
       \E n : /\ \/ n = session.i + 1
                 \/ n = session.i + 2 /\ session.call.then = "instr"
                 \/ n = session.i - 2 /\ session.call.then = "again"
              /\ session'.i = n
              /\ \/ session'.at = "done" /\ n > Len(Pc!Scripts[session.script])
                 \/ session'.at = "ready" /\ ~(n > Len(Pc!Scripts[session.script]))
  /\ session'.at \in {"ready", "done"}
  /\ session'.leftover = session.leftover /\ session'.rebooted = session.rebooted
  /\ LET c == session.call
         v == Head(to_pc).value
     IN /\ session'.steps = IF c.then = "again" THEN session.steps + 1
                            ELSE IF c.then = "report" THEN 0 ELSE session.steps
        /\ session'.reported =
             IF c.then = "report" /\ v \notin {c.expected, relocated[c.expected]}
             THEN session.reported \cup {[cmd |-> c.cmd, arg |-> c.args[1]]} ELSE session.reported
  /\ to_pc' = Tail(to_pc) /\ UNCHANGED <<to_worker, half, fw, core_vars>>

\* The next test case begins.
NextTest ==
  /\ session.at = "done" /\ session.script \in Pc!Tests
  /\ session'.at = "ready" /\ session'.script \in Pc!Tests /\ session'.i = 1
  /\ session'.leftover = session.leftover /\ session'.rebooted = session.rebooted
  /\ session'.steps = 0 /\ session'.reported = {}
  /\ UNCHANGED <<to_worker, to_pc, half, fw, core_vars>>

\* A command is carried out and answered.
Answering ==
  /\ FirmwareStep
  /\ fw.at = "readline" /\ to_worker # <<>> /\ to_worker' = Tail(to_worker)
  /\ running' => running \/ Line.cmd = "START"
  /\ Line.cmd = "STOP" => ~running'
  /\ \E e : /\ to_pc' = Append(to_pc, e)
            /\ DOMAIN e = ReplyFields /\ e.own = Line.own
            /\ e.kind = "OK value" => Line.cmd \in ValueCmds /\ e.to = <<Line.cmd, Line.args>>
  /\ UNCHANGED <<session, half, fw>>

\* FAULT_MEM is half done, or a command has no answer.
Beginning ==
  /\ FirmwareStep
  /\ fw.at = "readline" /\ to_worker # <<>> /\ to_worker' = Tail(to_worker)
  /\ \/ Line.cmd = "FAULT_MEM" /\ fw'.at = "fault_mem" /\ fw'.line = Line
     \/ Line.cmd # "STOP" /\ fw'.at = "aborted" /\ fw'.line = fw.line
  /\ UNCHANGED <<session, to_pc, half, running>>

\* FAULT_MEM is done.
Ending ==
  /\ FirmwareStep
  /\ fw.at = "fault_mem" /\ fw' = Reading
  /\ \E e : /\ to_pc' = Append(to_pc, e)
            /\ DOMAIN e = ReplyFields /\ e.own = fw.line.own /\ e.kind = "OK"
  /\ UNCHANGED <<session, to_worker, half, running>>

\* The worker is restarted.
Restarting ==
  /\ to_worker' = <<>> /\ ~half' /\ ~running' /\ fw' = Reading /\ UNCHANGED to_pc
  /\ session'.at = session.at /\ session'.script = session.script /\ session'.i = session.i
  /\ session'.call = session.call /\ session'.steps = session.steps
  /\ session'.leftover = session.leftover /\ session'.rebooted = (session.at # "closed")
  /\ session'.reported = session.reported
  /\ UNCHANGED <<regs, mem>>

\* The core runs, or nothing happens.
Idling ==
  /\ UNCHANGED <<session, to_worker, to_pc, half, fw, running>>
  /\ (running /\ Execute) \/ UNCHANGED <<pc, regs, mem>>

\* The scripts there are.
LEMMA ShippedAre ==
  /\ Pc!Shipped = Pc!Tests \cup {"demo", "faults"}
  /\ "user" \notin Pc!Shipped /\ "faults" \notin Pc!Tests
  BY ScriptAssumption DEF Pc!Shipped, Pc!Scripts, Pc!Tests

\* Every way out of a session.
LEMMA ClosesSo == ASSUME ClientStep(Pc!Close) PROVE Closing
  <1>1. session' = Pc!Closed /\ session'.at = "closed"
    BY DEF ClientStep, Pc!Close, Pc!Closed
  <1> QED
    BY <1>1 DEF ClientStep, Pc!Close, Closing, core_vars

\* A session is opened on one of the scripts, or for the user.
LEMMA OpensSo == ASSUME Opens PROVE Opening
  <1>1. PICK k \in 0 .. Len(to_pc) :
          LET lines == Len(to_pc) - k + Len(to_worker) + Pending IN
          /\ lines <= MaxBacklog
          /\ to_pc' = SubSeq(to_pc, k + 1, Len(to_pc))
          /\ \E s \in {TestOrder[1], "demo", "faults", "user"} : Pc!Begin(s, lines)
    BY DEF Opens, ClientStep, Pc!Open
  <1>2. PICK s \in {TestOrder[1], "demo", "faults", "user"} :
          Pc!Begin(s, Len(to_pc) - k + Len(to_worker) + Pending)
    BY <1>1
  <1>3. /\ session'.at = "ready" /\ session'.script = s /\ session'.i = 1
        /\ session'.leftover = Len(to_pc) - k + Len(to_worker) + Pending
        /\ session'.steps = 0 /\ session'.reported = {}
    BY <1>2 DEF Pc!Begin, Pc!Closed
  <1>4. s \in Pc!Shipped \cup {"user"}
    <2>1. TestOrder \in Seq(DOMAIN TestCases) /\ TestOrder # <<>>
      BY ScriptAssumption
    <2>2. 1 \in 1 .. Len(TestOrder)
      BY <2>1, EmptySeq, LenProperties
    <2>3. TestOrder[1] \in Pc!Tests
      BY <2>1, <2>2, LenProperties DEF Pc!Tests
    <2> QED
      BY <2>3, ShippedAre
  <1>5. session.at = "closed" /\ UNCHANGED <<to_worker, half, fw, core_vars>>
    BY <1>3 DEF Opens, ClientStep, Pc!Open, core_vars
  <1> QED
    BY <1>1, <1>3, <1>4, <1>5 DEF Opening

\* The next call is written, or is refused.
LEMMA SendsSo == ASSUME LinkInv, Following, Sends PROVE Sending \/ Closing
  <1>1. PICK c \in Pc!NextCalls :
          IF Pc!CallAllowed(c)
          THEN /\ Pc!WriteLine([cmd |-> c.cmd, args |-> c.args, script |-> session.script, own |-> TRUE])
               /\ session' = [session EXCEPT !.at = "waiting", !.call = c]
               /\ UNCHANGED to_pc
          ELSE Pc!Raise
    BY DEF Sends, ClientStep, Pc!SendCommand
  <1>2. CASE ~Pc!CallAllowed(c)
    <2>1. ClientStep(Pc!Close)
      BY <1>1, <1>2 DEF Sends, ClientStep, Pc!Raise
    <2> QED
      BY <2>1, ClosesSo
  <1>3. CASE Pc!CallAllowed(c)
    <2> DEFINE l == [cmd |-> c.cmd, args |-> c.args, script |-> session.script, own |-> TRUE]
               e == IF half THEN [l EXCEPT !.cmd = "garbled", !.args = <<>>] ELSE l
    <2>1. to_worker' = Append(to_worker, e) /\ half' = FALSE
      BY <1>1, <1>3 DEF Pc!WriteLine, Pc!Joined
    <2>2. UNCHANGED to_pc /\ session' = [session EXCEPT !.at = "waiting", !.call = c]
      BY <1>1, <1>3
    <2>3. /\ session'.at = "waiting" /\ session'.call = c
          /\ session'.script = session.script /\ session'.i = session.i
          /\ Stays
      BY <2>2 DEF LinkInv, Shape, SessionFields, Stays
    <2>4. session.at = "ready" /\ UNCHANGED <<fw, core_vars>>
      BY <2>3 DEF Sends, ClientStep, Pc!SendCommand, core_vars
    <2>5. /\ DOMAIN e = LineFields /\ e.own /\ e.script = session.script
          /\ \/ e.cmd = c.cmd /\ e.args = c.args
             \/ half /\ e.cmd = "garbled"
      BY DEF LineFields
    <2>6. ASSUME session.script \in Pc!Shipped
          PROVE  LET d == Pc!Scripts[session.script][session.i] IN
                 c.cmd = d.cmd /\ c.then = d.then /\ (d.then # "instr" => c = d)
      <3> DEFINE d == Pc!Scripts[session.script][session.i]
      <3>1. session.script # "user"
        BY <2>6, ShippedAre
      <3>2. c = IF d.then = "instr" THEN [d EXCEPT !.args = <<session.pc>>] ELSE d
        BY <3>1 DEF Pc!NextCalls
      <3>3. d.then = "instr" => DOMAIN d = {"cmd", "args", "then", "expected"}
        <4>1. /\ IsLine(Pc!Scripts[session.script])
              /\ \A i \in 1 .. Len(Pc!Scripts[session.script]) : Fits(session.script, i, Pc!Scripts[session.script][i])
          BY <2>6, ScriptsMade DEF WellMade
        <4>2. session.i \in 1 .. Len(Pc!Scripts[session.script])
          BY <2>4, <2>6, <4>1, LineLen DEF Following
        <4> QED
          BY <4>1, <4>2 DEF Fits
      <3> HIDE DEF d
      <3> QED
        BY <3>2, <3>3 DEF d
    <2> HIDE DEF e
    <2>7. Sending
      BY <2>1, <2>2, <2>3, <2>4, <2>5, <2>6 DEF Sending
    <2> QED
      BY <2>7
  <1> QED
    BY <1>2, <1>3

\* The answer is taken, or ends the session.
LEMMA ReceivesSo == ASSUME LinkInv, Following, Receives PROVE Taking \/ Closing
  <1> DEFINE r == Head(to_pc)
             ok == Pc!Acceptable(r) /\ (session.call.then = "expect" => r.value = session.call.expected)
  <1>1. session.at = "waiting" /\ to_pc # <<>>
    BY DEF Receives, ClientStep, Pc!Receive
  <1>2. CASE ~ok
    <2>1. /\ session' = Pc!Closed
          /\ to_worker' = Pc!Disowned(to_worker) /\ to_pc' = Pc!Disowned(Tail(to_pc))
      BY <1>2 DEF Receives, ClientStep, Pc!Receive
    <2>2. session'.at = "closed"
      BY <2>1 DEF Pc!Closed
    <2>3. fw' = [fw EXCEPT !.line.own = FALSE] /\ UNCHANGED core_vars
      BY <2>2 DEF Receives, ClientStep
    <2> QED
      BY <1>1, <2>1, <2>3 DEF Closing
  <1>3. CASE ok
    <2>1. /\ session' = Pc!Judge(r.value) /\ to_pc' = Tail(to_pc) /\ UNCHANGED <<to_worker, half>>
      BY <1>3 DEF Receives, ClientStep, Pc!Receive
    <2> DEFINE c == session.call
               n == CASE c.then = "instr" /\ r.value = JumpToSelf -> session.i + 2
                      [] c.then = "again" /\ session.steps + 1 < MaxSteps -> session.i - 2
                      [] OTHER -> session.i + 1
               ended == session.script # "user" /\ n > Len(Pc!Scripts[session.script])
    <2>2. /\ session'.at = (IF ended THEN "done" ELSE "ready")
          /\ session'.i = (IF session.script = "user" THEN 1 ELSE n)
          /\ session'.script = session.script
          /\ session'.leftover = session.leftover /\ session'.rebooted = session.rebooted
          /\ session'.steps = (IF c.then = "again" THEN session.steps + 1
                               ELSE IF c.then = "report" THEN 0 ELSE session.steps)
          /\ session'.reported =
               (IF c.then = "report" /\ r.value \notin {c.expected, relocated[c.expected]}
                THEN session.reported \cup {[cmd |-> c.cmd, arg |-> c.args[1]]} ELSE session.reported)
      BY <2>1 DEF LinkInv, Shape, SessionFields, Pc!Judge
    <2>3. \/ n = session.i + 1
          \/ n = session.i + 2 /\ session.call.then = "instr"
          \/ n = session.i - 2 /\ session.call.then = "again"
      OBVIOUS
    <2> HIDE DEF n
    <2>4. session'.at \in {"ready", "done"}
      BY <2>2
    <2>5. UNCHANGED <<fw, core_vars>>
      BY <2>4 DEF Receives, ClientStep
    <2>6. ASSUME session.script \in Pc!Shipped
          PROVE  /\ session'.i = n
                 /\ \/ session'.at = "done" /\ n > Len(Pc!Scripts[session.script])
                    \/ session'.at = "ready" /\ ~(n > Len(Pc!Scripts[session.script]))
      BY <2>2, <2>6, ShippedAre
    <2>7. Taking
      BY <1>1, <1>3, <2>1, <2>2, <2>3, <2>4, <2>5, <2>6 DEF Taking
    <2> QED
      BY <2>7
  <1> QED
    BY <1>2, <1>3

\* The next test case follows in the same session, or it ends.
LEMMA FinishesSo == ASSUME Finishes PROVE NextTest \/ Closing
  <1>1. CASE Pc!Raise
    <2>1. ClientStep(Pc!Close)
      BY <1>1 DEF Finishes, ClientStep, Pc!Raise
    <2> QED
      BY <2>1, ClosesSo
  <1>2. CASE ~Pc!Raise
    <2>1. /\ session.at = "done" /\ session.script \in Pc!Tests
          /\ session.script # TestOrder[Len(TestOrder)]
          /\ UNCHANGED <<to_worker, to_pc, half>>
      BY <1>2 DEF Finishes, ClientStep, Pc!Finish, line_vars, Pc!line_vars
    <2>2. PICK k \in DOMAIN TestOrder :
            /\ TestOrder[k] = session.script
            /\ session' = [Pc!Closed EXCEPT !.at = "ready", !.script = TestOrder[k + 1], !.i = 1,
                             !.leftover = session.leftover, !.rebooted = session.rebooted]
      BY <1>2 DEF Finishes, ClientStep, Pc!Finish
    <2>3. /\ session'.at = "ready" /\ session'.script = TestOrder[k + 1] /\ session'.i = 1
          /\ session'.leftover = session.leftover /\ session'.rebooted = session.rebooted
          /\ session'.steps = 0 /\ session'.reported = {}
      BY <2>2 DEF Pc!Closed
    <2>4. TestOrder \in Seq(DOMAIN TestCases)
      BY ScriptAssumption
    <2>5. Len(TestOrder) \in Nat /\ k \in 1 .. Len(TestOrder) /\ k # Len(TestOrder)
      BY <2>1, <2>2, <2>4, LenProperties
    <2>6. k + 1 \in 1 .. Len(TestOrder)
      BY <2>5
    <2>7. TestOrder[k + 1] \in Pc!Tests
      BY <2>4, <2>6, LenProperties DEF Pc!Tests
    <2>8. UNCHANGED <<fw, core_vars>>
      BY <2>3 DEF Finishes, ClientStep
    <2> QED
      BY <2>1, <2>3, <2>7, <2>8 DEF NextTest
  <1> QED
    BY <1>1, <1>2

\* A command that is answered at once.
LEMMA AnswersSo ==
  ASSUME FirmwareStep, UNCHANGED session, to_worker # <<>>, fw.at = "readline", NEW kind, NEW value,
         Answer(kind, value), kind = "OK value" => Line.cmd \in ValueCmds,
         running' => running \/ Line.cmd = "START", Line.cmd = "STOP" => ~running'
  PROVE  Answering
  <1> DEFINE a == Reply(kind, value, Line)
  <1>1. /\ to_worker' = Tail(to_worker) /\ to_pc' = Append(to_pc, a) /\ UNCHANGED <<half, fw>>
    BY DEF Answer
  <1>2. /\ DOMAIN a = ReplyFields /\ a.own = Line.own /\ a.kind = kind
        /\ a.kind = "OK value" => a.to = <<Line.cmd, Line.args>>
    BY DEF Reply, ReplyFields
  <1> HIDE DEF a
  <1>3. a.kind = "OK value" => Line.cmd \in ValueCmds /\ a.to = <<Line.cmd, Line.args>>
    BY <1>2
  <1>4. \E e : /\ to_pc' = Append(to_pc, e)
               /\ DOMAIN e = ReplyFields /\ e.own = Line.own
               /\ e.kind = "OK value" => Line.cmd \in ValueCmds /\ e.to = <<Line.cmd, Line.args>>
    BY <1>1, <1>2, <1>3, Zenon
  <1>5. UNCHANGED <<session, half, fw>>
    BY <1>1
  <1> QED
    BY <1>1, <1>4, <1>5, Zenon DEF Answering

\* Every command of the firmware's loop.
LEMMA FirmwareSo ==
  ASSUME LinkInv, UNCHANGED session, FirmwareStep
  PROVE  Answering \/ Beginning \/ Ending
  <1>1. CASE Rejected
    <2>1. Line.cmd \notin {"START", "STOP"}
      BY <1>1 DEF Rejected, Rejects
    <2> QED
      BY <1>1, <2>1, AnswersSo DEF Rejected, core_vars
  <1>2. CASE PROTOCOL_VERSION
    BY <1>2, AnswersSo DEF PROTOCOL_VERSION, Reads, reply_ok_u32, ValueCmds, core_vars
  <1>3. CASE START
    BY <1>3, AnswersSo DEF START, Reads, reply_ok
  <1>4. CASE STOP
    BY <1>4, AnswersSo DEF STOP, Reads, reply_ok
  <1>5. CASE STEP
    BY <1>5, AnswersSo DEF STEP, Reads, reply_ok
  <1>6. CASE GET_PC
    BY <1>6, AnswersSo DEF GET_PC, Reads, reply_ok_u32, ValueCmds, core_vars
  <1>7. CASE SET_PC
    BY <1>7, AnswersSo DEF SET_PC, Reads, reply_ok
  <1>8. CASE GET_REG
    BY <1>8, AnswersSo DEF GET_REG, Reads, reply_ok_u32, ValueCmds, core_vars
  <1>9. CASE SET_REG
    BY <1>9, AnswersSo DEF SET_REG, Reads, reply_ok, WriteRegister
  <1>10. CASE FAULT_REG
    BY <1>10, AnswersSo DEF FAULT_REG, Reads, reply_ok, WriteRegister
  <1>11. CASE DataAbort
    <2>1. fw' = [fw EXCEPT !.at = "aborted"]
      BY <1>11 DEF DataAbort
    <2>2. fw'.at = "aborted" /\ fw'.line = fw.line
      BY <2>1 DEF LinkInv, Shape
    <2> QED
      BY <1>11, <2>2 DEF DataAbort, Aborts, Reads, Beginning, core_vars
  <1>12. CASE READ_WORD
    BY <1>12, AnswersSo DEF READ_WORD, Reads, reply_ok_u32, ValueCmds, core_vars
  <1>13. CASE WRITE_WORD
    BY <1>13, AnswersSo DEF WRITE_WORD, Reads, reply_ok
  <1>14. CASE FAULT_MEM_Read
    <2>1. fw'.at = "fault_mem" /\ fw'.line = Line
      BY <1>14 DEF FAULT_MEM_Read
    <2> QED
      BY <1>14, <2>1 DEF FAULT_MEM_Read, Reads, Beginning, core_vars
  <1>15. CASE FAULT_MEM_Write
    <2> DEFINE e == Reply("OK", 0, fw.line)
    <2>1. /\ fw.at = "fault_mem" /\ fw' = Reading /\ to_pc' = Append(to_pc, e)
          /\ UNCHANGED <<to_worker, half, running>>
      BY <1>15 DEF FAULT_MEM_Write
    <2>2. DOMAIN e = ReplyFields /\ e.own = fw.line.own /\ e.kind = "OK"
      BY DEF Reply, ReplyFields
    <2> HIDE DEF e
    <2> QED
      BY <2>1, <2>2 DEF Ending
  <1> QED
    BY <1>1, <1>2, <1>3, <1>4, <1>5, <1>6, <1>7, <1>8, <1>9, <1>10, <1>11, <1>12, <1>13,
       <1>14, <1>15 DEF FirmwareStep

\* Every step is one of these.
LEMMA StepsSo ==
  ASSUME LinkInv, Following, [Next]_vars
  PROVE  \/ Closing \/ Opening \/ Sending \/ Taking \/ NextTest
         \/ Answering \/ Beginning \/ Ending \/ Restarting \/ Idling
  <1>1. CASE Opens
    BY <1>1, OpensSo
  <1>2. CASE Sends
    BY <1>2, SendsSo
  <1>3. CASE Receives
    BY <1>3, ReceivesSo
  <1>4. CASE TimesOut
    <2>1. ClientStep(Pc!Close)
      BY <1>4 DEF TimesOut, ClientStep, Pc!Timeout, Pc!Raise
    <2> QED
      BY <2>1, ClosesSo
  <1>5. CASE Finishes
    BY <1>5, FinishesSo
  <1>6. CASE Leaves
    <2>1. ClientStep(Pc!Close)
      BY <1>6 DEF Leaves, ClientStep, Pc!Leave, Pc!Raise
    <2> QED
      BY <2>1, ClosesSo
  <1>7. CASE IsKilled
    <2>1. ClientStep(Pc!Close)
      BY <1>7 DEF IsKilled, ClientStep, Pc!Kill
    <2> QED
      BY <2>1, ClosesSo
  <1>8. CASE WorkerStep
    <2>1. CASE FirmwareStep
      BY <1>8, <2>1, FirmwareSo DEF WorkerStep
    <2>2. CASE CoreRuns
      BY <1>8, <2>2 DEF WorkerStep, CoreRuns, line_vars, Idling
    <2> QED
      BY <1>8, <2>1, <2>2 DEF WorkerStep
  <1>9. CASE Restart
    <2>1. session' = [session EXCEPT !.rebooted = session.at # "closed"]
      BY <1>9 DEF Restart
    <2>2. /\ session'.at = session.at /\ session'.script = session.script
          /\ session'.i = session.i /\ session'.call = session.call
          /\ session'.steps = session.steps /\ session'.leftover = session.leftover
          /\ session'.rebooted = (session.at # "closed") /\ session'.reported = session.reported
      BY <2>1 DEF LinkInv, Shape, SessionFields
    <2> QED
      BY <1>9, <2>2 DEF Restart, Reboot, Restarting
  <1>10. CASE UNCHANGED vars
    BY <1>10 DEF vars, line_vars, core_vars, Idling
  <1> QED
    BY <1>1, <1>2, <1>3, <1>4, <1>5, <1>6, <1>7, <1>8, <1>9, <1>10 DEF Next

\* The lengths of a script, and its calls.
LEMMA ScriptFacts ==
  ASSUME NEW s \in Pc!Shipped
  PROVE  /\ Lead(s) \in Nat /\ Len(Pc!Scripts[s]) \in Nat /\ Len(Pc!Scripts[s]) > Lead(s)
         /\ \A i \in 1 .. Len(Pc!Scripts[s]) : Fits(s, i, Pc!Scripts[s][i])
  BY ScriptsMade, LineLen DEF WellMade

-----------------------------------------------------------------------------
\* The session keeps to its script.
LEMMA FollowsOn == ASSUME LinkInv, Following, [Next]_vars PROVE Following'
  <1> USE ShippedAre
  <1>1. CASE Closing
    BY <1>1 DEF Closing, Following, Pc!Closed
  <1>2. CASE Opening \/ NextTest
    <2>1. /\ session'.at = "ready" /\ session'.i = 1
          /\ session'.script \in Pc!Shipped \cup {"user"}
      BY <1>2 DEF Opening, NextTest
    <2>2. session'.script \in Pc!Shipped => 1 <= Len(Pc!Scripts[session'.script])
      BY ScriptFacts
    <2> QED
      BY <2>1, <2>2 DEF Following
  <1>3. CASE Sending
    <2>1. /\ session.at = "ready" /\ session'.at = "waiting" /\ ~half'
          /\ session'.script = session.script /\ session'.i = session.i
          /\ session.script \in Pc!Shipped =>
               LET d == Pc!Scripts[session.script][session.i] IN
               /\ session'.call.cmd = d.cmd /\ session'.call.then = d.then
               /\ d.then # "instr" => session'.call = d
      BY <1>3 DEF Sending
    <2> QED
      BY <2>1 DEF Following
  <1>4. CASE Taking
    <2>1. /\ session.at = "waiting" /\ session'.at \in {"ready", "done"}
          /\ session'.script = session.script /\ UNCHANGED half
      BY <1>4 DEF Taking
    <2>2. ~half'
      BY <2>1 DEF Following
    <2>3. ASSUME session.script \in Pc!Shipped
          PROVE  /\ session'.i \in Nat \ {0}
                 /\ session'.at = "ready" => session'.i <= Len(Pc!Scripts[session.script])
      <3>1. PICK n : /\ \/ n = session.i + 1
                        \/ n = session.i + 2 /\ session.call.then = "instr"
                        \/ n = session.i - 2 /\ session.call.then = "again"
                     /\ session'.i = n
                     /\ \/ session'.at = "done" /\ n > Len(Pc!Scripts[session.script])
                        \/ session'.at = "ready" /\ ~(n > Len(Pc!Scripts[session.script]))
        BY <1>4, <2>3 DEF Taking
      <3> DEFINE i == session.i
                 l == Len(Pc!Scripts[session.script])
                 d == Lead(session.script)
      <3>2. i \in Nat \ {0} /\ i <= l /\ l \in Nat /\ d \in Nat
        BY <2>1, <2>3, ScriptFacts DEF Following
      <3>3. session.call.then = "again" => i > d + 2
        <4>1. i \in 1 .. l
          BY <3>2
        <4>2. session.call.then = Pc!Scripts[session.script][i].then
          BY <2>1, <2>3 DEF Following
        <4>3. Fits(session.script, i, Pc!Scripts[session.script][i])
          BY <2>3, <4>1, ScriptFacts
        <4> QED
          BY <4>2, <4>3 DEF Fits
      <3>4. n = i + 1 \/ n = i + 2 \/ (n = i - 2 /\ i > d + 2)
        BY <3>1, <3>3
      <3>5. session'.i = n /\ (session'.at = "ready" => ~(n > l))
        BY <3>1
      <3> HIDE DEF i, l, d
      <3>6. n \in Nat \ {0}
        BY <3>2, <3>4
      <3>7. ~(n > l) => n <= l
        BY <3>2, <3>6
      <3> QED
        BY <3>5, <3>6, <3>7 DEF l
    <2>4. session'.script \in Pc!Shipped \cup {"user"}
      BY <2>1 DEF Following
    <2> QED
      BY <2>1, <2>2, <2>3, <2>4 DEF Following
  <1>5. CASE Answering
    BY <1>5 DEF Answering, Following
  <1>6. CASE Beginning
    BY <1>6 DEF Beginning, Following
  <1>7. CASE Ending
    BY <1>7 DEF Ending, Following
  <1>8. CASE Restarting
    BY <1>8 DEF Restarting, Following
  <1>9. CASE Idling
    BY <1>9 DEF Idling, Following
  <1> QED
    BY <1>1, <1>2, <1>3, <1>4, <1>5, <1>6, <1>7, <1>8, <1>9, StepsSo

\* A line keeps its fields when it is written,
LEMMA FieldsAppend ==
  ASSUME NEW s, IsLine(s), NEW F, \A n \in 1 .. Len(s) : DOMAIN s[n] = F, NEW e, DOMAIN e = F
  PROVE  \A n \in 1 .. Len(Append(s, e)) : DOMAIN Append(s, e)[n] = F
  <1>1. Len(s) \in Nat /\ Len(Append(s, e)) = Len(s) + 1
    BY LineLen, AppendLine
  <1>2. \A n \in 1 .. Len(s) + 1 : n <= Len(s) => n \in 1 .. Len(s)
    BY <1>1
  <1> QED
    BY <1>1, <1>2, AppendAt

\* or disowned,
LEMMA FieldsDisowned ==
  ASSUME NEW s, IsLine(s), NEW F, "own" \in F, \A n \in 1 .. Len(s) : DOMAIN s[n] = F
  PROVE  \A n \in 1 .. Len(Pc!Disowned(s)) : DOMAIN Pc!Disowned(s)[n] = F
  <1>1. Len(Pc!Disowned(s)) = Len(s)
    BY DisownedLine
  <1>2. \A n \in 1 .. Len(s) : DOMAIN Pc!Disowned(s)[n] = F
    BY DisownedAt
  <1> QED
    BY <1>1, <1>2

\* and read.
LEMMA FieldsTail ==
  ASSUME NEW s, IsLine(s), s # <<>>, NEW F, \A n \in 1 .. Len(s) : DOMAIN s[n] = F
  PROVE  /\ DOMAIN Head(s) = F
         /\ \A n \in 1 .. Len(Tail(s)) : DOMAIN Tail(s)[n] = F
  <1>1. Len(s) \in Nat /\ Len(Tail(s)) = Len(s) - 1 /\ Len(s) > 0
    BY LineLen, TailLine
  <1>2. 1 \in 1 .. Len(s) /\ \A n \in 1 .. Len(s) - 1 : n + 1 \in 1 .. Len(s)
    BY <1>1
  <1> QED
    BY <1>1, <1>2, TailAt

\* So it is with every step.
LEMMA FormedOn == ASSUME LinkInv, Following, Formed, [Next]_vars PROVE Formed'
  <1> DEFINE W == \A n \in 1 .. Len(to_worker) : DOMAIN to_worker[n] = LineFields
             R == \A n \in 1 .. Len(to_pc) : DOMAIN to_pc[n] = ReplyFields
             L == DOMAIN fw.line = LineFields
  <1>1. IsLine(to_worker) /\ IsLine(to_pc) /\ DOMAIN fw = {"at", "line", "current"}
    BY DEF LinkInv, Shape
  <1>2. Len(<<>>) = 0 /\ \A n \in 1 .. 0 : FALSE
    OBVIOUS
  <1>3. DOMAIN Reading.line = LineFields
    BY DEF Reading, NoLine, LineFields
  <1>4. CASE Closing
    <2>1. "own" \in LineFields /\ "own" \in ReplyFields
      BY DEF LineFields, ReplyFields
    <2>3. W'
      BY <1>1, <1>4, <2>1, FieldsDisowned DEF Closing, Formed
    <2>4. R'
      <3>1. CASE to_pc' = Pc!Disowned(to_pc)
        BY <1>1, <2>1, <3>1, FieldsDisowned DEF Formed
      <3>2. CASE to_pc # <<>> /\ to_pc' = Pc!Disowned(Tail(to_pc))
        <4>1. IsLine(Tail(to_pc)) /\ \A n \in 1 .. Len(Tail(to_pc)) : DOMAIN Tail(to_pc)[n] = ReplyFields
          BY <1>1, <3>2, FieldsTail, TailLine DEF Formed
        <4> DEFINE t == Tail(to_pc)
        <4> HIDE DEF t
        <4>2. IsLine(t) /\ \A n \in 1 .. Len(t) : DOMAIN t[n] = ReplyFields
          BY <4>1 DEF t
        <4>3. \A n \in 1 .. Len(Pc!Disowned(t)) : DOMAIN Pc!Disowned(t)[n] = ReplyFields
          BY <2>1, <4>2, FieldsDisowned
        <4>4. to_pc' = Pc!Disowned(t)
          BY <3>2 DEF t
        <4> QED
          BY <4>3, <4>4
      <3> QED
        BY <1>4, <3>1, <3>2 DEF Closing
    <2>5. L'
      BY <1>1, <1>4 DEF Closing, Formed
    <2> QED
      BY <2>3, <2>4, <2>5 DEF Formed
  <1>5. CASE Opening
    <2>1. PICK k \in 0 .. Len(to_pc) : /\ to_pc' = SubSeq(to_pc, k + 1, Len(to_pc))
                                       /\ UNCHANGED <<to_worker, fw>>
      BY <1>5 DEF Opening
    <2>2. Len(to_pc') = Len(to_pc) - k /\ Len(to_pc) \in Nat
          /\ \A n \in 1 .. Len(to_pc) - k : to_pc'[n] = to_pc[n + k]
      BY <1>1, <2>1, DropLine, DropAt, LineLen
    <2>3. \A n \in 1 .. Len(to_pc) - k : n + k \in 1 .. Len(to_pc)
      BY <2>2
    <2>4. R'
      BY <2>2, <2>3 DEF Formed
    <2> QED
      BY <2>1, <2>4 DEF Formed
  <1>6. CASE Sending
    <2>1. PICK e : DOMAIN e = LineFields /\ to_worker' = Append(to_worker, e) /\ UNCHANGED <<to_pc, fw>>
      BY <1>6 DEF Sending
    <2>2. W'
      BY <1>1, <2>1, FieldsAppend DEF Formed
    <2> QED
      BY <2>1, <2>2 DEF Formed
  <1>7. CASE Taking
    <2>1. to_pc # <<>> /\ to_pc' = Tail(to_pc) /\ UNCHANGED <<to_worker, fw>>
      BY <1>7 DEF Taking
    <2>2. R'
      BY <1>1, <2>1, FieldsTail DEF Formed
    <2> QED
      BY <2>1, <2>2 DEF Formed
  <1>8. CASE Answering
    <2>1. PICK e : /\ DOMAIN e = ReplyFields /\ to_pc' = Append(to_pc, e)
                   /\ to_worker # <<>> /\ to_worker' = Tail(to_worker) /\ UNCHANGED fw
      BY <1>8 DEF Answering
    <2>2. R'
      BY <1>1, <2>1, FieldsAppend DEF Formed
    <2>3. W'
      BY <1>1, <2>1, FieldsTail DEF Formed
    <2> QED
      BY <2>1, <2>2, <2>3 DEF Formed
  <1>9. CASE Beginning
    <2>1. /\ to_worker # <<>> /\ to_worker' = Tail(to_worker) /\ UNCHANGED to_pc
          /\ fw'.line = Head(to_worker) \/ fw'.line = fw.line
      BY <1>9 DEF Beginning, Line
    <2>2. W' /\ L'
      BY <1>1, <2>1, FieldsTail DEF Formed
    <2> QED
      BY <2>1, <2>2 DEF Formed
  <1>10. CASE Ending
    <2>1. PICK e : /\ DOMAIN e = ReplyFields /\ to_pc' = Append(to_pc, e)
                   /\ fw' = Reading /\ UNCHANGED to_worker
      BY <1>10 DEF Ending
    <2>2. R'
      BY <1>1, <2>1, FieldsAppend DEF Formed
    <2> QED
      BY <1>3, <2>1, <2>2 DEF Formed
  <1>11. CASE Restarting
    BY <1>2, <1>3, <1>11 DEF Restarting, Formed
  <1>12. CASE NextTest
    BY <1>12 DEF NextTest, Formed
  <1>13. CASE Idling
    BY <1>13 DEF Idling, Formed
  <1> QED
    BY <1>4, <1>5, <1>6, <1>7, <1>8, <1>9, <1>10, <1>11, <1>12, <1>13, StepsSo

\* Nothing before the first command: the core is stopped already.
LEMMA StoppedNow ==
  ASSUME NEW s, NEW r
  PROVE  Stopped(s, 0, r) <=> ~r
  <1>1. 0 .. 0 = {0} /\ \A j \in (0 + 1) .. 0 : FALSE
    OBVIOUS
  <1> QED
    BY <1>1 DEF Stopped

\* The first line is worked off, whatever becomes of the others.
LEMMA FaultsTail ==
  ASSUME NEW s, IsLine(s), s # <<>>, NEW r, NEW q,
         q => r \/ s[1].cmd = "START", s[1].cmd = "STOP" => ~q,
         \A n \in 1 .. Len(s) :
           s[n].cmd = "FAULT_MEM" /\ s[n].script \in Pc!Shipped => Stopped(s, n - 1, r)
  PROVE  /\ \A n \in 1 .. Len(Tail(s)) :
              Tail(s)[n].cmd = "FAULT_MEM" /\ Tail(s)[n].script \in Pc!Shipped
                => Stopped(Tail(s), n - 1, q)
         /\ Stopped(s, Len(s), r) => Stopped(Tail(s), Len(Tail(s)), q)
  <1>1. /\ Len(s) \in Nat /\ Len(Tail(s)) = Len(s) - 1 /\ Len(s) > 0
        /\ \A i \in 1 .. Len(s) - 1 : Tail(s)[i] = s[i + 1]
    BY LineLen, TailLine, TailAt
  <1>2. ASSUME NEW n \in 1 .. Len(Tail(s)),
               Tail(s)[n].cmd = "FAULT_MEM", Tail(s)[n].script \in Pc!Shipped
        PROVE  Stopped(Tail(s), n - 1, q)
    <2>1. PICK m : m = n + 1
      OBVIOUS
    <2>2. m \in 1 .. Len(s) /\ m - 1 = n /\ n \in 1 .. Len(s) /\ Tail(s)[n] = s[m]
      BY <1>1, <2>1
    <2>3. Stopped(s, n, r)
      BY <1>2, <2>2
    <2> QED
      BY <2>2, <2>3, StoppedTail
  <1>3. ASSUME Stopped(s, Len(s), r)
        PROVE  Stopped(Tail(s), Len(Tail(s)), q)
    <2>1. Len(s) \in 1 .. Len(s)
      BY <1>1
    <2> QED
      BY <1>1, <1>3, <2>1, StoppedTail
  <1> QED
    BY <1>2, <1>3

\* The call a session waits for: an acknowledgement, then a value.
LEMMA CallAt ==
  ASSUME Following, session.at = "waiting", session.script \in Pc!Shipped
  PROVE  /\ session.i \in Nat \ {0} /\ session.i <= Len(Pc!Scripts[session.script])
         /\ session.i <= Lead(session.script) => session.call.then = "ack"
         /\ session.i = Lead(session.script) + 1 => session.call.then \notin {"ack", "again"}
  <1> DEFINE s == session.script
             c == Pc!Scripts[s]
  <1>1. WellMade(s, c)
    BY ScriptsMade
  <1>2. session.i \in Nat \ {0} /\ session.i <= Len(c) /\ session.call.then = c[session.i].then
    BY DEF Following
  <1>3. Lead(s) \in Nat
    BY ScriptFacts
  <1>4. session.i <= Lead(s) => session.i \in 1 .. Lead(s)
    BY <1>2, <1>3
  <1>5. /\ \A i \in 1 .. Lead(s) : c[i].then = "ack"
        /\ c[Lead(s) + 1].then \notin {"ack", "again"}
    BY <1>1 DEF WellMade, IsAck
  <1> HIDE DEF s, c
  <1>6. /\ session.i <= Lead(s) => session.call.then = "ack"
        /\ session.i = Lead(s) + 1 => session.call.then \notin {"ack", "again"}
    BY <1>2, <1>4, <1>5
  <1> QED
    BY <1>2, <1>6 DEF s, c

\* Every step keeps the core stopped for the faults to come.
LEMMA FaultsOn ==
  ASSUME LinkInv, Following, Formed, FaultsFollowStops, [Next]_vars
  PROVE  FaultsFollowStops'
  <1> DEFINE Q == \A n \in 1 .. Len(to_worker) :
                    to_worker[n].cmd = "FAULT_MEM" /\ to_worker[n].script \in Pc!Shipped
                      => Stopped(to_worker, n - 1, running)
             Past == /\ session.script \in Halting
                     /\ \/ session.at = "ready" /\ session.i > StopAt(session.script)
                        \/ session.at = "waiting" /\ session.i >= StopAt(session.script)
             All == Stopped(to_worker, Len(to_worker), running)
  <1>1. /\ IsLine(to_worker) /\ Len(to_worker) \in Nat
        /\ DOMAIN fw = {"at", "line", "current"} /\ DOMAIN fw.line = LineFields
    BY LineLen DEF LinkInv, Shape, Formed
  <1>2. ASSUME NEW s \in Halting
        PROVE  /\ s \in Pc!Shipped /\ StopAt(s) \in Nat /\ StopAt(s) > 1 /\ Lead(s) \in Nat
               /\ StopAt(s) <= Lead(s) /\ Pc!Scripts[s][StopAt(s)].cmd = "STOP"
    <2>1. s \in Pc!Shipped
      BY ShippedAre DEF Halting
    <2>2. StopAt(s) \in 2 .. Lead(s) /\ Pc!Scripts[s][StopAt(s)].cmd = "STOP" /\ Lead(s) \in Nat
      BY <2>1, ScriptsMade DEF WellMade
    <2> QED
      BY <2>1, <2>2
  <1>3. Q /\ (Past => All) /\ FaultsAreAtomic
    BY DEF FaultsFollowStops
  <1>5. ASSUME Q', (Past => All)', FaultsAreAtomic'
        PROVE  FaultsFollowStops'
    BY <1>5 DEF FaultsFollowStops
  <1>6. Reading.at = "readline"
    BY DEF Reading
  <1>8. CASE Closing
    <2>1. /\ to_worker' = Pc!Disowned(to_worker) /\ UNCHANGED running
          /\ session' = Pc!Closed /\ fw' = [fw EXCEPT !.line.own = FALSE]
      BY <1>8 DEF Closing, core_vars
    <2>2. /\ Len(to_worker') = Len(to_worker)
          /\ \A n \in 1 .. Len(to_worker) :
               to_worker'[n].cmd = to_worker[n].cmd /\ to_worker'[n].script = to_worker[n].script
      <3>1. Len(Pc!Disowned(to_worker)) = Len(to_worker)
        BY <1>1, DisownedLine
      <3>2. "own" \in LineFields /\ {"cmd", "script"} \subseteq LineFields \ {"own"}
        BY DEF LineFields
      <3>3. \A n \in 1 .. Len(to_worker) : DOMAIN to_worker[n] = LineFields
        BY DEF Formed
      <3>4. \A n \in 1 .. Len(to_worker) : \A f \in LineFields \ {"own"} :
              Pc!Disowned(to_worker)[n][f] = to_worker[n][f]
        BY <1>1, <3>2, <3>3, DisownedAt
      <3> QED
        BY <2>1, <3>1, <3>2, <3>4
    <2>3. ASSUME NEW n \in 1 .. Len(to_worker), Stopped(to_worker, n - 1, running)
          PROVE  Stopped(to_worker', n - 1, running')
      <3>1. n - 1 \in Nat /\ \A i \in 1 .. n - 1 : i \in 1 .. Len(to_worker)
        BY <1>1
      <3>2. \A i \in 1 .. n - 1 : to_worker'[i].cmd = to_worker[i].cmd
        BY <2>2, <3>1
      <3> QED
        BY <2>1, <2>3, <3>1, <3>2, StoppedSame
    <2>4. Q'
      BY <1>3, <2>2, <2>3
    <2>5. session'.script \notin Halting
      BY <2>1, ScriptAssumption DEF Pc!Closed, Halting, Pc!Tests
    <2>6. fw'.at = fw.at /\ fw'.line.script = fw.line.script
      BY <1>1, <2>1 DEF LineFields
    <2>7. FaultsAreAtomic'
      BY <1>3, <2>1, <2>6 DEF FaultsAreAtomic
    <2> QED
      BY <1>5, <2>4, <2>5, <2>7
  <1>9. CASE Opening
    <2>1. session'.at = "ready" /\ session'.i = 1 /\ UNCHANGED <<to_worker, running, fw>>
      BY <1>9 DEF Opening, core_vars
    <2>2. ~Past'
      BY <1>2, <2>1
    <2>3. Q' /\ FaultsAreAtomic'
      BY <1>3, <2>1 DEF FaultsAreAtomic
    <2> QED
      BY <1>5, <2>2, <2>3
  <1>10. CASE Sending
    <2>1. PICK c, e :
            /\ session.at = "ready" /\ session'.at = "waiting" /\ session'.call = c
            /\ session'.script = session.script /\ session'.i = session.i
            /\ session.script \in Pc!Shipped =>
                 LET d == Pc!Scripts[session.script][session.i] IN c.cmd = d.cmd /\ c.then = d.then
            /\ e.script = session.script
            /\ \/ e.cmd = c.cmd /\ e.args = c.args
               \/ half /\ e.cmd = "garbled"
            /\ to_worker' = Append(to_worker, e)
            /\ UNCHANGED <<to_pc, fw, running>>
      BY <1>10 DEF Sending, core_vars
    <2>2. /\ IsLine(to_worker') /\ Len(to_worker') = Len(to_worker) + 1
          /\ \A i \in 1 .. Len(to_worker) + 1 :
               to_worker'[i] = IF i <= Len(to_worker) THEN to_worker[i] ELSE e
      BY <1>1, <2>1, AppendLine, AppendAt
    <2>3. \A i \in 1 .. Len(to_worker) : i \in 1 .. Len(to_worker) + 1 /\ i <= Len(to_worker)
      BY <1>1
    <2>4. ASSUME NEW n \in 0 .. Len(to_worker), Stopped(to_worker, n, running)
          PROVE  Stopped(to_worker', n, running')
      <3>1. n \in Nat /\ \A i \in 1 .. n : i \in 1 .. Len(to_worker)
        BY <1>1
      <3>2. \A i \in 1 .. n : to_worker'[i].cmd = to_worker[i].cmd
        BY <2>2, <2>3, <3>1
      <3> QED
        BY <2>1, <2>4, <3>1, <3>2, StoppedSame
    <2>5. PICK m : m = Len(to_worker) + 1
      OBVIOUS
    <2>6. m \in 1 .. Len(to_worker) + 1 /\ ~(m <= Len(to_worker)) /\ m - 1 = Len(to_worker)
      BY <1>1, <2>5
    <2>7. to_worker'[m] = e
      BY <2>2, <2>6
    <2>8. ASSUME session.script \in Pc!Shipped
          PROVE  /\ Fits(session.script, session.i, Pc!Scripts[session.script][session.i])
                 /\ session.i \in Nat \ {0}
      <3>1. session.i \in 1 .. Len(Pc!Scripts[session.script])
        BY <2>1, <2>8, ScriptFacts DEF Following
      <3> QED
        BY <2>8, <3>1, ScriptFacts
    <2>9. Q'
      <3> SUFFICES ASSUME NEW n \in 1 .. Len(to_worker'),
                          to_worker'[n].cmd = "FAULT_MEM", to_worker'[n].script \in Pc!Shipped
                   PROVE  Stopped(to_worker', n - 1, running')
        OBVIOUS
      <3>1. CASE n <= Len(to_worker)
        <4>1. n \in 1 .. Len(to_worker) /\ n - 1 \in 0 .. Len(to_worker) /\ n \in 1 .. Len(to_worker) + 1
          BY <1>1, <3>1
        <4>2. to_worker'[n] = to_worker[n]
          BY <2>2, <3>1, <4>1
        <4>3. Stopped(to_worker, n - 1, running)
          BY <1>3, <4>1, <4>2
        <4> QED
          BY <2>4, <4>1, <4>3
      <3>2. CASE ~(n <= Len(to_worker))
        <4>1. n = m
          BY <1>1, <2>2, <2>5, <3>2
        <4>2. e.cmd = "FAULT_MEM" /\ session.script \in Pc!Shipped
          BY <2>1, <2>7, <4>1
        <4>3. Pc!Scripts[session.script][session.i].cmd = "FAULT_MEM"
          BY <2>1, <4>2
        <4>4. session.script \in Halting /\ session.i > StopAt(session.script)
          BY <2>8, <4>2, <4>3 DEF Fits, Halting, StopAt
        <4>5. All
          BY <1>3, <2>1, <4>4
        <4>6. Len(to_worker) \in 0 .. Len(to_worker)
          BY <1>1
        <4> QED
          BY <2>4, <2>6, <4>1, <4>5, <4>6
      <3> QED
        BY <3>1, <3>2
    <2>10. (Past => All)'
      <3> SUFFICES ASSUME Past'
                   PROVE  Stopped(to_worker', Len(to_worker'), running')
        OBVIOUS
      <3> DEFINE S == StopAt(session.script)
      <3>1. /\ session.script \in Halting /\ session.script \in Pc!Shipped
            /\ session.i >= S /\ session.i \in Nat
        BY <1>2, <2>1, <2>8
      <3>2. CASE session.i > S
        <4>1. All
          BY <1>3, <2>1, <3>1, <3>2
        <4>2. Len(to_worker) \in 0 .. Len(to_worker)
          BY <1>1
        <4>3. Stopped(to_worker', Len(to_worker), running')
          BY <2>4, <4>1, <4>2
        <4>4. e.cmd # "START"
          BY <2>1, <2>8, <3>1 DEF Fits
        <4> QED
          BY <1>1, <2>2, <2>5, <2>7, <4>3, <4>4, StoppedOn
      <3>3. CASE ~(session.i > S)
        <4>1. session.i = S /\ session.i > 1
          BY <1>2, <3>1, <3>3
        <4>2. ~half
          BY <2>1, <3>1, <4>1 DEF Following
        <4>3. e.cmd = "STOP"
          BY <1>2, <2>1, <3>1, <4>1, <4>2
        <4> QED
          BY <1>1, <2>2, <2>5, <2>7, <4>3, StoppedOn
      <3> QED
        BY <3>2, <3>3
    <2>11. FaultsAreAtomic'
      BY <1>3, <2>1 DEF FaultsAreAtomic
    <2> QED
      BY <1>5, <2>9, <2>10, <2>11
  <1>11. CASE Taking
    <2>1. /\ session.at = "waiting" /\ session'.script = session.script
          /\ UNCHANGED <<to_worker, fw, running>>
      BY <1>11 DEF Taking, core_vars
    <2>2. ASSUME Past'
          PROVE  Past
      <3> DEFINE S == StopAt(session.script)
                 d == Lead(session.script)
      <3>1. /\ session.script \in Halting /\ session.script \in Pc!Shipped
            /\ session'.i > S /\ session'.at = "ready"
        BY <1>2, <1>11, <2>1, <2>2 DEF Taking
      <3>2. PICK n : /\ \/ n = session.i + 1
                        \/ n = session.i + 2 /\ session.call.then = "instr"
                        \/ n = session.i - 2 /\ session.call.then = "again"
                     /\ session'.i = n
        BY <1>11, <3>1 DEF Taking
      <3>3. session.i \in 1 .. Len(Pc!Scripts[session.script]) /\ session.i \in Nat
        BY <2>1, <3>1, ScriptFacts DEF Following
      <3>4. session.i <= d => session.call.then = "ack"
        BY <2>1, <3>1, CallAt
      <3> DEFINE i == session.i
      <3>5. /\ i \in Nat /\ S \in Nat /\ d \in Nat /\ S <= d /\ n > S
            /\ i <= d => n = i + 1
        BY <1>2, <3>1, <3>2, <3>3, <3>4
      <3> HIDE DEF i, S, d
      <3>6. i >= S
        BY <3>5
      <3> QED
        BY <2>1, <3>1, <3>6 DEF i, S
    <2>3. Q' /\ All' = All /\ FaultsAreAtomic'
      BY <1>3, <2>1 DEF FaultsAreAtomic
    <2> QED
      BY <1>3, <1>5, <2>2, <2>3
  <1>12. CASE NextTest
    <2>1. /\ session'.at = "ready" /\ session'.i = 1 /\ UNCHANGED <<to_worker, fw, running>>
      BY <1>12 DEF NextTest, core_vars
    <2>3. ~Past'
      BY <1>2, <2>1
    <2>2. Q' /\ FaultsAreAtomic'
      BY <1>3, <2>1 DEF FaultsAreAtomic
    <2> QED
      BY <1>5, <2>2, <2>3
  <1>13. CASE Answering
    <2>1. /\ fw.at = "readline" /\ to_worker # <<>> /\ to_worker' = Tail(to_worker)
          /\ running' => running \/ Line.cmd = "START"
          /\ Line.cmd = "STOP" => ~running'
          /\ UNCHANGED <<session, fw>>
      BY <1>13 DEF Answering
    <2>2. Line = to_worker[1]
      BY <1>1, <2>1, TailAt DEF Line
    <2>3. Q' /\ (All => All')
      BY <1>1, <1>3, <2>1, <2>2, FaultsTail
    <2>4. Past' = Past /\ FaultsAreAtomic'
      BY <2>1 DEF FaultsAreAtomic
    <2> QED
      BY <1>3, <1>5, <2>3, <2>4
  <1>14. CASE Beginning
    <2>1. /\ fw.at = "readline" /\ to_worker # <<>> /\ to_worker' = Tail(to_worker)
          /\ \/ Line.cmd = "FAULT_MEM" /\ fw'.at = "fault_mem" /\ fw'.line = Line
             \/ Line.cmd # "STOP" /\ fw'.at = "aborted" /\ fw'.line = fw.line
          /\ UNCHANGED <<session, running>>
      BY <1>14 DEF Beginning
    <2>2. Line = to_worker[1] /\ Line.cmd # "STOP"
      BY <1>1, <2>1, TailAt DEF Line
    <2>3. Q' /\ (All => All')
      <3>1. running' => running \/ to_worker[1].cmd = "START"
        BY <2>1
      <3>2. to_worker[1].cmd = "STOP" => ~running'
        BY <2>2
      <3> QED
        BY <1>1, <1>3, <2>1, <3>1, <3>2, FaultsTail
    <2>4. Past' = Past
      BY <2>1
    <2>5. ASSUME fw'.at = "fault_mem", fw'.line.script \in Pc!Shipped
          PROVE  ~running'
      <3>1. fw'.line = Line /\ Line.cmd = "FAULT_MEM"
        BY <2>1, <2>5
      <3>2. 1 \in 1 .. Len(to_worker) /\ 1 - 1 = 0
        BY <1>1, <2>1, TailLine
      <3>3. Stopped(to_worker, 0, running)
        BY <1>3, <2>2, <2>5, <3>1, <3>2
      <3>4. ~running
        BY <3>3, StoppedNow
      <3> QED
        BY <2>1, <3>4
    <2>6. FaultsAreAtomic'
      BY <2>5 DEF FaultsAreAtomic
    <2> QED
      BY <1>3, <1>5, <2>3, <2>4, <2>6
  <1>15. CASE Ending
    <2>1. fw'.at = "readline" /\ UNCHANGED <<session, to_worker, running>>
      BY <1>6, <1>15 DEF Ending
    <2>2. Q' /\ (Past => All)' /\ FaultsAreAtomic'
      BY <1>3, <2>1 DEF FaultsAreAtomic
    <2> QED
      BY <1>5, <2>2
  <1>16. CASE Restarting
    <2>1. to_worker' = <<>> /\ ~running' /\ fw'.at = "readline"
      BY <1>6, <1>16 DEF Restarting
    <2>2. Len(to_worker') = 0 /\ \A n \in 1 .. 0 : FALSE
      BY <2>1
    <2>3. Q' /\ All'
      BY <2>1, <2>2, StoppedNow
    <2>4. FaultsAreAtomic'
      BY <2>1 DEF FaultsAreAtomic
    <2> QED
      BY <1>5, <2>3, <2>4
  <1>17. CASE Idling
    <2>1. UNCHANGED <<session, to_worker, fw, running>>
      BY <1>17 DEF Idling
    <2>2. Q' /\ (Past => All)' /\ FaultsAreAtomic'
      BY <1>3, <2>1 DEF FaultsAreAtomic
    <2> QED
      BY <1>5, <2>2
  <1> QED
    BY <1>8, <1>9, <1>10, <1>11, <1>12, <1>13, <1>14, <1>15, <1>16, <1>17, StepsSo

\* The invariant holds at the start,
LEMMA FaultsStart == ASSUME Init PROVE FaultInv
  <1>1. LinkInv
    BY InitLink
  <1>2. /\ to_worker = <<>> /\ to_pc = <<>> /\ fw = Reading /\ session = Pc!Closed
    BY DEF Init, LineInit, FirmwareInit
  <1>3. Len(<<>>) = 0 /\ \A n \in 1 .. 0 : FALSE
    OBVIOUS
  <1>4. Following
    BY <1>2 DEF Following, Pc!Closed
  <1>5. Formed
    BY <1>2, <1>3 DEF Formed, Reading, NoLine, LineFields
  <1>6. FaultsFollowStops
    BY <1>2, <1>3 DEF FaultsFollowStops, FaultsAreAtomic, Reading, Pc!Closed
  <1> QED
    BY <1>1, <1>4, <1>5, <1>6 DEF FaultInv

\* and every step keeps it.
LEMMA FaultsStep == ASSUME FaultInv, [Next]_vars PROVE FaultInv'
  BY NextKeeps, FollowsOn, FormedOn, FaultsOn DEF FaultInv

(***************************************************************************)
(* FAULT_MEM of main.c reads and writes the word in two transfers, and no  *)
(* script of the master PC sends it unless the core is stopped by then,    *)
(* whatever was left on the line and however often the worker restarts.    *)
(***************************************************************************)
THEOREM FaultsStayAtomic == Spec => []FaultsAreAtomic
  <1>1. Init => FaultInv
    BY FaultsStart
  <1>2. FaultInv /\ [Next]_vars => FaultInv'
    BY FaultsStep
  <1>3. FaultInv => FaultsAreAtomic
    BY DEF FaultInv, FaultsFollowStops
  <1> QED
    BY <1>1, <1>2, <1>3, PTL DEF Spec

-----------------------------------------------------------------------------
(***************************************************************************)
(* The values a session takes for answers.  What other sessions left is in *)
(* front of what this one sent: `others are within the first m places',    *)
(* and the script begins with at least m acknowledgements.                 *)
(***************************************************************************)
BacklogFits == MaxBacklog \in Nat /\ \A s \in Pc!Shipped : MaxBacklog <= Lead(s)

NoneOwn ==
  /\ \A n \in 1 .. Len(to_worker) : ~to_worker[n].own
  /\ \A n \in 1 .. Len(to_pc) : ~to_pc[n].own
  /\ ~fw.line.own

Others(m) ==
  /\ \A n \in 1 .. Len(to_pc) : ~to_pc[n].own => n <= m
  /\ fw.at = "fault_mem" /\ ~fw.line.own => Len(to_pc) + 1 <= m
  /\ \A n \in 1 .. Len(to_worker) : ~to_worker[n].own => Len(to_pc) + Pending + n <= m

InScript == session.at \in {"ready", "waiting"} /\ session.script \in Pc!Shipped

OthersFirst ==
  /\ session.at = "closed" => NoneOwn
  /\ InScript => Others(Lead(session.script) + 1 - session.i)

\* A value of this session is the answer to its last command, and the last reply.
Asking == session.at = "waiting" /\ session.call.then \notin {"ack", "again"}
ValuesLast ==
  InScript =>
    /\ \A n \in 1 .. Len(to_pc) : to_pc[n].own /\ to_pc[n].kind = "OK value" =>
         /\ Asking /\ to_pc[n].to = <<session.call.cmd, session.call.args>>
         /\ n = Len(to_pc) /\ Len(to_worker) = 0 /\ Pending = 0
    /\ \A n \in 1 .. Len(to_worker) : to_worker[n].own /\ to_worker[n].cmd \in ValueCmds =>
         /\ Asking /\ to_worker[n].cmd = session.call.cmd /\ to_worker[n].args = session.call.args
         /\ n = Len(to_worker)

\* Once a value was taken nothing else is under way.
Alone ==
  session.script \in Pc!Shipped =>
    /\ session.at = "done" => UnderWay = 0
    /\ session.at = "ready" /\ session.i > Lead(session.script) + 1 => UnderWay = 0
    /\ session.at = "waiting" /\ session.i > Lead(session.script) + 1 => UnderWay <= 1

ValueInv == LinkInv /\ Following /\ Formed /\ OthersFirst /\ ValuesLast /\ Alone

\* The numbers these are about.
LEMMA Lengths ==
  ASSUME LinkInv
  PROVE  /\ Len(to_worker) \in Nat /\ Len(to_pc) \in Nat /\ Pending \in {0, 1}
         /\ IsLine(to_worker) /\ IsLine(to_pc) /\ UnderWay \in Nat
         /\ fw.at = "fault_mem" <=> Pending = 1
  <1>1. Len(to_worker) \in Nat /\ Len(to_pc) \in Nat /\ IsLine(to_worker) /\ IsLine(to_pc)
    BY LineLen DEF LinkInv, Shape
  <1>2. Pending \in {0, 1} /\ (fw.at = "fault_mem" <=> Pending = 1)
    BY DEF Pending
  <1> QED
    BY <1>1, <1>2 DEF UnderWay

\* Nothing under way: no reply, no command.
LEMMA NothingLeft ==
  ASSUME LinkInv, UnderWay = 0
  PROVE  Len(to_worker) = 0 /\ Len(to_pc) = 0 /\ Pending = 0
  <1> DEFINE a == Len(to_worker)
             b == Pending
             c == Len(to_pc)
  <1>1. a \in Nat /\ b \in {0, 1} /\ c \in Nat /\ a + b + c = 0
    BY Lengths DEF UnderWay
  <1> HIDE DEF a, b, c
  <1>2. a = 0 /\ b = 0 /\ c = 0
    BY <1>1
  <1> QED
    BY <1>2 DEF a, b, c

\* What is under way after each kind of step.
LEMMA UnderWayOn ==
  ASSUME LinkInv, LinkInv'
  PROVE  /\ UnderWay \in Nat /\ UnderWay' \in Nat
         /\ Opening => UnderWay' = session'.leftover
         /\ Sending => UnderWay' = UnderWay + 1
         /\ Taking => UnderWay' = UnderWay - 1
         /\ NextTest => UnderWay' = UnderWay
         /\ Answering \/ Beginning \/ Ending \/ Restarting \/ Idling => UnderWay' <= UnderWay
  <1>1. /\ Len(to_worker) \in Nat /\ Len(to_pc) \in Nat /\ Pending \in {0, 1}
        /\ IsLine(to_worker) /\ IsLine(to_pc) /\ UnderWay \in Nat
        /\ (fw.at = "fault_mem" <=> Pending = 1)
    BY Lengths
  <1>2. UnderWay' \in Nat /\ Pending' \in {0, 1} /\ (fw'.at = "fault_mem" <=> Pending' = 1)
    <2>1. Len(to_worker') \in Nat /\ Len(to_pc') \in Nat
      BY LineLen DEF LinkInv, Shape
    <2>2. Pending' \in {0, 1} /\ (fw'.at = "fault_mem" <=> Pending' = 1)
      BY DEF Pending
    <2> QED
      BY <2>1, <2>2 DEF UnderWay
  <1>3. Opening => UnderWay' = session'.leftover
    <2> SUFFICES ASSUME Opening PROVE UnderWay' = session'.leftover
      OBVIOUS
    <2>1. PICK k \in 0 .. Len(to_pc) :
            /\ to_pc' = SubSeq(to_pc, k + 1, Len(to_pc))
            /\ session'.leftover = Len(to_pc) - k + Len(to_worker) + Pending
            /\ UNCHANGED <<to_worker, fw>>
      BY DEF Opening
    <2>2. Len(to_pc') = Len(to_pc) - k /\ Pending' = Pending
      BY <1>1, <2>1, DropLine DEF Pending
    <2>3. Len(to_worker') + Pending' + Len(to_pc') = session'.leftover
      <3> DEFINE w == Len(to_worker)
                 q == Pending
                 r == Len(to_pc')
      <3>1. /\ w \in Nat /\ q \in {0, 1} /\ r \in Int
            /\ session'.leftover = r + w + q /\ to_worker' = to_worker /\ Pending' = q
        BY <1>1, <2>1, <2>2
      <3> HIDE DEF q, r
      <3>2. w + q + r = r + w + q
        BY <3>1
      <3> QED
        BY <3>1, <3>2 DEF r
    <2> QED
      BY <2>3 DEF UnderWay
  <1>4. Sending => UnderWay' = UnderWay + 1
    <2> SUFFICES ASSUME Sending PROVE UnderWay' = UnderWay + 1
      OBVIOUS
    <2>1. PICK e : to_worker' = Append(to_worker, e) /\ UNCHANGED <<to_pc, fw>>
      BY DEF Sending
    <2>2. Len(to_worker') = Len(to_worker) + 1 /\ Pending' = Pending
      BY <1>1, <2>1, AppendLine DEF Pending
    <2> QED
      BY <1>1, <2>1, <2>2 DEF UnderWay
  <1>5. Taking => UnderWay' = UnderWay - 1
    <2> SUFFICES ASSUME Taking PROVE UnderWay' = UnderWay - 1
      OBVIOUS
    <2>1. to_pc # <<>> /\ to_pc' = Tail(to_pc) /\ UNCHANGED <<to_worker, fw>>
      BY DEF Taking
    <2>2. Len(to_pc') = Len(to_pc) - 1 /\ Pending' = Pending
      BY <1>1, <2>1, TailLine DEF Pending
    <2> QED
      BY <1>1, <2>1, <2>2, Taken DEF UnderWay
  <1>6. NextTest => UnderWay' = UnderWay
    BY DEF NextTest, UnderWay, Pending
  <1>7. Answering => UnderWay' <= UnderWay
    <2> SUFFICES ASSUME Answering PROVE UnderWay' <= UnderWay
      OBVIOUS
    <2>1. PICK e : /\ fw.at = "readline" /\ to_worker # <<>> /\ to_worker' = Tail(to_worker)
                   /\ to_pc' = Append(to_pc, e) /\ UNCHANGED fw
      BY DEF Answering
    <2>2. /\ Len(to_worker') = Len(to_worker) - 1 /\ Len(to_pc') = Len(to_pc) + 1
          /\ Pending = 0 /\ Pending' = 0
      BY <1>1, <2>1, AppendLine, TailLine DEF Pending
    <2>3. UnderWay' = UnderWay
      BY <1>1, <2>2, Moved DEF UnderWay
    <2> QED
      BY <1>1, <2>3
  <1>8. Beginning => UnderWay' <= UnderWay
    <2> SUFFICES ASSUME Beginning PROVE UnderWay' <= UnderWay
      OBVIOUS
    <2>1. /\ fw.at = "readline" /\ to_worker # <<>> /\ to_worker' = Tail(to_worker)
          /\ UNCHANGED to_pc
      BY DEF Beginning
    <2>2. Len(to_worker') = Len(to_worker) - 1 /\ Pending = 0
      BY <1>1, <2>1, TailLine DEF Pending
    <2> QED
      BY <1>1, <1>2, <2>1, <2>2 DEF UnderWay
  <1>9. Ending => UnderWay' <= UnderWay
    <2> SUFFICES ASSUME Ending PROVE UnderWay' <= UnderWay
      OBVIOUS
    <2>1. PICK e : /\ fw.at = "fault_mem" /\ fw' = Reading /\ to_pc' = Append(to_pc, e)
                   /\ UNCHANGED to_worker
      BY DEF Ending
    <2>2. Len(to_pc') = Len(to_pc) + 1 /\ Pending = 1 /\ Pending' = 0
      BY <1>1, <2>1, AppendLine DEF Pending, Reading
    <2> QED
      BY <1>1, <2>1, <2>2 DEF UnderWay
  <1>10. Restarting => UnderWay' <= UnderWay
    <2> SUFFICES ASSUME Restarting PROVE UnderWay' <= UnderWay
      OBVIOUS
    <2>1. to_worker' = <<>> /\ fw' = Reading /\ UNCHANGED to_pc
      BY DEF Restarting
    <2>2. Len(to_worker') = 0 /\ Pending' = 0
      BY <2>1 DEF Pending, Reading
    <2> QED
      BY <1>1, <2>1, <2>2 DEF UnderWay
  <1>11. Idling => UnderWay' <= UnderWay
    <2>1. Idling => UnderWay' = UnderWay
      BY DEF Idling, UnderWay, Pending
    <2> QED
      BY <1>1, <2>1
  <1> QED
    BY <1>1, <1>2, <1>3, <1>4, <1>5, <1>6, <1>7, <1>8, <1>9, <1>10, <1>11

\* Who takes a reply after the acknowledgements takes the last one.
LEMMA LastTaken ==
  ASSUME ValueInv, Taking, session.script \in Pc!Shipped, ~(session.i <= Lead(session.script))
  PROVE  Len(to_pc) = 1 /\ Len(to_worker) = 0 /\ Pending = 0
  <1> DEFINE i == session.i
             d == Lead(session.script)
             p == Len(to_pc)
             w == Len(to_worker)
  <1>1. session.at = "waiting" /\ to_pc # <<>> /\ Pc!Acceptable(Head(to_pc)) /\ InScript
    BY DEF Taking, InScript
  <1>2. /\ i \in Nat \ {0} /\ d \in Nat /\ p \in Nat /\ w \in Nat /\ Pending \in {0, 1}
        /\ p > 0 /\ Head(to_pc) = to_pc[1]
    BY <1>1, CallAt, ScriptFacts, Lengths, TailLine, TailAt DEF ValueInv
  <1>3. ~(i <= d)
    OBVIOUS
  <1>4. CASE i = d + 1
    <2>1. session.call.then \notin {"ack", "again"}
      BY <1>1, <1>4, CallAt DEF ValueInv
    <2>2. to_pc[1].kind = "OK value"
      BY <1>1, <1>2, <2>1 DEF Pc!Acceptable
    <2>3. 1 \in 1 .. p /\ ~(1 <= d + 1 - i)
      BY <1>2, <1>4
    <2>4. to_pc[1].own
      BY <1>1, <2>3 DEF ValueInv, OthersFirst, Others
    <2> QED
      BY <1>1, <2>2, <2>3, <2>4 DEF ValueInv, ValuesLast
  <1>5. CASE i > d + 1
    <2>1. w + Pending + p <= 1
      BY <1>1, <1>5 DEF ValueInv, Alone, UnderWay
    <2> HIDE DEF w, p
    <2>2. p = 1 /\ w = 0 /\ Pending = 0
      BY <1>2, <2>1
    <2> QED
      BY <2>2 DEF w, p
  <1> HIDE DEF i, d
  <1> QED
    BY <1>2, <1>3, <1>4, <1>5

\* After that nothing is left; before that, the next call is an acknowledgement or the first value.
LEMMA TakenThen ==
  ASSUME ValueInv, Taking, session.script \in Pc!Shipped, LinkInv'
  PROVE  \/ /\ session.i <= Lead(session.script) /\ session.call.then = "ack"
            /\ session'.i = session.i + 1 /\ session'.at = "ready"
         \/ Len(to_pc') = 0 /\ Len(to_worker') = 0 /\ Pending' = 0
  <1>1. /\ session.at = "waiting" /\ to_pc # <<>> /\ to_pc' = Tail(to_pc)
        /\ UNCHANGED <<to_worker, fw>>
    BY DEF Taking
  <1>2. CASE ~(session.i <= Lead(session.script))
    <2>1. Len(to_pc) = 1 /\ Len(to_worker) = 0 /\ Pending = 0
      BY <1>2, LastTaken
    <2>2. Len(to_pc') = Len(to_pc) - 1
      BY <1>1, TailLine, Lengths DEF ValueInv
    <2>3. Pending' = Pending
      BY <1>1 DEF Pending
    <2> QED
      BY <1>1, <2>1, <2>2, <2>3
  <1>3. CASE session.i <= Lead(session.script)
    <2> DEFINE i == session.i
               d == Lead(session.script)
               l == Len(Pc!Scripts[session.script])
    <2>1. session.call.then = "ack" /\ i \in Nat \ {0}
      BY <1>1, <1>3, CallAt DEF ValueInv
    <2>2. d \in Nat /\ l \in Nat /\ l > d /\ i <= d
      BY <1>3, ScriptFacts
    <2>3. session'.i = i + 1 /\ (session'.at = "ready" \/ i + 1 > l)
      BY <2>1 DEF Taking
    <2> HIDE DEF i, d, l
    <2>4. ~(i + 1 > l)
      BY <2>1, <2>2
    <2>5. session'.i = i + 1 /\ session'.at = "ready" /\ i <= d /\ session.call.then = "ack"
      BY <2>1, <2>2, <2>3, <2>4
    <2> QED
      BY <2>5 DEF i, d
  <1> QED
    BY <1>2, <1>3

\* Every step keeps a session alone once it has taken a value.
LEMMA AloneOn == ASSUME ValueInv, [Next]_vars, LinkInv' PROVE Alone'
  <1>1. UnderWay \in Nat /\ UnderWay' \in Nat /\ LinkInv
    BY UnderWayOn DEF ValueInv
  <1>2. CASE Closing
    <2>1. session'.at = "closed"
      BY <1>2 DEF Closing, Pc!Closed
    <2> QED
      BY <2>1 DEF Alone
  <1>3. CASE Opening \/ NextTest
    <2>1. session'.at = "ready" /\ session'.i = 1
      BY <1>3 DEF Opening, NextTest
    <2>2. session'.script \in Pc!Shipped => ~(1 > Lead(session'.script) + 1)
      BY ScriptFacts
    <2> QED
      BY <2>1, <2>2 DEF Alone
  <1>4. CASE Sending
    <2>1. /\ session.at = "ready" /\ session'.at = "waiting"
          /\ session'.script = session.script /\ session'.i = session.i
          /\ UnderWay' = UnderWay + 1
      BY <1>1, <1>4, UnderWayOn DEF Sending
    <2>2. UnderWay = 0 => UnderWay' <= 1
      BY <2>1
    <2> QED
      BY <2>1, <2>2 DEF ValueInv, Alone
  <1>5. CASE Taking
    <2>1. session'.at \in {"ready", "done"} /\ session'.script = session.script
      BY <1>5 DEF Taking
    <2> SUFFICES ASSUME session.script \in Pc!Shipped PROVE Alone'
      BY <2>1 DEF Alone
    <2>2. CASE Len(to_pc') = 0 /\ Len(to_worker') = 0 /\ Pending' = 0
      <3>1. UnderWay' = 0
        BY <2>2 DEF UnderWay
      <3> QED
        BY <2>1, <3>1 DEF Alone
    <2>3. CASE session.i <= Lead(session.script) /\ session'.i = session.i + 1 /\ session'.at = "ready"
      <3> DEFINE i == session.i
                 d == Lead(session.script)
      <3>1. i \in Nat \ {0} /\ d \in Nat /\ i <= d /\ session'.i = i + 1
        BY <1>5, <2>3, CallAt, ScriptFacts DEF ValueInv, Taking
      <3> HIDE DEF i, d
      <3>2. ~(session'.i > d + 1)
        BY <3>1
      <3> QED
        BY <2>1, <2>3, <3>2 DEF Alone, d
    <2> QED
      BY <1>5, <2>2, <2>3, TakenThen
  <1>6. CASE Answering \/ Beginning \/ Ending \/ Restarting \/ Idling
    <2>1. /\ session'.at = session.at /\ session'.script = session.script
          /\ session'.i = session.i /\ UnderWay' <= UnderWay
      BY <1>1, <1>6, UnderWayOn DEF Answering, Beginning, Ending, Restarting, Idling
    <2>2. (UnderWay = 0 => UnderWay' = 0) /\ (UnderWay <= 1 => UnderWay' <= 1)
      <3> DEFINE u == UnderWay
                 v == UnderWay'
      <3>1. u \in Nat /\ v \in Nat /\ v <= u
        BY <1>1, <2>1
      <3> HIDE DEF u, v
      <3>2. (u = 0 => v = 0) /\ (u <= 1 => v <= 1)
        BY <3>1
      <3> QED
        BY <3>2 DEF u, v
    <2> QED
      BY <2>1, <2>2 DEF ValueInv, Alone
  <1> QED
    BY <1>2, <1>3, <1>4, <1>5, <1>6, StepsSo DEF ValueInv

\* The worker moves what is under way, and lets none of it fall back.
LEMMA OthersWorker ==
  ASSUME LinkInv, NEW m \in Int, Others(m), Answering \/ Beginning \/ Ending \/ Restarting
  PROVE  Others(m)'
  <1> DEFINE p == Len(to_pc)
             w == Len(to_worker)
  <1>1. w \in Nat /\ p \in Nat /\ IsLine(to_worker) /\ IsLine(to_pc)
    BY Lengths
  <1>2. /\ \A n \in 1 .. p : ~to_pc[n].own => n <= m
        /\ fw.at = "fault_mem" /\ ~fw.line.own => p + 1 <= m
        /\ \A n \in 1 .. w : ~to_worker[n].own => p + Pending + n <= m
    BY DEF Others
  <1> HIDE DEF p, w
  <1>3. \A e : /\ Len(Append(to_pc, e)) = p + 1
               /\ \A i \in 1 .. p + 1 : Append(to_pc, e)[i] = IF i <= p THEN to_pc[i] ELSE e
    BY <1>1, AppendLine, AppendAt DEF p
  <1>4. to_worker # <<>> =>
          /\ Len(Tail(to_worker)) = w - 1 /\ w > 0 /\ Head(to_worker) = to_worker[1]
          /\ \A i \in 1 .. w - 1 : Tail(to_worker)[i] = to_worker[i + 1]
    BY <1>1, TailLine, TailAt DEF w
  <1>5. ASSUME NEW e, to_pc' = Append(to_pc, e), ~e.own => p + 1 <= m
        PROVE  Len(to_pc') = p + 1 /\ \A n \in 1 .. Len(to_pc') : ~to_pc'[n].own => n <= m
    <2>1. \A n \in 1 .. p + 1 : (n <= p => n \in 1 .. p) /\ (~(n <= p) => n = p + 1)
      BY <1>1
    <2>2. ASSUME NEW n \in 1 .. p + 1, ~to_pc'[n].own
          PROVE  n <= m
      <3>1. CASE n <= p
        BY <1>2, <1>3, <1>5, <2>1, <2>2, <3>1
      <3>2. CASE ~(n <= p)
        <4>1. to_pc'[n] = e /\ n = p + 1
          BY <1>3, <1>5, <2>1, <3>2
        <4> QED
          BY <1>5, <2>2, <4>1
      <3> QED
        BY <3>1, <3>2
    <2> QED
      BY <1>3, <1>5, <2>2
  <1>6. CASE Answering
    <2>1. PICK e : /\ fw.at = "readline" /\ to_worker # <<>> /\ to_worker' = Tail(to_worker)
                   /\ to_pc' = Append(to_pc, e) /\ e.own = Line.own /\ UNCHANGED fw
      BY <1>6 DEF Answering
    <2>2. Pending = 0 /\ Pending' = 0
      BY <2>1 DEF Pending
    <2>3. ~e.own => p + 1 <= m
      <3>1. ~e.own => ~to_worker[1].own
        BY <1>4, <2>1 DEF Line
      <3>2. 1 \in 1 .. w /\ p + Pending + 1 = p + 1
        BY <1>1, <1>4, <2>1, <2>2
      <3> QED
        BY <1>2, <3>1, <3>2
    <2>4. /\ Len(to_pc') = p + 1
          /\ \A n \in 1 .. Len(to_pc') : ~to_pc'[n].own => n <= m
      BY <1>5, <2>1, <2>3
    <2>5. \A n \in 1 .. Len(to_worker') : ~to_worker'[n].own => Len(to_pc') + Pending' + n <= m
      <3> SUFFICES ASSUME NEW n \in 1 .. w - 1, ~to_worker'[n].own
                   PROVE  (p + 1) + 0 + n <= m
        BY <1>4, <2>1, <2>2, <2>4
      <3>1. n + 1 \in 1 .. w /\ (p + 1) + 0 + n = p + 0 + (n + 1)
        BY <1>1
      <3>2. ~to_worker[n + 1].own
        BY <1>4, <2>1
      <3> QED
        BY <1>2, <2>2, <3>1, <3>2
    <2> QED
      BY <2>1, <2>4, <2>5 DEF Others
  <1>7. CASE Beginning
    <2>1. /\ fw.at = "readline" /\ to_worker # <<>> /\ to_worker' = Tail(to_worker)
          /\ \/ fw'.at = "fault_mem" /\ fw'.line = Line
             \/ fw'.at = "aborted" /\ fw'.line = fw.line
          /\ UNCHANGED to_pc
      BY <1>7 DEF Beginning
    <2>2. Pending = 0 /\ Pending' \in {0, 1}
      BY <2>1 DEF Pending
    <2>3. fw'.at = "fault_mem" /\ ~fw'.line.own => p + 1 <= m
      <3>1. fw'.at = "fault_mem" /\ ~fw'.line.own => ~to_worker[1].own
        BY <1>4, <2>1 DEF Line
      <3>2. 1 \in 1 .. w /\ p + Pending + 1 = p + 1
        BY <1>1, <1>4, <2>1, <2>2
      <3> QED
        BY <1>2, <3>1, <3>2
    <2>4. \A n \in 1 .. Len(to_worker') : ~to_worker'[n].own => p + Pending' + n <= m
      <3> SUFFICES ASSUME NEW n \in 1 .. w - 1, ~to_worker'[n].own
                   PROVE  p + Pending' + n <= m
        BY <1>4, <2>1
      <3>1. n + 1 \in 1 .. w
        BY <1>1
      <3>2. ~to_worker[n + 1].own
        BY <1>4, <2>1
      <3>3. p + 0 + (n + 1) <= m
        BY <1>2, <2>2, <3>1, <3>2
      <3>4. p + 0 + n <= m /\ p + 1 + n <= m
        BY <1>1, <3>3
      <3> QED
        BY <2>2, <3>4
    <2> QED
      BY <1>2, <2>1, <2>3, <2>4 DEF Others, p
  <1>8. CASE Ending
    <2>1. PICK e : /\ fw.at = "fault_mem" /\ fw'.at = "readline" /\ to_pc' = Append(to_pc, e)
                   /\ e.own = fw.line.own /\ UNCHANGED to_worker
      BY <1>8 DEF Ending, Reading
    <2>2. Pending = 1 /\ Pending' = 0
      BY <2>1 DEF Pending
    <2>3. ~e.own => p + 1 <= m
      BY <1>2, <2>1
    <2>4. /\ Len(to_pc') = p + 1
          /\ \A n \in 1 .. Len(to_pc') : ~to_pc'[n].own => n <= m
      BY <1>5, <2>1, <2>3
    <2>5. \A n \in 1 .. Len(to_worker') : ~to_worker'[n].own => Len(to_pc') + Pending' + n <= m
      <3> SUFFICES ASSUME NEW n \in 1 .. w, ~to_worker[n].own
                   PROVE  (p + 1) + 0 + n <= m
        BY <2>1, <2>2, <2>4 DEF w
      <3>1. (p + 1) + 0 + n = p + 1 + n
        BY <1>1
      <3> QED
        BY <1>2, <2>2, <3>1
    <2> QED
      BY <2>1, <2>4, <2>5 DEF Others
  <1>9. CASE Restarting
    <2>1. to_worker' = <<>> /\ fw'.at = "readline" /\ UNCHANGED to_pc
      BY <1>9 DEF Restarting, Reading
    <2>2. Len(to_worker') = 0 /\ \A n \in 1 .. 0 : FALSE
      BY <2>1
    <2> QED
      BY <1>2, <2>1, <2>2 DEF Others, p
  <1> QED
    BY <1>6, <1>7, <1>8, <1>9

\* What belongs to no session stays so.
LEMMA NoneWorker ==
  ASSUME LinkInv, NoneOwn, Answering \/ Beginning \/ Ending \/ Restarting
  PROVE  NoneOwn'
  <1> DEFINE p == Len(to_pc)
             w == Len(to_worker)
  <1>1. w \in Nat /\ p \in Nat /\ IsLine(to_worker) /\ IsLine(to_pc)
    BY Lengths
  <1>2. /\ \A n \in 1 .. p : ~to_pc[n].own
        /\ ~fw.line.own
        /\ \A n \in 1 .. w : ~to_worker[n].own
    BY DEF NoneOwn
  <1> HIDE DEF p, w
  <1>3. \A e : /\ Len(Append(to_pc, e)) = p + 1
               /\ \A i \in 1 .. p + 1 : Append(to_pc, e)[i] = IF i <= p THEN to_pc[i] ELSE e
    BY <1>1, AppendLine, AppendAt DEF p
  <1>4. to_worker # <<>> =>
          /\ Len(Tail(to_worker)) = w - 1 /\ w > 0 /\ Head(to_worker) = to_worker[1]
          /\ \A i \in 1 .. w - 1 : Tail(to_worker)[i] = to_worker[i + 1]
    BY <1>1, TailLine, TailAt DEF w
  <1>5. ASSUME NEW e, to_pc' = Append(to_pc, e), ~e.own
        PROVE  \A n \in 1 .. Len(to_pc') : ~to_pc'[n].own
    <2>1. \A n \in 1 .. p + 1 : n <= p => n \in 1 .. p
      BY <1>1
    <2>2. ASSUME NEW n \in 1 .. p + 1
          PROVE  ~to_pc'[n].own
      <3>1. CASE n <= p
        BY <1>2, <1>3, <1>5, <2>1, <3>1
      <3>2. CASE ~(n <= p)
        <4>1. to_pc'[n] = e
          BY <1>3, <1>5, <3>2
        <4> QED
          BY <1>5, <4>1
      <3> QED
        BY <3>1, <3>2
    <2> QED
      BY <1>3, <1>5, <2>2
  <1>6. ASSUME to_worker # <<>>, to_worker' = Tail(to_worker)
        PROVE  ~Line.own /\ \A n \in 1 .. Len(to_worker') : ~to_worker'[n].own
    <2>1. 1 \in 1 .. w /\ \A n \in 1 .. w - 1 : n + 1 \in 1 .. w
      BY <1>1, <1>4, <1>6
    <2> QED
      BY <1>2, <1>4, <1>6, <2>1 DEF Line
  <1>7. CASE Answering
    <2>1. PICK e : /\ to_worker # <<>> /\ to_worker' = Tail(to_worker)
                   /\ to_pc' = Append(to_pc, e) /\ e.own = Line.own /\ UNCHANGED fw
      BY <1>7 DEF Answering
    <2>2. ~e.own
      BY <1>6, <2>1
    <2> QED
      BY <1>2, <1>5, <1>6, <2>1, <2>2 DEF NoneOwn
  <1>8. CASE Beginning
    <2>1. /\ to_worker # <<>> /\ to_worker' = Tail(to_worker)
          /\ fw'.line = Line \/ fw'.line = fw.line
          /\ UNCHANGED to_pc
      BY <1>8 DEF Beginning
    <2>2. ~fw'.line.own
      BY <1>2, <1>6, <2>1
    <2> QED
      BY <1>2, <1>6, <2>1, <2>2 DEF NoneOwn, p
  <1>9. CASE Ending
    <2>1. PICK e : /\ fw' = Reading /\ to_pc' = Append(to_pc, e)
                   /\ e.own = fw.line.own /\ UNCHANGED to_worker
      BY <1>9 DEF Ending
    <2>2. ~e.own /\ ~fw'.line.own
      BY <1>2, <2>1 DEF Reading, NoLine
    <2> QED
      BY <1>2, <1>5, <2>1, <2>2 DEF NoneOwn, w
  <1>10. CASE Restarting
    <2>1. to_worker' = <<>> /\ fw' = Reading /\ UNCHANGED to_pc
      BY <1>10 DEF Restarting
    <2>2. Len(to_worker') = 0 /\ (\A n \in 1 .. 0 : FALSE) /\ ~fw'.line.own
      BY <2>1 DEF Reading, NoLine
    <2> QED
      BY <1>2, <2>1, <2>2 DEF NoneOwn, p
  <1> QED
    BY <1>7, <1>8, <1>9, <1>10

\* Every step keeps what others left in front.
LEMMA OthersOn ==
  ASSUME BacklogFits, ValueInv, LinkInv', [Next]_vars
  PROVE  OthersFirst'
  <1> DEFINE p == Len(to_pc)
             w == Len(to_worker)
             m == Lead(session.script) + 1 - session.i
  <1>1. /\ p \in Nat /\ w \in Nat /\ IsLine(to_worker) /\ IsLine(to_pc)
        /\ LinkInv /\ Following /\ Formed /\ OthersFirst /\ Pending \in {0, 1}
        /\ (fw.at = "fault_mem" <=> Pending = 1)
    BY Lengths DEF ValueInv
  <1>2. InScript => m \in Int /\ Others(m)
    <2> SUFFICES ASSUME InScript PROVE m \in Int
      BY <1>1 DEF OthersFirst
    <2>1. session.i \in Nat /\ Lead(session.script) \in Nat
      BY <1>1, ScriptFacts DEF InScript, Following
    <2> QED
      BY <2>1
  <1>3. ASSUME Len(to_pc') = 0, Len(to_worker') = 0, Pending' = 0, session'.at # "closed"
        PROVE  OthersFirst'
    <2>1. /\ \A n \in 1 .. Len(to_pc') : FALSE
          /\ \A n \in 1 .. Len(to_worker') : FALSE
      BY <1>3
    <2>2. fw'.at # "fault_mem"
      BY <1>3 DEF Pending
    <2> QED
      BY <1>3, <2>1, <2>2 DEF OthersFirst, Others
  <1>4. CASE Closing
    <2>1. /\ session' = Pc!Closed /\ to_worker' = Pc!Disowned(to_worker)
          /\ \/ to_pc' = Pc!Disowned(to_pc)
             \/ to_pc # <<>> /\ to_pc' = Pc!Disowned(Tail(to_pc))
          /\ fw' = [fw EXCEPT !.line.own = FALSE]
      BY <1>4 DEF Closing
    <2>2. session'.at = "closed" /\ ~InScript'
      BY <2>1 DEF Pc!Closed, InScript
    <2>3. "own" \in LineFields /\ "own" \in ReplyFields
      BY DEF LineFields, ReplyFields
    <2>4. \A n \in 1 .. Len(to_worker') : ~to_worker'[n].own
      <3>1. \A n \in 1 .. w : ~to_worker'[n].own
        BY <1>1, <2>1, <2>3, DisownedAt DEF Formed
      <3>2. Len(to_worker') = w
        BY <1>1, <2>1, DisownedLine
      <3> QED
        BY <3>1, <3>2
    <2>5. ASSUME NEW t, IsLine(t), \A n \in 1 .. Len(t) : DOMAIN t[n] = ReplyFields,
                 to_pc' = Pc!Disowned(t)
          PROVE  \A n \in 1 .. Len(to_pc') : ~to_pc'[n].own
      <3>1. \A n \in 1 .. Len(t) : ~to_pc'[n].own
        BY <2>3, <2>5, DisownedAt
      <3>2. Len(to_pc') = Len(t)
        BY <2>5, DisownedLine
      <3> QED
        BY <3>1, <3>2
    <2>6. \A n \in 1 .. Len(to_pc') : ~to_pc'[n].own
      <3>1. CASE to_pc' = Pc!Disowned(to_pc)
        BY <1>1, <2>5, <3>1 DEF Formed
      <3>2. CASE to_pc # <<>> /\ to_pc' = Pc!Disowned(Tail(to_pc))
        <4>1. IsLine(Tail(to_pc)) /\ \A n \in 1 .. Len(Tail(to_pc)) : DOMAIN Tail(to_pc)[n] = ReplyFields
          BY <1>1, <3>2, FieldsTail, TailLine DEF Formed
        <4> QED
          BY <2>5, <3>2, <4>1
      <3> QED
        BY <2>1, <3>1, <3>2
    <2>7. ~fw'.line.own
      BY <1>1, <2>1, <2>3 DEF LinkInv, Shape, Formed
    <2> QED
      BY <2>2, <2>4, <2>6, <2>7 DEF OthersFirst, NoneOwn
  <1>5. CASE Opening
    <2>1. PICK k \in 0 .. p :
            /\ session.at = "closed" /\ session'.at = "ready" /\ session'.i = 1
            /\ to_pc' = SubSeq(to_pc, k + 1, p)
            /\ p - k + w + Pending <= MaxBacklog
            /\ UNCHANGED <<to_worker, fw>>
      BY <1>5 DEF Opening
    <2>2. Len(to_pc') = p - k /\ IsLine(to_pc')
      BY <1>1, <2>1, DropLine
    <2>3. ASSUME InScript'
          PROVE  OthersFirst'
      <3>1. PICK q : q = Lead(session'.script) + 1 - session'.i
        OBVIOUS
      <3>2. q \in Nat /\ MaxBacklog \in Nat /\ MaxBacklog <= q
        <4>1. PICK d : d = Lead(session'.script)
          OBVIOUS
        <4>2. d \in Nat /\ MaxBacklog \in Nat /\ MaxBacklog <= d
          BY <2>3, <4>1, ScriptFacts DEF InScript, BacklogFits
        <4>3. q = d
          BY <2>1, <3>1, <4>1, <4>2
        <4> QED
          BY <4>2, <4>3
      <3>3. Pending' = Pending
        BY <2>1 DEF Pending
      <3> HIDE DEF p, w
      <3>4. p \in Nat /\ w \in Nat /\ Pending \in {0, 1} /\ k \in Nat /\ k <= p
        BY <1>1, <2>1
      <3>5. /\ \A n \in 1 .. p - k : n <= q
            /\ Pending = 1 => (p - k) + 1 <= q
            /\ \A n \in 1 .. w : (p - k) + Pending + n <= q
        BY <2>1, <3>2, <3>4
      <3>6. Others(q)'
        BY <1>1, <2>1, <2>2, <3>3, <3>5 DEF Others, w
      <3> QED
        BY <2>1, <3>1, <3>6 DEF OthersFirst
    <2> QED
      BY <2>1, <2>3 DEF OthersFirst
  <1>6. CASE Sending
    <2>1. PICK e : /\ session.at = "ready" /\ session'.at = "waiting" /\ e.own
                   /\ session'.script = session.script /\ session'.i = session.i
                   /\ to_worker' = Append(to_worker, e) /\ UNCHANGED <<to_pc, fw>>
      BY <1>6 DEF Sending
    <2>2. /\ Len(to_worker') = w + 1 /\ Pending' = Pending
          /\ \A n \in 1 .. w + 1 : to_worker'[n] = IF n <= w THEN to_worker[n] ELSE e
      BY <1>1, <2>1, AppendLine, AppendAt DEF Pending
    <2>3. \A n \in 1 .. w + 1 : n <= w => n \in 1 .. w
      BY <1>1
    <2>4. InScript' => InScript /\ m' = m
      BY <2>1 DEF InScript
    <2>5. ASSUME InScript
          PROVE  Others(m)'
      <3>1. \A n \in 1 .. w + 1 : ~to_worker'[n].own => p + Pending + n <= m
        BY <1>2, <2>1, <2>2, <2>3, <2>5 DEF Others
      <3> HIDE DEF m
      <3>2. m' = m
        BY <2>1 DEF m
      <3>3. /\ \A n \in 1 .. Len(to_pc') : ~to_pc'[n].own => n <= m'
            /\ fw'.at = "fault_mem" /\ ~fw'.line.own => Len(to_pc') + 1 <= m'
        BY <1>2, <2>1, <2>5, <3>2 DEF Others
      <3>4. \A n \in 1 .. Len(to_worker') : ~to_worker'[n].own => Len(to_pc') + Pending' + n <= m'
        BY <2>1, <2>2, <3>1, <3>2
      <3> QED
        BY <3>3, <3>4 DEF Others
    <2> QED
      BY <2>1, <2>4, <2>5 DEF OthersFirst
  <1>7. CASE Taking
    <2>1. /\ session.at = "waiting" /\ to_pc # <<>> /\ to_pc' = Tail(to_pc)
          /\ session'.at \in {"ready", "done"} /\ session'.script = session.script
          /\ UNCHANGED <<to_worker, fw>>
      BY <1>7 DEF Taking
    <2> SUFFICES ASSUME session.script \in Pc!Shipped PROVE OthersFirst'
      BY <2>1 DEF OthersFirst, InScript
    <2>2. CASE Len(to_pc') = 0 /\ Len(to_worker') = 0 /\ Pending' = 0
      BY <1>3, <2>1, <2>2
    <2>3. CASE session.i <= Lead(session.script) /\ session'.i = session.i + 1
      <3>1. InScript
        BY <2>1 DEF InScript
      <3>2. PICK q : q = Lead(session'.script) + 1 - session'.i
        OBVIOUS
      <3>3. q = m - 1 /\ m \in Int
        <4>1. session.i \in Nat /\ Lead(session.script) \in Nat
          BY <1>1, <3>1, ScriptFacts DEF InScript, Following
        <4> QED
          BY <2>1, <2>3, <3>2, <4>1
      <3>4. /\ Len(to_pc') = p - 1 /\ p > 0 /\ Pending' = Pending
            /\ \A n \in 1 .. p - 1 : to_pc'[n] = to_pc[n + 1]
        BY <1>1, <2>1, TailLine, TailAt DEF Pending
      <3> HIDE DEF m, p
      <3>5. /\ \A n \in 1 .. p : ~to_pc[n].own => n <= m
            /\ fw.at = "fault_mem" /\ ~fw.line.own => p + 1 <= m
            /\ \A n \in 1 .. w : ~to_worker[n].own => p + Pending + n <= m
        BY <1>2, <3>1 DEF Others, p
      <3>6. \A n \in 1 .. Len(to_pc') : ~to_pc'[n].own => n <= q
        <4>1. \A n \in 1 .. p - 1 : n + 1 \in 1 .. p /\ (n + 1 <= m => n <= q)
          BY <1>1, <3>3
        <4> QED
          BY <3>4, <3>5, <4>1
      <3>7. fw'.at = "fault_mem" /\ ~fw'.line.own => Len(to_pc') + 1 <= q
        <4>1. p + 1 <= m => (p - 1) + 1 <= q
          BY <1>1, <3>3
        <4> QED
          BY <2>1, <3>4, <3>5, <4>1
      <3>8. \A n \in 1 .. Len(to_worker') : ~to_worker'[n].own => Len(to_pc') + Pending' + n <= q
        <4>1. \A n \in 1 .. w : p + Pending + n <= m => (p - 1) + Pending + n <= q
          BY <1>1, <3>3
        <4> QED
          BY <2>1, <3>4, <3>5, <4>1
      <3>9. Others(q)'
        BY <3>6, <3>7, <3>8 DEF Others
      <3> QED
        BY <2>1, <3>2, <3>9 DEF OthersFirst
    <2> QED
      BY <1>7, <2>2, <2>3, TakenThen
  <1>8. CASE NextTest
    <2>1. session.at = "done" /\ session.script \in Pc!Shipped /\ session'.at = "ready"
          /\ UNCHANGED <<to_worker, to_pc, fw>>
      BY <1>8, ShippedAre DEF NextTest
    <2>2. p = 0 /\ w = 0 /\ Pending = 0
      BY <1>1, <2>1, NothingLeft DEF ValueInv, Alone
    <2> QED
      BY <1>3, <2>1, <2>2 DEF Pending
  <1>9. CASE Answering \/ Beginning \/ Ending \/ Restarting
    <2>1. session'.at = session.at /\ session'.script = session.script /\ session'.i = session.i
      BY <1>9 DEF Answering, Beginning, Ending, Restarting
    <2>2. ASSUME InScript
          PROVE  Others(m)'
      <3>1. PICK q \in Int : q = m
        BY <1>2, <2>2
      <3>2. Others(q)
        BY <1>2, <2>2, <3>1
      <3>3. Others(q)'
        BY <1>1, <1>9, <3>2, OthersWorker
      <3>4. m' = q
        BY <2>1, <3>1
      <3> QED
        BY <3>3, <3>4
    <2>3. session.at = "closed" => NoneOwn'
      BY <1>1, <1>9, NoneWorker DEF OthersFirst
    <2> QED
      BY <2>1, <2>2, <2>3 DEF OthersFirst, InScript
  <1>10. CASE Idling
    BY <1>1, <1>10 DEF Idling, OthersFirst, InScript, Others, NoneOwn, Pending
  <1> QED
    BY <1>1, <1>4, <1>5, <1>6, <1>7, <1>8, <1>9, <1>10, StepsSo

\* Every step keeps values last.
LEMMA ValuesOn ==
  ASSUME ValueInv, LinkInv', [Next]_vars
  PROVE  ValuesLast'
  <1> DEFINE p == Len(to_pc)
             w == Len(to_worker)
             Mine(r) == r.own /\ r.kind = "OK value"
             Asks(l) == l.own /\ l.cmd \in ValueCmds
  <1>1. /\ p \in Nat /\ w \in Nat /\ IsLine(to_worker) /\ IsLine(to_pc)
        /\ LinkInv /\ Following /\ Formed /\ OthersFirst /\ ValuesLast /\ Pending \in {0, 1}
        /\ (fw.at = "fault_mem" <=> Pending = 1)
    BY Lengths DEF ValueInv
  <1>2. InScript =>
          /\ \A n \in 1 .. p : Mine(to_pc[n]) =>
               /\ Asking /\ to_pc[n].to = <<session.call.cmd, session.call.args>>
               /\ n = p /\ w = 0 /\ Pending = 0
          /\ \A n \in 1 .. w : Asks(to_worker[n]) =>
               /\ Asking /\ to_worker[n].cmd = session.call.cmd /\ to_worker[n].args = session.call.args
               /\ n = w
    BY <1>1 DEF ValuesLast
  <1>3. ASSUME InScript' =>
                 /\ \A n \in 1 .. Len(to_pc') : ~Mine(to_pc'[n])
                 /\ \A n \in 1 .. Len(to_worker') : ~Asks(to_worker'[n])
        PROVE  ValuesLast'
    BY <1>3 DEF ValuesLast
  <1>4. to_worker # <<>> =>
          /\ Len(Tail(to_worker)) = w - 1 /\ w > 0 /\ Head(to_worker) = to_worker[1]
          /\ \A i \in 1 .. w - 1 : Tail(to_worker)[i] = to_worker[i + 1]
    BY <1>1, TailLine, TailAt
  <1>5. \A e : /\ Len(Append(to_pc, e)) = p + 1
               /\ \A i \in 1 .. p + 1 : Append(to_pc, e)[i] = IF i <= p THEN to_pc[i] ELSE e
    BY <1>1, AppendLine, AppendAt
  <1>6. \A n \in 1 .. p + 1 : (n <= p => n \in 1 .. p) /\ (~(n <= p) => n = p + 1)
    BY <1>1
  <1>7. ASSUME InScript, to_worker # <<>>, to_worker' = Tail(to_worker), UNCHANGED session
        PROVE  \A n \in 1 .. Len(to_worker') : Asks(to_worker'[n]) =>
                 /\ Asking' /\ to_worker'[n].cmd = session'.call.cmd
                 /\ to_worker'[n].args = session'.call.args /\ n = Len(to_worker')
    <2> SUFFICES ASSUME NEW n \in 1 .. w - 1, Asks(to_worker'[n])
                 PROVE  /\ Asking' /\ to_worker'[n].cmd = session'.call.cmd
                        /\ to_worker'[n].args = session'.call.args /\ n = w - 1
      BY <1>4, <1>7
    <2> HIDE DEF w, Asks
    <2>1. n + 1 \in 1 .. w /\ (n + 1 = w => n = w - 1)
      BY <1>1
    <2>2. to_worker'[n] = to_worker[n + 1]
      BY <1>4, <1>7
    <2>3. /\ Asking /\ to_worker[n + 1].cmd = session.call.cmd
          /\ to_worker[n + 1].args = session.call.args /\ n + 1 = w
      BY <1>2, <1>7, <2>1, <2>2
    <2> QED
      BY <1>7, <2>1, <2>2, <2>3 DEF Asking
  <1>8. ASSUME InScript, to_worker # <<>>
        PROVE  \A n \in 1 .. p : ~Mine(to_pc[n])
    <2>1. w > 0 /\ w \in Nat
      BY <1>1, <1>4, <1>8
    <2> HIDE DEF w, Mine
    <2>2. w # 0
      BY <2>1
    <2> QED
      BY <1>2, <1>8, <2>2
  <1>9. ASSUME InScript, ~Asking
        PROVE  /\ \A n \in 1 .. p : ~Mine(to_pc[n])
               /\ \A n \in 1 .. w : ~Asks(to_worker[n])
    BY <1>2, <1>9
  <1> HIDE DEF Mine, Asks
  <1>10. CASE Closing
    <2>1. ~InScript'
      BY <1>10 DEF Closing, Pc!Closed, InScript
    <2> QED
      BY <2>1 DEF ValuesLast
  <1>11. CASE Opening
    <2>1. PICK k \in 0 .. p : /\ session.at = "closed" /\ to_pc' = SubSeq(to_pc, k + 1, p)
                              /\ UNCHANGED to_worker
      BY <1>11 DEF Opening
    <2>2. NoneOwn
      BY <1>1, <2>1 DEF OthersFirst
    <2>3. \A n \in 1 .. w : ~Asks(to_worker[n])
      BY <2>2 DEF NoneOwn, Asks
    <2>4. \A n \in 1 .. p : ~Mine(to_pc[n])
      BY <2>2 DEF NoneOwn, Mine
    <2>5. Len(to_pc') = p - k /\ \A n \in 1 .. p - k : to_pc'[n] = to_pc[n + k]
      BY <1>1, <2>1, DropLine, DropAt
    <2>6. \A n \in 1 .. p - k : n + k \in 1 .. p
      BY <1>1
    <2>7. \A n \in 1 .. Len(to_pc') : ~Mine(to_pc'[n])
      BY <2>4, <2>5, <2>6
    <2> QED
      BY <1>3, <2>1, <2>3, <2>7
  <1>12. CASE Sending
    <2>1. PICK c, e :
            /\ session.at = "ready" /\ session'.at = "waiting" /\ session'.call = c
            /\ session'.script = session.script /\ session'.i = session.i
            /\ session.script \in Pc!Shipped =>
                 LET d == Pc!Scripts[session.script][session.i] IN c.cmd = d.cmd /\ c.then = d.then
            /\ \/ e.cmd = c.cmd /\ e.args = c.args
               \/ half /\ e.cmd = "garbled"
            /\ to_worker' = Append(to_worker, e)
            /\ UNCHANGED to_pc
      BY <1>12 DEF Sending
    <2> SUFFICES ASSUME session.script \in Pc!Shipped PROVE ValuesLast'
      BY <2>1 DEF ValuesLast, InScript
    <2>2. InScript /\ ~Asking
      BY <2>1 DEF InScript, Asking
    <2>3. /\ \A n \in 1 .. p : ~Mine(to_pc[n])
          /\ \A n \in 1 .. w : ~Asks(to_worker[n])
      BY <1>9, <2>2
    <2>4. /\ Len(to_worker') = w + 1
          /\ \A n \in 1 .. w + 1 : to_worker'[n] = IF n <= w THEN to_worker[n] ELSE e
      BY <1>1, <2>1, AppendLine, AppendAt
    <2>5. \A n \in 1 .. w + 1 : (n <= w => n \in 1 .. w) /\ (~(n <= w) => n = w + 1)
      BY <1>1
    <2>6. Asks(e) => Asking' /\ e.cmd = c.cmd /\ e.args = c.args
      <3> SUFFICES ASSUME e.cmd \in ValueCmds
                   PROVE  Asking' /\ e.cmd = c.cmd /\ e.args = c.args
        BY DEF Asks
      <3>1. e.cmd = c.cmd /\ e.args = c.args
        BY <2>1 DEF ValueCmds
      <3>2. session.i \in 1 .. Len(Pc!Scripts[session.script])
        BY <1>1, <2>2, ScriptFacts DEF Following, InScript
      <3>3. Fits(session.script, session.i, Pc!Scripts[session.script][session.i])
        BY <3>2, ScriptFacts
      <3>4. c.then \notin {"ack", "again"}
        BY <2>1, <3>1, <3>3 DEF Fits, AckCmds, ValueCmds
      <3> QED
        BY <2>1, <3>1, <3>4 DEF Asking
    <2>7. \A n \in 1 .. Len(to_worker') : Asks(to_worker'[n]) =>
            /\ Asking' /\ to_worker'[n].cmd = session'.call.cmd
            /\ to_worker'[n].args = session'.call.args /\ n = Len(to_worker')
      <3> SUFFICES ASSUME NEW n \in 1 .. w + 1, Asks(to_worker'[n])
                   PROVE  /\ Asking' /\ to_worker'[n].cmd = session'.call.cmd
                          /\ to_worker'[n].args = session'.call.args /\ n = w + 1
        BY <2>4
      <3>1. to_worker'[n] = e /\ n = w + 1
        BY <2>3, <2>4, <2>5
      <3> QED
        BY <2>1, <2>6, <3>1
    <2>8. \A n \in 1 .. Len(to_pc') : ~Mine(to_pc'[n])
      BY <2>1, <2>3
    <2> QED
      BY <2>7, <2>8 DEF ValuesLast, Mine, Asks
  <1>13. CASE Taking
    <2>1. /\ session.at = "waiting" /\ to_pc # <<>> /\ to_pc' = Tail(to_pc)
          /\ session'.script = session.script /\ UNCHANGED to_worker
      BY <1>13 DEF Taking
    <2> SUFFICES ASSUME session.script \in Pc!Shipped PROVE ValuesLast'
      BY <2>1 DEF ValuesLast, InScript
    <2>2. CASE Len(to_pc') = 0 /\ Len(to_worker') = 0
      <3>1. /\ \A n \in 1 .. Len(to_pc') : FALSE
            /\ \A n \in 1 .. Len(to_worker') : FALSE
        BY <2>2
      <3> QED
        BY <1>3, <3>1
    <2>3. CASE session.call.then = "ack"
      <3>1. InScript /\ ~Asking
        BY <2>1, <2>3 DEF InScript, Asking
      <3>2. Len(to_pc') = p - 1 /\ \A n \in 1 .. p - 1 : to_pc'[n] = to_pc[n + 1]
        BY <1>1, <2>1, TailLine, TailAt
      <3>3. \A n \in 1 .. p - 1 : n + 1 \in 1 .. p
        BY <1>1
      <3>4. \A n \in 1 .. Len(to_pc') : ~Mine(to_pc'[n])
        BY <1>9, <3>1, <3>2, <3>3
      <3>5. \A n \in 1 .. Len(to_worker') : ~Asks(to_worker'[n])
        BY <1>9, <2>1, <3>1
      <3> QED
        BY <1>3, <3>4, <3>5
    <2> QED
      BY <1>13, <2>2, <2>3, TakenThen
  <1>14. CASE NextTest
    <2>1. session.at = "done" /\ session.script \in Pc!Shipped /\ UNCHANGED <<to_worker, to_pc>>
      BY <1>14, ShippedAre DEF NextTest
    <2>2. p = 0 /\ w = 0
      BY <1>1, <2>1, NothingLeft DEF ValueInv, Alone
    <2>3. /\ \A n \in 1 .. Len(to_pc') : FALSE
          /\ \A n \in 1 .. Len(to_worker') : FALSE
      BY <2>1, <2>2
    <2> QED
      BY <1>3, <2>3
  <1>15. CASE Answering
    <2>1. PICK e :
            /\ fw.at = "readline" /\ to_worker # <<>> /\ to_worker' = Tail(to_worker)
            /\ to_pc' = Append(to_pc, e) /\ e.own = Line.own
            /\ e.kind = "OK value" => Line.cmd \in ValueCmds /\ e.to = <<Line.cmd, Line.args>>
            /\ UNCHANGED <<session, fw>>
      BY <1>15 DEF Answering
    <2> SUFFICES ASSUME InScript PROVE ValuesLast'
      BY <2>1 DEF ValuesLast, InScript
    <2>2. Pending' = 0 /\ Line = to_worker[1] /\ Len(to_worker') = w - 1
      BY <1>4, <2>1 DEF Pending, Line
    <2>3. \A n \in 1 .. p : ~Mine(to_pc[n])
      BY <1>8, <2>1
    <2>4. Mine(e) => /\ Asking' /\ e.to = <<session'.call.cmd, session'.call.args>>
                     /\ Len(to_worker') = 0
      <3> SUFFICES ASSUME Mine(e)
                   PROVE  /\ Asking' /\ e.to = <<session'.call.cmd, session'.call.args>>
                          /\ Len(to_worker') = 0
        OBVIOUS
      <3>1. Asks(to_worker[1]) /\ e.to = <<Line.cmd, Line.args>>
        BY <2>1, <2>2 DEF Mine, Asks
      <3>2. 1 \in 1 .. w
        <4>1. w \in Nat /\ w > 0
          BY <1>1, <1>4, <2>1
        <4> HIDE DEF w
        <4> QED
          BY <4>1
      <3>3. /\ Asking /\ to_worker[1].cmd = session.call.cmd
            /\ to_worker[1].args = session.call.args /\ 1 = w
        BY <1>2, <3>1, <3>2
      <3>4. Len(to_worker') = 0
        <4>1. w = 1 /\ Len(to_worker') = w - 1
          BY <2>2, <3>3
        <4> HIDE DEF w
        <4> QED
          BY <4>1
      <3>5. Asking'
        BY <2>1, <3>3 DEF Asking
      <3> QED
        BY <2>1, <2>2, <3>1, <3>3, <3>4, <3>5
    <2>5. \A n \in 1 .. Len(to_pc') : Mine(to_pc'[n]) =>
            /\ Asking' /\ to_pc'[n].to = <<session'.call.cmd, session'.call.args>>
            /\ n = Len(to_pc') /\ Len(to_worker') = 0 /\ Pending' = 0
      <3> SUFFICES ASSUME NEW n \in 1 .. p + 1, Mine(to_pc'[n])
                   PROVE  /\ Asking' /\ to_pc'[n].to = <<session'.call.cmd, session'.call.args>>
                          /\ n = p + 1 /\ Len(to_worker') = 0 /\ Pending' = 0
        BY <1>5, <2>1
      <3>1. to_pc'[n] = e /\ n = p + 1
        BY <1>5, <1>6, <2>1, <2>3
      <3> QED
        BY <2>2, <2>4, <3>1
    <2>6. \A n \in 1 .. Len(to_worker') : Asks(to_worker'[n]) =>
            /\ Asking' /\ to_worker'[n].cmd = session'.call.cmd
            /\ to_worker'[n].args = session'.call.args /\ n = Len(to_worker')
      BY <1>7, <2>1
    <2> QED
      BY <2>5, <2>6 DEF ValuesLast, Mine, Asks
  <1>16. CASE Beginning
    <2>1. /\ to_worker # <<>> /\ to_worker' = Tail(to_worker) /\ UNCHANGED <<session, to_pc>>
      BY <1>16 DEF Beginning
    <2> SUFFICES ASSUME InScript PROVE ValuesLast'
      BY <2>1 DEF ValuesLast, InScript
    <2>2. \A n \in 1 .. Len(to_pc') : ~Mine(to_pc'[n])
      BY <1>8, <2>1
    <2>3. \A n \in 1 .. Len(to_worker') : Asks(to_worker'[n]) =>
            /\ Asking' /\ to_worker'[n].cmd = session'.call.cmd
            /\ to_worker'[n].args = session'.call.args /\ n = Len(to_worker')
      BY <1>7, <2>1
    <2> QED
      BY <2>2, <2>3 DEF ValuesLast, Mine, Asks
  <1>17. CASE Ending
    <2>1. PICK e : /\ fw.at = "fault_mem" /\ to_pc' = Append(to_pc, e) /\ e.kind = "OK"
                   /\ UNCHANGED <<session, to_worker>>
      BY <1>17 DEF Ending
    <2> SUFFICES ASSUME InScript PROVE ValuesLast'
      BY <2>1 DEF ValuesLast, InScript
    <2>2. \A n \in 1 .. p : ~Mine(to_pc[n])
      BY <1>1, <1>2, <2>1
    <2>3. ~Mine(e)
      BY <2>1 DEF Mine
    <2>4. \A n \in 1 .. Len(to_pc') : ~Mine(to_pc'[n])
      <3>1. ASSUME NEW n \in 1 .. p + 1 PROVE ~Mine(to_pc'[n])
        <4>1. CASE n <= p
          BY <1>5, <1>6, <2>1, <2>2, <4>1
        <4>2. CASE ~(n <= p)
          BY <1>5, <2>1, <2>3, <4>2
        <4> QED
          BY <4>1, <4>2
      <3> QED
        BY <1>5, <2>1, <3>1
    <2>5. \A n \in 1 .. Len(to_worker') : Asks(to_worker'[n]) =>
            /\ Asking' /\ to_worker'[n].cmd = session'.call.cmd
            /\ to_worker'[n].args = session'.call.args /\ n = Len(to_worker')
      BY <1>2, <2>1 DEF Asking
    <2> QED
      BY <2>4, <2>5 DEF ValuesLast, Mine, Asks
  <1>18. CASE Restarting
    <2>1. /\ to_worker' = <<>> /\ fw' = Reading /\ UNCHANGED to_pc
          /\ session'.at = session.at /\ session'.script = session.script
          /\ session'.i = session.i /\ session'.call = session.call
      BY <1>18 DEF Restarting
    <2>2. Len(to_worker') = 0 /\ Pending' = 0 /\ \A n \in 1 .. 0 : FALSE
      BY <2>1 DEF Pending, Reading
    <2>3. InScript' => InScript
      BY <2>1 DEF InScript
    <2> SUFFICES ASSUME InScript PROVE ValuesLast'
      BY <2>3 DEF ValuesLast
    <2>4. \A n \in 1 .. Len(to_pc') : Mine(to_pc'[n]) =>
            /\ Asking' /\ to_pc'[n].to = <<session'.call.cmd, session'.call.args>>
            /\ n = Len(to_pc') /\ Len(to_worker') = 0 /\ Pending' = 0
      BY <1>2, <2>1, <2>2 DEF Asking
    <2> QED
      BY <2>2, <2>4 DEF ValuesLast, Mine
  <1>19. CASE Idling
    BY <1>1, <1>19 DEF Idling, ValuesLast, InScript, Asking, Pending
  <1> QED
    BY <1>1, <1>10, <1>11, <1>12, <1>13, <1>14, <1>15, <1>16, <1>17, <1>18, <1>19, StepsSo

\* The invariant says what was to be shown.
LEMMA ValuesAre == ASSUME ValueInv PROVE ValuesBelong
  <1>1. to_pc # <<>> => Head(to_pc) = to_pc[1] /\ 1 \in 1 .. Len(to_pc)
    <2>1. IsLine(to_pc) /\ Len(to_pc) \in Nat
      BY Lengths DEF ValueInv
    <2> SUFFICES ASSUME to_pc # <<>> PROVE Head(to_pc) = to_pc[1] /\ 1 \in 1 .. Len(to_pc)
      OBVIOUS
    <2>2. Head(to_pc) = to_pc[1]
      BY <2>1, TailAt
    <2>3. Len(to_pc) > 0
      BY <2>1, TailLine
    <2> QED
      BY <2>1, <2>2, <2>3
  <1>2. ASSUME NEW i \in Nat, NEW d \in Nat, ~(i <= d) PROVE ~(1 <= d + 1 - i)
    BY <1>2
  <1> SUFFICES ASSUME session.at = "waiting", session.script \in Pc!Shipped,
                      session.call.then \notin {"ack", "again"},
                      to_pc # <<>>, Head(to_pc).kind = "OK value"
               PROVE  Head(to_pc).own /\ Head(to_pc).to = <<session.call.cmd, session.call.args>>
    BY DEF ValuesBelong
  <1>3. InScript
    BY DEF InScript
  <1>4. ~(1 <= Lead(session.script) + 1 - session.i)
    <2>1. session.i \in Nat /\ Lead(session.script) \in Nat
      BY CallAt, ScriptFacts DEF ValueInv
    <2>2. ~(session.i <= Lead(session.script))
      BY CallAt DEF ValueInv
    <2> QED
      BY <1>2, <2>1, <2>2
  <1>5. to_pc[1].own
    BY <1>1, <1>3, <1>4 DEF ValueInv, OthersFirst, Others
  <1> QED
    BY <1>1, <1>3, <1>5 DEF ValueInv, ValuesLast

\* The invariant holds at the start,
LEMMA ValuesStart == ASSUME Init PROVE ValueInv
  <1>1. LinkInv
    BY InitLink
  <1>2. /\ to_worker = <<>> /\ to_pc = <<>> /\ fw = Reading /\ session = Pc!Closed
    BY DEF Init, LineInit, FirmwareInit
  <1>3. Len(<<>>) = 0 /\ \A n \in 1 .. 0 : FALSE
    OBVIOUS
  <1>4. session.at = "closed"
    BY <1>2 DEF Pc!Closed
  <1>5. Following
    BY <1>4 DEF Following
  <1>6. Formed
    BY <1>2, <1>3 DEF Formed, Reading, NoLine, LineFields
  <1>7. OthersFirst
    BY <1>2, <1>3, <1>4 DEF OthersFirst, NoneOwn, InScript, Reading, NoLine
  <1>8. ValuesLast /\ Alone
    BY <1>4 DEF ValuesLast, Alone, InScript
  <1> QED
    BY <1>1, <1>5, <1>6, <1>7, <1>8 DEF ValueInv

\* and every step keeps it.
LEMMA ValuesStep == ASSUME BacklogFits, ValueInv, [Next]_vars PROVE ValueInv'
  <1>1. LinkInv'
    BY NextKeeps DEF ValueInv
  <1>2. Following' /\ Formed'
    BY FollowsOn, FormedOn DEF ValueInv
  <1>3. OthersFirst' /\ ValuesLast' /\ Alone'
    BY <1>1, OthersOn, ValuesOn, AloneOn
  <1> QED
    BY <1>1, <1>2, <1>3 DEF ValueInv

(***************************************************************************)
(* No value is taken for another, in any session of a shipped script that  *)
(* was opened with at most as many replies under way as its script begins  *)
(* with acknowledgements: execute_tests.py and demo_workflow.py write their*)
(* programs and registers before they read, and _send_ack of               *)
(* worker_interface.py does not take a value.                              *)
(***************************************************************************)
THEOREM ValuesAreOwn ==
  ASSUME BacklogFits
  PROVE  Spec => []ValuesBelong
  <1>1. Init => ValueInv
    BY ValuesStart
  <1>2. ValueInv /\ [Next]_vars => ValueInv'
    BY ValuesStep
  <1>3. ValueInv => ValuesBelong
    BY ValuesAre
  <1> QED
    BY <1>1, <1>2, <1>3, PTL DEF Spec

-----------------------------------------------------------------------------
(***************************************************************************)
(* The set-up of a test case.  In a session that found nothing under way   *)
(* each call of it is carried out before the next is sent, and what it did *)
(* is still there when the steps begin.                                    *)
(***************************************************************************)
CoreShape == DOMAIN regs = Regs /\ DOMAIN mem = Cells /\ session.steps \in Nat

\* Nothing is under way but the command that is waited for.
Quick ==
  session.leftover = 0 =>
    /\ session.at \in {"ready", "done"} => UnderWay = 0
    /\ session.at = "waiting" => UnderWay <= 1

\* A write that no later one has undone is in the memory.
Written(s, n, j) ==
  LET c == Pc!Scripts[s] IN
  /\ c[j].args[1] \in Cells
  /\ (\A k \in (j + 1) .. n : c[k].cmd = "WRITE_WORD" => c[k].args[1] # c[j].args[1])
       => mem[c[j].args[1]] = c[j].args[2]

\* What the first n calls of the set-up are for.
InEffect(s, n) ==
  LET c == Pc!Scripts[s] IN
  /\ n > 0 => ~running
  /\ \A j \in 1 .. n : c[j].cmd = "SET_REG" => regs[c[j].args[1]] = 0
  /\ \A j \in 1 .. n : c[j].cmd = "WRITE_WORD" => Written(s, n, j)
  /\ n > 0 /\ c[n].cmd = "SET_PC" => pc = c[n].args[1]

\* The line is the i-th call of s, or what half a line has made of it.
Brings(line, s, i) ==
  \/ line.cmd = "garbled"
  \/ line.cmd = Pc!Scripts[s][i].cmd /\ line.args = Pc!Scripts[s][i].args

\* The session is at the call n + 1 of s, has not begun to step and knows the worker.
At(s, n) ==
  /\ session.script = s /\ session.i = n + 1 /\ session.steps = 0
  /\ session.leftover = 0 /\ ~session.rebooted

Prepared(s, n) ==
  /\ session.at = "ready" /\ n <= Lead(s) => InEffect(s, n)
  /\ session.at = "waiting" /\ n < Lead(s) =>
       /\ Pending = 0
       /\ \A k \in 1 .. Len(to_worker) : InEffect(s, n) /\ Brings(to_worker[k], s, n + 1)
       /\ \A k \in 1 .. Len(to_pc) : to_pc[k].kind = "OK" => InEffect(s, n + 1)

SetUpDone == \A s \in Pc!Tests, n \in Nat : At(s, n) => Prepared(s, n)

SetUpInv == LinkInv /\ Following /\ CoreShape /\ Quick /\ SetUpDone

\* Which command of main.c carries out which line.
LEMMA CommandIs ==
  ASSUME FirmwareStep, fw.at = "readline"
  PROVE  /\ Line.cmd = "garbled" => Rejected
         /\ Line.cmd = "STOP" => STOP
         /\ Line.cmd = "SET_REG" /\ Arg(1) # 0 => Rejected \/ SET_REG
         /\ Line.cmd = "SET_PC" => SET_PC
         /\ Line.cmd = "WRITE_WORD" => WRITE_WORD \/ DataAbort
         /\ Line.cmd = "GET_REG" => Rejected \/ GET_REG
         /\ Line.cmd = "READ_WORD" => READ_WORD \/ DataAbort
  <1>1. Rejected => Line.cmd \in {"garbled", "GET_REG", "SET_REG", "FAULT_REG", "FAULT_MEM"}
    BY DEF Rejected, Rejects
  <1>2. /\ PROTOCOL_VERSION => Line.cmd = "PROTOCOL_VERSION"
        /\ START => Line.cmd = "START" /\ (STOP => Line.cmd = "STOP")
        /\ (STEP => Line.cmd = "STEP") /\ (GET_PC => Line.cmd = "GET_PC")
        /\ (SET_PC => Line.cmd = "SET_PC") /\ (GET_REG => Line.cmd = "GET_REG")
    BY DEF PROTOCOL_VERSION, START, STOP, STEP, GET_PC, SET_PC, GET_REG, Reads
  <1>3. /\ SET_REG => Line.cmd = "SET_REG"
        /\ FAULT_REG => Line.cmd = "FAULT_REG"
        /\ DataAbort => \/ Line.cmd \in {"READ_WORD", "WRITE_WORD", "FAULT_MEM"}
                        \/ Line.cmd \in {"SET_REG", "FAULT_REG"} /\ Arg(1) = 0
        /\ READ_WORD => Line.cmd = "READ_WORD"
        /\ WRITE_WORD => Line.cmd = "WRITE_WORD"
        /\ FAULT_MEM_Read => Line.cmd = "FAULT_MEM"
        /\ ~FAULT_MEM_Write
    BY DEF SET_REG, FAULT_REG, DataAbort, Aborts, READ_WORD, WRITE_WORD, FAULT_MEM_Read, FAULT_MEM_Write, Reads
  <1>4. START => Line.cmd = "START"
    BY DEF START, Reads
  <1>5. STOP => Line.cmd = "STOP"
    BY DEF STOP, Reads
  <1> QED
    BY <1>1, <1>2, <1>3, <1>4, <1>5 DEF FirmwareStep

\* The core keeps its registers, and the memory its words.
LEMMA DomainsKept ==
  ASSUME FirmwareStep \/ Execute
  PROVE  DOMAIN regs' = DOMAIN regs /\ DOMAIN mem' = DOMAIN mem
  <1>1. CASE Execute
    BY <1>1 DEF Execute
  <1>2. CASE Rejected \/ PROTOCOL_VERSION \/ GET_PC \/ GET_REG \/ DataAbort \/ READ_WORD \/ FAULT_MEM_Read
    BY <1>2 DEF Rejected, PROTOCOL_VERSION, GET_PC, GET_REG, DataAbort, READ_WORD, FAULT_MEM_Read, core_vars
  <1>3. CASE START \/ STOP \/ SET_PC
    BY <1>3 DEF START, STOP, SET_PC
  <1>4. CASE STEP
    BY <1>4 DEF STEP, Execute
  <1>5. CASE SET_REG \/ FAULT_REG
    BY <1>5 DEF SET_REG, FAULT_REG, WriteRegister
  <1>6. CASE WRITE_WORD \/ FAULT_MEM_Write
    BY <1>6 DEF WRITE_WORD, FAULT_MEM_Write
  <1> QED
    BY <1>1, <1>2, <1>3, <1>4, <1>5, <1>6 DEF FirmwareStep

\* Every step keeps them, and counts the steps of a test case.
LEMMA CoreShapeOn == ASSUME LinkInv, Following, CoreShape, [Next]_vars PROVE CoreShape'
  <1>1. CASE Closing
    BY <1>1 DEF Closing, CoreShape, Pc!Closed, core_vars
  <1>2. CASE Opening
    BY <1>2 DEF Opening, CoreShape, core_vars
  <1>3. CASE Sending
    BY <1>3 DEF Sending, Stays, CoreShape, core_vars
  <1>4. CASE Taking
    <2>1. /\ UNCHANGED core_vars
          /\ session'.steps = IF session.call.then = "again" THEN session.steps + 1
                              ELSE IF session.call.then = "report" THEN 0 ELSE session.steps
      BY <1>4 DEF Taking
    <2>2. session'.steps \in Nat
      BY <2>1 DEF CoreShape
    <2> QED
      BY <2>1, <2>2 DEF CoreShape, core_vars
  <1>5. CASE NextTest
    BY <1>5 DEF NextTest, CoreShape, core_vars
  <1>6. CASE Answering \/ Beginning \/ Ending
    <2>1. UNCHANGED session /\ FirmwareStep
      BY <1>6 DEF Answering, Beginning, Ending
    <2> QED
      BY <2>1, DomainsKept DEF CoreShape
  <1>7. CASE Restarting
    BY <1>7 DEF Restarting, CoreShape
  <1>8. CASE Idling
    <2>1. CASE Execute
      BY <1>8, <2>1, DomainsKept DEF Idling, CoreShape
    <2>2. CASE UNCHANGED <<pc, regs, mem>>
      BY <1>8, <2>2 DEF Idling, CoreShape
    <2> QED
      BY <1>8, <2>1, <2>2 DEF Idling
  <1> QED
    BY <1>1, <1>2, <1>3, <1>4, <1>5, <1>6, <1>7, <1>8, StepsSo

\* Every step keeps the line quick.
LEMMA QuickOn == ASSUME LinkInv, Following, Quick, [Next]_vars, LinkInv' PROVE Quick'
  <1>0. UnderWay \in Nat /\ UnderWay' \in Nat
    BY UnderWayOn
  <1>1. CASE Closing
    <2>1. session'.at = "closed"
      BY <1>1 DEF Closing, Pc!Closed
    <2> QED
      BY <2>1 DEF Quick
  <1>2. CASE Opening
    <2>1. session'.at = "ready" /\ UnderWay' = session'.leftover
      BY <1>2, UnderWayOn DEF Opening
    <2> QED
      BY <2>1 DEF Quick
  <1>3. CASE Sending
    <2>1. /\ session.at = "ready" /\ session'.at = "waiting"
          /\ session'.leftover = session.leftover /\ UnderWay' = UnderWay + 1
      BY <1>3, UnderWayOn DEF Sending, Stays
    <2>2. UnderWay = 0 => UnderWay' <= 1
      BY <2>1
    <2> QED
      BY <2>1, <2>2 DEF Quick
  <1>4. CASE Taking
    <2>1. /\ session.at = "waiting" /\ session'.at \in {"ready", "done"}
          /\ session'.leftover = session.leftover /\ UnderWay' = UnderWay - 1
      BY <1>4, UnderWayOn DEF Taking
    <2>2. UnderWay <= 1 => UnderWay' = 0
      BY <1>0, <2>1
    <2> QED
      BY <2>1, <2>2 DEF Quick
  <1>5. CASE NextTest
    <2>1. /\ session.at = "done" /\ session'.at = "ready"
          /\ session'.leftover = session.leftover /\ UnderWay' = UnderWay
      BY <1>5, UnderWayOn DEF NextTest
    <2> QED
      BY <2>1 DEF Quick
  <1>6. CASE Answering \/ Beginning \/ Ending \/ Restarting \/ Idling
    <2>1. /\ session'.at = session.at /\ session'.leftover = session.leftover
          /\ UnderWay' <= UnderWay
      BY <1>6, UnderWayOn DEF Answering, Beginning, Ending, Restarting, Idling
    <2>2. (UnderWay = 0 => UnderWay' = 0) /\ (UnderWay <= 1 => UnderWay' <= 1)
      <3> DEFINE u == UnderWay
                 v == UnderWay'
      <3>1. u \in Nat /\ v \in Nat /\ v <= u
        BY <1>0, <2>1
      <3> HIDE DEF u, v
      <3>2. (u = 0 => v = 0) /\ (u <= 1 => v <= 1)
        BY <3>1
      <3> QED
        BY <3>2 DEF u, v
    <2> QED
      BY <2>1, <2>2 DEF Quick
  <1> QED
    BY <1>1, <1>2, <1>3, <1>4, <1>5, <1>6, StepsSo

\* The calls of the set-up in the script of a test case.
LEMMA SetUpCalls ==
  ASSUME NEW s \in Pc!Tests
  PROVE  /\ s \in Pc!Shipped /\ Pc!Scripts[s] = Pc!execute_test_case(TestCases[s])
         /\ Lead(s) = LoopAt(s) /\ Lead(s) \in Nat /\ Lead(s) > 1
         /\ \A j \in 1 .. Lead(s) : IsSetUp(Pc!Scripts[s][j])
         /\ Pc!Scripts[s][1].cmd = "STOP"
         /\ IsLine(Pc!Scripts[s]) /\ SetsUpSo(s, Pc!Scripts[s]) /\ ComparesSo(s, Pc!Scripts[s])
         /\ Len(Pc!Scripts[s]) = WordsAt(s) + Len(TestCases[s].expected_memory)
  <1>1. s \in Pc!Shipped /\ Pc!Scripts[s] = Pc!execute_test_case(TestCases[s])
    <2>1. Pc!Shipped = Pc!Tests \cup {"demo", "faults"}
      BY DEF Pc!Shipped, Pc!Scripts
    <2>2. "demo" \notin Pc!Tests /\ "faults" \notin Pc!Tests
      BY ScriptAssumption DEF Pc!Tests
    <2>3. Pc!Scripts[s] = Pc!execute_test_case(TestCases[s])
      BY <2>2 DEF Pc!Scripts
    <2> QED
      BY <2>1, <2>3
  <1>2. /\ IsLine(Pc!Scripts[s]) /\ SetsUpSo(s, Pc!Scripts[s]) /\ ComparesSo(s, Pc!Scripts[s])
        /\ Len(Pc!Scripts[s]) = WordsAt(s) + Len(TestCases[s].expected_memory)
        /\ Len(Pc!setup_test_case(TestCases[s])) = LoopAt(s)
    BY <1>1, TestPlaced
  <1>3. Lead(s) = LoopAt(s)
    BY <1>2, ScriptAssumption DEF Lead, Pc!Tests
  <1>4. LoopAt(s) \in Nat /\ LoopAt(s) > 1
    <2>1. /\ 1 < ClearAt(s) /\ ClearAt(s) <= ProgramAt(s) /\ ProgramAt(s) <= DataAt(s)
          /\ DataAt(s) <= LastAt(s) /\ LoopAt(s) = LastAt(s) + 2
          /\ ClearAt(s) \in Nat /\ ProgramAt(s) \in Nat /\ DataAt(s) \in Nat /\ LastAt(s) \in Nat
      BY Places
    <2> QED
      BY <2>1
  <1>5. \A j \in 1 .. LoopAt(s) : IsSetUp(Pc!Scripts[s][j])
    BY <1>2, TestCalls
  <1>6. Pc!Scripts[s][1].cmd = "STOP"
    BY <1>2 DEF SetsUpSo, Pc!Ack, Pc!Call
  <1> QED
    BY <1>1, <1>2, <1>3, <1>4, <1>5, <1>6

\* What a command of the set-up does when those before it are in effect.
LEMMA EffectOf ==
  ASSUME LinkInv, CoreShape, FirmwareStep, fw.at = "readline", UNCHANGED fw,
         NEW s \in Pc!Tests, NEW n \in Nat, n < Lead(s), InEffect(s, n),
         Line.cmd = Pc!Scripts[s][n + 1].cmd, Line.args = Pc!Scripts[s][n + 1].args
  PROVE  InEffect(s, n + 1)'
  <1>1. PICK c : c = Pc!Scripts[s]
    OBVIOUS
  <1>2. /\ \A j \in 1 .. n + 1 : IsSetUp(c[j])
        /\ c[1].cmd = "STOP" /\ Line.cmd = c[n + 1].cmd /\ Line.args = c[n + 1].args
    <2>1. Lead(s) \in Nat /\ (\A j \in 1 .. Lead(s) : IsSetUp(c[j])) /\ c[1].cmd = "STOP"
      BY <1>1, SetUpCalls
    <2>2. \A j \in 1 .. n + 1 : j \in 1 .. Lead(s)
      BY <2>1
    <2> QED
      BY <1>1, <2>1, <2>2
  <1>3. /\ n > 0 => ~running
        /\ \A j \in 1 .. n : c[j].cmd = "SET_REG" => regs[c[j].args[1]] = 0
        /\ \A j \in 1 .. n : c[j].cmd = "WRITE_WORD" =>
             /\ c[j].args[1] \in Cells
             /\ (\A k \in (j + 1) .. n : c[k].cmd = "WRITE_WORD" => c[k].args[1] # c[j].args[1])
                  => mem[c[j].args[1]] = c[j].args[2]
    BY <1>1 DEF InEffect, Written
  <1>4. /\ \A j \in 1 .. n + 1 : j \in 1 .. n \/ j = n + 1
        /\ \A j \in 1 .. n : j # n + 1
        /\ n + 1 \in 1 .. n + 1 /\ n + 1 > 0
    OBVIOUS
  <1>5. ASSUME /\ ~running'
               /\ \A j \in 1 .. n + 1 : c[j].cmd = "SET_REG" => regs'[c[j].args[1]] = 0
               /\ \A j \in 1 .. n + 1 : c[j].cmd = "WRITE_WORD" =>
                    /\ c[j].args[1] \in Cells
                    /\ (\A k \in (j + 1) .. n + 1 :
                          c[k].cmd = "WRITE_WORD" => c[k].args[1] # c[j].args[1])
                         => mem'[c[j].args[1]] = c[j].args[2]
               /\ c[n + 1].cmd = "SET_PC" => pc' = c[n + 1].args[1]
        PROVE  InEffect(s, n + 1)'
    BY <1>1, <1>5 DEF InEffect, Written
  <1>6. c[n + 1].cmd # "STOP" => ~running
    BY <1>2, <1>3
  \* Words that are not written keep what they have.
  <1>7. ASSUME UNCHANGED mem, c[n + 1].cmd # "WRITE_WORD", NEW j \in 1 .. n + 1, c[j].cmd = "WRITE_WORD"
        PROVE  /\ c[j].args[1] \in Cells
               /\ (\A k \in (j + 1) .. n + 1 :
                     c[k].cmd = "WRITE_WORD" => c[k].args[1] # c[j].args[1])
                    => mem'[c[j].args[1]] = c[j].args[2]
    <2>1. j \in 1 .. n
      BY <1>4, <1>7
    <2>2. \A k \in (j + 1) .. n : k \in (j + 1) .. n + 1
      BY <2>1
    <2> QED
      BY <1>3, <1>7, <2>1, <2>2
  \* Registers too.
  <1>8. ASSUME UNCHANGED regs, c[n + 1].cmd # "SET_REG"
        PROVE  \A j \in 1 .. n + 1 : c[j].cmd = "SET_REG" => regs'[c[j].args[1]] = 0
    BY <1>3, <1>4, <1>8
  <1>9. IsSetUp(c[n + 1])
    BY <1>2, <1>4
  <1>10. CASE c[n + 1].cmd = "STOP"
    <2>1. STOP
      BY <1>2, <1>10, CommandIs
    <2>2. ~running' /\ UNCHANGED <<regs, mem>>
      BY <2>1 DEF STOP
    <2>3. c[n + 1].cmd \notin {"SET_REG", "WRITE_WORD", "SET_PC"}
      BY <1>10
    <2> QED
      BY <1>5, <1>7, <1>8, <2>2, <2>3
  <1>11. CASE c[n + 1].cmd = "SET_PC"
    <2>1. SET_PC
      BY <1>2, <1>11, CommandIs
    <2>2. ~running' /\ UNCHANGED <<regs, mem>> /\ pc' = c[n + 1].args[1]
      BY <1>2, <1>6, <1>11, <2>1 DEF SET_PC, Arg
    <2>3. c[n + 1].cmd \notin {"SET_REG", "WRITE_WORD"}
      BY <1>11
    <2> QED
      BY <1>5, <1>7, <1>8, <2>2, <2>3
  <1>12. CASE c[n + 1].cmd = "SET_REG"
    <2> DEFINE r == c[n + 1].args[1]
    <2>1. /\ r \in Regs /\ c[n + 1].args[2] = 0 /\ r # 0 /\ ~(r > REG_MAX)
          /\ Line.cmd = "SET_REG" /\ Arg(1) = r /\ Arg(2) = 0
      <3>1. r \in Regs /\ c[n + 1].args[2] = 0
        BY <1>9, <1>12 DEF IsSetUp
      <3>2. r # 0 /\ ~(r > REG_MAX)
        BY <3>1, FirmwareAssumption DEF Regs, REG_MAX
      <3> QED
        BY <1>2, <1>12, <3>1, <3>2 DEF Arg
    <2>2. ~Rejected
      BY <2>1 DEF Rejected, Rejects, BadReg
    <2>3. SET_REG
      BY <2>1, <2>2, CommandIs
    <2>4. ~running /\ regs' = [regs EXCEPT ![r] = 0] /\ UNCHANGED <<mem, running>>
      BY <1>6, <1>12, <2>1, <2>3 DEF SET_REG, WriteRegister
    <2>5. ASSUME NEW j \in 1 .. n + 1, c[j].cmd = "SET_REG"
          PROVE  regs'[c[j].args[1]] = 0
      <3>1. c[j].args[1] \in Regs
        BY <1>2, <2>5 DEF IsSetUp
      <3>2. c[j].args[1] = r \/ regs[c[j].args[1]] = 0
        BY <1>3, <1>4, <2>5
      <3> QED
        BY <2>4, <3>1, <3>2 DEF CoreShape
    <2>6. c[n + 1].cmd \notin {"WRITE_WORD", "SET_PC"}
      BY <1>12
    <2> QED
      BY <1>5, <1>7, <2>4, <2>5, <2>6
  <1>13. CASE c[n + 1].cmd = "WRITE_WORD"
    <2> DEFINE a == c[n + 1].args[1]
    <2>1. Line.cmd = "WRITE_WORD" /\ Arg(1) = a /\ Arg(2) = c[n + 1].args[2]
      BY <1>2, <1>13 DEF Arg
    <2>2. ~DataAbort
      BY DEF DataAbort, LinkInv, Shape
    <2>3. WRITE_WORD
      BY <2>1, <2>2, CommandIs
    <2>4. /\ a \in Cells /\ mem' = [mem EXCEPT ![a] = c[n + 1].args[2]]
          /\ ~running /\ UNCHANGED <<regs, running>>
      BY <1>6, <1>13, <2>1, <2>3 DEF WRITE_WORD
    <2>5. ASSUME NEW j \in 1 .. n + 1, c[j].cmd = "WRITE_WORD"
          PROVE  /\ c[j].args[1] \in Cells
                 /\ (\A k \in (j + 1) .. n + 1 :
                       c[k].cmd = "WRITE_WORD" => c[k].args[1] # c[j].args[1])
                      => mem'[c[j].args[1]] = c[j].args[2]
      <3>1. CASE j = n + 1
        BY <2>4, <3>1 DEF CoreShape
      <3>2. CASE j \in 1 .. n
        <4>1. n + 1 \in (j + 1) .. n + 1 /\ \A k \in (j + 1) .. n : k \in (j + 1) .. n + 1
          BY <3>2
        <4> QED
          BY <1>3, <1>13, <2>4, <2>5, <3>2, <4>1 DEF CoreShape
      <3> QED
        BY <1>4, <3>1, <3>2
    <2>6. c[n + 1].cmd \notin {"SET_REG", "SET_PC"}
      BY <1>13
    <2> QED
      BY <1>5, <1>8, <2>4, <2>5, <2>6
  <1> QED
    BY <1>9, <1>10, <1>11, <1>12, <1>13 DEF IsSetUp

\* The client's steps leave the core as it is, and so does a core that is stopped.
LEMMA EffectStays ==
  ASSUME NEW s, NEW m \in Nat, InEffect(s, m), UNCHANGED core_vars \/ Idling
  PROVE  InEffect(s, m)'
  <1>1. CASE UNCHANGED core_vars
    BY <1>1 DEF InEffect, Written, core_vars
  <1>2. CASE Idling
    <2>1. UNCHANGED running /\ (running \/ UNCHANGED <<pc, regs, mem>>)
      BY <1>2 DEF Idling
    <2>2. CASE m > 0
      <3>1. UNCHANGED core_vars
        BY <2>1, <2>2 DEF InEffect, core_vars
      <3> QED
        BY <1>1, <3>1
    <2>3. CASE m = 0
      BY <2>3 DEF InEffect
    <2> QED
      BY <2>2, <2>3
  <1> QED
    BY <1>1, <1>2

\* At most one thing is under way, and it is a command: nothing else.
LEMMA OnlyCommand ==
  ASSUME LinkInv, UnderWay <= 1, to_worker # <<>>, NEW e
  PROVE  /\ Len(to_worker) = 1 /\ Len(to_pc) = 0 /\ Pending = 0 /\ Line = to_worker[1]
         /\ Len(Tail(to_worker)) = 0 /\ Len(Append(to_pc, e)) = 1 /\ Append(to_pc, e)[1] = e
  <1> DEFINE w == Len(to_worker)
             p == Len(to_pc)
             q == Pending
  <1>1. w \in Nat /\ p \in Nat /\ q \in {0, 1} /\ w > 0 /\ w + q + p <= 1
    BY Lengths, TailLine DEF UnderWay
  <1>2. IsLine(to_worker) /\ IsLine(to_pc)
    BY Lengths
  <1>3. /\ Line = to_worker[1] /\ Len(Tail(to_worker)) = w - 1
        /\ Len(Append(to_pc, e)) = p + 1
    BY <1>2, TailLine, TailAt, AppendLine DEF Line
  <1>4. \A i \in 1 .. p + 1 : Append(to_pc, e)[i] = IF i <= p THEN to_pc[i] ELSE e
    BY <1>2, AppendAt
  <1> HIDE DEF w, p, q
  <1>5. w = 1 /\ p = 0 /\ q = 0
    BY <1>1
  <1>6. Append(to_pc, e)[1] = e
    BY <1>4, <1>5
  <1> QED
    BY <1>3, <1>5, <1>6 DEF w, p, q

\* Every step keeps what is prepared.
LEMMA SetUpDoneOn ==
  ASSUME SetUpInv, [Next]_vars
  PROVE  SetUpDone'
  <1>0. LinkInv /\ Following /\ CoreShape /\ Quick /\ SetUpDone
    BY DEF SetUpInv
  <1> SUFFICES ASSUME NEW s \in Pc!Tests, NEW n \in Nat, At(s, n)'
               PROVE  Prepared(s, n)'
    BY DEF SetUpDone
  <1>1. /\ session'.script = s /\ session'.i = n + 1 /\ session'.steps = 0
        /\ session'.leftover = 0 /\ ~session'.rebooted
    BY DEF At
  <1>2. s \in Pc!Shipped /\ Lead(s) \in Nat /\ \A j \in 1 .. Lead(s) : IsSetUp(Pc!Scripts[s][j])
    BY SetUpCalls
  <1>3. At(s, n) => Prepared(s, n)
    BY <1>0 DEF SetUpDone
  <1>4. /\ Len(to_worker) \in Nat /\ Len(to_pc) \in Nat /\ Pending \in {0, 1}
        /\ IsLine(to_worker) /\ IsLine(to_pc)
    BY <1>0, Lengths
  <1>5. CASE Closing
    BY <1>5 DEF Closing, Pc!Closed, Prepared
  <1>6. CASE Opening \/ NextTest
    <2>1. session'.at = "ready" /\ session'.i = 1
      BY <1>6 DEF Opening, NextTest
    <2>2. n = 0
      BY <1>1, <2>1
    <2>3. InEffect(s, n)'
      BY <2>2 DEF InEffect
    <2> QED
      BY <2>1, <2>3 DEF Prepared
  <1>7. CASE Sending
    <2>1. PICK c, e :
            /\ session.at = "ready" /\ session'.at = "waiting"
            /\ session'.script = session.script /\ session'.i = session.i
            /\ Stays
            /\ session.script \in Pc!Shipped =>
                 LET d == Pc!Scripts[session.script][session.i] IN
                 c.cmd = d.cmd /\ c.then = d.then /\ (d.then # "instr" => c = d)
            /\ \/ e.cmd = c.cmd /\ e.args = c.args
               \/ e.cmd = "garbled"
            /\ to_worker' = Append(to_worker, e)
            /\ UNCHANGED <<to_pc, fw, core_vars>>
      BY <1>7 DEF Sending
    <2>2. At(s, n)
      BY <1>1, <2>1 DEF At, Stays
    <2> SUFFICES ASSUME n < Lead(s)
                 PROVE  /\ Pending' = 0
                        /\ \A k \in 1 .. Len(to_worker') :
                             InEffect(s, n)' /\ Brings(to_worker'[k], s, n + 1)
                        /\ \A k \in 1 .. Len(to_pc') : FALSE
      BY <2>1 DEF Prepared
    <2>3. InEffect(s, n)
      BY <1>2, <1>3, <2>1, <2>2 DEF Prepared
    <2>4. InEffect(s, n)'
      BY <2>1, <2>3, EffectStays
    <2>5. Len(to_worker) = 0 /\ Len(to_pc) = 0 /\ Pending = 0
      BY <1>0, <2>1, <2>2, NothingLeft DEF Quick, At
    <2>6. /\ Len(to_worker') = Len(to_worker) + 1
          /\ \A i \in 1 .. Len(to_worker) + 1 :
               to_worker'[i] = IF i <= Len(to_worker) THEN to_worker[i] ELSE e
      BY <1>4, <2>1, AppendLine, AppendAt
    <2>7. Len(to_worker') = 1 /\ to_worker'[1] = e
      BY <2>5, <2>6
    <2>8. Brings(e, s, n + 1)
      <3>1. n + 1 \in 1 .. Lead(s)
        BY <1>2
      <3>2. Pc!Scripts[s][n + 1].then # "instr"
        BY <1>2, <3>1 DEF IsSetUp
      <3>3. c = Pc!Scripts[s][n + 1]
        BY <1>2, <2>1, <2>2, <3>2 DEF At
      <3> QED
        BY <2>1, <3>3 DEF Brings
    <2>9. Pending' = 0
      BY <2>1, <2>5 DEF Pending
    <2>10. \A k \in 1 .. Len(to_worker') : to_worker'[k] = e
      BY <2>7
    <2>11. \A k \in 1 .. Len(to_pc') : FALSE
      BY <2>1, <2>5
    <2> QED
      BY <2>4, <2>8, <2>9, <2>10, <2>11
  <1>8. CASE Taking
    <2>1. /\ session.at = "waiting" /\ to_pc # <<>> /\ Pc!Acceptable(Head(to_pc))
          /\ session.script = s /\ session'.at \in {"ready", "done"}
          /\ session.leftover = 0 /\ ~session.rebooted /\ UNCHANGED core_vars
          /\ 0 = IF session.call.then = "again" THEN session.steps + 1
                  ELSE IF session.call.then = "report" THEN 0 ELSE session.steps
      BY <1>1, <1>8 DEF Taking
    <2>2. \/ n + 1 = session.i + 1
          \/ n + 1 = session.i + 2 /\ session.call.then = "instr"
          \/ n + 1 = session.i - 2 /\ session.call.then = "again"
      BY <1>1, <1>2, <1>8, <2>1 DEF Taking
    <2>3. session.call.then # "again"
      BY <1>0, <2>1 DEF CoreShape
    <2>4. /\ session.i \in Nat \ {0} /\ session.i <= Lead(s) => session.call.then = "ack"
      BY <1>0, <1>2, <2>1, CallAt
    <2> SUFFICES ASSUME n <= Lead(s)
                 PROVE  InEffect(s, n)'
      BY <2>1 DEF Prepared
    <2> DEFINE i == session.i
               d == Lead(s)
    <2>5. i \in Nat \ {0} /\ d \in Nat /\ n <= d /\ (n + 1 = i + 1 \/ n + 1 = i + 2)
      BY <1>2, <2>2, <2>3, <2>4, CallAt, <1>0, <2>1
    <2>6. i <= d /\ i - 1 \in Nat /\ i - 1 < d /\ i = (i - 1) + 1
      <3> HIDE DEF i, d
      <3> QED
        BY <2>5
    <2>7. session.call.then = "ack" /\ n = i
      <3>1. session.call.then = "ack"
        BY <2>4, <2>6
      <3>2. n + 1 = i + 1
        BY <2>2, <3>1
      <3> QED
        BY <2>5, <3>1, <3>2
    <2>8. At(s, i - 1)
      BY <2>1, <2>6, <2>7 DEF At
    <2>9. \A k \in 1 .. Len(to_pc) : to_pc[k].kind = "OK" => InEffect(s, (i - 1) + 1)
      BY <1>0, <2>1, <2>6, <2>8 DEF SetUpDone, Prepared
    <2>10. 1 \in 1 .. Len(to_pc) /\ Head(to_pc) = to_pc[1]
      BY <1>4, <2>1, TailLine, TailAt
    <2>11. to_pc[1].kind = "OK"
      BY <2>1, <2>7, <2>10 DEF Pc!Acceptable
    <2>12. InEffect(s, n)
      BY <2>6, <2>7, <2>9, <2>10, <2>11
    <2> QED
      BY <2>1, <2>12, EffectStays
  <1>9. CASE Answering
    <2>1. PICK e : /\ fw.at = "readline" /\ to_worker # <<>> /\ to_worker' = Tail(to_worker)
                   /\ to_pc' = Append(to_pc, e) /\ UNCHANGED <<session, fw>> /\ FirmwareStep
      BY <1>9 DEF Answering
    <2>2. At(s, n) /\ Prepared(s, n)
      BY <1>1, <1>3, <2>1 DEF At
    <2>3. CASE session.at # "waiting"
      <3>1. session.at # "ready"
        <4>1. session.at = "ready" => Len(to_worker) = 0
          BY <1>0, <2>2, NothingLeft DEF Quick, At
        <4> QED
          BY <1>4, <2>1, <4>1, TailLine
      <3> QED
        BY <2>1, <2>3, <3>1 DEF Prepared
    <2>4. CASE session.at = "waiting"
      <3>1. /\ Len(to_worker) = 1 /\ Len(to_pc) = 0 /\ Pending = 0 /\ Line = to_worker[1]
            /\ Len(to_worker') = 0 /\ Len(to_pc') = 1 /\ to_pc'[1] = e
        BY <1>0, <2>1, <2>2, <2>4, OnlyCommand DEF Quick, At
      <3> SUFFICES ASSUME n < Lead(s), e.kind = "OK"
                   PROVE  InEffect(s, n + 1)'
        <4>1. Pending' = 0 /\ \A k \in 1 .. Len(to_worker') : FALSE
          BY <2>1, <3>1 DEF Pending
        <4>2. \A k \in 1 .. Len(to_pc') : to_pc'[k] = e
          BY <3>1
        <4> QED
          BY <2>1, <2>4, <4>1, <4>2 DEF Prepared
      <3>2. InEffect(s, n) /\ Brings(Line, s, n + 1)
        BY <2>2, <2>4, <3>1 DEF Prepared
      <3>3. Line.cmd # "garbled"
        <4>1. Line.cmd = "garbled" => Rejected
          BY <2>1, CommandIs
        <4>2. Rejected => to_pc' = Append(to_pc, Reply("ERR", 0, Line))
          BY DEF Rejected, Answer
        <4>3. Append(to_pc, Reply("ERR", 0, Line))[1] = Reply("ERR", 0, Line)
          BY <1>0, <2>1, <2>2, <2>4, OnlyCommand DEF Quick, At
        <4> QED
          BY <3>1, <4>1, <4>2, <4>3 DEF Reply
      <3>4. Line.cmd = Pc!Scripts[s][n + 1].cmd /\ Line.args = Pc!Scripts[s][n + 1].args
        BY <3>2, <3>3 DEF Brings
      <3> QED
        BY <1>0, <2>1, <3>2, <3>4, EffectOf
    <2> QED
      BY <2>3, <2>4
  <1>10. CASE Beginning
    <2>1. /\ fw.at = "readline" /\ to_worker # <<>> /\ to_worker' = Tail(to_worker)
          /\ \/ Line.cmd = "FAULT_MEM"
             \/ fw'.at = "aborted"
          /\ UNCHANGED <<session, to_pc>>
      BY <1>10 DEF Beginning
    <2>2. At(s, n) /\ Prepared(s, n)
      BY <1>1, <1>3, <2>1 DEF At
    <2>3. CASE session.at # "waiting"
      <3>1. session.at # "ready"
        <4>1. session.at = "ready" => Len(to_worker) = 0
          BY <1>0, <2>2, NothingLeft DEF Quick, At
        <4> QED
          BY <1>4, <2>1, <4>1, TailLine
      <3> QED
        BY <2>1, <2>3, <3>1 DEF Prepared
    <2>4. CASE session.at = "waiting"
      <3>1. /\ Len(to_worker) = 1 /\ Len(to_pc) = 0 /\ Line = to_worker[1]
            /\ Len(to_worker') = 0
        BY <1>0, <2>1, <2>2, <2>4, OnlyCommand DEF Quick, At
      <3> SUFFICES ASSUME n < Lead(s)
                   PROVE  Pending' = 0
        <4>1. Len(to_worker') = 0 /\ Len(to_pc') = 0
          BY <2>1, <3>1
        <4>2. \A k \in 1 .. 0 : FALSE
          OBVIOUS
        <4>3. /\ \A k \in 1 .. Len(to_worker') : FALSE
              /\ \A k \in 1 .. Len(to_pc') : FALSE
          BY <4>1, <4>2
        <4> QED
          BY <2>1, <2>4, <4>3 DEF Prepared
      <3>2. Brings(Line, s, n + 1)
        BY <2>2, <2>4, <3>1 DEF Prepared
      <3>3. n + 1 \in 1 .. Lead(s)
        BY <1>2
      <3>4. Line.cmd # "FAULT_MEM"
        BY <1>2, <3>2, <3>3 DEF Brings, IsSetUp
      <3> QED
        BY <2>1, <3>4 DEF Pending
    <2> QED
      BY <2>3, <2>4
  <1>11. CASE Ending
    <2>1. fw.at = "fault_mem" /\ UNCHANGED session
      BY <1>11 DEF Ending
    <2>2. At(s, n) /\ Prepared(s, n) /\ Pending # 0
      BY <1>1, <1>3, <2>1 DEF At, Pending
    <2>3. session.at # "ready"
      BY <1>0, <2>2, NothingLeft DEF Quick, At
    <2> QED
      BY <2>1, <2>2, <2>3 DEF Prepared
  <1>12. CASE Restarting
    BY <1>1, <1>12 DEF Restarting, Prepared
  <1>13. CASE Idling
    <2>1. UNCHANGED <<session, to_worker, to_pc, fw>>
      BY <1>13 DEF Idling
    <2>2. At(s, n) /\ Prepared(s, n)
      BY <1>1, <1>3, <2>1 DEF At
    <2>3. n + 1 \in Nat
      OBVIOUS
    <2>4. InEffect(s, n) => InEffect(s, n)'
      BY <1>13, EffectStays
    <2>5. InEffect(s, n + 1) => InEffect(s, n + 1)'
      BY <1>13, <2>3, EffectStays
    <2>6. Pending' = Pending
      BY <2>1 DEF Pending
    <2> QED
      BY <2>1, <2>2, <2>4, <2>5, <2>6 DEF Prepared
  <1> QED
    BY <1>0, <1>5, <1>6, <1>7, <1>8, <1>9, <1>10, <1>11, <1>12, <1>13, StepsSo

\* The writes of the set-up: the words that are cleared, the program, and the data.
LEMMA WritesAt ==
  ASSUME NEW s \in Pc!Tests, NEW k \in 1 .. Lead(s), Pc!Scripts[s][k].cmd = "WRITE_WORD"
  PROVE  LET c == Pc!Scripts[s]
             t == TestCases[s]
         IN \/ \E i \in 1 .. Len(t.expected_memory) :
                 k = ClearAt(s) + i /\ c[k].args[1] = BRAM_BASE_ADDR + 4 * (i - 1)
            \/ \E i \in 1 .. Len(t.program) :
                 k = ProgramAt(s) + i /\ c[k].args[1] = boot_addr + 4 * (i - 1)
            \/ \E i \in 1 .. Len(t.initial_memory) :
                 k = DataAt(s) + i /\ c[k].args[1] = BRAM_BASE_ADDR + 4 * (i - 1)
  <1> DEFINE E == Len(TestCases[s].expected_memory)
             P == Len(TestCases[s].program)
             D == Len(TestCases[s].initial_memory)
  <1>1. PICK c : c = Pc!Scripts[s]
    OBVIOUS
  <1>2. /\ REG_MAX \in Nat /\ E \in Nat /\ P \in Nat /\ D \in Nat
        /\ ClearAt(s) = 1 + REG_MAX /\ ProgramAt(s) = ClearAt(s) + E /\ DataAt(s) = ProgramAt(s) + P
        /\ LastAt(s) = DataAt(s) + D /\ Lead(s) = LastAt(s) + 2
        /\ ClearAt(s) \in Nat /\ ProgramAt(s) \in Nat /\ DataAt(s) \in Nat /\ LastAt(s) \in Nat
    <2>1. Lead(s) = LoopAt(s)
      BY SetUpCalls
    <2> QED
      BY <2>1, Places
  <1>3. /\ c[1].cmd = "STOP" /\ c[LastAt(s) + 1].cmd = "STOP" /\ c[LastAt(s) + 2].cmd = "SET_PC"
        /\ \A i \in 1 .. REG_MAX : c[1 + i].cmd = "SET_REG"
        /\ \A i \in 1 .. E : c[ClearAt(s) + i].args[1] = BRAM_BASE_ADDR + 4 * (i - 1)
        /\ \A i \in 1 .. P : c[ProgramAt(s) + i].args[1] = boot_addr + 4 * (i - 1)
        /\ \A i \in 1 .. D : c[DataAt(s) + i].args[1] = BRAM_BASE_ADDR + 4 * (i - 1)
    <2>1. SetsUpSo(s, c)
      BY <1>1, SetUpCalls
    <2>2. /\ c[1] = Pc!Ack("STOP", <<>>) /\ c[LastAt(s) + 1] = Pc!Ack("STOP", <<>>)
          /\ c[LastAt(s) + 2] = Pc!Ack("SET_PC", <<boot_addr>>)
      BY <2>1 DEF SetsUpSo
    <2>3. c[1].cmd = "STOP" /\ c[LastAt(s) + 1].cmd = "STOP" /\ c[LastAt(s) + 2].cmd = "SET_PC"
      BY <2>2 DEF Pc!Ack, Pc!Call
    <2>4. ASSUME NEW i \in 1 .. REG_MAX PROVE c[1 + i].cmd = "SET_REG"
      <3>1. c[1 + i] = Pc!Ack("SET_REG", <<i, 0>>)
        BY <2>1 DEF SetsUpSo
      <3> QED
        BY <3>1 DEF Pc!Ack, Pc!Call
    <2>5. ASSUME NEW i \in 1 .. E PROVE c[ClearAt(s) + i].args[1] = BRAM_BASE_ADDR + 4 * (i - 1)
      <3>1. c[ClearAt(s) + i] = Pc!Ack("WRITE_WORD", <<BRAM_BASE_ADDR + 4 * (i - 1), 0>>)
        BY <2>1 DEF SetsUpSo
      <3> QED
        BY <3>1 DEF Pc!Ack, Pc!Call
    <2>6. ASSUME NEW i \in 1 .. P PROVE c[ProgramAt(s) + i].args[1] = boot_addr + 4 * (i - 1)
      <3>1. c[ProgramAt(s) + i] =
              Pc!Ack("WRITE_WORD", <<boot_addr + 4 * (i - 1), TestCases[s].program[i]>>)
        BY <2>1 DEF SetsUpSo
      <3> QED
        BY <3>1 DEF Pc!Ack, Pc!Call
    <2>7. ASSUME NEW i \in 1 .. D PROVE c[DataAt(s) + i].args[1] = BRAM_BASE_ADDR + 4 * (i - 1)
      <3>1. c[DataAt(s) + i] =
              Pc!Ack("WRITE_WORD", <<BRAM_BASE_ADDR + 4 * (i - 1), TestCases[s].initial_memory[i]>>)
        BY <2>1 DEF SetsUpSo
      <3> QED
        BY <3>1 DEF Pc!Ack, Pc!Call
    <2> QED
      BY <2>3, <2>4, <2>5, <2>6, <2>7
  <1> DEFINE f == ClearAt(s)
             g == ProgramAt(s)
             h == DataAt(s)
             l == LastAt(s)
  <1>4. k \in Nat /\ k >= 1 /\ k <= l + 2
    <2>1. k \in 1 .. l + 2 /\ l \in Nat
      BY <1>2
    <2> HIDE DEF l
    <2> QED
      BY <2>1
  <1>5. k \notin {1, l + 1, l + 2} /\ \A i \in 1 .. REG_MAX : k # 1 + i
    <2>1. k # 1 /\ k # l + 1 /\ k # l + 2
      BY <1>1, <1>3
    <2>2. \A i \in 1 .. REG_MAX : k # 1 + i
      BY <1>1, <1>3
    <2> QED
      BY <2>1, <2>2
  <1> HIDE DEF E, P, D, f, g, h, l
  <1>6. /\ f = 1 + REG_MAX /\ g = f + E /\ h = g + P /\ l = h + D
        /\ f \in Nat /\ g \in Nat /\ h \in Nat /\ l \in Nat
    BY <1>2 DEF f, g, h, l
  <1>7. k > f /\ k <= l
    <2>1. ASSUME k <= f PROVE FALSE
      <3>1. k - 1 \in 1 .. REG_MAX /\ k = 1 + (k - 1)
        BY <1>2, <1>4, <1>5, <1>6, <2>1
      <3> QED
        BY <1>5, <3>1
    <2>2. k <= l \/ k = l + 1 \/ k = l + 2
      BY <1>4, <1>6
    <2> QED
      BY <1>4, <1>5, <1>6, <2>1, <2>2
  <1>8. CASE k <= g
    <2>1. k - f \in 1 .. E /\ k = f + (k - f)
      BY <1>2, <1>4, <1>6, <1>7, <1>8
    <2>2. \E i \in 1 .. E : k = f + i /\ c[k].args[1] = BRAM_BASE_ADDR + 4 * (i - 1)
      BY <1>3, <2>1 DEF f
    <2> QED
      BY <1>1, <2>2 DEF E, f
  <1>9. CASE k > g /\ k <= h
    <2>1. k - g \in 1 .. P /\ k = g + (k - g)
      BY <1>2, <1>4, <1>6, <1>7, <1>9
    <2>2. \E i \in 1 .. P : k = g + i /\ c[k].args[1] = boot_addr + 4 * (i - 1)
      BY <1>3, <2>1 DEF g
    <2> QED
      BY <1>1, <2>2 DEF P, g
  <1>10. CASE k > h
    <2>1. k - h \in 1 .. D /\ k = h + (k - h)
      BY <1>2, <1>4, <1>6, <1>7, <1>10
    <2>2. \E i \in 1 .. D : k = h + i /\ c[k].args[1] = BRAM_BASE_ADDR + 4 * (i - 1)
      BY <1>3, <2>1 DEF h
    <2> QED
      BY <1>1, <2>2 DEF D, h
  <1> QED
    BY <1>4, <1>6, <1>8, <1>9, <1>10

(***************************************************************************)
(* The program of a test case and its data do not overlap.                 *)
(***************************************************************************)
AreasApart ==
  /\ boot_addr \in Nat
  /\ \A s \in Pc!Tests :
       LET t == TestCases[s] IN
       \A i \in DOMAIN t.program, j \in DOMAIN t.initial_memory \cup DOMAIN t.expected_memory :
         boot_addr + 4 * (i - 1) # BRAM_BASE_ADDR + 4 * (j - 1)

\* Different words are at different addresses.
LEMMA WordsApart ==
  ASSUME NEW b \in Nat, NEW i \in Nat, NEW m \in Nat, m # i
  PROVE  b + 4 * (m - 1) # b + 4 * (i - 1)
  OBVIOUS

\* When the whole set-up is in effect, the test case starts clean.
LEMMA CleanStart ==
  ASSUME AreasApart, NEW s \in Pc!Tests, InEffect(s, Lead(s))
  PROVE  LET t == TestCases[s]
             data(i) == IF i \in DOMAIN t.initial_memory THEN t.initial_memory[i] ELSE 0
         IN /\ ~running /\ pc = boot_addr
            /\ \A r \in Regs : regs[r] = 0
            /\ \A i \in DOMAIN t.program : mem[boot_addr + 4 * (i - 1)] = t.program[i]
            /\ \A i \in DOMAIN t.expected_memory : mem[BRAM_BASE_ADDR + 4 * (i - 1)] = data(i)
  <1> DEFINE t == TestCases[s]
             E == Len(t.expected_memory)
             P == Len(t.program)
             D == Len(t.initial_memory)
             f == ClearAt(s)
             g == ProgramAt(s)
             h == DataAt(s)
             n == Lead(s)
  <1>1. PICK c : c = Pc!Scripts[s]
    OBVIOUS
  <1>2. /\ DOMAIN t.expected_memory = 1 .. E /\ DOMAIN t.program = 1 .. P /\ DOMAIN t.initial_memory = 1 .. D
        /\ Regs = 1 .. REG_MAX
    BY Places
  <1>3. /\ REG_MAX \in Nat /\ E \in Nat /\ P \in Nat /\ D \in Nat
        /\ f = 1 + REG_MAX /\ g = f + E /\ h = g + P
        /\ LastAt(s) = h + D /\ n = LastAt(s) + 2
        /\ f \in Nat /\ g \in Nat /\ h \in Nat /\ n \in Nat /\ n > 0
    <2>1. n = LoopAt(s) /\ n > 1
      BY SetUpCalls
    <2> QED
      BY <2>1, Places
  <1>4. SetsUpSo(s, c)
    BY <1>1, SetUpCalls
  <1>5. /\ n > 0 => ~running
        /\ \A j \in 1 .. n : c[j].cmd = "SET_REG" => regs[c[j].args[1]] = 0
        /\ \A j \in 1 .. n : c[j].cmd = "WRITE_WORD" =>
             /\ (\A k \in (j + 1) .. n : c[k].cmd = "WRITE_WORD" => c[k].args[1] # c[j].args[1])
                  => mem[c[j].args[1]] = c[j].args[2]
        /\ n > 0 /\ c[n].cmd = "SET_PC" => pc = c[n].args[1]
    BY <1>1 DEF InEffect, Written
  <1>6. ~running /\ pc = boot_addr
    <2>1. n > 0
      BY <1>3
    <2>2. c[n] = Pc!Ack("SET_PC", <<boot_addr>>)
      BY <1>3, <1>4 DEF SetsUpSo
    <2> QED
      BY <1>5, <2>1, <2>2 DEF Pc!Ack, Pc!Call
  <1>7. ASSUME NEW r \in Regs PROVE regs[r] = 0
    <2>1. c[1 + r] = Pc!Ack("SET_REG", <<r, 0>>)
      BY <1>2, <1>4 DEF SetsUpSo
    <2>2. 1 + r \in 1 .. n
      <3> HIDE DEF E, P, D, f, g, h, n
      <3>1. r \in 1 .. REG_MAX
        BY <1>2
      <3> QED
        BY <1>3, <3>1
    <2> QED
      BY <1>5, <2>1, <2>2 DEF Pc!Ack, Pc!Call
  \* Who writes after the j-th call.
  <1>8. \A k \in 1 .. n : c[k].cmd = "WRITE_WORD" =>
          \/ \E i \in 1 .. E : k = f + i /\ c[k].args[1] = BRAM_BASE_ADDR + 4 * (i - 1)
          \/ \E i \in 1 .. P : k = g + i /\ c[k].args[1] = boot_addr + 4 * (i - 1)
          \/ \E i \in 1 .. D : k = h + i /\ c[k].args[1] = BRAM_BASE_ADDR + 4 * (i - 1)
    BY <1>1, WritesAt
  <1>9. /\ boot_addr \in Nat /\ BRAM_BASE_ADDR \in Nat
        /\ \A i \in 1 .. P : \A j \in (1 .. D) \cup (1 .. E) :
              boot_addr + 4 * (i - 1) # BRAM_BASE_ADDR + 4 * (j - 1)
    <2>1. \A i \in DOMAIN t.program, j \in DOMAIN t.initial_memory \cup DOMAIN t.expected_memory :
            boot_addr + 4 * (i - 1) # BRAM_BASE_ADDR + 4 * (j - 1)
      BY DEF AreasApart
    <2>2. BRAM_BASE_ADDR \in Nat /\ boot_addr \in Nat
      BY FirmwareAssumption DEF AreasApart
    <2> QED
      BY <1>2, <2>1, <2>2
  <1>10. ASSUME NEW i \in 1 .. P PROVE mem[boot_addr + 4 * (i - 1)] = t.program[i]
    <2>1. c[g + i] = Pc!Ack("WRITE_WORD", <<boot_addr + 4 * (i - 1), t.program[i]>>)
      BY <1>4 DEF SetsUpSo
    <2>2. /\ c[g + i].cmd = "WRITE_WORD" /\ c[g + i].args[1] = boot_addr + 4 * (i - 1)
          /\ c[g + i].args[2] = t.program[i]
      BY <2>1 DEF Pc!Ack, Pc!Call
    <2> HIDE DEF E, P, D, f, g, h, n
    <2>3. g + i \in 1 .. n
      BY <1>3
    <2>4. ASSUME NEW k \in (g + i + 1) .. n, c[k].cmd = "WRITE_WORD"
          PROVE  c[k].args[1] # boot_addr + 4 * (i - 1)
      <3>1. k \in 1 .. n /\ k > g + i
        BY <1>3, <2>3
      <3>2. ASSUME NEW m \in 1 .. E, k = f + m PROVE FALSE
        BY <1>3, <3>1, <3>2
      <3>3. ASSUME NEW m \in 1 .. P, k = g + m, c[k].args[1] = boot_addr + 4 * (m - 1)
            PROVE  c[k].args[1] # boot_addr + 4 * (i - 1)
        <4>1. m # i
          BY <1>3, <3>1, <3>3
        <4>2. m \in Nat /\ i \in Nat
          BY <1>3
        <4> QED
          BY <1>9, <3>3, <4>1, <4>2, WordsApart
      <3>4. ASSUME NEW m \in 1 .. D, c[k].args[1] = BRAM_BASE_ADDR + 4 * (m - 1)
            PROVE  c[k].args[1] # boot_addr + 4 * (i - 1)
        BY <1>9, <3>4
      <3>5. \/ \E m \in 1 .. E : k = f + m /\ c[k].args[1] = BRAM_BASE_ADDR + 4 * (m - 1)
            \/ \E m \in 1 .. P : k = g + m /\ c[k].args[1] = boot_addr + 4 * (m - 1)
            \/ \E m \in 1 .. D : k = h + m /\ c[k].args[1] = BRAM_BASE_ADDR + 4 * (m - 1)
        BY <1>8, <2>4, <3>1
      <3>6. CASE \E m \in 1 .. E : k = f + m /\ c[k].args[1] = BRAM_BASE_ADDR + 4 * (m - 1)
        BY <3>6, <3>2
      <3>7. CASE \E m \in 1 .. P : k = g + m /\ c[k].args[1] = boot_addr + 4 * (m - 1)
        BY <3>7, <3>3
      <3>8. CASE \E m \in 1 .. D : k = h + m /\ c[k].args[1] = BRAM_BASE_ADDR + 4 * (m - 1)
        BY <3>8, <3>4
      <3> QED
        BY <3>5, <3>6, <3>7, <3>8
    <2> QED
      BY <1>5, <2>2, <2>3, <2>4
  <1>11. ASSUME NEW i \in 1 .. E
         PROVE  mem[BRAM_BASE_ADDR + 4 * (i - 1)] = IF i \in 1 .. D THEN t.initial_memory[i] ELSE 0
    <2>1. CASE i \in 1 .. D
      <3>1. c[h + i] = Pc!Ack("WRITE_WORD", <<BRAM_BASE_ADDR + 4 * (i - 1), t.initial_memory[i]>>)
        BY <1>4, <2>1 DEF SetsUpSo
      <3>2. /\ c[h + i].cmd = "WRITE_WORD" /\ c[h + i].args[1] = BRAM_BASE_ADDR + 4 * (i - 1)
            /\ c[h + i].args[2] = t.initial_memory[i]
        BY <3>1 DEF Pc!Ack, Pc!Call
      <3> HIDE DEF E, P, D, f, g, h, n
      <3>3. h + i \in 1 .. n
        BY <1>3, <2>1
      <3>4. ASSUME NEW k \in (h + i + 1) .. n, c[k].cmd = "WRITE_WORD"
            PROVE  c[k].args[1] # BRAM_BASE_ADDR + 4 * (i - 1)
        <4>1. k \in 1 .. n /\ k > h + i
          BY <1>3, <3>3
        <4>2. ASSUME NEW m \in 1 .. E, k = f + m PROVE FALSE
          BY <1>3, <4>1, <4>2
        <4>3. ASSUME NEW m \in 1 .. P, k = g + m PROVE FALSE
          BY <1>3, <4>1, <4>3
        <4>4. ASSUME NEW m \in 1 .. D, k = h + m, c[k].args[1] = BRAM_BASE_ADDR + 4 * (m - 1)
              PROVE  c[k].args[1] # BRAM_BASE_ADDR + 4 * (i - 1)
          <5>1. m # i
            BY <1>3, <4>1, <4>4
          <5>2. m \in Nat /\ i \in Nat
            BY <1>3
          <5> QED
            BY <1>9, <4>4, <5>1, <5>2, WordsApart
        <4>5. \/ \E m \in 1 .. E : k = f + m /\ c[k].args[1] = BRAM_BASE_ADDR + 4 * (m - 1)
              \/ \E m \in 1 .. P : k = g + m /\ c[k].args[1] = boot_addr + 4 * (m - 1)
              \/ \E m \in 1 .. D : k = h + m /\ c[k].args[1] = BRAM_BASE_ADDR + 4 * (m - 1)
          BY <1>8, <3>4, <4>1
        <4>6. CASE \E m \in 1 .. E : k = f + m /\ c[k].args[1] = BRAM_BASE_ADDR + 4 * (m - 1)
          BY <4>6, <4>2
        <4>7. CASE \E m \in 1 .. P : k = g + m /\ c[k].args[1] = boot_addr + 4 * (m - 1)
          BY <4>7, <4>3
        <4>8. CASE \E m \in 1 .. D : k = h + m /\ c[k].args[1] = BRAM_BASE_ADDR + 4 * (m - 1)
          BY <4>8, <4>4
        <4> QED
          BY <4>5, <4>6, <4>7, <4>8
      <3> QED
        BY <1>5, <2>1, <3>2, <3>3, <3>4
    <2>2. CASE i \notin 1 .. D
      <3>1. c[f + i] = Pc!Ack("WRITE_WORD", <<BRAM_BASE_ADDR + 4 * (i - 1), 0>>)
        BY <1>4 DEF SetsUpSo
      <3>2. /\ c[f + i].cmd = "WRITE_WORD" /\ c[f + i].args[1] = BRAM_BASE_ADDR + 4 * (i - 1)
            /\ c[f + i].args[2] = 0
        BY <3>1 DEF Pc!Ack, Pc!Call
      <3> HIDE DEF E, P, D, f, g, h, n
      <3>3. f + i \in 1 .. n
        BY <1>3
      <3>4. ASSUME NEW k \in (f + i + 1) .. n, c[k].cmd = "WRITE_WORD"
            PROVE  c[k].args[1] # BRAM_BASE_ADDR + 4 * (i - 1)
        <4>1. k \in 1 .. n /\ k > f + i
          BY <1>3, <3>3
        <4>2. ASSUME NEW m \in 1 .. E, k = f + m, c[k].args[1] = BRAM_BASE_ADDR + 4 * (m - 1)
              PROVE  c[k].args[1] # BRAM_BASE_ADDR + 4 * (i - 1)
          <5>1. m # i
            BY <1>3, <4>1, <4>2
          <5>2. m \in Nat /\ i \in Nat
            BY <1>3
          <5> QED
            BY <1>9, <4>2, <5>1, <5>2, WordsApart
        <4>3. ASSUME NEW m \in 1 .. P, c[k].args[1] = boot_addr + 4 * (m - 1)
              PROVE  c[k].args[1] # BRAM_BASE_ADDR + 4 * (i - 1)
          BY <1>9, <4>3
        <4>4. ASSUME NEW m \in 1 .. D, c[k].args[1] = BRAM_BASE_ADDR + 4 * (m - 1)
              PROVE  c[k].args[1] # BRAM_BASE_ADDR + 4 * (i - 1)
          <5>1. m # i
            BY <2>2
          <5>2. m \in Nat /\ i \in Nat
            BY <1>3
          <5> QED
            BY <1>9, <4>4, <5>1, <5>2, WordsApart
        <4>5. \/ \E m \in 1 .. E : k = f + m /\ c[k].args[1] = BRAM_BASE_ADDR + 4 * (m - 1)
              \/ \E m \in 1 .. P : k = g + m /\ c[k].args[1] = boot_addr + 4 * (m - 1)
              \/ \E m \in 1 .. D : k = h + m /\ c[k].args[1] = BRAM_BASE_ADDR + 4 * (m - 1)
          BY <1>8, <3>4, <4>1
        <4>6. CASE \E m \in 1 .. E : k = f + m /\ c[k].args[1] = BRAM_BASE_ADDR + 4 * (m - 1)
          BY <4>6, <4>2
        <4>7. CASE \E m \in 1 .. P : k = g + m /\ c[k].args[1] = boot_addr + 4 * (m - 1)
          BY <4>7, <4>3
        <4>8. CASE \E m \in 1 .. D : k = h + m /\ c[k].args[1] = BRAM_BASE_ADDR + 4 * (m - 1)
          BY <4>8, <4>4
        <4> QED
          BY <4>5, <4>6, <4>7, <4>8
      <3> QED
        BY <1>5, <2>2, <3>2, <3>3, <3>4
    <2> QED
      BY <2>1, <2>2
  <1> HIDE DEF E, P, D
  <1> QED
    BY <1>2, <1>6, <1>7, <1>10, <1>11

(***************************************************************************)
(* setup_test_case of execute_tests.py: when a test case of a session that *)
(* found nothing under way begins to step, the core is stopped at the boot *)
(* address with cleared registers, its program and its memory in place,    *)
(* whatever ran on the worker before.                                      *)
(***************************************************************************)
THEOREM TestsAreSetUp ==
  ASSUME AreasApart
  PROVE  Spec => []TestStartsClean
  <1>1. Init => SetUpInv
    <2> SUFFICES ASSUME Init PROVE SetUpInv
      OBVIOUS
    <2>1. LinkInv
      BY InitLink
    <2>2. /\ session = Pc!Closed /\ regs = [r \in Regs |-> 0] /\ mem = [a \in Cells |-> 0]
      BY DEF Init, FirmwareInit
    <2>3. Following /\ CoreShape /\ Quick /\ SetUpDone
      BY <2>2 DEF Following, CoreShape, Quick, SetUpDone, At, Prepared, Pc!Closed
    <2> QED
      BY <2>1, <2>3 DEF SetUpInv
  <1>2. SetUpInv /\ [Next]_vars => SetUpInv'
    <2> SUFFICES ASSUME SetUpInv, [Next]_vars PROVE SetUpInv'
      OBVIOUS
    <2>1. LinkInv' /\ Following' /\ CoreShape'
      BY NextKeeps, FollowsOn, CoreShapeOn DEF SetUpInv
    <2>2. Quick'
      BY <2>1, QuickOn DEF SetUpInv
    <2>3. SetUpDone'
      BY SetUpDoneOn
    <2> QED
      BY <2>1, <2>2, <2>3 DEF SetUpInv
  <1>3. SetUpInv => TestStartsClean
    <2> SUFFICES ASSUME SetUpInv, session.at = "ready", Pc!SetUp, session.steps = 0,
                        session.leftover = 0, ~session.rebooted
                 PROVE  TestStartsClean
      BY DEF TestStartsClean
    <2>1. PICK s : s = session.script
      OBVIOUS
    <2>2. s \in Pc!Tests /\ session.i = Len(Pc!setup_test_case(TestCases[s])) + 1
      BY <2>1 DEF Pc!SetUp
    <2>3. Lead(s) \in Nat /\ session.i = Lead(s) + 1
      <3>1. Lead(s) \in Nat /\ Lead(s) = LoopAt(s) /\ Pc!Scripts[s] = Pc!execute_test_case(TestCases[s])
        BY <2>2, SetUpCalls
      <3>2. Len(Pc!setup_test_case(TestCases[s])) = LoopAt(s)
        BY <2>2, TestPlaced
      <3> QED
        BY <2>2, <3>1, <3>2
    <2>4. At(s, Lead(s))
      BY <2>1, <2>3 DEF At
    <2>5. InEffect(s, Lead(s))
      BY <2>2, <2>3, <2>4 DEF SetUpInv, SetUpDone, Prepared
    <2> QED
      BY <2>1, <2>2, <2>5, CleanStart DEF TestStartsClean
  <1> QED
    BY <1>1, <1>2, <1>3, PTL DEF Spec

-----------------------------------------------------------------------------
(***************************************************************************)
(* The verdict on a test case.  From its first comparison on the core      *)
(* stands still, every value is the answer to the call that asked for it,  *)
(* and what is reported is what differs in the worker as it is.            *)
(***************************************************************************)
\* What the call c reads,
Val(c) == IF c.cmd = "GET_REG" THEN regs[c.args[1]] ELSE mem[c.args[1]]

Wrong(c) == Val(c) \notin {c.expected, relocated[c.expected]}
Name(c)  == [cmd |-> c.cmd, arg |-> c.args[1]]

\* and what the first n calls of a test case have to report.
Wrongs(s, n) ==
  LET c == Pc!Scripts[s] IN
  {Name(c[j]) : j \in {k \in (RegsAt(s) + 1) .. n : Wrong(c[k])}}

\* A session at the call n + 1 of the test case s.
AtTest(s, n) == session.at # "closed" /\ session.script = s /\ session.i = n + 1

Judged(s, n) ==
  /\ n > Lead(s) => ~running
  /\ session.at = "done" => n = Len(Pc!Scripts[s])
  /\ session.reported = Wrongs(s, n)
  /\ session.at = "waiting" /\ n >= RegsAt(s) =>
       LET c == Pc!Scripts[s][n + 1] IN
       /\ Pending = 0
       /\ \A k \in 1 .. Len(to_worker) : to_worker[k].cmd = c.cmd /\ to_worker[k].args = c.args
       /\ \A k \in 1 .. Len(to_pc) : to_pc[k].kind = "OK value" => to_pc[k].value = Val(c)

Verdicts == \A s \in Pc!Tests, n \in Nat : AtTest(s, n) => Judged(s, n)

VerdictInv == ValueInv /\ FaultsFollowStops /\ Verdicts

\* Behind the set-up come the three calls of the loop and the comparisons.
LEMMA CallsThen ==
  ASSUME NEW s \in Pc!Tests
  PROVE  /\ RegsAt(s) = Lead(s) + 3 /\ Len(Pc!Scripts[s]) \in Nat /\ Len(Pc!Scripts[s]) > RegsAt(s)
         /\ Pc!Scripts[s][Lead(s) + 1].then = "pc" /\ Pc!Scripts[s][Lead(s) + 2].then = "instr"
         /\ Pc!Scripts[s][Lead(s) + 3].then = "again"
         /\ \A j \in 1 .. Len(Pc!Scripts[s]) : j > RegsAt(s) => IsReport(Pc!Scripts[s][j])
         /\ \A j \in 1 .. Len(Pc!Scripts[s]) :
              j <= RegsAt(s) => /\ Pc!Scripts[s][j].then # "report"
                                /\ Pc!Scripts[s][j].then = "instr" => j = Lead(s) + 2
  <1>1. PICK c : c = Pc!Scripts[s]
    OBVIOUS
  <1> DEFINE n == Lead(s)
             E == Len(TestCases[s].expected_memory)
  <1>2. /\ n \in Nat /\ n = LoopAt(s) /\ ComparesSo(s, c) /\ SetsUpSo(s, c)
        /\ Len(c) = WordsAt(s) + E /\ \A j \in 1 .. n : IsSetUp(c[j])
    BY <1>1, SetUpCalls
  <1>3. /\ REG_MAX \in Nat \ {0} /\ E \in Nat /\ RegsAt(s) = LoopAt(s) + 3 /\ WordsAt(s) = RegsAt(s) + REG_MAX
    BY Places
  <1>4. c[n + 1].then = "pc" /\ c[n + 2].then = "instr" /\ c[n + 3].then = "again"
    <2>1. \A j \in 1 .. 3 : c[n + j] = Pc!step_loop[j]
      BY <1>2 DEF ComparesSo
    <2>2. /\ Pc!step_loop[1].then = "pc" /\ Pc!step_loop[2].then = "instr"
          /\ Pc!step_loop[3].then = "again"
      BY DEF Pc!step_loop, Pc!Call
    <2>3. 1 \in 1 .. 3 /\ 2 \in 1 .. 3 /\ 3 \in 1 .. 3
      OBVIOUS
    <2> QED
      BY <2>1, <2>2, <2>3
  <1>5. \A j \in 1 .. WordsAt(s) + E : j > RegsAt(s) => IsReport(c[j])
    BY <1>2, TestCalls
  <1> HIDE DEF n, E
  <1>6. RegsAt(s) = n + 3 /\ Len(c) \in Nat /\ Len(c) > RegsAt(s)
    BY <1>2, <1>3
  <1>7. ASSUME NEW j \in 1 .. Len(c), j <= RegsAt(s)
        PROVE  c[j].then # "report" /\ (c[j].then = "instr" => j = n + 2)
    <2>1. j \in 1 .. n \/ j = n + 1 \/ j = n + 2 \/ j = n + 3
      BY <1>2, <1>6, <1>7
    <2> QED
      BY <1>2, <1>4, <2>1 DEF IsSetUp
  <1> QED
    BY <1>1, <1>2, <1>4, <1>5, <1>6, <1>7 DEF n

\* Nothing is reported before the comparisons, and then one call at a time.
LEMMA WrongsOn ==
  ASSUME NEW s \in Pc!Tests, NEW n \in Nat
  PROVE  /\ n <= RegsAt(s) => Wrongs(s, n) = {}
         /\ n >= RegsAt(s) =>
              Wrongs(s, n + 1) =
                IF Wrong(Pc!Scripts[s][n + 1])
                THEN Wrongs(s, n) \cup {Name(Pc!Scripts[s][n + 1])} ELSE Wrongs(s, n)
  <1>1. PICK c : c = Pc!Scripts[s]
    OBVIOUS
  <1> DEFINE m == RegsAt(s)
             W(q) == {k \in (m + 1) .. q : Wrong(c[k])}
  <1>2. m \in Nat
    BY Places
  <1>3. \A q : Wrongs(s, q) = {Name(c[j]) : j \in W(q)}
    BY <1>1 DEF Wrongs
  <1> HIDE DEF m
  <1>4. n <= m => W(n) = {}
    BY <1>2
  <1>5. ASSUME n >= m
        PROVE  W(n + 1) = W(n) \cup (IF Wrong(c[n + 1]) THEN {n + 1} ELSE {})
    <2>1. \A k : k \in (m + 1) .. n + 1 <=> k \in (m + 1) .. n \/ k = n + 1
      BY <1>2, <1>5
    <2> QED
      BY <2>1
  <1> HIDE DEF W
  <1>6. n <= m => Wrongs(s, n) = {}
    BY <1>3, <1>4
  <1>7. ASSUME n >= m
        PROVE  Wrongs(s, n + 1) = IF Wrong(c[n + 1]) THEN Wrongs(s, n) \cup {Name(c[n + 1])}
                                  ELSE Wrongs(s, n)
    <2>1. CASE Wrong(c[n + 1])
      <3>1. W(n + 1) = W(n) \cup {n + 1}
        BY <1>5, <1>7, <2>1
      <3> QED
        BY <1>3, <2>1, <3>1
    <2>2. CASE ~Wrong(c[n + 1])
      <3>1. W(n + 1) = W(n)
        BY <1>5, <1>7, <2>2
      <3> QED
        BY <1>3, <2>2, <3>1
    <2> QED
      BY <2>1, <2>2
  <1> QED
    BY <1>1, <1>6, <1>7 DEF m

\* A core that stands still has the same to report.
LEMMA WrongsStay ==
  ASSUME NEW s \in Pc!Tests, NEW n \in Nat, UNCHANGED <<regs, mem>> \/ n <= RegsAt(s)
  PROVE  Wrongs(s, n)' = Wrongs(s, n)
  <1>1. CASE UNCHANGED <<regs, mem>>
    BY <1>1 DEF Wrongs, Wrong, Name, Val
  <1>2. CASE n <= RegsAt(s)
    <2>1. RegsAt(s) \in Nat /\ Wrongs(s, n) = {}
      BY <1>2, Places, WrongsOn
    <2>2. (RegsAt(s) + 1) .. n = {}
      <3> DEFINE m == RegsAt(s)
      <3>1. m \in Nat /\ n <= m
        BY <1>2, <2>1
      <3> HIDE DEF m
      <3>2. (m + 1) .. n = {}
        BY <3>1
      <3> QED
        BY <3>2 DEF m
    <2>3. Wrongs(s, n)' = {}
      BY <2>2 DEF Wrongs
    <2> QED
      BY <2>1, <2>3
  <1> QED
    BY <1>1, <1>2

\* What a comparison asks for, and what it is told.
LEMMA Compared ==
  ASSUME LinkInv, NEW c, IsReport(c), FirmwareStep, fw.at = "readline",
         Line.cmd = c.cmd, Line.args = c.args
  PROVE  /\ UNCHANGED core_vars /\ (fw'.at = "fault_mem" => FALSE)
         /\ UNCHANGED fw =>
              \E e : /\ to_pc' = Append(to_pc, e)
                     /\ e.kind = "OK value" => e.value = Val(c)
  <1>1. fw.at = "readline" /\ fw.at # "fault_mem" /\ [fw EXCEPT !.at = "aborted"].at = "aborted"
    BY DEF LinkInv, Shape
  <1>2. CASE Rejected
    <2>1. /\ UNCHANGED <<core_vars, fw>>
          /\ to_pc' = Append(to_pc, Reply("ERR", 0, Line))
      BY <1>2 DEF Rejected, Answer
    <2>2. Reply("ERR", 0, Line).kind # "OK value"
      BY DEF Reply
    <2>3. \E e : /\ to_pc' = Append(to_pc, e)
                 /\ e.kind = "OK value" => e.value = Val(c)
      BY <2>1, <2>2, Zenon
    <2> QED
      BY <1>1, <2>1, <2>3
  <1>3. CASE GET_REG
    <2>1. c.cmd = "GET_REG" /\ c.args[1] \in Regs /\ Arg(1) = c.args[1]
      <3>1. Line.cmd = "GET_REG"
        BY <1>3 DEF GET_REG, Reads
      <3> QED
        BY <3>1 DEF IsReport, Arg
    <2>2. c.args[1] # 0
      BY <2>1 DEF Regs
    <2>3. /\ UNCHANGED <<core_vars, fw>>
          /\ to_pc' = Append(to_pc, Reply("OK value", Val(c), Line))
      BY <1>3, <2>1, <2>2 DEF GET_REG, reply_ok_u32, Answer, Val
    <2>4. Reply("OK value", Val(c), Line).value = Val(c)
      BY DEF Reply
    <2>5. \E e : /\ to_pc' = Append(to_pc, e)
                 /\ e.kind = "OK value" => e.value = Val(c)
      BY <2>3, <2>4, Zenon
    <2> QED
      BY <1>1, <2>3, <2>5
  <1>4. CASE READ_WORD
    <2>1. c.cmd = "READ_WORD" /\ Arg(1) = c.args[1]
      BY <1>4 DEF READ_WORD, Reads, Arg
    <2>2. /\ UNCHANGED <<core_vars, fw>>
          /\ to_pc' = Append(to_pc, Reply("OK value", Val(c), Line))
      BY <1>4, <2>1 DEF READ_WORD, reply_ok_u32, Answer, Val
    <2>3. Reply("OK value", Val(c), Line).value = Val(c)
      BY DEF Reply
    <2>4. \E e : /\ to_pc' = Append(to_pc, e)
                 /\ e.kind = "OK value" => e.value = Val(c)
      BY <2>2, <2>3, Zenon
    <2> QED
      BY <1>1, <2>2, <2>4
  <1>5. CASE DataAbort
    BY <1>1, <1>5 DEF DataAbort
  <1> QED
    BY <1>2, <1>3, <1>4, <1>5, CommandIs DEF IsReport

\* With a command under way the session waits for its answer, or has not compared yet.
LEMMA StillWaits ==
  ASSUME VerdictInv, NEW s \in Pc!Tests, NEW n \in Nat, AtTest(s, n),
         to_worker # <<>> \/ Pending # 0
  PROVE  /\ session.at \in {"ready", "waiting"} /\ (session.at = "ready" => n <= Lead(s))
         /\ session.at = "waiting" /\ n > Lead(s) => UnderWay <= 1
  <1>1. /\ session.script = s /\ s \in Pc!Shipped /\ session.i = n + 1 /\ Lead(s) \in Nat
        /\ session.at # "closed"
    BY SetUpCalls DEF AtTest
  <1>2. session.at \in {"ready", "waiting", "done"} /\ LinkInv
    BY <1>1 DEF VerdictInv, ValueInv, LinkInv, Shape
  <1>3. UnderWay # 0
    <2>1. UnderWay = 0 => Len(to_worker) = 0 /\ Pending = 0
      BY <1>2, NothingLeft
    <2>2. to_worker # <<>> => Len(to_worker) # 0
      BY <1>2, Lengths, TailLine
    <2> QED
      BY <2>1, <2>2
  <1>4. n > Lead(s) => session.i > Lead(s) + 1
    BY <1>1
  <1>5. /\ session.at = "done" => UnderWay = 0
        /\ session.at = "ready" /\ session.i > Lead(s) + 1 => UnderWay = 0
        /\ session.at = "waiting" /\ session.i > Lead(s) + 1 => UnderWay <= 1
    BY <1>1 DEF VerdictInv, ValueInv, Alone
  <1>6. ~(n > Lead(s)) => n <= Lead(s)
    BY <1>1
  <1> QED
    BY <1>2, <1>3, <1>4, <1>5, <1>6

\* A test case that has taken a value has stopped the core.
LEMMA HaltsFirst ==
  ASSUME VerdictInv, NEW s \in Pc!Tests, session.script = s, session.at = "waiting",
         session.i \in Nat, session.i >= Lead(s)
  PROVE  /\ Len(to_worker) = 0 => ~running
         /\ Len(to_worker) = 1 => to_worker[1].cmd # "START"
  <1>1. s # "faults" /\ s \in Halting /\ Lead(s) \in Nat
    BY ShippedAre, SetUpCalls DEF Halting
  <1>2. StopAt(s) = Lead(s) - 1
    BY <1>1 DEF StopAt
  <1>3. session.i >= StopAt(s)
    BY <1>1, <1>2
  <1>4. Stopped(to_worker, Len(to_worker), running)
    BY <1>1, <1>3 DEF VerdictInv, FaultsFollowStops
  <1>5. Len(to_worker) = 0 => ~running
    <2> SUFFICES ASSUME Len(to_worker) = 0 PROVE ~running
      OBVIOUS
    <2>1. PICK k \in 0 .. 0 : IF k = 0 THEN ~running ELSE to_worker[k].cmd = "STOP"
      BY <1>4 DEF Stopped
    <2> QED
      BY <2>1
  <1>6. Len(to_worker) = 1 => to_worker[1].cmd # "START"
    <2> SUFFICES ASSUME Len(to_worker) = 1 PROVE to_worker[1].cmd # "START"
      OBVIOUS
    <2>1. PICK k \in 0 .. 1 : /\ IF k = 0 THEN ~running ELSE to_worker[k].cmd = "STOP"
                              /\ \A j \in (k + 1) .. 1 : to_worker[j].cmd # "START"
      BY <1>4 DEF Stopped
    <2>2. CASE k = 0
      <3>1. 1 \in (k + 1) .. 1
        BY <2>2
      <3> QED
        BY <2>1, <3>1
    <2>3. CASE k = 1
      BY <2>1, <2>3
    <2> QED
      BY <2>1, <2>2, <2>3
  <1> QED
    BY <1>5, <1>6

\* A reply that is taken for an answer.
LEMMA JudgedTaking ==
  ASSUME VerdictInv, Taking, NEW s \in Pc!Tests, NEW n \in Nat, AtTest(s, n)'
  PROVE  Judged(s, n)'
  <1> DEFINE i == session.i
             d == Lead(s)
             l == Len(Pc!Scripts[s])
             m == i - 1
  <1>1. /\ session.at = "waiting" /\ to_pc # <<>> /\ Pc!Acceptable(Head(to_pc))
        /\ session.script = s /\ session'.at \in {"ready", "done"} /\ session'.i = n + 1
        /\ UNCHANGED core_vars
    BY DEF Taking, AtTest
  <1>2. /\ s \in Pc!Shipped /\ d \in Nat /\ RegsAt(s) = d + 3 /\ l \in Nat /\ l > RegsAt(s)
    BY SetUpCalls, CallsThen
  <1>3. /\ Following /\ Verdicts /\ LinkInv /\ ValueInv
    BY DEF VerdictInv, ValueInv
  <1>4. /\ i \in Nat \ {0} /\ i <= l /\ (i <= d => session.call.then = "ack")
    BY <1>1, <1>2, <1>3, CallAt
  <1>5. /\ \/ n + 1 = i + 1
           \/ n + 1 = i + 2 /\ session.call.then = "instr"
           \/ n + 1 = i - 2 /\ session.call.then = "again"
        /\ session'.at = "done" => n + 1 > l
    BY <1>1, <1>2 DEF Taking
  <1>6. /\ session.call.then = Pc!Scripts[s][i].then
        /\ Pc!Scripts[s][i].then # "instr" => session.call = Pc!Scripts[s][i]
    BY <1>1, <1>2, <1>3 DEF Following
  <1>7. i \in 1 .. l /\ m \in Nat /\ i = m + 1
    <2>1. l \in Nat /\ i \in Nat \ {0} /\ i <= l
      BY <1>2, <1>4
    <2> HIDE DEF i, l
    <2> QED
      BY <2>1
  <1>8. /\ i <= RegsAt(s) => /\ session.call.then # "report"
                             /\ session.call.then = "instr" => i = d + 2
        /\ i > RegsAt(s) => IsReport(Pc!Scripts[s][i]) /\ session.call = Pc!Scripts[s][i]
    BY <1>6, <1>7, CallsThen DEF IsReport
  <1>9. Judged(s, m)
    <2>1. AtTest(s, m)
      BY <1>1, <1>7 DEF AtTest
    <2> QED
      BY <1>3, <1>7, <2>1 DEF Verdicts
  <1>10. n > d => ~running'
    <2> SUFFICES ASSUME n > d PROVE ~running
      BY <1>1 DEF core_vars
    <2>1. ~(i <= d)
      <3> SUFFICES ASSUME i <= d PROVE FALSE
        OBVIOUS
      <3>1. n + 1 = i + 1
        BY <1>4, <1>5
      <3> HIDE DEF i, d
      <3> QED
        BY <1>2, <1>4, <3>1
    <2>2. Len(to_worker) = 0
      BY <1>1, <1>2, <1>3, <2>1, LastTaken
    <2>3. i \in Nat /\ i >= d
      BY <1>2, <1>4, <2>1
    <2> QED
      BY <1>1, <2>2, <2>3, HaltsFirst
  <1>11. session'.at = "done" => n = l
    <2> SUFFICES ASSUME n + 1 > l PROVE n = l
      BY <1>5
    <2>1. n + 1 # i + 2 \/ session.call.then # "instr"
      <3> SUFFICES ASSUME n + 1 = i + 2, session.call.then = "instr" PROVE FALSE
        OBVIOUS
      <3>1. i <= RegsAt(s)
        <4>1. i > RegsAt(s) => session.call.then = "report"
          BY <1>8 DEF IsReport
        <4> HIDE DEF i
        <4> QED
          BY <1>2, <1>4, <4>1
      <3>2. i = d + 2
        BY <1>8, <3>1
      <3> HIDE DEF i, d, l
      <3> QED
        BY <1>2, <1>4, <3>2
    <2>2. n + 1 = i + 1 \/ n + 1 = i - 2
      BY <1>5, <2>1
    <2> HIDE DEF i, d, l
    <2> QED
      BY <1>2, <1>4, <2>2
  <1>12. session'.reported = Wrongs(s, n)'
    <2>1. Wrongs(s, n)' = Wrongs(s, n)
      BY <1>1, WrongsStay DEF core_vars
    <2>2. session.reported = Wrongs(s, m)
      BY <1>9 DEF Judged
    <2>3. CASE i <= RegsAt(s)
      <3>1. session'.reported = session.reported
        BY <1>8, <2>3 DEF Taking
      <3>2. m <= RegsAt(s) /\ n <= RegsAt(s)
        <4>1. /\ \/ n + 1 = i + 1
                 \/ n + 1 = i + 2 /\ i = d + 2
                 \/ n + 1 = i - 2
          BY <1>5, <1>8, <2>3
        <4> HIDE DEF i, d
        <4> QED
          BY <1>2, <1>4, <2>3, <4>1
      <3> QED
        BY <1>7, <2>1, <2>2, <3>1, <3>2, WrongsOn
    <2>4. CASE i > RegsAt(s)
      <3>1. session.call = Pc!Scripts[s][i] /\ session.call.then = "report"
        BY <1>8, <2>4 DEF IsReport
      <3>2. n = m + 1 /\ m >= RegsAt(s)
        <4>1. n + 1 = i + 1
          BY <1>5, <3>1
        <4> HIDE DEF i
        <4> QED
          BY <1>2, <1>4, <2>4, <4>1
      <3>3. 1 \in 1 .. Len(to_pc) /\ Head(to_pc) = to_pc[1]
        BY <1>1, <1>3, Lengths, TailLine, TailAt
      <3>4. to_pc[1].kind = "OK value"
        BY <1>1, <3>1, <3>3 DEF Pc!Acceptable
      <3>5. to_pc[1].value = Val(Pc!Scripts[s][m + 1])
        BY <1>1, <1>9, <3>2, <3>3, <3>4 DEF Judged
      <3>6. session'.reported =
              IF Wrong(session.call) THEN session.reported \cup {Name(session.call)} ELSE session.reported
        <4>1. Head(to_pc).value = Val(session.call)
          BY <1>7, <3>1, <3>3, <3>5
        <4>2. session'.reported =
                IF Head(to_pc).value \notin {session.call.expected, relocated[session.call.expected]}
                THEN session.reported \cup {[cmd |-> session.call.cmd, arg |-> session.call.args[1]]}
                ELSE session.reported
          BY <3>1 DEF Taking
        <4> QED
          BY <4>1, <4>2 DEF Wrong, Name
      <3>7. Wrongs(s, m + 1) = IF Wrong(Pc!Scripts[s][m + 1])
                               THEN Wrongs(s, m) \cup {Name(Pc!Scripts[s][m + 1])} ELSE Wrongs(s, m)
        BY <1>7, <3>2, WrongsOn
      <3> QED
        BY <1>7, <2>1, <2>2, <3>1, <3>2, <3>6, <3>7
    <2>5. i <= RegsAt(s) \/ i > RegsAt(s)
      BY <1>2, <1>4
    <2> QED
      BY <2>3, <2>4, <2>5
  <1> QED
    BY <1>1, <1>10, <1>11, <1>12 DEF Judged

\* The call of a comparison is written.
LEMMA JudgedSending ==
  ASSUME VerdictInv, Sending, NEW s \in Pc!Tests, NEW n \in Nat, AtTest(s, n)'
  PROVE  Judged(s, n)'
  <1>1. PICK c, e :
          /\ session.at = "ready" /\ session'.at = "waiting"
          /\ session'.script = session.script /\ session'.i = session.i
          /\ Stays
          /\ session.script \in Pc!Shipped =>
               LET d == Pc!Scripts[session.script][session.i] IN
               c.cmd = d.cmd /\ c.then = d.then /\ (d.then # "instr" => c = d)
          /\ \/ e.cmd = c.cmd /\ e.args = c.args
             \/ half /\ e.cmd = "garbled"
          /\ to_worker' = Append(to_worker, e)
          /\ UNCHANGED <<to_pc, fw, core_vars>>
    BY DEF Sending
  <1>2. AtTest(s, n) /\ s \in Pc!Shipped
    BY <1>1, SetUpCalls DEF AtTest
  <1>3. Judged(s, n) /\ Following /\ LinkInv
    BY <1>2 DEF VerdictInv, ValueInv, Verdicts
  <1>4. n > Lead(s) => ~running'
    BY <1>1, <1>3 DEF Judged, core_vars
  <1>5. session'.reported = Wrongs(s, n)'
    <2>1. Wrongs(s, n)' = Wrongs(s, n)
      BY <1>1, WrongsStay DEF core_vars
    <2> QED
      BY <1>1, <1>3, <2>1 DEF Judged, Stays
  <1>6. ASSUME n >= RegsAt(s)
        PROVE  LET d == Pc!Scripts[s][n + 1] IN
               /\ Pending' = 0
               /\ \A k \in 1 .. Len(to_worker') : to_worker'[k].cmd = d.cmd /\ to_worker'[k].args = d.args
               /\ Len(to_pc') = 0
    <2>1. /\ Lead(s) \in Nat /\ RegsAt(s) = Lead(s) + 3 /\ Len(Pc!Scripts[s]) \in Nat
          /\ session.i = n + 1 /\ session.script = s
      BY <1>2, SetUpCalls, CallsThen DEF AtTest
    <2>2. /\ session.i > 1 /\ session.i > Lead(s) + 1 /\ n + 1 > RegsAt(s)
      BY <1>6, <2>1
    <2>3. n + 1 \in 1 .. Len(Pc!Scripts[s])
      <3>1. n + 1 <= Len(Pc!Scripts[s])
        BY <1>1, <1>2, <1>3, <2>1 DEF Following
      <3> QED
        BY <2>1, <3>1
    <2>4. IsReport(Pc!Scripts[s][n + 1])
      BY <2>2, <2>3, CallsThen
    <2>5. ~half
      BY <1>1, <1>2, <1>3, <2>1, <2>2 DEF Following
    <2>6. c = Pc!Scripts[s][n + 1] /\ e.cmd = c.cmd /\ e.args = c.args
      BY <1>1, <1>2, <2>1, <2>4, <2>5 DEF IsReport
    <2>7. UnderWay = 0
      BY <1>1, <1>2, <2>1, <2>2 DEF VerdictInv, ValueInv, Alone
    <2>8. Len(to_worker) = 0 /\ Len(to_pc) = 0 /\ Pending = 0 /\ IsLine(to_worker)
      BY <1>3, <2>7, NothingLeft, Lengths
    <2>9. /\ Len(to_worker') = Len(to_worker) + 1
          /\ \A i \in 1 .. Len(to_worker) + 1 :
               to_worker'[i] = IF i <= Len(to_worker) THEN to_worker[i] ELSE e
      BY <1>1, <2>8, AppendLine, AppendAt
    <2>10. \A k \in 1 .. Len(to_worker') : to_worker'[k] = e
      BY <2>8, <2>9
    <2>11. Pending' = 0 /\ Len(to_pc') = 0
      BY <1>1, <2>8 DEF Pending
    <2> QED
      BY <2>6, <2>10, <2>11
  <1>7. ASSUME n >= RegsAt(s)
        PROVE  \A k \in 1 .. Len(to_pc') : FALSE
    <2>1. Len(to_pc') = 0
      BY <1>6, <1>7
    <2> QED
      BY <2>1
  <1> QED
    BY <1>1, <1>4, <1>5, <1>6, <1>7 DEF Judged

\* The worker carries a command out, or takes it without an answer.
LEMMA JudgedWorker ==
  ASSUME VerdictInv, Answering \/ Beginning, NEW s \in Pc!Tests, NEW n \in Nat, AtTest(s, n)'
  PROVE  Judged(s, n)'
  <1>1. /\ FirmwareStep /\ fw.at = "readline" /\ to_worker # <<>> /\ to_worker' = Tail(to_worker)
        /\ UNCHANGED session
    BY DEF Answering, Beginning
  <1>2. AtTest(s, n)
    BY <1>1 DEF AtTest
  <1>3. /\ Judged(s, n) /\ LinkInv /\ session.script = s /\ session.i = n + 1
        /\ Lead(s) \in Nat /\ RegsAt(s) = Lead(s) + 3 /\ Len(Pc!Scripts[s]) \in Nat /\ s \in Pc!Shipped
    BY <1>2, SetUpCalls, CallsThen DEF VerdictInv, ValueInv, Verdicts, AtTest
  <1>4. /\ session.at \in {"ready", "waiting"} /\ (session.at = "ready" => n <= Lead(s))
        /\ session.at = "waiting" /\ n > Lead(s) => UnderWay <= 1
    BY <1>1, <1>2, StillWaits
  <1>5. ASSUME NEW e, n > Lead(s)
        PROVE  /\ session.at = "waiting"
               /\ Len(to_worker) = 1 /\ Len(to_pc) = 0 /\ Pending = 0 /\ Line = to_worker[1]
               /\ Len(to_worker') = 0 /\ Len(Append(to_pc, e)) = 1 /\ Append(to_pc, e)[1] = e
    <2>1. session.at = "waiting" /\ UnderWay <= 1
      BY <1>3, <1>4, <1>5
    <2> QED
      BY <1>1, <1>3, <2>1, OnlyCommand
  <1>6. n > Lead(s) => ~running'
    <2> SUFFICES ASSUME n > Lead(s) PROVE ~running'
      OBVIOUS
    <2>1. session.at = "waiting" /\ Len(to_worker) = 1 /\ Line = to_worker[1]
      BY <1>5
    <2>2. session.i \in Nat /\ session.i >= Lead(s)
      BY <1>3
    <2>3. Line.cmd # "START" /\ ~running
      BY <1>3, <2>1, <2>2, HaltsFirst DEF Judged
    <2>4. CASE Answering
      BY <2>3, <2>4 DEF Answering
    <2>5. CASE Beginning
      BY <2>3, <2>5 DEF Beginning
    <2> QED
      BY <2>4, <2>5
  <1>7. ASSUME n >= RegsAt(s)
        PROVE  /\ UNCHANGED core_vars /\ Pending' = 0 /\ Len(to_worker') = 0
               /\ \A k \in 1 .. Len(to_pc') :
                    to_pc'[k].kind = "OK value" => to_pc'[k].value = Val(Pc!Scripts[s][n + 1])
    <2> DEFINE c == Pc!Scripts[s][n + 1]
    <2>1. n > Lead(s) /\ n + 1 > RegsAt(s)
      BY <1>3, <1>7
    <2>2. /\ session.at = "waiting" /\ Len(to_worker) = 1 /\ Len(to_pc) = 0 /\ Pending = 0
          /\ Line = to_worker[1] /\ Len(to_worker') = 0
      BY <1>5, <2>1
    <2>3. IsReport(c)
      <3>1. n + 1 <= Len(Pc!Scripts[s])
        BY <1>3, <2>2 DEF VerdictInv, ValueInv, Following
      <3>2. n + 1 \in 1 .. Len(Pc!Scripts[s])
        BY <1>3, <3>1
      <3> QED
        BY <2>1, <3>2, CallsThen
    <2>4. Line.cmd = c.cmd /\ Line.args = c.args
      BY <1>3, <1>7, <2>2 DEF Judged
    <2> HIDE DEF c
    <2>5. /\ UNCHANGED core_vars /\ fw'.at # "fault_mem"
          /\ UNCHANGED fw =>
               \E e : /\ to_pc' = Append(to_pc, e)
                      /\ e.kind = "OK value" => e.value = Val(c)
      BY <1>1, <1>3, <2>3, <2>4, Compared
    <2>6. Pending' = 0
      BY <2>5 DEF Pending
    <2>7. CASE UNCHANGED fw
      <3>1. PICK e : /\ to_pc' = Append(to_pc, e)
                     /\ e.kind = "OK value" => e.value = Val(c)
        BY <2>5, <2>7
      <3>2. Len(to_pc') = 1 /\ to_pc'[1] = e
        BY <1>5, <2>1, <3>1
      <3>3. \A k \in 1 .. Len(to_pc') : to_pc'[k] = e
        BY <3>2
      <3> QED
        BY <2>2, <2>5, <2>6, <3>1, <3>3 DEF c
    <2>8. CASE Beginning
      <3>1. UNCHANGED to_pc
        BY <2>8 DEF Beginning
      <3>2. \A k \in 1 .. Len(to_pc') : FALSE
        BY <2>2, <3>1
      <3> QED
        BY <2>2, <2>5, <2>6, <3>2
    <2>9. Answering => UNCHANGED fw
      BY DEF Answering
    <2> QED
      BY <2>7, <2>8, <2>9
  <1>8. session'.reported = Wrongs(s, n)'
    <2>1. n >= RegsAt(s) \/ n <= RegsAt(s)
      BY <1>3
    <2>2. Wrongs(s, n)' = Wrongs(s, n)
      BY <1>7, <2>1, WrongsStay DEF core_vars
    <2> QED
      BY <1>1, <1>3, <2>2 DEF Judged
  <1>9. ASSUME n >= RegsAt(s), NEW k \in 1 .. Len(to_worker') PROVE FALSE
    <2>1. Len(to_worker') = 0
      BY <1>7, <1>9
    <2>2. \A q \in 1 .. 0 : FALSE
      OBVIOUS
    <2> QED
      BY <1>9, <2>1, <2>2
  <1>10. n >= RegsAt(s) => Val(Pc!Scripts[s][n + 1])' = Val(Pc!Scripts[s][n + 1])
    BY <1>7 DEF Val, core_vars
  <1> QED
    BY <1>1, <1>4, <1>6, <1>7, <1>8, <1>9, <1>10 DEF Judged

\* Every step keeps the verdicts.
LEMMA VerdictsOn == ASSUME VerdictInv, [Next]_vars PROVE Verdicts'
  <1>0. LinkInv /\ Following /\ Verdicts
    BY DEF VerdictInv, ValueInv
  <1> SUFFICES ASSUME NEW s \in Pc!Tests, NEW n \in Nat, AtTest(s, n)'
               PROVE  Judged(s, n)'
    BY DEF Verdicts
  <1>1. session'.at # "closed" /\ session'.script = s /\ session'.i = n + 1
    BY DEF AtTest
  <1>2. Lead(s) \in Nat /\ RegsAt(s) = Lead(s) + 3
    BY SetUpCalls, CallsThen
  <1>3. CASE Closing
    BY <1>1, <1>3 DEF Closing, Pc!Closed
  <1>4. CASE Opening \/ NextTest
    <2>1. session'.at = "ready" /\ session'.i = 1 /\ session'.reported = {}
      BY <1>4 DEF Opening, NextTest
    <2>2. n = 0 /\ n <= RegsAt(s) /\ ~(n > Lead(s))
      BY <1>1, <1>2, <2>1
    <2>3. Wrongs(s, n)' = {}
      BY <2>2, WrongsOn, WrongsStay
    <2> QED
      BY <2>1, <2>2, <2>3 DEF Judged
  <1>5. CASE Sending
    BY <1>5, JudgedSending
  <1>6. CASE Taking
    BY <1>6, JudgedTaking
  <1>7. CASE Answering \/ Beginning
    BY <1>7, JudgedWorker
  <1>8. CASE Ending
    <2>1. /\ UNCHANGED <<session, running>> /\ Pending # 0
      BY <1>8 DEF Ending, Pending
    <2>2. AtTest(s, n)
      BY <2>1 DEF AtTest
    <2>3. Judged(s, n)
      BY <1>0, <2>2 DEF Verdicts
    <2>4. session.at \in {"ready", "waiting"} /\ (session.at = "ready" => n <= Lead(s))
      BY <2>1, <2>2, StillWaits
    <2>5. ~(session.at = "waiting" /\ n >= RegsAt(s))
      BY <2>1, <2>3 DEF Judged
    <2>6. n <= RegsAt(s)
      BY <1>2, <2>4, <2>5
    <2>7. Wrongs(s, n)' = Wrongs(s, n)
      BY <2>6, WrongsStay
    <2> QED
      BY <2>1, <2>3, <2>4, <2>5, <2>7 DEF Judged
  <1>9. CASE Restarting
    <2>1. /\ to_worker' = <<>> /\ ~running' /\ fw' = Reading /\ UNCHANGED <<to_pc, regs, mem>>
          /\ session'.at = session.at /\ session'.script = session.script
          /\ session'.i = session.i /\ session'.reported = session.reported
      BY <1>9 DEF Restarting
    <2>2. AtTest(s, n)
      BY <1>1, <2>1 DEF AtTest
    <2>3. Judged(s, n) /\ Wrongs(s, n)' = Wrongs(s, n)
      BY <1>0, <2>1, <2>2, WrongsStay DEF Verdicts
    <2>4. Pending' = 0 /\ \A k \in 1 .. Len(to_worker') : FALSE
      BY <2>1 DEF Pending, Reading
    <2>5. Val(Pc!Scripts[s][n + 1])' = Val(Pc!Scripts[s][n + 1])
      BY <2>1 DEF Val
    <2> QED
      BY <2>1, <2>3, <2>4, <2>5 DEF Judged
  <1>10. CASE Idling
    <2>1. /\ UNCHANGED <<session, to_worker, to_pc, fw, running>>
          /\ running \/ UNCHANGED <<regs, mem>>
      BY <1>10 DEF Idling
    <2>2. AtTest(s, n)
      BY <2>1 DEF AtTest
    <2>3. Judged(s, n)
      BY <1>0, <2>2 DEF Verdicts
    <2>4. UNCHANGED <<regs, mem>> \/ n <= Lead(s)
      <3>1. UNCHANGED <<regs, mem>> \/ ~(n > Lead(s))
        BY <2>1, <2>3 DEF Judged
      <3>2. ~(n > Lead(s)) => n <= Lead(s)
        BY <1>2
      <3> QED
        BY <3>1, <3>2
    <2>5. UNCHANGED <<regs, mem>> \/ (n <= RegsAt(s) /\ ~(n >= RegsAt(s)))
      BY <1>2, <2>4
    <2>6. Wrongs(s, n)' = Wrongs(s, n)
      BY <2>5, WrongsStay
    <2>7. n >= RegsAt(s) => Val(Pc!Scripts[s][n + 1])' = Val(Pc!Scripts[s][n + 1])
      BY <2>5 DEF Val
    <2>8. Pending' = Pending
      BY <2>1 DEF Pending
    <2> QED
      BY <2>1, <2>3, <2>6, <2>7, <2>8 DEF Judged
  <1> QED
    BY <1>0, <1>3, <1>4, <1>5, <1>6, <1>7, <1>8, <1>9, <1>10, StepsSo

\* All calls of a test case report what its last comparisons have to.
LEMMA WrongsAre ==
  ASSUME NEW s \in Pc!Tests
  PROVE  LET t == TestCases[s]
             wrong(v, e) == v \notin {e, relocated[e]}
         IN Wrongs(s, Len(Pc!Scripts[s])) =
              {[cmd |-> "GET_REG", arg |-> r] :
                 r \in {q \in Regs : wrong(regs[q], t.expected_registers[q])}}
              \cup {[cmd |-> "READ_WORD", arg |-> BRAM_BASE_ADDR + 4 * (i - 1)] :
                      i \in {j \in DOMAIN t.expected_memory :
                               wrong(mem[BRAM_BASE_ADDR + 4 * (j - 1)], t.expected_memory[j])}}
  <1> DEFINE t == TestCases[s]
             E == Len(t.expected_memory)
             a == RegsAt(s)
             b == WordsAt(s)
             A == {q \in Regs : regs[q] \notin {t.expected_registers[q], relocated[t.expected_registers[q]]}}
             B == {j \in 1 .. E : mem[BRAM_BASE_ADDR + 4 * (j - 1)] \notin
                                     {t.expected_memory[j], relocated[t.expected_memory[j]]}}
             X == {[cmd |-> "GET_REG", arg |-> r] : r \in A}
             Y == {[cmd |-> "READ_WORD", arg |-> BRAM_BASE_ADDR + 4 * (i - 1)] : i \in B}
  <1>1. PICK c : c = Pc!Scripts[s]
    OBVIOUS
  <1>2. ComparesSo(s, c) /\ Len(c) = b + E
    BY <1>1, SetUpCalls
  <1>3. /\ REG_MAX \in Nat /\ Regs = 1 .. REG_MAX /\ E \in Nat /\ DOMAIN t.expected_memory = 1 .. E
        /\ a \in Nat /\ b = a + REG_MAX
    BY Places
  <1>4. Wrongs(s, Len(c)) = {Name(c[j]) : j \in {k \in (a + 1) .. b + E : Wrong(c[k])}}
    BY <1>1, <1>2 DEF Wrongs
  <1>5. ASSUME NEW r \in Regs
        PROVE  /\ Name(c[a + r]) = [cmd |-> "GET_REG", arg |-> r]
               /\ Wrong(c[a + r]) <=> r \in A
    <2>1. c[a + r] = Pc!Report("GET_REG", <<r>>, t.expected_registers[r])
      BY <1>2, <1>3 DEF ComparesSo
    <2>2. /\ c[a + r].cmd = "GET_REG" /\ c[a + r].args[1] = r
          /\ c[a + r].expected = t.expected_registers[r]
      BY <2>1 DEF Pc!Report, Pc!Call
    <2> QED
      BY <2>2 DEF Name, Wrong, Val
  <1>6. ASSUME NEW i \in 1 .. E
        PROVE  /\ Name(c[b + i]) = [cmd |-> "READ_WORD", arg |-> BRAM_BASE_ADDR + 4 * (i - 1)]
               /\ Wrong(c[b + i]) <=> i \in B
    <2>1. c[b + i] = Pc!Report("READ_WORD", <<BRAM_BASE_ADDR + 4 * (i - 1)>>, t.expected_memory[i])
      BY <1>2 DEF ComparesSo
    <2>2. /\ c[b + i].cmd = "READ_WORD" /\ c[b + i].args[1] = BRAM_BASE_ADDR + 4 * (i - 1)
          /\ c[b + i].expected = t.expected_memory[i]
      BY <2>1 DEF Pc!Report, Pc!Call
    <2> QED
      BY <2>2 DEF Name, Wrong, Val
  <1>7. ASSUME NEW r \in Regs PROVE a + r \in (a + 1) .. b + E
    <2>1. r \in 1 .. REG_MAX
      BY <1>3
    <2> HIDE DEF a, b, E
    <2> QED
      BY <1>3, <2>1
  <1>8. ASSUME NEW i \in 1 .. E PROVE b + i \in (a + 1) .. b + E
    <2> HIDE DEF a, b, E
    <2> QED
      BY <1>3
  <1>9. ASSUME NEW k \in (a + 1) .. b + E
        PROVE  (\E r \in Regs : k = a + r) \/ \E i \in 1 .. E : k = b + i
    <2> HIDE DEF a, b, E
    <2>1. CASE k <= b
      <3>1. k - a \in 1 .. REG_MAX /\ k = a + (k - a)
        BY <1>3, <2>1
      <3> QED
        BY <1>3, <3>1
    <2>2. CASE k > b
      <3>1. k - b \in 1 .. E /\ k = b + (k - b)
        BY <1>3, <2>2
      <3> QED
        BY <3>1
    <2> QED
      BY <1>3, <2>1, <2>2
  <1> HIDE DEF a, b, A, B, E
  <1>10. ASSUME NEW x \in Wrongs(s, Len(c)) PROVE x \in X \cup Y
    <2>1. PICK k \in (a + 1) .. b + E : Wrong(c[k]) /\ x = Name(c[k])
      BY <1>4
    <2>2. CASE \E r \in Regs : k = a + r
      BY <1>5, <2>1, <2>2
    <2>3. CASE \E i \in 1 .. E : k = b + i
      BY <1>6, <2>1, <2>3
    <2> QED
      BY <1>9, <2>2, <2>3
  <1>11. ASSUME NEW x \in X PROVE x \in Wrongs(s, Len(c))
    <2>1. PICK r \in A : x = [cmd |-> "GET_REG", arg |-> r]
      OBVIOUS
    <2>2. r \in Regs
      BY <2>1 DEF A
    <2>3. Wrong(c[a + r]) /\ x = Name(c[a + r]) /\ a + r \in (a + 1) .. b + E
      BY <1>5, <1>7, <2>1, <2>2
    <2> QED
      BY <1>4, <2>3
  <1>12. ASSUME NEW x \in Y PROVE x \in Wrongs(s, Len(c))
    <2>1. PICK i \in B : x = [cmd |-> "READ_WORD", arg |-> BRAM_BASE_ADDR + 4 * (i - 1)]
      OBVIOUS
    <2>2. i \in 1 .. E
      BY <2>1 DEF B
    <2>3. Wrong(c[b + i]) /\ x = Name(c[b + i]) /\ b + i \in (a + 1) .. b + E
      BY <1>6, <1>8, <2>1, <2>2
    <2> QED
      BY <1>4, <2>3
  <1>13. Wrongs(s, Len(c)) = X \cup Y
    <2> HIDE DEF X, Y
    <2> QED
      BY <1>10, <1>11, <1>12
  <1> QED
    BY <1>1, <1>3, <1>13 DEF A, B, E

(***************************************************************************)
(* execute_tests.py: a test case that comes to its end has reported exactly*)
(* the registers and words of memory of the worker that are neither as     *)
(* expected nor as expected with the base address added, in every session  *)
(* that was opened with at most as many replies under way as the scripts   *)
(* begin with acknowledgements.                                            *)
(***************************************************************************)
THEOREM ReportsAreTrue ==
  ASSUME BacklogFits
  PROVE  Spec => []VerdictsAreTrue
  <1>1. Init => VerdictInv
    <2> SUFFICES ASSUME Init PROVE VerdictInv
      OBVIOUS
    <2>1. ValueInv /\ FaultsFollowStops
      BY ValuesStart, FaultsStart DEF FaultInv
    <2>2. session.at = "closed"
      BY DEF Init, Pc!Closed
    <2> QED
      BY <2>1, <2>2 DEF VerdictInv, Verdicts, AtTest
  <1>2. VerdictInv /\ [Next]_vars => VerdictInv'
    <2> SUFFICES ASSUME VerdictInv, [Next]_vars PROVE VerdictInv'
      OBVIOUS
    <2>1. ValueInv' /\ FaultsFollowStops'
      BY ValuesStep, FaultsOn DEF VerdictInv, ValueInv
    <2>2. Verdicts'
      BY VerdictsOn
    <2> QED
      BY <2>1, <2>2 DEF VerdictInv
  <1>3. VerdictInv => VerdictsAreTrue
    <2> SUFFICES ASSUME VerdictInv, session.at = "done", session.script \in Pc!Tests
                 PROVE  VerdictsAreTrue
      BY DEF VerdictsAreTrue
    <2>1. PICK s : s = session.script
      OBVIOUS
    <2>2. PICK n \in Nat : session.i = n + 1
      <3>1. session.i \in Nat \ {0}
        BY ShippedAre DEF VerdictInv, ValueInv, Following
      <3>2. session.i - 1 \in Nat /\ session.i = (session.i - 1) + 1
        BY <3>1
      <3> QED
        BY <3>2
    <2>3. Judged(s, n)
      BY <2>1, <2>2 DEF VerdictInv, Verdicts, AtTest
    <2>4. session.reported = Wrongs(s, Len(Pc!Scripts[s]))
      BY <2>3 DEF Judged
    <2> QED
      BY <2>1, <2>4, WrongsAre DEF VerdictsAreTrue
  <1> QED
    BY <1>1, <1>2, <1>3, PTL DEF Spec
=============================================================================
