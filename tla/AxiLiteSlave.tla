---------------------------- MODULE AxiLiteSlave ----------------------------
(***************************************************************************)
(* The memory at the other end of the core's AXI4-Lite port.  It is not    *)
(* part of the repository (cocotbext.axi.AxiLiteRam in test_full_cpu.py,   *)
(* the AXI interconnect and BRAM controller on the board), so it is the    *)
(* weakest slave both are instances of: it raises each ready, and answers, *)
(* after any delay; it takes a write's address and data in either order.   *)
(*                                                                         *)
(* The inputs of a clock edge are the master's outputs m (arvalid, araddr, *)
(* rready, awvalid, awaddr, wvalid, wdata, wstrb, bready) and the ready    *)
(* signals axi this edge samples.                                          *)
(***************************************************************************)
EXTENDS Datapath

VARIABLES
  mem,       \* the memory array
  s_read,    \* the read in progress: phase, address and data
  s_aw,      \* a write address was taken: taken, addr
  s_w,       \* a write's data was taken:  taken, data, strobe
  s_b        \* a write response is offered

slave_vars == <<mem, s_read, s_aw, s_w, s_b>>

NoRead == [phase |-> "none", addr |-> 0, data |-> 0]
NoAw   == [taken |-> FALSE, addr |-> 0]
NoW    == [taken |-> FALSE, data |-> 0, strobe |-> {}]

SlaveTypeOK ==
  /\ mem \in [MemCells -> Word]
  /\ s_read \in [phase: {"none", "busy", "valid"}, addr: Word, data: Word]
  /\ s_aw \in [taken: BOOLEAN, addr: Word]
  /\ s_w \in [taken: BOOLEAN, data: Word, strobe: Strobe]
  /\ s_b \in BOOLEAN

SlaveIdle == s_read = NoRead /\ s_aw = NoAw /\ s_w = NoW /\ s_b = FALSE

\* The port forgets what it was doing, the array keeps its contents.
SlaveReset ==
  /\ s_read' = NoRead /\ s_aw' = NoAw /\ s_w' = NoW /\ s_b' = FALSE
  /\ UNCHANGED mem

\* The signals the slave may drive in this cycle.  It is free to be ready for
\* what the master offers; a ready without a valid transfers nothing and is
\* left low.
SlaveReady(m) ==
  {r \in [ar: BOOLEAN, aw: BOOLEAN, w: BOOLEAN] :
     /\ r.ar => m.arvalid /\ s_read.phase = "none"
     /\ r.aw => m.awvalid /\ ~s_aw.taken /\ ~s_b
     /\ r.w => m.wvalid /\ ~s_w.taken /\ ~s_b}

SlaveOutputs(m) ==
  {[arready |-> r.ar, rvalid |-> s_read.phase = "valid", rdata |-> s_read.data,
    awready |-> r.aw, wready |-> r.w, bvalid |-> s_b] : r \in SlaveReady(m)}

-----------------------------------------------------------------------------
ReadAccept(m, axi) ==
  /\ m.arvalid /\ axi.arready
  /\ \E ph \in {"busy", "valid"} :
       s_read' = [phase |-> ph, addr |-> m.araddr,
                  data |-> IF ph = "valid" THEN ReadCell(mem, m.araddr) ELSE 0]

ReadServe ==
  /\ s_read.phase = "busy"
  /\ s_read' = [s_read EXCEPT !.phase = "valid", !.data = ReadCell(mem, s_read.addr)]

ReadFinish(m) ==
  /\ s_read.phase = "valid" /\ m.rready
  /\ s_read' = NoRead

ReadIdle(m, axi) ==
  /\ CASE s_read.phase = "none"  -> ~(m.arvalid /\ axi.arready)
       [] s_read.phase = "busy"  -> TRUE
       [] s_read.phase = "valid" -> ~m.rready
  /\ UNCHANGED s_read

\* Both halves of a write are there: the memory changes and the response is
\* offered.
WriteCommit ==
  /\ s_aw.taken /\ s_w.taken /\ ~s_b
  /\ mem' = WriteCell(mem, s_aw.addr, s_w.strobe, s_w.data)
  /\ s_aw' = NoAw /\ s_w' = NoW /\ s_b' = TRUE

\* Take whichever halves are handed over in this cycle, and retire an
\* accepted response.
WriteHandshake(m, axi) ==
  /\ s_aw' = IF m.awvalid /\ axi.awready THEN [taken |-> TRUE, addr |-> m.awaddr] ELSE s_aw
  /\ s_w' = IF m.wvalid /\ axi.wready
            THEN [taken |-> TRUE, data |-> m.wdata, strobe |-> m.wstrb] ELSE s_w
  /\ s_b' = (s_b /\ ~m.bready)
  /\ UNCHANGED mem

SlaveTick(m, axi) ==
  /\ ReadAccept(m, axi) \/ ReadServe \/ ReadFinish(m) \/ ReadIdle(m, axi)
  /\ WriteCommit \/ WriteHandshake(m, axi)

\* A cycle in which the slave does everything it can do at once.
SlaveResponds(m, axi) ==
  /\ m.arvalid /\ s_read.phase = "none" => axi.arready
  /\ m.awvalid /\ ~s_aw.taken => axi.awready
  /\ m.wvalid /\ ~s_w.taken => axi.wready
  /\ ReadAccept(m, axi) \/ ReadServe \/ ReadFinish(m)
     \/ (s_read.phase = "none" /\ ReadIdle(m, axi))
  /\ WriteCommit \/ (~(s_aw.taken /\ s_w.taken) /\ WriteHandshake(m, axi))
=============================================================================
