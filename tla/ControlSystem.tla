---------------------------- MODULE ControlSystem ----------------------------
(***************************************************************************)
(* The control module between an AXI4-Lite master and the pins of a core,  *)
(* as in components_testbenches/test_soc_control.py: the pins that come    *)
(* from the core carry any value in any cycle, and monitors record what    *)
(* the control module does to the core.  The master uses its five channels *)
(* independently: it may offer a read while a write is under way, data     *)
(* before its address, and take a response after any delay.                *)
(***************************************************************************)
EXTENDS SocControl, Sequences

CONSTANTS
  HOST_BASE,      \* where the interconnect placed the slave
  ReadRequests, WriteRequests,
  WriteData,      \* what is offered on the data channel: [data, strobe]
  CoreInputs      \* the values the core's pins take

VARIABLES
  ar, aw, w,          \* what the master offers, each {} or a singleton
  reading, writing,   \* the request taken and not yet answered, {} or a singleton
  monitor

vars == <<soc_vars, ar, aw, w, reading, writing, monitor>>

(***************************************************************************)
(* A request names its component, and a register (or the offset of a       *)
(* control register) in it; its address is what CONTROL_ADDR, REGFILE_ADDR *)
(* and FAULT_ADDR of cm_commands.vh build, plus a byte offset that is 0    *)
(* unless the request is malformed.  Every address of 16 bits is the       *)
(* address of exactly one request: a fault's register has 6 bits and its   *)
(* mode 4, of which only 5 and 2 are meant to be used.                     *)
(***************************************************************************)
FaultRequest   == [sel: {SUB_SEL_FAULT}, reg: 0 .. 63, mode: 0 .. 15, byte: 0 .. 3]
RegfileRequest == [sel: {SUB_SEL_REGFILE}, reg: 0 .. 1023, mode: {0}, byte: 0 .. 3]
OtherRequest   == [sel: (0 .. 15) \ {SUB_SEL_FAULT, SUB_SEL_REGFILE},
                   reg: {4 * i : i \in 0 .. 1023}, mode: {0}, byte: 0 .. 3]

Request == FaultRequest \cup RegfileRequest \cup OtherRequest

SubAddress(req) ==
  IF req.sel = SUB_SEL_FAULT THEN 256 * req.mode + 4 * req.reg + req.byte
  ELSE IF req.sel = SUB_SEL_REGFILE THEN 4 * req.reg + req.byte
  ELSE req.reg + req.byte

Address(req) == HOST_BASE + 4096 * req.sel + SubAddress(req)

\* The addresses are not scaled down: a register number has 5 bits.
ASSUME ControlSystemAssumption ==
  /\ NUM_REGISTERS = 32
  /\ HOST_BASE \in Nat /\ HOST_BASE % USED_ADDR = 0
  /\ ReadRequests \subseteq Request /\ WriteRequests \subseteq Request
  /\ WriteData \subseteq [data: Word, strobe: Strobe]
  /\ CoreInputs \subseteq
       [pc_read_data: Word, regfile_read_data: Word, core_debug_vector: Word]

\* The monitors of the test bench: the values seen at the core's pins while a
\* read is under way; the pulses sent to the core while a write is under way,
\* the stall before it, and the number of its cycles in which the stall is low.
NoMonitor == [inputs |-> {}, pulses |-> <<>>, stall |-> TRUE, low |-> 0]

TypeOK ==
  /\ SocTypeOK
  /\ ar \in {{}} \cup {{r} : r \in ReadRequests}
  /\ aw \in {{}} \cup {{r} : r \in WriteRequests}
  /\ w \in {{}} \cup {{d} : d \in WriteData}
  /\ reading \in {{}} \cup {{r} : r \in ReadRequests}
  /\ writing \in {{}} \cup {{x} : x \in [req: WriteRequests, w: SUBSET WriteData]}
  /\ monitor \in [inputs: SUBSET CoreInputs, pulses: Seq(Request \X Word),
                  stall: BOOLEAN, low: Nat]

Init ==
  /\ SocInit
  /\ ar = {} /\ aw = {} /\ w = {} /\ reading = {} /\ writing = {}
  /\ monitor = NoMonitor

-----------------------------------------------------------------------------
The(S) == CHOOSE x \in S : TRUE

\* The channels as the control module sees them.
HostInputs(rready, bready) ==
  [arvalid |-> ar # {}, araddr |-> IF ar = {} THEN 0 ELSE Address(The(ar)),
   awvalid |-> aw # {}, awaddr |-> IF aw = {} THEN 0 ELSE Address(The(aw)),
   wvalid |-> w # {}, wdata |-> IF w = {} THEN 0 ELSE The(w).data,
   wstrb |-> IF w = {} THEN {} ELSE The(w).strobe,
   rready |-> rready, bready |-> bready]

\* What is offered stays offered until it is taken.
Offer(channel, taken, choices) ==
  IF channel # {} THEN IF taken THEN {{}} ELSE {channel}
  ELSE {{}} \cup {{c} : c \in choices}

\* The monitored pulse of this cycle, as a request and its datum.
Pulse ==
  IF pc_write_enable
    THEN <<<<[sel |-> SUB_SEL_CTRL, reg |-> CTRL_REG_PC, mode |-> 0, byte |-> 0], CorePins.pc_write_data>>>>
  ELSE IF regfile_write_enable
    THEN <<<<[sel |-> SUB_SEL_REGFILE, reg |-> regfile_addr, mode |-> 0, byte |-> 0],
             CorePins.regfile_write_data>>>>
  ELSE IF regfile_fault_enable
    THEN <<<<[sel |-> SUB_SEL_FAULT, reg |-> CorePins.fault_addr, mode |-> CorePins.fault_mode,
              byte |-> 0], CorePins.fault_mask>>>>
  ELSE <<>>

Monitor(core) ==
  monitor' =
    [inputs |-> IF reading' = {} THEN {} ELSE monitor.inputs \cup {core},
     pulses |-> IF writing' = {} THEN <<>> ELSE monitor.pulses \o Pulse,
     stall |-> IF writing = {} THEN pc_stall ELSE monitor.stall,
     low |-> IF writing' = {} THEN 0
             ELSE IF cm_state \in {"WRITE_ISSUE", "WRITE_WAIT_DONE"} /\ ~pc_stall
             THEN monitor.low + 1 ELSE monitor.low]

Master(rready, bready) ==
  /\ ar' \in Offer(ar, S_AXI_ARREADY, ReadRequests)
  /\ aw' \in Offer(aw, S_AXI_AWREADY, WriteRequests)
  /\ w' \in Offer(w, S_AXI_WREADY, WriteData)
  /\ reading' = IF S_AXI_ARREADY THEN ar
                ELSE IF S_AXI_RVALID /\ rready THEN {} ELSE reading
  /\ writing' = IF S_AXI_AWREADY THEN {[req |-> r, w |-> {}] : r \in aw}
                ELSE IF S_AXI_WREADY /\ w # {} THEN {[x EXCEPT !.w = w] : x \in writing}
                ELSE IF S_AXI_BVALID /\ bready THEN {} ELSE writing

Tick ==
  \E rready, bready \in BOOLEAN : \E core \in CoreInputs :
    /\ SocTick(HostInputs(rready, bready), core)
    /\ Master(rready, bready)
    /\ Monitor(core)

Reset ==
  /\ SocReset
  /\ ar' = {} /\ aw' = {} /\ w' = {} /\ reading' = {} /\ writing' = {}
  /\ monitor' = NoMonitor

Next == Tick \/ Reset

Spec == Init /\ [][Next]_vars

\* The clock runs, so the state machine leaves a state it can leave; and the
\* master takes its responses and sends the data of the writes it began.
Advances == cm_state' # cm_state
TakesResponse ==
  \/ S_AXI_RVALID /\ reading' = {}
  \/ S_AXI_BVALID /\ writing' = {}
SendsData == cm_state = "WRITE_RECV_DATA" /\ w = {} /\ w' # {}

LiveSpec ==
  /\ Init /\ [][Tick]_vars
  /\ WF_vars(Tick /\ Advances) /\ WF_vars(Tick /\ TakesResponse) /\ WF_vars(Tick /\ SendsData)

-----------------------------------------------------------------------------
\* The requests that name something which can be read, and written.
Readable(req) ==
  /\ req.byte = 0
  /\ \/ req.sel = SUB_SEL_REGFILE /\ req.reg \in RegIdx
     \/ /\ req.sel = SUB_SEL_CTRL
        /\ req.reg \in {CTRL_REG_STATUS, CTRL_REG_STEP, CTRL_REG_PC, CTRL_REG_DBG_VECTOR}

ControlWritable(req) ==
  /\ req.byte = 0 /\ req.sel = SUB_SEL_CTRL
  /\ req.reg \in {CTRL_REG_START, CTRL_REG_STOP, CTRL_REG_STEP, CTRL_REG_PC}

Writable(req) ==
  \/ ControlWritable(req)
  \/ /\ req.byte = 0 /\ req.sel \in {SUB_SEL_REGFILE, SUB_SEL_FAULT}
     /\ req.reg \in RegIdx \ {0} /\ req.mode \in FaultMode

\* What a request reads from the pins.
ValueIn(req, core) ==
  CASE req.sel = SUB_SEL_REGFILE                           -> core.regfile_read_data
    [] req.sel = SUB_SEL_CTRL /\ req.reg = CTRL_REG_STATUS -> IF pc_stall THEN 1 ELSE 0
    [] req.sel = SUB_SEL_CTRL /\ req.reg = CTRL_REG_PC     -> core.pc_read_data
    [] req.sel = SUB_SEL_CTRL /\ req.reg = CTRL_REG_DBG_VECTOR -> core.core_debug_vector
    [] OTHER -> 0

\* A read is answered OKAY iff its address names something readable, and with
\* a value the core had while the read was under way: never with what an
\* earlier request left in control_read_data, read_data or
\* control_address_valid (soc_control.v:316-341).
ReadAnswered ==
  S_AXI_RVALID =>
    \A req \in reading :
      /\ RESP = IF Readable(req) THEN "OKAY" ELSE "SLVERR"
      /\ IF Readable(req) THEN \E core \in monitor.inputs : S_AXI_RDATA = ValueIn(req, core)
         ELSE S_AXI_RDATA = 0

\* A write is answered OKAY iff it is legal and complete, and pulses the core
\* exactly once, with the register, mode and datum the master asked for; a
\* write that is refused pulses nothing, except that a partial write to the pc
\* is carried out and then refused (soc_control.v:369-384).
WriteHasItsEffectOnce ==
  S_AXI_BVALID =>
    \A x \in writing : \A d \in x.w :
      LET full == d.strobe = 0 .. 3
          pulsed == \/ ControlWritable(x.req) /\ x.req.reg = CTRL_REG_PC
                    \/ Writable(x.req) /\ full /\ x.req.sel # SUB_SEL_CTRL
      IN /\ RESP = IF Writable(x.req) /\ full THEN "OKAY" ELSE "SLVERR"
         /\ monitor.pulses = IF pulsed THEN <<<<x.req, d.data>>>> ELSE <<>>

\* START leaves the stall low, STOP and STEP leave it high, and a step of a
\* stalled core lowers it for exactly one cycle; nothing else moves it.
StallFollowsCommands ==
  S_AXI_BVALID =>
    \A x \in writing :
      LET to(offsets) == ControlWritable(x.req) /\ x.req.reg \in offsets
      IN /\ pc_stall = (\/ to({CTRL_REG_STOP, CTRL_REG_STEP})
                        \/ monitor.stall /\ ~to({CTRL_REG_START}))
         /\ monitor.stall =>
              monitor.low = IF to({CTRL_REG_START, CTRL_REG_STEP}) THEN 1 ELSE 0

\* The case label of the control reads names START, STOP and STEP and answers
\* 0, "no real data to be read here" (soc_control.v:324-328): reading any of
\* the three is answered OKAY.
CommandRegistersReadable ==
  S_AXI_RVALID =>
    \A req \in reading :
      /\ req.sel = SUB_SEL_CTRL /\ req.byte = 0
      /\ req.reg \in {CTRL_REG_START, CTRL_REG_STOP, CTRL_REG_STEP}
      => RESP = "OKAY"

\* A read that is offered is taken and answered, whatever the writes do.
ReadsAnswered ==
  /\ ar # {} ~> ar = {}
  /\ reading # {} ~> reading = {}

\* A write that was taken is answered, whatever the reads do; one that is
\* offered is taken once the master pauses its reads: IDLE serves a read
\* first, so a stream of reads starves a write.
WritesAnswered ==
  /\ writing # {} ~> writing = {}
  /\ <>[](ar = {}) => (aw # {} ~> aw = {})
=============================================================================
