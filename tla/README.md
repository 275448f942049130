# RISC-V worker: verification project

The repository builds a fault-injection worker: an unpipelined RV32I core, a control module
that halts, steps, reads, writes and disturbs the core, firmware on the Zynq processing system
that drives the control module, a Python client on a master PC that talks to the firmware over a
UART, and the Python tools that build the hardware, convert test programs and run simulations.
This directory models all of these in TLA+, checks the models with TLC and proves theorems about
each of them with TLAPS. Everything is translated from the code;
line numbers for every definition are in `PROJECT.json` under `map`.

## 1. Inventory

| Component | State it keeps | Operations | Talks to | What makes it correct |
|---|---|---|---|---|
| `riscv_cpu.v` core | pc, release-pending and stall-released flags, instruction latch, three valid flags | one clock edge: PC, INSTRUCTION, DECODED, EXECUTE_RESULT and NEXT_PC transactions | arbiter and register file inside it; control pins | one instruction in flight; executes whole RV32I instructions; a stop takes effect between two of them |
| `memory_arbiter.v` | state of 9, result pulse, load data | fetch, load, store | AXI4-Lite master port | no orphan transaction, AXI stability, no hang |
| `register_file.v` | 31 registers, registered read value | write-back, external write, fault write, external read | core, control module | no write that was acknowledged is lost |
| `instruction_decode.v`, `alu.v`, `load_store_decoder.v`, `byte_reader.v`, `fault_injector.v` | none (two inferred latches) | combinational | core | RV32I semantics |
| `soc_control.v` control module | state of 9, three latches, result, stall, two control-read registers | AXI4-Lite reads and writes | processing system, core pins | a response tells the truth about the effect; the stall follows the commands |
| `cm_and_core.v` | none | wiring | all of the above | the control module drives the core only as the core allows |
| memory (BRAM controller, `AxiLiteRam`) | array, AXI port | read, write | arbiter | external |
| `axi_memory_mock.v` | two arrays, AXI port | read, write | component test benches | serves the arbiter's stores |
| `control_module.c` | none | nine blocking register accesses | `Xil_In32`, `Xil_Out32` | every call returns |
| `main.c`, `platform.c` firmware | a line buffer | one UART line, one command, one reply | UART, `control_module.c`, memory | one reply per line; FAULT_MEM is atomic |
| `worker_interface.py`, `main.py` client | a serial port with its buffers | `send`, acknowledgements, numbers, upload | UART | a value belongs to the command that was sent; a session ends |
| `execute_tests.py`, `demo_workflow.py` | position in a script | set up, step to the end, compare | client | a test starts clean; its verdict is true |
| `build.py` (hardware), `riscv_build_utils.py` | digest files, artifacts | hash, build, record | Vivado, Vitis | skips nothing stale, packages nothing fresh |
| `build_riscv_worker_ps_pl.py` | Vitis workspace | create or update platform and application, import, compile | Vitis | the ELF is made of the present sources and hardware |
| `build.py` (simulation), `test_runner.py` | `.sim_run_config.json`, build directories | resolve, write, discover, build, simulate | pytest, cocotb, simulator | runs what one launch asked for, on its core |
| `tb_utils` | none | encode instructions and addresses, read programs, route by core | test benches | what is built is what the hardware decodes |
| `rv322coe.py` | `program.hex` | assemble, link, dump, pack into words | toolchain | the test loads the linked image |
| tcl scripts | none | recreate block design, package IP | Vivado | no behaviour of their own |

The behaviours that are hard:

* **Handshakes in the core.** Five valid/ready pairs and the arbiter's state machine must agree in
  every cycle on where the single instruction is, with any memory latency.
* **A one-cycle stall release.** A step lowers the stall for one cycle; the core must remember it
  until the slave takes the address, and must forget it in exactly that cycle.
* **Two masters of the architectural state.** Registers and pc are written by the core and from
  outside, through priorities that drop the loser silently.
* **State left behind between requests** in the control module.
* **Two directions on one state machine** in the control module: reads starve writes.
* **Reset** in the middle of a transaction.
* **UART timeouts, late replies and killed sessions**: nothing ties a reply to its command, and the
  line, the firmware and the core outlive the session that used them.
* **FAULT_MEM** reads and writes memory in two transfers beside a core that may store.
* **Builds that take hours**: sources are edited while the tools run, tools fail half way, and the
  digest vouches for a directory nobody looks into.
* **Files shared by two terminals**: the run configuration, `program.hex`, the build directories.

## 2. Plan

1. *(done)* core, arbiter, register file, memory port; the abstract machine; runs; type and
   single-instruction theorems, and that arbiter and memory agree on what is outstanding.
2. *(done)* control module alone, with an AXI master on independent channels; control module,
   core and driver wired together; the wired system shown to implement the core system.
3. *(done)* the worker as its user sees it: firmware, serial line, client and test scripts in
   `WorkerLink`; that replies are counted, proved for every script.
4. *(done)* the tools: `BuildCache` and `BuildTool`; `ProgramConverter`, `SimulationLaunch` and
   `ComponentBenches` joined in `ProgramTests`; the decoder on real instruction words.
5. *(done)* proofs of the hardware: the action properties of the core and its refinement of the
   abstract machine; the control module's invariants; the invariants of the wired system and its
   refinement of the core system. Proofs of the tools: the cache and the simulated tests.
6. *(done)* proofs of the link that need what a shipped script is made of and where in it a session
   stands: `FaultsAreAtomic` and `ValuesBelong`.
7. *(done)* proofs of what the test script relies on, which need what the commands do to registers
   and memory as well: `TestStartsClean` and `VerdictsAreTrue`. The lists of words behind
   `LoadsTheImage` stay with TLC.

## 3. Modules

| Module | Models | Notes |
|---|---|---|
| `Rv32iParams`, `Datapath` | `rv32i_params.vh`, data types, the interface of the combinational blocks | the blocks are constant operators with type assumptions, so the control logic is checked and proved for any datapath |
| `InstructionDecode`, `Alu`, `LoadStoreLanes` | the blocks themselves | instantiated with 8-bit words by the runs |
| `MemoryArbiter`, `RegisterFile`, `RiscvCpu` | the clocked modules of the core | one disjunct per branch of each `always` block; `CpuTick` is their conjunction |
| `AxiLiteSlave` | the memory port (external) | any latency, address and data of a write in any order |
| `CoreSystem` | core + memory + control pins, as `test_full_cpu.py` connects them | stall pin free in every cycle; writes and faults while halted |
| `DebugCore` | abstract specification: an instruction-at-a-time machine that can be halted, changed, resumed | implemented by `CoreSystem` |
| `SocControl` | `soc_control.v` | one action per state and decision |
| `ControlSystem` | `soc_control.v` between a general AXI master and monitored pins, as `test_soc_control.py` | |
| `WorkerSystem` | `cm_and_core.v` + memory + `control_module.c` | `Core == INSTANCE CoreSystem` |
| `SerialLine` | the UART (external): lines in order, what a session leaves on it, half a line | |
| `WorkerInterface` | `worker_interface.py`, `execute_tests.py`, `demo_workflow.py`, `main.py` | a script is a sequence of calls, an exception closes the session |
| `Firmware` | `main.c`, one action per command | on an instruction-at-a-time core with three instructions, which is what `CoreSystem` is shown to implement |
| `WorkerLink` | the two joined, and a worker that restarts | `Pc == INSTANCE WorkerInterface` |
| `BuildCache` | `riscv_build_utils.py`, `build_riscv_worker_ps_pl.py` | a digest is the tuple of what was hashed; artifacts remember what they were made of |
| `BuildTool` | `build.py --runtime hardware` and a developer | |
| `InstructionEncode` | `tb_utils/rv32i`: constants, `bitops.py`, addresses | a word is the set of positions of its ones |
| `ComponentBenches` | what the benches send and expect | against `InstructionDecode` and `SocControl` |
| `ProgramConverter` | `rv322coe.py` and the reader in `memory.py` | the toolchain is external |
| `SimulationLaunch` | `build.py --runtime simulation`, `test_runner.py`, the routers of `tb_utils` | |
| `ProgramTests` | converter and launches over the same files | |
| `MC*` | instances for TLC | |
| `CoreSystemProofs`, `CoreRefinementProofs` | theorems about `CoreSystem` | the second: `AxiStable`, `StopHolds`, `InFlightIsCurrent`, `ImplementsDebugCore` |
| `RiscvCpuProofs` | lemmas on the core's blocks that several theorem modules use | |
| `ControlSystemProofs`, `WorkerSystemProofs` | theorems about the control module, alone and wired to the core | |
| `WorkerLinkProofs`, `BuildProofs`, `SimulationProofs` | theorems about the software | |

How code and model correspond: every `reg` is a variable; every wire is an operator of the
current state and of the input records (`cm` the control pins, `axi` the slave's outputs, `host`
the processing system's AXI signals, `core` the core's outputs). A clock edge is one step: the
conjunction of what every block does, all reading the state before it, as nonblocking
assignments do. Two latches that Verilog infers are treated as what they can hold: an
incomplete `case` in `byte_reader.v` makes `LoadValues` a set (any value for a misaligned load),
and the latch for the data of an unaligned store is never written to memory because its strobe
is empty. Reset is a step of its own that can happen in any state; the array of the memory
survives it.

Abstractions of the hardware: in the runs of the core the bits of an instruction word are a table
from words to fields (`MCDatapath!Assembler`), while the slicing itself is checked by `programs`; AXI
protection and response inputs are left out because the code never reads them;
instruction_ready and execute_result_ready are tied to 1 in the code and left out.

In the software a step is what one process does between two points where another may act: a
line written or read, a file opened, written or read, a tool started or ended, an exception. Names
stand for all their spellings, a text line for a command with numbers, a file's content for a
version, an MD5 sum for the tuple of what went into it (no two contents collide). History
variables are named as such: `doubtful` and `quiet` (which artifacts a disturbance may have
separated from their digest), `leftover` and `rebooted` in a session, `own` and `to` in a line,
`wanted` and `by` in a launch, `made` (the version `program.hex` was completely made from).

## 4. Runs

Passing:

| Run | Question | Bounds | Result |
|---|---|---|---|
| `core_system` | Does the clocked core, with any latency, any stall waveform, writes and faults while halted, and resets anywhere, execute whole instructions and nothing else? | 8-bit words, 4 registers, two programs (lw xori sb bne jalr; misaligned lh sb jal), two pc values, one register and value, all four fault modes | `OneInFlight`, `NoOrphanTransaction`, `InFlightIsCurrent`, `AxiStable`, `StopHolds`, refinement of `DebugCore` |
| `core_live` | Does an instruction always finish, a stopped core always halt, a stream of one-cycle releases always make progress? | two programs with every kind of memory access | three liveness properties |
| `control_reads` | Is every kind of read answered correctly, whatever the write channels do? | 32 registers, 16-bit addresses, 12 read requests of which 7 are illegal or unimplemented, values at the core's pins changing every cycle | `ReadAnswered` |
| `control_writes` | Has every kind of write exactly the effect its response claims? | 16 write requests, full and partial strobes | `WriteHasItsEffectOnce`, `StallFollowsCommands` |
| `control_live` | Is every request answered? | a read and two kinds of write | `ReadsAnswered`, `WritesAnswered` |
| `worker` | Do steps, writes and reads of the wired system mean what the driver's names say? | one program with a load, a store and a jump; all nine calls, one value each, fault mode or | `StepsAreExact`, `WritesTakeEffect`, `ReadsAreCurrent`, refinement of `CoreSystem` |
| `worker_live` | Does every call return, every step execute? | step, stop, debug_vector_read | `CallsReturn`, `StepsComplete` |
| `build` | Is what the cache skips fresh, what is fresh not packaged again, and the ELF of an undisturbed build made of the present sources? | two cores, two contents of one core, of the scripts and of the firmware, one vendor with a board and one without, one disturbance | `SkipsAreFresh`, `FreshIpIsNotRebuilt`, `CompletedBuildIsFresh` |
| `link` | What do sessions, late replies, half lines, running cores and restarts do to each other? | 2-bit words, one register, four words of memory, two test cases, both demos, six user calls, `MaxSteps` 3, `MaxBacklog` 1 | `OneReplyPerCommand`, `ValuesBelong`, `TestStartsClean`, `VerdictsAreTrue`, `FaultsAreAtomic`, `SessionsEnd` |
| `programs` | Do launches, conversions and edits that share files run the right program, test and core? Do the benches' words mean what the hardware decodes? | two terminals (symmetric), three versions of a program, two programs, three benches, two cores, three command lines, one edit, one conversion | `LoadsTheImage`, `TestsAsRequested`, `BenchMatchesBuild`, `BenchesPass` |

Why the bounds are enough: the control logic looks at data only through the decoded flags and
comparisons with 0, so a second value of each kind shows every difference; the programs contain
every path through the core's stages (ALU, branch taken and not, jump, load, store, misaligned
access), and the memory may delay every handshake by any number of cycles because waiting
changes no state. The control module's registers and addresses are not scaled down at all: 16 bit
addresses and 32 registers, sampled on both sides of every boundary of its decoder; its data are
8 bits, which it only copies. `MaxOwed` bounds the steps that are outstanding at once, in the
guard of the call; a paced host never has more than one.

The bounds of the software runs:

* `MaxDisturbances` (`build`) counts edits during a running build and builds that fail or are
  interrupted without a cause of their own; edits between builds, builds and removals of the build
  directory are unbounded, so a disturbance can meet any history. Two disturbances were checked as
  well (8 million states, no violation) and are left out for time.
* `MaxBacklog` (`link`) bounds the lines under way when a session is opened. Scripts begin with
  acknowledgements (at least two in the instance, ten in the code); one leftover reply is enough
  to shift a session, and `ValuesBelong` holds as long as there are no more leftovers than
  acknowledgements at the beginning, which is what the code relies on (`ValuesAreOwn` proves it
  for every backlog within that). `MaxSteps` is the 1000 of
  `execute_tests.py:67`; three steps end both ways, by the loop and by the bound. Sessions,
  timeouts, kills and restarts are unbounded.
* `MaxEdits` and `MaxConversions` (`programs`): one conversion can meet every launch at every step;
  a second would only repeat the first with another version. Each terminal launches once. The
  five-word program is longer than a line of the dump; the others are empty, or have two sections
  with a gap between them and a rest of two bytes. The three command lines leave mode and tests to
  the prompt, name a bench for the second core, or take all programs. That two launches mix their
  texts takes two; three terminals were checked with the inductive invariant as well. The words of the decoder are not scaled down: all formats with 32 bits,
  immediates at the ends of their ranges, five register numbers.

Violated, each with a finding in `PROJECT.json`:

| Run | What the code or a comment says | What happens |
|---|---|---|
| `command_reads` | `soc_control.v:324` names START, STOP and STEP as readable | the label is a bitwise or; START and STOP answer SLVERR |
| `ip_change` | "If an IP changes then an entire block diagram has to be rebuilt" (`riscv_build_utils.py:273`) | a source edited during packaging and edited back leaves a new IP under an old block design, and both stages are skipped |

`worker` and `worker_live` assume a host that waits for the core to come to rest (`HostPaced = TRUE`):
anything but a stop, or a read of a running core, is called only then. Nothing in the control
module or its driver makes it wait; the UART does: a line takes thousands of cycles and an
instruction tens. What the assumption buys is stated as `ImplementsCoreSystem`: pc, register and
fault pulses reach only a halted core. With `HostPaced = FALSE` two things go wrong that the
comments do not say: a second step before the first one's fetch was taken is absorbed by the
latched release (`control_module.h:44`, "Step one instruction forward"), and a register write
during a load or store changes the address the arbiter is still offering (`memory_arbiter.v:96`,
"Assume for now that the load store inputs stay constant"). Neither happens in the shipped system.

Deadlock is checked in every run except `programs`, which really ends: its edits, conversions and
launches are bounded, and when they are used up nothing is left to do.

## 5. Fairness

* `CoreSystem` and `WorkerSystem`: weak fairness of `PromptTick`, a clock edge at which the
  memory does all it can. The clock is free-running, and AXI obliges a slave to answer
  eventually; nothing is assumed of the cycles in between nor of the stall pin. Liveness is
  stated for runs without a reset.
* `ControlSystem`: the clock runs (the state machine leaves a state it can leave), and the master
  takes responses and sends the data of a write whose address was taken. Nothing obliges it to
  issue requests or to pause them: `WritesAnswered` needs "the reads pause" as a premise for a write
  that waits in IDLE because the code starves writes.
* `WorkerLink`: weak fairness of `ClientRuns`, the steps of the client's own process. `readline`
  returns by its timeout at the latest (`serial.Serial(..., timeout)`), and the scripts never wait for
  anything else. Nothing is assumed of the worker, which may hang or restart for ever:
  `SessionsEnd` holds all the same. Sessions of a user's own calls may stay open.
* The build and simulation models claim no liveness: tools and users may take as long as they like.

## 6. Proofs

Every invariant below was checked by TLC on a run of its module before it was proved. The
assumptions are the `ASSUME`s of the modules, which TLC evaluates in every run; they give constants
their types unless the text says more.

### The core

`CoreSystemProofs.tla`, for every word size, register count, memory, program and datapath:

* `TypeCorrect`: `Spec => []TypeOK`. Lemmas give the type of every wire (`WireTypes`), of the
  pins and of each clocked block; `TypeTick` composes them.
* `SingleInstruction`: `Spec => []OneInFlight`. `OneInFlight` is a disjunction of seven places
  (`AtPc`, `AtFetch`, `AtDecode`, `AtLoad`, `AtStore`, `AtResult`, `AtNextPc`), each of which fixes
  every valid flag and the arbiter's state. Together with the types it is inductive: one lemma
  `StepAt...` per place says where a clock edge can lead. The places had to be strengthened to be
  inductive: `PC_WAIT_ARREADY` occurs only with the release latched (otherwise a returning stall
  would leave the arbiter waiting for a pc that is no longer offered), and a result belongs to
  the path, memory or ALU, that the latched instruction selects.
* `TransactionsAgree`: `Spec => []NoOrphanTransaction`. With the types it is inductive as it
  stands. It falls into a read side and a write side that do not depend on each other
  (`ReadsAgree`, `WritesAgree`); for each, one lemma says how the arbiter's state answers to the
  handshakes of an edge (`ArbiterReads`, `ArbiterWrites`), and one sets the slave's step beside it.


`CoreRefinementProofs.tla`, for every such instance in which the decoder is right about loads and stores
(`MemoryInstructionAssumption` in `Datapath`: the ALU adds their offset to the first operand, none of
them is a jump, and a store writes no register back; the core takes a store's byte lanes from the
ALU's result and would not be correct without it, and the decoder of the runs satisfies it):

* `CurrentInFlight`: `Spec => []InFlightIsCurrent`. A fetch that is offered is offered at the pc (and
  what came back is what the memory holds there), and a load or store under way is the one the
  latched instruction asks for. It takes the places of `OneInFlight` (`Placed`) to say when.
* `OffersStable`: `Spec => AxiStable`. What the arbiter offers and the slave has not taken is offered
  again in the next cycle. The address of a load or store comes from live wires, so this is a fact
  about register file, pc and instruction latch, which may not change at those places.
* `StopsHold`: `Spec => StopHolds`, at every edge and through resets.
* `CoreRefines`: `Spec => ImplementsDebugCore`. Each place has one lemma that says which step of the
  abstract machine a clock edge there is: NEXT_PC of anything but a store is `Execute`; the edge at
  which the slave commits a store is the abstract store, and its NEXT_PC no step; an edge of a
  halted core may be `SetPc` or `SetRegister`; every other edge changes at most the stall pin,
  which is `Start` or `Stop`.

`RiscvCpuProofs.tla` holds what these and the next proofs share: the type of each block's next
state, where an edge can lead from each place, and what it leaves alone when nothing is in flight.

### The control module

`ControlSystemProofs.tla`, for every set of requests with 16 bit addresses and for the 32 registers that
the address decoder is written for (`NUM_REGISTERS = 32`):

* `ControlTypeCorrect`, `ReadsAreTrue` (`ReadAnswered`), `WritesActOnce` (`WriteHasItsEffectOnce`),
  `StallIsCommanded` (`StallFollowsCommands`).

None of the three is inductive. The invariant adds what the state machine remembers between its
states: that its latches agree with the request on the channel (`RequestsAgree`), that the flags and
pulses of a request are gone when the next begins (`NothingLeftOver`), which pin a read has
driven and how many cycles ago (`ReadIssued`), and which pulse a write has given
(`WriteIssued`). The hard part is arithmetic: that the decoder's masks select the registers and
fault modes that the address formats name, and no other address.

### The control module wired to the core

`WorkerSystemProofs.tla`, for a number of registers that is a power of two up to 32, every datapath, program
and memory latency. All but the type theorem have `HostPaced` as a hypothesis, as the run has:

* `WorkerTypeCorrect`, `StepsExact` (`StepsAreExact`), `WritesTake` (`WritesTakeEffect`),
  `ReadsCurrent` (`ReadsAreCurrent`).
* `WorkerRefinesCore`: `Spec => ImplementsCoreSystem`. The pins that the control module drives are pins
  that `CoreSystem` allows in every cycle: pulses that change the core reach it at rest only. With
  it, everything that is proved of `CoreSystem` holds of the wired system.

The invariant says where the control module, the driver's call and the core stand to each other: a call
that is under way is at the module in the form of its request (`HostAgrees`), a step is given only
when there is room for it (`StepHasRoom`), a paced host's call finds and leaves the core at rest (`Paced`), the
steps that are owed are those of the core's release flags (`StepsCounted`), and the value a read
is to return is on its way (`ReadsCollected`).

### The link to the worker

`WorkerLinkProofs.tla`, for every program, memory and words of a test case, any user's calls and
sessions that end, fail, time out or are killed without bound, over a worker that may restart or
hang at any time. `ScriptAssumption` says that no test case is called `demo`, `faults`, `user` or
`none`, that there is a test case, and that programs and memories are lists of words, the demos' program not
an empty one.

* `RepliesAreCounted`: `Spec => []OneReplyPerCommand`. The property counts the lines on both
  directions of the line and the command the firmware is in the middle of. It becomes inductive
  (`LinkInv`) once the two lines are finite sequences and the session and the firmware's loop are
  in one of their states (`Shape`). Lemmas `AppendLine`, `TailLine`, `DropLine` and `DisownedLine`
  say what each operation does to the length of a line of any messages. `Answered` serves the
  twelve commands that are answered at once, `CommandTaken` and `FaultWritten` the two halves of
  `FAULT_MEM` and the data abort, and one lemma per client step the rest. TLC checks it on `link`
  with a backlog of one; the proof holds for any, and needs nothing of what the commands do.
* `FaultsStayAtomic`: `Spec => []FaultsAreAtomic`. The scripts are first shown to be well made
  (`ScriptsMade`, one lemma per script, from lemmas about concatenation): the calls they begin with
  are acknowledgements, `Lead` of them, the next asks for a value, and only the fault injection
  demo sends `FAULT_MEM`, behind its `STOP`. `Following` says where in its script a session stands.
  The invariant (`FaultsFollowStops`) is about the commands that are still on the line: before
  each `FAULT_MEM` of a shipped script a `STOP` is ahead of it with no `START` in between, or the
  core is stopped and no `START` is ahead (`Stopped`). It says the same of every script that stops
  the core before it goes on (`Halting`, from its call `StopAt` on), the test cases among them. The
  `STOP` cannot have been garbled by half a line of a killed session, because these scripts have sent
  words of a program before it.
* `ValuesAreOwn`: `Spec => []ValuesBelong`, under `BacklogFits`: no more lines are under way when a
  session is opened (`MaxBacklog`) than the script has acknowledgements at its beginning. This hypothesis is
  what the property rests on, in the model as in the code. What other sessions left lies in front of
  what this one sent, at most as far as there are acknowledgements still to be taken
  (`OthersFirst`); a value of this session is the answer to its last command and the last thing
  under way (`ValuesLast`), because all that it sent before were acknowledgements; so once a value was
  accepted nothing else is under way (`Alone`), and the next test case of `execute_tests.py` begins with
  an empty line. A data abort and a restart lose lines and so only move the others forward.

* `TestsAreSetUp`: `Spec => []TestStartsClean`, under `AreasApart`: no word of a test case's program
  is at the address of a word of its data, and the boot address is a number. The code puts the data at
  the base of the block RAM and the program 0x1000 above it (`execute_tests.py:33`), and no test of the
  repository has more than fourteen words of data; with areas that overlap the set-up would
  write data over the program and the property would be false. Which call of the script is where is
  said by `TestPlaced` (`SetsUpSo`, `ComparesSo` and the places `ClearAt` ... `WordsAt`). The invariant
  (`SetUpInv`): in a session that found nothing under way at most one command is (`Quick`), so
  that a call is carried out before the next is sent; and what the calls so far have written
  is in effect (`InEffect`), a word as far as no later call writes it again (`Written`). While
  a call is waited for, its command on the line comes upon all that the calls before it did, and an
  `OK` that is on its way vouches for its own effect as well (`Prepared`). Registers stay cleared
  because the first call is a `STOP`: nothing executes behind it. `CleanStart` draws the
  conclusion; there `AreasApart` is used.
* `ReportsAreTrue`: `Spec => []VerdictsAreTrue`, under `BacklogFits`, whatever was left over within that
  bound, and also for sessions that a restart of the worker falls into. The
  invariant (`VerdictInv`) adds to those of the two theorems before: what a test case has
  reported after n calls is what the comparisons among them find wrong in the worker *as it is
  now* (`Judged`, `Wrongs`). This survives every later step because the core stands still: past its
  set-up a test case has stopped the core (`FaultsFollowStops`), its single steps are over when
  the first value is compared, and the commands of the comparisons only read
  (`WrongsStay`, `StillWaits`). The value on its way back is the one a comparison asked for because
  nothing else is under way once a value was accepted (`Alone`).

The action descriptors (`Closing`, `Sending`, `Taking`, `Answering`, ...) say of each step what it does to
session, lines and the core's stall; `StepsSo` shows that every step of the specification is one of
them, and the preservation lemmas (`FollowsOn`, `FormedOn`, `FaultsOn`, `OthersOn`, `ValuesOn`,
`AloneOn`, `QuickOn`, `SetUpDoneOn`, `VerdictsOn`) have one case for each. The constants of the `link` run
satisfy both hypotheses, and TLC checked each of the invariants with them before it was proved.

### The tools

`BuildProofs.tla`, for every set of cores, contents, boards and firmware; the assumption on the names says
that no core is called `pl`, `ps`, `scripts` or `firmware`, the other digests and sources that the
model keeps beside those of the cores, and that two cores have no content in common:

* `BuildTypeCorrect` (`BuildTypeOK`) and `FreshIpsAreKept` (`FreshIpIsNotRebuilt`), without a hypothesis.
* `SkipsFresh` (`SkipsAreFresh`) and `CompletedFresh` (`CompletedBuildIsFresh`), under `OneBoard`: the
  repository's `hardware.json` names one board. With two the properties fail, because no digest
  covers the board (section 8).

The invariant ties each digest to the artifact it vouches for: outside of `doubtful`, a digest
that is stored describes what its artifact was made of (`IpAgrees`, `PlAgrees`), and a job that is
under way knows which contents its tool has read (`IpUnderWay`, `IpDone`, `PlUnderWay`,
`PsUnderWay`); `History` says that a disturbance is the only way into `doubtful`.

`SimulationProofs.tla`, for any number of terminals, all options, cores, benches and programs that come and
go (there are finitely many of both, and `none`, which stands for an unset environment
variable, is not the name of a core):

* `ProgramsTypeCorrect` (`ProgramsTypeOK`), `RequestedTestsRun` (`TestsAsRequested`), `BenchesMatch`
  (`BenchMatchesBuild`).

The invariant: what a launch resolved is what was asked for and never changes (`OptionsFit`). A text
has authors (`Authored`): all but one of them were interrupted, each of its values comes from one
of them, and the text of a single author is what that launch resolved. The file, when it can be
read, is such a text, and so is what is left of one at the end of a torn file (`ConfigInv`):
the next interrupt may write a beginning in front of it, which adds an author (`SplicedText`, `MixedText`).
A runner has read such a text, and the tests it has run and those on its list are together the
text's (`RunFits`). Each build directory holds what its name says, and who writes to it builds that or
was interrupted (`DirsInv`). Two lemmas are about data: `ListOfSet` (the runner's list holds each test of
the file and nothing else) and `SelectionAsked` (the loop over the names that ends at the first `all`
selects what the names mean in any order).

### What is left to TLC

* Liveness under fairness (`core_live`, `control_live`, `worker_live`, `SessionsEnd`): ENABLED and
  fairness are out of the prover's reach.
* `LoadsTheImage` and `BenchesPass`: the first is about concatenations of lists of any length, whose
  values need induction over data; the second compares 32 bit words bit by bit.
* `WorkerLink`'s `TypeOK`: the value FAULT_MEM writes is a sum over the bits of a word, whose range needs
  the same induction.

## 7. Reading the refinement of `DebugCore`

A store takes effect when the slave commits it, some cycles before the core moves on, so
`CoreSystem` maps the abstract pc to pc + 4 (`DebugPc`) from the commit on (`StoreDone`); every other
instruction takes effect at its NEXT_PC transaction, where pc and destination register change in
the same cycle. The abstract mode (`DebugMode`) is `run` while the stall is low, `halted` when the
next pc is held or only the end of a committed store is left, `finish` in between. `Stop` may
therefore happen in the middle of an instruction, but `SetPc` and `SetRegister` only in `halted`.

## 8. Reading the properties of the software

* `SkipsAreFresh` and `CompletedBuildIsFresh` except what the code cannot know: a source edited
  while a stage that reads it is built (`InDoubt`), and a stage whose last run did not finish. A later
  undisturbed build of that stage lifts the exception. The violated `ip_change` shows one
  consequence of the first.
* `OneReplyPerCommand` counts: lines under way, plus the command the firmware is executing, are what
  the session found plus the command it waits for. It makes the client's lock step exact, and with
  it says that a session cannot catch up with leftovers either.
* `ValuesBelong` and `VerdictsAreTrue` say why the lock step without sequence numbers is
  nevertheless safe for the shipped scripts: leftovers shift replies, but an acknowledgement is
  never accepted as a value nor a value as an acknowledgement, so a shifted session ends before it
  uses a value. Both hold for sessions under which the worker restarted as well. A verdict is about
  the worker as it is when the test case ends: after a restart nobody noticed it answers as if
  nothing had happened, and a test may fail for that (`TestStartsClean` leaves such sessions out).
* `FaultsAreAtomic` is about commands sent by the shipped scripts; a user may inject a fault into
  memory under a running core, and the store can be lost.
* A write to register 0 or a fault in it ends like an access to an address nobody answers at: the
  control module refuses it (SLVERR), which is a data abort at the processing system, while `main.c`
  and the client let 0 through. The worker is silent from then on.
* `Reboot` is one step although `cm_core_stop` and `cm_pc_set` (`main.c:89-90`) are two bus writes. Between
  them nothing else uses the bus and nothing is read from the UART; the core can only finish the
  instruction it is at, which may take the place of the pc that is written, and this is one of the
  step's outcomes.
* `LoadsTheImage` says what `rv322coe.py` does with any image: the whole words of all sections one
  after the other (it closes gaps and drops a tail of less than four bytes without a message). While
  a conversion is under way, or after one that failed or was killed, what a test loads is the
  beginning of one image, perhaps with half a word at its end.
* `TestsAsRequested` has an exception that the code makes necessary. A launch that is interrupted in
  `json.dump` (`build.py:355-356`) still closes its file, and with it flushes the beginning of its text over
  what another launch has written since; where names are of the same length the result is a
  valid file that mixes the two. The property bounds the damage: only an interrupt does it, every
  test and option of such a run was asked for by one of the launches that wrote the file, and what
  was read is what is run. A file without one of the four keys is as good as none to the runner. A
  launch that is not interrupted leaves at worst the end of a longer text behind its own, which is
  no JSON.
* `BenchMatchesBuild`: the directories keep cores and tests apart. They do not keep apart two launches
  for the same core and test, where `always=True` builds into a directory that the other launch may be
  about to simulate from: the property says that this, or an interrupted build of the same, is the
  only way to find it half written (the outcome `no simulation`).

Smaller observations, none of which is a property: the firmware has no RESET although
`docs/uart_protocol.md` documents one; the PS stage looks for its artifact where no tool puts it
(`riscv_build_utils.py:404`) and is built every time; no digest covers the
board a block design was made for, which shows once `hardware.json` lists a second one (it lists
one, and so does the `build` run); the check for an empty `.coe` file
(`rv322coe.py:103`) compares with less than the header's length and can never fail; `build.py`
ignores the result of pytest; the comment that a stop "effectively blocks the clock signal"
(`soc_control.v:20`) holds for the fetch of the next instruction only.

## 9. Hazards

`PROJECT.json` lists them with the line where they bite, and says where a property covers a hazard
only in part: writes that collide with a running core (`HostPaced` excludes them), a test that goes
on after an unnoticed restart, a run mixed by an interrupt. Two do not lead to a violation but are worth
a reader's attention: a misaligned load returns stale data (the abstract machine allows any
value), and a partial write to the pc is carried out although it is refused
(`WriteHasItsEffectOnce` says so).

## 10. Not modelled

* `axi_memory_mock.v`: a slave of two test benches. Whether it serves the arbiter's stores is a
  question about the mock; the slave of the runs is weaker in its timing and latches its address.
* The tcl scripts beyond "a directory appears, whole or torn": generated block design, Vivado calls.
* The cocotb benches beyond what `tb_utils` computes for them; `resets.py` (drives a pin) and
  `logging.py` (formatting); `read_words_from_text`, which no script calls.
* Parsing and printing of numbers on the UART, prompts and messages, argument parsers.
* Verilog below the clock edge (metastability, asynchronous reset release), vendor IP, caches of the
  processing system.
