---------------------------- MODULE Rv32iParams ----------------------------
(***************************************************************************)
(* Sizes and data types shared by the core and its control module          *)
(* (rv32i_params.vh, axi_configuration.vh, cm_commands.vh).                *)
(***************************************************************************)
EXTENDS Integers, FiniteSets

CONSTANTS
  WORD_SIZE,            \* number of values of a register (2^32 in rv32i_params.vh)
  NUM_REGISTERS         \* registers x0 .. x(NUM_REGISTERS-1)

ASSUME SizesAssumption ==
  /\ WORD_SIZE \in Nat /\ WORD_SIZE > 4
  /\ NUM_REGISTERS \in Nat /\ NUM_REGISTERS > 1

Word      == 0 .. (WORD_SIZE - 1)
RegIdx    == 0 .. (NUM_REGISTERS - 1)
FaultMode == 0 .. 3
Strobe    == SUBSET (0 .. 3)     \* the byte lanes a write enables
=============================================================================
