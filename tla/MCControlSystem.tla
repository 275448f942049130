--------------------------- MODULE MCControlSystem ---------------------------
EXTENDS ControlSystem

\* Legal and illegal requests of every component.
Req(sel, reg, mode, byte) == [sel |-> sel, reg |-> reg, mode |-> mode, byte |-> byte]

MCReadRequests ==
  {Req(1, CTRL_REG_STATUS, 0, 0), Req(1, CTRL_REG_START, 0, 0), Req(1, CTRL_REG_STEP, 0, 0),
   Req(1, CTRL_REG_PC, 0, 0), Req(1, CTRL_REG_DBG_VECTOR, 0, 0), Req(1, CTRL_REG_PC, 0, 1),
   Req(2, 0, 0, 0), Req(2, 31, 0, 0), Req(2, 32, 0, 0), Req(2, 3, 0, 2),
   Req(3, 3, 0, 0), Req(7, 0, 0, 0)}

MCWriteRequests ==
  {Req(1, CTRL_REG_STATUS, 0, 0), Req(1, CTRL_REG_START, 0, 0), Req(1, CTRL_REG_STOP, 0, 0),
   Req(1, CTRL_REG_STEP, 0, 0), Req(1, CTRL_REG_PC, 0, 0), Req(1, CTRL_REG_STEP, 0, 2),
   Req(2, 0, 0, 0), Req(2, 31, 0, 0), Req(2, 32, 0, 0), Req(2, 3, 0, 1),
   Req(3, 0, 1, 0), Req(3, 31, 2, 0), Req(3, 3, 3, 0), Req(3, 33, 0, 0),
   Req(3, 3, 4, 0), Req(7, 0, 0, 0)}

MCWriteData == {[data |-> 9, strobe |-> 0 .. 3], [data |-> 9, strobe |-> {0}]}

MCCoreInputs ==
  {[pc_read_data |-> 8, regfile_read_data |-> 5, core_debug_vector |-> 3],
   [pc_read_data |-> 12, regfile_read_data |-> 6, core_debug_vector |-> 4]}

\* A few requests, to run against all of the other direction.
FewReads  == {Req(1, CTRL_REG_PC, 0, 0)}
FewWrites == {Req(1, CTRL_REG_STEP, 0, 0), Req(2, 32, 0, 0)}
FullData  == {[data |-> 9, strobe |-> 0 .. 3]}
OneInput  == {[pc_read_data |-> 8, regfile_read_data |-> 5, core_debug_vector |-> 3]}
=============================================================================
