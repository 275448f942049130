---------------------------- MODULE RegisterFile ----------------------------
(***************************************************************************)
(* register_file.v: the register array with its one write port, which the  *)
(* core's write-back, the control module's writes and the injected faults  *)
(* share by priority, and the registered read port of the control module.  *)
(*                                                                         *)
(* The inputs of a clock edge are two records:                             *)
(*   wb  enable, addr, data                      (write-back of the core)  *)
(*   cm  regfile_addr, regfile_we, regfile_write_data,                     *)
(*       fault_enable, fault_addr, fault_mode, fault_mask                  *)
(***************************************************************************)
EXTENDS Datapath

VARIABLES
  registers,         \* the array without x0
  extra_read_data

rf_vars == <<registers, extra_read_data>>

RfTypeOK ==
  /\ registers \in [RegIdx \ {0} -> Word]
  /\ extra_read_data \in Word

RfInit ==
  /\ registers = [i \in RegIdx \ {0} |-> 0]
  /\ extra_read_data = 0

RfReset ==
  /\ registers' = [i \in RegIdx \ {0} |-> 0]
  /\ extra_read_data' = 0

-----------------------------------------------------------------------------
\* The three requests, highest priority first; a request to x0 is none.
CoreWrites(wb)  == wb.enable /\ wb.addr # 0
ExtraWrites(cm) == cm.regfile_we /\ cm.regfile_addr # 0
FaultWrites(cm) == cm.fault_enable /\ cm.fault_addr # 0

WriteBack(wb) ==
  /\ CoreWrites(wb)
  /\ registers' = [registers EXCEPT ![wb.addr] = wb.data]

ExtraWrite(wb, cm) ==
  /\ ~CoreWrites(wb) /\ ExtraWrites(cm)
  /\ registers' = [registers EXCEPT ![cm.regfile_addr] = cm.regfile_write_data]

FaultWrite(wb, cm) ==
  /\ ~CoreWrites(wb) /\ ~ExtraWrites(cm) /\ FaultWrites(cm)
  /\ registers' = [registers EXCEPT ![cm.fault_addr] =
                     InjectedValue(cm.fault_mode, @, cm.fault_mask)]

NoWrite(wb, cm) ==
  /\ ~CoreWrites(wb) /\ ~ExtraWrites(cm) /\ ~FaultWrites(cm)
  /\ UNCHANGED registers

RegisterFileTick(wb, cm) ==
  /\ WriteBack(wb) \/ ExtraWrite(wb, cm) \/ FaultWrite(wb, cm) \/ NoWrite(wb, cm)
  /\ extra_read_data' = ReadRegister(registers, cm.regfile_addr)
=============================================================================
