--------------------------- MODULE LoadStoreLanes ---------------------------
(***************************************************************************)
(* load_store_decoder.v and byte_reader.v: which byte lanes of a word an   *)
(* access touches, and how a value moves between register and lanes.  A    *)
(* lane holds LANE values (256 in the code), a word four lanes.            *)
(***************************************************************************)
EXTENDS Integers, FiniteSetsExt

CONSTANT LANE

F3_BYTES == {0, 4}     \* F3_BYTE, F3_BYTE_U
F3_HALFS == {1, 5}     \* F3_HALF_WORD, F3_HALF_WORD_U
F3_WORD  == 2

byte_enb(func3, offset) ==
  CASE func3 \in F3_BYTES -> {offset}
    [] func3 \in F3_HALFS /\ offset \in {0, 2} -> {offset, offset + 1}
    [] func3 = F3_WORD /\ offset = 0 -> 0 .. 3
    [] OTHER -> {}

\* Where byte_enb is empty the code leaves the data to a latch; no lane of it
\* is ever written.
store_data(func3, offset, reg_read) ==
  CASE func3 \in F3_BYTES -> (reg_read % LANE) * LANE ^ offset
    [] func3 \in F3_HALFS /\ offset \in {0, 2} -> (reg_read % LANE ^ 2) * LANE ^ offset
    [] OTHER -> reg_read

-----------------------------------------------------------------------------
Lane(word, i) == (word \div LANE ^ i) % LANE

masked_data(byte_mask, mem_data) ==
  LET part(i) == IF i \in byte_mask THEN Lane(mem_data, i) * LANE ^ i ELSE 0
  IN part(0) + part(1) + part(2) + part(3)

\* The low n lanes of v, their sign repeated in the lanes above.
sign_extend(v, n) ==
  LET low == v % LANE ^ n
  IN IF low >= LANE ^ n \div 2 THEN (LANE ^ 4 - LANE ^ n) + low ELSE low

\* The case statement on byte_mask has no default: with no lane enabled
\* shifted_data keeps what an earlier access left in the latch.
shifted_values(func3, byte_mask, mem_data) ==
  CASE func3 = F3_WORD -> {masked_data(byte_mask, mem_data)}
    [] func3 # F3_WORD /\ byte_mask # {} ->
         {masked_data(byte_mask, mem_data) \div LANE ^ Min(byte_mask)}
    [] OTHER -> 0 .. (LANE ^ 4 - 1)

wb_values(func3, byte_mask, mem_data) ==
  LET shifted == shifted_values(func3, byte_mask, mem_data)
      lanes   == IF func3 \in F3_BYTES THEN 1 ELSE 2
  IN CASE func3 = F3_WORD -> shifted
       [] func3 \in {0, 1} -> {sign_extend(v, lanes) : v \in shifted}
       [] func3 \in {4, 5} -> shifted
       [] OTHER -> 0 .. (LANE ^ 4 - 1)      \* no case item: wb_data is a latch
=============================================================================
