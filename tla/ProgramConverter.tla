--------------------------- MODULE ProgramConverter ---------------------------
(***************************************************************************)
(* rv322coe.py turns one test program's program.S into program.hex, a word *)
(* per line, most significant byte first; tb_utils/rv32i/memory.py reads   *)
(* it back.  The toolchain (as, ld, objcopy) is outside the repository: it *)
(* maps a version of the source to an image, or fails.                     *)
(*                                                                         *)
(* The intermediate files are read only by the run that wrote them, and    *)
(* the .coe file is deleted by the run that wrote it: they are left out.   *)
(***************************************************************************)
EXTENDS SequencesExt, Integers

CONSTANTS
  Versions,      \* contents of program.S
  Committed,     \* the version in the repository, with its program.hex
  Image,         \* version -> its sections in the order of their addresses, [at, bytes]
  MaxEdits, MaxConversions  \* bounds

ASSUME ConverterAssumption == Committed \in Versions

NoFile    == "no file"
Lines     == 16              \* bytes in a line of objcopy -O verilog
NoWords   == [words |-> <<>>, torn |-> FALSE]

VARIABLES
  source,     \* program.S: a version, or NoFile
  hex,        \* program.hex: the words of its whole lines; torn: half a line after them
  converter,  \* [at, of: the version that was assembled]
  made,       \* the version the present program.hex was completely made from, or NoFile
  edits, conversions

converter_vars == <<source, hex, converter, made, edits, conversions>>

-----------------------------------------------------------------------------
\* objcopy: an address line before each section, then its bytes, 16 in a line.
Chunks(bytes) ==
  [i \in 1 .. (Len(bytes) + Lines - 1) \div Lines |->
     SubSeq(bytes, (i - 1) * Lines + 1, IF i * Lines < Len(bytes) THEN i * Lines ELSE Len(bytes))]
VerilogHex(sections) ==
  FlattenSeq([s \in DOMAIN sections |-> <<"@">> \o Chunks(sections[s].bytes)])

\* Four bytes at a time, reordered; fewer than four at the end of a line are dropped.
WordsOfLine(bytes) ==
  [i \in 1 .. Len(bytes) \div 4 |-> Reverse(SubSeq(bytes, 4 * i - 3, 4 * i))]

\* Address lines are skipped: every word follows the one before it.
Words(version) ==
  LET lines == SelectSeq(VerilogHex(Image[version]), LAMBDA l : l # "@")
  IN FlattenSeq([l \in DOMAIN lines |-> WordsOfLine(lines[l])])

\* read_program_from_file: int(line, 16).to_bytes(4, "little").  Half a line is read as
\* the number its digits make, four bytes that are no word of the image.
HalfWord == <<-1, -1, -1, -1>>
read_program_from_file(file) ==
  [i \in DOMAIN file.words |-> Reverse(file.words[i])] \o (IF file.torn THEN <<HalfWord>> ELSE <<>>)

-----------------------------------------------------------------------------
NotConverting == [at |-> "idle", of |-> NoFile]

ConverterInit ==
  /\ source = Committed /\ made = source
  /\ hex = [words |-> Words(source), torn |-> FALSE]
  /\ converter = NotConverting /\ edits = 0 /\ conversions = 0

\* The developer edits, adds or removes program.S.
EditSource ==
  /\ edits < MaxEdits /\ edits' = edits + 1
  /\ source' \in (Versions \cup {NoFile}) \ {source}
  /\ UNCHANGED <<hex, converter, made, conversions>>

\* The file is checked before anything is run.
Execute ==
  /\ converter.at = "idle" /\ source # NoFile
  /\ conversions < MaxConversions /\ conversions' = conversions + 1
  /\ converter' = [at |-> "make_o", of |-> NoFile]
  /\ UNCHANGED <<source, hex, made, edits>>

\* The three commands; each may fail, which is a RuntimeError.
RunCommand ==
  /\ \/ converter.at = "make_o" /\ source # NoFile /\ converter' = [at |-> "make_elf", of |-> source]
     \/ converter.at = "make_elf" /\ converter' = [converter EXCEPT !.at = "make_hex"]
     \/ converter.at = "make_hex" /\ converter' = [converter EXCEPT !.at = "convert"]
  /\ UNCHANGED <<source, hex, made, edits, conversions>>

\* open(file_hex, "w") empties the old file.
OpenOutputs ==
  /\ converter.at = "convert" /\ converter' = [converter EXCEPT !.at = "write"]
  /\ hex' = NoWords /\ made' = NoFile
  /\ UNCHANGED <<source, edits, conversions>>

\* Buffered words reach the file in blocks that need not end at a line's end.
Flush ==
  /\ converter.at = "write"
  /\ \E n \in Len(hex.words) .. Len(Words(converter.of)), torn \in BOOLEAN :
       /\ torn => n < Len(Words(converter.of))
       /\ hex' = [words |-> SubSeq(Words(converter.of), 1, n), torn |-> torn]
  /\ hex' # hex
  /\ UNCHANGED <<source, converter, made, edits, conversions>>

\* Mutant: success is reported before the files are closed.
CloseOutputs_Early ==
  /\ converter.at = "write" /\ converter' = NotConverting
  /\ made' = IF Words(converter.of) = <<>> THEN NoFile ELSE converter.of
  /\ UNCHANGED <<source, hex, edits, conversions>>

\* Without an instruction the run fails, and the emptied file stays; a .coe file with one
\* is larger than the 50 bytes that are asked for.
CloseOutputs ==
  /\ converter.at = "write" /\ converter' = NotConverting
  /\ hex' = [words |-> Words(converter.of), torn |-> FALSE]
  /\ made' = IF Words(converter.of) = <<>> THEN NoFile ELSE converter.of
  /\ UNCHANGED <<source, edits, conversions>>

\* A command fails, a file cannot be written, or the process is killed.
Fail ==
  /\ converter.at # "idle" /\ converter' = NotConverting
  /\ UNCHANGED <<source, hex, made, edits, conversions>>

ConverterStep == Execute \/ RunCommand \/ OpenOutputs \/ Flush \/ CloseOutputs \/ Fail \/ EditSource
=============================================================================
