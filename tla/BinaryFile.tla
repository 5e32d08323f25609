------------------------------- MODULE BinaryFile -------------------------------
(***************************************************************************)
(* machine/binary.c: the data section and the first code block of a binary   *)
(* written to a file and loaded back, cell by cell, by counting bytes.  The  *)
(* data section is the MemoryArray the compiler filled.                      *)
(***************************************************************************)
EXTENDS MemoryArray, Sequences

CONSTANTS
  Blocks,      (* the code blocks of the binary, each a sequence              *)
  Bytes,       (* what a string is made of                                    *)
  Nul, Wild    (* the byte that ends a string; contents nobody set            *)

(* context_create and binary_load create their array with one cell, a C       *)
(* string ends before its first Nul.                                          *)
ASSUME BinaryFileAssumption ==
  /\ Size = 1
  /\ \A v \in Values : v = [type |-> v.type, contents |-> v.contents]
  /\ \A v \in Values : v.type = "STRING" => v.contents \in Seq(Bytes \ {Nul})

VARIABLES
  phase,       (* "compiling", "written", "loading", "loaded"                 *)
  file,        (* what binary_write left on disk                              *)
  loaded       (* what binary_load has so far                                 *)

vars == <<mem, used, phase, file, loaded>>
-------------------------------------------------------------------------------
(* packed_memory_value_t is 5 bytes long, the header 24.                     *)
Descriptor == 5
Header     == 24
(* Mutant: without the byte that ends a string.                              *)
PackedSizeBare(v) ==
  CASE v.type \in {"INT", "FLOAT"} -> 4
    [] v.type = "BOOLEAN" -> 1
    [] v.type = "STRING" -> Len(v.contents)
    [] OTHER -> 0
PackedSize(v) ==
  CASE v.type \in {"INT", "FLOAT"} -> 4
    [] v.type = "BOOLEAN" -> 1
    [] v.type = "STRING" -> Len(v.contents) + 1
    [] OTHER -> 0

(* A string is written from its first byte on, and read up to its first Nul. *)
Payload(v)  == IF v.type = "STRING" THEN SubSeq(Append(v.contents, Nul), 1, PackedSize(v)) ELSE v.contents
Packed(v)   == [type |-> v.type, size |-> PackedSize(v), payload |-> IF PackedSize(v) = 0 THEN Wild ELSE Payload(v)]
CString(s)  == IF \E i \in DOMAIN s : s[i] = Nul
                 THEN SubSeq(s, 1, (CHOOSE i \in DOMAIN s : s[i] = Nul /\ \A j \in 1..i - 1 : s[j] # Nul) - 1)
                 ELSE Wild
Unpacked(c) == [type |-> c.type, contents |-> IF c.type = "STRING" THEN CString(c.payload) ELSE c.payload]

(* Mutant: the descriptors are not counted.                                  *)
OffsetsPayload(m) ==
  LET offset[i \in 0..m.capacity] == IF i = 0 THEN 0 ELSE offset[i - 1] + PackedSize(m.contents[i - 1])
  IN  offset
(* Where each cell begins in the data section, and where the section ends.   *)
Offsets(m) ==
  LET offset[i \in 0..m.capacity] ==
        IF i = 0 THEN 0 ELSE offset[i - 1] + Descriptor + PackedSize(m.contents[i - 1])
  IN  offset
TotalSize(m) == Offsets(m)[m.capacity]
-------------------------------------------------------------------------------
NoFile   == [data_offset |-> 0, code_offset |-> 0, cells |-> <<>>, code |-> <<>>]
Unloaded == [data |-> MemoryCreate(1), at |-> 0, bytes_read |-> 0, code |-> <<>>]

BinaryInit == Init /\ phase = "compiling" /\ file = NoFile /\ loaded = Unloaded

Compile == phase = "compiling" /\ Next /\ UNCHANGED <<phase, file, loaded>>

(* binary_write: every cell of the array, used or not, and blocks[0].        *)
Write ==
  /\ phase = "compiling" /\ phase' = "written"
  /\ file' = [data_offset |-> Header, code_offset |-> Header + TotalSize(mem),
              cells |-> [i \in 0..mem.capacity - 1 |-> Packed(mem.contents[i])], code |-> Blocks[1]]
  /\ UNCHANGED <<mem, used, loaded>>

(* binary_load: the header, then a cell while there are bytes of the data    *)
(* section to read, then the code.                                           *)
Open == phase = "written" /\ phase' = "loading" /\ loaded' = Unloaded /\ UNCHANGED <<mem, used, file>>

MoreData == loaded.bytes_read < file.code_offset - file.data_offset
LoadCell ==
  /\ phase = "loading" /\ MoreData
  /\ LET cell == file.cells[loaded.at]
     IN  loaded' = [loaded EXCEPT !.data = MemorySet(@, loaded.at, Unpacked(cell)),
                                  !.at = @ + 1, !.bytes_read = @ + Descriptor + cell.size]
  /\ UNCHANGED <<mem, used, phase, file>>
LoadCode ==
  /\ phase = "loading" /\ ~ MoreData /\ phase' = "loaded"
  /\ loaded' = [loaded EXCEPT !.code = << file.code >>]
  /\ UNCHANGED <<mem, used, file>>

BinaryNext == Compile \/ Write \/ Open \/ LoadCell \/ LoadCode
BinarySpec == BinaryInit /\ [][BinaryNext]_vars
-------------------------------------------------------------------------------
(* What a file keeps of a value: numbers, truths and strings.  Of a tuple, a *)
(* function or a module only the type comes back (binary.c:169, TODO), its   *)
(* object a pointer nobody set.                                              *)
Kept(v) == IF PackedSize(v) = 0 THEN [v EXCEPT !.contents = Wild] ELSE v

(* The loader, which only counts bytes (binary.c:52), stays in step with the *)
(* cells: each comes back at its own address, none is split or skipped.      *)
LoadsWhatWasWritten ==
  phase \in {"loading", "loaded"} =>
    /\ loaded.at <= mem.capacity
    /\ \A a \in 0..loaded.at - 1 : MemoryGet(loaded.data, a) = Kept(mem.contents[a])

(* A loaded binary has the whole data section, in an array of the same size, *)
(* and the module-level code.                                                *)
RoundTrip ==
  phase = "loaded" =>
    /\ loaded.at = mem.capacity /\ loaded.data.capacity = mem.capacity
    /\ loaded.bytes_read = file.code_offset - Header
    /\ loaded.code = << Blocks[1] >>
===============================================================================
