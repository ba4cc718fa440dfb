----------------------------- MODULE ChunkSplit -----------------------------
(***************************************************************************)
(* _split_xkt_chunks of tasks/ifc.py, of which split_binary_chunks of      *)
(* tasks/common.py (glTF, STEP, OBJ, STL) is the case of one file: a file  *)
(* over the limit is cut into parts, numbered in the order of their bytes. *)
(* Viewers load the parts in the order of the list.  Bytes are positions.  *)
(***************************************************************************)
EXTENDS Naturals, Sequences

CONSTANTS
    Sizes,      \* sizes of the files that a conversion produces
    MaxFiles,   \* bound: files produced by one conversion
    MaxBytes    \* XKT_CHUNK_MAX_BYTES, GLTF_CHUNK_MAX_BYTES

ASSUME SplitOK == /\ Sizes \subseteq Nat
                  /\ MaxFiles \in Nat
                  /\ MaxBytes \in Nat \ {0}

VARIABLES
    outputs,    \* the sizes of the files to split
    file,       \* the file the loop has come to
    from,       \* bytes of it that have been read
    parts       \* the list to return: file, first byte and size of each part

splitVars == <<outputs, file, from, parts>>

Part == [file : Nat, from : Nat, size : Nat]

SplitTypeOK ==
    /\ outputs \in Seq(Sizes)
    /\ file \in 1 .. Len(outputs) + 1
    /\ from \in Nat
    /\ parts \in Seq(Part)

SplitInit ==
    /\ outputs \in UNION {[1 .. n -> Sizes] : n \in 0 .. MaxFiles}
    /\ file = 1
    /\ from = 0
    /\ parts = <<>>

AddPart(size) ==
    parts' = Append(parts, [file |-> file, from |-> from, size |-> size])

NextFile == file' = file + 1 /\ from' = 0

(* Mutant: the limit of the other formats, 32 MB instead of 16 MB.         *)
FitsOther(size) == size <= 2 * MaxBytes
Fits(size)      == size <= MaxBytes

keep_whole ==
    /\ file <= Len(outputs)
    /\ Fits(outputs[file])
    /\ AddPart(outputs[file])
    /\ NextFile
    /\ UNCHANGED outputs

(* fh.read(max_bytes): all that is left, or max_bytes of it.  Mutant: a    *)
(* part that is not full is dropped.                                       *)
ReadFull(left) == IF left < MaxBytes THEN 0 ELSE MaxBytes
Read(left)     == IF left < MaxBytes THEN left ELSE MaxBytes

read_part ==
    LET n == Read(outputs[file] - from) IN
    /\ file <= Len(outputs)
    /\ ~ Fits(outputs[file])
    /\ IF n = 0
       THEN NextFile /\ UNCHANGED parts
       ELSE AddPart(n) /\ from' = from + n /\ UNCHANGED file
    /\ UNCHANGED outputs

SplitNext == keep_whole \/ read_part

SplitSpec == SplitInit /\ [][SplitNext]_splitVars

-----------------------------------------------------------------------------
(* Where the bytes after part p begin.                                     *)
EndOf(p) == IF p.from + p.size = outputs[p.file]
            THEN [file |-> p.file + 1, from |-> 0]
            ELSE [file |-> p.file, from |-> p.from + p.size]

StartOf(n) == IF n = 1 THEN [file |-> 1, from |-> 0] ELSE EndOf(parts[n - 1])

(* The parts, put together in the order of the list, are the files: none   *)
(* of their bytes is lost, repeated or out of order, whatever their sizes. *)
PartsJoin ==
    /\ \A n \in 1 .. Len(parts) :
          /\ parts[n].file = StartOf(n).file
          /\ parts[n].from = StartOf(n).from
    /\ file > Len(outputs) =>
          StartOf(Len(parts) + 1) = [file |-> Len(outputs) + 1, from |-> 0]

(* No part exceeds the limit, and only an empty file makes an empty part.  *)
PartsFit ==
    \A n \in 1 .. Len(parts) :
        /\ parts[n].size <= MaxBytes
        /\ parts[n].size = 0 => outputs[parts[n].file] = 0
=============================================================================
