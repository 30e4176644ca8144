------------------------------ MODULE Bytecode ------------------------------
(***************************************************************************)
(* The byte code of the contract virtual machine: the opcodes that the     *)
(* validator or the machine tells apart, the argument types with their     *)
(* sizes, and Function::find_block_len, the scan with which the machine    *)
(* finds the end of a block before it jumps over it.                       *)
(*                                                                         *)
(* A block of code is a sequence of bytes.  Addresses count from 0, as in  *)
(* the code.                                                               *)
(***************************************************************************)
EXTENDS Integers, Sequences, FiniteSets, SequencesExt, FiniteSetsExt

Halt == 0
Nop == 1
Begin == 2
Loop == 3
If == 4
Else == 5
End == 6
Break == 7
BreakIf == 8
Return == 9
Call == 10
PushLocal == 11
PopLocal == 12
PickLocal == 13
PushOperand == 15
PopOperand == 16
PickOperand == 17
i32Load == 21
i64Load == 22
f32Load == 23
f64Load == 24
i32Load8Signed == 25
i32Load8Unsigned == 26
i32Load16Signed == 27
i32Load16Unsigned == 28
i64Load8Signed == 29
i64Load8Unsigned == 30
i64Load16Signed == 31
i64Load16Unsigned == 32
i64Load32Signed == 33
i64Load32Unsigned == 34
i32Store8 == 39
i32Store16 == 40
i64Store8 == 41
i64Store16 == 42
i64Store32 == 43
Add == 48
Eqz == 74
Eq == 75
Suicide == 255

CT_FLOW_OPS == {Begin, Loop, If, Else}
COMP_OPS == 74 .. 84
Loads == i32Load .. i64Load32Unsigned
Stores == 35 .. i64Store32

\* The opcodes that may follow an instruction by default: every instruction
\* but the ones that need a block of their own, the peeks, the array
\* operations, the constants and AssetInfo and CreateUnique.
OPS_LIST ==
  UNION {Halt .. End, Return .. PickLocal, PushOperand .. 84,
         134 .. 160, 241 .. Suicide}
    \ {Else, 18, 45, 46, 47, 142, 158, 248}

\* VmType::from_op on the argument types of at most eight elements.
TypeOps ==
  [b \in {96, 97, 98, 99, 100, 101, 102, 109, 110, 111, 118, 119, 120,
          126, 127, 128} |->
     CASE b = 96 -> "I32" [] b = 97 -> "I64" [] b = 98 -> "F32"
       [] b = 99 -> "F64" [] b = 100 -> "i32Array2" [] b = 101 -> "i32Array4"
       [] b = 102 -> "i32Array8" [] b = 109 -> "i64Array2"
       [] b = 110 -> "i64Array4" [] b = 111 -> "i64Array8"
       [] b = 118 -> "f32Array2" [] b = 119 -> "f32Array4"
       [] b = 120 -> "f32Array8" [] b = 126 -> "f64Array2"
       [] b = 127 -> "f64Array4" [] b = 128 -> "f64Array8"]

IsType(b) == b \in DOMAIN TypeOps

byte_size(t) ==
  CASE t \in {"I32", "F32"} -> 4
    [] t \in {"I64", "F64", "i32Array2", "f32Array2"} -> 8
    [] t \in {"i32Array4", "i64Array2", "f32Array4", "f64Array2"} -> 16
    [] t \in {"i32Array8", "i64Array4", "f32Array8", "f64Array4"} -> 32
    [] t \in {"i64Array8", "f64Array8"} -> 64

\* Bits::get of the bitvec crate, which refuses a position past the byte.
BitInByte(i) == i < 8
Bit(mask, i) == (mask \div (2 ^ i)) % 2 = 1

At(code, i) == code[i + 1]
Inside(code, i) == i < Len(code)

-----------------------------------------------------------------------------
(***************************************************************************)
(* Function::find_block_len.  The scan starts at the opcode of a block and *)
(* keeps a count of the blocks that are open.  It steps over the arguments *)
(* of the instructions listed in ArgumentLen; the argument bytes of every  *)
(* other instruction are read as instructions of their own ("TODO: Account *)
(* offset and length for any instruction that receives args").             *)
(***************************************************************************)
\* The argument bytes of PushLocal and PushOperand: arity, bitmask, and for
\* each argument its type and then either its inline bytes or one pop.
PushLen(code, i) ==
  LET arity == At(code, i + 1)
      inline(j) == byte_size(TypeOps[At(code, i + 3 + j)])
      size(j) == IF Bit(At(code, i + 2), j) THEN 1 ELSE inline(j)
  IN  2 + arity + MapThenSumSet(size, 0 .. (arity - 1))

\* The reads of a push that the scan steps over succeed: they stay in the code,
\* name a type, and ask for the first eight bits of the mask only.
PushReads(code, i) ==
  At(code, i) \in {PushLocal, PushOperand} =>
    /\ Inside(code, i + 2)
    /\ At(code, i + 1) <= 8
    /\ \A j \in 1 .. At(code, i + 1) :
         Inside(code, i + 2 + j) /\ IsType(At(code, i + 2 + j))

\* Mutant: the scan reads the arguments of a push as instructions.
ArgumentLen_no_push(code, i) ==
  CASE At(code, i) = If -> 2
    [] At(code, i) \in {Begin, Loop, Else, Return} -> 1
    [] At(code, i) \in {PickLocal, Call} -> 2
    [] OTHER -> 0

ArgumentLen(code, i) ==
  CASE At(code, i) = If -> 2
    [] At(code, i) \in {Begin, Loop, Else, Return} -> 1
    [] At(code, i) \in {PickLocal, Call} -> 2
    [] At(code, i) \in {PushLocal, PushOperand} -> PushLen(code, i)
    [] OTHER -> 0

\* The address after the End that closes the block, or -1 when the scan
\* panics, as it does when it runs off the end of the code.
RECURSIVE ScanBlock(_, _, _)
ScanBlock(code, i, open) ==
  IF ~ Inside(code, i) \/ ~ PushReads(code, i) THEN -1
  ELSE LET next == i + 1 + ArgumentLen(code, i)
       IN  CASE At(code, i) = End /\ open = 1 -> next
             [] At(code, i) = End -> ScanBlock(code, next, open - 1)
             [] At(code, i) \in CT_FLOW_OPS -> ScanBlock(code, next, open + 1)
             [] OTHER -> ScanBlock(code, next, open)

\* fetch_block_len accepts only the opcode of a block; 0 stands for a panic.
fetch_block_len(code, i) ==
  IF ~ Inside(code, i) \/ At(code, i) \notin CT_FLOW_OPS THEN 0
  ELSE LET end == ScanBlock(code, i, 0) IN IF end = -1 THEN 0 ELSE end - i

=============================================================================
