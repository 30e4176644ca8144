--------------------------------- MODULE Vm ---------------------------------
(***************************************************************************)
(* The contract virtual machine, and the path of a block of code to it.    *)
(* Either a block is written byte by byte and checked by the validator, or *)
(* a module with several functions is loaded as it is (Vm::load asks for   *)
(* no validation).  Then the functions are executed, one instruction at a  *)
(* time, possibly several times on the same machine.                       *)
(*                                                                         *)
(* A value is a record of its type and, for the integers, its number.      *)
(* Floats and arrays are abstracted to their type: comparing two of them   *)
(* has both outcomes.  The number of an i64 is kept within 32 bits.        *)
(***************************************************************************)
EXTENDS Validator, TLC

CONSTANTS
  Instructions, \* what blocks are written from: opcodes with their arguments
  MaxOps,       \* instructions in a written block
  Modules,      \* modules that are loaded without validation
  MaxRuns,      \* executions of one machine
  MaxLoops      \* jumps back to the start of a loop in one execution

VARIABLES
  v,            \* the validator
  block,        \* the bytes written so far
  snap,         \* the validator before each of these bytes
  count,        \* the instructions among these bytes
  module,       \* what is loaded: functions, and the arguments of the call
  vm,           \* the machine
  past          \* the executions that are over: heap before, and outcome

vars == <<v, block, snap, count, module, vm, past>>

None == [funs |-> <<>>, argv |-> <<>>, validated |-> FALSE]
NoReturn == [ip |-> -1, fun |-> 0]

Init ==
  /\ v = new /\ block = <<>> /\ snap = <<>> /\ count = 0
  /\ module = None
  /\ vm = [st |-> "idle", why |-> "", ip |-> 0, fun |-> 0, calls |-> <<>>,
           ops |-> <<>>, heap |-> <<>>, loops |-> 0, stray |-> FALSE]
  /\ past = <<>>

-----------------------------------------------------------------------------
(***************************************************************************)
(* Writing and loading code.                                               *)
(***************************************************************************)
\* validate_block feeds the bytes one by one and gives up with the first one
\* that is refused.  Only blocks that can still be closed are gone on with.
Feed(w, b) ==
  IF w.v.state \in {"Invalid", "Valid"}
  THEN [v |-> push_op(w.v, b),
        snap |-> Append(w.snap, [frames |-> w.v.frames, next |-> w.v.next])]
  ELSE w

Write(instr) ==
  LET w == FoldLeft(Feed, [v |-> v, snap |-> snap], instr)
  IN  /\ module = None
      /\ v.state \in {"Invalid", "Valid"}
      /\ count + Len(w.v.frames) < MaxOps
      /\ v' = w.v
      /\ IF w.v.state \in {"Invalid", "Valid"}
         THEN block' = block \o instr /\ snap' = w.snap /\ count' = count + 1
         ELSE block' = <<>> /\ snap' = <<>> /\ count' = 0
      /\ UNCHANGED <<module, vm, past>>

Accept ==
  /\ module = None /\ v.state = "Valid"
  /\ module' = [funs |-> <<[arity |-> 0, code |-> block]>>, argv |-> <<>>,
                validated |-> TRUE]
  /\ UNCHANGED <<v, block, snap, count, vm, past>>

LoadModule(m) ==
  /\ module = None /\ block = <<>> /\ v = new
  /\ module' = [funs |-> m.funs, argv |-> m.argv, validated |-> FALSE]
  /\ UNCHANGED <<v, block, snap, count, vm, past>>

-----------------------------------------------------------------------------
(***************************************************************************)
(* The machine.  Its operators take and return the record vm.              *)
(***************************************************************************)
Code(m) == module.funs[m.fun + 1].code
Byte(m, k) == At(Code(m), m.ip + k)
Has(m, k) == Inside(Code(m), m.ip + k)

Panic(m, why) == [m EXCEPT !.st = "panic", !.why = why]
Fail(m) == [m EXCEPT !.st = "err"]
Advance(m, k) == [m EXCEPT !.ip = @ + k]

Locals(m) == Top(m.calls).locals
SetLocals(m, s) ==
  [m EXCEPT !.calls = SetTop(@, [Top(@) EXCEPT !.locals = s])]

\* What the machine does once the loop over the instructions is left.
\* Mutant: the operand stack survives the execution.
Finish_keeps_operands(m) ==
  [m EXCEPT !.st = "ok", !.ip = 0, !.fun = 0, !.calls = <<>>]

Finish(m) ==
  [m EXCEPT !.st = "ok", !.ip = 0, !.fun = 0, !.calls = <<>>, !.ops = <<>>]

Number(t, n) == [t |-> t, n |-> n]
Integers32 == {"I32", "I64"}

\* Big endian two's complement; an i64 is read from its low four bytes.
Signed(b) == IF b >= 128 THEN b - 256 ELSE b
Decode(t, s) ==
  LET w == LastN(s, 4)
  IN  IF t \in Integers32
      THEN Number(t, Signed(w[1]) * 16777216 + w[2] * 65536 + w[3] * 256 + w[4])
      ELSE Number(t, 0)

-----------------------------------------------------------------------------
(***************************************************************************)
(* fetch_argv: one arm per argument type.  "loads" are the memory reads    *)
(* that the arm accepts with the range each one checks.  The bytes of an   *)
(* inline element are "size", and the decoder asks for "need".             *)
(***************************************************************************)
MaxInt == 2147483647
Between(lo, hi) == [lo |-> lo, hi |-> hi]
Wide == Between(-MaxInt, MaxInt)

I32_arg ==
  [elem |-> "I32", n |-> 1, size |-> 4, need |-> 4,
   loads |-> i32Load :> Wide
          @@ i32Load8Signed :> Between(-128, 127)
          @@ i32Load8Unsigned :> Between(0, 255)
          @@ i32Load16Signed :> Between(-32768, 32767)
          @@ i32Load16Unsigned :> Between(0, 65535)]

I64_arg ==
  [elem |-> "I64", n |-> 1, size |-> 8, need |-> 8,
   loads |-> i64Load :> Wide
          @@ i64Load8Signed :> Between(-128, 127)
          @@ i64Load8Unsigned :> Between(0, 255)
          @@ i64Load16Signed :> Between(-32768, 32767)
          @@ i64Load16Unsigned :> Between(0, 65535)
          @@ i64Load32Signed :> Wide
          @@ i64Load32Unsigned :> Between(0, MaxInt)]

F32_arg ==
  [elem |-> "F32", n |-> 1, size |-> 4, need |-> 4, loads |-> f32Load :> Wide]

F64_arg ==
  [elem |-> "F64", n |-> 1, size |-> 4, need |-> 8, loads |-> f64Load :> Wide]

i32Array2_arg == [I32_arg EXCEPT !.n = 2]
i32Array4_arg == [I32_arg EXCEPT !.n = 4]
i32Array8_arg == [I32_arg EXCEPT !.n = 8]
i64Array2_arg == [I64_arg EXCEPT !.n = 2]
i64Array4_arg == [I64_arg EXCEPT !.n = 4]
i64Array8_arg == [I64_arg EXCEPT !.n = 8]
f32Array2_arg == [F32_arg EXCEPT !.n = 2]
f32Array4_arg == [F32_arg EXCEPT !.n = 4]
f32Array8_arg == [F32_arg EXCEPT !.n = 8]
f64Array2_arg == [F64_arg EXCEPT !.n = 2, !.size = 8]
f64Array4_arg == [F64_arg EXCEPT !.n = 4, !.size = 8]
f64Array8_arg == [F64_arg EXCEPT !.n = 8, !.size = 8]

Arm(t) ==
  CASE t = "I32" -> I32_arg [] t = "I64" -> I64_arg
    [] t = "F32" -> F32_arg [] t = "F64" -> F64_arg
    [] t = "i32Array2" -> i32Array2_arg [] t = "i32Array4" -> i32Array4_arg
    [] t = "i32Array8" -> i32Array8_arg [] t = "i64Array2" -> i64Array2_arg
    [] t = "i64Array4" -> i64Array4_arg [] t = "i64Array8" -> i64Array8_arg
    [] t = "f32Array2" -> f32Array2_arg [] t = "f32Array4" -> f32Array4_arg
    [] t = "f32Array8" -> f32Array8_arg [] t = "f64Array2" -> f64Array2_arg
    [] t = "f64Array4" -> f64Array4_arg [] t = "f64Array8" -> f64Array8_arg

\* The argument fetch so far: the machine, and the values fetched.
Take(a, m, x) == [m |-> m, out |-> Append(a.out, x)]
Stop(a, m) == [a EXCEPT !.m = m]

Filled(m, c) == c \in DOMAIN m.heap
Without(heap, c) == [d \in DOMAIN heap \ {c} |-> heap[d]]

PopFrom(a, arm, stack, rest, which) ==
  CASE stack = <<>> -> Stop(a, Panic(a.m, which))
    [] stack # <<>> /\ Top(stack).t # arm.elem -> Stop(a, Panic(a.m, "value"))
    [] OTHER -> Take(a, rest, Top(stack))

\* A cell is emptied before the range of its value is checked.
LoadFrom(a, arm, range) ==
  LET m == a.m
      c == <<Byte(m, 1), Byte(m, 2)>>
      x == m.heap[c]
      emptied == [m EXCEPT !.heap = Without(@, c), !.ip = @ + 2]
  IN  CASE ~ Has(m, 2) -> Stop(a, Panic(m, "index"))
        [] Has(m, 2) /\ ~ Filled(m, c) -> Stop(a, Panic(m, "value"))
        [] Has(m, 2) /\ Filled(m, c) /\ x.t # arm.elem ->
             Stop(a, Panic(m, "value"))
        [] Has(m, 2) /\ Filled(m, c) /\ x.t = arm.elem
             /\ (x.n < range.lo \/ x.n > range.hi) -> Stop(a, Fail(emptied))
        [] OTHER -> Take(a, emptied, x)

Inline(a, arm) ==
  LET m == a.m
      bytes == [k \in 1 .. arm.size |-> Byte(m, k - 1)]
  IN  CASE ~ Has(m, arm.size - 1) -> Stop(a, Panic(m, "index"))
        [] Has(m, arm.size - 1) /\ arm.size < arm.need ->
             Stop(a, Panic(m, "decode"))
        [] OTHER -> Take(a, Advance(m, arm.size - 1), Decode(arm.elem, bytes))

Memory(a, arm) ==
  LET m == a.m
      op == Byte(m, 0)
  IN  CASE op = PopLocal ->
             PopFrom(a, arm, Locals(m), SetLocals(m, Front(Locals(m))), "stack")
        [] op = PopOperand ->
             PopFrom(a, arm, m.ops, [m EXCEPT !.ops = Front(@)], "operands")
        [] op \in DOMAIN arm.loads -> LoadFrom(a, arm, arm.loads[op])
        [] OTHER -> Stop(a, Panic(m, "argument"))

Element(a, arm, memory) ==
  CASE a.m.st # "run" -> a
    [] a.m.st = "run" /\ ~ Has(a.m, 0) -> Stop(a, Panic(a.m, "index"))
    [] a.m.st = "run" /\ Has(a.m, 0) /\ memory -> Memory(a, arm)
    [] OTHER -> Inline(a, arm)

\* The elements of an array are pushed as arguments of their own and the
\* array is then copied from a buffer that nobody filled: a panic.
Argument(a, arm, memory) ==
  LET next == Stop(a, Advance(a.m, 1))
      elems == FoldLeft(LAMBDA acc, k : Element(acc, arm, memory), next,
                        [k \in 1 .. arm.n |-> k])
  IN  CASE a.m.st # "run" -> a
        [] a.m.st = "run" /\ arm.n = 1 -> Element(next, arm, memory)
        [] OTHER -> IF elems.m.st = "run" THEN Stop(elems, Panic(elems.m, "array"))
                                          ELSE elems

fetch_argv(m, arity) ==
  LET mask == Byte(m, 2)
      types == [j \in 1 .. arity |-> Byte(m, 2 + j)]
      start == [m |-> Advance(m, 2 + arity), out |-> <<>>]
      step(a, j) == Argument(a, Arm(TypeOps[types[j]]), Bit(mask, j - 1))
  IN  CASE ~ Has(m, 2 + arity) -> Stop(start, Panic(m, "index"))
        [] Has(m, 2 + arity) /\ \E j \in 1 .. arity : ~ IsType(types[j]) ->
             Stop(start, Panic(m, "argument"))
        [] OTHER -> FoldLeft(step, start, [j \in 1 .. arity |-> j])

MAX_OP_ARITY == 8

Push(m, onto) ==
  LET arity == Byte(m, 1)
      a == fetch_argv(m, arity)
      done == Advance(a.m, 1)
  IN  CASE ~ Has(m, 1) -> Panic(m, "index")
        [] Has(m, 1) /\ arity \notin 1 .. MAX_OP_ARITY -> Panic(m, "argument")
        [] Has(m, 1) /\ arity \in 1 .. MAX_OP_ARITY /\ m.calls = <<>> ->
             Panic(m, "stack")
        [] OTHER -> IF a.m.st # "run" THEN a.m
                    ELSE IF onto = "locals"
                    THEN SetLocals(done, Locals(done) \o a.out)
                    ELSE [done EXCEPT !.ops = @ \o a.out]

-----------------------------------------------------------------------------
(***************************************************************************)
(* perform_comparison and perform_addition.                                *)
(***************************************************************************)
\* The possible results of a comparison.  Eq goes through the operands from
\* the top until two neighbours differ; neighbours of two types panic.
perform_comparison(op, ops) ==
  LET pair(k) == <<ops[k], ops[k - 1]>>
      mixed(k) == ops[k].t # ops[k - 1].t
      known(k) == ops[k].t \in Integers32
      settled == {k \in 2 .. Len(ops) :
                    mixed(k) \/ (known(k) /\ ops[k].n # ops[k - 1].n)}
      unsure(from) == \E k \in from .. Len(ops) : ~ mixed(k) /\ ~ known(k)
  IN  CASE op # Eq -> {"unimplemented"}
        [] op = Eq /\ Len(ops) < 2 -> {"operands"}
        [] op = Eq /\ Len(ops) >= 2 /\ settled = {} ->
             IF unsure(2) THEN {"yes", "no"} ELSE {"yes"}
        [] OTHER ->
             (IF mixed(Max(settled)) THEN {"value"} ELSE {"no"})
               \cup (IF unsure(Max(settled) + 1) THEN {"no"} ELSE {})

perform_addition(m) ==
  LET total == Number(m.ops[1].t, FoldLeft(LAMBDA x, y : x + y.n, 0, m.ops))
  IN  CASE Len(m.ops) < 2 -> Panic(m, "operands")
        [] Len(m.ops) >= 2 /\ \E k \in DOMAIN m.ops : m.ops[k].t # m.ops[1].t ->
             Panic(m, "value")
        [] OTHER -> Advance([m EXCEPT !.ops = <<total>>], 1)

-----------------------------------------------------------------------------
(***************************************************************************)
(* Blocks: handle_begin_block, End, Break and BreakIf.                     *)
(***************************************************************************)
\* A block at address "at" that takes arity locals of the frame on top.
Nest(m, scope, at, arity) ==
  LET locals == Locals(m)
      outer == SetLocals(m, Cut(locals, arity))
      frame == [scope |-> scope, ret |-> [ip |-> at, fun |-> m.fun],
                locals |-> LastN(locals, arity)]
  IN  IF Len(locals) < arity THEN Panic(m, "stack")
      ELSE [outer EXCEPT !.calls = Append(@, frame)]

BeginBlock(m, scope) ==
  LET arity == Byte(m, 1)
      first == [scope |-> "Begin", ret |-> NoReturn, locals |-> module.argv]
  IN  CASE ~ Has(m, 1) -> Panic(m, "index")
        [] Has(m, 1) /\ m.calls # <<>> ->
             Advance(Nest(m, scope, m.ip, arity), 2)
        [] Has(m, 1) /\ m.calls = <<>> /\ scope = "Begin" /\ arity = 0 ->
             Advance([m EXCEPT !.calls = <<first>>], 2)
        [] OTHER -> Panic(m, "argument")

\* A comparison that fails looks for an Else right after the block.  Where
\* there is none the machine goes on into the If's own block, without a frame
\* for it, and its End closes the block around it.
IfFails(m) ==
  LET len == fetch_block_len(Code(m), m.ip)
      else == m.ip + len
  IN  CASE len = 0 \/ ~ Has(m, len) -> Panic(m, "index")
        [] len # 0 /\ Has(m, len) /\ Byte(m, len) # Else ->
             Advance([m EXCEPT !.stray = TRUE], 3)
        [] len # 0 /\ Has(m, len) /\ Byte(m, len) = Else /\ ~ Has(m, len + 1) ->
             Panic(m, "index")
        [] OTHER -> [Nest(m, "Else", else, Byte(m, len + 1)) EXCEPT
                       !.ip = else + 2]

IfBlock(m, outcome) ==
  CASE outcome = "yes" -> Advance(Nest(m, "If", m.ip, Byte(m, 1)), 3)
    [] outcome = "no" -> IfFails(m)
    [] OTHER -> Panic(m, outcome)

\* Past the block that frame f belongs to.  The length of the block is looked
\* up in the function that is running.
PastBlock(m, f) ==
  LET len == IF Inside(Code(m), f.ret.ip) THEN fetch_block_len(Code(m), f.ret.ip)
                                          ELSE 0
  IN  IF len = 0 THEN Panic(m, "index")
      ELSE [m EXCEPT !.ip = f.ret.ip + len, !.fun = f.ret.fun, !.ops = <<>>]

\* Mutant: the frame of a block stays on the call stack at its End.
EndBlock_keeps_frame(m) ==
  LET f == Top(m.calls)
  IN  CASE m.calls = <<>> -> Panic(m, "stack")
        [] m.calls # <<>> /\ f.ret = NoReturn -> Finish(m)
        [] m.calls # <<>> /\ f.ret # NoReturn /\ f.scope = "Loop" ->
             [m EXCEPT !.ip = f.ret.ip + 2, !.fun = f.ret.fun, !.ops = <<>>,
                       !.loops = @ + 1]
        [] OTHER -> PastBlock(m, f)

\* The length of the block is looked up for a loop as well, which starts again.
EndBlock(m) ==
  LET f == Top(m.calls)
      left == PastBlock([m EXCEPT !.calls = Front(@)], f)
  IN  CASE m.calls = <<>> -> Panic(m, "stack")
        [] m.calls # <<>> /\ f.ret = NoReturn -> Finish(m)
        [] m.calls # <<>> /\ f.ret # NoReturn /\ f.scope = "Loop" /\ left.st = "run" ->
             [m EXCEPT !.ip = f.ret.ip + 2, !.fun = f.ret.fun, !.ops = <<>>,
                       !.loops = @ + 1]
        [] OTHER -> left

\* Frames are popped down to the innermost loop, which is left.
BreakLoop(m) ==
  LET loops == {k \in DOMAIN m.calls : m.calls[k].scope = "Loop"}
      k == Max(loops)
  IN  IF loops = {} THEN Panic(m, "stack")
      ELSE PastBlock([m EXCEPT !.calls = SubSeq(@, 1, k - 1)], m.calls[k])

BreakOn(m, outcome) ==
  CASE outcome = "yes" -> BreakLoop(m)
    [] outcome = "no" -> Advance(m, 2)
    [] OTHER -> Panic(m, outcome)

\* The result of the comparison operator at distance k from the instruction.
Comparison(m, k) ==
  CASE ~ Has(m, k) -> {"index"}
    [] Has(m, k) /\ Byte(m, k) \notin COMP_OPS -> {"argument"}
    [] OTHER -> perform_comparison(Byte(m, k), m.ops)

-----------------------------------------------------------------------------
(***************************************************************************)
(* Functions: Call and Return.  The frame of a function has no scope.      *)
(***************************************************************************)
\* The frame on top is only looked at when there are arguments to take.
CallFunction(m) ==
  LET idx == 256 * Byte(m, 1) + Byte(m, 2)
      arity == module.funs[idx + 1].arity
      frame == [scope |-> "None", ret |-> [ip |-> m.ip + 3, fun |-> m.fun],
                locals |-> IF arity = 0 THEN <<>> ELSE LastN(Locals(m), arity)]
      caller == IF arity = 0 THEN m ELSE SetLocals(m, Cut(Locals(m), arity))
  IN  CASE ~ Has(m, 2) -> Panic(m, "index")
        [] Has(m, 2) /\ idx >= Len(module.funs) -> Panic(m, "index")
        [] Has(m, 2) /\ idx < Len(module.funs)
             /\ arity > 0 /\ (m.calls = <<>> \/ Len(Locals(m)) < arity) -> Panic(m, "stack")
        [] OTHER -> [caller EXCEPT !.calls = Append(@, frame),
                                   !.ip = 2, !.fun = idx]

\* The values come from the frame on top; frames are popped down to the one
\* of the function, and the values go to the caller's.
ReturnValues(m) ==
  LET arity == Byte(m, 1)
      scopes == {k \in DOMAIN m.calls : m.calls[k].scope = "None"}
      f == m.calls[Max(scopes)]
      caller == [m EXCEPT !.calls = SubSeq(@, 1, Max(scopes) - 1), !.ops = <<>>,
                          !.ip = f.ret.ip, !.fun = f.ret.fun]
  IN  CASE ~ Has(m, 1) -> Panic(m, "index")
        [] Has(m, 1) /\ (m.calls = <<>> \/ scopes \subseteq {1}) ->
             Panic(m, "stack")
        [] Has(m, 1) /\ m.calls # <<>> /\ ~ (scopes \subseteq {1})
             /\ Len(Locals(m)) < arity -> Panic(m, "stack")
        [] OTHER -> SetLocals(caller, Locals(caller) \o LastN(Locals(m), arity))

-----------------------------------------------------------------------------
(***************************************************************************)
(* The heap: 256 by 256 cells, empty at first; a load empties its cell.    *)
(***************************************************************************)
Cell(m) == <<Byte(m, 1), Byte(m, 2)>>

\* What a store checks: the type of the element and its range.
StoreCheck(op) ==
  CASE op \in {i32Store8, i64Store8} -> Between(-128, 255)
    [] op \in {i32Store16, i64Store16} -> Between(-32768, 65535)
    [] OTHER -> Wide

StoreType(op) ==
  CASE op \in {i32Store8, i64Store8, i32Store16, i64Store16} -> "I32"
    [] op = i64Store32 -> "I64"
    [] OTHER -> "any"

Store(m, op) ==
  LET x == Top(m.ops)
      range == StoreCheck(op)
      popped == [m EXCEPT !.ops = Front(@)]
  IN  CASE m.ops = <<>> -> Panic(m, "operands")
        [] m.ops # <<>> /\ StoreType(op) \notin {"any", x.t} -> Panic(m, "value")
        [] m.ops # <<>> /\ StoreType(op) \in {"any", x.t}
             /\ x.n \notin range.lo .. range.hi -> Fail(popped)
        [] m.ops # <<>> /\ StoreType(op) \in {"any", x.t}
             /\ x.n \in range.lo .. range.hi /\ ~ Has(m, 2) -> Panic(m, "index")
        [] OTHER -> Advance([popped EXCEPT !.heap = Cell(m) :> x @@ @], 3)

\* The sized loads of execute refuse a value that is in their range, and
\* leave it in its cell, and push one that is not.
i32SizedLoads ==
  i32Load8Signed :> Between(-128, 127) @@ i32Load8Unsigned :> Between(0, 255)
    @@ i32Load16Signed :> Between(-32768, 32767)
    @@ i32Load16Unsigned :> Between(0, 65535)

i64SizedLoads ==
  i64Load8Signed :> Between(-128, 127) @@ i64Load8Unsigned :> Between(0, 255)
    @@ i64Load16Signed :> Between(-32768, 32767)
    @@ i64Load16Unsigned :> Between(0, 65535)
    @@ i64Load32Signed :> Wide @@ i64Load32Unsigned :> Between(0, MaxInt)

SizedLoads == i32SizedLoads @@ i64SizedLoads
SizedType(op) == IF op \in DOMAIN i32SizedLoads THEN "I32" ELSE "I64"

Load(m, op) ==
  LET x == m.heap[Cell(m)]
      range == SizedLoads[op]
      sized == op \in DOMAIN SizedLoads
  IN  CASE ~ Has(m, 2) -> Panic(m, "index")
        [] Has(m, 2) /\ ~ Filled(m, Cell(m)) -> Panic(m, "value")
        [] Has(m, 2) /\ Filled(m, Cell(m)) /\ sized /\ SizedType(op) # x.t ->
             Panic(m, "value")
        [] Has(m, 2) /\ Filled(m, Cell(m)) /\ sized /\ SizedType(op) = x.t
             /\ x.n \in range.lo .. range.hi -> Fail(m)
        [] OTHER -> Advance([m EXCEPT !.heap = Without(@, Cell(m)),
                                      !.ops = Append(@, x)], 3)

\* Stack::pick duplicates the item at an index counted from the bottom.
PickIndexed(m, stack, picked) ==
  LET idx == 256 * Byte(m, 1) + Byte(m, 2)
  IN  CASE ~ Has(m, 2) -> Panic(m, "index")
        [] Has(m, 2) /\ idx >= Len(stack) -> Panic(m, "stack")
        [] OTHER -> Advance(picked, 3)

PickedLocal(m) ==
  LET idx == 256 * Byte(m, 1) + Byte(m, 2)
  IN  SetLocals(m, Append(Locals(m), Locals(m)[idx + 1]))

PickedOperand(m) ==
  LET idx == 256 * Byte(m, 1) + Byte(m, 2)
  IN  [m EXCEPT !.ops = Append(@, m.ops[idx + 1])]

PopOne(m, stack, popped, which) ==
  IF stack = <<>> THEN Panic(m, which) ELSE Advance(popped, 1)

LocalsOf(m) == IF m.calls = <<>> THEN <<>> ELSE Locals(m)

-----------------------------------------------------------------------------
(***************************************************************************)
(* execute: it starts at the first instruction and leaves the stacks as    *)
(* they are, so what an execution that failed left on them is still there. *)
(***************************************************************************)
Execute ==
  /\ module # None
  /\ vm.st \in {"idle", "ok", "err"} /\ Len(past) < MaxRuns
  /\ vm' = [vm EXCEPT !.st = "run", !.ip = 0, !.fun = 0, !.loops = 0,
                      !.stray = FALSE]
  /\ past' = Append(past, [heap |-> vm.heap, from |-> vm.st])
  /\ UNCHANGED <<v, block, snap, count, module>>

Running == vm.st = "run" /\ vm.loops <= MaxLoops
Reads(ops) == Running /\ Has(vm, 0) /\ Byte(vm, 0) \in ops
Becomes(m) == vm' = m /\ UNCHANGED <<v, block, snap, count, module, past>>

HaltStep == Reads({Halt}) /\ Becomes(Finish(vm))
NopStep == Reads({Nop}) /\ Becomes(Advance(vm, 1))
CallStep == Reads({Call}) /\ Becomes(CallFunction(vm))
ReturnStep == Reads({Return}) /\ Becomes(ReturnValues(vm))
BeginStep == Reads({Begin}) /\ Becomes(BeginBlock(vm, "Begin"))
LoopStep == Reads({Loop}) /\ Becomes(BeginBlock(vm, "Loop"))
IfStep ==
  /\ Reads({If})
  /\ \E r \in IF vm.calls = <<>> THEN {"argument"} ELSE Comparison(vm, 2) :
       Becomes(IfBlock(vm, r))
EndStep == Reads({End}) /\ Becomes(EndBlock(vm))
BreakStep == Reads({Break}) /\ Becomes(BreakLoop(vm))
BreakIfStep ==
  Reads({BreakIf}) /\ \E r \in Comparison(vm, 1) : Becomes(BreakOn(vm, r))
PushOperandStep == Reads({PushOperand}) /\ Becomes(Push(vm, "operands"))
PushLocalStep == Reads({PushLocal}) /\ Becomes(Push(vm, "locals"))
PopOperandStep ==
  /\ Reads({PopOperand})
  /\ Becomes(PopOne(vm, vm.ops, [vm EXCEPT !.ops = Front(@)], "operands"))
PopLocalStep ==
  /\ Reads({PopLocal})
  /\ Becomes(PopOne(vm, LocalsOf(vm), SetLocals(vm, Front(Locals(vm))), "stack"))
PickLocalStep ==
  Reads({PickLocal}) /\ Becomes(PickIndexed(vm, LocalsOf(vm), PickedLocal(vm)))
PickOperandStep ==
  Reads({PickOperand}) /\ Becomes(PickIndexed(vm, vm.ops, PickedOperand(vm)))
AddStep == Reads({Add}) /\ Becomes(perform_addition(vm))
StoreStep == Reads(Stores) /\ Becomes(Store(vm, Byte(vm, 0)))
LoadStep == Reads(Loads) /\ Becomes(Load(vm, Byte(vm, 0)))

Implemented ==
  {Halt, Nop, Call, Return, Begin, Loop, If, End, Break, BreakIf, PushOperand,
   PushLocal, PopOperand, PopLocal, PickLocal, PickOperand, Add}
    \cup Stores \cup Loads

\* Every other opcode, an Else that the machine runs into included.
OtherStep ==
  Running /\ Has(vm, 0) /\ Byte(vm, 0) \notin Implemented
    /\ Becomes(Panic(vm, "unimplemented"))
OutsideStep == Running /\ ~ Has(vm, 0) /\ Becomes(Panic(vm, "index"))

Step ==
  \/ HaltStep \/ NopStep \/ CallStep \/ ReturnStep \/ BeginStep \/ LoopStep
  \/ IfStep \/ EndStep \/ BreakStep \/ BreakIfStep \/ PushOperandStep
  \/ PushLocalStep \/ PopOperandStep \/ PopLocalStep \/ PickLocalStep
  \/ PickOperandStep \/ AddStep \/ StoreStep \/ LoadStep \/ OtherStep
  \/ OutsideStep

Next ==
  \/ \E i \in Instructions : Write(i)
  \/ Accept
  \/ \E m \in Modules : LoadModule(m)
  \/ Execute
  \/ Step

Spec == Init /\ [][Next]_vars

-----------------------------------------------------------------------------
(***************************************************************************)
(* What the code should mean, independently of find_block_len and of the   *)
(* validator: the addresses of its instructions and the End of each block. *)
(***************************************************************************)
Pushes == {PushLocal, PushOperand}

\* The address after a push: past its types and each argument.
PushEnd(code, i) ==
  LET arity == At(code, i + 1)
      size(p, j) == CASE ~ Bit(At(code, i + 2), j) ->
                           byte_size(TypeOps[At(code, i + 3 + j)])
                      [] Bit(At(code, i + 2), j) /\ At(code, p) \in Loads -> 3
                      [] OTHER -> 1
  IN  FoldLeft(LAMBDA p, j : p + size(p, j - 1), i + 3 + arity,
               [j \in 1 .. arity |-> j])

InstructionEnd(code, i) ==
  LET op == At(code, i)
  IN  CASE op \in Pushes -> PushEnd(code, i)
        [] op \in {If, PickLocal, PickOperand, Call} \cup Loads \cup Stores -> i + 3
        [] op \in {Begin, Loop, Else, Return, BreakIf} -> i + 2
        [] OTHER -> i + 1

RECURSIVE StartsFrom(_, _)
StartsFrom(code, i) ==
  IF Inside(code, i) THEN {i} \cup StartsFrom(code, InstructionEnd(code, i))
                     ELSE {}
Starts(code) == StartsFrom(code, 0)

\* The distance from a block to behind the End that closes it, 0 if none does.
DistancePast(code, i) ==
  LET S == Starts(code)
      depth(e) ==
        Cardinality({k \in S : k \in i .. e /\ At(code, k) \in CT_FLOW_OPS})
          - Cardinality({k \in S : k \in i .. e /\ At(code, k) = End})
      closing == {e \in S : e > i /\ depth(e) = 0}
  IN  IF closing = {} THEN 0 ELSE Min(closing) - i + 1

\* Instructions whose argument bytes find_block_len reads as instructions,
\* and the bytes that mislead it there.
Unaccounted(code, i) ==
  \/ At(code, i) \in {PickOperand, BreakIf} \cup Loads \cup Stores
  \/ At(code, i) \in Pushes /\ PushEnd(code, i) > i + 1 + PushLen(code, i)
Misleading == CT_FLOW_OPS \cup Pushes \cup {End, PickLocal, Call, Return}

Plain(code) ==
  \A i \in Starts(code) : Unaccounted(code, i) =>
    \A k \in (i + 1) .. (InstructionEnd(code, i) - 1) :
      At(code, k) \notin Misleading

\* The instructions whose arguments push_op knows; a Begin only at the start.
Followed ==
  {Halt, Nop, Loop, If, Else, End, Break, BreakIf, PushLocal, PushOperand,
   PickLocal, PopOperand, Add}
Tracked(code) ==
  /\ At(code, 0) = Begin
  /\ \A i \in Starts(code) \ {0} : At(code, i) \in Followed
  /\ \A i \in Starts(code) : At(code, i) = BreakIf => At(code, i + 1) \in COMP_OPS

\* The copies that the validator keeps for an Else are removed by the length of
\* the latest block and from the frame then on top: that is this If's length and
\* frame if the If holds no other block and the enclosing block goes on after it.
TidyIfs(code) ==
  \A i \in Starts(code) :
    At(code, i) = If /\ At(code, i + 1) > 0 =>
      LET past_if == i + DistancePast(code, i)
      IN  /\ \A j \in Starts(code) :
                j \in (i + 1) .. past_if => At(code, j) \notin CT_FLOW_OPS \ {Else}
          /\ At(code, past_if) = End => past_if = Len(code) - 1

Loaded == vm.st = "idle" /\ module # None

\* The length that find_block_len computes for a block is the distance to the
\* End that closes it, so that the jumps past a block land behind it, as long
\* as no unaccounted argument byte looks like an instruction the scan knows.
BlockLengths ==
  Loaded =>
    \A f \in DOMAIN module.funs :
      LET code == module.funs[f].code
      IN  Plain(code) =>
            \A i \in Starts(code) : At(code, i) \in CT_FLOW_OPS =>
              fetch_block_len(code, i) = DistancePast(code, i)

Scopes(frames) == [k \in DOMAIN frames |-> frames[k].scope]
Types(s) == [k \in DOMAIN s |-> s[k].t]
Seen == snap[vm.ip + 1]
Checked == /\ module.validated /\ vm.st = "run" /\ ~ vm.stray
           /\ Has(vm, 0) /\ Tracked(block)

\* While an accepted block runs, the blocks that are open on the machine are
\* the ones the validator had open when it was given the same instruction.
FramesAgree == Checked => Scopes(vm.calls) = Scopes(Seen.frames)

\* On the first way through an accepted block, the locals of the block that is
\* running have the types that the validator kept for them.
LocalsAgree ==
  Checked /\ TidyIfs(block) /\ vm.loops = 0 /\ vm.calls # <<>> /\ ~ Seen.next.alt =>
    Types(Locals(vm)) = Top(Seen.frames).locals

\* A block that the validator accepted does not make the machine read outside
\* the code, jump to a block that is not there, take a bad argument, or take
\* locals that are not there, on the first way through its loops.
NoStructuralPanic ==
  /\ module.validated /\ vm.st = "panic" /\ vm.loops = 0 /\ ~ vm.stray
  /\ Tracked(block) /\ TidyIfs(block)
  => vm.why \notin {"index", "argument", "stack"}

\* The function that is running is the one that the innermost function frame
\* was called for, and that frame returns to the instruction after the Call.
FunctionFrames ==
  vm.st = "run" =>
    LET calls == {k \in DOMAIN vm.calls : vm.calls[k].scope = "None"}
        r == vm.calls[Max(calls)].ret
        caller == module.funs[r.fun + 1].code
    IN  IF calls = {} THEN vm.fun = 0
        ELSE /\ At(caller, r.ip - 3) = Call
             /\ vm.fun = 256 * At(caller, r.ip - 2) + At(caller, r.ip - 1)

\* The call stack of the machine is right at every instruction of execute: its
\* blocks and their locals are the validator's, its functions those called.
CallStackAgrees == FramesAgree /\ LocalsAgree /\ FunctionFrames

\* An execution that succeeded and left the heap as it found it can be
\* repeated: the stacks of the machine are empty again.
Repeatable ==
  /\ Len(past) > 1 /\ vm.st \in {"ok", "err", "panic"}
  /\ past[Len(past)].from = "ok"
  /\ past[Len(past)].heap = past[Len(past) - 1].heap
  => vm.st = "ok" /\ vm.heap = past[Len(past)].heap
=============================================================================
