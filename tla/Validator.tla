----------------------------- MODULE Validator ------------------------------
(***************************************************************************)
(* The validator of the contract virtual machine.  It is fed the bytes of  *)
(* a function's block one at a time (validate_block) and runs the block on *)
(* a pseudo call stack and a pseudo operand stack that hold types instead  *)
(* of values.                                                              *)
(*                                                                         *)
(* The state is a record:                                                  *)
(*   state    Invalid (so far), Valid, IrrefutablyInvalid, or panic        *)
(*   next     the transitions: which opcode or which byte may come now     *)
(*   stack    validation_stack, pairs of a byte and "validated"            *)
(*   buf      validation_buffer                                            *)
(*   frames   the pseudo call stack, records of scope and locals           *)
(*   ops      the pseudo operand stack                                     *)
(*   arity    last_arity                                                   *)
(***************************************************************************)
EXTENDS Bytecode

\* Lists of transitions.  The code appends Break and BreakIf ("loop") and
\* Else ("alt") to a list; the byte lists come first in the search, so what
\* is appended to them is never chosen and they are kept as they are.
OpsOf(base) == [kind |-> "op", base |-> base, loop |-> FALSE, alt |-> FALSE]
BytesOf(S) == [kind |-> "byte", set |-> S]
AnyByte == [kind |-> "any"]
ARITY_TRANSITIONS == BytesOf(0 .. 8)
ARG_DECLARATIONS == BytesOf(96 .. 99)
PopsOnly == BytesOf({PopLocal, PopOperand})

transitions(op) ==
  CASE op \in {Halt, Return, Break, Suicide} -> OpsOf("end")
    [] op \in {If, BreakIf} -> OpsOf("comp")
    [] OTHER -> OpsOf("default")

accepts_byte(t, b) ==
  CASE t.kind = "any" -> TRUE
    [] t.kind = "byte" -> b \in t.set
    [] t.kind = "op" ->
         \/ t.base = "default" /\ b \in OPS_LIST
         \/ t.base = "comp" /\ b \in COMP_OPS
         \/ t.base = "end" /\ b = End
         \/ t.loop /\ b \in {Break, BreakIf}
         \/ t.alt /\ b = Else

new ==
  [state |-> "Invalid", next |-> BytesOf({}), stack |-> <<>>, buf |-> <<>>,
   frames |-> <<>>, ops |-> <<>>, arity |-> 0]

\* validate_block drops the validator with the block when it is refused.
Refuse == [new EXCEPT !.state = "IrrefutablyInvalid"]
ValidatorPanic == [new EXCEPT !.state = "panic"]

Top(s) == s[Len(s)]
SetTop(s, x) == [s EXCEPT ![Len(s)] = x]
Cut(s, n) == SubSeq(s, 1, Len(s) - n)
LastN(s, n) == SubSeq(s, Len(s) - n + 1, Len(s))

-----------------------------------------------------------------------------
(***************************************************************************)
(* push_op where an opcode is expected.                                    *)
(***************************************************************************)
TakesBytes == {PushLocal, PushOperand, PickLocal, Loop, If, Else}

AfterOp(v, frames, op) ==
  LET base == CASE op = PickLocal -> AnyByte
                [] op \in TakesBytes -> ARITY_TRANSITIONS
                [] OTHER -> transitions(op)
      in_loop == \E k \in DOMAIN frames : frames[k].scope = "Loop"
      after_if == op = End /\ Top(v.frames).scope = "If"
  IN  IF base.kind = "op"
      THEN [base EXCEPT !.loop = in_loop, !.alt = after_if]
      ELSE base

\* An If leaves the arguments of its block on the locals of the enclosing
\* frame, where an Else would look for them.  The first opcode after the If
\* that is no Else removes as many locals as the latest block took, from the
\* frame that is then on top.
LeavesIf(v, op) == v.next.alt /\ op # Else

\* Mutant: the copies that an If keeps for its Else stay on the locals.
OpStep_keeps_copies(v, op) ==
  LET frames == IF op = End THEN Front(v.frames) ELSE v.frames
      stack == IF op \in TakesBytes THEN Append(v.stack, <<op, TRUE>>)
                                    ELSE v.stack
  IN  IF frames = <<>>
      THEN [v EXCEPT !.frames = frames, !.state = "Valid"]
      ELSE [v EXCEPT !.frames = frames, !.stack = stack, !.state = "Invalid",
                     !.next = AfterOp(v, frames, op)]

OpStep(v, op) ==
  LET frames == IF op = End THEN Front(v.frames) ELSE v.frames
      drop == IF LeavesIf(v, op) THEN v.arity ELSE 0
      stack == IF op \in TakesBytes THEN Append(v.stack, <<op, TRUE>>)
                                    ELSE v.stack
  IN  CASE frames = <<>> -> [v EXCEPT !.frames = frames, !.state = "Valid"]
        [] frames # <<>> /\ drop > Len(Top(frames).locals) -> ValidatorPanic
        [] OTHER ->
             [v EXCEPT !.frames =
                         SetTop(frames, [Top(frames) EXCEPT
                                           !.locals = Cut(@, drop)]),
                       !.stack = stack,
                       !.next = AfterOp(v, frames, op),
                       !.state = "Invalid"]

-----------------------------------------------------------------------------
(***************************************************************************)
(* push_op where a byte is expected: the arguments of the instruction at   *)
(* the bottom of the validation stack.                                     *)
(***************************************************************************)

OpenBlock(v, op, scope, arity) ==
  LET locals == Top(v.frames).locals
      inner == [scope |-> scope, locals |-> LastN(locals, arity)]
      outer == [Top(v.frames) EXCEPT
                  !.locals = IF op = If THEN @ ELSE Cut(@, arity)]
  IN  IF Len(locals) < arity THEN Refuse
      ELSE [v EXCEPT !.frames = Append(SetTop(@, outer), inner),
                     !.stack = <<>>, !.arity = arity,
                     !.next = transitions(op), !.state = "Invalid"]

PickIndex(v, b) ==
  LET buf == Append(v.buf, b)
      idx == 256 * buf[1] + buf[2]
      locals == Top(v.frames).locals
  IN  CASE Len(buf) < 2 -> [v EXCEPT !.buf = buf]
        [] Len(buf) = 2 /\ idx >= Len(locals) -> ValidatorPanic
        [] OTHER ->
             [v EXCEPT !.frames =
                         SetTop(@, [Top(@) EXCEPT
                                      !.locals = Append(@, locals[idx + 1])]),
                       !.buf = <<>>, !.stack = <<>>,
                       !.next = transitions(Begin), !.state = "Invalid"]

\* The pseudo stacks after a value of type t is pushed by instruction op, or
\* moved by it from the other stack.
PushType(v, op, t) ==
  IF op = PushLocal
  THEN [v EXCEPT !.frames = SetTop(@, [Top(@) EXCEPT !.locals = Append(@, t)])]
  ELSE [v EXCEPT !.ops = Append(@, t)]

PopType(v, op) ==
  IF op = PushLocal
  THEN [v EXCEPT !.ops = Front(@)]
  ELSE [v EXCEPT !.frames = SetTop(@, [Top(@) EXCEPT !.locals = Front(@)])]

Source(v, op) == IF op = PushLocal THEN v.ops ELSE Top(v.frames).locals

\* The argument at position k (from 0) of the validation stack is done.
MarkDone(v, k) == [v EXCEPT !.stack = [@ EXCEPT ![k + 1] = <<@[1], TRUE>>]]

\* Once argument k is done: the next one, or the next instruction.
NextArg(v, k, next) ==
  IF k + 1 = Len(v.stack)
  THEN [v EXCEPT !.stack = <<>>, !.next = transitions(Begin)]
  ELSE [MarkDone(v, k) EXCEPT !.next = next]

PoppedArg(v, b, k, t, next_is_popped) ==
  LET op == v.stack[1][1]
      source == Source(v, op)
      moved == PushType(PopType(v, op), op, t)
      next == IF next_is_popped THEN PopsOnly ELSE AnyByte
  IN  CASE <<op, b>> \notin {<<PushOperand, PopLocal>>,
                             <<PushLocal, PopOperand>>} -> Refuse
        [] source = <<>> -> ValidatorPanic
        [] Top(source) # t -> Refuse
        [] OTHER -> [NextArg(moved, k, next) EXCEPT !.buf = <<>>,
                                                    !.state = "Invalid"]

InlineArg(v, b, k, t, next_is_popped) ==
  LET buf == Append(v.buf, b)
      next == IF next_is_popped THEN PopsOnly ELSE v.next
      pushed == PushType(v, v.stack[1][1], t)
  IN  IF Len(buf) < byte_size(t)
      THEN [v EXCEPT !.buf = buf, !.next = next]
      ELSE [NextArg(pushed, k, next) EXCEPT !.buf = <<>>, !.state = "Invalid"]

\* get_next_elem: the position of the first argument that is not done.
get_next_elem(stack) == Min({k \in DOMAIN stack : ~ stack[k][2]}) - 1

\* The look at the next argument's bit uses its position on the validation
\* stack, three past its number, and leaves the byte from the sixth on.
ArgByte(v, b) ==
  LET k == get_next_elem(v.stack)
      t == TypeOps[v.stack[k + 1][1]]
      mask == v.stack[3][1]
      last == k + 1 = Len(v.stack)
      next_is_popped == ~ last /\ Bit(mask, k + 1)
  IN  CASE \A j \in DOMAIN v.stack : v.stack[j][2] -> ValidatorPanic
        [] ~ last /\ ~ BitInByte(k + 1) -> ValidatorPanic
        [] Bit(mask, k - 3) -> PoppedArg(v, b, k, t, next_is_popped)
        [] OTHER -> InlineArg(v, b, k, t, next_is_popped)

validate_push(v, b) ==
  LET n == Len(v.stack)
      offset == v.stack[2][1] + 2
      push(done, next) == [v EXCEPT !.stack = Append(@, <<b, done>>),
                                    !.next = next, !.state = "Invalid"]
  IN  CASE n = 1 -> push(TRUE, AnyByte)
        [] n = 2 -> push(TRUE, ARG_DECLARATIONS)
        [] n > 2 /\ n < offset -> push(FALSE, ARG_DECLARATIONS)
        [] n > 2 /\ n = offset ->
             push(FALSE, IF Bit(v.stack[3][1], 0) THEN PopsOnly ELSE AnyByte)
        [] OTHER -> ArgByte(v, b)

ByteStep(v, b) ==
  LET op == v.stack[1][1]
  IN  CASE op = Begin -> [v EXCEPT !.stack = <<>>, !.state = "Invalid",
                                   !.next = transitions(Begin)]
        [] op = Loop -> OpenBlock(v, op, "Loop", b)
        [] op = If -> OpenBlock(v, op, "If", b)
        [] op = Else -> OpenBlock(v, op, "Else", b)
        [] op = PickLocal -> PickIndex(v, b)
        [] OTHER -> validate_push(v, b)

\* The first block takes no arguments; a Begin inside a block is an opcode
\* like any other to push_op and opens no frame.
FirstBegin(v, b) ==
  IF b # Begin THEN Refuse
  ELSE [v EXCEPT !.frames = <<[scope |-> "Begin", locals |-> <<>>]>>,
                 !.stack = Append(@, <<Begin, TRUE>>),
                 !.next = BytesOf({0})]

push_op(v, b) ==
  CASE v.frames = <<>> -> FirstBegin(v, b)
    [] v.frames # <<>> /\ ~ accepts_byte(v.next, b) -> Refuse
    [] v.frames # <<>> /\ accepts_byte(v.next, b) /\ v.next.kind = "op" ->
         OpStep(v, b)
    [] OTHER -> ByteStep(v, b)

=============================================================================
