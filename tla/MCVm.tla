-------------------------------- MODULE MCVm --------------------------------
(***************************************************************************)
(* Small instances of the virtual machine.                                 *)
(***************************************************************************)
EXTENDS Vm

I32(n) == <<0, 0, 0, n>>
I64(n) == <<0, 0, 0, 0, 0, 0, 0, n>>
PushI32(op, n) == <<op, 1, 0, 96>> \o I32(n)
Two(op, a, b) == <<op, 2, 0, 96, 96>> \o I32(a) \o I32(b)
Fun(arity, code) == [arity |-> arity, code |-> code]
Mod(funs) == [funs |-> funs, argv |-> <<>>]

\* A function of two arguments that adds them.
Sum == Fun(2, <<Begin, 2, PushOperand, 2, 3, 96, 96, PopLocal, PopLocal, Add,
                PushLocal, 1, 1, 96, PopOperand, Return, 1, End>>)
Calls == Mod(<<Fun(0, <<Begin, 0>> \o Two(PushLocal, 2, 3)
                        \o <<Call, 0, 1, PopLocal, End>>), Sum>>)

\* A function that returns from inside a loop, called from inside a loop.
Nested ==
  Mod(<<Fun(0, <<Begin, 0, Loop, 0, Call, 0, 1, PickLocal, 0, 0, Break, End, End>>),
        Fun(0, <<Begin, 0, Loop, 0>> \o PushI32(PushLocal, 4)
                 \o <<Return, 1, End, End>>)>>)

\* The second execution would see what the first one left on the operands.
Leftover ==
  Mod(<<Fun(0, <<Begin, 0, Loop, 0>> \o Two(PushOperand, 1, 1)
                 \o <<BreakIf, Eq>> \o PushI32(PushOperand, 9)
                 \o <<35, 0, 0, Break, End>> \o PushI32(PushOperand, 7)
                 \o <<PickOperand, 0, 0, Halt, End>>)>>)

\* Stores and loads, wide and sized.
Cells ==
  Mod(<<Fun(0, <<Begin, 0>> \o PushI32(PushOperand, 5)
                 \o <<35, 0, 1, i32Load, 0, 1, i32Store8, 1, 1,
                      PushLocal, 1, 1, 96, i32Load8Signed, 1, 1>>
                 \o <<PushOperand, 1, 0, 96, 0, 0, 1, 44, i32Store16, 0, 0,
                      i32Load8Unsigned, 0, 0, PopOperand, End>>)>>)

\* A load whose value is in range fails and leaves its stacks to the next run.
InRange ==
  Mod(<<Fun(0, <<Begin, 0>> \o PushI32(PushOperand, 5)
                 \o <<i32Store16, 0, 0, i32Load16Signed, 0, 0, End>>)>>)

\* Wider values: i64 from memory, f32, and the arguments that panic.
Wider ==
  Mod(<<Fun(0, <<Begin, 0, PushOperand, 2, 0, 97, 98>> \o I64(200) \o I32(0)
                 \o <<PopOperand, i64Store32, 0, 0,
                      PushLocal, 1, 1, 97, i64Load8Signed, 0, 0, End>>)>>)
Doubles == Mod(<<Fun(0, <<Begin, 0, PushOperand, 1, 0, 99>> \o I64(0) \o <<End>>)>>)
Arrays == Mod(<<Fun(0, <<Begin, 0, PushOperand, 1, 0, 100>> \o I64(0) \o <<End>>)>>)

\* A function that runs to its End instead of a Return, and one that reads on
\* behind its last instruction.
NoReturnInstr == Mod(<<Fun(0, <<Begin, 0, Call, 0, 1, Nop, End>>),
                       Fun(0, <<Begin, 0, Nop, End>>)>>)
Unclosed == Mod(<<Fun(0, <<Begin, 0, Nop>>)>>)

\* Floats are compared with both outcomes.
Floats ==
  Mod(<<Fun(0, <<Begin, 0, PushOperand, 2, 0, 98, 98>> \o I32(0) \o I32(1)
                 \o <<If, 0, Eq, Nop, End, End>>)>>)

AllModules == {Calls, Nested, Leftover, Cells, InRange, Wider, Doubles, Arrays,
               NoReturnInstr, Unclosed, Floats}

\* The instructions of written blocks: every control instruction, and pushes
\* and picks of one or two arguments, inline or popped from the other stack.
Control == {<<Begin, 0>>, <<Loop, 0>>, <<Loop, 1>>, <<If, 0, Eq>>, <<If, 1, Eq>>,
            <<Else, 0>>, <<Else, 1>>, <<End>>, <<Break>>, <<BreakIf, Eq>>}
Moves == {PushI32(PushLocal, 1), Two(PushOperand, 1, 1), Two(PushOperand, 1, 2),
          <<PushLocal, 1, 1, 96, PopOperand>>,
          <<PushOperand, 1, 1, 96, PopLocal>>,
          <<PushLocal, 2, 2, 97, 96>> \o I64(1) \o <<PopOperand>>,
          <<PickLocal, 0, 0>>, <<PickLocal, 0, 1>>}
\* Whole pieces, so that short blocks reach further.
Pieces == {<<Begin, 0>> \o Two(PushOperand, 1, 1) \o PushI32(PushLocal, 1),
           <<Begin, 0>> \o Two(PushOperand, 1, 2) \o PushI32(PushLocal, 1),
           <<Loop, 0, Nop, Break, End>>}
Written == Control \cup Moves \cup Pieces
=============================================================================
