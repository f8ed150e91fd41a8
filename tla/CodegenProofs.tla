--------------------------- MODULE CodegenProofs ---------------------------
(* Proofs about Codegen, for any names, types, bodies and programs.          *)
EXTENDS Codegen, SequenceTheorems, TLAPS

----------------------------------------------------------------------------
(* Types of instructions and symbols.                                        *)

\* Instructions built by the constructors are instructions.
LEMMA InstrTypes ==
  /\ \A k \in Kinds : Plain(k) \in Instr
  /\ \A k \in Kinds, s \in SUBSET Nat : Refer(k, s) \in Instr
  /\ \A t \in Types : Ret(t) \in Instr
  /\ \A t \in Types, f \in Nat : CallOf(f, t) \in Instr
BY TypesAssumption DEF Plain, Refer, Ret, CallOf, Instr, Kinds

\* One to three instructions make code.
LEMMA CodeTypes ==
  /\ << >> \in Seq(Instr)
  /\ \A i \in Instr : <<i>> \in Seq(Instr)
  /\ \A i, j \in Instr : <<i, j>> \in Seq(Instr)
  /\ \A i, j, k \in Instr : <<i, j, k>> \in Seq(Instr)
OBVIOUS

\* Appending code, creating and erasing blocks keep a module well typed.
LEMMA AppendType ==
  ASSUME NEW bs, bs \in [DOMAIN bs -> Block], NEW b, NEW is \in Seq(Instr)
  PROVE  /\ DOMAIN AppendTo(bs, b, is) = DOMAIN bs
         /\ AppendTo(bs, b, is) \in [DOMAIN bs -> Block]
<1>1. ASSUME b \in DOMAIN bs PROVE bs[b] \in Block /\ bs[b].code \o is \in Seq(Instr)
  BY <1>1, ConcatProperties DEF Block
<1>. QED  BY <1>1 DEF AppendTo, Block

\* Creating empty blocks of a function keeps a module well typed.
LEMMA CreateType ==
  ASSUME NEW bs, bs \in [DOMAIN bs -> Block], NEW ids, NEW f \in Nat
  PROVE  /\ DOMAIN Create(bs, ids, f) = DOMAIN bs \cup ids
         /\ Create(bs, ids, f) \in [DOMAIN bs \cup ids -> Block]
BY CodeTypes DEF Create, Block

\* Erasing blocks keeps a module well typed.
LEMMA EraseType ==
  ASSUME NEW bs, bs \in [DOMAIN bs -> Block], NEW ids
  PROVE  /\ DOMAIN Erase(bs, ids) = DOMAIN bs \ ids
         /\ Erase(bs, ids) \in [DOMAIN bs \ ids -> Block]
BY DEF Erase

\* The symbols the translator makes are symbols.
LEMMA SymbolTypes ==
  /\ Absent \in Symbol
  /\ \A b \in Nat : SlotIn(b) \in Symbol
  /\ \A b \in Nat, t \in Types, p, q \in BOOLEAN : PtrIn(b, t, p, q) \in Symbol
  /\ \A b \in Bodies, m \in BOOLEAN : [k |-> "fn", at |-> b, mark |-> m] \in Symbol
  /\ NoSymbols \in [Names -> Symbol]
BY DEF Absent, SlotIn, PtrIn, Symbol, NoSymbols

\* What each kind of symbol holds.
LEMMA SymbolFields ==
  ASSUME NEW s \in Symbol
  PROVE  /\ s.k \in {"none", "slot", "ptr", "fn"}
         /\ s.k \in {"slot", "ptr"} => s.at \in Nat
         /\ s.k = "ptr" => s.ty \in Types /\ s.takes \in BOOLEAN /\ s.tab \in BOOLEAN
         /\ s.k = "fn" => s.at \in Bodies /\ s.mark \in BOOLEAN
BY DEF Symbol

----------------------------------------------------------------------------
(* The call stack.                                                           *)

\* The part of the type invariant that the generated code depends on.
Typed ==
  /\ WellFormed(prog)
  /\ stack \in Seq(Frame)
  /\ ip \in Nat
  /\ scope \in [Names -> Symbol]
  /\ nblk \in Nat
  /\ nfn \in Nat
  /\ blocks \in [DOMAIN blocks -> Block]
  /\ DOMAIN blocks \subseteq 1..nblk
  /\ fns \in [DOMAIN fns -> Fn]
  /\ DOMAIN fns \subseteq 1..nfn
  /\ gc \in BOOLEAN
  /\ status \in {"run", "built", "ok", "bug", "error", "overflow", "crash"}

\* The line of frame i that is being translated when frame j runs above it.
Started(i, j) ==
  /\ i.kind # "main"
  /\ i.pos \in DOMAIN prog.body[i.body]
  /\ LET op == prog.body[i.body][i.pos].op
     IN \/ j.kind = "fn" /\ op \in {"fun", "call", "retcall"}
        \/ j.kind = "scope" /\ op = "scope"
        \/ j.kind \in {"then", "else"} /\ op = "cond"
        \/ j.kind = "import" /\ op = "import"

\* Every routine in progress was started by the line its caller stands at, and
\* only a call moves to another function, a new one: the evaluator's recursion returns to
\* the right place however calls, scopes, branches and imports are nested.
StackDiscipline ==
  /\ Len(stack) >= 1
  /\ stack[1].kind = "main" /\ stack[1].fn = 1
  /\ status = "run" /\ Len(stack) > 1 => stack[1].pos = 1
  /\ \A j \in 2..Len(stack) :
       /\ stack[j].kind # "main"
       /\ j > 2 => Started(stack[j - 1], stack[j])
       /\ stack[j].kind = "fn" => \A i \in 1..(j - 1) : stack[i].fn < stack[j].fn
       /\ stack[j].kind # "fn" => j > 2 /\ stack[j].fn = stack[j - 1].fn
       /\ stack[j].pos \in 1..(Len(prog.body[stack[j].body]) + 1)
  /\ \A i \in 1..Len(stack) : stack[i].fn <= nfn

\* The functions that are being written, and the user's function once it is
\* written, are in the module; the top-level literal is never marked.
FnsAlive ==
  status = "run" =>
    /\ \A i \in 1..Len(stack) : stack[i].fn \in DOMAIN fns
    /\ stack[1].pos # 1 => stack[1].next \in DOMAIN fns
    /\ Len(stack) > 1 => ~stack[2].mark

\* A frame with a block to go on in afterwards: nb of a scope, mergebb of a conditional.
Pending(f) == f.kind \in {"scope", "then", "else"}

\* Why the builder never stands in an erased block: the block a routine will go
\* on in exists, nobody writes into it or will come back to it before, and no
\* other routine in progress holds it.
BlocksKept ==
  status = "run" =>
    /\ ip \in BlocksOf(Top.fn)
    /\ \A j \in 2..Len(stack) :
         /\ stack[j].pb \in BlocksOf(stack[j - 1].fn)
         /\ stack[j].kind = "then" => stack[j].two \in BlocksOf(stack[j].fn)
         /\ Pending(stack[j]) =>
              /\ stack[j].next \in BlocksOf(stack[j].fn)
              /\ ip # stack[j].next
              /\ \A i \in 2..Len(stack) :
                   /\ stack[i].pb # stack[j].next
                   /\ stack[i].kind = "then" => stack[i].two # stack[j].next
                   /\ Pending(stack[i]) /\ i # j => stack[i].next # stack[j].next

Inv1 == Typed /\ StackDiscipline /\ FnsAlive /\ BlocksKept

USE DEF None, Void, I32

\* The frames of a stack, its top and its caller are frames; main is the outermost.
LEMMA StackFacts ==
  ASSUME Inv1
  PROVE  /\ stack \in Seq(Frame)
         /\ Len(stack) \in Nat /\ Len(stack) >= 1
         /\ DOMAIN stack = 1..Len(stack)
         /\ \A i \in 1..Len(stack) : stack[i] \in Frame
         /\ Top \in Frame
         /\ Top.kind = "main" <=> Len(stack) < 2
         /\ Len(stack) > 1 => Caller \in Frame
         /\ Len(stack) > 1 => (Caller.kind = "main" <=> Len(stack) < 3)
<1>1. /\ stack \in Seq(Frame)
      /\ Len(stack) \in Nat /\ Len(stack) >= 1
      /\ DOMAIN stack = 1..Len(stack)
      /\ \A i \in 1..Len(stack) : stack[i] \in Frame
  BY LenProperties, ElementOfSeq DEF Inv1, Typed, StackDiscipline
<1>2. stack[1].kind = "main" /\ \A j \in 2..Len(stack) : stack[j].kind # "main"
  BY DEF Inv1, StackDiscipline
<1>3. Top.kind = "main" <=> Len(stack) < 2
  <2>1. CASE Len(stack) < 2
    <3>1. Len(stack) = 1 BY <1>1, <2>1
    <3>. QED  BY <3>1, <1>2, <2>1 DEF Top
  <2>2. CASE ~(Len(stack) < 2)
    <3>1. Len(stack) \in 2..Len(stack) BY <1>1, <2>2
    <3>. QED  BY <3>1, <1>2, <2>2 DEF Top
  <2>. QED  BY <2>1, <2>2
<1>4. Len(stack) > 1 => (Caller.kind = "main" <=> Len(stack) < 3)
  <2>1. CASE Len(stack) < 3 /\ Len(stack) > 1
    <3>1. Len(stack) - 1 = 1 BY <1>1, <2>1
    <3>. QED  BY <3>1, <1>2, <2>1 DEF Caller
  <2>2. CASE ~(Len(stack) < 3)
    <3>1. Len(stack) - 1 \in 2..Len(stack) BY <1>1, <2>2
    <3>. QED  BY <3>1, <1>2, <2>2 DEF Caller
  <2>. QED  BY <2>1, <2>2, <1>1
<1>5. /\ Len(stack) \in 1..Len(stack)
      /\ Len(stack) > 1 => Len(stack) - 1 \in 1..Len(stack)
  BY <1>1
<1>. QED  BY <1>1, <1>3, <1>4, <1>5 DEF Top, Caller

\* The functions in progress have ids given out before.
LEMMA FnFacts ==
  ASSUME Inv1
  PROVE  nfn \in Nat /\ \A i \in 1..Len(stack) : stack[i].fn \in Nat /\ stack[i].fn <= nfn
BY StackFacts DEF Inv1, Typed, StackDiscipline, Frame

\* A line that is translated is a complete line of the body of the top frame.
LEMMA LineFacts ==
  ASSUME Inv1, NEW op, AtLine(op)
  PROVE  /\ status = "run"
         /\ Len(stack) > 1
         /\ Top.kind # "main"
         /\ Top.pos \in DOMAIN prog.body[Top.body]
         /\ Top.pos \in 1..Len(prog.body[Top.body])
         /\ Cur = prog.body[Top.body][Top.pos]
         /\ Cur \in Line
         /\ Complete(Cur)
         /\ Cur.op = op
<1>1. Top \in Frame BY StackFacts
<1>2. Top.kind # "main"
  BY <1>1 DEF AtLine, Lines
<1>3. prog.body[Top.body] \in Seq(Line)
  BY <1>1 DEF Inv1, Typed, WellFormed, Program, Frame
<1>4. Lines(Top) = prog.body[Top.body] BY <1>2 DEF Lines
<1>5. Top.pos \in DOMAIN prog.body[Top.body] BY <1>4 DEF AtLine
<1>6. Complete(prog.body[Top.body][Top.pos])
  BY <1>1, <1>5 DEF Inv1, Typed, WellFormed, Frame
<1>. QED  BY <1>1, <1>2, <1>3, <1>4, <1>5, <1>6, StackFacts DEF AtLine, Cur, LineOf

\* What a routine that is over goes back to: the frames below, and the line of
\* its caller that started it.
LEMMA EndFacts ==
  ASSUME Inv1, NEW kind, AtEnd(kind), kind # "main"
  PROVE  /\ status = "run"
         /\ Len(stack) > 1
         /\ Below \in Seq(Frame)
         /\ Len(Below) = Len(stack) - 1
         /\ \A i \in 1..(Len(stack) - 1) : Below[i] = stack[i]
         /\ Caller.kind # "main" =>
              /\ Len(stack) > 2
              /\ Started(Caller, Top)
              /\ Caller.pos \in 1..Len(prog.body[Caller.body])
              /\ LineOf(Caller) = prog.body[Caller.body][Caller.pos]
              /\ LineOf(Caller) \in Line
              /\ Complete(LineOf(Caller))
<1>1. status = "run" /\ Len(stack) > 1 BY StackFacts DEF AtEnd
<1>2. /\ Below \in Seq(Frame)
      /\ Len(Below) = Len(stack) - 1
      /\ \A i \in 1..(Len(stack) - 1) : Below[i] = stack[i]
  BY <1>1, StackFacts, SubSeqProperties DEF Below
<1>3. ASSUME Caller.kind # "main"
      PROVE  /\ Len(stack) > 2
             /\ Started(Caller, Top)
             /\ Caller.pos \in 1..Len(prog.body[Caller.body])
             /\ LineOf(Caller) = prog.body[Caller.body][Caller.pos]
             /\ LineOf(Caller) \in Line
             /\ Complete(LineOf(Caller))
  <2>1. Len(stack) > 2 /\ Caller \in Frame BY <1>1, <1>3, StackFacts
  <2>2. Started(Caller, Top)
    BY <2>1, StackFacts DEF Inv1, StackDiscipline, Caller, Top
  <2>3. prog.body[Caller.body] \in Seq(Line)
    BY <2>1 DEF Inv1, Typed, WellFormed, Program, Frame
  <2>4. Caller.pos \in DOMAIN prog.body[Caller.body] BY <2>2 DEF Started
  <2>5. Complete(prog.body[Caller.body][Caller.pos])
    BY <2>1, <2>4 DEF Inv1, Typed, WellFormed, Frame
  <2>6. LineOf(Caller) = prog.body[Caller.body][Caller.pos] BY <1>3 DEF LineOf, Lines
  <2>. QED  BY <2>1, <2>2, <2>3, <2>4, <2>5, <2>6
<1>. QED  BY <1>1, <1>2, <1>3

----------------------------------------------------------------------------
(* The three ways the stack changes: the top frame is replaced, a frame is     *)
(* pushed, the top frame is popped and the one below replaced.  Each keeps the *)
(* discipline, and the functions in progress alive.                            *)

\* s has the frames of the stack below n, and f as its n-th and last.
Shape(s, n, f) == /\ s \in Seq(Frame) /\ Len(s) = n
                  /\ \A i \in 1..(n - 1) : s[i] = stack[i]
                  /\ s[n] = f

\* Changing the top frame keeps the shape of the stack.
LEMMA ReplaceShape ==
  ASSUME Inv1, NEW STATE f, f \in Frame
  PROVE  Shape([stack EXCEPT ![Len(stack)] = f], Len(stack), f)
BY StackFacts, ExceptSeq DEF Shape

\* Pushing a frame keeps the shape of the stack.
LEMMA PushShape ==
  ASSUME Inv1, NEW STATE f, f \in Frame
  PROVE  Shape(Append(stack, f), Len(stack) + 1, f)
BY StackFacts, AppendProperties DEF Shape

\* A stack that ends in f, with the frames of the stack below it, is disciplined
\* when f is where it may be.
LEMMA ShapeDiscipline ==
  ASSUME Inv1, status = "run", prog' = prog,
         NEW STATE f, f \in Frame, NEW STATE n, n \in Nat, Shape(stack', n, f),
         n > 1, n <= Len(stack) + 1, stack[1].pos = 1,
         f.kind # "main", n > 2 => Started(stack[n - 1], f),
         f.kind = "fn" => \A i \in 1..(n - 1) : stack[i].fn < f.fn,
         f.kind # "fn" => n > 2 /\ f.fn = stack[n - 1].fn,
         f.pos \in 1..(Len(prog.body[f.body]) + 1),
         nfn' \in Nat, nfn <= nfn', f.fn <= nfn',
         n > 2 \/ ~f.mark, f.fn \in DOMAIN fns',
         \A i \in 1..(n - 1) : stack[i].fn \in DOMAIN fns'
  PROVE  StackDiscipline' /\ FnsAlive'
<1>0. /\ Len(stack) \in Nat /\ Len(stack) >= 1
      /\ stack[1].kind = "main" /\ stack[1].fn = 1
      /\ n > 2 => ~stack[2].mark
      /\ \A i \in 1..Len(stack) : stack[i].fn <= nfn /\ stack[i].fn \in Nat
      /\ nfn \in Nat
  BY StackFacts, FnFacts DEF Inv1, StackDiscipline, FnsAlive
<1>1. /\ Len(stack') = n
      /\ \A i \in 1..(n - 1) : stack'[i] = stack[i]
      /\ stack'[n] = f
  BY DEF Shape
<1>2. StackDiscipline'
  <2>1. Len(stack') >= 1 /\ stack'[1].kind = "main" /\ stack'[1].fn = 1 /\ stack'[1].pos = 1
    BY <1>0, <1>1
  <2>2. ASSUME NEW j \in 2..Len(stack')
        PROVE  /\ stack'[j].kind # "main"
               /\ j > 2 => Started(stack'[j - 1], stack'[j])
               /\ stack'[j].kind = "fn" => \A i \in 1..(j - 1) : stack'[i].fn < stack'[j].fn
               /\ stack'[j].kind # "fn" => j > 2 /\ stack'[j].fn = stack'[j - 1].fn
               /\ stack'[j].pos \in 1..(Len(prog.body[stack'[j].body]) + 1)
    <3>0. j \in Nat /\ j - 1 \in 1..(n - 1) /\ \A i \in 1..(j - 1) : stack'[i] = stack[i]
      <4>1. j \in 2..n BY <1>1
      <4>2. j \in Nat /\ j - 1 \in 1..(n - 1) /\ \A i \in 1..(j - 1) : i \in 1..(n - 1) BY <4>1
      <4>. QED  BY <1>1, <4>2
    <3>1. CASE j < n
      <4>0. j \in 2..Len(stack) /\ j \in 1..(n - 1)
        <5>1. j \in 2..(n - 1) BY <3>0, <3>1
        <5>2. n - 1 <= Len(stack) /\ n - 1 \in Nat /\ Len(stack) \in Nat BY <1>0
        <5>. QED  BY <5>1, <5>2
      <4>1. stack'[j] = stack[j] /\ j \in 2..Len(stack) BY <1>1, <4>0
      <4>2. /\ stack[j].kind # "main"
            /\ j > 2 => Started(stack[j - 1], stack[j])
            /\ stack[j].kind = "fn" => \A i \in 1..(j - 1) : stack[i].fn < stack[j].fn
            /\ stack[j].kind # "fn" => j > 2 /\ stack[j].fn = stack[j - 1].fn
            /\ stack[j].pos \in 1..(Len(prog.body[stack[j].body]) + 1)
        BY <4>1 DEF Inv1, StackDiscipline
      <4>3. stack'[j - 1] = stack[j - 1] BY <1>1, <3>0
      <4>. QED  BY <3>0, <4>1, <4>2, <4>3
    <3>2. CASE j = n
      BY <3>0, <1>1, <3>2
    <3>. QED  BY <1>1, <3>1, <3>2
  <2>3. ASSUME NEW i \in 1..Len(stack') PROVE stack'[i].fn <= nfn'
    <3>1. CASE i < n
      <4>1. stack'[i] = stack[i] /\ i \in 1..Len(stack) BY <1>0, <1>1, <3>1
      <4>. QED  BY <4>1, <1>0
    <3>2. CASE i = n BY <1>1, <3>2
    <3>. QED  BY <1>1, <3>1, <3>2
  <2>. QED  BY <2>1, <2>2, <2>3 DEF StackDiscipline, Started
<1>3. FnsAlive'
  <2>1. ASSUME NEW i \in 1..Len(stack') PROVE stack'[i].fn \in DOMAIN fns'
    <3>1. CASE i < n
      <4>1. stack'[i] = stack[i] /\ i \in 1..(n - 1) BY <1>0, <1>1, <3>1
      <4>. QED  BY <4>1
    <3>2. CASE i = n BY <1>1, <3>2
    <3>. QED  BY <1>1, <3>1, <3>2
  <2>2. stack'[1].pos = 1 BY <1>0, <1>1
  <2>3. ~stack'[2].mark
    <3>1. CASE n > 2
      <4>1. stack'[2] = stack[2] BY <1>1, <3>1
      <4>. QED  BY <4>1, <1>0, <3>1
    <3>2. CASE n = 2 BY <1>1, <3>2
    <3>. QED  BY <3>1, <3>2
  <2>. QED  BY <2>1, <2>2, <2>3 DEF FnsAlive
<1>. QED  BY <1>2, <1>3

\* Block b is in the module after the step, in function g.
Stays(b, g) == b \in DOMAIN blocks' /\ blocks'[b].fn = g

\* A frame needs its blocks after the step: the one below it is of function g.
Served(f, g) == /\ Stays(f.pb, g)
                /\ f.kind = "then" => Stays(f.two, f.fn)
                /\ Pending(f) => Stays(f.next, f.fn)

\* Frame f will not write into block b, nor go on in it, nor hold it.
Avoids(f, b) == /\ f.pb # b
                /\ f.kind = "then" => f.two # b
                /\ Pending(f) => f.next # b

\* The blocks of a stack that ends in f are kept when those of its frames stay and are apart.
LEMMA ShapeBlocks ==
  ASSUME Inv1, status = "run",
         NEW STATE f, f \in Frame, NEW STATE n, n \in Nat, Shape(stack', n, f), n > 1,
         Stays(ip', f.fn), Served(f, stack[n - 1].fn),
         Pending(f) => ip' # f.next /\ f.pb # f.next /\ (f.kind = "then" => f.two # f.next),
         \A j \in 2..(n - 1) : Served(stack[j], stack[j - 1].fn),
         n <= Len(stack) + 1,
         \A j \in 2..(n - 1) : Pending(f) => Avoids(stack[j], f.next),
         \A j \in 2..(n - 1) : Pending(stack[j]) => ip' # stack[j].next /\ Avoids(f, stack[j].next)
  PROVE  BlocksKept'
<1>1. /\ Len(stack') = n
      /\ \A i \in 1..(n - 1) : stack'[i] = stack[i]
      /\ stack'[n] = f
  BY DEF Shape
<1>2. Len(stack) \in Nat BY StackFacts
<1>3. \A i, j \in 2..(n - 1) :
        Pending(stack[j]) => /\ stack[i].pb # stack[j].next
                             /\ stack[i].kind = "then" => stack[i].two # stack[j].next
                             /\ Pending(stack[i]) /\ i # j => stack[i].next # stack[j].next
  <2>1. \A i \in 2..(n - 1) : i \in 2..Len(stack) BY <1>2
  <2>. QED  BY <2>1 DEF Inv1, BlocksKept
<1>4. ip' \in BlocksOf(Top.fn)'
  BY <1>1 DEF BlocksOf, Top, Stays
<1>5. ASSUME NEW j \in 2..Len(stack')
      PROVE  /\ stack'[j].pb \in BlocksOf(stack[j - 1].fn)'
             /\ stack'[j].kind = "then" => stack'[j].two \in BlocksOf(stack[j].fn)'
             /\ Pending(stack'[j]) =>
                  /\ stack'[j].next \in BlocksOf(stack[j].fn)'
                  /\ ip' # stack'[j].next
                  /\ \A i \in 2..Len(stack') :
                       /\ stack'[i].pb # stack'[j].next
                       /\ stack'[i].kind = "then" => stack'[i].two # stack'[j].next
                       /\ Pending(stack'[i]) /\ i # j => stack'[i].next # stack'[j].next
  <2>0. stack'[j - 1] = stack[j - 1] BY <1>1
  <2>1. CASE j < n
    <3>1. stack'[j] = stack[j] /\ j \in 2..(n - 1) BY <1>1, <2>1
    <3>2. /\ stack'[j].pb \in BlocksOf(stack[j - 1].fn)'
          /\ stack'[j].kind = "then" => stack'[j].two \in BlocksOf(stack[j].fn)'
          /\ Pending(stack'[j]) => stack'[j].next \in BlocksOf(stack[j].fn)' /\ ip' # stack'[j].next
      BY <2>0, <3>1 DEF BlocksOf, Stays, Served
    <3>3. ASSUME NEW i \in 2..Len(stack'), Pending(stack'[j])
          PROVE  /\ stack'[i].pb # stack'[j].next
                 /\ stack'[i].kind = "then" => stack'[i].two # stack'[j].next
                 /\ Pending(stack'[i]) /\ i # j => stack'[i].next # stack'[j].next
      <4>1. CASE i < n
        <5>1. stack'[i] = stack[i] /\ i \in 2..(n - 1) BY <1>1, <4>1
        <5>. QED  BY <5>1, <3>1, <3>3, <1>3
      <4>2. CASE i = n
        <5>1. stack'[i] = f BY <1>1, <4>2
        <5>. QED  BY <5>1, <3>1, <3>3 DEF Avoids
      <4>. QED  BY <1>1, <4>1, <4>2
    <3>. QED  BY <3>2, <3>3
  <2>2. CASE j = n
    <3>1. stack'[j] = f BY <1>1, <2>2
    <3>2. /\ stack'[j].pb \in BlocksOf(stack[j - 1].fn)'
          /\ stack'[j].kind = "then" => stack'[j].two \in BlocksOf(stack[j].fn)'
          /\ Pending(stack'[j]) => stack'[j].next \in BlocksOf(stack[j].fn)' /\ ip' # stack'[j].next
      BY <2>0, <2>2, <3>1 DEF BlocksOf, Stays, Served
    <3>3. ASSUME NEW i \in 2..Len(stack'), Pending(stack'[j])
          PROVE  /\ stack'[i].pb # stack'[j].next
                 /\ stack'[i].kind = "then" => stack'[i].two # stack'[j].next
                 /\ Pending(stack'[i]) /\ i # j => stack'[i].next # stack'[j].next
      <4>1. CASE i < n
        <5>1. stack'[i] = stack[i] /\ i \in 2..(n - 1) BY <1>1, <4>1
        <5>. QED  BY <5>1, <3>1, <3>3 DEF Avoids
      <4>2. CASE i = n
        <5>1. stack'[i] = f /\ i = j BY <1>1, <4>2, <2>2
        <5>. QED  BY <5>1, <3>1, <3>3
      <4>. QED  BY <1>1, <4>1, <4>2
    <3>. QED  BY <3>2, <3>3
  <2>. QED  BY <1>1, <2>1, <2>2
<1>. QED  BY <1>4, <1>5 DEF BlocksKept, Pending

----------------------------------------------------------------------------
(* The stack and the blocks it needs, for each kind of step.                   *)

\* What is known of the blocks and the frames in a running state.
LEMMA KeptFacts ==
  ASSUME Inv1, status = "run"
  PROVE  /\ nblk \in Nat /\ DOMAIN blocks \subseteq 1..nblk
         /\ ip \in DOMAIN blocks /\ blocks[ip].fn = Top.fn
         /\ \A j \in 2..Len(stack) :
              /\ stack[j].pb \in DOMAIN blocks /\ blocks[stack[j].pb].fn = stack[j - 1].fn
              /\ stack[j].kind = "then" => stack[j].two \in DOMAIN blocks /\ blocks[stack[j].two].fn = stack[j].fn
              /\ Pending(stack[j]) =>
                   /\ stack[j].next \in DOMAIN blocks /\ blocks[stack[j].next].fn = stack[j].fn
                   /\ ip # stack[j].next
                   /\ \A i \in 2..Len(stack) :
                        /\ stack[i].pb # stack[j].next
                        /\ stack[i].kind = "then" => stack[i].two # stack[j].next
                        /\ i # j => Avoids(stack[i], stack[j].next)
<1>1. nblk \in Nat /\ DOMAIN blocks \subseteq 1..nblk BY DEF Inv1, Typed
<1>. QED  BY <1>1 DEF Inv1, BlocksKept, BlocksOf, Avoids

\* All blocks stay, in their functions.
AllStay == \A b \in DOMAIN blocks : Stays(b, blocks[b].fn)

\* The frame that goes on with its next line.
LEMMA NextLine ==
  ASSUME NEW g \in Frame
  PROVE  /\ [g EXCEPT !.pos = @ + 1] \in Frame
         /\ [g EXCEPT !.pos = @ + 1].pos = g.pos + 1
         /\ [g EXCEPT !.pos = @ + 1].kind = g.kind
         /\ [g EXCEPT !.pos = @ + 1].fn = g.fn
         /\ [g EXCEPT !.pos = @ + 1].body = g.body
         /\ [g EXCEPT !.pos = @ + 1].pb = g.pb
         /\ [g EXCEPT !.pos = @ + 1].two = g.two
         /\ [g EXCEPT !.pos = @ + 1].next = g.next
         /\ [g EXCEPT !.pos = @ + 1].mark = g.mark
BY DEF Frame

\* The frame of the real pass of a function that was surveyed.
RealOf(g, a, b) == [g EXCEPT !.pos = 1, !.survey = FALSE, !.fn = a, !.one = b]

\* The frame that begins the real pass after its survey is a frame.
LEMMA RealFrame ==
  ASSUME NEW g \in Frame, NEW a \in Nat, NEW b \in Nat
  PROVE  /\ RealOf(g, a, b) \in Frame
         /\ RealOf(g, a, b).kind = g.kind
         /\ RealOf(g, a, b).body = g.body
         /\ RealOf(g, a, b).pos = 1
         /\ RealOf(g, a, b).fn = a
         /\ RealOf(g, a, b).pb = g.pb
         /\ RealOf(g, a, b).mark = g.mark
BY DEF Frame, RealOf

\* A line that stays in its block: the top frame goes on, blocks only grow.
LEMMA AdvanceInv ==
  ASSUME Inv1, status = "run", Len(stack) > 1,
         Top.pos \in 1..Len(prog.body[Top.body]),
         stack' = Advance(stack, Len(stack)), prog' = prog, nfn' = nfn, fns' = fns,
         AllStay, ip' = ip \/ (ip' > nblk /\ Stays(ip', Top.fn))
  PROVE  stack' \in Seq(Frame) /\ StackDiscipline' /\ FnsAlive' /\ BlocksKept'
<1> DEFINE f == [Top EXCEPT !.pos = @ + 1]
<1>1. f \in Frame /\ f.pos = Top.pos + 1 /\ f.kind = Top.kind /\ f.fn = Top.fn /\ f.body = Top.body
      /\ f.pb = Top.pb /\ f.two = Top.two /\ f.next = Top.next /\ f.mark = Top.mark
  BY StackFacts, NextLine
<1>2. stack' = [stack EXCEPT ![Len(stack)] = f] BY DEF Advance, Top
<1>3. Shape(stack', Len(stack), f) BY <1>1, <1>2, ReplaceShape
<1>. HIDE DEF f
<1>4. /\ Len(stack) \in Nat
      /\ stack[1].pos = 1
      /\ Top.kind # "main"
      /\ Len(stack) > 2 => Started(stack[Len(stack) - 1], Top)
      /\ Top.kind = "fn" => \A i \in 1..(Len(stack) - 1) : stack[i].fn < Top.fn
      /\ Top.kind # "fn" => Len(stack) > 2 /\ Top.fn = stack[Len(stack) - 1].fn
      /\ Len(stack) > 2 \/ ~Top.mark
      /\ \A i \in 1..Len(stack) : stack[i].fn \in DOMAIN fns
      /\ Top.fn \in DOMAIN fns /\ Top.fn <= nfn /\ nfn \in Nat
  <2>1. Len(stack) \in Nat /\ Len(stack) \in 2..Len(stack) /\ Len(stack) \in 1..Len(stack) BY StackFacts
  <2>2. /\ stack[1].pos = 1
        /\ Top.kind # "main"
        /\ Len(stack) > 2 => Started(stack[Len(stack) - 1], Top)
        /\ Top.kind = "fn" => \A i \in 1..(Len(stack) - 1) : stack[i].fn < Top.fn
        /\ Top.kind # "fn" => Len(stack) > 2 /\ Top.fn = stack[Len(stack) - 1].fn
    BY <2>1 DEF Inv1, StackDiscipline, Top
  <2>3. Len(stack) > 2 \/ ~Top.mark
    <3>1. ASSUME NEW n \in Nat, n \in 2..n, ~(n > 2) PROVE n = 2 BY <3>1
    <3>2. Len(stack) > 2 \/ Len(stack) = 2 BY <2>1, <3>1
    <3>. QED  BY <3>2 DEF Inv1, FnsAlive, Top
  <2>4. (\A i \in 1..Len(stack) : stack[i].fn \in DOMAIN fns) /\ Top.fn \in DOMAIN fns
    BY <2>1 DEF Inv1, FnsAlive, Top
  <2>5. Top.fn <= nfn /\ nfn \in Nat BY <2>1, FnFacts DEF Top
  <2>. QED  BY <2>1, <2>2, <2>3, <2>4, <2>5
<1>5. Len(stack) > 2 => Started(stack[Len(stack) - 1], f) BY <1>1, <1>4 DEF Started
<1>6. f.pos \in 1..(Len(prog.body[f.body]) + 1)
  BY <1>1
<1>7. StackDiscipline' /\ FnsAlive'
  <2> DEFINE n == Len(stack)
  <2>1. n \in Nat /\ n > 1 /\ n <= Len(stack) + 1 /\ Shape(stack', n, f) BY <1>3, <1>4
  <2>2. /\ f.kind # "main"
        /\ n > 2 => Started(stack[n - 1], f)
        /\ f.kind = "fn" => \A i \in 1..(n - 1) : stack[i].fn < f.fn
        /\ f.kind # "fn" => n > 2 /\ f.fn = stack[n - 1].fn
        /\ n > 2 \/ ~f.mark
    BY <1>1, <1>4, <1>5
  <2>3. nfn' \in Nat /\ nfn <= nfn' /\ f.fn <= nfn' /\ f.fn \in DOMAIN fns' BY <1>1, <1>4
  <2>4. \A i \in 1..(n - 1) : stack[i].fn \in DOMAIN fns'
    <3>1. \A i \in 1..(n - 1) : i \in 1..Len(stack) BY <1>4
    <3>. QED  BY <1>4, <3>1
  <2>5. stack[1].pos = 1 /\ f \in Frame BY <1>1, <1>4
  <2>. HIDE DEF n
  <2>. QED  BY <1>6, <2>1, <2>2, <2>3, <2>4, <2>5, ShapeDiscipline
<1>8. BlocksKept'
  <2>1. Stays(ip', f.fn)
    BY <1>1, KeptFacts DEF AllStay, Stays
  <2>2. ASSUME NEW j \in 2..Len(stack)
        PROVE  Served(stack[j], stack[j - 1].fn) /\ (Pending(stack[j]) => ip' # stack[j].next)
    <3>1. Served(stack[j], stack[j - 1].fn) BY KeptFacts DEF AllStay, Stays, Served
    <3>2. Pending(stack[j]) => ip' # stack[j].next BY KeptFacts
    <3>. QED  BY <3>1, <3>2
  <2>3. Len(stack) \in 2..Len(stack) BY <1>4
  <2>4. Served(f, stack[Len(stack) - 1].fn)
    BY <1>1, <2>2, <2>3 DEF Served, Pending, Top
  <2>5. Pending(f) => ip' # f.next /\ f.pb # f.next /\ (f.kind = "then" => f.two # f.next)
    BY <1>1, <2>2, <2>3, KeptFacts DEF Pending, Top
  <2>6. ASSUME NEW j \in 2..(Len(stack) - 1)
        PROVE  /\ Pending(f) => Avoids(stack[j], f.next)
               /\ Pending(stack[j]) => Avoids(f, stack[j].next)
    <3>1. j \in 2..Len(stack) /\ j # Len(stack) BY <1>4
    <3>2. Pending(f) => Avoids(stack[j], f.next)
      BY <3>1, <2>3, <1>1, KeptFacts DEF Pending, Top
    <3>3. Pending(stack[j]) => Avoids(f, stack[j].next)
      <4>1. Pending(stack[j]) => Avoids(Top, stack[j].next) BY <3>1, <2>3, KeptFacts DEF Top
      <4>. QED  BY <4>1, <1>1 DEF Avoids, Pending
    <3>. QED  BY <3>2, <3>3
  <2>7. \A j \in 2..(Len(stack) - 1) : j \in 2..Len(stack) BY <1>4
  <2>8. \A j \in 2..(Len(stack) - 1) :
          /\ Served(stack[j], stack[j - 1].fn)
          /\ Pending(f) => Avoids(stack[j], f.next)
          /\ Pending(stack[j]) => ip' # stack[j].next /\ Avoids(f, stack[j].next)
    BY <2>2, <2>6, <2>7
  <2>9. f \in Frame /\ Len(stack) \in Nat /\ Len(stack) <= Len(stack) + 1
    BY <1>1, <1>4
  <2>. QED  BY <1>3, <2>1, <2>4, <2>5, <2>8, <2>9, ShapeBlocks
<1>. QED  BY <1>3, <1>7, <1>8 DEF Shape

\* A routine begins: its frame is pushed, with blocks of its own that are new.
LEMMA PushInv ==
  ASSUME Inv1, status = "run", prog' = prog,
         NEW STATE f, f \in Frame, stack' = Append(stack, f),
         stack[1].pos = 1, f.pos = 1, f.pb = ip, f.kind # "main",
         Len(stack) > 1 => Started(Top, f), Len(stack) > 1 \/ ~f.mark,
         f.kind = "fn" => nfn < f.fn,
         f.kind # "fn" => Len(stack) > 1 /\ f.fn = Top.fn,
         nfn' \in Nat, nfn <= nfn', f.fn <= nfn', f.fn \in DOMAIN fns', DOMAIN fns \subseteq DOMAIN fns',
         AllStay, Stays(ip', f.fn), ip' > nblk \/ (ip' = ip /\ ~Pending(f)),
         Pending(f) => /\ Stays(f.next, f.fn) /\ f.next > nblk /\ ip' # f.next
                       /\ f.kind = "then" => Stays(f.two, f.fn) /\ f.two > nblk /\ f.two # f.next
  PROVE  stack' \in Seq(Frame) /\ StackDiscipline' /\ FnsAlive' /\ BlocksKept'
<1>1. Shape(stack', Len(stack) + 1, f) BY PushShape
<1>2. Len(stack) \in Nat /\ Len(stack) >= 1 BY StackFacts
<1>3. (Len(stack) + 1) - 1 = Len(stack) BY <1>2
<1>4. StackDiscipline' /\ FnsAlive'
  <2>1. f.pos \in 1..(Len(prog.body[f.body]) + 1)
    <3>1. prog.body[f.body] \in Seq(Line) BY DEF Inv1, Typed, WellFormed, Program, Frame
    <3>. QED  BY <3>1, LenProperties
  <2>2. f.kind = "fn" => \A i \in 1..Len(stack) : stack[i].fn < f.fn
    BY FnFacts DEF Frame
  <2>3. \A i \in 1..Len(stack) : stack[i].fn \in DOMAIN fns' BY DEF Inv1, FnsAlive
  <2>4. /\ Len(stack) + 1 \in Nat /\ Len(stack) + 1 > 1
        /\ Len(stack) + 1 > 2 => Started(stack[Len(stack)], f)
        /\ f.kind # "fn" => Len(stack) + 1 > 2 /\ f.fn = stack[Len(stack)].fn
        /\ Len(stack) + 1 > 2 \/ ~f.mark
    BY <1>2 DEF Top
  <2>. QED  BY <1>1, <1>3, <2>1, <2>2, <2>3, <2>4, ShapeDiscipline
<1>5. BlocksKept'
  <2>1. Served(f, stack[Len(stack)].fn)
    BY KeptFacts DEF AllStay, Stays, Served, Top, Pending
  <2>2. ASSUME NEW j \in 2..Len(stack)
        PROVE  /\ Served(stack[j], stack[j - 1].fn)
               /\ Pending(f) => Avoids(stack[j], f.next)
               /\ Pending(stack[j]) => ip' # stack[j].next /\ Avoids(f, stack[j].next)
    <3>1. Served(stack[j], stack[j - 1].fn) BY KeptFacts DEF AllStay, Stays, Served
    <3>2. /\ stack[j].pb \in 1..nblk
          /\ stack[j].kind = "then" => stack[j].two \in 1..nblk
          /\ Pending(stack[j]) => stack[j].next \in 1..nblk /\ ip # stack[j].next
      BY KeptFacts
    <3>3. nblk \in Nat BY KeptFacts
    <3>4. ASSUME Pending(f) PROVE Avoids(stack[j], f.next)
      <4>1. f.next > nblk /\ f.next \in Nat BY <3>4 DEF Frame
      <4>. QED  BY <4>1, <3>2, <3>3 DEF Avoids
    <3>5. Pending(stack[j]) => ip' # stack[j].next /\ Avoids(f, stack[j].next)
      BY <3>2, <3>3 DEF Avoids, Pending
    <3>. QED  BY <3>1, <3>4, <3>5
  <2>3. Pending(f) => ip' # f.next /\ f.pb # f.next /\ (f.kind = "then" => f.two # f.next)
    BY KeptFacts
  <2> DEFINE n == Len(stack) + 1
  <2>4. n \in Nat /\ n > 1 /\ n - 1 = Len(stack) /\ n <= Len(stack) + 1 BY <1>2
  <2>5. Shape(stack', n, f) BY <1>1
  <2>. HIDE DEF n
  <2>6. Served(f, stack[n - 1].fn) BY <2>1, <2>4
  <2>7. \A j \in 2..(n - 1) : j \in 2..Len(stack) BY <2>4
  <2>. QED  BY <2>2, <2>3, <2>4, <2>5, <2>6, <2>7, ShapeBlocks
<1>. QED  BY <1>1, <1>4, <1>5 DEF Shape

\* A routine is over.  Its own blocks may be gone: nb or mergebb, or those of the function erased.
LEMMA PopInv ==
  ASSUME Inv1, status = "run", Len(stack) > 2, Pop, prog' = prog, nfn' = nfn,
         \A i \in 1..(Len(stack) - 1) : stack[i].fn \in DOMAIN fns',
         \A b \in DOMAIN blocks : \/ Stays(b, blocks[b].fn)
                                  \/ Pending(Top) /\ b = Top.next
                                  \/ Top.kind = "fn" /\ blocks[b].fn = Top.fn,
         ip' = Top.pb \/ (Pending(Top) /\ ip' = Top.next /\ Stays(ip', Top.fn))
  PROVE  stack' \in Seq(Frame) /\ StackDiscipline' /\ FnsAlive' /\ BlocksKept'
<1> DEFINE n == Len(stack) - 1
           f == [Caller EXCEPT !.pos = @ + 1]
<1>1. f \in Frame /\ f.pos = Caller.pos + 1 /\ f.kind = Caller.kind /\ f.fn = Caller.fn /\ f.body = Caller.body
      /\ f.pb = Caller.pb /\ f.two = Caller.two /\ f.next = Caller.next /\ f.mark = Caller.mark
  BY StackFacts, NextLine
<1>2. Shape(stack', n, f)
  <2>1. n \in Nat /\ n \in 1..Len(stack) /\ Caller = stack[n] BY StackFacts DEF Caller
  <2>2. Below \in Seq(Frame) /\ Len(Below) = n /\ \A i \in 1..n : Below[i] = stack[i]
    BY <2>1, StackFacts, SubSeqProperties DEF Below
  <2>3. Below[n] = Caller BY <2>1, <2>2
  <2>4. stack' = [Below EXCEPT ![n] = f] BY <2>3 DEF Pop, Advance
  <2>. HIDE DEF f, n
  <2>. QED  BY <1>1, <2>1, <2>2, <2>4, ExceptSeq DEF Shape
<1>3. /\ Len(stack) \in Nat /\ n \in Nat /\ n > 1 /\ n \in 2..Len(stack) /\ Len(stack) \in 2..Len(stack)
      /\ n <= Len(stack) + 1 /\ n # Len(stack)
      /\ Caller = stack[n] /\ Top = stack[Len(stack)]
  <2>1. Len(stack) \in Nat BY StackFacts
  <2>. QED  BY <2>1 DEF Caller, Top
<1>4. \A j \in 2..n : j \in 2..Len(stack) /\ j # Len(stack) BY <1>3
<1>5. \A j \in 2..(n - 1) : j \in 2..n /\ j # n BY <1>3
<1>. HIDE DEF f, n
<1>6. /\ stack[1].pos = 1 /\ Caller.kind # "main"
      /\ n > 2 => Started(stack[n - 1], Caller)
      /\ Caller.kind = "fn" => \A i \in 1..(n - 1) : stack[i].fn < Caller.fn
      /\ Caller.kind # "fn" => n > 2 /\ Caller.fn = stack[n - 1].fn
      /\ Caller.fn \in DOMAIN fns' /\ \A i \in 1..(n - 1) : stack[i].fn \in DOMAIN fns'
      /\ Caller.fn <= nfn /\ nfn \in Nat
      /\ Started(Caller, Top)
      /\ Caller.pos \in DOMAIN prog.body[Caller.body] /\ prog.body[Caller.body] \in Seq(Line)
  <2>1. /\ stack[1].pos = 1 /\ Caller.kind # "main"
        /\ n > 2 => Started(stack[n - 1], Caller)
        /\ Caller.kind = "fn" => \A i \in 1..(n - 1) : stack[i].fn < Caller.fn
        /\ Caller.kind # "fn" => n > 2 /\ Caller.fn = stack[n - 1].fn
    BY <1>3 DEF Inv1, StackDiscipline
  <2>2. /\ Caller.fn \in DOMAIN fns' /\ \A i \in 1..(n - 1) : stack[i].fn \in DOMAIN fns'
    BY <1>3 DEF n
  <2>3. Caller.fn <= nfn /\ nfn \in Nat BY <1>3, FnFacts
  <2>4. Started(Caller, Top)
    BY <1>3 DEF Inv1, StackDiscipline, n
  <2>5. Caller.pos \in DOMAIN prog.body[Caller.body] BY <2>4 DEF Started
  <2>6. prog.body[Caller.body] \in Seq(Line)
    <3>1. Caller \in Frame BY StackFacts
    <3>. QED  BY <3>1 DEF Inv1, Typed, WellFormed, Program, Frame
  <2>. QED  BY <2>1, <2>2, <2>3, <2>4, <2>5, <2>6
<1>7. StackDiscipline' /\ FnsAlive'
  <2>1. f.pos \in 1..(Len(prog.body[f.body]) + 1)
    <3> DEFINE text == prog.body[Caller.body]
    <3>1. text \in Seq(Line) /\ Caller.pos \in DOMAIN text BY <1>6
    <3>2. f.pos = Caller.pos + 1 /\ prog.body[f.body] = text BY <1>1
    <3>. HIDE DEF text
    <3>3. Len(text) \in Nat /\ DOMAIN text = 1..Len(text) BY <3>1, LenProperties
    <3>. QED  BY <3>1, <3>2, <3>3
  <2>2. n > 2 => Started(stack[n - 1], f) BY <1>1, <1>6 DEF Started
  <2>3. n > 2 \/ ~f.mark
    <3>1. ~stack[2].mark BY DEF Inv1, FnsAlive
    <3>2. CASE n = 2 BY <3>1, <3>2, <1>1, <1>3
    <3>. QED  BY <3>2, <1>3
  <2>4. /\ f.kind = "fn" => \A i \in 1..(n - 1) : stack[i].fn < f.fn
        /\ f.kind # "fn" => n > 2 /\ f.fn = stack[n - 1].fn
        /\ f.fn <= nfn' /\ nfn' \in Nat /\ nfn <= nfn' /\ f.kind # "main" /\ f.fn \in DOMAIN fns'
    BY <1>1, <1>6
  <2>. QED  BY <1>1, <1>2, <1>3, <1>6, <2>1, <2>2, <2>3, <2>4, ShapeDiscipline
<1>8. \A i \in 1..n : Top.kind = "fn" => stack[i].fn # Top.fn
  <2>1. Top.kind = "fn" => \A i \in 1..n : stack[i].fn < Top.fn
    BY <1>3 DEF Inv1, StackDiscipline, n
  <2>2. Top.fn \in Nat /\ \A i \in 1..n : stack[i].fn \in Nat BY <1>3, FnFacts
  <2>. QED  BY <2>1, <2>2
<1>9. ASSUME NEW j \in 2..n PROVE Served(stack[j], stack[j - 1].fn)
  <2>1. stack[j].fn \in Nat /\ j \in 1..n /\ j - 1 \in 1..n BY <1>3, <1>4, FnFacts
  <2>2. /\ stack[j].pb \in DOMAIN blocks /\ blocks[stack[j].pb].fn = stack[j - 1].fn
        /\ stack[j].kind = "then" => stack[j].two \in DOMAIN blocks /\ blocks[stack[j].two].fn = stack[j].fn
        /\ Pending(stack[j]) => stack[j].next \in DOMAIN blocks /\ blocks[stack[j].next].fn = stack[j].fn
    BY <1>4, KeptFacts
  <2>3. Pending(Top) => Avoids(stack[j], Top.next) BY <1>3, <1>4, KeptFacts
  <2>. QED  BY <1>8, <2>1, <2>2, <2>3 DEF Served, Avoids
<1>10. BlocksKept'
  <2>1. Stays(ip', f.fn)
    <3>1. CASE ip' = Top.pb
      <4>1. Top.pb \in DOMAIN blocks /\ blocks[Top.pb].fn = Caller.fn BY <1>3, KeptFacts DEF n
      <4>2. Pending(Top) => Top.pb # Top.next BY <1>3, KeptFacts
      <4>3. Top.kind = "fn" => Caller.fn # Top.fn BY <1>3, <1>8
      <4>. QED  BY <3>1, <4>1, <4>2, <4>3, <1>1
    <3>2. CASE Pending(Top) /\ ip' = Top.next /\ Stays(ip', Top.fn)
      <4>1. Top.fn = Caller.fn BY <1>3, <3>2 DEF Inv1, StackDiscipline, Pending, n
      <4>. QED  BY <4>1, <3>2, <1>1
    <3>. QED  BY <3>1, <3>2
  <2>2. Served(f, stack[n - 1].fn) BY <1>1, <1>3, <1>9 DEF Served, Pending
  <2>3. ASSUME NEW j \in 2..n, Pending(stack[j]) PROVE ip' # stack[j].next
    <3>1. Avoids(Top, stack[j].next) BY <1>3, <1>4, <2>3, KeptFacts
    <3>. QED  BY <3>1 DEF Avoids
  <2>4. Pending(f) => ip' # f.next /\ f.pb # f.next /\ (f.kind = "then" => f.two # f.next)
    <3>1. n \in 2..n BY <1>3
    <3>2. Pending(Caller) => /\ ip' # Caller.next /\ Caller.pb # Caller.next
                             /\ Caller.kind = "then" => Caller.two # Caller.next
      BY <3>1, <1>3, <2>3, KeptFacts
    <3>. QED  BY <3>2, <1>1 DEF Pending
  <2>5. ASSUME NEW j \in 2..(n - 1)
        PROVE  /\ Pending(f) => Avoids(stack[j], f.next)
               /\ Pending(stack[j]) => Avoids(f, stack[j].next)
    <3>1. j \in 2..Len(stack) /\ n \in 2..Len(stack) /\ j # n BY <1>3, <1>4, <1>5
    <3>2. Pending(f) => Avoids(stack[j], f.next) BY <3>1, <1>1, <1>3, KeptFacts DEF Pending
    <3>3. Pending(stack[j]) => Avoids(Caller, stack[j].next) BY <3>1, <1>3, KeptFacts
    <3>. QED  BY <3>2, <3>3, <1>1 DEF Avoids, Pending
  <2>. QED  BY <1>1, <1>2, <1>3, <1>5, <1>9, <2>1, <2>2, <2>3, <2>4, <2>5, ShapeBlocks
<1>. QED  BY <1>2, <1>7, <1>10 DEF Shape

\* The user's function is written: main goes on.
LEMMA MainInv ==
  ASSUME Inv1, status = "run", Len(stack) > 1, Caller.kind = "main",
         NEW STATE g, g \in Nat, stack' = [Below EXCEPT ![1] = [@ EXCEPT !.pos = 2, !.next = g]],
         nfn' = nfn, 1 \in DOMAIN fns', g \in DOMAIN fns',
         ip' = Top.pb, Stays(ip', 1)
  PROVE  stack' \in Seq(Frame) /\ StackDiscipline' /\ FnsAlive' /\ BlocksKept'
<1> DEFINE h == [stack[1] EXCEPT !.pos = 2, !.next = g]
<1>1. Len(stack) < 3 BY StackFacts
<1>2. /\ Below \in Seq(Frame) /\ Len(Below) = Len(stack) - 1 /\ \A i \in 1..(Len(stack) - 1) : Below[i] = stack[i]
  BY StackFacts, SubSeqProperties DEF Below
<1>3. Len(Below) < 2 /\ Len(Below) >= 1 /\ Below[1] = stack[1] BY <1>1, <1>2, StackFacts
<1>4. stack[1] \in Frame /\ stack[1].kind = "main" /\ stack[1].fn = 1
  BY StackFacts DEF Inv1, StackDiscipline
<1>5. h \in Frame /\ h.kind = "main" /\ h.fn = 1 /\ h.pos = 2 /\ h.next = g
  BY <1>4 DEF Frame
<1>6. stack' = [Below EXCEPT ![1] = h] BY <1>3
<1>. HIDE DEF h
<1>7. stack' \in Seq(Frame) /\ Len(stack') = Len(Below) /\ stack'[1] = h
  BY <1>2, <1>3, <1>5, <1>6, ExceptSeq
<1>8. 1 <= nfn BY <1>4, FnFacts, StackFacts
<1>9. /\ Len(stack') \in Nat /\ ~(Len(stack') > 1) /\ Len(stack') >= 1
      /\ \A j \in 2..Len(stack') : FALSE
      /\ \A i \in 1..Len(stack') : i = 1
  <2>1. Len(stack') \in Nat BY <1>7, LenProperties
  <2>. QED  BY <2>1, <1>3, <1>7
<1>10. StackDiscipline' BY <1>5, <1>7, <1>8, <1>9 DEF StackDiscipline
<1>11. FnsAlive' BY <1>5, <1>7, <1>9 DEF FnsAlive
<1>12. BlocksKept'
  <2>0. /\ Len(stack') \in 1..Len(stack')
        /\ \A i \in 1..Len(stack') : stack'[i] = h
    BY <1>7, <1>9
  <2>1. Top' = h BY <2>0 DEF Top
  <2>. QED  BY <2>1, <1>5, <1>9 DEF BlocksKept, Stays, BlocksOf
<1>. QED  BY <1>7, <1>10, <1>11, <1>12

\* Nothing is in progress any more.
LEMMA StopInv ==
  ASSUME Inv1, status' # "run", prog' = prog, stack' = stack, nfn' = nfn
  PROVE  stack' \in Seq(Frame) /\ StackDiscipline' /\ FnsAlive' /\ BlocksKept'
<1>1. stack' \in Seq(Frame) BY DEF Inv1, Typed
<1>2. StackDiscipline'
  <2>1. StackDiscipline BY DEF Inv1
  <2>2. \A j \in 2..Len(stack) :
          /\ stack[j].kind # "main"
          /\ j > 2 => Started(stack[j - 1], stack[j])'
          /\ stack[j].kind = "fn" => \A i \in 1..(j - 1) : stack[i].fn < stack[j].fn
          /\ stack[j].kind # "fn" => j > 2 /\ stack[j].fn = stack[j - 1].fn
          /\ stack[j].pos \in 1..(Len(prog.body[stack[j].body]) + 1)
    BY <2>1, Zenon DEF StackDiscipline, Started
  <2>. QED  BY <2>1, <2>2, Zenon DEF StackDiscipline, Started
<1>3. FnsAlive' /\ BlocksKept' BY DEF FnsAlive, BlocksKept
<1>. QED  BY <1>1, <1>2, <1>3

\* The then branch is over, the else branch begins.
LEMMA ElseInv ==
  ASSUME Inv1, EndThen
  PROVE  stack' \in Seq(Frame) /\ StackDiscipline' /\ FnsAlive' /\ BlocksKept'
<1> DEFINE n == Len(stack)
           f == [Top EXCEPT !.kind = "else", !.body = LineOf(Caller).b, !.pos = 1, !.used = ~HasTerminator(ip)]
<1>0. status = "run" /\ Top.kind = "then" /\ AtEnd("then") /\ prog' = prog /\ nfn' = nfn /\ fns' = fns
      /\ ip' = Top.two /\ blocks' = Fall /\ stack' = [stack EXCEPT ![n] = f]
  BY DEF EndThen, AtEnd, Top
<1>1. n \in Nat /\ n > 2 /\ n \in 2..n /\ n > 1 /\ n <= Len(stack) + 1 /\ Top \in Frame /\ Caller \in Frame /\ Caller = stack[n - 1] /\ Top = stack[n]
  <2>1. n > 1 /\ n \in Nat /\ Top \in Frame /\ n \in 2..n BY <1>0, StackFacts
  <2>2. n > 2 BY <2>1, <1>0 DEF Inv1, StackDiscipline, Top
  <2>. QED  BY <2>1, <2>2, StackFacts DEF Top, Caller
<1>2. /\ Started(Caller, Top) /\ Top.fn = Caller.fn /\ stack[1].pos = 1 /\ Top.fn <= nfn /\ nfn \in Nat
      /\ \A i \in 1..n : stack[i].fn \in DOMAIN fns
  BY <1>0, <1>1, FnFacts DEF Inv1, StackDiscipline, FnsAlive
<1>3. LineOf(Caller) \in Line
  <2>1. Caller.kind # "main" BY <1>1, StackFacts
  <2>2. "then" # "main" OBVIOUS
  <2>. QED  BY <1>0, <2>1, <2>2, EndFacts
<1>4. /\ f \in Frame /\ f.kind = "else" /\ f.body = LineOf(Caller).b /\ f.pos = 1 /\ f.fn = Top.fn
      /\ f.pb = Top.pb /\ f.two = Top.two /\ f.next = Top.next
  BY <1>1, <1>3 DEF Frame, Line
<1>5. Shape(stack', n, f) BY <1>0, <1>4, ReplaceShape
<1>6. prog.body[f.body] \in Seq(Line) BY <1>3, <1>4 DEF Line, Inv1, Typed, WellFormed, Program
<1>. HIDE DEF f, n
<1>7. AllStay
  <2>1. ASSUME NEW b \in DOMAIN blocks, NEW is PROVE Stays(b, blocks[b].fn)
    BY <1>0 DEF Fall, AppendTo, Stays, Inv1, Typed, Block
  <2>. QED  BY <2>1 DEF AllStay
<1>8. StackDiscipline' /\ FnsAlive'
  <2>1. f.pos \in 1..(Len(prog.body[f.body]) + 1) BY <1>4, <1>6, LenProperties
  <2>2. Started(stack[n - 1], f) BY <1>0, <1>1, <1>2, <1>4 DEF Started
  <2>3. f.fn \in DOMAIN fns' /\ \A i \in 1..(n - 1) : stack[i].fn \in DOMAIN fns' BY <1>0, <1>1, <1>2, <1>4
  <2>4. f.fn = stack[n - 1].fn /\ f.fn <= nfn' /\ nfn' \in Nat /\ nfn <= nfn' BY <1>0, <1>1, <1>2, <1>4
  <2>. QED  BY <1>0, <1>1, <1>2, <1>4, <1>5, <2>1, <2>2, <2>3, <2>4, ShapeDiscipline
<1>9. BlocksKept'
  <2>1. Stays(ip', f.fn) BY <1>0, <1>1, <1>4, <1>7, KeptFacts DEF AllStay, n
  <2>2. ASSUME NEW j \in 2..n PROVE Served(stack[j], stack[j - 1].fn) /\ (Pending(stack[j]) => ip' # stack[j].next)
    <3>1. Served(stack[j], stack[j - 1].fn) BY <1>0, <1>7, KeptFacts DEF AllStay, Stays, Served, n
    <3>2. Pending(stack[j]) => ip' # stack[j].next BY <1>0, <1>1, KeptFacts DEF n
    <3>. QED  BY <3>1, <3>2
  <2>3. Served(f, stack[n - 1].fn) BY <1>0, <1>1, <1>4, <2>2 DEF Served, Pending
  <2>4. Pending(f) => ip' # f.next /\ f.pb # f.next /\ (f.kind = "then" => f.two # f.next)
    BY <1>0, <1>1, <1>4, <2>2, KeptFacts DEF Pending, n
  <2>5. ASSUME NEW j \in 2..(n - 1)
        PROVE  /\ Pending(f) => Avoids(stack[j], f.next)
               /\ Pending(stack[j]) => Avoids(f, stack[j].next)
    <3>1. j \in 2..n /\ j # n BY <1>1
    <3>2. Pending(Top) BY <1>0 DEF Pending
    <3>3. Avoids(stack[j], Top.next) BY <3>1, <3>2, <1>0, <1>1, KeptFacts DEF n
    <3>4. Pending(stack[j]) => Avoids(Top, stack[j].next) BY <3>1, <1>0, <1>1, KeptFacts DEF n
    <3>. QED  BY <3>2, <3>3, <3>4, <1>4 DEF Avoids
  <2>6. \A j \in 2..(n - 1) : j \in 2..n BY <1>1
  <2>. QED  BY <1>0, <1>1, <1>4, <1>5, <2>1, <2>2, <2>3, <2>4, <2>5, <2>6, ShapeBlocks
<1>. QED  BY <1>5, <1>8, <1>9 DEF Shape

\* The survey function is erased and the real pass begins.
LEMMA RealInv ==
  ASSUME Inv1, StartReal
  PROVE  stack' \in Seq(Frame) /\ StackDiscipline' /\ FnsAlive' /\ BlocksKept'
<1> DEFINE n == Len(stack)
           f == RealOf(Top, nfn + 1, nblk + 1)
           bs == Create(Erase(blocks, BlocksOf(Top.fn)), {nblk + 1}, nfn + 1)
           is == <<Plain("alloca"), [Plain("store") EXCEPT !.fn = {nfn + 1}]>>
<1>0. /\ status = "run" /\ Top.kind = "fn" /\ prog' = prog /\ nfn' = nfn + 1
      /\ ip' = nblk + 1 /\ stack' = [stack EXCEPT ![n] = f]
      /\ blocks' = AppendTo(bs, nblk + 1, is)
      /\ DOMAIN fns' = (DOMAIN fns \ {Top.fn}) \cup {nfn + 1}
  BY DEF StartReal, EndSurvey, AtEnd, Top, Dismissed, RealOf
<1>1. /\ n \in Nat /\ n \in 2..n /\ n > 1 /\ n <= Len(stack) + 1 /\ Top \in Frame /\ Top = stack[n]
  BY <1>0, StackFacts DEF Top
<1>2. /\ n > 2 => Started(stack[n - 1], Top)
      /\ stack[1].pos = 1 /\ (n > 2 \/ ~Top.mark)
      /\ \A i \in 1..(n - 1) : stack[i].fn < Top.fn
      /\ \A i \in 1..n : stack[i].fn \in DOMAIN fns /\ stack[i].fn <= nfn /\ stack[i].fn \in Nat
      /\ nfn \in Nat
  BY <1>0, <1>1, FnFacts DEF Inv1, StackDiscipline, FnsAlive
<1>3. nblk \in Nat /\ DOMAIN blocks \subseteq 1..nblk BY DEF Inv1, Typed
<1>4. /\ f \in Frame /\ f.kind = "fn" /\ f.body = Top.body /\ f.pos = 1 /\ f.fn = nfn + 1
      /\ f.pb = Top.pb /\ f.mark = Top.mark
  <2>1. nfn + 1 \in Nat /\ nblk + 1 \in Nat BY <1>2, <1>3
  <2>. QED  BY <1>0, <1>1, <2>1, RealFrame
<1>5. Shape(stack', n, f) BY <1>0, <1>4, ReplaceShape
<1>6. prog.body[f.body] \in Seq(Line) BY <1>1, <1>4 DEF Frame, Inv1, Typed, WellFormed, Program
<1>7. /\ DOMAIN blocks' = (DOMAIN blocks \ BlocksOf(Top.fn)) \cup {nblk + 1}
      /\ \A b \in DOMAIN blocks : blocks[b].fn # Top.fn => Stays(b, blocks[b].fn)
      /\ Stays(nblk + 1, nfn + 1)
  <2>1. /\ DOMAIN bs = (DOMAIN blocks \ BlocksOf(Top.fn)) \cup {nblk + 1}
        /\ bs[nblk + 1].fn = nfn + 1
        /\ \A b \in DOMAIN blocks : blocks[b].fn # Top.fn => b \in DOMAIN bs /\ bs[b].fn = blocks[b].fn
    BY <1>3 DEF Create, Erase, BlocksOf
  <2>2. ASSUME NEW b \in DOMAIN bs PROVE b \in DOMAIN blocks' /\ blocks'[b].fn = bs[b].fn
    <3>1. bs \in [DOMAIN bs -> Block]
      <4> DEFINE es == Erase(blocks, BlocksOf(Top.fn))
      <4>1. es \in [DOMAIN es -> Block] BY EraseType DEF Inv1, Typed
      <4>2. nfn + 1 \in Nat BY <1>2
      <4>. HIDE DEF es
      <4>3. Create(es, {nblk + 1}, nfn + 1) \in [DOMAIN Create(es, {nblk + 1}, nfn + 1) -> Block]
        BY <4>1, <4>2, CreateType
      <4>. QED  BY <4>3 DEF es
    <3>. HIDE DEF bs, is
    <3>. QED  BY <1>0, <3>1 DEF AppendTo, Block
  <2>3. DOMAIN blocks' = DOMAIN bs
    <3>. HIDE DEF bs, is
    <3>. QED  BY <1>0 DEF AppendTo
  <2>. HIDE DEF bs
  <2>. QED  BY <2>1, <2>2, <2>3 DEF Stays
<1>. HIDE DEF f, n
<1>8. StackDiscipline' /\ FnsAlive'
  <2>1. f.pos \in 1..(Len(prog.body[f.body]) + 1) BY <1>4, <1>6, LenProperties
  <2>2. n > 2 => Started(stack[n - 1], f) BY <1>0, <1>2, <1>4 DEF Started
  <2>3. \A i \in 1..(n - 1) : stack[i].fn < f.fn /\ stack[i].fn \in DOMAIN fns'
    BY <1>0, <1>1, <1>2, <1>4
  <2>4. f.fn \in DOMAIN fns' /\ f.fn <= nfn' /\ nfn' \in Nat /\ nfn <= nfn' /\ f.kind # "main" /\ f.kind = "fn"
        /\ (n > 2 \/ ~f.mark)
    BY <1>0, <1>2, <1>4
  <2>. QED  BY <1>0, <1>1, <1>2, <1>4, <1>5, <2>1, <2>2, <2>3, <2>4, ShapeDiscipline
<1>9. BlocksKept'
  <2>1. Stays(ip', f.fn) /\ ~Pending(f) BY <1>0, <1>4, <1>7 DEF Pending
  <2>2. Served(f, stack[n - 1].fn)
    <3>1. Top.pb \in DOMAIN blocks /\ blocks[Top.pb].fn = stack[n - 1].fn BY <1>0, <1>1, KeptFacts DEF n
    <3>2. stack[n - 1].fn # Top.fn BY <1>1, <1>2
    <3>. QED  BY <3>1, <3>2, <1>4, <1>7, <2>1 DEF Served
  <2>3. ASSUME NEW j \in 2..(n - 1)
        PROVE  Served(stack[j], stack[j - 1].fn) /\ (Pending(stack[j]) => ip' # stack[j].next /\ Avoids(f, stack[j].next))
    <3>1. j \in 2..Len(stack) /\ j \in 1..(n - 1) /\ j - 1 \in 1..(n - 1) /\ j \in 1..n /\ j - 1 \in 1..n
      BY <1>1 DEF n
    <3>2. stack[j].fn # Top.fn /\ stack[j - 1].fn # Top.fn BY <3>1, <1>1, <1>2
    <3>3. /\ stack[j].pb \in DOMAIN blocks /\ blocks[stack[j].pb].fn = stack[j - 1].fn
          /\ stack[j].kind = "then" => stack[j].two \in DOMAIN blocks /\ blocks[stack[j].two].fn = stack[j].fn
          /\ Pending(stack[j]) => stack[j].next \in DOMAIN blocks /\ blocks[stack[j].next].fn = stack[j].fn
      BY <3>1, <1>0, KeptFacts
    <3>4. Served(stack[j], stack[j - 1].fn) BY <3>2, <3>3, <1>7 DEF Served
    <3>5. Pending(stack[j]) => ip' # stack[j].next BY <3>3, <1>0, <1>3
    <3>6. Pending(stack[j]) => Top.pb # stack[j].next
      <4>1. Len(stack) \in 2..Len(stack) BY <1>1 DEF n
      <4>. QED  BY <4>1, <3>1, <1>0, KeptFacts DEF Top
    <3>. QED  BY <3>4, <3>5, <3>6, <1>4, <2>1 DEF Avoids
  <2>. QED  BY <1>0, <1>1, <1>4, <1>5, <2>1, <2>2, <2>3, ShapeBlocks
<1>. QED  BY <1>5, <1>8, <1>9 DEF Shape

----------------------------------------------------------------------------
(* Each action keeps the invariant.                                            *)

\* bs is a module's blocks; cs has the blocks of bs, in their functions.
IsCode(bs) == bs \in [DOMAIN bs -> Block]
Fresh(ids, bs) == \A b \in ids : b \notin DOMAIN bs
Has(bs, b, g) == b \in DOMAIN bs /\ bs[b].fn = g
Grows(bs, cs) == \A c \in DOMAIN bs : c \in DOMAIN cs /\ cs[c].fn = bs[c].fn

\* Writing code moves no block; a new block leaves the others alone.
LEMMA AppendGrows ==
  ASSUME NEW bs, IsCode(bs), NEW b, NEW is \in Seq(Instr)
  PROVE  /\ IsCode(AppendTo(bs, b, is)) /\ DOMAIN AppendTo(bs, b, is) = DOMAIN bs
         /\ Grows(bs, AppendTo(bs, b, is))
<1>1. IsCode(AppendTo(bs, b, is)) /\ DOMAIN AppendTo(bs, b, is) = DOMAIN bs
  BY AppendType DEF IsCode
<1>2. Grows(bs, AppendTo(bs, b, is))
  BY DEF Grows, IsCode, AppendTo, Block
<1>. QED  BY <1>1, <1>2

\* Creating blocks with new ids leaves the others alone.
LEMMA CreateGrows ==
  ASSUME NEW bs, IsCode(bs), NEW ids, NEW f \in Nat, Fresh(ids, bs)
  PROVE  /\ IsCode(Create(bs, ids, f)) /\ DOMAIN Create(bs, ids, f) = DOMAIN bs \cup ids
         /\ Grows(bs, Create(bs, ids, f))
         /\ \A c \in ids : Has(Create(bs, ids, f), c, f)
<1>1. IsCode(Create(bs, ids, f)) /\ DOMAIN Create(bs, ids, f) = DOMAIN bs \cup ids
  BY CreateType DEF IsCode
<1>2. Grows(bs, Create(bs, ids, f)) /\ \A c \in ids : Has(Create(bs, ids, f), c, f)
  BY DEF Grows, Create, Fresh, Has
<1>. QED  BY <1>1, <1>2

\* Growing twice is growing.
LEMMA GrowsOn ==
  ASSUME NEW as, NEW bs, NEW cs, Grows(as, bs), Grows(bs, cs)
  PROVE  Grows(as, cs)
BY DEF Grows

\* An error, a null pointer or the end of the stack leaves everything as it is.
LEMMA ThrowInv ==
  ASSUME Inv1, NEW CONSTANT s \in {"error", "crash", "overflow"}, Stop(s)
  PROVE  Inv1'
<1>1. Typed' BY DEF Inv1, Typed, WellFormed, Stop
<1>2. StackDiscipline' /\ FnsAlive' /\ BlocksKept' BY StopInv DEF Stop
<1>. QED  BY <1>1, <1>2 DEF Inv1

\* Code appended at the insert point, for a line that leaves the builder where it is.
LEMMA EmitInv ==
  ASSUME Inv1, NEW CONSTANT op, AtLine(op), NEW STATE is, is \in Seq(Instr), Emit(is),
         scope' \in [Names -> Symbol], gc' \in BOOLEAN
  PROVE  Inv1'
<1>1. /\ prog' = prog /\ ip' = ip /\ fns' = fns /\ nblk' = nblk /\ nfn' = nfn /\ status' = status
      /\ blocks' = AppendTo(blocks, ip, is) /\ stack' = Advance(stack, Len(stack))
  BY DEF Emit
<1>2. IsCode(blocks) BY DEF Inv1, Typed, IsCode
<1>3. DOMAIN blocks' = DOMAIN blocks /\ IsCode(blocks') /\ Grows(blocks, blocks')
  BY <1>1, <1>2, AppendGrows
<1>4. AllStay BY <1>3 DEF AllStay, Stays, Grows
<1>5. /\ status = "run" /\ Len(stack) > 1 /\ Top.pos \in 1..Len(prog.body[Top.body])
  BY LineFacts
<1>6. stack' \in Seq(Frame) /\ StackDiscipline' /\ FnsAlive' /\ BlocksKept'
  BY <1>1, <1>4, <1>5, AdvanceInv
<1>7. Typed' BY <1>1, <1>3, <1>6 DEF Inv1, Typed, WellFormed, IsCode
<1>. QED  BY <1>6, <1>7 DEF Inv1

\* What the actions on lines need of the state.
LEMMA LineTypes ==
  ASSUME Inv1, NEW CONSTANT op, AtLine(op)
  PROVE  /\ scope \in [Names -> Symbol] /\ ip \in Nat /\ gc \in BOOLEAN
         /\ Cur \in Line /\ Complete(Cur) /\ Cur.op = op
         /\ Top.fn \in DOMAIN fns /\ fns[Top.fn].rty \in Types /\ Top.fn \in Nat
<1>1. Top.fn \in DOMAIN fns /\ Top.fn \in Nat
  <2>1. Len(stack) \in 1..Len(stack) BY StackFacts
  <2>. QED  BY <2>1, LineFacts, FnFacts DEF Inv1, FnsAlive, Top
<1>2. fns[Top.fn].rty \in Types BY <1>1 DEF Inv1, Typed, Fn
<1>3. scope \in [Names -> Symbol] /\ ip \in Nat /\ gc \in BOOLEAN BY DEF Inv1, Typed
<1>. QED  BY <1>1, <1>2, <1>3, LineFacts

\* Reading a variable keeps the invariant.
LEMMA UseInv == ASSUME Inv1, Use PROVE Inv1'
<1>1. AtLine("use") BY DEF Use
<1>2. Cur.x \in Names BY <1>1, LineTypes DEF Complete, Line
<1>3. CASE Throw BY <1>3, ThrowInv DEF Throw
<1>4. CASE scope[Cur.x].k \in {"slot", "ptr"} /\ Emit(<<Refer("load", {scope[Cur.x].at})>>) /\ UNCHANGED <<scope, gc>>
  <2>1. scope[Cur.x].at \in Nat BY <1>1, <1>2, <1>4, LineTypes, SymbolFields
  <2>2. <<Refer("load", {scope[Cur.x].at})>> \in Seq(Instr)
    BY <2>1, InstrTypes, CodeTypes DEF Kinds
  <2>3. scope' \in [Names -> Symbol] /\ gc' \in BOOLEAN BY <1>1, <1>4, LineTypes
  <2>. QED  BY <1>1, <1>4, <2>2, <2>3, EmitInv
<1>5. CASE Emit(<< >>) /\ UNCHANGED <<scope, gc>>
  <2>1. scope' \in [Names -> Symbol] /\ gc' \in BOOLEAN BY <1>1, <1>5, LineTypes
  <2>. QED  BY <1>1, <1>5, <2>1, EmitInv, CodeTypes
<1>. QED  BY <1>3, <1>4, <1>5 DEF Use

\* Assigning a variable keeps the invariant.
LEMMA SetInv == ASSUME Inv1, Set PROVE Inv1'
<1>1. PICK o \in {"set", "heap"} : AtLine(o) BY DEF Set
<1>2. Cur.x \in Names /\ ip \in Nat BY <1>1, LineTypes DEF Complete, Line
<1>3. CASE Throw BY <1>3, ThrowInv DEF Throw
<1>4. CASE /\ Emit(<<Plain("alloca"), Refer("store", {ip})>>)
           /\ scope' = [scope EXCEPT ![Cur.x] = SlotIn(ip)] /\ UNCHANGED gc
  <2>1. <<Plain("alloca"), Refer("store", {ip})>> \in Seq(Instr)
    BY <1>2, InstrTypes, CodeTypes DEF Kinds
  <2>2. scope' \in [Names -> Symbol] /\ gc' \in BOOLEAN
    BY <1>1, <1>2, <1>4, LineTypes, SymbolTypes
  <2>. QED  BY <1>1, <1>4, <2>1, <2>2, EmitInv
<1>5. CASE /\ scope[Cur.x].k = "slot" /\ Emit(<<Refer("store", {scope[Cur.x].at})>>)
           /\ UNCHANGED <<scope, gc>>
  <2>1. scope[Cur.x].at \in Nat BY <1>1, <1>2, <1>5, LineTypes, SymbolFields
  <2>2. <<Refer("store", {scope[Cur.x].at})>> \in Seq(Instr)
    BY <2>1, InstrTypes, CodeTypes DEF Kinds
  <2>3. scope' \in [Names -> Symbol] /\ gc' \in BOOLEAN BY <1>1, <1>5, LineTypes
  <2>. QED  BY <1>1, <1>5, <2>2, <2>3, EmitInv
<1>. QED  BY <1>3, <1>4, <1>5 DEF Set

\* Allocating from the collector keeps the invariant.
LEMMA HeapInv == ASSUME Inv1, Heap PROVE Inv1'
<1> DEFINE bs == IF gc THEN blocks ELSE AppendTo(blocks, 1, <<Plain("gcinit")>>)
           is == <<Plain("ccall"), Refer("store", {ip})>>
<1>1. /\ AtLine("heap") /\ prog' = prog /\ ip' = ip /\ fns' = fns /\ nblk' = nblk /\ nfn' = nfn
      /\ status' = status /\ stack' = Advance(stack, Len(stack)) /\ gc' = TRUE
      /\ scope' = [scope EXCEPT ![Cur.x] = SlotIn(ip)]
      /\ blocks' = AppendTo(bs, ip, is)
  BY DEF Heap, LinkGC, InitGC
<1>2. Cur.x \in Names /\ ip \in Nat BY <1>1, LineTypes DEF Complete, Line
<1>3. IsCode(blocks) BY DEF Inv1, Typed, IsCode
<1>4. is \in Seq(Instr) /\ <<Plain("gcinit")>> \in Seq(Instr)
  BY <1>2, InstrTypes, CodeTypes DEF Kinds
<1>5. IsCode(bs) /\ DOMAIN bs = DOMAIN blocks /\ Grows(blocks, bs)
  <2>1. CASE gc
    <3>1. bs = blocks BY <2>1
    <3>. HIDE DEF bs
    <3>. QED  BY <3>1, <1>3 DEF Grows
  <2>2. CASE ~gc
    <3>1. bs = AppendTo(blocks, 1, <<Plain("gcinit")>>) BY <2>2
    <3>. HIDE DEF bs
    <3>. QED  BY <3>1, <1>3, <1>4, AppendGrows
  <2>. QED  BY <2>1, <2>2
<1>. HIDE DEF bs, is
<1>6. DOMAIN blocks' = DOMAIN blocks /\ IsCode(blocks') /\ Grows(bs, blocks')
  BY <1>1, <1>4, <1>5, AppendGrows
<1>7. AllStay BY <1>5, <1>6, GrowsOn DEF AllStay, Stays, Grows
<1>8. /\ status = "run" /\ Len(stack) > 1 /\ Top.pos \in 1..Len(prog.body[Top.body])
  BY <1>1, LineFacts
<1>9. stack' \in Seq(Frame) /\ StackDiscipline' /\ FnsAlive' /\ BlocksKept'
  BY <1>1, <1>7, <1>8, AdvanceInv
<1>10. scope' \in [Names -> Symbol] /\ gc' \in BOOLEAN BY <1>1, <1>2, LineTypes, SymbolTypes
<1>11. Typed' BY <1>1, <1>2, <1>6, <1>9, <1>10 DEF Inv1, Typed, WellFormed, IsCode
<1>. QED  BY <1>9, <1>11 DEF Inv1

\* Importing a header keeps the invariant.
LEMMA ImportHeaderInv == ASSUME Inv1, ImportHeader PROVE Inv1'
<1>1. PICK o \in {"header", "link", "gclink"} : AtLine(o) BY DEF ImportHeader, AtHeader
<1>2. ip \in Nat BY <1>1, LineTypes
<1>3. <<Plain("alloca"), Refer("store", {ip})>> \in Seq(Instr) BY <1>2, InstrTypes, CodeTypes DEF Kinds
<1>4. scope' \in [Names -> Symbol] /\ gc' \in BOOLEAN BY <1>1, LineTypes DEF ImportHeader
<1>. QED  BY <1>1, <1>3, <1>4, EmitInv DEF ImportHeader

\* Binding a lazy literal keeps the invariant.
LEMMA BindInv == ASSUME Inv1, Bind PROVE Inv1'
<1>1. AtLine("fun") BY DEF Bind
<1> DEFINE is == IF scope[Cur.x].k = "none" THEN <<Plain("alloca")>> ELSE << >>
<1>2. Cur.x \in Names /\ Cur.a \in Bodies BY <1>1, LineTypes DEF Complete, Line
<1>3. Marked \in BOOLEAN BY StackFacts DEF Marked, Frame
<1>4. is \in Seq(Instr) BY InstrTypes, CodeTypes DEF Kinds
<1>5. Emit(is) /\ scope' = [scope EXCEPT ![Cur.x] = [k |-> "fn", at |-> Cur.a, mark |-> Marked]] /\ gc' = gc
  BY DEF Bind
<1>. HIDE DEF is
<1>6. scope' \in [Names -> Symbol] /\ gc' \in BOOLEAN
  BY <1>1, <1>2, <1>3, <1>5, LineTypes, SymbolTypes
<1>. QED  BY <1>1, <1>4, <1>5, <1>6, EmitInv

\* Returning a value keeps the invariant.
LEMMA ReturnInv == ASSUME Inv1, Return PROVE Inv1'
<1>1. AtLine("ret") /\ Emit(<<Ret(Cur.ty)>>) /\ scope' = scope /\ gc' = gc BY DEF Return
<1>2. Cur.ty \in Types BY <1>1, LineTypes DEF Line
<1>3. <<Ret(Cur.ty)>> \in Seq(Instr) BY <1>2, InstrTypes, CodeTypes
<1>4. scope' \in [Names -> Symbol] /\ gc' \in BOOLEAN BY <1>1, LineTypes
<1>. QED  BY <1>1, <1>3, <1>4, EmitInv

\* Returning a call of @self keeps the invariant.
LEMMA ReturnSelfInv == ASSUME Inv1, ReturnSelf PROVE Inv1'
<1> DEFINE is == <<Plain("load"), CallOf(Top.fn, fns[Top.fn].rty), Ret(fns[Top.fn].rty)>>
<1>1. AtLine("retself") BY DEF ReturnSelf
<1>2. is \in Seq(Instr) BY <1>1, LineTypes, InstrTypes, CodeTypes DEF Kinds
<1>3. CASE Throw BY <1>3, ThrowInv DEF Throw
<1>4. CASE Emit(is) /\ UNCHANGED <<scope, gc>>
  <2>1. scope' \in [Names -> Symbol] /\ gc' \in BOOLEAN BY <1>1, <1>4, LineTypes
  <2>. HIDE DEF is
  <2>. QED  BY <1>1, <1>2, <1>4, <2>1, EmitInv
<1>. QED  BY <1>3, <1>4 DEF ReturnSelf

\* Calling a function behind a pointer keeps the invariant.
LEMMA CallPointerInv == ASSUME Inv1, CallPointer PROVE Inv1'
<1> DEFINE callee == scope[Cur.x]
           call == <<[Plain("call") EXCEPT !.ty = callee.ty]>>
           final == IF Cur.op = "retcall" THEN <<Ret(callee.ty)>> ELSE << >>
           is == Loads(callee) \o Loads(ArgOf(Cur, scope)) \o call \o final
<1>1. PICK o \in {"call", "retcall"} : AtLine(o) BY DEF CallPointer, AtCall
<1>2. callee.k = "ptr" /\ Emit(is) /\ scope' = scope /\ gc' = gc BY DEF CallPointer
<1>3. Cur.x \in Names /\ Cur.y \in Names \cup {None} BY <1>1, LineTypes DEF Complete, Line
<1>4. callee \in Symbol /\ ArgOf(Cur, scope) \in Symbol
  BY <1>1, <1>3, LineTypes, SymbolTypes DEF ArgOf
<1>5. callee.ty \in Types BY <1>2, <1>4, SymbolFields
<1>6. \A s \in Symbol : Loads(s) \in Seq(Instr)
  BY SymbolFields, InstrTypes, CodeTypes DEF Loads, Kinds
<1>7. call \in Seq(Instr)
  <2>1. [Plain("call") EXCEPT !.ty = callee.ty] \in Instr BY <1>5 DEF Plain, Instr, Kinds
  <2>. QED  BY <2>1, CodeTypes
<1>8. final \in Seq(Instr) BY <1>5, InstrTypes, CodeTypes
<1>9. is \in Seq(Instr)
  <2>1. Loads(callee) \in Seq(Instr) /\ Loads(ArgOf(Cur, scope)) \in Seq(Instr) BY <1>4, <1>6
  <2>. HIDE DEF call, final
  <2>. QED  BY <1>7, <1>8, <2>1, ConcatProperties
<1>10. scope' \in [Names -> Symbol] /\ gc' \in BOOLEAN BY <1>1, <1>2, LineTypes
<1>. HIDE DEF is
<1>. QED  BY <1>1, <1>2, <1>9, <1>10, EmitInv

\* A conditional on values keeps the invariant.
LEMMA SelectInv == ASSUME Inv1, Select PROVE Inv1'
<1> DEFINE t == nblk + 1
           e == nblk + 2
           m == nblk + 3
           bs == Create(blocks, {t, e, m}, blocks[ip].fn)
           arm == <<Refer("store", {ip}), Refer("br", {m})>>
           b1 == AppendTo(bs, t, arm)
           b2 == AppendTo(b1, e, arm)
           b3 == AppendTo(b2, ip, <<Plain("alloca"), Refer("br", {t, e})>>)
           b4 == AppendTo(b3, m, <<Refer("load", {ip})>>)
<1>1. /\ AtLine("select") /\ prog' = prog /\ scope' = scope /\ fns' = fns /\ nfn' = nfn /\ gc' = gc
      /\ status' = status /\ stack' = Advance(stack, Len(stack)) /\ ip' = m /\ nblk' = m /\ blocks' = b4
  BY DEF Select
<1>2. /\ status = "run" /\ Len(stack) > 1 /\ Top.pos \in 1..Len(prog.body[Top.body])
  BY <1>1, LineFacts
<1>3. /\ nblk \in Nat /\ DOMAIN blocks \subseteq 1..nblk /\ ip \in DOMAIN blocks /\ blocks[ip].fn = Top.fn
      /\ ip \in Nat /\ IsCode(blocks) /\ Top.fn \in Nat
  BY <1>1, <1>2, KeptFacts, LineTypes DEF Inv1, Typed, IsCode
<1>4. t \in Nat /\ e \in Nat /\ m \in Nat /\ m > nblk /\ \A b \in {t, e, m} : b \notin DOMAIN blocks
      /\ {t, e, m} \subseteq 1..m /\ 1..nblk \subseteq 1..m
  BY <1>3
<1>5. arm \in Seq(Instr) /\ <<Plain("alloca"), Refer("br", {t, e})>> \in Seq(Instr)
      /\ <<Refer("load", {ip})>> \in Seq(Instr)
  BY <1>3, <1>4, InstrTypes, CodeTypes DEF Kinds
<1>6. /\ DOMAIN bs = DOMAIN blocks \cup {t, e, m} /\ IsCode(bs) /\ Grows(blocks, bs) /\ Has(bs, m, Top.fn)
  <2> DEFINE ids == {t, e, m}
  <2>1. m \in ids /\ Fresh(ids, blocks) BY <1>4 DEF Fresh
  <2>2. bs = Create(blocks, ids, Top.fn) BY <1>3
  <2>. HIDE DEF ids, t, e, m, bs
  <2>3. DOMAIN bs = DOMAIN blocks \cup ids /\ IsCode(bs) /\ Grows(blocks, bs) /\ Has(bs, m, Top.fn)
    BY <1>3, <2>1, <2>2, CreateGrows
  <2>. QED  BY <2>3 DEF ids
<1>. HIDE DEF t, e, m, bs, arm
<1>7. IsCode(b1) /\ DOMAIN b1 = DOMAIN bs /\ Grows(bs, b1) BY <1>5, <1>6, AppendGrows
<1>. HIDE DEF b1
<1>8. IsCode(b2) /\ DOMAIN b2 = DOMAIN bs /\ Grows(bs, b2) BY <1>5, <1>7, AppendGrows, GrowsOn
<1>. HIDE DEF b2
<1>9. IsCode(b3) /\ DOMAIN b3 = DOMAIN bs /\ Grows(bs, b3) BY <1>5, <1>8, AppendGrows, GrowsOn
<1>. HIDE DEF b3
<1>10. IsCode(b4) /\ DOMAIN b4 = DOMAIN bs /\ Grows(bs, b4) BY <1>5, <1>9, AppendGrows, GrowsOn
<1>. HIDE DEF b4
<1>11. AllStay /\ Stays(ip', Top.fn) BY <1>1, <1>6, <1>10 DEF AllStay, Stays, Grows, Has
<1>12. stack' \in Seq(Frame) /\ StackDiscipline' /\ FnsAlive' /\ BlocksKept'
  BY <1>1, <1>2, <1>4, <1>11, AdvanceInv
<1>13. Typed'
  <2>1. blocks' \in [DOMAIN blocks' -> Block] /\ DOMAIN blocks' \subseteq 1..nblk' /\ ip' \in Nat /\ nblk' \in Nat
    BY <1>1, <1>3, <1>4, <1>6, <1>10 DEF IsCode
  <2>. QED  BY <1>1, <1>12, <2>1 DEF Inv1, Typed, WellFormed
<1>. QED  BY <1>12, <1>13 DEF Inv1

\* The symbols a function starts with are symbols.
LEMMA FormalsType ==
  ASSUME NEW CONSTANT b, NEW STATE arg, arg \in Symbol, NEW STATE entry, entry \in Nat
  PROVE  Formals(b, arg, entry) \in [Names -> Symbol]
BY SymbolFields, SymbolTypes DEF Formals

\* A survey pass begins in a new function with a new entry block.
LEMMA SurveyInv ==
  ASSUME Inv1, status = "run", NEW STATE b, b \in Bodies, NEW STATE mark, mark \in BOOLEAN,
         NEW STATE arg, arg \in Symbol, NEW STATE before, before \in Seq(Instr), Survey(b, mark, arg, before),
         stack[1].pos = 1, Len(stack) > 1 \/ ~mark,
         Len(stack) > 1 => /\ Top.pos \in DOMAIN prog.body[Top.body]
                           /\ prog.body[Top.body][Top.pos].op \in {"fun", "call", "retcall"}
  PROVE  Inv1'
<1> DEFINE entry == nblk + 1
           g == nfn + 1
           f == [kind |-> "fn", body |-> b, pos |-> 1, survey |-> TRUE,
                 mark |-> mark, fn |-> g, pb |-> ip, prev |-> scope,
                 one |-> entry, two |-> 0, next |-> 0, used |-> FALSE]
           b1 == AppendTo(blocks, ip, before)
           b2 == Create(b1, {entry}, g)
           b3 == AppendTo(b2, entry, <<Plain("alloca")>>)
           t == [pass |-> "survey", rty |-> DeclaredType(b)]
<1>1. /\ stack' = Append(stack, f) /\ blocks' = b3
      /\ fns' = [h \in DOMAIN fns \cup {g} |-> IF h = g THEN t ELSE fns[h]]
      /\ scope' = Formals(b, arg, entry) /\ ip' = entry /\ nblk' = entry /\ nfn' = g
      /\ prog' = prog /\ gc' = gc /\ status' = status
  BY DEF Survey
<1>2. /\ nblk \in Nat /\ nfn \in Nat /\ ip \in Nat /\ scope \in [Names -> Symbol]
      /\ IsCode(blocks) /\ DOMAIN blocks \subseteq 1..nblk
      /\ fns \in [DOMAIN fns -> Fn] /\ DOMAIN fns \subseteq 1..nfn
  BY DEF Inv1, Typed, IsCode
<1>3. t \in Fn
  BY TypesAssumption DEF DeclaredType, Fn, Inv1, Typed, WellFormed, Program
<1>4. f \in Frame
  BY <1>2 DEF Frame
<1>5. /\ f.kind = "fn" /\ f.body = b /\ f.pos = 1 /\ f.fn = g /\ f.pb = ip
  OBVIOUS
<1>6. f.mark = mark OBVIOUS
<1>7. entry \in Nat /\ entry > nblk /\ g \in Nat /\ g > nfn /\ nfn <= g /\ entry \notin DOMAIN blocks
      /\ 1..nblk \subseteq 1..entry /\ 1..nfn \subseteq 1..g /\ entry \in 1..entry /\ g \in 1..g
  BY <1>2
<1>. HIDE DEF f, g, entry, t, b3
<1>8. <<Plain("alloca")>> \in Seq(Instr) BY InstrTypes, CodeTypes DEF Kinds
<1>9. IsCode(b1) /\ DOMAIN b1 = DOMAIN blocks /\ Grows(blocks, b1) BY <1>2, AppendGrows
<1>. HIDE DEF b1
<1>10. IsCode(b2) /\ DOMAIN b2 = DOMAIN blocks \cup {entry} /\ Grows(blocks, b2) /\ Has(b2, entry, g)
  <2>1. Fresh({entry}, b1) BY <1>7, <1>9 DEF Fresh
  <2>2. IsCode(b2) /\ DOMAIN b2 = DOMAIN b1 \cup {entry} /\ Grows(b1, b2) /\ Has(b2, entry, g)
    BY <1>7, <1>9, <2>1, CreateGrows
  <2>. HIDE DEF b2
  <2>. QED  BY <1>9, <2>2, GrowsOn
<1>. HIDE DEF b2
<1>11. IsCode(b3) /\ DOMAIN b3 = DOMAIN blocks \cup {entry} /\ Grows(blocks, b3) /\ Has(b3, entry, g)
  <2>1. IsCode(b3) /\ DOMAIN b3 = DOMAIN b2 /\ Grows(b2, b3) BY <1>8, <1>10, AppendGrows DEF b3
  <2>2. Grows(blocks, b3) BY <1>10, <2>1, GrowsOn
  <2>. QED  BY <1>10, <2>1, <2>2 DEF Grows, Has
<1>12. AllStay /\ Stays(ip', f.fn) BY <1>1, <1>5, <1>11 DEF AllStay, Stays, Grows, Has
<1>13. DOMAIN fns' = DOMAIN fns \cup {g} /\ fns' \in [DOMAIN fns' -> Fn] BY <1>1, <1>2, <1>3
<1>14. Len(stack) > 1 => Started(Top, f)
  BY <1>5, StackFacts DEF Started
<1>15. stack' \in Seq(Frame) /\ StackDiscipline' /\ FnsAlive' /\ BlocksKept'
  <2>1. ~Pending(f) BY <1>5 DEF Pending
  <2>2. Len(stack) > 1 \/ ~f.mark BY <1>6
  <2>3. /\ prog' = prog /\ f \in Frame /\ stack' = Append(stack, f) /\ f.pos = 1 /\ f.pb = ip /\ f.kind # "main"
        /\ f.kind = "fn" /\ nfn < f.fn /\ nfn' \in Nat /\ nfn <= nfn' /\ f.fn <= nfn' /\ f.fn \in DOMAIN fns'
        /\ DOMAIN fns \subseteq DOMAIN fns' /\ ip' > nblk
    BY <1>1, <1>2, <1>4, <1>5, <1>7, <1>13
  <2>. QED  BY <1>12, <1>14, <2>1, <2>2, <2>3, PushInv
<1>16. Typed'
  <2>1. scope' \in [Names -> Symbol] BY <1>1, <1>7, FormalsType
  <2>2. blocks' \in [DOMAIN blocks' -> Block] /\ DOMAIN blocks' \subseteq 1..nblk' /\ ip' \in Nat /\ nblk' \in Nat
    BY <1>1, <1>2, <1>7, <1>11 DEF IsCode
  <2>3. DOMAIN fns' \subseteq 1..nfn' /\ nfn' \in Nat BY <1>1, <1>2, <1>7, <1>13
  <2>. QED  BY <1>1, <1>13, <1>15, <2>1, <2>2, <2>3 DEF Inv1, Typed, WellFormed
<1>. QED  BY <1>15, <1>16 DEF Inv1

\* The code that comes before a call: loads of the argument, or scratch variables.
LEMMA BeforeTypes ==
  /\ \A s \in Symbol : Loads(s) \in Seq(Instr)
  /\ \A b \in Bodies : Scratch(b) \in Seq(Instr)
<1>1. \A s \in Symbol : Loads(s) \in Seq(Instr)
  BY SymbolFields, InstrTypes, CodeTypes DEF Loads, Kinds
<1>2. \A b \in Bodies : Scratch(b) \in Seq(Instr)
  BY InstrTypes, CodeTypes DEF Scratch, Kinds
<1>. QED  BY <1>1, <1>2

\* A line is translated only inside the user's function, which main has not got back yet.
LEMMA LinePlace ==
  ASSUME Inv1, NEW CONSTANT op, AtLine(op)
  PROVE  /\ status = "run" /\ stack[1].pos = 1 /\ Len(stack) > 1
         /\ Top.pos \in DOMAIN prog.body[Top.body] /\ prog.body[Top.body][Top.pos].op = op
BY LineFacts DEF Inv1, StackDiscipline

\* Evaluating an eager literal keeps the invariant.
LEMMA EvalLiteralInv == ASSUME Inv1, EvalLiteral PROVE Inv1'
<1>1. AtLine("fun") /\ Survey(Cur.a, Marked, Absent, Scratch(Cur.a)) BY DEF EvalLiteral
<1>2. Cur.a \in Bodies BY <1>1, LineTypes DEF Line
<1>3. Marked \in BOOLEAN BY StackFacts DEF Marked, Frame
<1>4. Absent \in Symbol /\ Scratch(Cur.a) \in Seq(Instr) BY <1>2, SymbolTypes, BeforeTypes
<1>. QED  BY <1>1, <1>2, <1>3, <1>4, LinePlace, SurveyInv

\* Calling a lazy function keeps the invariant.
LEMMA CallLazyInv == ASSUME Inv1, CallLazy PROVE Inv1'
<1> DEFINE arg == ArgOf(Cur, scope)
<1>1. PICK o \in {"call", "retcall"} : AtLine(o) BY DEF CallLazy, AtCall
<1>2. scope[Cur.x].k = "fn" /\ Survey(scope[Cur.x].at, scope[Cur.x].mark, arg, Loads(arg)) BY DEF CallLazy
<1>3. Cur.x \in Names /\ Cur.y \in Names \cup {None} BY <1>1, LineTypes DEF Complete, Line
<1>4. scope[Cur.x] \in Symbol /\ arg \in Symbol
  BY <1>1, <1>3, LineTypes, SymbolTypes DEF ArgOf
<1>5. scope[Cur.x].at \in Bodies /\ scope[Cur.x].mark \in BOOLEAN BY <1>2, <1>4, SymbolFields
<1>6. Loads(arg) \in Seq(Instr) BY <1>4, BeforeTypes
<1>. HIDE DEF arg
<1>. QED  BY <1>1, <1>2, <1>4, <1>5, <1>6, LinePlace, SurveyInv

\* Evaluating the top-level value keeps the invariant.
LEMMA EnterTopInv == ASSUME Inv1, EnterTop PROVE Inv1'
<1> DEFINE before == IF prog.eager[prog.top] THEN Scratch(prog.top) ELSE << >>
<1>1. status = "run" /\ Top.kind = "main" /\ Top.pos = 1 BY DEF EnterTop
<1>2. CASE Throw BY <1>2, ThrowInv DEF Throw
<1>3. CASE Survey(prog.top, FALSE, Absent, before)
  <2>1. ~(Len(stack) > 1) BY <1>1, StackFacts
  <2>2. stack[1].pos = 1
    <3>1. Len(stack) = 1 BY <2>1, StackFacts
    <3>. QED  BY <3>1, <1>1 DEF Top
  <2>3. prog.top \in Bodies BY DEF Inv1, Typed, WellFormed, Program
  <2>4. before \in Seq(Instr) BY <2>3, BeforeTypes, CodeTypes
  <2>5. Absent \in Symbol /\ FALSE \in BOOLEAN BY SymbolTypes
  <2>. HIDE DEF before
  <2>. QED  BY <1>1, <1>3, <2>1, <2>2, <2>3, <2>4, <2>5, SurveyInv
<1>. QED  BY <1>2, <1>3 DEF EnterTop

\* A step back from a function: into main, or into the routine that called it.
LEMMA ReturnToInv ==
  ASSUME Inv1, AtEnd("fn"), NEW STATE bs, NEW STATE f, f \in Nat, NEW STATE t, t \in Types, ReturnTo(bs, f, t),
         IsCode(bs), DOMAIN bs \subseteq 1..nblk,
         \A b \in DOMAIN blocks : Has(bs, b, blocks[b].fn) \/ blocks[b].fn = Top.fn,
         prog' = prog, nblk' = nblk, nfn' = nfn, gc' = gc,
         fns' \in [DOMAIN fns' -> Fn], DOMAIN fns' \subseteq 1..nfn,
         \A i \in 1..(Len(stack) - 1) : stack[i].fn \in DOMAIN fns',
         Caller.kind = "main" => f \in DOMAIN fns'
  PROVE  Inv1'
<1> DEFINE l == LineOf(Caller)
           takes == prog.param[Top.body] # None
           tab == Top.fn \in tables
           old == Top.prev[l.x]
           home == IF old.k = "ptr" THEN old.at ELSE Top.pb
           call == IF l.op = "retcall" THEN <<CallOf(f, t)>> \o <<Ret(t)>> ELSE <<CallOf(f, t)>>
           one == <<[Refer("store", {home}) EXCEPT !.fn = {f}]>>
           store == IF old.k = "ptr" THEN one ELSE <<Plain("alloca")>> \o one
<1>1. /\ status = "run" /\ Top.kind = "fn" /\ Len(stack) > 1 /\ Top \in Frame
      /\ ip' = Top.pb /\ Top.pb \in Nat /\ Top.prev \in [Names -> Symbol]
  <2>1. status = "run" /\ Top.kind = "fn" BY DEF AtEnd
  <2>2. Len(stack) > 1 /\ Top \in Frame BY <2>1, StackFacts
  <2>3. ip' = Top.pb BY DEF ReturnTo, Restored
  <2>. QED  BY <2>1, <2>2, <2>3 DEF Frame
<1>2. /\ nblk \in Nat /\ nfn \in Nat /\ gc \in BOOLEAN /\ DOMAIN blocks \subseteq 1..nblk BY DEF Inv1, Typed
<1>3. /\ Top.pb \in DOMAIN blocks /\ blocks[Top.pb].fn = Caller.fn /\ Caller.fn # Top.fn
  <2>1. Len(stack) \in 2..Len(stack) /\ Len(stack) - 1 \in 1..(Len(stack) - 1) BY <1>1, StackFacts
  <2>2. Caller.fn < Top.fn BY <1>1, <2>1 DEF Inv1, StackDiscipline, Top, Caller
  <2>3. Caller.fn \in Nat /\ Top.fn \in Nat BY <1>1, StackFacts DEF Frame
  <2>. QED  BY <1>1, <2>1, <2>2, <2>3, KeptFacts DEF Top, Caller
<1>4. CASE /\ Caller.kind = "main" /\ blocks' = bs /\ scope' = Top.prev /\ status' = status
           /\ stack' = [Below EXCEPT ![1] = [@ EXCEPT !.pos = 2, !.next = f]]
  <2>1. Caller.fn = 1 /\ 1 \in DOMAIN fns'
    <3>1. Len(stack) - 1 = 1 /\ 1 \in 1..(Len(stack) - 1) BY <1>1, <1>4, StackFacts
    <3>2. stack[1].fn = 1 BY DEF Inv1, StackDiscipline
    <3>3. Caller = stack[1] BY <3>1 DEF Caller
    <3>. QED  BY <3>1, <3>2, <3>3
  <2>2. Stays(ip', 1) BY <1>1, <1>3, <1>4, <2>1 DEF Has, Stays
  <2>3. stack' \in Seq(Frame) /\ StackDiscipline' /\ FnsAlive' /\ BlocksKept'
    BY <1>1, <1>4, <2>1, <2>2, MainInv
  <2>4. Typed' BY <1>1, <1>2, <1>4, <2>3 DEF IsCode, Inv1, Typed, WellFormed
  <2>. QED  BY <2>3, <2>4 DEF Inv1
<1>5. ASSUME Caller.kind # "main", Pop, IsCode(blocks'), DOMAIN blocks' = DOMAIN bs, Grows(bs, blocks'),
             scope' \in [Names -> Symbol], status' \in {"run", "error"}
      PROVE  Inv1'
  <2>1. Len(stack) > 2 BY <1>1, <1>5, StackFacts
  <2>2. \A b \in DOMAIN blocks : Stays(b, blocks[b].fn) \/ (Top.kind = "fn" /\ blocks[b].fn = Top.fn)
    BY <1>1, <1>5 DEF Has, Stays, Grows
  <2>3. stack' \in Seq(Frame) /\ StackDiscipline' /\ FnsAlive' /\ BlocksKept'
    BY <1>1, <1>5, <2>1, <2>2, PopInv
  <2>4. Typed' BY <1>1, <1>2, <1>5, <2>3 DEF IsCode, Inv1, Typed, WellFormed
  <2>. QED  BY <2>3, <2>4 DEF Inv1
<1>6. ASSUME Caller.kind # "main" PROVE l \in Line /\ Complete(l) /\ l.op \in {"fun", "call", "retcall"}
  <2>1. "fn" # "main" OBVIOUS
  <2>2. Started(Caller, Top) /\ l = prog.body[Caller.body][Caller.pos] /\ l \in Line /\ Complete(l)
    BY <1>6, <2>1, EndFacts
  <2>. QED  BY <1>1, <2>2 DEF Started
<1>7. CASE /\ Caller.kind # "main" /\ l.op # "fun" /\ blocks' = AppendTo(bs, Top.pb, call)
           /\ Pop /\ scope' = Top.prev /\ status' = status
  <2>1. call \in Seq(Instr)
    <3>1. CallOf(f, t) \in Instr /\ Ret(t) \in Instr BY InstrTypes
    <3>2. <<CallOf(f, t)>> \in Seq(Instr) /\ <<Ret(t)>> \in Seq(Instr) BY <3>1, CodeTypes
    <3>. QED  BY <3>2, ConcatProperties
  <2>. HIDE DEF call
  <2>2. IsCode(blocks') /\ DOMAIN blocks' = DOMAIN bs /\ Grows(bs, blocks') BY <1>7, <2>1, AppendGrows
  <2>. QED  BY <1>1, <1>5, <1>7, <2>2
<1>8. CASE /\ Caller.kind # "main" /\ l.op = "fun" /\ blocks' = AppendTo(bs, Top.pb, store)
           /\ Pop /\ scope' = [Top.prev EXCEPT ![l.x] = PtrIn(home, t, takes, tab)] /\ status' = status
  <2>1. l.x \in Names BY <1>6, <1>8 DEF Complete, Line
  <2>2. old \in Symbol BY <1>1, <2>1
  <2>3. home \in Nat BY <1>1, <2>2, SymbolFields
  <2>. HIDE DEF home, old
  <2>4. one \in Seq(Instr)
    <3>1. [Refer("store", {home}) EXCEPT !.fn = {f}] \in Instr
      BY <2>3, TypesAssumption DEF Refer, Instr, Kinds
    <3>. QED  BY <3>1, CodeTypes
  <2>5. store \in Seq(Instr)
    <3>1. <<Plain("alloca")>> \in Seq(Instr) BY InstrTypes, CodeTypes DEF Kinds
    <3>. HIDE DEF one
    <3>. QED  BY <2>4, <3>1, ConcatProperties
  <2>. HIDE DEF store
  <2>6. IsCode(blocks') /\ DOMAIN blocks' = DOMAIN bs /\ Grows(bs, blocks') BY <1>8, <2>5, AppendGrows
  <2>7. takes \in BOOLEAN /\ tab \in BOOLEAN OBVIOUS
  <2>. HIDE DEF takes, tab
  <2>8. PtrIn(home, t, takes, tab) \in Symbol BY <2>3, <2>7, SymbolTypes
  <2>9. scope' \in [Names -> Symbol] BY <1>1, <1>8, <2>1, <2>8
  <2>. QED  BY <1>1, <1>5, <1>8, <2>6, <2>9
<1>9. CASE Caller.kind # "main" /\ blocks' = bs /\ Pop /\ scope' = Top.prev /\ status' = "error"
  <2>1. Grows(bs, blocks') BY <1>9 DEF Grows
  <2>. QED  BY <1>1, <1>5, <1>9, <2>1
<1>. QED  BY <1>4, <1>7, <1>8, <1>9 DEF ReturnTo

\* The frame of a function that is over stands above those of the functions it leaves.
LEMMA FnTop ==
  ASSUME Inv1, AtEnd("fn")
  PROVE  /\ status = "run" /\ Len(stack) > 1 /\ Top.fn \in DOMAIN fns /\ Top.fn \in Nat /\ Top.fn <= nfn
         /\ fns[Top.fn] \in Fn
         /\ \A i \in 1..(Len(stack) - 1) : stack[i].fn \in DOMAIN fns /\ stack[i].fn # Top.fn
         /\ Caller.kind = "main" => ~Top.mark
<1>1. status = "run" /\ Top.kind = "fn" BY DEF AtEnd
<1>2. Len(stack) > 1 /\ Len(stack) \in Nat /\ Len(stack) \in 2..Len(stack) /\ Len(stack) \in 1..Len(stack)
      /\ \A i \in 1..(Len(stack) - 1) : i \in 1..Len(stack)
  BY <1>1, StackFacts
<1>3. Top.fn \in DOMAIN fns /\ Top.fn \in Nat /\ Top.fn <= nfn
  BY <1>1, <1>2, FnFacts DEF Inv1, FnsAlive, Top
<1>4. \A i \in 1..(Len(stack) - 1) : stack[i].fn < Top.fn
  BY <1>1, <1>2 DEF Inv1, StackDiscipline, Top
<1>5. \A i \in 1..(Len(stack) - 1) : stack[i].fn \in DOMAIN fns /\ stack[i].fn # Top.fn
  <2>1. \A i \in 1..Len(stack) : stack[i].fn \in DOMAIN fns BY <1>1 DEF Inv1, FnsAlive
  <2>2. ASSUME NEW i \in 1..(Len(stack) - 1) PROVE stack[i].fn \in DOMAIN fns /\ stack[i].fn # Top.fn
    <3>1. i \in 1..Len(stack) BY <1>2
    <3>2. stack[i].fn < Top.fn BY <1>4
    <3>3. stack[i].fn \in Nat BY <3>1, FnFacts
    <3>. QED  BY <1>3, <2>1, <3>1, <3>2, <3>3
  <2>. QED  BY <2>2
<1>6. Caller.kind = "main" => ~Top.mark
  <2>1. ~stack[2].mark BY <1>1, <1>2 DEF Inv1, FnsAlive
  <2>2. CASE Caller.kind = "main"
    <3>1. Len(stack) < 3 BY <1>2, <2>2, StackFacts
    <3>2. \A i \in 2..Len(stack) : i = 2 BY <1>2, <3>1
    <3>3. \A i \in 2..Len(stack) : stack[i] = stack[2] BY <3>2
    <3>4. Top = stack[2] BY <1>2, <3>3 DEF Top
    <3>. QED  BY <2>1, <3>4
  <2>. QED  BY <2>2
<1>7. fns[Top.fn] \in Fn BY <1>3 DEF Inv1, Typed
<1>. QED  BY <1>1, <1>2, <1>3, <1>5, <1>6, <1>7

\* The types a survey finds are types.
LEMMA SurveyedTypes ==
  ASSUME Inv1, NEW STATE g
  PROVE  Surveyed(g) \subseteq Types
<1>1. \A b \in DOMAIN blocks : \A i \in DOMAIN blocks[b].code : blocks[b].code[i].ty \in Types
  <2>1. \A b \in DOMAIN blocks : blocks[b].code \in Seq(Instr) BY DEF Inv1, Typed, Block
  <2>2. ASSUME NEW b \in DOMAIN blocks, NEW i \in DOMAIN blocks[b].code PROVE blocks[b].code[i].ty \in Types
    <3>1. blocks[b].code \in Seq(Instr) BY <2>1
    <3>2. blocks[b].code[i] \in Instr BY <3>1
    <3>. QED  BY <3>2 DEF Instr
  <2>. QED  BY <2>2
<1>2. RetTypes(g) \subseteq Types BY <1>1 DEF RetTypes, BlocksOf
<1>. QED  BY <1>2, TypesAssumption DEF Surveyed

\* Ending the survey of a marked literal keeps the invariant.
LEMMA EndMarkedInv == ASSUME Inv1, EndMarked PROVE Inv1'
<1> DEFINE bs == Erase(blocks, BlocksOf(Top.fn))
<1>1. AtEnd("fn") /\ Top.mark BY DEF EndMarked, EndSurvey
<1>2. PICK t \in Surveyed(Top.fn) : ReturnTo(bs, 0, t) BY DEF EndMarked
<1>3. prog' = prog /\ nblk' = nblk /\ nfn' = nfn /\ gc' = gc /\ fns' = [g \in DOMAIN fns \ {Top.fn} |-> fns[g]]
  BY DEF EndMarked, Dismissed
<1>4. t \in Types BY <1>2, SurveyedTypes
<1>5. IsCode(bs) /\ DOMAIN bs \subseteq 1..nblk
  <2> DEFINE ids == BlocksOf(Top.fn)
  <2>1. IsCode(blocks) /\ DOMAIN blocks \subseteq 1..nblk BY DEF Inv1, Typed, IsCode
  <2>2. bs = Erase(blocks, ids) OBVIOUS
  <2>. HIDE DEF bs, ids
  <2>3. DOMAIN bs = DOMAIN blocks \ ids /\ bs \in [DOMAIN blocks \ ids -> Block]
    BY <2>1, <2>2, EraseType DEF IsCode
  <2>. QED  BY <2>1, <2>3 DEF IsCode
<1>6. \A b \in DOMAIN blocks : Has(bs, b, blocks[b].fn) \/ blocks[b].fn = Top.fn
  BY DEF Has, Erase, BlocksOf
<1>7. /\ DOMAIN fns' = DOMAIN fns \ {Top.fn} /\ fns' \in [DOMAIN fns' -> Fn] /\ DOMAIN fns' \subseteq 1..nfn
  BY <1>3 DEF Inv1, Typed
<1>8. /\ \A i \in 1..(Len(stack) - 1) : stack[i].fn \in DOMAIN fns'
      /\ Caller.kind # "main"
  BY <1>1, <1>7, FnTop
<1>9. 0 \in Nat OBVIOUS
<1>. HIDE DEF bs
<1>. QED  BY <1>1, <1>2, <1>3, <1>4, <1>5, <1>6, <1>7, <1>8, <1>9, ReturnToInv

\* Ending a real pass keeps the invariant.
LEMMA EndRealInv == ASSUME Inv1, EndReal PROVE Inv1'
<1> DEFINE t == fns[Top.fn].rty
           bs == IF t = Void THEN AppendTo(blocks, ip, <<Plain("retvoid")>>) ELSE blocks
<1>1. AtEnd("fn") /\ ReturnTo(bs, Top.fn, t) BY DEF EndReal
<1>2. prog' = prog /\ nblk' = nblk /\ nfn' = nfn /\ gc' = gc /\ fns' = fns BY DEF EndReal
<1>3. t \in Types BY <1>1, FnTop DEF Fn
<1>4. IsCode(blocks) /\ DOMAIN blocks \subseteq 1..nblk /\ fns \in [DOMAIN fns -> Fn] /\ DOMAIN fns \subseteq 1..nfn
  BY DEF Inv1, Typed, IsCode
<1>5. <<Plain("retvoid")>> \in Seq(Instr) BY InstrTypes, CodeTypes DEF Kinds
<1>6. IsCode(bs) /\ DOMAIN bs = DOMAIN blocks /\ Grows(blocks, bs)
  <2>1. CASE t = Void BY <2>1, <1>4, <1>5, AppendGrows
  <2>2. CASE t # Void BY <2>2, <1>4 DEF Grows
  <2>. QED  BY <2>1, <2>2
<1>. HIDE DEF bs, t
<1>7. \A b \in DOMAIN blocks : Has(bs, b, blocks[b].fn) BY <1>6 DEF Has, Grows
<1>. QED  BY <1>1, <1>2, <1>3, <1>4, <1>6, <1>7, FnTop, ReturnToInv

\* Going from the survey to the real pass keeps the invariant.
LEMMA StartRealInv == ASSUME Inv1, StartReal PROVE Inv1'
<1> DEFINE entry == nblk + 1
           g == nfn + 1
           arg == IF Caller.kind = "main" THEN Absent ELSE ArgOf(LineOf(Caller), Top.prev)
           b1 == Erase(blocks, BlocksOf(Top.fn))
           b2 == Create(b1, {entry}, g)
           b3 == AppendTo(b2, entry, <<Plain("alloca"), [Plain("store") EXCEPT !.fn = {g}]>>)
<1>1. stack' \in Seq(Frame) /\ StackDiscipline' /\ FnsAlive' /\ BlocksKept' BY RealInv
<1>2. /\ AtEnd("fn") /\ prog' = prog /\ gc' = gc /\ status' = status /\ ip' = entry /\ nblk' = entry /\ nfn' = g
      /\ blocks' = b3 /\ scope' = Formals(Top.body, arg, entry)
  BY DEF StartReal, EndSurvey
<1>3. PICK t \in Surveyed(Top.fn) :
        fns' = [h \in (DOMAIN fns \ {Top.fn}) \cup {g} |-> IF h = g THEN [pass |-> "real", rty |-> t] ELSE fns[h]]
  BY DEF StartReal, Dismissed
<1>4. /\ nblk \in Nat /\ nfn \in Nat /\ IsCode(blocks) /\ DOMAIN blocks \subseteq 1..nblk
      /\ fns \in [DOMAIN fns -> Fn] /\ DOMAIN fns \subseteq 1..nfn
  BY DEF Inv1, Typed, IsCode
<1>5. entry \in Nat /\ g \in Nat /\ 1..nblk \subseteq 1..entry /\ 1..nfn \subseteq 1..g /\ entry \in 1..entry /\ g \in 1..g
  BY <1>4
<1>6. arg \in Symbol
  <2>1. Top \in Frame /\ Top.prev \in [Names -> Symbol] BY StackFacts DEF Frame
  <2>2. "fn" # "main" OBVIOUS
  <2>3. Caller.kind # "main" => LineOf(Caller) \in Line BY <1>2, <2>2, EndFacts
  <2>. QED  BY <2>1, <2>3, SymbolTypes DEF ArgOf, Line
<1>7. t \in Types BY SurveyedTypes
<1>8. /\ fns' \in [DOMAIN fns' -> Fn] /\ DOMAIN fns' \subseteq 1..nfn'
  BY <1>2, <1>3, <1>4, <1>5, <1>7 DEF Fn
<1>9. IsCode(b1) /\ DOMAIN b1 \subseteq DOMAIN blocks BY <1>4, EraseType DEF IsCode
<1>10. <<Plain("alloca"), [Plain("store") EXCEPT !.fn = {g}]>> \in Seq(Instr)
  <2>1. [Plain("store") EXCEPT !.fn = {g}] \in Instr BY <1>5, TypesAssumption DEF Plain, Instr, Kinds
  <2>. QED  BY <2>1, InstrTypes, CodeTypes DEF Kinds
<1>. HIDE DEF entry, g, arg, b1
<1>11. IsCode(b2) /\ DOMAIN b2 = DOMAIN b1 \cup {entry} BY <1>5, <1>9, CreateType DEF IsCode
<1>. HIDE DEF b2
<1>12. IsCode(b3) /\ DOMAIN b3 = DOMAIN b2 BY <1>10, <1>11, AppendGrows
<1>. HIDE DEF b3
<1>13. scope' \in [Names -> Symbol] BY <1>2, <1>5, <1>6, FormalsType
<1>14. Typed'
  <2>1. blocks' \in [DOMAIN blocks' -> Block] /\ DOMAIN blocks' \subseteq 1..nblk'
    BY <1>2, <1>4, <1>5, <1>9, <1>11, <1>12 DEF IsCode
  <2>. QED  BY <1>1, <1>2, <1>5, <1>8, <1>13, <2>1 DEF Inv1, Typed, WellFormed
<1>. QED  BY <1>1, <1>14 DEF Inv1

\* Entering a scope keeps the invariant.
LEMMA EnterScopeInv == ASSUME Inv1, EnterScope PROVE Inv1'
<1> DEFINE nb == nblk + 1
           theblock == nblk + 2
           f == [kind |-> "scope", body |-> Cur.a, pos |-> 1, survey |-> FALSE, mark |-> FALSE,
                 fn |-> Top.fn, pb |-> ip, prev |-> scope, one |-> theblock, two |-> 0,
                 next |-> nb, used |-> FALSE]
           ids == {nb, theblock}
<1>1. /\ AtLine("scope") /\ prog' = prog /\ scope' = scope /\ fns' = fns /\ nfn' = nfn /\ gc' = gc
      /\ status' = status /\ stack' = Append(stack, f) /\ ip' = theblock /\ nblk' = theblock
      /\ blocks' = Create(blocks, ids, blocks[ip].fn)
  BY DEF EnterScope
<1>2. /\ nblk \in Nat /\ nfn \in Nat /\ IsCode(blocks) /\ DOMAIN blocks \subseteq 1..nblk BY DEF Inv1, Typed, IsCode
<1>3. /\ blocks[ip].fn = Top.fn /\ ip \in Nat /\ Top.fn \in Nat /\ Top.fn \in DOMAIN fns /\ Top.fn <= nfn
      /\ Cur.a \in Bodies /\ scope \in [Names -> Symbol]
  <2>1. Len(stack) \in 1..Len(stack) BY StackFacts
  <2>2. Top.fn <= nfn BY <2>1, FnFacts DEF Top
  <2>. QED  BY <1>1, <2>2, KeptFacts, LineTypes, LinePlace DEF Line
<1>4. /\ nb \in Nat /\ theblock \in Nat /\ nb > nblk /\ theblock > nblk /\ nb # theblock
      /\ nb \in ids /\ theblock \in ids /\ ids \subseteq 1..theblock /\ 1..nblk \subseteq 1..theblock
      /\ Fresh(ids, blocks)
  BY <1>2 DEF Fresh
<1>5. f \in Frame BY <1>2, <1>3 DEF Frame
<1>6. /\ f.kind = "scope" /\ f.pos = 1 /\ f.pb = ip /\ f.fn = Top.fn /\ f.next = nb /\ ~f.mark OBVIOUS
<1>. HIDE DEF f, nb, theblock, ids
<1>7. /\ IsCode(blocks') /\ DOMAIN blocks' = DOMAIN blocks \cup ids /\ Grows(blocks, blocks')
      /\ Has(blocks', nb, Top.fn) /\ Has(blocks', theblock, Top.fn)
  BY <1>1, <1>2, <1>3, <1>4, CreateGrows
<1>8. AllStay /\ Stays(nb, Top.fn) /\ Stays(theblock, Top.fn) BY <1>7 DEF AllStay, Stays, Grows, Has
<1>9. stack' \in Seq(Frame) /\ StackDiscipline' /\ FnsAlive' /\ BlocksKept'
  <2>1. status = "run" /\ stack[1].pos = 1 /\ Len(stack) > 1 BY <1>1, LinePlace
  <2>2. Started(Top, f)
    <3>1. Top.kind # "main" BY <1>1, LineFacts
    <3>. QED  BY <1>1, <1>6, <3>1, LinePlace DEF Started
  <2>. QED  BY <1>1, <1>2, <1>3, <1>4, <1>5, <1>6, <1>8, <2>1, <2>2, PushInv
<1>10. Typed' BY <1>1, <1>2, <1>3, <1>4, <1>7, <1>9 DEF IsCode, Inv1, Typed, WellFormed
<1>. QED  BY <1>9, <1>10 DEF Inv1

\* Entering a conditional keeps the invariant.
LEMMA EnterCondInv == ASSUME Inv1, EnterCond PROVE Inv1'
<1> DEFINE thenbb == nblk + 1
           elsebb == nblk + 2
           mergebb == nblk + 3
           f == [kind |-> "then", body |-> Cur.a, pos |-> 1, survey |-> FALSE, mark |-> FALSE,
                 fn |-> Top.fn, pb |-> ip, prev |-> scope, one |-> thenbb, two |-> elsebb,
                 next |-> mergebb, used |-> FALSE]
           ids == {thenbb, elsebb, mergebb}
<1>1. /\ AtLine("cond") /\ prog' = prog /\ scope' = scope /\ fns' = fns /\ nfn' = nfn /\ gc' = gc
      /\ status' = status /\ stack' = Append(stack, f) /\ ip' = thenbb /\ nblk' = mergebb
      /\ blocks' = Create(blocks, ids, blocks[ip].fn)
  BY DEF EnterCond
<1>2. /\ nblk \in Nat /\ nfn \in Nat /\ IsCode(blocks) /\ DOMAIN blocks \subseteq 1..nblk BY DEF Inv1, Typed, IsCode
<1>3. /\ blocks[ip].fn = Top.fn /\ ip \in Nat /\ Top.fn \in Nat /\ Top.fn \in DOMAIN fns /\ Top.fn <= nfn
      /\ Cur.a \in Bodies /\ scope \in [Names -> Symbol]
  <2>1. Len(stack) \in 1..Len(stack) BY StackFacts
  <2>2. Top.fn <= nfn BY <2>1, FnFacts DEF Top
  <2>. QED  BY <1>1, <2>2, KeptFacts, LineTypes, LinePlace DEF Line
<1>4. /\ thenbb \in Nat /\ elsebb \in Nat /\ mergebb \in Nat /\ thenbb > nblk /\ elsebb > nblk /\ mergebb > nblk
      /\ thenbb # mergebb /\ elsebb # mergebb /\ thenbb \in ids /\ elsebb \in ids /\ mergebb \in ids
      /\ ids \subseteq 1..mergebb /\ 1..nblk \subseteq 1..mergebb
      /\ Fresh(ids, blocks)
  BY <1>2 DEF Fresh
<1>5. f \in Frame BY <1>2, <1>3 DEF Frame
<1>6. /\ f.kind = "then" /\ f.pos = 1 /\ f.pb = ip /\ f.fn = Top.fn /\ f.next = mergebb /\ f.two = elsebb
      /\ ~f.mark
  OBVIOUS
<1>. HIDE DEF f, thenbb, elsebb, mergebb, ids
<1>7. /\ IsCode(blocks') /\ DOMAIN blocks' = DOMAIN blocks \cup ids /\ Grows(blocks, blocks')
      /\ Has(blocks', thenbb, Top.fn) /\ Has(blocks', elsebb, Top.fn) /\ Has(blocks', mergebb, Top.fn)
  BY <1>1, <1>2, <1>3, <1>4, CreateGrows
<1>8. AllStay /\ Stays(thenbb, Top.fn) /\ Stays(elsebb, Top.fn) /\ Stays(mergebb, Top.fn)
  BY <1>7 DEF AllStay, Stays, Grows, Has
<1>9. stack' \in Seq(Frame) /\ StackDiscipline' /\ FnsAlive' /\ BlocksKept'
  <2>1. status = "run" /\ stack[1].pos = 1 /\ Len(stack) > 1 BY <1>1, LinePlace
  <2>2. Started(Top, f)
    <3>1. Top.kind # "main" BY <1>1, LineFacts
    <3>. QED  BY <1>1, <1>6, <3>1, LinePlace DEF Started
  <2>. QED  BY <1>1, <1>2, <1>3, <1>4, <1>5, <1>6, <1>8, <2>1, <2>2, PushInv
<1>10. Typed' BY <1>1, <1>2, <1>3, <1>4, <1>7, <1>9 DEF IsCode, Inv1, Typed, WellFormed
<1>. QED  BY <1>9, <1>10 DEF Inv1

\* Entering an imported file keeps the invariant.
LEMMA EnterImportInv == ASSUME Inv1, EnterImport PROVE Inv1'
<1> DEFINE f == [kind |-> "import", body |-> Cur.a, pos |-> 1, survey |-> FALSE, mark |-> FALSE,
                 fn |-> Top.fn, pb |-> ip, prev |-> scope, one |-> ip, two |-> 0, next |-> 0, used |-> FALSE]
<1>1. /\ AtLine("import") /\ prog' = prog /\ scope' = NoSymbols /\ fns' = fns /\ nfn' = nfn /\ gc' = gc
      /\ status' = status /\ stack' = Append(stack, f) /\ ip' = ip /\ nblk' = nblk /\ blocks' = blocks
  BY DEF EnterImport
<1>2. /\ ip \in DOMAIN blocks /\ blocks[ip].fn = Top.fn /\ ip \in Nat /\ Top.fn \in Nat /\ Top.fn \in DOMAIN fns
      /\ Top.fn <= nfn /\ nfn \in Nat /\ Cur.a \in Bodies /\ scope \in [Names -> Symbol]
  <2>1. Len(stack) \in 1..Len(stack) BY StackFacts
  <2>2. Top.fn <= nfn /\ nfn \in Nat BY <2>1, FnFacts DEF Top
  <2>. QED  BY <1>1, <2>2, KeptFacts, LineTypes, LinePlace DEF Line
<1>3. f \in Frame BY <1>2 DEF Frame
<1>4. f.kind = "import" /\ f.pos = 1 /\ f.pb = ip /\ f.fn = Top.fn /\ ~f.mark OBVIOUS
<1>. HIDE DEF f
<1>5. AllStay /\ Stays(ip, Top.fn) BY <1>1, <1>2 DEF AllStay, Stays
<1>6. stack' \in Seq(Frame) /\ StackDiscipline' /\ FnsAlive' /\ BlocksKept'
  <2>1. status = "run" /\ stack[1].pos = 1 /\ Len(stack) > 1 BY <1>1, LinePlace
  <2>2. Started(Top, f)
    <3>1. Top.kind # "main" BY <1>1, LineFacts
    <3>. QED  BY <1>1, <1>4, <3>1, LinePlace DEF Started
  <2>3. ~Pending(f) BY <1>4 DEF Pending
  <2>. QED  BY <1>1, <1>2, <1>3, <1>4, <1>5, <2>1, <2>2, <2>3, PushInv
<1>7. Typed' BY <1>1, <1>6, SymbolTypes DEF Inv1, Typed, WellFormed
<1>. QED  BY <1>6, <1>7 DEF Inv1

\* A scope, a branch or an import that is over leaves its function in progress.
LEMMA InnerTop ==
  ASSUME Inv1, NEW CONSTANT kind, AtEnd(kind), kind \notin {"main", "fn"}
  PROVE  /\ status = "run" /\ Top.kind = kind /\ Len(stack) > 2
         /\ Top.prev \in [Names -> Symbol] /\ Top.pb \in Nat /\ Top.next \in Nat
         /\ Top.one \in Nat /\ Top.two \in Nat
         /\ Top.pb \in DOMAIN blocks
         /\ \A i \in 1..(Len(stack) - 1) : stack[i].fn \in DOMAIN fns
         /\ Pending(Top) => /\ Top.next \in DOMAIN blocks /\ blocks[Top.next].fn = Top.fn
                            /\ Top.pb # Top.next /\ ip # Top.next
         /\ kind = "then" => Top.two \in DOMAIN blocks
<1>1. status = "run" /\ Top.kind = kind BY DEF AtEnd
<1>2. Len(stack) > 1 /\ Len(stack) \in 2..Len(stack) /\ Top \in Frame /\ Len(stack) \in Nat
  BY <1>1, StackFacts
<1>3. Len(stack) > 2 BY <1>1, <1>2 DEF Inv1, StackDiscipline, Top
<1>4. \A i \in 1..(Len(stack) - 1) : stack[i].fn \in DOMAIN fns
  BY <1>1, <1>2 DEF Inv1, FnsAlive
<1>5. /\ Top.pb \in DOMAIN blocks
      /\ Pending(Top) => /\ Top.next \in DOMAIN blocks /\ blocks[Top.next].fn = Top.fn
                         /\ Top.pb # Top.next /\ ip # Top.next
      /\ kind = "then" => Top.two \in DOMAIN blocks
  BY <1>1, <1>2, KeptFacts DEF Top
<1>. QED  BY <1>1, <1>2, <1>3, <1>4, <1>5 DEF Frame

\* Leaving a scope keeps the invariant.
LEMMA LeaveScopeInv == ASSUME Inv1, LeaveScope PROVE Inv1'
<1> DEFINE non_rb == ~HasTerminator(ip)
           bs == IF non_rb THEN AppendTo(blocks, ip, <<Refer("br", {Top.next})>>)
                           ELSE Erase(blocks, {Top.next})
           is == <<Refer("br", {Top.one})>>
<1>1. /\ AtEnd("scope") /\ prog' = prog /\ fns' = fns /\ nblk' = nblk /\ nfn' = nfn /\ gc' = gc
      /\ status' = status /\ scope' = Top.prev /\ Pop
      /\ blocks' = AppendTo(bs, Top.pb, is)
      /\ ip' = AfterScope(non_rb)
  BY DEF LeaveScope
<1>2. /\ status = "run" /\ Top.kind = "scope" /\ Len(stack) > 2
      /\ Top.prev \in [Names -> Symbol] /\ Top.pb \in Nat /\ Top.next \in Nat /\ Top.one \in Nat
      /\ \A i \in 1..(Len(stack) - 1) : stack[i].fn \in DOMAIN fns
      /\ Pending(Top) /\ Top.next \in DOMAIN blocks /\ blocks[Top.next].fn = Top.fn
  BY <1>1, InnerTop DEF Pending
<1>3. IsCode(blocks) BY DEF Inv1, Typed, IsCode
<1>4. is \in Seq(Instr) /\ <<Refer("br", {Top.next})>> \in Seq(Instr)
  BY <1>2, InstrTypes, CodeTypes DEF Kinds
<1>5. CASE non_rb
  <2>1. bs = AppendTo(blocks, ip, <<Refer("br", {Top.next})>>) /\ ip' = Top.next BY <1>1, <1>5 DEF AfterScope
  <2>. HIDE DEF bs, is
  <2>2. IsCode(bs) /\ DOMAIN bs = DOMAIN blocks /\ Grows(blocks, bs) BY <2>1, <1>3, <1>4, AppendGrows
  <2>3. IsCode(blocks') /\ DOMAIN blocks' = DOMAIN bs /\ Grows(bs, blocks') BY <1>1, <1>4, <2>2, AppendGrows
  <2>4. \A b \in DOMAIN blocks : Stays(b, blocks[b].fn) BY <2>2, <2>3 DEF Stays, Grows
  <2>5. Stays(ip', Top.fn) BY <1>2, <2>1, <2>4
  <2>6. stack' \in Seq(Frame) /\ StackDiscipline' /\ FnsAlive' /\ BlocksKept'
    BY <1>1, <1>2, <2>1, <2>4, <2>5, PopInv
  <2>7. Typed' BY <1>1, <1>2, <2>1, <2>2, <2>3, <2>6 DEF IsCode, Inv1, Typed, WellFormed
  <2>. QED  BY <2>6, <2>7 DEF Inv1
<1>6. CASE ~non_rb
  <2>1. bs = Erase(blocks, {Top.next}) /\ ip' = Top.pb BY <1>1, <1>6 DEF AfterScope
  <2>. HIDE DEF bs, is
  <2>2. IsCode(bs) /\ DOMAIN bs \subseteq DOMAIN blocks /\ \A b \in DOMAIN blocks : b # Top.next => Has(bs, b, blocks[b].fn)
    <3>1. IsCode(bs) /\ DOMAIN bs \subseteq DOMAIN blocks BY <2>1, <1>3, EraseType DEF IsCode
    <3>2. \A b \in DOMAIN blocks : b # Top.next => Has(bs, b, blocks[b].fn) BY <2>1 DEF Erase, Has
    <3>. QED  BY <3>1, <3>2
  <2>3. IsCode(blocks') /\ DOMAIN blocks' = DOMAIN bs /\ Grows(bs, blocks') BY <1>1, <1>4, <2>2, AppendGrows
  <2>4. \A b \in DOMAIN blocks : Stays(b, blocks[b].fn) \/ (Pending(Top) /\ b = Top.next)
    BY <1>2, <2>2, <2>3 DEF Stays, Grows, Has
  <2>5. stack' \in Seq(Frame) /\ StackDiscipline' /\ FnsAlive' /\ BlocksKept'
    BY <1>1, <1>2, <2>1, <2>4, PopInv
  <2>6. Typed' BY <1>1, <1>2, <2>1, <2>2, <2>3, <2>5 DEF IsCode, Inv1, Typed, WellFormed
  <2>. QED  BY <2>5, <2>6 DEF Inv1
<1>. QED  BY <1>5, <1>6

\* What a branch that is over leaves behind.
LEMMA FallGrows ==
  ASSUME Inv1, Top.next \in Nat
  PROVE  IsCode(Fall) /\ DOMAIN Fall = DOMAIN blocks /\ Grows(blocks, Fall)
<1>1. IsCode(blocks) BY DEF Inv1, Typed, IsCode
<1>2. <<Refer("br", {Top.next})>> \in Seq(Instr) BY InstrTypes, CodeTypes DEF Kinds
<1>3. CASE HasTerminator(ip) BY <1>1, <1>3 DEF Fall, Grows
<1>4. CASE ~HasTerminator(ip) BY <1>1, <1>2, <1>4, AppendGrows DEF Fall
<1>. QED  BY <1>3, <1>4

\* Going from the then branch to the else branch keeps the invariant.
LEMMA EndThenInv == ASSUME Inv1, EndThen PROVE Inv1'
<1>1. stack' \in Seq(Frame) /\ StackDiscipline' /\ FnsAlive' /\ BlocksKept' BY ElseInv
<1>2. /\ AtEnd("then") /\ prog' = prog /\ fns' = fns /\ nblk' = nblk /\ nfn' = nfn /\ gc' = gc
      /\ status' = status /\ scope' = Top.prev /\ ip' = Top.two /\ blocks' = Fall
  BY DEF EndThen
<1>3. Top.prev \in [Names -> Symbol] /\ Top.two \in Nat /\ Top.next \in Nat BY <1>2, InnerTop
<1>4. IsCode(blocks') /\ DOMAIN blocks' = DOMAIN blocks BY <1>2, <1>3, FallGrows
<1>5. Typed' BY <1>1, <1>2, <1>3, <1>4 DEF IsCode, Inv1, Typed, WellFormed
<1>. QED  BY <1>1, <1>5 DEF Inv1

\* Leaving a conditional keeps the invariant.
LEMMA EndElseInv == ASSUME Inv1, EndElse PROVE Inv1'
<1> DEFINE bs == IF MergeUsed THEN Fall ELSE Erase(blocks, {Top.next})
           is == <<Refer("br", {Top.one, Top.two})>>
<1>1. /\ AtEnd("else") /\ prog' = prog /\ fns' = fns /\ nblk' = nblk /\ nfn' = nfn /\ gc' = gc
      /\ status' = status /\ scope' = Top.prev /\ Pop
      /\ blocks' = AppendTo(bs, Top.pb, is)
      /\ ip' = IF MergeUsed THEN Top.next ELSE Top.pb
  BY DEF EndElse
<1>2. /\ status = "run" /\ Top.kind = "else" /\ Len(stack) > 2
      /\ Top.prev \in [Names -> Symbol] /\ Top.pb \in Nat /\ Top.next \in Nat /\ Top.one \in Nat /\ Top.two \in Nat
      /\ \A i \in 1..(Len(stack) - 1) : stack[i].fn \in DOMAIN fns
      /\ Pending(Top) /\ Top.next \in DOMAIN blocks /\ blocks[Top.next].fn = Top.fn
  BY <1>1, InnerTop DEF Pending
<1>3. IsCode(blocks) BY DEF Inv1, Typed, IsCode
<1>4. is \in Seq(Instr) BY <1>2, InstrTypes, CodeTypes DEF Kinds
<1>5. CASE MergeUsed
  <2>1. bs = Fall /\ ip' = Top.next BY <1>1, <1>5
  <2>. HIDE DEF bs, is
  <2>2. IsCode(bs) /\ DOMAIN bs = DOMAIN blocks /\ Grows(blocks, bs) BY <1>2, <2>1, FallGrows
  <2>3. IsCode(blocks') /\ DOMAIN blocks' = DOMAIN bs /\ Grows(bs, blocks') BY <1>1, <1>4, <2>2, AppendGrows
  <2>4. \A b \in DOMAIN blocks : Stays(b, blocks[b].fn) BY <2>2, <2>3 DEF Stays, Grows
  <2>5. Stays(ip', Top.fn) BY <1>2, <2>1, <2>4
  <2>6. stack' \in Seq(Frame) /\ StackDiscipline' /\ FnsAlive' /\ BlocksKept'
    BY <1>1, <1>2, <2>1, <2>4, <2>5, PopInv
  <2>7. Typed' BY <1>1, <1>2, <2>1, <2>2, <2>3, <2>6 DEF IsCode, Inv1, Typed, WellFormed
  <2>. QED  BY <2>6, <2>7 DEF Inv1
<1>6. CASE ~MergeUsed
  <2>1. bs = Erase(blocks, {Top.next}) /\ ip' = Top.pb BY <1>1, <1>6
  <2>. HIDE DEF bs, is
  <2>2. IsCode(bs) /\ DOMAIN bs \subseteq DOMAIN blocks /\ \A b \in DOMAIN blocks : b # Top.next => Has(bs, b, blocks[b].fn)
    <3>1. IsCode(bs) /\ DOMAIN bs \subseteq DOMAIN blocks BY <2>1, <1>3, EraseType DEF IsCode
    <3>2. \A b \in DOMAIN blocks : b # Top.next => Has(bs, b, blocks[b].fn) BY <2>1 DEF Erase, Has
    <3>. QED  BY <3>1, <3>2
  <2>3. IsCode(blocks') /\ DOMAIN blocks' = DOMAIN bs /\ Grows(bs, blocks') BY <1>1, <1>4, <2>2, AppendGrows
  <2>4. \A b \in DOMAIN blocks : Stays(b, blocks[b].fn) \/ (Pending(Top) /\ b = Top.next)
    BY <1>2, <2>2, <2>3 DEF Stays, Grows, Has
  <2>5. stack' \in Seq(Frame) /\ StackDiscipline' /\ FnsAlive' /\ BlocksKept'
    BY <1>1, <1>2, <2>1, <2>4, PopInv
  <2>6. Typed' BY <1>1, <1>2, <2>1, <2>2, <2>3, <2>5 DEF IsCode, Inv1, Typed, WellFormed
  <2>. QED  BY <2>5, <2>6 DEF Inv1
<1>. QED  BY <1>5, <1>6

\* Leaving an imported file keeps the invariant.
LEMMA LeaveImportInv == ASSUME Inv1, LeaveImport PROVE Inv1'
<1>1. /\ AtEnd("import") /\ prog' = prog /\ fns' = fns /\ nblk' = nblk /\ nfn' = nfn /\ gc' = gc
      /\ status' = status /\ scope' = Top.prev /\ Pop /\ blocks' = blocks /\ ip' = Top.pb
  BY DEF LeaveImport
<1>2. /\ status = "run" /\ Len(stack) > 2 /\ Top.prev \in [Names -> Symbol] /\ Top.pb \in Nat
      /\ \A i \in 1..(Len(stack) - 1) : stack[i].fn \in DOMAIN fns
  BY <1>1, InnerTop
<1>3. \A b \in DOMAIN blocks : Stays(b, blocks[b].fn) BY <1>1 DEF Stays
<1>4. stack' \in Seq(Frame) /\ StackDiscipline' /\ FnsAlive' /\ BlocksKept'
  BY <1>1, <1>2, <1>3, PopInv
<1>5. Typed' BY <1>1, <1>2, <1>4 DEF Inv1, Typed, WellFormed
<1>. QED  BY <1>4, <1>5 DEF Inv1

\* Closing or dropping main keeps the invariant.
LEMMA CreateMainRetInv == ASSUME Inv1, CreateMainRet PROVE Inv1'
<1> DEFINE t == fns[Top.next].rty
           is == <<CallOf(Top.next, t), Ret(IF t = Void THEN I32 ELSE t)>>
<1>1. /\ status = "run" /\ Top.kind = "main" /\ Top.pos = 2 /\ status' = "built"
      /\ prog' = prog /\ stack' = stack /\ ip' = ip /\ scope' = scope /\ nblk' = nblk /\ nfn' = nfn /\ gc' = gc
  BY DEF CreateMainRet
<1>2. stack' \in Seq(Frame) /\ StackDiscipline' /\ FnsAlive' /\ BlocksKept' BY <1>1, StopInv
<1>3. IsCode(blocks) /\ fns \in [DOMAIN fns -> Fn] BY DEF Inv1, Typed, IsCode
<1>4. CASE blocks' = Erase(blocks, BlocksOf(1)) /\ fns' = [g \in DOMAIN fns \ {1} |-> fns[g]]
  <2>1. IsCode(blocks') /\ DOMAIN blocks' \subseteq DOMAIN blocks BY <1>3, <1>4, EraseType DEF IsCode
  <2>2. fns' \in [DOMAIN fns' -> Fn] /\ DOMAIN fns' \subseteq DOMAIN fns BY <1>3, <1>4
  <2>3. Typed' BY <1>1, <1>2, <2>1, <2>2 DEF IsCode, Inv1, Typed, WellFormed
  <2>. QED  BY <1>2, <2>3 DEF Inv1
<1>5. CASE blocks' = AppendTo(blocks, ip, is) /\ fns' = fns
  <2>1. Top.next \in DOMAIN fns /\ Top.next \in Nat
    <3>1. Len(stack) < 2 /\ Len(stack) \in Nat /\ Len(stack) >= 1 BY <1>1, StackFacts
    <3>2. Len(stack) \in 1..Len(stack) /\ \A i \in 1..Len(stack) : i = 1 BY <3>1
    <3>3. \A i \in 1..Len(stack) : stack[i] = stack[1] BY <3>2
    <3>4. Top = stack[1] BY <3>2, <3>3 DEF Top
    <3>. QED  BY <1>1, <3>4, StackFacts DEF Inv1, FnsAlive, Frame
  <2>2. t \in Types BY <1>3, <2>1 DEF Fn
  <2>3. is \in Seq(Instr) BY <2>1, <2>2, TypesAssumption, InstrTypes, CodeTypes
  <2>. HIDE DEF is
  <2>4. IsCode(blocks') /\ DOMAIN blocks' = DOMAIN blocks BY <1>3, <1>5, <2>3, AppendGrows
  <2>5. Typed' BY <1>1, <1>2, <1>5, <2>4 DEF IsCode, Inv1, Typed, WellFormed
  <2>. QED  BY <1>2, <2>5 DEF Inv1
<1>. QED  BY <1>4, <1>5 DEF CreateMainRet

\* The verifier's verdict keeps the invariant.
LEMMA VerifyInv == ASSUME Inv1, Verify PROVE Inv1'
<1>1. /\ status' \in {"ok", "bug"} /\ prog' = prog /\ stack' = stack /\ ip' = ip /\ scope' = scope
      /\ blocks' = blocks /\ fns' = fns /\ nblk' = nblk /\ nfn' = nfn /\ gc' = gc
  BY DEF Verify, Stop
<1>2. Typed' BY <1>1 DEF Inv1, Typed, WellFormed
<1>3. StackDiscipline' /\ FnsAlive' /\ BlocksKept' BY <1>1, StopInv
<1>. QED  BY <1>2, <1>3 DEF Inv1

\* Doing nothing keeps the invariant.
LEMMA StutterInv == ASSUME Inv1, UNCHANGED vars PROVE Inv1'
<1>1. Typed' BY DEF Inv1, Typed, WellFormed, vars
<1>2. StackDiscipline' BY DEF Inv1, StackDiscipline, Started, vars
<1>3. FnsAlive' BY DEF Inv1, FnsAlive, vars
<1>4. BlocksKept' BY DEF Inv1, BlocksKept, Pending, BlocksOf, Top, vars
<1>. QED  BY <1>1, <1>2, <1>3, <1>4 DEF Inv1

----------------------------------------------------------------------------
(* The invariant, and what follows from it.                                    *)

\* The invariant holds when createMain has run.
LEMMA InitInv == Init => Inv1
<1>. SUFFICES ASSUME Init PROVE Inv1 OBVIOUS
<1> DEFINE f == [kind |-> "main", body |-> prog.top, pos |-> 1, survey |-> FALSE,
                 mark |-> FALSE, fn |-> 1, pb |-> 1, prev |-> NoSymbols,
                 one |-> 1, two |-> 0, next |-> 0, used |-> FALSE]
<1>1. /\ prog \in Programs /\ stack = <<f>> /\ ip = 1 /\ scope = NoSymbols /\ nblk = 1 /\ nfn = 1
      /\ gc = FALSE /\ status = "run"
      /\ blocks = [b \in {1} |-> [fn |-> 1, code |-> << >>]]
      /\ fns = [g \in {1} |-> [pass |-> "main", rty |-> I32]]
  BY DEF Init
<1>2. WellFormed(prog) BY <1>1, ProgramsAssumption
<1>3. f \in Frame BY <1>2, SymbolTypes DEF Frame, WellFormed, Program
<1>4. f.kind = "main" /\ f.fn = 1 /\ f.pos = 1 OBVIOUS
<1>. HIDE DEF f
<1>5. stack \in Seq(Frame) /\ Len(stack) \in Nat /\ Len(stack) >= 1 /\ Len(stack) <= 1 /\ stack[1] = f
  BY <1>1, <1>3
<1>6. (\A j \in 2..Len(stack) : FALSE) /\ (\A i \in 1..Len(stack) : i = 1) /\ ~(Len(stack) > 1) BY <1>5
<1>7. Typed
  <2>1. blocks \in [DOMAIN blocks -> Block] /\ DOMAIN blocks \subseteq 1..nblk BY <1>1, CodeTypes DEF Block
  <2>2. fns \in [DOMAIN fns -> Fn] /\ DOMAIN fns \subseteq 1..nfn BY <1>1, TypesAssumption DEF Fn
  <2>. QED  BY <1>1, <1>2, <1>5, <2>1, <2>2, SymbolTypes DEF Typed
<1>8. StackDiscipline BY <1>1, <1>4, <1>5, <1>6 DEF StackDiscipline
<1>9. FnsAlive BY <1>1, <1>4, <1>5, <1>6 DEF FnsAlive
<1>10. BlocksKept
  <2>1. Len(stack) \in 1..Len(stack) /\ \A i \in 1..Len(stack) : stack[i] = f BY <1>5, <1>6
  <2>2. Top = f BY <2>1 DEF Top
  <2>3. ip \in BlocksOf(1) BY <1>1 DEF BlocksOf
  <2>. QED  BY <1>4, <1>6, <2>2, <2>3 DEF BlocksKept
<1>. QED  BY <1>7, <1>8, <1>9, <1>10 DEF Inv1

\* Every step keeps the invariant.
LEMMA NextInv == ASSUME Inv1, [Next]_vars PROVE Inv1'
<1>1. CASE Bad \/ CallError \/ SurveyError \/ ImportFails
  BY <1>1, ThrowInv DEF Bad, CallError, SurveyError, ImportFails, Throw
<1>2. CASE HeapCrash \/ ScopeCrash BY <1>2, ThrowInv DEF HeapCrash, ScopeCrash, Crash
<1>3. CASE Overflow BY <1>3, ThrowInv DEF Overflow
<1>4. CASE Finished BY <1>4, StutterInv DEF Finished
<1>. QED  BY <1>1, <1>2, <1>3, <1>4, StutterInv, UseInv, SetInv, HeapInv, ImportHeaderInv, BindInv, ReturnInv, ReturnSelfInv,
             SelectInv, EvalLiteralInv, CallPointerInv, CallLazyInv, EnterTopInv,
             EndMarkedInv, StartRealInv, EndRealInv, EnterScopeInv, LeaveScopeInv, EnterCondInv,
             EndThenInv, EndElseInv, EnterImportInv, LeaveImportInv, CreateMainRetInv, VerifyInv
          DEF Next

\* What the lines of a body give, and what is known of the collector.
ValuesTyped == decl \in BOOLEAN /\ last \in {"null", "plain", "table"} /\ tables \subseteq Nat

\* A line of a frame gives one of the three kinds of value.
LEMMA YieldsTyped ==
  ASSUME ValuesTyped, NEW STATE f, f \in Frame, NEW STATE v, v \in {"null", "plain", "table"}, Yields(f, v)
  PROVE  last' \in {"null", "plain", "table"} /\ tables' \subseteq Nat
<1>1. f.fn \in Nat BY DEF Frame
<1>. QED  BY <1>1 DEF Yields, ValuesTyped

\* Every step keeps them.
LEMMA NextValues == ASSUME Inv1, ValuesTyped, [Next]_vars PROVE ValuesTyped'
<1>. USE DEF ValuesTyped
<1>1. Top \in Frame BY StackFacts
<1>2. ASSUME UNCHANGED <<decl, last, tables>> PROVE ValuesTyped' BY <1>2
<1>3. ASSUME NEW CONSTANT v \in {"null", "plain", "table"}, Yields(Top, v), decl' \in BOOLEAN PROVE ValuesTyped'
  BY <1>1, <1>3, YieldsTyped
<1>4. ASSUME NEW STATE v, v \in {"null", "plain", "table"}, Yields(Caller, v), Len(stack) > 1, decl' = decl
      PROVE  ValuesTyped'
  <2>1. Caller \in Frame BY <1>4, StackFacts
  <2>. QED  BY <2>1, <1>4, YieldsTyped
<1>5. CASE \/ UNCHANGED vars \/ Finished \/ CreateMainRet \/ Verify \/ Overflow
           \/ Bad \/ CallError \/ SurveyError \/ ImportFails \/ HeapCrash \/ ScopeCrash
           \/ EnterCond \/ EndThen
  BY <1>2, <1>5 DEF vars, Finished, CreateMainRet, Verify, Stop, Overflow, Bad, CallError, SurveyError,
                    ImportFails, HeapCrash, ScopeCrash, Throw, Crash, EnterCond, EndThen
<1>6. CASE EvalLiteral \/ CallLazy \/ EnterTop
  BY <1>2, <1>6 DEF EvalLiteral, CallLazy, EnterTop, Survey, Throw, Stop
<1>7. CASE Use \/ Set \/ Heap \/ ImportHeader \/ Bind \/ Return \/ ReturnSelf \/ Select \/ CallPointer
  BY <1>2, <1>3, <1>7 DEF Use, Set, Heap, LinkGC, ImportHeader, Bind, Return, ReturnSelf, Select, CallPointer,
                         Throw, Stop
<1>8. CASE EnterScope \/ EnterImport BY <1>8 DEF EnterScope, EnterImport
<1>9. CASE LeaveScope \/ LeaveImport \/ EndElse
  <2>1. AtEnd("scope") \/ AtEnd("import") \/ AtEnd("else") BY <1>9 DEF LeaveScope, LeaveImport, EndElse
  <2>2. Len(stack) > 1 BY <2>1, StackFacts DEF AtEnd
  <2>. QED  BY <1>4, <1>9, <2>2 DEF LeaveScope, LeaveImport, EndElse
<1>10. CASE EndMarked \/ EndReal
  <2>1. AtEnd("fn") BY <1>10 DEF EndMarked, EndReal, EndSurvey
  <2>2. Len(stack) > 1 BY <2>1, StackFacts DEF AtEnd
  <2>3. ASSUME NEW STATE bs, NEW STATE f, NEW STATE t, ReturnTo(bs, f, t), decl' = decl PROVE ValuesTyped'
    BY <1>2, <1>4, <2>2, <2>3 DEF ReturnTo
  <2>. QED  BY <1>10, <2>3 DEF EndMarked, EndReal
<1>11. CASE StartReal
  <2>1. nfn + 1 \in Nat BY DEF Inv1, Typed
  <2>. QED  BY <1>11, <2>1 DEF StartReal
<1>. QED  BY <1>5, <1>6, <1>7, <1>8, <1>9, <1>10, <1>11 DEF Next

\* For any programs, the compiler's data keep their types at every step: whatever
\* block the builder stands in when a scope, a conditional or a call creates
\* blocks, it is one of the module.
THEOREM TypeCorrect == Spec => []TypeOK
<1>1. Init => ValuesTyped BY DEF Init, ValuesTyped
<1>2. Inv1 /\ ValuesTyped => TypeOK BY DEF Inv1, Typed, ValuesTyped, TypeOK
<1>. QED  BY <1>1, <1>2, InitInv, NextInv, NextValues, PTL DEF Spec

\* For any programs and any nesting of calls, scopes, conditionals and imports,
\* the builder is never put back into a block that was erased or that belongs to
\* another function.
THEOREM InsertPoints == Spec => []InsertPointsAlive
<1>1. Inv1 => InsertPointsAlive BY DEF Inv1, BlocksKept, InsertPointsAlive
<1>. QED  BY <1>1, InitInv, NextInv, PTL DEF Spec

=============================================================================
