------------------------ MODULE CodegenStorageProofs ------------------------
(* Proofs about what the code that Codegen generates refers to: the storage   *)
(* of variables, the targets of branches, the functions of survey passes, and *)
(* the initialisation of the collector.  They rest on Inv1 of CodegenProofs.  *)
EXTENDS CodegenProofs, FiniteSetTheorems

----------------------------------------------------------------------------
(* The invariant.                                                            *)

\* The blocks set apart to go on in: nb of each scope, mergebb of each conditional.
Hanging == {stack[j].next : j \in {i \in 2..Len(stack) : Pending(stack[i])}}

\* Frame f has a block to go on in that no branch leads to yet.
Unused(f) == Pending(f) /\ ~(f.kind = "else" /\ f.used)

\* Those blocks: they may still be erased.
Waiting == {stack[j].next : j \in {i \in 2..Len(stack) : Unused(stack[i])}}

\* In bs, instructions refer to blocks of their own function, and to none in waiting.
Sound(bs, waiting) ==
  \A b \in DOMAIN bs : \A i \in DOMAIN bs[b].code : \A r \in bs[b].code[i].ref :
    Has(bs, r, bs[b].fn) /\ r \notin waiting

\* In bs, the variables of symbols are stored in blocks of function f, none of them hanging.
Stored(symbols, bs, f, hanging) ==
  \A x \in Names : symbols[x].k \in {"slot", "ptr"} =>
    Has(bs, symbols[x].at, f) /\ symbols[x].at \notin hanging

\* Block b of bs may be branched to when the routine of frame f is over.
Door(f, b, bs, hanging) == Has(bs, b, f.fn) /\ b \notin hanging

\* The blocks a scope or a conditional will branch to are there and will stay.
Doors(f, bs, hanging) ==
  Pending(f) => /\ Door(f, f.one, bs, hanging)
                /\ f.kind \in {"then", "else"} => Door(f, f.two, bs, hanging)

\* Why no variable is lost when nb or mergebb is erased: none is stored there,
\* neither one that can be named now nor one that can be named again later.
SlotsKept ==
  status = "run" =>
    /\ Stored(scope, blocks, Top.fn, Hanging)
    /\ \A j \in 2..Len(stack) : /\ Stored(stack[j].prev, blocks, stack[j - 1].fn, Hanging)
                                /\ Doors(stack[j], blocks, Hanging)

\* Only the outermost routine writes main.
Inside == \A j \in 2..Len(stack) : stack[j].fn # 1

\* Where the instructions of kind k are in code.
Spots(code, k) == {i \in DOMAIN code : code[i].k = k}

\* The collector is initialised once at most, only when it is linked, and always
\* when it is linked and no import has asked for the library.
Initialised(code, linked, asked) ==
  /\ Spots(code, "gcinit") = {} \/ (linked /\ \E p \in DOMAIN code : Spots(code, "gcinit") = {p})
  /\ linked /\ ~asked => Spots(code, "gcinit") # {}

\* Block 1 is the entry of main; until main is closed nothing is called there,
\* and the collector is initialised there.
MainEntry ==
  /\ nblk >= 1
  /\ 1 \in DOMAIN blocks => blocks[1].fn = 1
  /\ status = "run" =>
       /\ 1 \in DOMAIN blocks
       /\ Positions(1, "call") = {}
       /\ Initialised(blocks[1].code, gc, Asks)

Inv2 == Inv1 /\ Sound(blocks, Waiting) /\ SlotsKept /\ SurveysErased /\ Inside /\ MainEntry /\ GCReady

----------------------------------------------------------------------------
(* Writing, creating and erasing blocks.                                      *)

\* The instructions is refer to blocks of f in bs, to none in waiting.
RefersTo(is, bs, f, waiting) ==
  \A i \in DOMAIN is : \A r \in is[i].ref : Has(bs, r, f) /\ r \notin waiting

\* bs is well typed, and its references are sound.
Good(bs, waiting) == IsCode(bs) /\ Sound(bs, waiting)

\* From as to bs, the blocks of functions outside fs are as they were.
Untouched(as, bs, fs) ==
  \A b \in DOMAIN as : as[b].fn \notin fs => b \in DOMAIN bs /\ bs[b] = as[b]

\* What a step leaves untouched, two steps leave.
LEMMA UntouchedOn ==
  ASSUME NEW as, NEW bs, NEW cs, NEW fs, NEW gs, Untouched(as, bs, fs), Untouched(bs, cs, gs)
  PROVE  Untouched(as, cs, fs \cup gs)
BY DEF Untouched

\* Leaving more alone is leaving less touched.
LEMMA UntouchedWeaker ==
  ASSUME NEW as, NEW bs, NEW fs, NEW gs, Untouched(as, bs, fs), fs \subseteq gs
  PROVE  Untouched(as, bs, gs)
BY DEF Untouched

\* Appending code to a block: what is in the block then.
LEMMA AppendCode ==
  ASSUME NEW bs, IsCode(bs), NEW b \in DOMAIN bs, NEW is \in Seq(Instr)
  PROVE  /\ AppendTo(bs, b, is)[b].code = bs[b].code \o is
         /\ AppendTo(bs, b, is)[b].fn = bs[b].fn
         /\ \A c \in DOMAIN bs : c # b => AppendTo(bs, b, is)[c] = bs[c]
BY DEF AppendTo, IsCode, Block

\* Code that refers to blocks of its own function may be appended.
LEMMA AppendStep ==
  ASSUME NEW bs, NEW waiting, Good(bs, waiting), NEW b, NEW f, Has(bs, b, f), NEW is \in Seq(Instr),
         RefersTo(is, bs, f, waiting), NEW cs, cs = AppendTo(bs, b, is)
  PROVE  Good(cs, waiting) /\ DOMAIN cs = DOMAIN bs /\ Grows(bs, cs) /\ Untouched(bs, cs, {f})
<1>0. b \in DOMAIN bs /\ bs[b].fn = f BY DEF Has
<1>1. IsCode(cs) /\ DOMAIN cs = DOMAIN bs /\ Grows(bs, cs) BY AppendGrows DEF Good
<1>2. /\ cs[b].code = bs[b].code \o is /\ cs[b].fn = bs[b].fn
      /\ \A c \in DOMAIN bs : c # b => cs[c] = bs[c]
  BY <1>0, AppendCode DEF Good
<1>3. bs[b].code \in Seq(Instr) BY <1>0 DEF Good, IsCode, Block
<1>4. ASSUME NEW c \in DOMAIN cs, NEW i \in DOMAIN cs[c].code, NEW r \in cs[c].code[i].ref
      PROVE  Has(bs, r, bs[c].fn) /\ r \notin waiting
  <2>1. CASE c # b BY <1>1, <1>2, <1>4, <2>1 DEF Good, Sound
  <2>2. CASE c = b
    <3>1. i \in 1..(Len(bs[b].code) + Len(is)) BY <1>2, <1>3, <1>4, <2>2, ConcatProperties
    <3>2. CASE i <= Len(bs[b].code)
      <4>1. i \in DOMAIN bs[b].code /\ cs[b].code[i] = bs[b].code[i]
        BY <1>2, <1>3, <3>1, <3>2, ConcatProperties
      <4>. QED  BY <1>0, <1>4, <2>2, <4>1 DEF Good, Sound
    <3>3. CASE ~(i <= Len(bs[b].code))
      <4>1. i - Len(bs[b].code) \in DOMAIN is /\ cs[b].code[i] = is[i - Len(bs[b].code)]
        BY <1>2, <1>3, <3>1, <3>3, ConcatProperties
      <4>. QED  BY <1>0, <1>4, <2>2, <4>1 DEF RefersTo
    <3>. QED  BY <3>2, <3>3
  <2>. QED  BY <2>1, <2>2
<1>5. Sound(cs, waiting)
  BY <1>1, <1>4 DEF Sound, Has, Grows
<1>6. Untouched(bs, cs, {f}) BY <1>0, <1>1, <1>2 DEF Untouched
<1>. QED  BY <1>1, <1>5, <1>6 DEF Good

\* Nothing refers to blocks that are new.
LEMMA CreateStep ==
  ASSUME NEW bs, NEW waiting, Good(bs, waiting), NEW ids, Fresh(ids, bs), NEW f \in Nat
  PROVE  LET cs == Create(bs, ids, f)
         IN /\ Good(cs, waiting \cup ids) /\ DOMAIN cs = DOMAIN bs \cup ids /\ Grows(bs, cs)
            /\ \A c \in ids : Has(cs, c, f)
            /\ Untouched(bs, cs, {})
<1> DEFINE cs == Create(bs, ids, f)
<1>1. IsCode(cs) /\ DOMAIN cs = DOMAIN bs \cup ids /\ Grows(bs, cs) /\ \A c \in ids : Has(cs, c, f)
  BY CreateGrows DEF Good
<1>2. /\ \A c \in DOMAIN bs : c \notin ids /\ cs[c] = bs[c]
      /\ \A c \in ids : cs[c].code = << >>
  BY DEF Fresh, Create
<1>. HIDE DEF cs
<1>3. ASSUME NEW c \in DOMAIN cs, NEW i \in DOMAIN cs[c].code, NEW r \in cs[c].code[i].ref
      PROVE  Has(cs, r, cs[c].fn) /\ r \notin waiting \cup ids
  <2>1. CASE c \in ids BY <1>2, <1>3, <2>1
  <2>2. CASE c \notin ids
    <3>1. c \in DOMAIN bs /\ cs[c] = bs[c] BY <1>1, <1>2, <2>2
    <3>2. Has(bs, r, bs[c].fn) /\ r \notin waiting BY <1>3, <3>1 DEF Good, Sound
    <3>. QED  BY <1>1, <1>2, <3>1, <3>2 DEF Has, Grows
  <2>. QED  BY <2>1, <2>2
<1>4. Sound(cs, waiting \cup ids) BY <1>3 DEF Sound
<1>5. Untouched(bs, cs, {}) BY <1>1, <1>2 DEF Untouched
<1>. QED  BY <1>1, <1>4, <1>5 DEF cs, Good

\* A block that nothing refers to may be erased.
LEMMA EraseStep ==
  ASSUME NEW bs, NEW waiting, Good(bs, waiting), NEW b \in waiting, NEW f, Has(bs, b, f)
  PROVE  LET cs == Erase(bs, {b})
         IN /\ Good(cs, waiting) /\ DOMAIN cs = DOMAIN bs \ {b} /\ \A c \in DOMAIN cs : cs[c] = bs[c]
            /\ Untouched(bs, cs, {f})
<1> DEFINE cs == Erase(bs, {b})
<1>1. IsCode(cs) /\ DOMAIN cs = DOMAIN bs \ {b} /\ \A c \in DOMAIN cs : cs[c] = bs[c]
  BY DEF Good, IsCode, Erase
<1>. HIDE DEF cs
<1>2. Sound(cs, waiting) BY <1>1 DEF Good, Sound, Has
<1>3. Untouched(bs, cs, {f}) BY <1>1 DEF Untouched, Has
<1>. QED  BY <1>1, <1>2, <1>3 DEF cs, Good

\* The blocks of function f in bs.
Owned(bs, f) == {b \in DOMAIN bs : bs[b].fn = f}

\* A function may be erased: only its own code refers to its blocks.
LEMMA DismissStep ==
  ASSUME NEW bs, NEW waiting, Good(bs, waiting), NEW f, NEW ids, ids = Owned(bs, f)
  PROVE  LET cs == Erase(bs, ids)
         IN /\ Good(cs, waiting) /\ DOMAIN cs = DOMAIN bs \ ids /\ \A c \in DOMAIN cs : cs[c] = bs[c]
            /\ Untouched(bs, cs, {f})
<1> DEFINE cs == Erase(bs, ids)
<1>1. IsCode(cs) /\ DOMAIN cs = DOMAIN bs \ ids /\ \A c \in DOMAIN cs : cs[c] = bs[c]
  BY DEF Good, IsCode, Erase
<1>. HIDE DEF cs
<1>2. Sound(cs, waiting)
  <2>1. ASSUME NEW c \in DOMAIN cs, NEW i \in DOMAIN cs[c].code, NEW r \in cs[c].code[i].ref
        PROVE  Has(cs, r, cs[c].fn) /\ r \notin waiting
    <3>1. c \in DOMAIN bs /\ bs[c].fn # f /\ cs[c] = bs[c] BY <1>1 DEF Owned
    <3>2. Has(bs, r, bs[c].fn) /\ r \notin waiting BY <2>1, <3>1 DEF Good, Sound
    <3>. QED  BY <1>1, <3>1, <3>2 DEF Has, Owned
  <2>. QED  BY <2>1 DEF Sound
<1>3. Untouched(bs, cs, {f}) BY <1>1 DEF Untouched, Owned
<1>. QED  BY <1>1, <1>2, <1>3 DEF cs, Good

\* References that avoid some blocks avoid fewer of them.
LEMMA GoodWeaker ==
  ASSUME NEW bs, NEW waiting, Good(bs, waiting), NEW fewer, fewer \subseteq waiting
  PROVE  Good(bs, fewer)
BY DEF Good, Sound

----------------------------------------------------------------------------
(* The stack after a step.                                                    *)

\* Frame f stands where g stood: the same routine, or the else branch after the then branch.
Resembles(f, g) ==
  /\ f.kind = g.kind \/ (g.kind = "then" /\ f.kind = "else")
  /\ f.prev = g.prev
  /\ Pending(g) => f.next = g.next /\ f.one = g.one /\ f.two = g.two /\ (g.kind = "else" /\ g.used => f.used)

\* ... and writes the same function, in the same pass.
Alike(f, g) == Resembles(f, g) /\ f.fn = g.fn /\ f.survey = g.survey

\* The first n frames of the stack remain, and no other.
FirstFrames(n) == Len(stack') = n /\ n \in 1..Len(stack) /\ \A i \in 1..n : Alike(stack'[i], stack[i])

\* A frame resembles itself.
LEMMA AlikeSelf == \A f : Alike(f, f)
BY DEF Alike, Resembles

\* A frame that goes on with its next line is the same otherwise.
LEMMA AlikeNext == ASSUME NEW g \in Frame PROVE Alike([g EXCEPT !.pos = @ + 1], g)
BY DEF Alike, Resembles, Frame

\* A stack that ends in a frame like the n-th keeps n frames.
LEMMA ShapeKept ==
  ASSUME Inv1, NEW STATE f, NEW STATE n, n \in 1..Len(stack), Shape(stack', n, f), Alike(f, stack[n])
  PROVE  FirstFrames(n)
<1>1. Len(stack') = n /\ (\A i \in 1..(n - 1) : stack'[i] = stack[i]) /\ stack'[n] = f BY DEF Shape
<1>2. ASSUME NEW i \in 1..n PROVE Alike(stack'[i], stack[i])
  <2>1. CASE i = n BY <1>1, <2>1
  <2>2. CASE i # n
    <3>1. i \in 1..(n - 1) BY <2>2, StackFacts
    <3>. QED  BY <1>1, <3>1, AlikeSelf
  <2>. QED  BY <2>1, <2>2
<1>. QED  BY <1>1, <1>2 DEF FirstFrames

\* After a line that starts no routine, the stack is the same but for the line.
LEMMA AdvanceKept ==
  ASSUME Inv1, stack' = Advance(stack, Len(stack))
  PROVE  FirstFrames(Len(stack))
<1> DEFINE f == [Top EXCEPT !.pos = @ + 1]
<1>1. f \in Frame /\ Alike(f, Top) /\ Len(stack) \in 1..Len(stack)
  BY StackFacts, NextLine, AlikeNext
<1>2. stack' = [stack EXCEPT ![Len(stack)] = f] BY DEF Advance, Top
<1>3. Shape(stack', Len(stack), f) BY <1>1, <1>2, ReplaceShape
<1>. HIDE DEF f
<1>. QED  BY <1>1, <1>3, ShapeKept DEF Top

\* After a routine, the frames below remain.
LEMMA PopKept ==
  ASSUME Inv1, Len(stack) > 1, Pop
  PROVE  FirstFrames(Len(stack) - 1)
<1> DEFINE n == Len(stack) - 1
           f == [Caller EXCEPT !.pos = @ + 1]
<1>1. f \in Frame /\ Alike(f, Caller) BY StackFacts, NextLine, AlikeNext
<1>2. n \in Nat /\ n \in 1..Len(stack) /\ Caller = stack[n] BY StackFacts DEF Caller
<1>3. Below \in Seq(Frame) /\ Len(Below) = n /\ \A i \in 1..n : Below[i] = stack[i]
  BY <1>2, StackFacts, SubSeqProperties DEF Below
<1>4. Below[n] = Caller /\ n \in 1..n BY <1>2, <1>3
<1>5. stack' = [Below EXCEPT ![n] = f] BY <1>4 DEF Pop, Advance
<1>. HIDE DEF f, n
<1>6. Shape(stack', n, f) BY <1>1, <1>2, <1>3, <1>5, ExceptSeq DEF Shape
<1>7. FirstFrames(n) BY <1>1, <1>2, <1>6, ShapeKept
<1>. QED  BY <1>7 DEF n

\* After the user's function, main remains.
LEMMA MainKept ==
  ASSUME Inv1, Len(stack) > 1, Caller.kind = "main", NEW STATE g, g \in Nat,
         stack' = [Below EXCEPT ![1] = [@ EXCEPT !.pos = 2, !.next = g]]
  PROVE  FirstFrames(Len(stack) - 1)
<1>1. Len(stack) = 2 /\ Len(stack) \in Nat BY StackFacts
<1>2. Caller = stack[1] /\ Caller \in Frame BY <1>1, StackFacts DEF Caller
<1>3. Below \in Seq(Frame) /\ Len(Below) = 1 /\ Below[1] = stack[1]
  BY <1>1, StackFacts, SubSeqProperties DEF Below
<1> DEFINE f == [stack[1] EXCEPT !.pos = 2, !.next = g]
<1>4. Alike(f, stack[1]) BY <1>2 DEF Alike, Resembles, Frame, Pending
<1>5. Len(stack') = 1 /\ stack'[1] = f BY <1>3
<1>. HIDE DEF f
<1>6. \A i \in 1..1 : i = 1 OBVIOUS
<1>. QED  BY <1>1, <1>4, <1>5, <1>6 DEF FirstFrames

\* A routine begins: a frame is pushed.
LEMMA PushFacts ==
  ASSUME Inv1, NEW STATE f, f \in Frame, stack' = Append(stack, f)
  PROVE  /\ Len(stack') = Len(stack) + 1 /\ Len(stack) \in Nat /\ Len(stack) >= 1
         /\ \A i \in 1..Len(stack) : stack'[i] = stack[i]
         /\ stack'[Len(stack) + 1] = f
         /\ Top' = f
BY StackFacts, AppendProperties DEF Top

\* What the frames that remain have to do with blocks.
LEMMA KeptPlaces ==
  ASSUME Inv1, NEW STATE n, n \in 1..Len(stack), Len(stack') = n,
         \A i \in 1..n : Resembles(stack'[i], stack[i])
  PROVE  Hanging' \subseteq Hanging /\ Waiting' \subseteq Waiting
<1>1. Len(stack) \in Nat BY StackFacts
<1>2. \A i \in 2..n : i \in 2..Len(stack) /\ i \in 1..n BY <1>1
<1>3. \A i \in 2..n : Pending(stack'[i]) => Pending(stack[i]) /\ stack'[i].next = stack[i].next
                                            /\ (Unused(stack'[i]) => Unused(stack[i]))
  BY <1>2 DEF Resembles, Pending, Unused
<1>. QED  BY <1>2, <1>3 DEF Hanging, Waiting, Unused, Pending

\* What Inv1 says about the blocks that hang.
LEMMA HangingFacts ==
  ASSUME Inv1, status = "run"
  PROVE  /\ Hanging \subseteq DOMAIN blocks /\ Waiting \subseteq Hanging
         /\ ip \notin Hanging
         /\ \A j \in 2..Len(stack) : stack[j].pb \notin Hanging
BY KeptFacts DEF Hanging, Waiting, Unused

\* When a routine is over, the block it set apart does not hang any more.
LEMMA PoppedNext ==
  ASSUME Inv1, status = "run", Len(stack) > 1, FirstFrames(Len(stack) - 1), Pending(Top)
  PROVE  Top.next \notin Hanging' /\ Top.next \in Hanging
<1>1. Len(stack) \in Nat /\ Len(stack) \in 2..Len(stack) BY StackFacts
<1>2. Top.next \in Hanging BY <1>1 DEF Hanging, Top
<1>3. ASSUME NEW j \in 2..(Len(stack) - 1), Pending(stack'[j]) PROVE stack'[j].next # Top.next
  <2>1. j \in 2..Len(stack) /\ j # Len(stack) /\ j \in 1..(Len(stack) - 1) BY <1>1
  <2>2. Alike(stack'[j], stack[j]) BY <2>1 DEF FirstFrames
  <2>3. Pending(stack[j]) /\ stack'[j].next = stack[j].next BY <1>3, <2>2 DEF Alike, Resembles, Pending
  <2>4. stack[j].next # Top.next BY <1>1, <2>1, <2>3 DEF Inv1, BlocksKept, Top
  <2>. QED  BY <2>3, <2>4
<1>4. Len(stack') = Len(stack) - 1 BY DEF FirstFrames
<1>. QED  BY <1>2, <1>3, <1>4 DEF Hanging, Pending


----------------------------------------------------------------------------
(* The functions of survey passes, and storage, for each kind of step.        *)

\* The frame of a survey pass.
Surveying(f) == f.kind = "fn" /\ f.survey

\* SurveysErased, for one function.
LEMMA SurveyedFns ==
  SurveysErased <=>
    (status # "error" =>
       /\ \A g \in DOMAIN fns : fns[g].pass = "survey" => \E i \in 1..Len(stack) : Surveying(stack[i]) /\ stack[i].fn = g
       /\ \A i \in 1..Len(stack) : Surveying(stack[i]) => stack[i].fn \in DOMAIN fns /\ fns[stack[i].fn].pass = "survey")
BY DEF SurveysErased, Surveying

\* The same after a step.
LEMMA SurveyedFnsNext ==
  SurveysErased' <=>
    (status' # "error" =>
       /\ \A g \in DOMAIN fns' : fns'[g].pass = "survey" => \E i \in 1..Len(stack') : Surveying(stack'[i]) /\ stack'[i].fn = g
       /\ \A i \in 1..Len(stack') : Surveying(stack'[i]) => stack'[i].fn \in DOMAIN fns' /\ fns'[stack'[i].fn].pass = "survey")
BY DEF SurveysErased, Surveying

\* The first n frames remain, no survey pass is above them.
LEMMA SurveysKept ==
  ASSUME Inv1, SurveysErased, status = "run", NEW STATE n, FirstFrames(n), fns' = fns,
         \A i \in 1..Len(stack) : i > n => ~Surveying(stack[i])
  PROVE  SurveysErased'
<1>1. Len(stack) \in Nat /\ n \in Nat /\ n <= Len(stack) /\ Len(stack') = n BY StackFacts DEF FirstFrames
<1>2. \A i \in 1..n : i \in 1..Len(stack) BY <1>1
<1>3. \A i \in 1..n : (Surveying(stack'[i]) <=> Surveying(stack[i])) /\ stack'[i].fn = stack[i].fn
  BY DEF FirstFrames, Alike, Resembles, Surveying
<1>4. ASSUME NEW g \in DOMAIN fns, fns[g].pass = "survey"
      PROVE  \E i \in 1..n : Surveying(stack'[i]) /\ stack'[i].fn = g
  <2>1. PICK i \in 1..Len(stack) : Surveying(stack[i]) /\ stack[i].fn = g BY <1>4, SurveyedFns
  <2>2. i \in 1..n BY <1>1, <2>1
  <2>. QED  BY <1>3, <2>1, <2>2
<1>5. \A i \in 1..n : Surveying(stack'[i]) => stack'[i].fn \in DOMAIN fns /\ fns[stack'[i].fn].pass = "survey"
  BY <1>2, <1>3, SurveyedFns
<1>. QED  BY <1>1, <1>4, <1>5, SurveyedFnsNext

\* A scope, a conditional or an import begins.
LEMMA SurveysPushed ==
  ASSUME Inv1, SurveysErased, status = "run", NEW STATE f, f \in Frame, f.kind # "fn",
         stack' = Append(stack, f), fns' = fns
  PROVE  SurveysErased'
<1>1. /\ Len(stack') = Len(stack) + 1 /\ Len(stack) \in Nat
      /\ \A i \in 1..Len(stack) : stack'[i] = stack[i]
      /\ stack'[Len(stack) + 1] = f
  BY PushFacts
<1>2. \A i \in 1..(Len(stack) + 1) : i \in 1..Len(stack) \/ i = Len(stack) + 1 BY <1>1
<1>3. \A i \in 1..Len(stack) : i \in 1..(Len(stack) + 1) BY <1>1
<1>4. ~Surveying(f) BY DEF Surveying
<1>5. ASSUME NEW g \in DOMAIN fns, fns[g].pass = "survey"
      PROVE  \E i \in 1..Len(stack') : Surveying(stack'[i]) /\ stack'[i].fn = g
  <2>1. PICK i \in 1..Len(stack) : Surveying(stack[i]) /\ stack[i].fn = g BY <1>5, SurveyedFns
  <2>. QED  BY <1>1, <1>3, <2>1
<1>6. \A i \in 1..Len(stack') : Surveying(stack'[i]) => stack'[i].fn \in DOMAIN fns /\ fns[stack'[i].fn].pass = "survey"
  BY <1>1, <1>2, <1>4, SurveyedFns
<1>. QED  BY <1>5, <1>6, SurveyedFnsNext

\* Storage that stays is still where it was.
LEMMA StoredStays ==
  ASSUME NEW symbols, NEW as, NEW bs, NEW f, NEW hanging, NEW fewer, Stored(symbols, as, f, hanging),
         \A b \in DOMAIN as : as[b].fn = f /\ b \notin hanging => Has(bs, b, f) /\ b \notin fewer
  PROVE  Stored(symbols, bs, f, fewer)
BY DEF Stored, Has

\* Frames remain: their storage does, if only hanging blocks and functions of no frame are erased.
LEMMA SlotsKeep ==
  ASSUME Inv1, SlotsKept, status = "run", NEW STATE n, n \in 1..Len(stack), Len(stack') = n,
         \A i \in 1..n : Resembles(stack'[i], stack[i]),
         \A i \in 1..n : stack'[i].fn = stack[i].fn \/ (i = n /\ ~Pending(stack[i])),
         \A b \in DOMAIN blocks : Stays(b, blocks[b].fn) \/ b \in Hanging \/ \A i \in 1..n : stack'[i].fn # blocks[b].fn,
         Stored(scope', blocks', stack'[n].fn, Hanging')
  PROVE  SlotsKept'
<1>1. Len(stack) \in Nat /\ n \in Nat BY StackFacts
<1>2. Hanging' \subseteq Hanging BY KeptPlaces
<1>3. ASSUME NEW b \in DOMAIN blocks, NEW i \in 1..n, blocks[b].fn = stack'[i].fn, b \notin Hanging
      PROVE  Has(blocks', b, stack'[i].fn) /\ b \notin Hanging'
  BY <1>2, <1>3 DEF Stays, Has
<1>4. ASSUME NEW j \in 2..n
      PROVE  Stored(stack'[j].prev, blocks', stack'[j - 1].fn, Hanging') /\ Doors(stack'[j], blocks', Hanging')
  <2>1. j \in 2..Len(stack) /\ j \in 1..n /\ j - 1 \in 1..n /\ j - 1 # n BY <1>1
  <2>2. stack'[j - 1].fn = stack[j - 1].fn /\ stack'[j].prev = stack[j].prev BY <2>1 DEF Resembles
  <2>3. Stored(stack'[j].prev, blocks, stack'[j - 1].fn, Hanging) BY <2>1, <2>2 DEF SlotsKept
  <2>4. Stored(stack'[j].prev, blocks', stack'[j - 1].fn, Hanging')
    BY <1>3, <2>1, <2>3, StoredStays
  <2>5. Doors(stack'[j], blocks', Hanging')
    <3>1. SUFFICES ASSUME Pending(stack'[j])
                   PROVE  /\ Door(stack'[j], stack'[j].one, blocks', Hanging')
                          /\ stack'[j].kind \in {"then", "else"} => Door(stack'[j], stack'[j].two, blocks', Hanging')
      BY DEF Doors
    <3>2. Pending(stack[j]) /\ stack'[j].one = stack[j].one /\ stack'[j].two = stack[j].two
          /\ stack'[j].fn = stack[j].fn /\ (stack'[j].kind \in {"then", "else"} => stack[j].kind \in {"then", "else"})
      BY <2>1, <3>1 DEF Resembles, Pending
    <3>3. Doors(stack[j], blocks, Hanging) BY <2>1 DEF SlotsKept
    <3>. QED  BY <1>3, <2>1, <3>2, <3>3 DEF Doors, Door, Has
  <2>. QED  BY <2>4, <2>5
<1>5. Stored(scope', blocks', Top'.fn, Hanging') BY DEF Top
<1>. QED  BY <1>4, <1>5 DEF SlotsKept

\* A routine begins: the storage it can name, and the storage of its caller, are there.
LEMMA SlotsPush ==
  ASSUME Inv1, SlotsKept, status = "run", NEW STATE f, f \in Frame, stack' = Append(stack, f),
         f.prev = scope, AllStay, Pending(f) => f.next > nblk,
         Stored(scope', blocks', f.fn, Hanging'), Doors(f, blocks', Hanging')
  PROVE  SlotsKept'
<1>1. /\ Len(stack') = Len(stack) + 1 /\ Len(stack) \in Nat /\ Len(stack) >= 1
      /\ \A i \in 1..Len(stack) : stack'[i] = stack[i]
      /\ stack'[Len(stack) + 1] = f /\ Top' = f
  BY PushFacts
<1>2. \A i \in 2..(Len(stack) + 1) : (i \in 2..Len(stack) /\ i \in 1..Len(stack)) \/ i = Len(stack) + 1 BY <1>1
<1>3. nblk \in Nat /\ DOMAIN blocks \subseteq 1..nblk BY KeptFacts
<1>4. ASSUME NEW b \in DOMAIN blocks, b \notin Hanging PROVE Has(blocks', b, blocks[b].fn) /\ b \notin Hanging'
  <2>1. Has(blocks', b, blocks[b].fn) BY DEF AllStay, Stays, Has
  <2>2. b \in Nat /\ ~(b > nblk) BY <1>3
  <2>3. b \notin Hanging' BY <1>1, <1>2, <1>4, <2>2 DEF Hanging, Pending
  <2>. QED  BY <2>1, <2>3
<1>5. ASSUME NEW j \in 2..Len(stack)
      PROVE  Stored(stack[j].prev, blocks', stack[j - 1].fn, Hanging') /\ Doors(stack[j], blocks', Hanging')
  <2>1. Stored(stack[j].prev, blocks, stack[j - 1].fn, Hanging) /\ Doors(stack[j], blocks, Hanging) BY DEF SlotsKept
  <2>2. Stored(stack[j].prev, blocks', stack[j - 1].fn, Hanging') BY <1>4, <2>1, StoredStays
  <2>. QED  BY <1>4, <2>1, <2>2 DEF Doors, Door, Has
<1>6. Stored(scope, blocks', Top.fn, Hanging')
  <2>1. Stored(scope, blocks, Top.fn, Hanging) BY DEF SlotsKept
  <2>. QED  BY <1>4, <2>1, StoredStays
<1>7. ASSUME NEW j \in 2..Len(stack')
      PROVE  Stored(stack'[j].prev, blocks', stack'[j - 1].fn, Hanging') /\ Doors(stack'[j], blocks', Hanging')
  <2>1. CASE j \in 2..Len(stack)
    <3>1. j \in 1..Len(stack) /\ j - 1 \in 1..Len(stack) BY <1>1, <2>1
    <3>. QED  BY <1>1, <1>5, <2>1, <3>1
  <2>2. CASE j = Len(stack) + 1
    <3>1. j - 1 = Len(stack) /\ Len(stack) \in 1..Len(stack) BY <1>1, <2>2
    <3>2. stack'[j - 1].fn = Top.fn BY <1>1, <3>1 DEF Top
    <3>. QED  BY <1>1, <1>6, <2>2, <3>2
  <2>. QED  BY <1>1, <1>2, <2>1, <2>2
<1>. QED  BY <1>1, <1>7 DEF SlotsKept


----------------------------------------------------------------------------
(* Each action: lines that leave the builder in its function.                 *)

\* What a step does for the invariant, writing into the functions fs only.
Result(fs) ==
  /\ Sound(blocks', Waiting') /\ SlotsKept' /\ SurveysErased' /\ Inside'
  /\ Untouched(blocks, blocks', fs)
  /\ \A b \in DOMAIN blocks' : b \in DOMAIN blocks \/ b > nblk

\* Instruction i refers to blocks of f in bs, to none in waiting.
Safe(i, bs, f, waiting) == \A r \in i.ref : Has(bs, r, f) /\ r \notin waiting

\* Safe instructions one after the other.
LEMMA RefersFew ==
  ASSUME NEW bs, NEW f, NEW waiting
  PROVE  /\ RefersTo(<< >>, bs, f, waiting)
         /\ \A i : Safe(i, bs, f, waiting) => RefersTo(<<i>>, bs, f, waiting)
         /\ \A i, j : Safe(i, bs, f, waiting) /\ Safe(j, bs, f, waiting) => RefersTo(<<i, j>>, bs, f, waiting)
         /\ \A i, j, k : Safe(i, bs, f, waiting) /\ Safe(j, bs, f, waiting) /\ Safe(k, bs, f, waiting)
                           => RefersTo(<<i, j, k>>, bs, f, waiting)
BY DEF RefersTo, Safe

\* Safe code followed by safe code.
LEMMA RefersCat ==
  ASSUME NEW bs, NEW f, NEW waiting, NEW s \in Seq(Instr), NEW t \in Seq(Instr),
         RefersTo(s, bs, f, waiting), RefersTo(t, bs, f, waiting)
  PROVE  RefersTo(s \o t, bs, f, waiting)
<1>1. ASSUME NEW i \in DOMAIN (s \o t), NEW r \in (s \o t)[i].ref PROVE Has(bs, r, f) /\ r \notin waiting
  <2>1. i \in 1..(Len(s) + Len(t)) BY ConcatProperties
  <2>2. CASE i <= Len(s)
    <3>1. i \in DOMAIN s /\ (s \o t)[i] = s[i] BY <2>1, <2>2, ConcatProperties
    <3>. QED  BY <1>1, <3>1 DEF RefersTo
  <2>3. CASE ~(i <= Len(s))
    <3>1. i - Len(s) \in DOMAIN t /\ (s \o t)[i] = t[i - Len(s)] BY <2>1, <2>3, ConcatProperties
    <3>. QED  BY <1>1, <3>1 DEF RefersTo
  <2>. QED  BY <2>2, <2>3
<1>. QED  BY <1>1 DEF RefersTo

\* Instructions that refer to no block, or to given ones, are safe.
LEMMA SafeOnes ==
  ASSUME NEW bs, NEW f, NEW waiting
  PROVE  /\ \A k : Safe(Plain(k), bs, f, waiting)
         /\ \A t : Safe(Ret(t), bs, f, waiting)
         /\ \A g, t : Safe(CallOf(g, t), bs, f, waiting)
         /\ \A k, b : Has(bs, b, f) /\ b \notin waiting => Safe(Refer(k, {b}), bs, f, waiting)
         /\ \A k, b, c : Has(bs, b, f) /\ b \notin waiting /\ Has(bs, c, f) /\ c \notin waiting
                           => Safe(Refer(k, {b, c}), bs, f, waiting)
BY DEF Safe, Plain, Ret, CallOf, Refer

\* Where the builder stands, and what Inv2 says of it.
LEMMA Here ==
  ASSUME Inv2, status = "run"
  PROVE  /\ Inv1 /\ SlotsKept /\ SurveysErased /\ Good(blocks, Waiting)
         /\ ip \in DOMAIN blocks /\ blocks[ip].fn = Top.fn /\ Has(blocks, ip, Top.fn)
         /\ ip \notin Hanging /\ ip \notin Waiting /\ Waiting \subseteq Hanging /\ Hanging \subseteq DOMAIN blocks
         /\ Stored(scope, blocks, Top.fn, Hanging)
         /\ nblk \in Nat /\ DOMAIN blocks \subseteq 1..nblk
         /\ Top.fn \in Nat
<1>1. Inv1 /\ SlotsKept /\ SurveysErased /\ Good(blocks, Waiting) BY DEF Inv2, Good, IsCode, Inv1, Typed
<1>2. ip \in DOMAIN blocks /\ blocks[ip].fn = Top.fn /\ nblk \in Nat /\ DOMAIN blocks \subseteq 1..nblk
  BY <1>1, KeptFacts
<1>3. ip \notin Hanging /\ Waiting \subseteq Hanging /\ Hanging \subseteq DOMAIN blocks BY <1>1, HangingFacts
<1>4. Stored(scope, blocks, Top.fn, Hanging) BY <1>1 DEF SlotsKept
<1>5. Top.fn \in Nat BY <1>1, StackFacts DEF Frame
<1>. QED  BY <1>1, <1>2, <1>3, <1>4, <1>5 DEF Has

\* Frames that remain write the functions they wrote.
LEMMA InsideKept ==
  ASSUME Inv2, NEW STATE n, FirstFrames(n)
  PROVE  Inside'
<1>1. Len(stack) \in Nat BY StackFacts DEF Inv2
<1>2. \A j \in 2..n : j \in 2..Len(stack) /\ j \in 1..n BY <1>1 DEF FirstFrames
<1>. QED  BY <1>2 DEF FirstFrames, Alike, Inside, Inv2

\* A routine that begins inside the user's function writes no code of main.
LEMMA InsidePushed ==
  ASSUME Inv2, NEW STATE f, f \in Frame, stack' = Append(stack, f), f.fn # 1
  PROVE  Inside'
<1>1. /\ Len(stack') = Len(stack) + 1 /\ Len(stack) \in Nat
      /\ \A i \in 1..Len(stack) : stack'[i] = stack[i]
      /\ stack'[Len(stack) + 1] = f
  BY PushFacts DEF Inv2
<1>2. \A j \in 2..(Len(stack) + 1) : (j \in 2..Len(stack) /\ j \in 1..Len(stack)) \/ j = Len(stack) + 1 BY <1>1
<1>. QED  BY <1>1, <1>2 DEF Inside, Inv2

\* A line that starts no routine.
LEMMA LineResult ==
  ASSUME Inv2, status = "run", stack' = Advance(stack, Len(stack)), fns' = fns,
         Good(blocks', Waiting), Grows(blocks, blocks'), Stored(scope', blocks', Top.fn, Hanging)
  PROVE  Sound(blocks', Waiting') /\ SlotsKept' /\ SurveysErased' /\ Inside'
<1>1. Inv1 /\ SlotsKept /\ SurveysErased BY Here
<1>2. FirstFrames(Len(stack)) BY <1>1, AdvanceKept
<1>3. Len(stack) \in Nat /\ Len(stack) \in 1..Len(stack) BY <1>1, StackFacts
<1>4. /\ Len(stack') = Len(stack)
      /\ \A i \in 1..Len(stack) : Resembles(stack'[i], stack[i]) /\ stack'[i].fn = stack[i].fn
  BY <1>2 DEF FirstFrames, Alike
<1>5. Hanging' \subseteq Hanging /\ Waiting' \subseteq Waiting BY <1>1, <1>3, <1>4, KeptPlaces
<1>6. Sound(blocks', Waiting') BY <1>5, GoodWeaker DEF Good
<1>7. \A b \in DOMAIN blocks : Stays(b, blocks[b].fn) BY DEF Grows, Stays
<1>8. Stored(scope', blocks', stack'[Len(stack)].fn, Hanging')
  BY <1>3, <1>4, <1>5 DEF Stored, Top
<1>9. SlotsKept' BY <1>1, <1>3, <1>4, <1>7, <1>8, SlotsKeep
<1>10. SurveysErased' BY <1>1, <1>2, <1>3, SurveysKept
<1>11. Inside' BY <1>2, InsideKept
<1>. QED  BY <1>6, <1>9, <1>10, <1>11

\* Code appended at the insert point.
LEMMA EmitResult ==
  ASSUME Inv2, status = "run", NEW STATE is, is \in Seq(Instr), Emit(is), RefersTo(is, blocks, Top.fn, Waiting),
         Stored(scope', blocks, Top.fn, Hanging)
  PROVE  Result({Top.fn})
<1>1. blocks' = AppendTo(blocks, ip, is) /\ stack' = Advance(stack, Len(stack)) /\ fns' = fns BY DEF Emit
<1>2. Good(blocks, Waiting) /\ Has(blocks, ip, Top.fn) BY Here
<1>3. /\ Good(blocks', Waiting) /\ DOMAIN blocks' = DOMAIN blocks /\ Grows(blocks, blocks')
      /\ Untouched(blocks, blocks', {Top.fn})
  BY <1>1, <1>2, AppendStep
<1>4. Stored(scope', blocks', Top.fn, Hanging) BY <1>3 DEF Stored, Has, Grows
<1>. QED  BY <1>1, <1>3, <1>4, LineResult DEF Result

\* A step that only ends the run.
LEMMA StopResult ==
  ASSUME Inv2, status' # "run", status # "error" \/ status' = "error",
         stack' = stack, blocks' = blocks, fns' = fns
  PROVE  Result({})
<1>1. Waiting' = Waiting BY DEF Waiting, Unused, Pending
<1>2. Sound(blocks', Waiting') BY <1>1 DEF Inv2
<1>3. SlotsKept' BY DEF SlotsKept
<1>4. SurveysErased' BY DEF Inv2, SurveysErased
<1>5. Untouched(blocks, blocks', {}) BY DEF Untouched
<1>6. Inside' BY DEF Inv2, Inside
<1>. QED  BY <1>2, <1>3, <1>4, <1>5, <1>6 DEF Result

\* An error, a null pointer or the end of the stack, where the run was.
LEMMA EndResult ==
  ASSUME Inv2, status = "run", NEW CONSTANT s \in {"error", "crash", "overflow"}, Stop(s)
  PROVE  Result({})
BY StopResult DEF Stop

\* An error, where the run was.
LEMMA ThrowResult == ASSUME Inv2, Throw PROVE Result({})
BY StopResult DEF Throw, Stop

\* Writing less is writing less.
LEMMA ResultWeaker ==
  ASSUME NEW STATE fs, NEW STATE gs, Result(fs), fs \subseteq gs
  PROVE  Result(gs)
BY UntouchedWeaker DEF Result


\* A variable that can be named is stored where code may refer to it.
LEMMA NamedSafe ==
  ASSUME Inv2, status = "run", NEW x \in Names, scope[x].k \in {"slot", "ptr"}
  PROVE  Has(blocks, scope[x].at, Top.fn) /\ scope[x].at \notin Waiting
BY Here DEF Stored

\* Reading a variable refers to its storage.
LEMMA UseResult == ASSUME Inv2, Use PROVE Result({Top.fn})
<1>1. AtLine("use") /\ status = "run" /\ Inv1 BY DEF Use, AtLine, Inv2
<1>2. Cur.x \in Names BY <1>1, LineTypes DEF Complete, Line
<1>3. CASE Throw BY <1>3, ThrowResult, ResultWeaker
<1>4. CASE scope[Cur.x].k \in {"slot", "ptr"} /\ Emit(<<Refer("load", {scope[Cur.x].at})>>) /\ UNCHANGED <<scope, gc>>
  <2>1. scope[Cur.x].at \in Nat BY <1>1, <1>2, <1>4, LineTypes, SymbolFields
  <2>2. <<Refer("load", {scope[Cur.x].at})>> \in Seq(Instr) BY <2>1, InstrTypes, CodeTypes DEF Kinds
  <2>3. RefersTo(<<Refer("load", {scope[Cur.x].at})>>, blocks, Top.fn, Waiting)
    BY <1>1, <1>2, <1>4, NamedSafe, SafeOnes, RefersFew
  <2>. QED  BY <1>1, <1>4, <2>2, <2>3, Here, EmitResult
<1>5. CASE Emit(<< >>) /\ UNCHANGED <<scope, gc>>
  BY <1>1, <1>5, Here, EmitResult, CodeTypes, RefersFew
<1>. QED  BY <1>3, <1>4, <1>5 DEF Use

\* A variable declared at the insert point is stored where nothing is erased.
LEMMA DeclaredStored ==
  ASSUME Inv2, status = "run", NEW x \in Names
  PROVE  Stored([scope EXCEPT ![x] = SlotIn(ip)], blocks, Top.fn, Hanging)
<1>1. scope \in [Names -> Symbol] BY DEF Inv2, Inv1, Typed
<1>. QED  BY <1>1, Here DEF Stored, SlotIn

\* Assigning a variable refers to its storage, or declares it at the insert point.
LEMMA SetResult == ASSUME Inv2, Set PROVE Result({Top.fn})
<1>1. PICK o \in {"set", "heap"} : AtLine(o) BY DEF Set
<1>2. status = "run" /\ Inv1 BY <1>1 DEF AtLine, Inv2
<1>3. Cur.x \in Names /\ ip \in Nat BY <1>1, <1>2, LineTypes DEF Complete, Line
<1>4. CASE Throw BY <1>4, ThrowResult, ResultWeaker
<1>5. CASE /\ Emit(<<Plain("alloca"), Refer("store", {ip})>>)
           /\ scope' = [scope EXCEPT ![Cur.x] = SlotIn(ip)] /\ UNCHANGED gc
  <2>1. <<Plain("alloca"), Refer("store", {ip})>> \in Seq(Instr) BY <1>3, InstrTypes, CodeTypes DEF Kinds
  <2>2. RefersTo(<<Plain("alloca"), Refer("store", {ip})>>, blocks, Top.fn, Waiting)
    BY <1>2, Here, SafeOnes, RefersFew
  <2>3. Stored(scope', blocks, Top.fn, Hanging) BY <1>2, <1>3, <1>5, DeclaredStored
  <2>. QED  BY <1>2, <1>5, <2>1, <2>2, <2>3, EmitResult
<1>6. CASE /\ scope[Cur.x].k = "slot" /\ Emit(<<Refer("store", {scope[Cur.x].at})>>)
           /\ UNCHANGED <<scope, gc>>
  <2>1. scope[Cur.x].at \in Nat BY <1>1, <1>2, <1>3, <1>6, LineTypes, SymbolFields
  <2>2. <<Refer("store", {scope[Cur.x].at})>> \in Seq(Instr) BY <2>1, InstrTypes, CodeTypes DEF Kinds
  <2>3. RefersTo(<<Refer("store", {scope[Cur.x].at})>>, blocks, Top.fn, Waiting)
    BY <1>2, <1>3, <1>6, NamedSafe, SafeOnes, RefersFew
  <2>. QED  BY <1>2, <1>6, <2>2, <2>3, Here, EmitResult
<1>. QED  BY <1>4, <1>5, <1>6 DEF Set

\* Importing a header stores its functions at the insert point.
LEMMA ImportHeaderResult == ASSUME Inv2, ImportHeader PROVE Result({Top.fn})
<1>1. PICK o \in {"header", "link", "gclink"} : AtLine(o) BY DEF ImportHeader, AtHeader
<1>2. status = "run" /\ Inv1 BY <1>1 DEF AtLine, Inv2
<1>3. ip \in Nat BY <1>1, <1>2, LineTypes
<1>4. <<Plain("alloca"), Refer("store", {ip})>> \in Seq(Instr) BY <1>3, InstrTypes, CodeTypes DEF Kinds
<1>5. RefersTo(<<Plain("alloca"), Refer("store", {ip})>>, blocks, Top.fn, Waiting)
  BY <1>2, Here, SafeOnes, RefersFew
<1>. QED  BY <1>2, <1>4, <1>5, Here, EmitResult DEF ImportHeader

\* Binding a lazy literal names no storage.
LEMMA BindResult == ASSUME Inv2, Bind PROVE Result({Top.fn})
<1>1. AtLine("fun") /\ status = "run" /\ Inv1 BY DEF Bind, AtLine, Inv2
<1> DEFINE is == IF scope[Cur.x].k = "none" THEN <<Plain("alloca")>> ELSE << >>
<1>2. Cur.x \in Names BY <1>1, LineTypes DEF Complete, Line
<1>3. is \in Seq(Instr) BY InstrTypes, CodeTypes DEF Kinds
<1>4. RefersTo(is, blocks, Top.fn, Waiting)
  <2>1. RefersTo(<<Plain("alloca")>>, blocks, Top.fn, Waiting) /\ RefersTo(<< >>, blocks, Top.fn, Waiting)
    BY SafeOnes, RefersFew
  <2>. QED  BY <2>1
<1>5. Emit(is) /\ scope' = [scope EXCEPT ![Cur.x] = [k |-> "fn", at |-> Cur.a, mark |-> Marked]]
  BY DEF Bind
<1>. HIDE DEF is
<1>6. Stored(scope', blocks, Top.fn, Hanging)
  <2>1. scope \in [Names -> Symbol] BY <1>1, LineTypes
  <2>. QED  BY <1>1, <1>5, <2>1, Here DEF Stored
<1>. QED  BY <1>1, <1>3, <1>4, <1>5, <1>6, EmitResult

\* Returning a value refers to no block.
LEMMA ReturnResult == ASSUME Inv2, Return PROVE Result({Top.fn})
<1>1. AtLine("ret") /\ status = "run" /\ Inv1 /\ Emit(<<Ret(Cur.ty)>>) /\ scope' = scope BY DEF Return, AtLine, Inv2
<1>2. Cur.ty \in Types BY <1>1, LineTypes DEF Line
<1>3. <<Ret(Cur.ty)>> \in Seq(Instr) BY <1>2, InstrTypes, CodeTypes
<1>4. RefersTo(<<Ret(Cur.ty)>>, blocks, Top.fn, Waiting) BY SafeOnes, RefersFew
<1>. QED  BY <1>1, <1>3, <1>4, Here, EmitResult

\* Returning a call of @self refers to no block.
LEMMA ReturnSelfResult == ASSUME Inv2, ReturnSelf PROVE Result({Top.fn})
<1> DEFINE is == <<Plain("load"), CallOf(Top.fn, fns[Top.fn].rty), Ret(fns[Top.fn].rty)>>
<1>1. AtLine("retself") /\ status = "run" /\ Inv1 BY DEF ReturnSelf, AtLine, Inv2
<1>2. is \in Seq(Instr) BY <1>1, LineTypes, InstrTypes, CodeTypes DEF Kinds
<1>3. RefersTo(is, blocks, Top.fn, Waiting) BY SafeOnes, RefersFew
<1>4. CASE Throw BY <1>4, ThrowResult, ResultWeaker
<1>5. CASE Emit(is) /\ UNCHANGED <<scope, gc>>
  <2>. HIDE DEF is
  <2>. QED  BY <1>1, <1>2, <1>3, <1>5, Here, EmitResult
<1>. QED  BY <1>4, <1>5 DEF ReturnSelf

\* Loading an argument refers to its storage.
LEMMA LoadsSafe ==
  ASSUME Inv2, status = "run", NEW STATE sym, sym \in Symbol,
         sym.k \in {"slot", "ptr"} => Has(blocks, sym.at, Top.fn) /\ sym.at \notin Waiting
  PROVE  RefersTo(Loads(sym), blocks, Top.fn, Waiting)
<1>1. CASE sym.k \in {"slot", "ptr"} BY <1>1, SafeOnes, RefersFew DEF Loads
<1>2. CASE sym.k \notin {"slot", "ptr"}
  <2>1. Loads(sym) = << >> BY <1>2 DEF Loads
  <2>. QED  BY <2>1, RefersFew
<1>. QED  BY <1>1, <1>2

\* The argument of a line is a symbol, stored in the function being written.
LEMMA ArgSafe ==
  ASSUME Inv2, status = "run", Cur.y \in Names \cup {None}
  PROVE  /\ ArgOf(Cur, scope) \in Symbol
         /\ ArgOf(Cur, scope).k \in {"slot", "ptr"} =>
              Has(blocks, ArgOf(Cur, scope).at, Top.fn) /\ ArgOf(Cur, scope).at \notin Waiting
<1>1. scope \in [Names -> Symbol] BY DEF Inv2, Inv1, Typed
<1>2. CASE Cur.y = None
  <2>1. ArgOf(Cur, scope) = Absent BY <1>2 DEF ArgOf
  <2>. QED  BY <2>1, SymbolTypes DEF Absent
<1>3. CASE Cur.y # None
  <2>1. ArgOf(Cur, scope) = scope[Cur.y] /\ Cur.y \in Names BY <1>3 DEF ArgOf
  <2>. QED  BY <1>1, <2>1, NamedSafe
<1>. QED  BY <1>2, <1>3

\* Calling a function behind a pointer refers to the pointer and to the argument.
LEMMA CallPointerResult == ASSUME Inv2, CallPointer PROVE Result({Top.fn})
<1> DEFINE callee == scope[Cur.x]
           arg == ArgOf(Cur, scope)
           call == <<[Plain("call") EXCEPT !.ty = callee.ty]>>
           final == IF Cur.op = "retcall" THEN <<Ret(callee.ty)>> ELSE << >>
           is == Loads(callee) \o Loads(arg) \o call \o final
<1>1. PICK o \in {"call", "retcall"} : AtLine(o) BY DEF CallPointer, AtCall
<1>2. callee.k = "ptr" /\ Emit(is) /\ scope' = scope BY DEF CallPointer
<1>3. status = "run" /\ Inv1 BY <1>1 DEF AtLine, Inv2
<1>4. Cur.x \in Names /\ Cur.y \in Names \cup {None} BY <1>1, <1>3, LineTypes DEF Complete, Line
<1>5. callee \in Symbol BY <1>1, <1>3, <1>4, LineTypes
<1>6. arg \in Symbol /\ RefersTo(Loads(arg), blocks, Top.fn, Waiting) BY <1>3, <1>4, ArgSafe, LoadsSafe
<1>7. RefersTo(Loads(callee), blocks, Top.fn, Waiting) BY <1>3, <1>4, <1>5, NamedSafe, LoadsSafe
<1>8. callee.ty \in Types BY <1>2, <1>5, SymbolFields
<1>9. call \in Seq(Instr) /\ RefersTo(call, blocks, Top.fn, Waiting)
  <2>1. [Plain("call") EXCEPT !.ty = callee.ty] \in Instr BY <1>8 DEF Plain, Instr, Kinds
  <2>2. Safe([Plain("call") EXCEPT !.ty = callee.ty], blocks, Top.fn, Waiting) BY DEF Safe, Plain
  <2>. QED  BY <2>1, <2>2, CodeTypes, RefersFew
<1>10. final \in Seq(Instr) /\ RefersTo(final, blocks, Top.fn, Waiting)
  <2>1. <<Ret(callee.ty)>> \in Seq(Instr) /\ << >> \in Seq(Instr) BY <1>8, InstrTypes, CodeTypes
  <2>2. RefersTo(<<Ret(callee.ty)>>, blocks, Top.fn, Waiting) /\ RefersTo(<< >>, blocks, Top.fn, Waiting)
    BY SafeOnes, RefersFew
  <2>. QED  BY <2>1, <2>2
<1>11. Loads(callee) \in Seq(Instr) /\ Loads(arg) \in Seq(Instr) BY <1>5, <1>6, BeforeTypes
<1>. HIDE DEF call, final, callee, arg
<1>12. Loads(callee) \o Loads(arg) \in Seq(Instr) /\ RefersTo(Loads(callee) \o Loads(arg), blocks, Top.fn, Waiting)
  BY <1>6, <1>7, <1>11, ConcatProperties, RefersCat
<1>13. /\ (Loads(callee) \o Loads(arg)) \o call \in Seq(Instr)
       /\ RefersTo((Loads(callee) \o Loads(arg)) \o call, blocks, Top.fn, Waiting)
  BY <1>9, <1>12, ConcatProperties, RefersCat
<1>14. is \in Seq(Instr) /\ RefersTo(is, blocks, Top.fn, Waiting)
  BY <1>10, <1>13, ConcatProperties, RefersCat
<1>. HIDE DEF is
<1>. QED  BY <1>2, <1>3, <1>14, Here, EmitResult


\* A conditional on values: its three blocks are new, and only it refers to them.
LEMMA SelectResult == ASSUME Inv2, Select PROVE Result({Top.fn})
<1> DEFINE t == nblk + 1
           e == nblk + 2
           m == nblk + 3
           ids == {t, e, m}
           bs == Create(blocks, ids, Top.fn)
           arm == <<Refer("store", {ip}), Refer("br", {m})>>
           fork == <<Plain("alloca"), Refer("br", {t, e})>>
           join == <<Refer("load", {ip})>>
           b1 == AppendTo(bs, t, arm)
           b2 == AppendTo(b1, e, arm)
           b3 == AppendTo(b2, ip, fork)
           b4 == AppendTo(b3, m, join)
<1>1. AtLine("select") /\ status = "run" /\ Inv1 BY DEF Select, AtLine, Inv2
<1>2. /\ Good(blocks, Waiting) /\ ip \in DOMAIN blocks /\ blocks[ip].fn = Top.fn /\ Has(blocks, ip, Top.fn)
      /\ ip \notin Waiting /\ nblk \in Nat /\ DOMAIN blocks \subseteq 1..nblk /\ Top.fn \in Nat
      /\ Waiting \subseteq DOMAIN blocks /\ Stored(scope, blocks, Top.fn, Hanging)
  BY <1>1, Here
<1>3. /\ scope' = scope /\ fns' = fns /\ stack' = Advance(stack, Len(stack)) /\ blocks' = b4
  BY <1>2 DEF Select
<1>4. /\ t \in Nat /\ e \in Nat /\ m \in Nat /\ ip \in Nat /\ \A b \in ids : b \notin DOMAIN blocks /\ b > nblk
      /\ t \in ids /\ e \in ids /\ m \in ids
  BY <1>2
<1>5. arm \in Seq(Instr) /\ fork \in Seq(Instr) /\ join \in Seq(Instr) BY <1>4, InstrTypes, CodeTypes DEF Kinds
<1>. HIDE DEF ids
<1>6. /\ Good(bs, Waiting \cup ids) /\ DOMAIN bs = DOMAIN blocks \cup ids /\ Grows(blocks, bs)
      /\ \A c \in ids : Has(bs, c, Top.fn)
      /\ Untouched(blocks, bs, {})
  <2>1. Fresh(ids, blocks) BY <1>4 DEF Fresh
  <2>. QED  BY <1>2, <2>1, CreateStep
<1>. HIDE DEF bs
<1>7. Good(bs, Waiting) /\ Has(bs, ip, Top.fn) /\ t \notin Waiting /\ e \notin Waiting /\ m \notin Waiting
  <2>1. Good(bs, Waiting) BY <1>6, GoodWeaker
  <2>. QED  BY <1>2, <1>4, <1>6, <2>1 DEF Has, Grows
<1>8. \A c \in {t, e, m, ip} : Has(bs, c, Top.fn) /\ c \notin Waiting BY <1>2, <1>4, <1>6, <1>7
<1>9. ASSUME NEW cs, DOMAIN cs = DOMAIN bs, Grows(bs, cs)
      PROVE  /\ RefersTo(arm, cs, Top.fn, Waiting) /\ RefersTo(fork, cs, Top.fn, Waiting)
             /\ RefersTo(join, cs, Top.fn, Waiting)
             /\ \A c \in {t, e, m, ip} : c \in DOMAIN cs /\ cs[c].fn = Top.fn
  <2>1. \A c \in {t, e, m, ip} : Has(cs, c, Top.fn) /\ c \notin Waiting BY <1>8, <1>9 DEF Has, Grows
  <2>. QED  BY <2>1, SafeOnes, RefersFew DEF Has
<1>. HIDE DEF t, e, m, arm, fork, join
<1>10. Grows(bs, bs) /\ Untouched(bs, bs, {Top.fn}) BY DEF Grows, Untouched
<1>11. ASSUME NEW cs, Good(cs, Waiting), DOMAIN cs = DOMAIN bs, Grows(bs, cs), Untouched(bs, cs, {Top.fn}),
              NEW b \in {t, e, m, ip}, NEW is \in {arm, fork, join}, NEW ds, ds = AppendTo(cs, b, is)
       PROVE  Good(ds, Waiting) /\ DOMAIN ds = DOMAIN bs /\ Grows(bs, ds) /\ Untouched(bs, ds, {Top.fn})
  <2>1. Has(cs, b, Top.fn) /\ RefersTo(is, cs, Top.fn, Waiting) /\ is \in Seq(Instr) BY <1>5, <1>9, <1>11 DEF Has
  <2>2. Good(ds, Waiting) /\ DOMAIN ds = DOMAIN cs /\ Grows(cs, ds) /\ Untouched(cs, ds, {Top.fn})
    BY <1>11, <2>1, AppendStep
  <2>. QED  BY <1>11, <2>2, GrowsOn DEF Untouched
<1>12. Good(b1, Waiting) /\ DOMAIN b1 = DOMAIN bs /\ Grows(bs, b1) /\ Untouched(bs, b1, {Top.fn})
  BY <1>7, <1>10, <1>11
<1>. HIDE DEF b1
<1>13. Good(b2, Waiting) /\ DOMAIN b2 = DOMAIN bs /\ Grows(bs, b2) /\ Untouched(bs, b2, {Top.fn})
  BY <1>11, <1>12
<1>. HIDE DEF b2
<1>14. Good(b3, Waiting) /\ DOMAIN b3 = DOMAIN bs /\ Grows(bs, b3) /\ Untouched(bs, b3, {Top.fn})
  BY <1>11, <1>13
<1>. HIDE DEF b3
<1>16. Good(b4, Waiting) /\ DOMAIN b4 = DOMAIN bs /\ Grows(bs, b4) /\ Untouched(bs, b4, {Top.fn})
  BY <1>11, <1>14
<1>. HIDE DEF b4
<1>18. Grows(blocks, b4) /\ Untouched(blocks, b4, {Top.fn}) BY <1>6, <1>16, GrowsOn DEF Untouched
<1>19. Stored(scope', blocks', Top.fn, Hanging) BY <1>2, <1>3, <1>18 DEF Stored, Has, Grows
<1>20. \A b \in DOMAIN blocks' : b \in DOMAIN blocks \/ b > nblk BY <1>3, <1>4, <1>6, <1>16
<1>. QED  BY <1>1, <1>3, <1>16, <1>18, <1>19, <1>20, LineResult DEF Result

\* Allocating from the collector writes at the insert point and into the entry of main.
LEMMA HeapResult == ASSUME Inv2, Heap PROVE Result({1, Top.fn})
<1> DEFINE bs == IF gc THEN blocks ELSE InitGC(blocks)
           is == <<Plain("ccall"), Refer("store", {ip})>>
           init == <<Plain("gcinit")>>
<1>1. AtLine("heap") /\ status = "run" /\ Inv1 BY DEF Heap, AtLine, Inv2
<1>2. /\ fns' = fns /\ stack' = Advance(stack, Len(stack)) /\ scope' = [scope EXCEPT ![Cur.x] = SlotIn(ip)]
      /\ blocks' = AppendTo(bs, ip, is)
  BY DEF Heap
<1>3. Cur.x \in Names /\ ip \in Nat BY <1>1, LineTypes DEF Complete, Line
<1>4. /\ Good(blocks, Waiting) /\ ip \in DOMAIN blocks /\ blocks[ip].fn = Top.fn /\ Has(blocks, ip, Top.fn) /\ ip \notin Waiting
  BY <1>1, Here
<1>5. is \in Seq(Instr) /\ init \in Seq(Instr) BY <1>3, InstrTypes, CodeTypes DEF Kinds
<1>6. Good(bs, Waiting) /\ DOMAIN bs = DOMAIN blocks /\ Grows(blocks, bs) /\ Untouched(blocks, bs, {1})
  <2>1. CASE gc BY <2>1, <1>4 DEF Grows, Untouched
  <2>2. CASE ~gc
    <3>1. 1 \in DOMAIN blocks /\ blocks[1].fn = 1 BY <1>1 DEF Inv2, MainEntry
    <3>2. RefersTo(init, blocks, 1, Waiting) BY SafeOnes, RefersFew
    <3>3. bs = AppendTo(blocks, 1, init) /\ Has(blocks, 1, 1) BY <2>2, <3>1 DEF Has, InitGC
    <3>. HIDE DEF bs, init
    <3>. QED  BY <3>2, <3>3, <1>4, <1>5, AppendStep
  <2>. QED  BY <2>1, <2>2
<1>. HIDE DEF bs
<1>7. Has(bs, ip, Top.fn) /\ RefersTo(is, bs, Top.fn, Waiting)
  <2>1. Has(bs, ip, Top.fn) BY <1>4, <1>6 DEF Has, Grows
  <2>. QED  BY <1>4, <2>1, SafeOnes, RefersFew
<1>. HIDE DEF is
<1>8. /\ Good(blocks', Waiting) /\ DOMAIN blocks' = DOMAIN bs /\ Grows(bs, blocks') /\ Untouched(bs, blocks', {Top.fn})
  BY <1>2, <1>5, <1>6, <1>7, AppendStep
<1>9. Grows(blocks, blocks') /\ Untouched(blocks, blocks', {1, Top.fn})
  BY <1>6, <1>8, GrowsOn DEF Untouched
<1>10. Stored(scope', blocks', Top.fn, Hanging)
  <2>1. Stored(scope', blocks, Top.fn, Hanging) BY <1>1, <1>2, <1>3, DeclaredStored
  <2>. QED  BY <1>9, <2>1 DEF Stored, Has, Grows
<1>. QED  BY <1>1, <1>2, <1>6, <1>8, <1>9, <1>10, LineResult DEF Result


----------------------------------------------------------------------------
(* Each action: calls.                                                        *)

\* A routine begins: only the block it sets apart is new among those that hang.
LEMMA PushedPlaces ==
  ASSUME Inv1, NEW STATE f, f \in Frame, stack' = Append(stack, f)
  PROVE  /\ \A b \in Hanging' : b \in Hanging \/ (Pending(f) /\ b = f.next)
         /\ \A b \in Waiting' : b \in Waiting \/ (Pending(f) /\ b = f.next)
<1>1. /\ Len(stack') = Len(stack) + 1 /\ Len(stack) \in Nat
      /\ \A i \in 1..Len(stack) : stack'[i] = stack[i]
      /\ stack'[Len(stack) + 1] = f
  BY PushFacts
<1>2. \A j \in 2..(Len(stack) + 1) : (j \in 2..Len(stack) /\ j \in 1..Len(stack)) \/ j = Len(stack) + 1 BY <1>1
<1>. QED  BY <1>1, <1>2 DEF Hanging, Waiting, Unused, Pending

\* The parameter of a function is stored in its entry block.
LEMMA FormalsStored ==
  ASSUME NEW bs, NEW b, NEW arg \in Symbol, NEW entry, NEW g, NEW hanging, Has(bs, entry, g), entry \notin hanging
  PROVE  Stored(Formals(b, arg, entry), bs, g, hanging)
BY SymbolFields DEF Stored, Formals, Absent, SlotIn, PtrIn

\* A survey pass begins in a new function, with storage of its own.
LEMMA SurveyResult ==
  ASSUME Inv2, status = "run", NEW STATE b, b \in Bodies, NEW STATE mark, mark \in BOOLEAN,
         NEW STATE arg, arg \in Symbol, NEW STATE before, before \in Seq(Instr),
         RefersTo(before, blocks, Top.fn, Waiting), Survey(b, mark, arg, before)
  PROVE  Result({Top.fn})
<1> DEFINE entry == nblk + 1
           g == nfn + 1
           f == [kind |-> "fn", body |-> b, pos |-> 1, survey |-> TRUE,
                 mark |-> mark, fn |-> g, pb |-> ip, prev |-> scope,
                 one |-> entry, two |-> 0, next |-> 0, used |-> FALSE]
           first == <<Plain("alloca")>>
           b1 == AppendTo(blocks, ip, before)
           b2 == Create(b1, {entry}, g)
           b3 == AppendTo(b2, entry, first)
           t == [pass |-> "survey", rty |-> DeclaredType(b)]
<1>1. /\ stack' = Append(stack, f) /\ blocks' = b3 /\ scope' = Formals(b, arg, entry)
      /\ fns' = [h \in DOMAIN fns \cup {g} |-> IF h = g THEN t ELSE fns[h]]
  BY DEF Survey
<1>2. /\ Good(blocks, Waiting) /\ Has(blocks, ip, Top.fn) /\ nblk \in Nat /\ DOMAIN blocks \subseteq 1..nblk
      /\ Waiting \subseteq Hanging /\ Hanging \subseteq DOMAIN blocks /\ Inv1 /\ SlotsKept /\ SurveysErased
  BY Here
<1>3. nfn \in Nat /\ ip \in Nat /\ scope \in [Names -> Symbol] /\ nfn >= 1
  <2>1. nfn \in Nat /\ ip \in Nat /\ scope \in [Names -> Symbol] BY <1>2 DEF Inv1, Typed
  <2>2. stack[1].fn = 1 /\ stack[1].fn <= nfn BY <1>2, StackFacts DEF Inv1, StackDiscipline
  <2>. QED  BY <2>1, <2>2
<1>4. f \in Frame BY <1>2, <1>3 DEF Frame
<1>5. f.kind = "fn" /\ f.fn = g /\ f.prev = scope /\ f.survey /\ ~Pending(f) /\ g # 1 /\ g \in Nat
  BY <1>3 DEF Pending
<1>6. entry \in Nat /\ entry > nblk /\ entry \notin DOMAIN blocks BY <1>2
<1>7. t.pass = "survey" OBVIOUS
<1>. HIDE DEF f, t
<1>8. first \in Seq(Instr) /\ \A cs, h, w : RefersTo(first, cs, h, w)
  BY InstrTypes, CodeTypes, SafeOnes, RefersFew DEF Kinds
<1>9. Good(b1, Waiting) /\ DOMAIN b1 = DOMAIN blocks /\ Grows(blocks, b1) /\ Untouched(blocks, b1, {Top.fn})
  BY <1>2, AppendStep
<1>. HIDE DEF b1, entry, g, first
<1>10. /\ Good(b2, Waiting \cup {entry}) /\ DOMAIN b2 = DOMAIN b1 \cup {entry} /\ Grows(b1, b2)
       /\ Has(b2, entry, g) /\ Untouched(b1, b2, {})
  <2>1. Fresh({entry}, b1) BY <1>6, <1>9 DEF Fresh
  <2>2. b2 = Create(b1, {entry}, g) OBVIOUS
  <2>. HIDE DEF b2
  <2>. QED  BY <1>5, <1>9, <2>1, <2>2, CreateStep
<1>. HIDE DEF b2
<1>11. Good(b3, Waiting \cup {entry}) /\ DOMAIN b3 = DOMAIN b2 /\ Grows(b2, b3)
  <2> DEFINE w == Waiting \cup {entry}
  <2>1. RefersTo(first, b2, g, w) /\ Good(b2, w) /\ Has(b2, entry, g) BY <1>8, <1>10
  <2>. HIDE DEF w
  <2>2. Good(b3, w) /\ DOMAIN b3 = DOMAIN b2 /\ Grows(b2, b3) BY <1>8, <2>1, AppendStep
  <2>. QED  BY <2>2 DEF w
<1>12. \A c \in DOMAIN b2 : c # entry => b3[c] = b2[c]
  BY <1>8, <1>10, AppendCode DEF Good, Has
<1>. HIDE DEF b3
<1>13. Grows(blocks, b3) /\ Has(b3, entry, g)
  <2>1. Grows(blocks, b2) BY <1>9, <1>10, GrowsOn
  <2>. QED  BY <1>10, <1>11, <2>1, GrowsOn DEF Grows, Has
<1>14. Untouched(blocks, blocks', {Top.fn})
  BY <1>1, <1>6, <1>9, <1>10, <1>11, <1>12 DEF Untouched
<1>15. AllStay BY <1>1, <1>13 DEF AllStay, Stays, Grows
<1>16. Hanging' \subseteq Hanging /\ Waiting' \subseteq Waiting BY <1>1, <1>2, <1>4, <1>5, PushedPlaces
<1>17. Sound(blocks', Waiting') BY <1>1, <1>11, <1>16, GoodWeaker DEF Good, Sound
<1>18. Stored(scope', blocks', f.fn, Hanging')
  <2>1. entry \notin Hanging' BY <1>2, <1>6, <1>16
  <2>. QED  BY <1>1, <1>5, <1>13, <2>1, FormalsStored
<1>19. SlotsKept'
  <2>1. Doors(f, blocks', Hanging') BY <1>5 DEF Doors
  <2>. QED  BY <1>1, <1>2, <1>4, <1>5, <1>15, <1>18, <2>1, SlotsPush
<1>20. SurveysErased'
  <2>1. /\ Len(stack') = Len(stack) + 1 /\ Len(stack) \in Nat
        /\ \A i \in 1..Len(stack) : stack'[i] = stack[i]
        /\ stack'[Len(stack) + 1] = f
    BY <1>1, <1>2, <1>4, PushFacts
  <2>2. \A i \in 1..(Len(stack) + 1) : i \in 1..Len(stack) \/ i = Len(stack) + 1 BY <2>1
  <2>3. (\A i \in 1..Len(stack) : i \in 1..(Len(stack) + 1)) /\ Len(stack) + 1 \in 1..(Len(stack) + 1) BY <2>1
  <2>4. \A i \in 1..Len(stack) : stack[i].fn # g
    <3>1. \A i \in 1..Len(stack) : stack[i].fn \in Nat /\ stack[i].fn <= nfn BY <1>2, FnFacts
    <3>. QED  BY <1>3, <3>1 DEF g
  <2>5. Surveying(f) BY <1>5 DEF Surveying
  <2>6. ASSUME NEW h \in DOMAIN fns', fns'[h].pass = "survey"
        PROVE  \E i \in 1..Len(stack') : Surveying(stack'[i]) /\ stack'[i].fn = h
    <3>1. CASE h = g BY <2>1, <2>3, <2>5, <3>1, <1>5
    <3>2. CASE h # g
      <4>1. h \in DOMAIN fns /\ fns[h].pass = "survey" BY <1>1, <2>6, <3>2
      <4>2. PICK i \in 1..Len(stack) : Surveying(stack[i]) /\ stack[i].fn = h BY <4>1, <1>2, SurveyedFns
      <4>. QED  BY <2>1, <2>3, <4>2
    <3>. QED  BY <3>1, <3>2
  <2>7. ASSUME NEW i \in 1..Len(stack'), Surveying(stack'[i])
        PROVE  stack'[i].fn \in DOMAIN fns' /\ fns'[stack'[i].fn].pass = "survey"
    <3>1. CASE i = Len(stack) + 1 BY <1>1, <1>5, <1>7, <2>1, <3>1
    <3>2. CASE i \in 1..Len(stack)
      <4>1. Surveying(stack[i]) /\ stack'[i] = stack[i] /\ stack[i].fn # g BY <2>1, <2>4, <2>7, <3>2
      <4>2. stack[i].fn \in DOMAIN fns /\ fns[stack[i].fn].pass = "survey" BY <1>2, <3>2, <4>1, SurveyedFns
      <4>. QED  BY <1>1, <4>1, <4>2
    <3>. QED  BY <2>1, <2>2, <3>1, <3>2
  <2>. QED  BY <2>6, <2>7, SurveyedFnsNext
<1>21. Inside' BY <1>1, <1>4, <1>5, InsidePushed
<1>22. \A c \in DOMAIN blocks' : c \in DOMAIN blocks \/ c > nblk BY <1>1, <1>6, <1>9, <1>10, <1>11
<1>. QED  BY <1>14, <1>17, <1>19, <1>20, <1>21, <1>22 DEF Result

\* The scratch variables of a parameter refer to no block.
LEMMA ScratchSafe ==
  ASSUME NEW STATE b
  PROVE  RefersTo(Scratch(b), blocks, Top.fn, Waiting)
<1>1. RefersTo(<< >>, blocks, Top.fn, Waiting) /\ RefersTo(<<Plain("alloca"), Plain("load")>>, blocks, Top.fn, Waiting)
  BY SafeOnes, RefersFew
<1>. QED  BY <1>1 DEF Scratch

\* Evaluating an eager literal begins a survey pass.
LEMMA EvalLiteralResult == ASSUME Inv2, EvalLiteral PROVE Result({Top.fn})
<1>1. AtLine("fun") /\ status = "run" /\ Inv1 /\ Survey(Cur.a, Marked, Absent, Scratch(Cur.a))
  BY DEF EvalLiteral, AtLine, Inv2
<1>2. Cur.a \in Bodies BY <1>1, LineTypes DEF Line
<1>3. Marked \in BOOLEAN BY <1>1, StackFacts DEF Marked, Frame
<1>4. Absent \in Symbol /\ Scratch(Cur.a) \in Seq(Instr) BY <1>2, SymbolTypes, BeforeTypes
<1>. QED  BY <1>1, <1>2, <1>3, <1>4, ScratchSafe, SurveyResult

\* Calling a lazy function begins a survey pass.
LEMMA CallLazyResult == ASSUME Inv2, CallLazy PROVE Result({Top.fn})
<1> DEFINE arg == ArgOf(Cur, scope)
<1>1. PICK o \in {"call", "retcall"} : AtLine(o) BY DEF CallLazy, AtCall
<1>2. scope[Cur.x].k = "fn" /\ Survey(scope[Cur.x].at, scope[Cur.x].mark, arg, Loads(arg)) BY DEF CallLazy
<1>3. status = "run" /\ Inv1 BY <1>1 DEF AtLine, Inv2
<1>4. Cur.x \in Names /\ Cur.y \in Names \cup {None} BY <1>1, <1>3, LineTypes DEF Complete, Line
<1>5. scope[Cur.x] \in Symbol BY <1>1, <1>3, <1>4, LineTypes
<1>6. scope[Cur.x].at \in Bodies /\ scope[Cur.x].mark \in BOOLEAN BY <1>2, <1>5, SymbolFields
<1>7. arg \in Symbol /\ RefersTo(Loads(arg), blocks, Top.fn, Waiting) BY <1>3, <1>4, ArgSafe, LoadsSafe
<1>8. Loads(arg) \in Seq(Instr) BY <1>7, BeforeTypes
<1>. HIDE DEF arg
<1>. QED  BY <1>2, <1>3, <1>6, <1>7, <1>8, SurveyResult

\* Evaluating the top-level value begins a survey pass.
LEMMA EnterTopResult == ASSUME Inv2, EnterTop PROVE Result({Top.fn})
<1> DEFINE before == IF prog.eager[prog.top] THEN Scratch(prog.top) ELSE << >>
<1>1. status = "run" /\ Inv1 BY DEF EnterTop, Inv2
<1>2. CASE Throw BY <1>2, ThrowResult, ResultWeaker
<1>3. CASE Survey(prog.top, FALSE, Absent, before)
  <2>1. prog.top \in Bodies BY <1>1 DEF Inv1, Typed, WellFormed, Program
  <2>2. before \in Seq(Instr) BY <2>1, BeforeTypes, CodeTypes
  <2>3. RefersTo(before, blocks, Top.fn, Waiting)
    <3>1. RefersTo(<< >>, blocks, Top.fn, Waiting) BY RefersFew
    <3>. QED  BY <3>1, ScratchSafe
  <2>4. Absent \in Symbol /\ FALSE \in BOOLEAN BY SymbolTypes
  <2>. HIDE DEF before
  <2>. QED  BY <1>1, <1>3, <2>1, <2>2, <2>3, <2>4, SurveyResult
<1>. QED  BY <1>2, <1>3 DEF EnterTop


----------------------------------------------------------------------------
(* Each action: a routine is over.                                            *)

\* The blocks a routine that is over may take away.
Gone(b) == (Pending(Top) /\ b = Top.next) \/ (Top.kind = "fn" /\ blocks[b].fn = Top.fn)

\* A routine is over: the storage of its callers is where it was.
LEMMA PoppedSlots ==
  ASSUME Inv2, status = "run", Len(stack) > 1, FirstFrames(Len(stack) - 1),
         \A b \in DOMAIN blocks : Stays(b, blocks[b].fn) \/ Gone(b)
  PROVE  /\ Hanging' \subseteq Hanging /\ Waiting' \subseteq Waiting /\ Waiting' \subseteq Hanging' /\ Inside'
         /\ Stored(Top.prev, blocks', Caller.fn, Hanging')
         /\ Stored(scope', blocks', Caller.fn, Hanging') \/ status' # "run" => SlotsKept'
<1> DEFINE n == Len(stack) - 1
<1>1. Inv1 /\ SlotsKept BY Here
<1>2. /\ Len(stack) \in Nat /\ n \in 1..Len(stack) /\ n \in 1..n /\ Len(stack) \in 2..Len(stack)
      /\ \A i \in 1..n : i \in 1..(Len(stack) - 1)
  BY <1>1, StackFacts
<1>3. /\ Len(stack') = n
      /\ \A i \in 1..n : Resembles(stack'[i], stack[i]) /\ stack'[i].fn = stack[i].fn
  BY DEF FirstFrames, Alike
<1>. HIDE DEF n
<1>4. Hanging' \subseteq Hanging /\ Waiting' \subseteq Waiting BY <1>1, <1>2, <1>3, KeptPlaces
<1>5. Waiting' \subseteq Hanging' BY DEF Waiting, Hanging, Unused
<1>6. Inside' BY InsideKept
<1>7. ASSUME NEW b \in DOMAIN blocks
      PROVE  Stays(b, blocks[b].fn) \/ b \in Hanging \/ \A i \in 1..n : stack'[i].fn # blocks[b].fn
  <2>1. CASE Stays(b, blocks[b].fn) BY <2>1
  <2>2. CASE Pending(Top) /\ b = Top.next
    <3>1. b \in Hanging BY <2>2, <1>2 DEF Hanging, Top
    <3>. QED  BY <3>1
  <2>3. CASE Top.kind = "fn" /\ blocks[b].fn = Top.fn
    <3>1. \A i \in 1..n : stack[i].fn < Top.fn BY <1>1, <1>2, <2>3 DEF Inv1, StackDiscipline, Top
    <3>2. \A i \in 1..n : stack[i].fn \in Nat /\ Top.fn \in Nat BY <1>1, <1>2, FnFacts DEF Top
    <3>. QED  BY <1>3, <2>3, <3>1, <3>2
  <2>. QED  BY <2>1, <2>2, <2>3 DEF Gone
<1>8. stack'[n].fn = Caller.fn BY <1>2, <1>3 DEF Caller, n
<1>9. Stored(Top.prev, blocks', Caller.fn, Hanging')
  <2>1. Stored(Top.prev, blocks, Caller.fn, Hanging) BY <1>1, <1>2 DEF SlotsKept, Top, Caller
  <2>2. \A b \in DOMAIN blocks : blocks[b].fn = Caller.fn /\ b \notin Hanging => Has(blocks', b, Caller.fn) /\ b \notin Hanging'
    BY <1>2, <1>4, <1>7, <1>8 DEF Stays, Has
  <2>. QED  BY <2>1, <2>2, StoredStays
<1>10. ASSUME Stored(scope', blocks', Caller.fn, Hanging') PROVE SlotsKept'
  <2>1. Stored(scope', blocks', stack'[n].fn, Hanging') BY <1>8, <1>10
  <2>. QED  BY <1>1, <1>2, <1>3, <1>7, <2>1, SlotsKeep
<1>11. status' # "run" => SlotsKept' BY DEF SlotsKept
<1>. QED  BY <1>4, <1>5, <1>6, <1>9, <1>10, <1>11

\* The routine that is over, its caller and their functions.
LEMMA PoppedFns ==
  ASSUME Inv2, status = "run", Len(stack) > 1
  PROVE  /\ Top.fn # 1 /\ Top.fn \in Nat /\ Caller.fn \in Nat
         /\ Has(blocks, Top.pb, Caller.fn) /\ Top.pb \notin Hanging /\ Top.pb \in Nat
         /\ Caller.kind # "main" => Caller.fn # 1
         /\ Top.kind = "fn" => Caller.fn # Top.fn
         /\ Top.kind # "fn" => Caller.fn = Top.fn /\ Caller.kind # "main"
         /\ Stored(Top.prev, blocks, Caller.fn, Hanging)
<1>1. Inv1 BY DEF Inv2
<1>2. Len(stack) \in Nat /\ Len(stack) \in 2..Len(stack) /\ Len(stack) - 1 \in 1..(Len(stack) - 1) BY <1>1, StackFacts
<1>3. Top.fn # 1 BY <1>2 DEF Inv2, Inside, Top
<1>4. Top \in Frame /\ Caller \in Frame BY <1>1, StackFacts
<1>5. Has(blocks, Top.pb, Caller.fn) BY <1>1, <1>2, KeptFacts DEF Has, Top, Caller
<1>6. Top.pb \notin Hanging BY <1>1, <1>2, HangingFacts DEF Top
<1>7. Caller.kind # "main" => Caller.fn # 1
  <2>1. SUFFICES ASSUME Caller.kind # "main" PROVE Caller.fn # 1 OBVIOUS
  <2>2. Len(stack) - 1 \in 2..Len(stack) BY <1>1, <1>2, <2>1, StackFacts
  <2>. QED  BY <2>2 DEF Inv2, Inside, Caller
<1>8. Top.kind = "fn" => Caller.fn # Top.fn
  <2>1. Top.kind = "fn" => Caller.fn < Top.fn BY <1>1, <1>2 DEF Inv1, StackDiscipline, Top, Caller
  <2>. QED  BY <1>4, <2>1 DEF Frame
<1>9. Top.kind # "fn" => Caller.fn = Top.fn /\ Caller.kind # "main"
  <2>1. Top.kind # "fn" => Caller.fn = Top.fn /\ Len(stack) > 2 BY <1>1, <1>2 DEF Inv1, StackDiscipline, Top, Caller
  <2>. QED  BY <1>1, <1>2, <2>1, StackFacts
<1>10. Stored(Top.prev, blocks, Caller.fn, Hanging) BY <1>2 DEF Inv2, SlotsKept, Top, Caller
<1>. QED  BY <1>3, <1>4, <1>5, <1>6, <1>7, <1>8, <1>9, <1>10 DEF Frame

\* A step back from a function into its caller, where the function is called or stored.
LEMMA ReturnToResult ==
  ASSUME Inv2, AtEnd("fn"), NEW STATE bs, NEW STATE f, f \in Nat, NEW STATE t, t \in Types, ReturnTo(bs, f, t),
         Good(bs, Waiting), DOMAIN bs \subseteq DOMAIN blocks, Untouched(blocks, bs, {Top.fn}),
         \A b \in DOMAIN blocks : Has(bs, b, blocks[b].fn) \/ blocks[b].fn = Top.fn
  PROVE  /\ FirstFrames(Len(stack) - 1) /\ Sound(blocks', Waiting') /\ SlotsKept' /\ Inside'
         /\ Untouched(blocks, blocks', {Top.fn, Caller.fn} \ {1})
         /\ DOMAIN blocks' \subseteq DOMAIN blocks
<1> DEFINE l == LineOf(Caller)
           takes == prog.param[Top.body] # None
           tab == Top.fn \in tables
           old == Top.prev[l.x]
           home == IF old.k = "ptr" THEN old.at ELSE Top.pb
           call == IF l.op = "retcall" THEN <<CallOf(f, t)>> \o <<Ret(t)>> ELSE <<CallOf(f, t)>>
           one == <<[Refer("store", {home}) EXCEPT !.fn = {f}]>>
           store == IF old.k = "ptr" THEN one ELSE <<Plain("alloca")>> \o one
           sym == PtrIn(home, t, takes, tab)
<1>1. /\ status = "run" /\ Top.kind = "fn" /\ Len(stack) > 1 /\ Inv1 /\ Top.prev \in [Names -> Symbol]
  <2>1. status = "run" /\ Top.kind = "fn" /\ Inv1 BY DEF AtEnd, Inv2
  <2>2. Len(stack) > 1 /\ Top \in Frame BY <2>1, StackFacts
  <2>. QED  BY <2>1, <2>2 DEF Frame
<1>2. /\ Top.fn # 1 /\ Has(blocks, Top.pb, Caller.fn) /\ Top.pb \notin Hanging /\ Top.pb \in Nat
      /\ Caller.kind # "main" => Caller.fn # 1
      /\ Caller.fn # Top.fn /\ Stored(Top.prev, blocks, Caller.fn, Hanging)
  BY <1>1, PoppedFns
<1>3. Waiting \subseteq Hanging BY <1>1, Here
<1>4. Has(bs, Top.pb, Caller.fn) BY <1>2 DEF Has
<1>5. ASSUME NEW b \in DOMAIN blocks, blocks[b].fn = Caller.fn PROVE Has(bs, b, Caller.fn) BY <1>2, <1>5
<1>6. ASSUME FirstFrames(Len(stack) - 1), Grows(bs, blocks'), Good(blocks', Waiting), DOMAIN blocks' = DOMAIN bs,
             Untouched(bs, blocks', {Caller.fn} \ {1}),
             \/ status' # "run"
             \/ \A x \in Names : scope'[x] = Top.prev[x]
                                 \/ (scope'[x].k \in {"slot", "ptr"} => Has(blocks, scope'[x].at, Caller.fn) /\ scope'[x].at \notin Hanging)
      PROVE  /\ FirstFrames(Len(stack) - 1) /\ Sound(blocks', Waiting') /\ SlotsKept' /\ Inside'
             /\ Untouched(blocks, blocks', {Top.fn, Caller.fn} \ {1})
             /\ DOMAIN blocks' \subseteq DOMAIN blocks
  <2>1. \A b \in DOMAIN blocks : Stays(b, blocks[b].fn) \/ Gone(b)
    BY <1>1, <1>6 DEF Stays, Has, Grows, Gone
  <2>2. /\ Hanging' \subseteq Hanging /\ Waiting' \subseteq Waiting /\ Inside'
        /\ Stored(Top.prev, blocks', Caller.fn, Hanging')
        /\ Stored(scope', blocks', Caller.fn, Hanging') \/ status' # "run" => SlotsKept'
    BY <1>1, <1>6, <2>1, PoppedSlots
  <2>3. Sound(blocks', Waiting') BY <1>6, <2>2, GoodWeaker DEF Good
  <2>4. status' = "run" => Stored(scope', blocks', Caller.fn, Hanging')
    <3>1. \A b : Has(blocks, b, Caller.fn) => Has(blocks', b, Caller.fn) BY <1>5, <1>6 DEF Has, Grows
    <3>. QED  BY <1>6, <2>2, <3>1 DEF Stored
  <2>5. Untouched(blocks, blocks', {Top.fn, Caller.fn} \ {1}) BY <1>2, <1>6 DEF Untouched
  <2>. QED  BY <1>6, <2>2, <2>3, <2>4, <2>5
<1>7. CASE /\ Caller.kind = "main" /\ blocks' = bs /\ scope' = Top.prev /\ status' = status
           /\ stack' = [Below EXCEPT ![1] = [@ EXCEPT !.pos = 2, !.next = f]]
  <2>1. FirstFrames(Len(stack) - 1) BY <1>1, <1>7, MainKept
  <2>2. Grows(bs, blocks') /\ Untouched(bs, blocks', {Caller.fn} \ {1}) BY <1>7 DEF Grows, Untouched
  <2>. QED  BY <1>6, <1>7, <2>1, <2>2
<1>8. ASSUME Caller.kind # "main" PROVE l \in Line /\ Complete(l) /\ l.op \in {"fun", "call", "retcall"}
  <2>1. "fn" # "main" OBVIOUS
  <2>2. Started(Caller, Top) /\ l = prog.body[Caller.body][Caller.pos] /\ l \in Line /\ Complete(l)
    BY <1>1, <1>8, <2>1, EndFacts
  <2>. QED  BY <1>1, <2>2 DEF Started
<1>9. ASSUME Caller.kind # "main", NEW is \in Seq(Instr), RefersTo(is, bs, Caller.fn, Waiting),
             blocks' = AppendTo(bs, Top.pb, is)
      PROVE  /\ Good(blocks', Waiting) /\ DOMAIN blocks' = DOMAIN bs /\ Grows(bs, blocks')
             /\ Untouched(bs, blocks', {Caller.fn} \ {1})
  <2>1. /\ Good(blocks', Waiting) /\ DOMAIN blocks' = DOMAIN bs /\ Grows(bs, blocks')
        /\ Untouched(bs, blocks', {Caller.fn})
    BY <1>4, <1>9, AppendStep
  <2>. QED  BY <1>2, <1>9, <2>1 DEF Untouched
<1>10. CASE /\ Caller.kind # "main" /\ l.op # "fun" /\ blocks' = AppendTo(bs, Top.pb, call)
            /\ Pop /\ scope' = Top.prev /\ status' = status
  <2>1. call \in Seq(Instr) /\ RefersTo(call, bs, Caller.fn, Waiting)
    <3> DEFINE c == <<CallOf(f, t)>>
               r == <<Ret(t)>>
    <3>1. c \in Seq(Instr) /\ r \in Seq(Instr) BY InstrTypes, CodeTypes
    <3>2. RefersTo(c, bs, Caller.fn, Waiting) /\ RefersTo(r, bs, Caller.fn, Waiting) BY SafeOnes, RefersFew
    <3>3. call = c \o r \/ call = c OBVIOUS
    <3>. HIDE DEF c, r, call
    <3>4. c \o r \in Seq(Instr) /\ RefersTo(c \o r, bs, Caller.fn, Waiting) BY <3>1, <3>2, ConcatProperties, RefersCat
    <3>. QED  BY <3>1, <3>2, <3>3, <3>4
  <2>. HIDE DEF call
  <2>2. /\ Good(blocks', Waiting) /\ DOMAIN blocks' = DOMAIN bs /\ Grows(bs, blocks')
        /\ Untouched(bs, blocks', {Caller.fn} \ {1})
    BY <1>9, <1>10, <2>1
  <2>3. FirstFrames(Len(stack) - 1) BY <1>1, <1>10, PopKept
  <2>. QED  BY <1>6, <1>10, <2>2, <2>3
<1>11. CASE /\ Caller.kind # "main" /\ l.op = "fun" /\ blocks' = AppendTo(bs, Top.pb, store)
            /\ Pop /\ scope' = [Top.prev EXCEPT ![l.x] = sym] /\ status' = status
  <2>1. l.x \in Names BY <1>8, <1>11 DEF Complete, Line
  <2>2. old \in Symbol BY <1>1, <2>1
  <2>3. home \in Nat BY <1>2, <2>2, SymbolFields
  <2>4. Has(blocks, home, Caller.fn) /\ home \notin Hanging BY <1>2, <2>1 DEF Stored
  <2>5. Has(bs, home, Caller.fn) /\ home \notin Waiting BY <1>3, <1>5, <2>4 DEF Has
  <2>6. sym.at = home BY DEF PtrIn
  <2>. HIDE DEF home, old
  <2>7. one \in Seq(Instr) /\ RefersTo(one, bs, Caller.fn, Waiting)
    <3>1. [Refer("store", {home}) EXCEPT !.fn = {f}] \in Instr
      BY <2>3, TypesAssumption DEF Refer, Instr, Kinds
    <3>2. Safe([Refer("store", {home}) EXCEPT !.fn = {f}], bs, Caller.fn, Waiting)
      BY <2>5 DEF Refer, Safe
    <3>. QED  BY <3>1, <3>2, CodeTypes, RefersFew
  <2>8. store \in Seq(Instr) /\ RefersTo(store, bs, Caller.fn, Waiting)
    <3> DEFINE a == <<Plain("alloca")>>
    <3>1. a \in Seq(Instr) /\ RefersTo(a, bs, Caller.fn, Waiting)
      BY InstrTypes, CodeTypes, SafeOnes, RefersFew DEF Kinds
    <3>2. store = one \/ store = a \o one OBVIOUS
    <3>. HIDE DEF one, a, store
    <3>3. a \o one \in Seq(Instr) /\ RefersTo(a \o one, bs, Caller.fn, Waiting)
      BY <2>7, <3>1, ConcatProperties, RefersCat
    <3>. QED  BY <2>7, <3>2, <3>3
  <2>. HIDE DEF store, sym
  <2>9. /\ Good(blocks', Waiting) /\ DOMAIN blocks' = DOMAIN bs /\ Grows(bs, blocks')
        /\ Untouched(bs, blocks', {Caller.fn} \ {1})
    BY <1>9, <1>11, <2>8
  <2>10. FirstFrames(Len(stack) - 1) BY <1>1, <1>11, PopKept
  <2>11. \A x \in Names : scope'[x] = Top.prev[x] \/ scope'[x] = sym BY <1>1, <1>11
  <2>12. \A x \in Names : scope'[x] = Top.prev[x]
                          \/ (scope'[x].k \in {"slot", "ptr"} => Has(blocks, scope'[x].at, Caller.fn) /\ scope'[x].at \notin Hanging)
    BY <2>4, <2>6, <2>11
  <2>. QED  BY <1>6, <2>9, <2>10, <2>12
<1>12. CASE Caller.kind # "main" /\ blocks' = bs /\ Pop /\ scope' = Top.prev /\ status' = "error"
  <2>1. Grows(bs, blocks') /\ Untouched(bs, blocks', {Caller.fn} \ {1}) BY <1>12 DEF Grows, Untouched
  <2>2. FirstFrames(Len(stack) - 1) BY <1>1, <1>12, PopKept
  <2>. QED  BY <1>6, <1>12, <2>1, <2>2
<1>. QED  BY <1>7, <1>10, <1>11, <1>12 DEF ReturnTo


\* A marked literal: its survey function is erased, and the frames below keep theirs.
LEMMA EndMarkedResult == ASSUME Inv2, EndMarked PROVE Result({Top.fn, Caller.fn} \ {1})
<1> DEFINE bs == Erase(blocks, BlocksOf(Top.fn))
<1>1. AtEnd("fn") /\ Top.survey /\ fns' = [g \in DOMAIN fns \ {Top.fn} |-> fns[g]] BY DEF EndMarked, EndSurvey, Dismissed
<1>2. status = "run" /\ Top.kind = "fn" /\ Inv1 /\ SurveysErased /\ Good(blocks, Waiting)
  <2>1. status = "run" /\ Top.kind = "fn" BY <1>1 DEF AtEnd
  <2>. QED  BY <2>1, Here
<1>3. PICK t \in Surveyed(Top.fn) : ReturnTo(bs, 0, t) BY DEF EndMarked
<1>4. t \in Types /\ 0 \in Nat BY <1>2, <1>3, SurveyedTypes
<1>5. /\ Good(bs, Waiting) /\ DOMAIN bs = DOMAIN blocks \ BlocksOf(Top.fn) /\ \A c \in DOMAIN bs : bs[c] = blocks[c]
      /\ Untouched(blocks, bs, {Top.fn})
  <2>1. BlocksOf(Top.fn) = Owned(blocks, Top.fn) BY DEF BlocksOf, Owned
  <2>. QED  BY <1>2, <2>1, DismissStep
<1>6. \A b \in DOMAIN blocks : Has(bs, b, blocks[b].fn) \/ blocks[b].fn = Top.fn
  BY <1>5 DEF Has, BlocksOf
<1>. HIDE DEF bs
<1>7. /\ FirstFrames(Len(stack) - 1) /\ Sound(blocks', Waiting') /\ SlotsKept' /\ Inside'
      /\ Untouched(blocks, blocks', {Top.fn, Caller.fn} \ {1})
      /\ DOMAIN blocks' \subseteq DOMAIN blocks
  BY <1>1, <1>3, <1>4, <1>5, <1>6, ReturnToResult
<1>8. SurveysErased'
  <2> DEFINE n == Len(stack) - 1
  <2>1. \A i \in 1..n : stack[i].fn # Top.fn BY <1>1, <1>2, FnTop
  <2>2. Len(stack) \in Nat /\ Len(stack) > 1 /\ Len(stack') = n BY <1>1, <1>2, <1>7, FnTop, StackFacts DEF FirstFrames
  <2>3. \A i \in 1..Len(stack) : i \in 1..n \/ i = Len(stack) BY <2>2
  <2>4. \A i \in 1..n : i \in 1..Len(stack) BY <2>2
  <2>. HIDE DEF n
  <2>5. \A i \in 1..n : (Surveying(stack'[i]) <=> Surveying(stack[i])) /\ stack'[i].fn = stack[i].fn
    BY <1>7 DEF FirstFrames, Alike, Resembles, Surveying, n
  <2>6. ASSUME NEW g \in DOMAIN fns', fns'[g].pass = "survey"
        PROVE  \E i \in 1..n : Surveying(stack'[i]) /\ stack'[i].fn = g
    <3>1. g \in DOMAIN fns /\ g # Top.fn /\ fns[g].pass = "survey" BY <1>1, <2>6
    <3>2. PICK i \in 1..Len(stack) : Surveying(stack[i]) /\ stack[i].fn = g BY <3>1, <1>2, SurveyedFns
    <3>3. i # Len(stack) BY <3>1, <3>2 DEF Top
    <3>4. i \in 1..n BY <2>3, <3>3
    <3>. QED  BY <2>5, <3>2, <3>4
  <2>7. ASSUME NEW i \in 1..n, Surveying(stack'[i]) PROVE stack'[i].fn \in DOMAIN fns' /\ fns'[stack'[i].fn].pass = "survey"
    <3>1. Surveying(stack[i]) /\ stack'[i].fn = stack[i].fn /\ stack[i].fn # Top.fn BY <2>1, <2>5, <2>7
    <3>2. stack[i].fn \in DOMAIN fns /\ fns[stack[i].fn].pass = "survey" BY <1>2, <2>4, <3>1, SurveyedFns
    <3>. QED  BY <1>1, <3>1, <3>2
  <2>. QED  BY <2>2, <2>6, <2>7, SurveyedFnsNext
<1>. QED  BY <1>7, <1>8 DEF Result

\* A real pass is over: its function stays, with a return added when it has none to make.
LEMMA EndRealResult == ASSUME Inv2, EndReal PROVE Result({Top.fn, Caller.fn} \ {1})
<1> DEFINE t == fns[Top.fn].rty
           final == <<Plain("retvoid")>>
           bs == IF t = Void THEN AppendTo(blocks, ip, final) ELSE blocks
<1>1. AtEnd("fn") /\ ~Top.survey /\ ReturnTo(bs, Top.fn, t) /\ fns' = fns BY DEF EndReal
<1>2. status = "run" /\ Top.kind = "fn" /\ Inv1 /\ SurveysErased /\ Good(blocks, Waiting) /\ Has(blocks, ip, Top.fn)
  <2>1. status = "run" /\ Top.kind = "fn" BY <1>1 DEF AtEnd
  <2>. QED  BY <2>1, Here
<1>3. t \in Types /\ Top.fn \in Nat BY <1>1, <1>2, FnTop DEF Fn
<1>4. final \in Seq(Instr) /\ RefersTo(final, blocks, Top.fn, Waiting)
  BY InstrTypes, CodeTypes, SafeOnes, RefersFew DEF Kinds
<1>5. Good(bs, Waiting) /\ DOMAIN bs = DOMAIN blocks /\ Grows(blocks, bs) /\ Untouched(blocks, bs, {Top.fn})
  <2>1. CASE t = Void
    <3>1. bs = AppendTo(blocks, ip, final) BY <2>1
    <3>. HIDE DEF bs, final
    <3>. QED  BY <1>2, <1>4, <3>1, AppendStep
  <2>2. CASE t # Void
    <3>1. bs = blocks BY <2>2
    <3>. QED  BY <1>2, <3>1 DEF Grows, Untouched
  <2>. QED  BY <2>1, <2>2
<1>. HIDE DEF bs, t
<1>6. \A b \in DOMAIN blocks : Has(bs, b, blocks[b].fn) BY <1>5 DEF Has, Grows
<1>7. /\ FirstFrames(Len(stack) - 1) /\ Sound(blocks', Waiting') /\ SlotsKept' /\ Inside'
      /\ Untouched(blocks, blocks', {Top.fn, Caller.fn} \ {1})
      /\ DOMAIN blocks' \subseteq DOMAIN blocks
  BY <1>1, <1>3, <1>5, <1>6, ReturnToResult
<1>8. SurveysErased'
  <2>0. Len(stack) \in Nat BY <1>2, StackFacts
  <2>1. \A i \in 1..Len(stack) : i > Len(stack) - 1 => i = Len(stack) BY <2>0
  <2>2. \A i \in 1..Len(stack) : i > Len(stack) - 1 => ~Surveying(stack[i]) BY <1>1, <2>1 DEF Surveying, Top
  <2>. QED  BY <1>1, <1>2, <1>7, <2>2, SurveysKept
<1>. QED  BY <1>7, <1>8 DEF Result

\* From the survey to the real pass: the survey function is erased, and the
\* parameter has its storage in the entry of the new one.
LEMMA StartRealResult == ASSUME Inv2, StartReal PROVE Result({Top.fn})
<1> DEFINE entry == nblk + 1
           g == nfn + 1
           arg == IF Caller.kind = "main" THEN Absent ELSE ArgOf(LineOf(Caller), Top.prev)
           f == RealOf(Top, g, entry)
           first == <<Plain("alloca"), [Plain("store") EXCEPT !.fn = {g}]>>
           b1 == Erase(blocks, BlocksOf(Top.fn))
           b2 == Create(b1, {entry}, g)
           b3 == AppendTo(b2, entry, first)
           n == Len(stack)
<1>1. /\ AtEnd("fn") /\ Top.survey /\ blocks' = b3 /\ scope' = Formals(Top.body, arg, entry)
      /\ stack' = [stack EXCEPT ![n] = f]
  BY DEF StartReal, EndSurvey, RealOf, Top
<1>2. PICK t \in Surveyed(Top.fn) :
        fns' = [h \in (DOMAIN fns \ {Top.fn}) \cup {g} |-> IF h = g THEN [pass |-> "real", rty |-> t] ELSE fns[h]]
  BY DEF StartReal, Dismissed
<1>3. status = "run" /\ Top.kind = "fn" BY <1>1 DEF AtEnd
<1>4. /\ Inv1 /\ SlotsKept /\ SurveysErased /\ Good(blocks, Waiting) /\ nblk \in Nat /\ DOMAIN blocks \subseteq 1..nblk
      /\ Hanging \subseteq DOMAIN blocks
  BY <1>3, Here
<1>5. /\ n \in Nat /\ n > 1 /\ n \in 1..n /\ Top \in Frame /\ Top = stack[n] /\ Top.fn \in Nat /\ Top.fn <= nfn /\ nfn \in Nat
      /\ \A i \in 1..(n - 1) : stack[i].fn # Top.fn
      /\ \A i \in 1..n : stack[i].fn \in Nat /\ stack[i].fn <= nfn
  <2>1. n \in Nat /\ n > 1 /\ Top \in Frame BY <1>1, <1>4, FnTop, StackFacts
  <2>. QED  BY <1>1, <1>4, <2>1, FnTop, FnFacts DEF Top
<1>6. entry \in Nat /\ g \in Nat /\ entry > nblk /\ entry \notin DOMAIN blocks /\ g # Top.fn /\ g # 1
      /\ \A i \in 1..n : stack[i].fn # g
  <2>1. g \in Nat /\ entry \in Nat /\ entry > nblk /\ entry \notin DOMAIN blocks BY <1>4, <1>5
  <2>2. \A i \in 1..n : stack[i].fn # g BY <1>5
  <2>3. stack[1].fn = 1 /\ 1 \in 1..n BY <1>4, <1>5 DEF Inv1, StackDiscipline
  <2>. QED  BY <1>5, <2>1, <2>2, <2>3
<1>7. arg \in Symbol
  <2>1. Top.prev \in [Names -> Symbol] BY <1>5 DEF Frame
  <2>2. "fn" # "main" OBVIOUS
  <2>3. Caller.kind # "main" => LineOf(Caller) \in Line BY <1>1, <1>4, <2>2, EndFacts
  <2>. QED  BY <2>1, <2>3, SymbolTypes DEF ArgOf, Line
<1>8. f \in Frame /\ f.kind = "fn" /\ f.fn = g /\ f.prev = Top.prev /\ ~f.survey
  BY <1>3, <1>5, <1>6 DEF RealOf, Frame
<1>9. Len(stack') = n /\ (\A i \in 1..(n - 1) : stack'[i] = stack[i]) /\ stack'[n] = f
  BY <1>1, <1>4, <1>8, ReplaceShape DEF Shape
<1>10. first \in Seq(Instr) /\ \A cs, h, w : RefersTo(first, cs, h, w)
  <2>1. [Plain("store") EXCEPT !.fn = {g}] \in Instr BY <1>6, TypesAssumption DEF Plain, Instr, Kinds
  <2>2. \A cs, h, w : Safe([Plain("store") EXCEPT !.fn = {g}], cs, h, w) BY DEF Safe, Plain
  <2>3. first \in Seq(Instr) BY <2>1, InstrTypes, CodeTypes DEF Kinds
  <2>. QED  BY <2>2, <2>3, SafeOnes, RefersFew
<1>11. /\ Good(b1, Waiting) /\ DOMAIN b1 = DOMAIN blocks \ BlocksOf(Top.fn) /\ \A c \in DOMAIN b1 : b1[c] = blocks[c]
       /\ Untouched(blocks, b1, {Top.fn})
  <2>1. BlocksOf(Top.fn) = Owned(blocks, Top.fn) BY DEF BlocksOf, Owned
  <2>. QED  BY <1>4, <2>1, DismissStep
<1>. HIDE DEF entry, g, arg, f, first, b1, n
<1>12. /\ Good(b2, Waiting \cup {entry}) /\ DOMAIN b2 = DOMAIN b1 \cup {entry} /\ Grows(b1, b2)
       /\ Has(b2, entry, g) /\ Untouched(b1, b2, {})
  <2>1. Fresh({entry}, b1) BY <1>6, <1>11 DEF Fresh
  <2>. QED  BY <1>6, <1>11, <2>1, CreateStep
<1>. HIDE DEF b2
<1>13. Good(b3, Waiting) /\ DOMAIN b3 = DOMAIN b2 /\ Grows(b2, b3)
  <2>1. RefersTo(first, b2, g, Waiting) /\ Good(b2, Waiting) /\ Has(b2, entry, g) BY <1>10, <1>12, GoodWeaker
  <2>. QED  BY <1>10, <2>1, AppendStep
<1>14. \A c \in DOMAIN b2 : c # entry => b3[c] = b2[c]
  BY <1>10, <1>12, AppendCode DEF Good, Has
<1>. HIDE DEF b3
<1>15. Untouched(blocks, blocks', {Top.fn})
  BY <1>1, <1>6, <1>11, <1>12, <1>13, <1>14 DEF Untouched
<1>16. Has(blocks', entry, g) BY <1>1, <1>12, <1>13 DEF Has, Grows
<1>17. \A i \in 1..n : i \in 1..(n - 1) \/ i = n BY <1>5
<1>18. Resembles(f, Top) /\ ~Pending(Top) BY <1>3, <1>8 DEF Resembles, Pending
<1>19. /\ \A i \in 1..n : Resembles(stack'[i], stack[i])
       /\ \A i \in 1..n : stack'[i].fn = stack[i].fn \/ (i = n /\ ~Pending(stack[i]))
  <2>1. \A i \in 1..(n - 1) : Resembles(stack'[i], stack[i]) /\ stack'[i].fn = stack[i].fn
    BY <1>9, AlikeSelf DEF Alike
  <2>2. Resembles(stack'[n], stack[n]) /\ ~Pending(stack[n]) BY <1>5, <1>9, <1>18
  <2>. QED  BY <1>17, <2>1, <2>2
<1>20. Hanging' \subseteq Hanging /\ Waiting' \subseteq Waiting BY <1>4, <1>5, <1>9, <1>19, KeptPlaces DEF n
<1>21. Sound(blocks', Waiting') BY <1>1, <1>13, <1>20, GoodWeaker DEF Good
<1>22. SlotsKept'
  <2>1. Stored(scope', blocks', stack'[n].fn, Hanging')
    <3>1. entry \notin Hanging' BY <1>4, <1>6, <1>20
    <3>. QED  BY <1>1, <1>7, <1>8, <1>9, <1>16, <3>1, FormalsStored
  <2>2. \A i \in 1..n : stack'[i].fn # Top.fn BY <1>5, <1>6, <1>8, <1>9, <1>17
  <2>3. \A b \in DOMAIN blocks : Stays(b, blocks[b].fn) \/ blocks[b].fn = Top.fn
    BY <1>15 DEF Untouched, Stays
  <2>4. \A b \in DOMAIN blocks : Stays(b, blocks[b].fn) \/ b \in Hanging \/ \A i \in 1..n : stack'[i].fn # blocks[b].fn
    BY <2>2, <2>3
  <2>5. n \in 1..Len(stack) BY <1>5 DEF n
  <2>. QED  BY <1>3, <1>4, <1>9, <1>19, <2>1, <2>4, <2>5, SlotsKeep
<1>23. SurveysErased'
  <2>1. ~Surveying(f) BY <1>8 DEF Surveying
  <2>2. ASSUME NEW h \in DOMAIN fns', fns'[h].pass = "survey"
        PROVE  \E i \in 1..n : Surveying(stack'[i]) /\ stack'[i].fn = h
    <3>1. h # g BY <1>2, <2>2
    <3>2. h \in DOMAIN fns /\ h # Top.fn /\ fns[h].pass = "survey" BY <1>2, <2>2, <3>1
    <3>3. PICK i \in 1..n : Surveying(stack[i]) /\ stack[i].fn = h BY <1>3, <1>4, <3>2, SurveyedFns DEF n
    <3>4. i # n BY <1>5, <3>2, <3>3
    <3>5. stack'[i] = stack[i] BY <1>9, <1>17, <3>4
    <3>. QED  BY <3>3, <3>5
  <2>3. ASSUME NEW i \in 1..n, Surveying(stack'[i]) PROVE stack'[i].fn \in DOMAIN fns' /\ fns'[stack'[i].fn].pass = "survey"
    <3>1. i \in 1..(n - 1) BY <1>9, <1>17, <2>1, <2>3
    <3>2. stack'[i] = stack[i] /\ stack[i].fn # Top.fn /\ stack[i].fn # g BY <1>5, <1>6, <1>9, <3>1
    <3>3. stack[i].fn \in DOMAIN fns /\ fns[stack[i].fn].pass = "survey" BY <1>3, <1>4, <2>3, <3>2, SurveyedFns DEF n
    <3>. QED  BY <1>2, <3>2, <3>3
  <2>. QED  BY <1>9, <2>2, <2>3, SurveyedFnsNext
<1>24. Inside'
  <2>1. \A j \in 2..n : j \in 1..n BY <1>5
  <2>2. \A j \in 2..n : stack[j].fn # 1 BY DEF Inv2, Inside, n
  <2>3. \A j \in 2..n : stack'[j].fn # 1 BY <1>6, <1>8, <1>9, <1>17, <2>1, <2>2
  <2>. QED  BY <1>9, <2>3 DEF Inside
<1>25. \A c \in DOMAIN blocks' : c \in DOMAIN blocks \/ c > nblk BY <1>1, <1>6, <1>11, <1>12, <1>13
<1>. QED  BY <1>15, <1>21, <1>22, <1>23, <1>24, <1>25 DEF Result


----------------------------------------------------------------------------
(* Each action: scopes, conditionals and imports.                             *)

\* A routine begins that writes into the function at hand: the block set apart for
\* afterwards is new and nothing refers to it, those it will branch to are kept.
LEMMA PushResult ==
  ASSUME Inv2, status = "run", Len(stack) > 1, NEW STATE ids, \A b \in ids : b \in Nat /\ b > nblk,
         NEW STATE f, f \in Frame, f.kind \notin {"fn", "main"}, f.fn = Top.fn, f.prev = scope,
         stack' = Append(stack, f), fns' = fns, blocks' = Create(blocks, ids, Top.fn),
         scope' = scope \/ scope' = NoSymbols,
         Pending(f) => /\ f.next \in ids /\ f.one \in ids /\ f.one # f.next
                       /\ f.kind \in {"then", "else"} => f.two \in ids /\ f.two # f.next
  PROVE  Result({Top.fn})
<1>1. /\ Inv1 /\ SlotsKept /\ SurveysErased /\ Good(blocks, Waiting) /\ Hanging \subseteq DOMAIN blocks
      /\ Stored(scope, blocks, Top.fn, Hanging) /\ nblk \in Nat /\ DOMAIN blocks \subseteq 1..nblk /\ Top.fn \in Nat
  BY Here
<1>2. \A b \in ids : b \notin DOMAIN blocks BY <1>1
<1>3. /\ Good(blocks', Waiting \cup ids) /\ DOMAIN blocks' = DOMAIN blocks \cup ids /\ Grows(blocks, blocks')
      /\ \A c \in ids : Has(blocks', c, Top.fn)
      /\ Untouched(blocks, blocks', {})
  <2>1. Fresh(ids, blocks) BY <1>2 DEF Fresh
  <2>. QED  BY <1>1, <2>1, CreateStep
<1>4. /\ \A b \in Hanging' : b \in Hanging \/ (Pending(f) /\ b = f.next)
      /\ \A b \in Waiting' : b \in Waiting \/ (Pending(f) /\ b = f.next)
  BY <1>1, PushedPlaces
<1>5. Sound(blocks', Waiting')
  <2>1. Waiting' \subseteq Waiting \cup ids BY <1>4
  <2>. QED  BY <1>3, <2>1, GoodWeaker DEF Good
<1>6. AllStay BY <1>3 DEF AllStay, Stays, Grows
<1>7. Stored(scope', blocks', f.fn, Hanging')
  <2>1. CASE scope' = scope
    <3>1. \A b \in DOMAIN blocks : blocks[b].fn = Top.fn /\ b \notin Hanging => Has(blocks', b, Top.fn) /\ b \notin Hanging'
      BY <1>2, <1>3, <1>4 DEF Has, Grows
    <3>. QED  BY <1>1, <2>1, <3>1, StoredStays
  <2>2. CASE scope' = NoSymbols BY <2>2 DEF NoSymbols, Absent, Stored
  <2>. QED  BY <2>1, <2>2
<1>8. Doors(f, blocks', Hanging')
  <2>1. \A b \in ids : b \notin Hanging BY <1>1, <1>2
  <2>2. ASSUME Pending(f), NEW b \in ids, b # f.next PROVE Door(f, b, blocks', Hanging')
    BY <1>3, <1>4, <2>1, <2>2 DEF Door
  <2>. QED  BY <2>2 DEF Doors
<1>9. SlotsKept'
  <2>1. Pending(f) => f.next > nblk OBVIOUS
  <2>. QED  BY <1>1, <1>6, <1>7, <1>8, <2>1, SlotsPush
<1>10. SurveysErased' BY <1>1, SurveysPushed
<1>11. Top.fn # 1 BY PoppedFns
<1>12. Inside' BY <1>11, InsidePushed
<1>13. Untouched(blocks, blocks', {Top.fn}) BY <1>3, UntouchedWeaker
<1>14. \A b \in DOMAIN blocks' : b \in DOMAIN blocks \/ b > nblk BY <1>3
<1>. QED  BY <1>5, <1>9, <1>10, <1>12, <1>13, <1>14 DEF Result

\* A scope begins.
LEMMA EnterScopeResult == ASSUME Inv2, EnterScope PROVE Result({Top.fn})
<1> DEFINE nb == nblk + 1
           theblock == nblk + 2
           f == [kind |-> "scope", body |-> Cur.a, pos |-> 1, survey |-> FALSE, mark |-> FALSE,
                 fn |-> Top.fn, pb |-> ip, prev |-> scope, one |-> theblock, two |-> 0,
                 next |-> nb, used |-> FALSE]
           ids == {nb, theblock}
<1>1. /\ AtLine("scope") /\ scope' = scope /\ fns' = fns /\ stack' = Append(stack, f)
      /\ blocks' = Create(blocks, ids, blocks[ip].fn)
  BY DEF EnterScope
<1>2. status = "run" /\ Inv1 /\ Len(stack) > 1 BY <1>1, LinePlace DEF Inv2
<1>3. nblk \in Nat /\ blocks[ip].fn = Top.fn /\ Top.fn \in Nat BY <1>2, Here
<1>4. Cur.a \in Bodies /\ scope \in [Names -> Symbol] /\ ip \in Nat BY <1>1, <1>2, LineTypes DEF Line
<1>5. f \in Frame BY <1>3, <1>4 DEF Frame
<1>6. /\ \A b \in ids : b \in Nat /\ b > nblk
      /\ nb \in ids /\ theblock \in ids /\ theblock # nb
  BY <1>3
<1>7. f.kind = "scope" /\ f.fn = Top.fn /\ f.prev = scope /\ f.one = theblock /\ f.next = nb OBVIOUS
<1>. HIDE DEF f, nb, theblock, ids
<1>. QED  BY <1>1, <1>2, <1>3, <1>5, <1>6, <1>7, PushResult

\* A conditional begins.
LEMMA EnterCondResult == ASSUME Inv2, EnterCond PROVE Result({Top.fn})
<1> DEFINE thenbb == nblk + 1
           elsebb == nblk + 2
           mergebb == nblk + 3
           f == [kind |-> "then", body |-> Cur.a, pos |-> 1, survey |-> FALSE, mark |-> FALSE,
                 fn |-> Top.fn, pb |-> ip, prev |-> scope, one |-> thenbb, two |-> elsebb,
                 next |-> mergebb, used |-> FALSE]
           ids == {thenbb, elsebb, mergebb}
<1>1. /\ AtLine("cond") /\ scope' = scope /\ fns' = fns /\ stack' = Append(stack, f)
      /\ blocks' = Create(blocks, ids, blocks[ip].fn)
  BY DEF EnterCond
<1>2. status = "run" /\ Inv1 /\ Len(stack) > 1 BY <1>1, LinePlace DEF Inv2
<1>3. nblk \in Nat /\ blocks[ip].fn = Top.fn /\ Top.fn \in Nat BY <1>2, Here
<1>4. Cur.a \in Bodies /\ scope \in [Names -> Symbol] /\ ip \in Nat BY <1>1, <1>2, LineTypes DEF Line
<1>5. f \in Frame BY <1>3, <1>4 DEF Frame
<1>6. /\ \A b \in ids : b \in Nat /\ b > nblk
      /\ thenbb \in ids /\ elsebb \in ids /\ mergebb \in ids /\ thenbb # mergebb /\ elsebb # mergebb
  BY <1>3
<1>7. f.kind = "then" /\ f.fn = Top.fn /\ f.prev = scope /\ f.one = thenbb /\ f.two = elsebb /\ f.next = mergebb
  OBVIOUS
<1>. HIDE DEF f, thenbb, elsebb, mergebb, ids
<1>. QED  BY <1>1, <1>2, <1>3, <1>5, <1>6, <1>7, PushResult

\* An imported file begins, with no symbols.
LEMMA EnterImportResult == ASSUME Inv2, EnterImport PROVE Result({Top.fn})
<1> DEFINE f == [kind |-> "import", body |-> Cur.a, pos |-> 1, survey |-> FALSE, mark |-> FALSE,
                 fn |-> Top.fn, pb |-> ip, prev |-> scope, one |-> ip, two |-> 0, next |-> 0, used |-> FALSE]
<1>1. /\ AtLine("import") /\ scope' = NoSymbols /\ fns' = fns /\ stack' = Append(stack, f) /\ blocks' = blocks
  BY DEF EnterImport
<1>2. status = "run" /\ Inv1 /\ Len(stack) > 1 BY <1>1, LinePlace DEF Inv2
<1>3. Top.fn \in Nat /\ Good(blocks, Waiting) BY <1>2, Here
<1>4. Cur.a \in Bodies /\ scope \in [Names -> Symbol] /\ ip \in Nat BY <1>1, <1>2, LineTypes DEF Line
<1>5. f \in Frame BY <1>3, <1>4 DEF Frame
<1>6. f.kind = "import" /\ f.fn = Top.fn /\ f.prev = scope OBVIOUS
<1>. HIDE DEF f
<1>7. blocks' = Create(blocks, {}, Top.fn) BY <1>1, <1>3 DEF Create, Good, IsCode
<1>8. ~Pending(f) BY <1>6 DEF Pending
<1> DEFINE ids == {}
<1>9. (\A b \in ids : b \in Nat /\ b > nblk) /\ blocks' = Create(blocks, ids, Top.fn) BY <1>7
<1>. HIDE DEF ids
<1>. QED  BY <1>1, <1>2, <1>5, <1>6, <1>8, <1>9, PushResult


\* A scope, a branch or an import is over and its caller goes on.
LEMMA LeaveResult ==
  ASSUME Inv2, status = "run", Len(stack) > 1, Top.kind # "fn", Pop, fns' = fns, scope' = Top.prev,
         Good(blocks', Waiting'), Untouched(blocks, blocks', {Top.fn}), DOMAIN blocks' \subseteq DOMAIN blocks,
         \A b \in DOMAIN blocks : Stays(b, blocks[b].fn) \/ (Pending(Top) /\ b = Top.next)
  PROVE  Result({Top.fn})
<1>1. Inv1 /\ SurveysErased BY Here
<1>2. FirstFrames(Len(stack) - 1) BY <1>1, PopKept
<1>3. \A b \in DOMAIN blocks : Stays(b, blocks[b].fn) \/ Gone(b) BY DEF Gone
<1>4. SlotsKept' /\ Inside' BY <1>2, <1>3, PoppedSlots
<1>5. SurveysErased'
  <2>0. Len(stack) \in Nat BY <1>1, StackFacts
  <2>1. \A i \in 1..Len(stack) : i > Len(stack) - 1 => i = Len(stack) BY <2>0
  <2>2. \A i \in 1..Len(stack) : i > Len(stack) - 1 => ~Surveying(stack[i]) BY <2>1 DEF Surveying, Top
  <2>. QED  BY <1>1, <1>2, <2>2, SurveysKept
<1>. QED  BY <1>4, <1>5 DEF Result, Good

\* The last code of a scope or a conditional: a branch to the block set apart, if
\* it is wanted, and a branch from where the routine was entered to its blocks.
LEMMA CloseResult ==
  ASSUME Inv2, status = "run", Len(stack) > 1, Pending(Top), Pop, fns' = fns, scope' = Top.prev, NEW STATE bs,
         \/ bs = blocks
         \/ bs = AppendTo(blocks, ip, <<Refer("br", {Top.next})>>)
         \/ bs = Erase(blocks, {Top.next}) /\ Unused(Top),
         NEW STATE is, is \in Seq(Instr), \A i \in DOMAIN is : \A r \in is[i].ref : Door(Top, r, blocks, Hanging),
         blocks' = AppendTo(bs, Top.pb, is)
  PROVE  Result({Top.fn})
<1>1. /\ Inv1 /\ Good(blocks, Waiting) /\ Has(blocks, ip, Top.fn) /\ Waiting \subseteq Hanging
      /\ Top.kind # "fn"
  BY Here DEF Pending
<1>2. FirstFrames(Len(stack) - 1) BY <1>1, PopKept
<1>3. Top.next \notin Hanging' /\ Top.next \in Hanging BY <1>1, <1>2, PoppedNext
<1>4. Has(blocks, Top.next, Top.fn) /\ Top.next \in Nat
  <2>1. Len(stack) \in 2..Len(stack) /\ Top \in Frame BY <1>1, StackFacts
  <2>. QED  BY <1>1, <2>1, KeptFacts DEF Has, Top, Frame
<1>5. Has(blocks, Top.pb, Top.fn) /\ Top.pb \notin Hanging BY <1>1, PoppedFns
<1>6. Hanging' \subseteq Hanging /\ Waiting' \subseteq Waiting /\ Waiting' \subseteq Hanging'
  <2>1. Len(stack) \in Nat /\ Len(stack) - 1 \in 1..Len(stack) BY <1>1, StackFacts
  <2>2. Len(stack') = Len(stack) - 1 /\ \A i \in 1..(Len(stack) - 1) : Resembles(stack'[i], stack[i])
    BY <1>2 DEF FirstFrames, Alike
  <2>3. Hanging' \subseteq Hanging /\ Waiting' \subseteq Waiting BY <1>1, <2>1, <2>2, KeptPlaces
  <2>4. Waiting' \subseteq Hanging' BY DEF Waiting, Hanging, Unused
  <2>. QED  BY <2>3, <2>4
<1>7. Good(blocks, Waiting') BY <1>1, <1>6, GoodWeaker
<1>8. /\ Good(bs, Waiting') /\ DOMAIN bs \subseteq DOMAIN blocks /\ Untouched(blocks, bs, {Top.fn})
      /\ \A b \in DOMAIN blocks : Has(bs, b, blocks[b].fn) \/ b = Top.next
  <2>1. CASE bs = blocks BY <1>7, <2>1 DEF Untouched, Has
  <2>2. CASE bs = AppendTo(blocks, ip, <<Refer("br", {Top.next})>>)
    <3> DEFINE br == <<Refer("br", {Top.next})>>
               w == Waiting'
    <3>1. br \in Seq(Instr) BY <1>4, InstrTypes, CodeTypes DEF Kinds
    <3>2. Top.next \notin w BY <1>3, <1>6
    <3>3. RefersTo(br, blocks, Top.fn, w) BY <1>4, <3>2, SafeOnes, RefersFew
    <3>4. bs = AppendTo(blocks, ip, br) /\ Good(blocks, w) BY <1>7, <2>2
    <3>. HIDE DEF br, w
    <3>5. Good(bs, w) /\ DOMAIN bs = DOMAIN blocks /\ Grows(blocks, bs) /\ Untouched(blocks, bs, {Top.fn})
      BY <1>1, <3>1, <3>3, <3>4, AppendStep
    <3>. QED  BY <3>5 DEF Has, Grows, w
  <2>3. CASE bs = Erase(blocks, {Top.next}) /\ Unused(Top)
    <3>1. Len(stack) \in 2..Len(stack) BY <1>1, StackFacts
    <3>2. Top.next \in Waiting BY <2>3, <3>1 DEF Waiting, Top
    <3>3. /\ Good(bs, Waiting) /\ DOMAIN bs = DOMAIN blocks \ {Top.next} /\ \A c \in DOMAIN bs : bs[c] = blocks[c]
          /\ Untouched(blocks, bs, {Top.fn})
      <4> DEFINE next == Top.next
                 f == Top.fn
      <4>1. next \in Waiting /\ Has(blocks, next, f) /\ Good(blocks, Waiting) /\ bs = Erase(blocks, {next})
        BY <1>1, <1>4, <2>3, <3>2
      <4>. HIDE DEF next, f
      <4>2. /\ Good(bs, Waiting) /\ DOMAIN bs = DOMAIN blocks \ {next} /\ \A c \in DOMAIN bs : bs[c] = blocks[c]
            /\ Untouched(blocks, bs, {f})
        BY ONLY <4>1, EraseStep
      <4>. QED  BY <4>2 DEF next, f
    <3>4. Good(bs, Waiting') BY <1>6, <3>3, GoodWeaker
    <3>. QED  BY <3>3, <3>4 DEF Has
  <2>. QED  BY <2>1, <2>2, <2>3
<1>9. /\ Good(blocks', Waiting') /\ DOMAIN blocks' = DOMAIN bs /\ Grows(bs, blocks') /\ Untouched(bs, blocks', {Top.fn})
  <2> DEFINE w == Waiting'
  <2>1. \A b : Door(Top, b, blocks, Hanging) => Has(bs, b, Top.fn) /\ b \notin w
    BY <1>3, <1>6, <1>8 DEF Door, Has
  <2>2. RefersTo(is, bs, Top.fn, w) BY <2>1 DEF RefersTo
  <2>3. Has(bs, Top.pb, Top.fn) BY <1>3, <1>5, <1>8 DEF Has
  <2>4. Good(bs, w) BY <1>8
  <2>. HIDE DEF w
  <2>5. Good(blocks', w) /\ DOMAIN blocks' = DOMAIN bs /\ Grows(bs, blocks') /\ Untouched(bs, blocks', {Top.fn})
    BY <2>2, <2>3, <2>4, AppendStep
  <2>. QED  BY <2>5 DEF w
<1>10. \A b \in DOMAIN blocks : Stays(b, blocks[b].fn) \/ (Pending(Top) /\ b = Top.next)
  BY <1>8, <1>9 DEF Stays, Has, Grows
<1>11. Untouched(blocks, blocks', {Top.fn}) BY <1>8, <1>9 DEF Untouched
<1>. QED  BY <1>1, <1>8, <1>9, <1>10, <1>11, LeaveResult

\* The doors of the innermost scope or conditional.
LEMMA TopDoors ==
  ASSUME Inv2, status = "run", Len(stack) > 1
  PROVE  Doors(Top, blocks, Hanging)
<1>1. Inv1 /\ SlotsKept BY Here
<1>2. Len(stack) \in 2..Len(stack) BY <1>1, StackFacts
<1>. QED  BY <1>1, <1>2 DEF SlotsKept, Top

\* A scope is over.
LEMMA LeaveScopeResult == ASSUME Inv2, LeaveScope PROVE Result({Top.fn})
<1> DEFINE bs == IF ~HasTerminator(ip) THEN AppendTo(blocks, ip, <<Refer("br", {Top.next})>>)
                                       ELSE Erase(blocks, {Top.next})
           is == <<Refer("br", {Top.one})>>
<1>1. AtEnd("scope") /\ fns' = fns /\ scope' = Top.prev /\ Pop /\ blocks' = AppendTo(bs, Top.pb, is)
  BY DEF LeaveScope
<1>2. /\ status = "run" /\ Top.kind = "scope" /\ Len(stack) > 2 /\ Top.one \in Nat
  BY <1>1, InnerTop DEF Inv2
<1>3. Pending(Top) /\ Unused(Top) /\ Len(stack) > 1
  <2>1. Len(stack) \in Nat BY StackFacts DEF Inv2
  <2>. QED  BY <1>2, <2>1 DEF Pending, Unused
<1>4. Door(Top, Top.one, blocks, Hanging) BY <1>2, <1>3, TopDoors DEF Doors
<1>5. is \in Seq(Instr) BY <1>2, InstrTypes, CodeTypes DEF Kinds
<1>6. \A i \in DOMAIN is : \A r \in is[i].ref : Door(Top, r, blocks, Hanging)
  BY <1>4 DEF Refer
<1>7. \/ bs = AppendTo(blocks, ip, <<Refer("br", {Top.next})>>)
      \/ bs = Erase(blocks, {Top.next}) /\ Unused(Top)
  BY <1>3
<1>. HIDE DEF bs, is
<1>. QED  BY <1>1, <1>2, <1>3, <1>5, <1>6, <1>7, CloseResult

\* A conditional is over.
LEMMA EndElseResult == ASSUME Inv2, EndElse PROVE Result({Top.fn})
<1> DEFINE bs == IF MergeUsed THEN Fall ELSE Erase(blocks, {Top.next})
           is == <<Refer("br", {Top.one, Top.two})>>
<1>1. AtEnd("else") /\ fns' = fns /\ scope' = Top.prev /\ Pop /\ blocks' = AppendTo(bs, Top.pb, is)
  BY DEF EndElse
<1>2. /\ status = "run" /\ Top.kind = "else" /\ Len(stack) > 2 /\ Top.one \in Nat /\ Top.two \in Nat
  BY <1>1, InnerTop DEF Inv2
<1>3. Pending(Top) /\ Len(stack) > 1
  <2>1. Len(stack) \in Nat BY StackFacts DEF Inv2
  <2>. QED  BY <1>2, <2>1 DEF Pending
<1>4. Door(Top, Top.one, blocks, Hanging) /\ Door(Top, Top.two, blocks, Hanging) BY <1>2, <1>3, TopDoors DEF Doors
<1>5. is \in Seq(Instr) BY <1>2, InstrTypes, CodeTypes DEF Kinds
<1>6. \A i \in DOMAIN is : \A r \in is[i].ref : Door(Top, r, blocks, Hanging)
  BY <1>4 DEF Refer
<1>7. \/ bs = blocks
      \/ bs = AppendTo(blocks, ip, <<Refer("br", {Top.next})>>)
      \/ bs = Erase(blocks, {Top.next}) /\ Unused(Top)
  BY <1>3 DEF MergeUsed, Fall, Unused
<1>. HIDE DEF bs, is
<1>. QED  BY <1>1, <1>2, <1>3, <1>5, <1>6, <1>7, CloseResult

\* An imported file is over.
LEMMA LeaveImportResult == ASSUME Inv2, LeaveImport PROVE Result({Top.fn})
<1>1. AtEnd("import") /\ fns' = fns /\ scope' = Top.prev /\ Pop /\ blocks' = blocks BY DEF LeaveImport
<1>2. status = "run" /\ Top.kind = "import" /\ Len(stack) > 2 /\ Inv1 BY <1>1, InnerTop DEF Inv2
<1>3. Len(stack) > 1 /\ Len(stack) - 1 \in 1..Len(stack) BY <1>2, StackFacts
<1>4. FirstFrames(Len(stack) - 1) BY <1>1, <1>2, <1>3, PopKept
<1>5. Waiting' \subseteq Waiting
  <2>1. Len(stack') = Len(stack) - 1 /\ \A i \in 1..(Len(stack) - 1) : Resembles(stack'[i], stack[i])
    BY <1>4 DEF FirstFrames, Alike
  <2>. QED  BY <1>2, <1>3, <2>1, KeptPlaces
<1>6. Good(blocks', Waiting')
  <2>1. Good(blocks, Waiting) BY <1>2, Here
  <2>. QED  BY <1>1, <1>5, <2>1, GoodWeaker
<1>7. Untouched(blocks, blocks', {Top.fn}) /\ \A b \in DOMAIN blocks : Stays(b, blocks[b].fn)
  BY <1>1 DEF Untouched, Stays
<1>. QED  BY <1>1, <1>2, <1>3, <1>6, <1>7, LeaveResult

\* From one branch of a conditional to the other: a branch to mergebb makes it one
\* that is not erased.
LEMMA EndThenResult == ASSUME Inv2, EndThen PROVE Result({Top.fn})
<1> DEFINE f == [Top EXCEPT !.kind = "else", !.body = LineOf(Caller).b, !.pos = 1, !.used = ~HasTerminator(ip)]
           n == Len(stack)
           br == <<Refer("br", {Top.next})>>
<1>1. AtEnd("then") /\ fns' = fns /\ scope' = Top.prev /\ blocks' = Fall /\ stack' = [stack EXCEPT ![n] = f]
  BY DEF EndThen, Top
<1>2. status = "run" /\ Top.kind = "then" /\ Len(stack) > 2 /\ Top.next \in Nat /\ Inv1 BY <1>1, InnerTop DEF Inv2
<1>3. n \in Nat /\ n > 1 /\ n \in 1..n /\ n \in 2..n /\ Top \in Frame BY <1>2, StackFacts
<1>4. /\ Good(blocks, Waiting) /\ Has(blocks, ip, Top.fn) /\ Waiting \subseteq Hanging /\ SlotsKept /\ SurveysErased
  BY <1>2, Here
<1>5. Caller.kind # "main" /\ Caller.fn = Top.fn /\ Stored(Top.prev, blocks, Caller.fn, Hanging)
  BY <1>2, <1>3, PoppedFns
<1>6. f \in Frame
  <2>1. LineOf(Caller).b \in Bodies
    <3>1. "then" # "main" OBVIOUS
    <3>2. LineOf(Caller) \in Line BY <1>1, <1>2, <1>5, <3>1, EndFacts
    <3>. QED  BY <3>2 DEF Line
  <2>2. (~HasTerminator(ip)) \in BOOLEAN BY DEF HasTerminator
  <2>. QED  BY <1>3, <2>1, <2>2 DEF Frame
<1>7. f.kind = "else" /\ (f.used <=> ~HasTerminator(ip)) /\ f.next = Top.next /\ f.one = Top.one /\ f.two = Top.two
      /\ f.prev = Top.prev /\ f.fn = Top.fn /\ f.survey = Top.survey
  BY <1>3 DEF Frame
<1>. HIDE DEF f
<1>8. Alike(f, stack[n]) BY <1>2, <1>7 DEF Alike, Resembles, Top
<1>9. Shape(stack', n, f) BY <1>1, <1>2, <1>6, ReplaceShape
<1>10. FirstFrames(n) BY <1>2, <1>3, <1>8, <1>9, ShapeKept
<1>11. /\ Len(stack') = n /\ stack'[n] = f /\ \A i \in 1..(n - 1) : stack'[i] = stack[i]
       /\ \A i \in 1..n : Resembles(stack'[i], stack[i]) /\ stack'[i].fn = stack[i].fn
  BY <1>9, <1>10 DEF Shape, FirstFrames, Alike
<1>12. Hanging' \subseteq Hanging /\ Waiting' \subseteq Waiting BY <1>2, <1>3, <1>11, KeptPlaces
<1>13. Good(blocks, Waiting') BY <1>4, <1>12, GoodWeaker
<1>14. /\ Good(blocks', Waiting') /\ DOMAIN blocks' = DOMAIN blocks /\ Grows(blocks, blocks')
       /\ Untouched(blocks, blocks', {Top.fn})
  <2>1. CASE HasTerminator(ip)
    <3>1. blocks' = blocks BY <1>1, <2>1 DEF Fall
    <3>. QED  BY <1>13, <3>1 DEF Grows, Untouched
  <2>2. CASE ~HasTerminator(ip)
    <3> DEFINE w == Waiting'
    <3>1. ASSUME NEW j \in 2..n, Unused(stack'[j]) PROVE stack'[j].next # Top.next
      <4>1. CASE j = n BY <1>7, <1>11, <2>2, <3>1, <4>1 DEF Unused
      <4>2. CASE j # n
        <5>1. j \in 1..(n - 1) BY <1>3, <4>2
        <5>2. stack'[j] = stack[j] /\ Pending(stack[j]) BY <1>11, <3>1, <5>1 DEF Unused
        <5>3. Pending(stack[n]) BY <1>2 DEF Pending, Top
        <5>4. stack[j].next # stack[n].next BY <1>2, <1>3, <4>2, <5>2, <5>3 DEF Inv1, BlocksKept
        <5>. QED  BY <5>2, <5>4 DEF Top
      <4>. QED  BY <4>1, <4>2
    <3>2. Top.next \notin w BY <1>11, <3>1 DEF Waiting, Unused, Pending
    <3>3. Has(blocks, Top.next, Top.fn)
      <4>1. Pending(stack[n]) BY <1>2 DEF Pending, Top
      <4>. QED  BY <1>2, <1>3, <4>1, KeptFacts DEF Has, Top
    <3>4. br \in Seq(Instr) /\ RefersTo(br, blocks, Top.fn, w)
      BY <1>2, <3>2, <3>3, InstrTypes, CodeTypes, SafeOnes, RefersFew DEF Kinds
    <3>5. blocks' = AppendTo(blocks, ip, br) /\ Good(blocks, w) BY <1>1, <1>13, <2>2 DEF Fall
    <3>. HIDE DEF br, w
    <3>6. /\ Good(blocks', w) /\ DOMAIN blocks' = DOMAIN blocks /\ Grows(blocks, blocks')
          /\ Untouched(blocks, blocks', {Top.fn})
      BY <1>4, <3>4, <3>5, AppendStep
    <3>. QED  BY <3>6 DEF w
  <2>. QED  BY <2>1, <2>2
<1>. HIDE DEF n
<1>15. SlotsKept'
  <2>1. \A b \in DOMAIN blocks : Stays(b, blocks[b].fn) BY <1>14 DEF Grows, Stays
  <2>2. Stored(scope', blocks', Top.fn, Hanging')
    <3>1. \A b \in DOMAIN blocks : blocks[b].fn = Top.fn /\ b \notin Hanging => Has(blocks', b, Top.fn) /\ b \notin Hanging'
      BY <1>12, <1>14 DEF Has, Grows
    <3>. QED  BY <1>1, <1>5, <3>1, StoredStays
  <2>3. stack'[n].fn = Top.fn BY <1>7, <1>11
  <2>4. n \in 1..Len(stack) BY <1>3 DEF n
  <2>. QED  BY <1>2, <1>4, <1>11, <2>1, <2>2, <2>3, <2>4, SlotsKeep
<1>16. SurveysErased'
  <2>1. \A i \in 1..Len(stack) : ~(i > n) BY <1>3 DEF n
  <2>. QED  BY <1>1, <1>2, <1>4, <1>10, <2>1, SurveysKept
<1>17. Inside' BY <1>10, InsideKept
<1>. QED  BY <1>14, <1>15, <1>16, <1>17 DEF Result, Good


----------------------------------------------------------------------------
(* The entry of main, and the collector.                                      *)

\* When the user's function has been translated, or not yet, only main is in progress.
LEMMA MainTop ==
  ASSUME Inv1, Top.kind = "main"
  PROVE  Len(stack) = 1 /\ Top = stack[1] /\ Top.fn = 1
<1> DEFINE n == Len(stack)
<1>1. n < 2 /\ n \in Nat /\ n >= 1 BY StackFacts
<1>. HIDE DEF n
<1>2. n = 1 BY ONLY <1>1
<1>. QED  BY <1>2 DEF n, Top, Inv1, StackDiscipline

\* main is closed, or dropped with everything in it.
LEMMA CreateMainRetResult == ASSUME Inv2, CreateMainRet PROVE Result({1})
<1> DEFINE t == fns[Top.next].rty
           is == <<CallOf(Top.next, t), Ret(IF t = Void THEN I32 ELSE t)>>
<1>1. status = "run" /\ Top.kind = "main" /\ Top.pos = 2 /\ status' = "built" /\ stack' = stack BY DEF CreateMainRet
<1>2. /\ Inv1 /\ SurveysErased /\ Good(blocks, Waiting) /\ Has(blocks, ip, Top.fn) BY <1>1, Here
<1>3. Len(stack) = 1 /\ Top = stack[1] /\ Top.fn = 1 BY <1>1, <1>2, MainTop
<1>4. Waiting' = Waiting BY <1>1 DEF Waiting, Unused, Pending
<1>5. SlotsKept' BY <1>1 DEF SlotsKept
<1>6. Inside' BY <1>1 DEF Inv2, Inside
<1>7. \A i \in 1..Len(stack) : ~Surveying(stack[i])
  <2>1. \A i \in 1..Len(stack) : i = 1 BY <1>3
  <2>. QED  BY <1>1, <1>3, <2>1 DEF Surveying
<1>8. \A g \in DOMAIN fns : fns[g].pass # "survey" BY <1>1, <1>2, <1>7, SurveyedFns
<1>9. CASE blocks' = Erase(blocks, BlocksOf(1)) /\ fns' = [g \in DOMAIN fns \ {1} |-> fns[g]]
  <2> DEFINE ids == BlocksOf(1)
             main == 1
  <2>1. ids = Owned(blocks, main) /\ Good(blocks, Waiting) /\ blocks' = Erase(blocks, ids)
    BY <1>2, <1>9 DEF BlocksOf, Owned
  <2>. HIDE DEF ids, main
  <2>2. LET cs == Erase(blocks, ids)
        IN Good(cs, Waiting) /\ DOMAIN cs = DOMAIN blocks \ ids /\ Untouched(blocks, cs, {main})
    BY <2>1, DismissStep
  <2>3. SurveysErased' BY <1>1, <1>7, <1>8, <1>9, SurveyedFnsNext
  <2>4. Good(blocks', Waiting) /\ DOMAIN blocks' = DOMAIN blocks \ ids /\ Untouched(blocks, blocks', {1})
    BY <2>1, <2>2 DEF main
  <2>. QED  BY <1>4, <1>5, <1>6, <2>3, <2>4 DEF Result, Good
<1>10. CASE blocks' = AppendTo(blocks, ip, is) /\ fns' = fns
  <2>1. Top.next \in DOMAIN fns /\ Top.next \in Nat
    BY <1>1, <1>2, <1>3, StackFacts DEF Inv1, FnsAlive, Frame
  <2>2. t \in Types BY <1>2, <2>1 DEF Inv1, Typed, Fn
  <2>3. is \in Seq(Instr) BY <2>1, <2>2, TypesAssumption, InstrTypes, CodeTypes
  <2>4. RefersTo(is, blocks, 1, Waiting) BY SafeOnes, RefersFew
  <2>. HIDE DEF is
  <2>5. Good(blocks', Waiting) /\ DOMAIN blocks' = DOMAIN blocks /\ Untouched(blocks, blocks', {1})
    BY <1>2, <1>3, <1>10, <2>3, <2>4, AppendStep
  <2>6. SurveysErased' BY <1>1, <1>7, <1>8, <1>10, SurveyedFnsNext
  <2>. QED  BY <1>4, <1>5, <1>6, <2>5, <2>6 DEF Result, Good
<1>. QED  BY <1>9, <1>10 DEF CreateMainRet

\* Where they are when code is appended.
LEMMA SpotsCat ==
  ASSUME NEW s \in Seq(Instr), NEW t \in Seq(Instr), NEW k
  PROVE  /\ \A i \in Spots(s, k) : i \in Spots(s \o t, k) /\ i <= Len(s)
         /\ \A i \in Spots(s \o t, k) : i \in Spots(s, k) \/ (i > Len(s) /\ i - Len(s) \in Spots(t, k))
         /\ \A i \in Spots(t, k) : Len(s) + i \in Spots(s \o t, k)
<1>1. /\ s \o t \in Seq(Instr) /\ Len(s \o t) = Len(s) + Len(t) /\ Len(s) \in Nat /\ Len(t) \in Nat
      /\ DOMAIN s = 1..Len(s) /\ DOMAIN t = 1..Len(t) /\ DOMAIN (s \o t) = 1..(Len(s) + Len(t))
  BY ConcatProperties, LenProperties
<1>2. /\ \A i \in 1..Len(s) : (s \o t)[i] = s[i]
      /\ \A i \in 1..(Len(s) + Len(t)) : i > Len(s) => (s \o t)[i] = t[i - Len(s)]
  BY <1>1, ConcatProperties
<1>3. \A i \in 1..Len(s) : i \in 1..(Len(s) + Len(t)) /\ i <= Len(s) BY <1>1
<1>4. \A i \in 1..(Len(s) + Len(t)) : i \in 1..Len(s) \/ (i > Len(s) /\ i - Len(s) \in 1..Len(t)) BY <1>1
<1>5. \A i \in 1..Len(t) : Len(s) + i \in 1..(Len(s) + Len(t)) /\ Len(s) + i > Len(s) /\ (Len(s) + i) - Len(s) = i BY <1>1
<1>6. \A i \in Spots(s, k) : i \in Spots(s \o t, k) /\ i <= Len(s) BY <1>1, <1>2, <1>3 DEF Spots
<1>7. \A i \in Spots(s \o t, k) : i \in Spots(s, k) \/ (i > Len(s) /\ i - Len(s) \in Spots(t, k))
  BY <1>1, <1>2, <1>4 DEF Spots
<1>8. \A i \in Spots(t, k) : Len(s) + i \in Spots(s \o t, k) BY <1>1, <1>2, <1>5 DEF Spots
<1>. QED  BY <1>6, <1>7, <1>8

\* Appending code without instructions of kind k moves none of that kind.
LEMMA SpotsSame ==
  ASSUME NEW s \in Seq(Instr), NEW t \in Seq(Instr), NEW k, Spots(t, k) = {}
  PROVE  Spots(s \o t, k) = Spots(s, k)
<1>1. Spots(s, k) \subseteq Spots(s \o t, k) BY SpotsCat
<1>2. Spots(s \o t, k) \subseteq Spots(s, k) BY SpotsCat
<1>. QED  BY <1>1, <1>2

\* How often the collector is initialised.
LEMMA InitialisedOnce ==
  ASSUME NEW code, NEW linked, NEW asked, Initialised(code, linked, asked)
  PROVE  Cardinality(Spots(code, "gcinit")) <= IF linked THEN 1 ELSE 0
<1>1. CASE Spots(code, "gcinit") = {} BY <1>1, FS_EmptySet
<1>2. CASE linked /\ \E p \in DOMAIN code : Spots(code, "gcinit") = {p}
  <2>1. PICK p \in DOMAIN code : Spots(code, "gcinit") = {p} BY <1>2
  <2>. QED  BY <1>2, <2>1, FS_Singleton
<1>. QED  BY <1>1, <1>2 DEF Initialised

\* Code without a GC_init, appended, does not change that.
LEMMA InitialisedStill ==
  ASSUME NEW code \in Seq(Instr), NEW more \in Seq(Instr), NEW linked, NEW asked,
         Initialised(code, linked, asked), Spots(more, "gcinit") = {}
  PROVE  Initialised(code \o more, linked, asked)
<1>1. Spots(code \o more, "gcinit") = Spots(code, "gcinit") BY SpotsSame
<1>2. \A p \in DOMAIN code : p \in DOMAIN (code \o more)
  <2>1. Len(code) \in Nat /\ Len(more) \in Nat /\ DOMAIN code = 1..Len(code)
        /\ DOMAIN (code \o more) = 1..(Len(code) + Len(more))
    BY ConcatProperties, LenProperties
  <2>. QED  BY <2>1
<1>. QED  BY <1>1, <1>2 DEF Initialised

\* The entry of main when nothing but main's entry is at stake.
LEMMA MainSettled ==
  ASSUME nblk' \in Nat, nblk' >= 1, gc' \in BOOLEAN, 1 \in DOMAIN blocks', blocks'[1].fn = 1,
         Spots(blocks'[1].code, "call") = {}, Initialised(blocks'[1].code, gc', Asks')
  PROVE  MainEntry' /\ GCReady'
<1>1. Positions(1, "call")' = Spots(blocks'[1].code, "call") /\ Positions(1, "gcinit")' = Spots(blocks'[1].code, "gcinit")
  BY DEF Positions, Spots
<1>2. MainEntry' BY <1>1 DEF MainEntry
<1>3. PICK code, linked, asked : code = blocks'[1].code /\ linked = gc' /\ asked = Asks' OBVIOUS
<1>4. Initialised(code, linked, asked) BY <1>3
<1>5. Cardinality(Spots(code, "gcinit")) <= IF linked THEN 1 ELSE 0 BY <1>4, InitialisedOnce
<1>6. linked /\ ~asked => Spots(code, "gcinit") # {} BY <1>4 DEF Initialised
<1>7. GCReady' BY <1>1, <1>3, <1>5, <1>6 DEF GCReady
<1>. QED  BY <1>2, <1>7

\* What is known of the entry of main while the run goes on.
LEMMA MainFacts ==
  ASSUME Inv2, status = "run"
  PROVE  /\ 1 \in DOMAIN blocks /\ blocks[1].fn = 1 /\ blocks[1].code \in Seq(Instr) /\ nblk \in Nat /\ nblk >= 1
         /\ Spots(blocks[1].code, "call") = {}
         /\ Initialised(blocks[1].code, gc, Asks)
         /\ gc \in BOOLEAN
<1>1. 1 \in DOMAIN blocks /\ blocks[1].fn = 1 /\ nblk >= 1 BY DEF Inv2, MainEntry
<1>2. blocks[1] \in Block /\ nblk \in Nat /\ gc \in BOOLEAN BY <1>1 DEF Inv2, Inv1, Typed
<1>3. Positions(1, "call") = Spots(blocks[1].code, "call") BY DEF Positions, Spots
<1>. QED  BY <1>1, <1>2, <1>3 DEF Inv2, MainEntry, Block

\* A step that writes into other functions leaves main as it was; it may link the
\* library when an import asks for that.
LEMMA MainSame ==
  ASSUME Inv2, Inv1', Asks' = Asks, status = "run", NEW STATE fs, Untouched(blocks, blocks', fs), 1 \notin fs,
         nblk' >= nblk, gc' = gc \/ (gc' /\ Asks)
  PROVE  MainEntry' /\ GCReady'
<1>1. blocks'[1] = blocks[1] /\ 1 \in DOMAIN blocks' BY MainFacts DEF Untouched
<1>2. nblk' \in Nat BY DEF Inv1, Typed
<1>3. nblk \in Nat /\ nblk >= 1 BY MainFacts
<1>4. nblk' >= 1 BY <1>2, <1>3
<1>5. PICK code, was, is, asked : code = blocks[1].code /\ was = gc /\ is = gc' /\ asked = Asks OBVIOUS
<1>6. Initialised(code, was, asked) BY <1>5, MainFacts
<1>7. Initialised(code, is, asked) BY <1>5, <1>6 DEF Initialised
<1>8. gc' \in BOOLEAN BY DEF Inv1, Typed
<1>. QED  BY <1>1, <1>2, <1>4, <1>5, <1>7, <1>8, MainFacts, MainSettled

\* The first allocation puts GC_init into the entry of main, the others do not.
LEMMA HeapMain == ASSUME Inv2, Inv1', Asks' = Asks, Heap PROVE MainEntry' /\ GCReady'
<1> DEFINE init == <<Plain("gcinit")>>
           is == <<Plain("ccall"), Refer("store", {ip})>>
           bs == IF gc THEN blocks ELSE AppendTo(blocks, 1, init)
           code == blocks[1].code
<1>1. AtLine("heap") /\ status = "run" /\ Inv1 BY DEF Heap, AtLine, Inv2
<1>2. blocks' = AppendTo(bs, ip, is) /\ gc' = TRUE /\ nblk' = nblk BY DEF Heap, LinkGC, InitGC
<1>3. Good(blocks, Waiting) /\ ip \in DOMAIN blocks /\ ip # 1 /\ ip \in Nat
  <2>1. Len(stack) > 1 BY <1>1, LinePlace
  <2>2. Top.fn # 1 BY <1>1, <2>1, PoppedFns
  <2>. QED  BY <1>1, <2>2, Here, MainFacts
<1>4. /\ 1 \in DOMAIN blocks /\ blocks[1].fn = 1 /\ code \in Seq(Instr) /\ nblk \in Nat /\ nblk >= 1
      /\ Spots(code, "call") = {} /\ Initialised(code, gc, Asks) /\ gc \in BOOLEAN
  BY <1>1, MainFacts
<1>5. init \in Seq(Instr) /\ is \in Seq(Instr) BY <1>3, InstrTypes, CodeTypes DEF Kinds
<1>6. Spots(init, "call") = {} /\ Spots(init, "gcinit") = {1} BY DEF Spots, Plain
<1>. HIDE DEF init, is, code
<1>7. IsCode(bs) /\ DOMAIN bs = DOMAIN blocks /\ bs[1].fn = 1 /\ bs[1].code = IF gc THEN code ELSE code \o init
  <2>1. CASE gc BY <1>3, <1>4, <2>1 DEF Good, code
  <2>2. CASE ~gc
    <3>1. bs = AppendTo(blocks, 1, init) BY <2>2
    <3>2. IsCode(blocks) BY <1>3 DEF Good
    <3>. HIDE DEF bs
    <3>3. IsCode(bs) /\ DOMAIN bs = DOMAIN blocks BY <1>4, <1>5, <3>1, <3>2, AppendGrows
    <3>4. bs[1].fn = blocks[1].fn /\ bs[1].code = blocks[1].code \o init
      BY <1>4, <3>1, <3>2 DEF AppendTo, IsCode, Block
    <3>. QED  BY <1>4, <2>2, <3>3, <3>4 DEF code
  <2>. QED  BY <2>1, <2>2
<1>. HIDE DEF bs
<1>8. blocks'[1] = bs[1] /\ DOMAIN blocks' = DOMAIN bs BY <1>2, <1>3, <1>4, <1>5, <1>7, AppendCode, AppendGrows
<1>9. CASE gc
  <2>1. blocks'[1].code = code /\ blocks'[1].fn = 1 /\ 1 \in DOMAIN blocks' BY <1>4, <1>7, <1>8, <1>9
  <2>2. gc' = gc BY <1>2, <1>4, <1>9
  <2>. QED  BY <1>2, <1>4, <2>1, <2>2, MainSettled
<1>10. CASE ~gc
  <2>1. blocks'[1].code = code \o init /\ blocks'[1].fn = 1 /\ 1 \in DOMAIN blocks' BY <1>4, <1>7, <1>8, <1>10
  <2>2. Spots(code \o init, "call") = {} BY <1>4, <1>5, <1>6, SpotsSame
  <2>3. Len(code) \in Nat BY <1>4, LenProperties
  <2>4. Spots(code \o init, "gcinit") = {Len(code) + 1}
    <3>1. /\ \A i \in Spots(code \o init, "gcinit") : i > Len(code) /\ i - Len(code) \in {1}
          /\ Len(code) + 1 \in Spots(code \o init, "gcinit")
      <4>1. Spots(code, "gcinit") = {} BY <1>4, <1>10 DEF Initialised
      <4>. QED  BY <1>4, <1>5, <1>6, <4>1, SpotsCat
    <3>2. \A i \in Spots(code \o init, "gcinit") : i \in Nat
      <4>1. code \o init \in Seq(Instr) BY <1>4, <1>5, ConcatProperties
      <4>. QED  BY <4>1, LenProperties DEF Spots
    <3>. QED  BY <2>3, <3>1, <3>2
  <2>5. Len(code) + 1 \in DOMAIN (code \o init) BY <2>4 DEF Spots
  <2>6. Initialised(blocks'[1].code, gc', Asks')
    <3>1. PICK more, p, linked, asked : /\ more = code \o init /\ p = Len(code) + 1
                                        /\ linked = gc' /\ asked = Asks'
      OBVIOUS
    <3>2. linked /\ p \in DOMAIN more /\ Spots(more, "gcinit") = {p} BY <1>2, <2>4, <2>5, <3>1
    <3>3. Initialised(more, linked, asked) BY <3>2 DEF Initialised
    <3>. QED  BY <2>1, <3>1, <3>3
  <2>. QED  BY <1>2, <1>4, <2>1, <2>2, <2>6, MainSettled
<1>. QED  BY <1>9, <1>10


\* Before the user's function is translated, main is given neither a call nor a GC_init.
LEMMA EnterTopMain == ASSUME Inv2, Inv1', Asks' = Asks, EnterTop PROVE MainEntry' /\ GCReady'
<1> DEFINE before == IF prog.eager[prog.top] THEN Scratch(prog.top) ELSE << >>
           entry == nblk + 1
           g == nfn + 1
           first == <<Plain("alloca")>>
           b1 == AppendTo(blocks, ip, before)
           b2 == Create(b1, {entry}, g)
           code == blocks[1].code
<1>1. status = "run" /\ Inv1 BY DEF EnterTop, Inv2
<1>2. /\ 1 \in DOMAIN blocks /\ blocks[1].fn = 1 /\ code \in Seq(Instr) /\ nblk \in Nat /\ nblk >= 1
      /\ Spots(code, "call") = {} /\ gc \in BOOLEAN /\ Initialised(code, gc, Asks)
  BY <1>1, MainFacts
<1>3. CASE Throw
  <2>1. Untouched(blocks, blocks', {}) BY <1>3, ThrowResult DEF Result
  <2>2. nblk' >= nblk /\ gc' = gc BY <1>2, <1>3 DEF Throw, Stop
  <2>. QED  BY <1>1, <2>1, <2>2, MainSame
<1>4. CASE Survey(prog.top, FALSE, Absent, before)
  <2>1. blocks' = AppendTo(b2, entry, first) /\ nblk' = entry /\ gc' = gc BY <1>4 DEF Survey
  <2>2. IsCode(blocks) /\ nfn \in Nat /\ ip \in DOMAIN blocks
    <3>1. Good(blocks, Waiting) /\ ip \in DOMAIN blocks BY <1>1, Here
    <3>. QED  BY <1>1, <3>1 DEF Inv1, Typed, Good
  <2>3. prog.top \in Bodies BY <1>1 DEF Inv1, Typed, WellFormed, Program
  <2>4. before \in Seq(Instr) BY <2>3, BeforeTypes, CodeTypes
  <2>5. Spots(before, "call") = {} /\ Spots(before, "gcinit") = {}
    <3>1. Spots(<< >>, "call") = {} /\ Spots(<< >>, "gcinit") = {} BY DEF Spots
    <3>2. Spots(<<Plain("alloca"), Plain("load")>>, "call") = {} /\ Spots(<<Plain("alloca"), Plain("load")>>, "gcinit") = {}
      BY DEF Spots, Plain
    <3>. QED  BY <3>1, <3>2 DEF Scratch
  <2>6. first \in Seq(Instr) BY InstrTypes, CodeTypes DEF Kinds
  <2>7. entry \in Nat /\ entry # 1 /\ entry >= 1 /\ entry \notin DOMAIN blocks /\ g \in Nat
    <3>1. DOMAIN blocks \subseteq 1..nblk BY <1>1, Here
    <3>. QED  BY <1>2, <2>2, <3>1
  <2>. HIDE DEF before, entry, g, first, code
  <2>8. IsCode(b1) /\ DOMAIN b1 = DOMAIN blocks BY <2>2, <2>4, AppendGrows
  <2>9. b1[1].fn = 1 /\ (b1[1].code = code \/ b1[1].code = code \o before)
    <3>1. b1 = AppendTo(blocks, ip, before) OBVIOUS
    <3>. HIDE DEF b1
    <3>2. /\ b1[ip].code = blocks[ip].code \o before /\ b1[ip].fn = blocks[ip].fn
          /\ \A c \in DOMAIN blocks : c # ip => b1[c] = blocks[c]
      BY <2>2, <2>4, <3>1, AppendCode
    <3>3. CASE ip = 1 BY <1>2, <3>2, <3>3 DEF code
    <3>4. CASE ip # 1 BY <1>2, <3>2, <3>4 DEF code
    <3>. QED  BY <3>3, <3>4
  <2>. HIDE DEF b1
  <2>10. IsCode(b2) /\ DOMAIN b2 = DOMAIN blocks \cup {entry}
    <3> DEFINE ids == {entry}
    <3>1. Fresh(ids, b1) BY <2>7, <2>8 DEF Fresh
    <3>2. b2 = Create(b1, ids, g) OBVIOUS
    <3>. HIDE DEF ids, b2
    <3>3. IsCode(b2) /\ DOMAIN b2 = DOMAIN b1 \cup ids BY <2>7, <2>8, <3>1, <3>2, CreateGrows
    <3>. QED  BY <2>8, <3>3 DEF ids
  <2>11. b2[1] = b1[1] BY <1>2, <2>7, <2>8 DEF Create
  <2>. HIDE DEF b2
  <2>12. blocks'[1] = b2[1] /\ 1 \in DOMAIN blocks'
    <3>1. entry \in DOMAIN b2 /\ 1 \in DOMAIN b2 BY <1>2, <2>10
    <3>2. DOMAIN blocks' = DOMAIN b2 BY <2>1, <2>6, <2>10, AppendGrows
    <3>3. \A c \in DOMAIN b2 : c # entry => AppendTo(b2, entry, first)[c] = b2[c] BY <2>6, <2>10, <3>1, AppendCode
    <3>. QED  BY <2>1, <2>7, <3>1, <3>2, <3>3
  <2>13. Spots(code \o before, "call") = {} BY <1>2, <2>4, <2>5, SpotsSame
  <2>14. Initialised(code \o before, gc, Asks)
    <3>1. PICK linked, asked : linked = gc /\ asked = Asks OBVIOUS
    <3>2. Initialised(code \o before, linked, asked) BY <1>2, <2>4, <2>5, <3>1, InitialisedStill
    <3>. QED  BY <3>1, <3>2
  <2>15. Spots(blocks'[1].code, "call") = {} /\ Initialised(blocks'[1].code, gc', Asks')
    <3>1. CASE blocks'[1].code = code BY <1>2, <2>1, <3>1
    <3>2. CASE blocks'[1].code = code \o before BY <2>1, <2>13, <2>14, <3>2
    <3>. QED  BY <2>9, <2>11, <2>12, <3>1, <3>2
  <2>. QED  BY <1>2, <2>1, <2>7, <2>9, <2>11, <2>12, <2>15, MainSettled
<1>. QED  BY <1>3, <1>4 DEF EnterTop

\* The user's function is called after the collector is initialised.
LEMMA CreateMainRetMain == ASSUME Inv2, Inv1', Asks' = Asks, CreateMainRet PROVE MainEntry' /\ GCReady'
<1> DEFINE t == fns[Top.next].rty
           is == <<CallOf(Top.next, t), Ret(IF t = Void THEN I32 ELSE t)>>
           code == blocks[1].code
<1>1. /\ status = "run" /\ Top.kind = "main" /\ Top.pos = 2 /\ status' = "built" /\ stack' = stack /\ nblk' = nblk
      /\ gc' = gc
  BY DEF CreateMainRet
<1>2. Inv1 BY DEF Inv2
<1>3. /\ 1 \in DOMAIN blocks /\ blocks[1].fn = 1 /\ code \in Seq(Instr) /\ nblk \in Nat /\ nblk >= 1
      /\ Spots(code, "call") = {} /\ gc \in BOOLEAN /\ Initialised(code, gc, Asks)
  BY <1>1, MainFacts
<1>4. CASE blocks' = Erase(blocks, BlocksOf(1))
  <2>1. 1 \notin DOMAIN blocks' BY <1>3, <1>4 DEF Erase, BlocksOf
  <2>. QED  BY <1>1, <1>3, <2>1 DEF MainEntry, GCReady
<1>5. CASE blocks' = AppendTo(blocks, ip, is) /\ fns' = fns
  <2>1. Top.next \in DOMAIN fns /\ Top.next \in Nat
    <3>1. Top = stack[1] BY <1>1, <1>2, MainTop
    <3>. QED  BY <1>1, <1>2, <3>1, StackFacts DEF Inv1, FnsAlive, Frame
  <2>2. t \in Types BY <1>2, <2>1 DEF Inv1, Typed, Fn
  <2>3. is \in Seq(Instr) BY <2>1, <2>2, TypesAssumption, InstrTypes, CodeTypes
  <2>4. Spots(is, "gcinit") = {} /\ Spots(is, "call") \subseteq {1} BY DEF Spots, CallOf, Ret
  <2>5. IsCode(blocks) /\ ip \in DOMAIN blocks
    <3>1. Good(blocks, Waiting) /\ ip \in DOMAIN blocks BY <1>1, Here
    <3>. QED  BY <3>1 DEF Good
  <2>. HIDE DEF is, code
  <2>6. DOMAIN blocks' = DOMAIN blocks BY <1>5, <2>3, <2>5, AppendGrows
  <2>7. CASE ip = 1
    <3>0. blocks'[ip].fn = blocks[ip].fn /\ blocks'[ip].code = blocks[ip].code \o is
      BY <1>5, <2>3, <2>5, AppendCode
    <3>1. blocks'[1].fn = 1 /\ blocks'[1].code = code \o is BY <1>3, <2>7, <3>0 DEF code
    <3>2. Spots(code \o is, "gcinit") = Spots(code, "gcinit") BY <1>3, <2>3, <2>4, SpotsSame
    <3>3. /\ Positions(1, "call")' = Spots(code \o is, "call")
          /\ Positions(1, "gcinit")' = Spots(code, "gcinit")
      BY <3>1, <3>2 DEF Positions, Spots
    <3>4. Len(code) \in Nat /\ DOMAIN code = 1..Len(code) /\ code \o is \in Seq(Instr)
      BY <1>3, <2>3, LenProperties, ConcatProperties
    <3>5. \A j \in Spots(code \o is, "call") : j > Len(code) /\ j \in Nat
      <4>1. \A j \in Spots(code \o is, "call") : j > Len(code) BY <1>3, <2>3, SpotsCat
      <4>2. \A j \in Spots(code \o is, "call") : j \in Nat BY <3>4, LenProperties DEF Spots
      <4>. QED  BY <4>1, <4>2
    <3>6. \A i \in Spots(code, "gcinit") : i \in Nat /\ i <= Len(code) BY <3>4 DEF Spots
    <3>7. \A i \in Spots(code, "gcinit") : \A j \in Spots(code \o is, "call") : i < j BY <3>4, <3>5, <3>6
    <3>8. /\ Cardinality(Spots(code, "gcinit")) <= IF gc THEN 1 ELSE 0
          /\ gc /\ ~Asks => Spots(code, "gcinit") # {}
      <4>1. PICK linked, asked : linked = gc /\ asked = Asks OBVIOUS
      <4>2. Initialised(code, linked, asked) BY <1>3, <4>1
      <4>3. Cardinality(Spots(code, "gcinit")) <= IF linked THEN 1 ELSE 0 BY <4>2, InitialisedOnce
      <4>4. linked /\ ~asked => Spots(code, "gcinit") # {} BY <4>2 DEF Initialised
      <4>. QED  BY <4>1, <4>3, <4>4
    <3>9. GCReady' BY <1>1, <3>3, <3>7, <3>8 DEF GCReady
    <3>10. MainEntry' BY <1>1, <1>3, <3>1 DEF MainEntry
    <3>. QED  BY <3>9, <3>10
  <2>8. CASE ip # 1
    <3>1. blocks'[1] = blocks[1] BY <1>3, <1>5, <2>3, <2>5, <2>8, AppendCode
    <3>. QED  BY <1>1, <1>3, <2>6, <3>1, MainSettled DEF code
  <2>. QED  BY <2>7, <2>8
<1>. QED  BY <1>4, <1>5 DEF CreateMainRet

----------------------------------------------------------------------------
(* The invariant, and what follows from it.                                   *)

\* The functions in progress.
Open == {stack[i].fn : i \in 1..Len(stack)}

\* A step keeps the invariant and writes only into functions in progress.
Step == Result(Open) /\ MainEntry' /\ GCReady'

\* main, the innermost function and that of its caller are in progress.
LEMMA OpenFns ==
  ASSUME Inv1
  PROVE  1 \in Open /\ Top.fn \in Open /\ (Len(stack) > 1 => Caller.fn \in Open)
<1>1. Len(stack) \in Nat /\ Len(stack) >= 1 BY StackFacts
<1>2. 1 \in 1..Len(stack) /\ Len(stack) \in 1..Len(stack) /\ (Len(stack) > 1 => Len(stack) - 1 \in 1..Len(stack))
  BY <1>1
<1>3. stack[1].fn = 1 BY DEF Inv1, StackDiscipline
<1>. QED  BY <1>2, <1>3 DEF Open, Top, Caller

\* A step inside the user's program.
LEMMA InnerStep ==
  ASSUME Inv2, Inv1', Asks' = Asks, status = "run", Len(stack) > 1, gc' = gc \/ (gc' /\ Asks), nblk' >= nblk,
         Result({Top.fn}) \/ Result({Top.fn, Caller.fn} \ {1})
  PROVE  Step
<1>1. Inv1 /\ Top.fn # 1 BY PoppedFns DEF Inv2
<1>2. PICK fs \in {{Top.fn}, {Top.fn, Caller.fn} \ {1}} : Result(fs) OBVIOUS
<1>3. 1 \notin fs /\ fs \subseteq Open BY <1>1, OpenFns
<1>4. Result(Open) BY <1>2, <1>3, ResultWeaker
<1>5. MainEntry' /\ GCReady' BY <1>2, <1>3, MainSame DEF Result
<1>. QED  BY <1>4, <1>5 DEF Step

\* A step that ends the run.
LEMMA StopStep ==
  ASSUME Inv2, Inv1', Asks' = Asks, status = "run", Result({}), gc' = gc, nblk' = nblk
  PROVE  Step
<1>1. nblk' >= nblk BY Here
<1>2. MainEntry' /\ GCReady' BY <1>1, MainSame DEF Result
<1>3. Result(Open) BY ResultWeaker
<1>. QED  BY <1>2, <1>3 DEF Step

\* An error while a line is translated or a survey is judged.
LEMMA ThrowStep == ASSUME Inv2, Inv1', Asks' = Asks, status = "run", Throw PROVE Step
BY ThrowResult, StopStep DEF Throw, Stop


\* Lines that start no routine, but an allocation.
LEMMA LineStep ==
  ASSUME Inv2, Inv1', Asks' = Asks, Use \/ Set \/ Bind \/ Return \/ ReturnSelf \/ CallPointer \/ Select
  PROVE  Step
<1>1. PICK o \in Ops : AtLine(o)
  BY DEF Use, Set, Bind, Return, ReturnSelf, CallPointer, AtCall, Select, Ops
<1>2. status = "run" /\ Len(stack) > 1 BY <1>1, LinePlace DEF Inv2
<1>3. Result({Top.fn})
  BY UseResult, SetResult, BindResult, ReturnResult, ReturnSelfResult, CallPointerResult, SelectResult
<1>4. nblk \in Nat BY <1>2, Here
<1>5. gc' = gc /\ nblk' \in {nblk, nblk + 3}
  <2>1. CASE Use BY <2>1 DEF Use, Throw, Stop, Emit
  <2>2. CASE Set BY <2>2 DEF Set, Throw, Stop, Emit
  <2>3. CASE Bind \/ Return BY <2>3 DEF Bind, Return, Emit
  <2>4. CASE ReturnSelf BY <2>4 DEF ReturnSelf, Throw, Stop, Emit
  <2>5. CASE CallPointer BY <2>5 DEF CallPointer, Emit
  <2>6. CASE Select BY <2>6 DEF Select
  <2>. QED  BY <2>1, <2>2, <2>3, <2>4, <2>5, <2>6
<1>6. nblk' >= nblk BY <1>4, <1>5
<1>. QED  BY <1>2, <1>3, <1>5, <1>6, InnerStep

\* An allocation from the collector.
LEMMA HeapStep == ASSUME Inv2, Inv1', Asks' = Asks, Heap PROVE Step
<1>1. Inv1 BY DEF Inv2
<1>2. {1, Top.fn} \subseteq Open BY <1>1, OpenFns
<1>3. Result(Open) BY <1>2, HeapResult, ResultWeaker
<1>. QED  BY <1>3, HeapMain DEF Step

\* An import of a header, which may ask for the library.
LEMMA HeaderStep == ASSUME Inv2, Inv1', Asks' = Asks, ImportHeader PROVE Step
<1>1. PICK o \in {"header", "link", "gclink"} : AtLine(o) BY DEF ImportHeader, AtHeader
<1>2. status = "run" /\ Len(stack) > 1 /\ nblk' = nblk
  BY <1>1, LinePlace DEF Inv2, ImportHeader, Emit
<1>3. nblk' >= nblk BY <1>2, Here
<1>4. gc' = gc \/ (gc' /\ Asks)
  <2>1. CASE o = "header" BY <1>1, <2>1 DEF AtLine, ImportHeader
  <2>2. CASE o # "header"
    <3>1. Cur.op \in {"link", "gclink"} BY <1>1, <2>2 DEF AtLine
    <3>2. gc' BY <3>1 DEF ImportHeader
    <3>3. Top.body \in Bodies /\ Top.pos \in DOMAIN prog.body[Top.body] /\ Cur = prog.body[Top.body][Top.pos]
      <4>1. Len(stack) \in 1..Len(stack) /\ Top \in Frame BY StackFacts DEF Inv2, Top
      <4>. QED  BY <1>1, <4>1 DEF AtLine, Cur, LineOf, Lines, Frame
    <3>4. Asks BY <3>1, <3>3 DEF Asks
    <3>. QED  BY <3>2, <3>4
  <2>. QED  BY <2>1, <2>2
<1>5. Result({Top.fn}) BY ImportHeaderResult
<1>. QED  BY <1>2, <1>3, <1>4, <1>5, InnerStep

\* A routine begins.
LEMMA BeginStep ==
  ASSUME Inv2, Inv1', Asks' = Asks, EvalLiteral \/ CallLazy \/ EnterScope \/ EnterCond \/ EnterImport
  PROVE  Step
<1>1. PICK o \in Ops : AtLine(o)
  BY DEF EvalLiteral, CallLazy, AtCall, EnterScope, EnterCond, EnterImport, Ops
<1>2. status = "run" /\ Len(stack) > 1 BY <1>1, LinePlace DEF Inv2
<1>3. Result({Top.fn})
  BY EvalLiteralResult, CallLazyResult, EnterScopeResult, EnterCondResult, EnterImportResult
<1>4. nblk \in Nat BY <1>2, Here
<1>5. gc' = gc /\ nblk' \in {nblk, nblk + 1, nblk + 2, nblk + 3}
  <2>1. CASE EvalLiteral BY <2>1 DEF EvalLiteral, Survey
  <2>2. CASE CallLazy BY <2>2 DEF CallLazy, Survey
  <2>3. CASE EnterScope BY <2>3 DEF EnterScope
  <2>4. CASE EnterCond BY <2>4 DEF EnterCond
  <2>5. CASE EnterImport BY <2>5 DEF EnterImport
  <2>. QED  BY <2>1, <2>2, <2>3, <2>4, <2>5
<1>6. nblk' >= nblk BY <1>4, <1>5
<1>. QED  BY <1>2, <1>3, <1>5, <1>6, InnerStep

\* The user's function begins.
LEMMA EnterTopStep == ASSUME Inv2, Inv1', Asks' = Asks, EnterTop PROVE Step
<1>1. Inv1 BY DEF Inv2
<1>2. {Top.fn} \subseteq Open BY <1>1, OpenFns
<1>3. Result(Open) BY <1>2, EnterTopResult, ResultWeaker
<1>. QED  BY <1>3, EnterTopMain DEF Step

\* A routine is over, or a pass of it.
LEMMA EndStep ==
  ASSUME Inv2, Inv1', Asks' = Asks, EndMarked \/ StartReal \/ EndReal \/ LeaveScope \/ EndThen \/ EndElse \/ LeaveImport
  PROVE  Step
<1>1. PICK k \in {"fn", "scope", "then", "else", "import"} : AtEnd(k)
  BY DEF EndMarked, StartReal, EndSurvey, EndReal, LeaveScope, EndThen, EndElse, LeaveImport
<1>2. status = "run" /\ Len(stack) > 1
  <2>1. k # "main" BY <1>1
  <2>. QED  BY <1>1, <2>1, EndFacts DEF Inv2
<1>3. Result({Top.fn}) \/ Result({Top.fn, Caller.fn} \ {1})
  BY EndMarkedResult, StartRealResult, EndRealResult, LeaveScopeResult, EndThenResult, EndElseResult, LeaveImportResult
<1>4. nblk \in Nat BY <1>2, Here
<1>5. gc' = gc /\ nblk' \in {nblk, nblk + 1}
  <2>1. CASE EndMarked BY <2>1 DEF EndMarked
  <2>2. CASE StartReal BY <2>2 DEF StartReal
  <2>3. CASE EndReal BY <2>3 DEF EndReal
  <2>4. CASE LeaveScope \/ LeaveImport BY <2>4 DEF LeaveScope, LeaveImport
  <2>5. CASE EndThen \/ EndElse BY <2>5 DEF EndThen, EndElse
  <2>. QED  BY <2>1, <2>2, <2>3, <2>4, <2>5
<1>6. nblk' >= nblk BY <1>4, <1>5
<1>. QED  BY <1>2, <1>3, <1>5, <1>6, InnerStep

\* main is closed or dropped.
LEMMA CloseStep == ASSUME Inv2, Inv1', Asks' = Asks, CreateMainRet PROVE Step
<1>1. Inv1 BY DEF Inv2
<1>2. {1} \subseteq Open BY <1>1, OpenFns
<1>3. Result(Open) BY <1>2, CreateMainRetResult, ResultWeaker
<1>. QED  BY <1>3, CreateMainRetMain DEF Step

\* Errors, null pointers, and a stack that is exhausted.
LEMMA FailStep ==
  ASSUME Inv2, Inv1', Asks' = Asks,
         Bad \/ CallError \/ SurveyError \/ Overflow \/ HeapCrash \/ ScopeCrash \/ ImportFails
  PROVE  Step
<1>1. CASE Bad \/ CallError BY <1>1, ThrowStep DEF Bad, CallError, AtCall, AtLine
<1>2. CASE SurveyError \/ ImportFails BY <1>2, ThrowStep DEF SurveyError, EndSurvey, ImportFails, AtEnd
<1>3. CASE Overflow \/ HeapCrash \/ ScopeCrash
  <2>1. status = "run" /\ (Stop("overflow") \/ Stop("crash"))
    BY <1>3 DEF Overflow, HeapCrash, ScopeCrash, Crash, AtLine, AtEnd
  <2>2. Result({}) BY <2>1, EndResult
  <2>3. gc' = gc /\ nblk' = nblk BY <2>1 DEF Stop
  <2>. QED  BY <2>1, <2>2, <2>3, StopStep
<1>. QED  BY <1>1, <1>2, <1>3

\* The verdict on the module changes nothing in it.
LEMMA VerifyStep == ASSUME Inv2, Verify PROVE Step
<1>1. /\ status = "built" /\ status' \in {"ok", "bug"} /\ stack' = stack /\ blocks' = blocks /\ fns' = fns
      /\ gc' = gc /\ nblk' = nblk /\ prog' = prog
  BY DEF Verify, Stop
<1>2. Result(Open)
  <2>1. Result({}) BY <1>1, StopResult
  <2>. QED  BY <2>1, ResultWeaker
<1>3. MainEntry' BY <1>1 DEF Inv2, MainEntry
<1>4. GCReady' BY <1>1 DEF Inv2, GCReady, Positions, Asks
<1>. QED  BY <1>2, <1>3, <1>4 DEF Step

\* Doing nothing keeps the invariant.
LEMMA IdleStep == ASSUME Inv2, UNCHANGED vars PROVE Step
<1>1. Waiting' = Waiting /\ Hanging' = Hanging BY DEF Waiting, Hanging, Unused, Pending, vars
<1>2. Sound(blocks', Waiting') BY <1>1 DEF Inv2, vars
<1>3. SlotsKept'
  <2>1. /\ Top' = Top /\ stack' = stack /\ blocks' = blocks /\ scope' = scope /\ status' = status BY DEF vars, Top
  <2>2. SlotsKept BY DEF Inv2
  <2>. QED  BY <1>1, <2>1, <2>2 DEF SlotsKept
<1>4. SurveysErased' BY DEF Inv2, SurveysErased, vars
<1>5. Inside' BY DEF Inv2, Inside, vars
<1>6. Result(Open) BY <1>2, <1>3, <1>4, <1>5 DEF Result, Untouched, vars
<1>7. prog' = prog /\ blocks' = blocks /\ gc' = gc /\ status' = status /\ nblk' = nblk BY DEF vars
<1>8. Asks' = Asks /\ Positions(1, "call")' = Positions(1, "call") /\ Positions(1, "gcinit")' = Positions(1, "gcinit")
  BY <1>7 DEF Asks, Positions
<1>9. MainEntry' BY <1>7, <1>8 DEF Inv2, MainEntry
<1>10. GCReady' BY <1>7, <1>8 DEF Inv2, GCReady
<1>. QED  BY <1>6, <1>9, <1>10 DEF Step

\* The program is what it was.
LEMMA ProgramFixed == ASSUME [Next]_vars PROVE prog' = prog
<1>1. CASE Use \/ Set \/ Heap \/ HeapCrash \/ ImportHeader \/ Bind \/ Return \/ ReturnSelf \/ Bad \/ Select
  BY <1>1 DEF Use, Set, Heap, HeapCrash, ImportHeader, Bind, Return, ReturnSelf, Bad, Select, Emit, Throw, Crash, Stop
<1>2. CASE EvalLiteral \/ CallError \/ CallPointer \/ CallLazy \/ EnterTop \/ Overflow
  BY <1>2 DEF EvalLiteral, CallError, CallPointer, CallLazy, EnterTop, Overflow, Survey, Emit, Throw, Stop
<1>3. CASE SurveyError \/ EndMarked \/ StartReal \/ EndReal
  BY <1>3 DEF SurveyError, EndMarked, StartReal, EndReal, Throw, Stop
<1>4. CASE EnterScope \/ ScopeCrash \/ LeaveScope \/ EnterCond \/ EndThen \/ EndElse
  BY <1>4 DEF EnterScope, ScopeCrash, LeaveScope, EnterCond, EndThen, EndElse, Crash, Stop
<1>5. CASE EnterImport \/ ImportFails \/ LeaveImport \/ CreateMainRet \/ Verify
  BY <1>5 DEF EnterImport, ImportFails, LeaveImport, CreateMainRet, Verify, Throw, Stop
<1>. QED  BY <1>1, <1>2, <1>3, <1>4, <1>5 DEF Next, Finished, vars

\* Every step keeps the invariant and writes only into functions in progress.
LEMMA NextStep == ASSUME Inv2, [Next]_vars PROVE Inv2' /\ Untouched(blocks, blocks', Open)
<1>1. Inv1' BY NextInv DEF Inv2
<1>2. Asks' = Asks BY ProgramFixed DEF Asks
<1>3. Step
  <2>1. CASE Finished BY <2>1, IdleStep DEF Finished
  <2>. QED  BY <1>1, <1>2, <2>1, LineStep, HeapStep, HeaderStep, BeginStep, EnterTopStep, EndStep, CloseStep, FailStep, VerifyStep,
               IdleStep
            DEF Next
<1>. QED  BY <1>1, <1>3 DEF Step, Result, Inv2

\* The invariant holds when createMain has run.
LEMMA InitStored == Init => Inv2
<1>. SUFFICES ASSUME Init PROVE Inv2 OBVIOUS
<1>1. Inv1 BY InitInv
<1>2. /\ Len(stack) = 1 /\ stack[1].kind = "main" /\ status = "run" /\ scope = NoSymbols /\ nblk = 1 /\ gc = FALSE
      /\ blocks = [b \in {1} |-> [fn |-> 1, code |-> << >>]]
      /\ fns = [f \in {1} |-> [pass |-> "main", rty |-> I32]]
  BY DEF Init
<1>3. (\A j \in 2..Len(stack) : FALSE) /\ (\A j \in 1..Len(stack) : j = 1) BY <1>2
<1>4. Sound(blocks, Waiting) BY <1>2 DEF Sound
<1>5. SlotsKept
  <2>1. Stored(scope, blocks, Top.fn, Hanging) BY <1>2 DEF Stored, NoSymbols, Absent
  <2>. QED  BY <1>3, <2>1 DEF SlotsKept
<1>6. SurveysErased BY <1>2, <1>3, SurveyedFns DEF Surveying
<1>7. Inside BY <1>3 DEF Inside
<1>8. MainEntry BY <1>2 DEF MainEntry, Positions, Initialised, Spots
<1>9. GCReady BY <1>2 DEF GCReady
<1>. QED  BY <1>1, <1>4, <1>5, <1>6, <1>7, <1>8, <1>9 DEF Inv2

\* For any programs and any nesting of calls, scopes, conditionals and imports, a
\* variable that can be named now, or again when the routines in progress are
\* over, is stored in the function whose code will name it.
THEOREM StorageLocal == Spec => []SlotsLocal
<1>1. Inv2 => SlotsLocal
  BY DEF Inv2, SlotsKept, SlotsLocal, Stored, Local, Has, BlocksOf
<1>2. Inv2 /\ [Next]_vars => Inv2' BY NextStep
<1>. QED  BY <1>1, <1>2, InitStored, PTL DEF Spec

\* For any programs, no instruction ever refers to a block that was erased or to a
\* block of another function: erasing nb, mergebb and the functions of survey
\* passes never leaves a branch or a use of a variable without its target.
THEOREM NoDanglingRefs == Spec => []RefsAlive
<1>1. Inv2 => RefsAlive BY DEF Inv2, Sound, RefsAlive, Has, BlocksOf
<1>2. Inv2 /\ [Next]_vars => Inv2' BY NextStep
<1>. QED  BY <1>1, <1>2, InitStored, PTL DEF Spec

\* For any programs, unless translation ends in an error, the functions of survey
\* passes that are in the module are those of the passes in progress: each is
\* erased when its pass is over, however passes are nested.
THEOREM NoSurveyLeft == Spec => []SurveysErased
<1>1. Inv2 => SurveysErased BY DEF Inv2
<1>2. Inv2 /\ [Next]_vars => Inv2' BY NextStep
<1>. QED  BY <1>1, <1>2, InitStored, PTL DEF Spec

\* For any programs, the collector is initialised at most once, in the entry of main
\* and before the call of the user's function, never when it is not linked, and
\* always when it is linked and no import of the program says #link:gc.
THEOREM CollectorReady == Spec => []GCReady
<1>1. Inv2 => GCReady BY DEF Inv2
<1>2. Inv2 /\ [Next]_vars => Inv2' BY NextStep
<1>. QED  BY <1>1, <1>2, InitStored, PTL DEF Spec

\* For any programs, the blocks of a function are left as they are by every step
\* taken while the function is not in progress.
THEOREM DoneIsDone == Spec => FinishedUntouched
<1>1. Inv2 /\ [Next]_vars => Inv2' BY NextStep
<1>2. Inv2 /\ [Next]_vars
        => [\A b \in DOMAIN blocks :
              blocks[b].fn \notin {stack[i].fn : i \in 1..Len(stack)} =>
                b \in DOMAIN blocks' /\ blocks'[b] = blocks[b]]_vars
  BY NextStep DEF Untouched, Open
<1>. QED  BY <1>1, <1>2, InitStored, PTL DEF Spec, FinishedUntouched

=============================================================================
