------------------------- MODULE CodegenLinkProofs -------------------------
(* What the program that runs is made of: functions that were written in a    *)
(* survey, or that stand for a marked literal, are mentioned by others of     *)
(* their kind only.                                                          *)
EXTENDS CodegenStorageProofs

----------------------------------------------------------------------------
(* The invariant.                                                            *)

\* No survey is under way in the first j routines: what routine j writes stays.
Genuine(j) == \A i \in 1..j : ~stack[i].survey

\* No function that the symbols show is a literal marked by set_survey.
Unmarked(symbols) == \A x \in Names : symbols[x].k = "fn" => ~symbols[x].mark

\* In bs, the functions in fs mention none but each other; none has an id beyond n.
Closed(bs, fs, n) ==
  \A b \in DOMAIN bs : /\ bs[b].fn <= n
                       /\ bs[b].fn \in fs => \A i \in DOMAIN bs[b].code : bs[b].code[i].fn \subseteq fs

\* Of the functions being written, those in fs are the ones that stay, and the
\* routines that write them never met a marked literal.
Ranked(fs) ==
  /\ ~stack[1].survey
  /\ \A j \in 2..Len(stack) : stack[j].fn \in fs <=> Genuine(j)
  /\ \A j \in 2..Len(stack) : Genuine(j - 1) => Unmarked(stack[j].prev) /\ ~stack[j].mark
  /\ Genuine(Len(stack)) => Unmarked(scope)

\* fs are the functions of the program that will run, as far as it is written.
Lasting(fs) ==
  /\ fs \subseteq DOMAIN fns /\ 1 \notin fs /\ \A f \in fs : fns[f].pass = "real"
  /\ Closed(blocks, fs, nfn)
  /\ stack[1].next # 0 => stack[1].next \in fs
  /\ status \in {"built", "ok", "bug"} => stack[1].next # 0
  /\ status = "run" => Ranked(fs)

Inv3 == Inv2 /\ \E fs : Lasting(fs)

----------------------------------------------------------------------------
(* What code mentions.                                                        *)

\* The instructions is mention functions of fs only.
Among(is, fs) == \A i \in DOMAIN is : is[i].fn \subseteq fs

\* One to three instructions.
LEMMA AmongFew ==
  ASSUME NEW fs
  PROVE  /\ Among(<< >>, fs)
         /\ \A i : i.fn \subseteq fs => Among(<<i>>, fs)
         /\ \A i, j : i.fn \subseteq fs /\ j.fn \subseteq fs => Among(<<i, j>>, fs)
         /\ \A i, j, k : i.fn \subseteq fs /\ j.fn \subseteq fs /\ k.fn \subseteq fs => Among(<<i, j, k>>, fs)
BY DEF Among

\* Code followed by code.
LEMMA AmongCat ==
  ASSUME NEW fs, NEW s \in Seq(Instr), NEW t \in Seq(Instr), Among(s, fs), Among(t, fs)
  PROVE  Among(s \o t, fs)
<1>1. ASSUME NEW i \in DOMAIN (s \o t) PROVE (s \o t)[i].fn \subseteq fs
  <2>1. i \in 1..(Len(s) + Len(t)) BY ConcatProperties
  <2>2. CASE i <= Len(s)
    <3>1. i \in DOMAIN s /\ (s \o t)[i] = s[i] BY <2>1, <2>2, ConcatProperties
    <3>. QED  BY <3>1 DEF Among
  <2>3. CASE ~(i <= Len(s))
    <3>1. i - Len(s) \in DOMAIN t /\ (s \o t)[i] = t[i - Len(s)] BY <2>1, <2>3, ConcatProperties
    <3>. QED  BY <3>1 DEF Among
  <2>. QED  BY <2>2, <2>3
<1>. QED  BY <1>1 DEF Among

\* Most instructions mention no function.
LEMMA Mentioned ==
  /\ \A k : Plain(k).fn = {}
  /\ \A k, bs : Refer(k, bs).fn = {}
  /\ \A t : Ret(t).fn = {}
  /\ \A f, t : CallOf(f, t).fn = {f}
BY DEF Plain, Refer, Ret, CallOf

\* Code may be appended to a function of fs if it mentions functions of fs, and to any other.
LEMMA ClosedAppend ==
  ASSUME NEW bs, NEW fs, NEW n, IsCode(bs), Closed(bs, fs, n), NEW b \in DOMAIN bs, NEW is \in Seq(Instr),
         bs[b].fn \in fs => Among(is, fs)
  PROVE  Closed(AppendTo(bs, b, is), fs, n)
<1> DEFINE cs == AppendTo(bs, b, is)
<1>1. DOMAIN cs = DOMAIN bs BY AppendGrows
<1>2. /\ cs[b].code = bs[b].code \o is /\ cs[b].fn = bs[b].fn
      /\ \A c \in DOMAIN bs : c # b => cs[c] = bs[c]
  BY AppendCode
<1>3. bs[b].code \in Seq(Instr) BY DEF IsCode, Block
<1>4. bs[b].fn \in fs => Among(bs[b].code, fs) BY DEF Closed, Among
<1>5. bs[b].fn \in fs => Among(cs[b].code, fs) BY <1>2, <1>3, <1>4, AmongCat
<1>. HIDE DEF cs
<1>6. \A c \in DOMAIN cs : cs[c].fn <= n BY <1>1, <1>2 DEF Closed
<1>7. ASSUME NEW c \in DOMAIN cs, cs[c].fn \in fs PROVE \A i \in DOMAIN cs[c].code : cs[c].code[i].fn \subseteq fs
  <2>1. CASE c = b BY <1>2, <1>5, <1>7, <2>1 DEF Among
  <2>2. CASE c # b BY <1>1, <1>2, <1>7, <2>2 DEF Closed
  <2>. QED  BY <2>1, <2>2
<1>8. Closed(cs, fs, n) BY <1>7, <1>6 DEF Closed
<1>. QED  BY <1>8 DEF cs

\* A new block mentions nothing.
LEMMA ClosedCreate ==
  ASSUME NEW bs, NEW fs, NEW n, Closed(bs, fs, n), NEW ids, NEW f, f <= n
  PROVE  Closed(Create(bs, ids, f), fs, n)
BY DEF Closed, Create

\* Erased blocks mention nothing.
LEMMA ClosedErase ==
  ASSUME NEW bs, NEW fs, NEW n, Closed(bs, fs, n), NEW ids
  PROVE  Closed(Erase(bs, ids), fs, n)
BY DEF Closed, Erase

\* The ids given out grow.
LEMMA ClosedBeyond ==
  ASSUME NEW bs, IsCode(bs), NEW fs, NEW n \in Nat, Closed(bs, fs, n)
  PROVE  Closed(bs, fs, n + 1)
<1>1. \A b \in DOMAIN bs : bs[b].fn \in Nat BY DEF IsCode, Block
<1>2. \A k \in Nat : k <= n => k <= n + 1 OBVIOUS
<1>. QED  BY <1>1, <1>2 DEF Closed

----------------------------------------------------------------------------
(* The stack after a step.                                                    *)

\* Frame f is g but for the line it stands at, or the branch.
Like(f, g) == f.fn = g.fn /\ f.survey = g.survey /\ f.prev = g.prev /\ f.mark = g.mark /\ f.next = g.next

\* The first n frames of the stack remain, and no other.
Remain(n) == Len(stack') = n /\ n \in 1..Len(stack) /\ \A i \in 1..n : Like(stack'[i], stack[i])

\* A stack that ends in a frame like the n-th keeps n frames.
LEMMA ShapeRemains ==
  ASSUME Inv1, NEW STATE f, NEW STATE n, n \in 1..Len(stack), Shape(stack', n, f), Like(f, stack[n])
  PROVE  Remain(n)
<1>1. Len(stack') = n /\ (\A i \in 1..(n - 1) : stack'[i] = stack[i]) /\ stack'[n] = f BY DEF Shape
<1>2. ASSUME NEW i \in 1..n PROVE Like(stack'[i], stack[i])
  <2>1. CASE i = n BY <1>1, <2>1
  <2>2. CASE i # n
    <3>1. i \in 1..(n - 1) BY <2>2, StackFacts
    <3>. QED  BY <1>1, <3>1 DEF Like
  <2>. QED  BY <2>1, <2>2
<1>. QED  BY <1>1, <1>2 DEF Remain

\* After a line that starts no routine all frames remain.
LEMMA AdvanceRemains ==
  ASSUME Inv1, stack' = Advance(stack, Len(stack))
  PROVE  Remain(Len(stack))
<1> DEFINE f == [Top EXCEPT !.pos = @ + 1]
<1>1. f \in Frame /\ Len(stack) \in 1..Len(stack) BY StackFacts, NextLine
<1>2. Like(f, Top) BY StackFacts DEF Like, Frame
<1>3. stack' = [stack EXCEPT ![Len(stack)] = f] BY DEF Advance, Top
<1>4. Shape(stack', Len(stack), f) BY <1>1, <1>3, ReplaceShape
<1>. HIDE DEF f
<1>. QED  BY <1>1, <1>2, <1>4, ShapeRemains DEF Top

\* After a routine the frames below remain.
LEMMA PopRemains ==
  ASSUME Inv1, Len(stack) > 1, Pop
  PROVE  Remain(Len(stack) - 1)
<1> DEFINE n == Len(stack) - 1
           f == [Caller EXCEPT !.pos = @ + 1]
<1>1. f \in Frame /\ Like(f, Caller) BY StackFacts, NextLine DEF Like, Frame
<1>2. n \in Nat /\ n \in 1..Len(stack) /\ Caller = stack[n] BY StackFacts DEF Caller
<1>3. Below \in Seq(Frame) /\ Len(Below) = n /\ \A i \in 1..n : Below[i] = stack[i]
  BY <1>2, StackFacts, SubSeqProperties DEF Below
<1>4. Below[n] = Caller /\ n \in 1..n BY <1>2, <1>3
<1>5. stack' = [Below EXCEPT ![n] = f] BY <1>4 DEF Pop, Advance
<1>. HIDE DEF f, n
<1>6. Shape(stack', n, f) BY <1>1, <1>2, <1>3, <1>5, ExceptSeq DEF Shape
<1>7. Remain(n) BY <1>1, <1>2, <1>6, ShapeRemains
<1>. QED  BY <1>7 DEF n

\* Frames that remain keep their rank.
LEMMA RankedRemains ==
  ASSUME Inv1, NEW fs, Ranked(fs), NEW STATE n, Remain(n), Genuine(n) => Unmarked(scope')
  PROVE  Ranked(fs)'
<1>1. Len(stack) \in Nat /\ n \in 1..Len(stack) /\ Len(stack') = n BY StackFacts DEF Remain
<1>2. ASSUME NEW j \in 1..n PROVE (\A i \in 1..j : ~stack'[i].survey) <=> Genuine(j)
  <2>1. \A i \in 1..j : i \in 1..n BY <1>1
  <2>2. \A i \in 1..j : stack'[i].survey = stack[i].survey BY <2>1 DEF Remain, Like
  <2>. QED  BY <2>2 DEF Genuine
<1>3. 1 \in 1..n /\ n \in 1..n BY <1>1
<1>4. ~stack'[1].survey BY <1>3 DEF Remain, Like, Ranked
<1>5. ASSUME NEW j \in 2..n
      PROVE  /\ stack'[j].fn \in fs <=> \A i \in 1..j : ~stack'[i].survey
             /\ (\A i \in 1..(j - 1) : ~stack'[i].survey) => Unmarked(stack'[j].prev) /\ ~stack'[j].mark
  <2>1. j \in 2..Len(stack) /\ j \in 1..n /\ j - 1 \in 1..n BY <1>1
  <2>2. Like(stack'[j], stack[j]) BY <2>1 DEF Remain
  <2>3. stack[j].fn \in fs <=> Genuine(j) BY <2>1 DEF Ranked
  <2>4. Genuine(j - 1) => Unmarked(stack[j].prev) /\ ~stack[j].mark BY <2>1 DEF Ranked
  <2>. QED  BY <1>2, <2>1, <2>2, <2>3, <2>4 DEF Like
<1>6. (\A i \in 1..n : ~stack'[i].survey) => Unmarked(scope') BY <1>2, <1>3
<1>. QED  BY <1>1, <1>4, <1>5, <1>6 DEF Ranked, Genuine, Unmarked

\* A routine that begins has the rank of the one it is called from, unless it is a survey.
LEMMA RankedPushed ==
  ASSUME Inv1, NEW fs, Ranked(fs), NEW STATE f, f \in Frame, stack' = Append(stack, f), f.prev = scope,
         f.fn \in fs <=> Genuine(Len(stack)) /\ ~f.survey,
         Genuine(Len(stack)) => ~f.mark,
         Genuine(Len(stack)) /\ ~f.survey => Unmarked(scope')
  PROVE  Ranked(fs)'
<1> DEFINE n == Len(stack)
<1>1. n \in Nat /\ n >= 1 /\ Len(stack') = n + 1 /\ (\A i \in 1..n : stack'[i] = stack[i]) /\ stack'[n + 1] = f
  BY PushFacts
<1>. HIDE DEF n
<1>2. ASSUME NEW j \in 1..n PROVE (\A i \in 1..j : ~stack'[i].survey) <=> Genuine(j)
  <2>1. \A i \in 1..j : i \in 1..n BY <1>1
  <2>. QED  BY <1>1, <2>1 DEF Genuine
<1>3. (\A i \in 1..(n + 1) : ~stack'[i].survey) <=> Genuine(n) /\ ~f.survey
  <2>1. \A i : i \in 1..(n + 1) <=> i \in 1..n \/ i = n + 1 BY <1>1
  <2>2. n \in 1..n BY <1>1
  <2>. QED  BY <1>1, <1>2, <2>1, <2>2
<1>4. 1 \in 1..n /\ n \in 1..n /\ n + 1 - 1 = n BY <1>1
<1>5. ~stack'[1].survey BY <1>1, <1>4 DEF Ranked
<1>6. ASSUME NEW j \in 2..(n + 1)
      PROVE  /\ stack'[j].fn \in fs <=> \A i \in 1..j : ~stack'[i].survey
             /\ (\A i \in 1..(j - 1) : ~stack'[i].survey) => Unmarked(stack'[j].prev) /\ ~stack'[j].mark
  <2>1. CASE j = n + 1
    <3>1. Genuine(n) => Unmarked(f.prev) BY DEF Ranked, n
    <3>. QED  BY <1>1, <1>2, <1>3, <1>4, <2>1, <3>1 DEF n
  <2>2. CASE j # n + 1
    <3>1. j \in 2..n /\ j \in 1..n /\ j - 1 \in 1..n BY <1>1, <2>2
    <3>. QED  BY <1>1, <1>2, <3>1 DEF Ranked, n
  <2>. QED  BY <2>1, <2>2
<1>7. (\A i \in 1..(n + 1) : ~stack'[i].survey) => Unmarked(scope') BY <1>3 DEF n
<1>. QED  BY <1>1, <1>5, <1>6, <1>7 DEF Ranked, Genuine, Unmarked

----------------------------------------------------------------------------
(* Each action: lines that start no routine.                                  *)

\* What the invariant says where the builder stands.
LEMMA Standing ==
  ASSUME Inv2, NEW fs, Lasting(fs), status = "run"
  PROVE  /\ Inv1 /\ Ranked(fs) /\ Closed(blocks, fs, nfn) /\ IsCode(blocks)
         /\ ip \in DOMAIN blocks /\ blocks[ip].fn = Top.fn /\ ip \in Nat
         /\ Len(stack) > 1 => (Top.fn \in fs <=> Genuine(Len(stack)))
         /\ Genuine(Len(stack)) => Unmarked(scope) /\ ~Top.survey
         /\ fs \subseteq DOMAIN fns /\ (\A f \in fs : fns[f].pass = "real")
         /\ nblk \in Nat /\ nfn \in Nat /\ nfn + 1 \notin fs /\ nfn + 1 \notin DOMAIN fns
         /\ blocks[ip].fn <= nfn
         /\ DOMAIN blocks \subseteq 1..nblk
<1>1. Inv1 /\ Ranked(fs) /\ Closed(blocks, fs, nfn) BY DEF Inv2, Lasting
<1>2. IsCode(blocks) /\ ip \in Nat /\ nfn \in Nat /\ nblk \in Nat /\ DOMAIN fns \subseteq 1..nfn
  BY <1>1 DEF Inv1, Typed, IsCode
<1>3. ip \in DOMAIN blocks /\ blocks[ip].fn = Top.fn /\ DOMAIN blocks \subseteq 1..nblk BY <1>1, KeptFacts
<1>4. Len(stack) \in Nat /\ Len(stack) \in 1..Len(stack) /\ (Len(stack) > 1 => Len(stack) \in 2..Len(stack))
  BY <1>1, StackFacts
<1>5. Len(stack) > 1 => (Top.fn \in fs <=> Genuine(Len(stack))) BY <1>1, <1>4 DEF Ranked, Top
<1>6. Genuine(Len(stack)) => Unmarked(scope) /\ ~Top.survey BY <1>1, <1>4 DEF Ranked, Genuine, Top
<1>7. fs \subseteq DOMAIN fns /\ (\A f \in fs : fns[f].pass = "real") BY DEF Lasting
<1>8. nfn + 1 \notin 1..nfn BY <1>2
<1>9. blocks[ip].fn <= nfn BY <1>1, <1>3 DEF Closed
<1>. QED  BY <1>1, <1>2, <1>3, <1>5, <1>6, <1>7, <1>8, <1>9

\* A step that only changes the status.
LEMMA StopLasting ==
  ASSUME NEW fs, Lasting(fs), stack' = stack, blocks' = blocks, fns' = fns, nfn' = nfn, status' # "run",
         status' \in {"built", "ok", "bug"} => status \in {"built", "ok", "bug"}
  PROVE  Lasting(fs)'
BY DEF Lasting, Closed

\* An error.
LEMMA ThrowLasting == ASSUME NEW fs, Lasting(fs), Throw PROVE Lasting(fs)'
BY StopLasting DEF Throw, Stop

\* Frames remain: what has to be shown of a step.
LEMMA RemainLasting ==
  ASSUME Inv2, NEW fs, Lasting(fs), status = "run", status' \in {"run", "error"}, NEW STATE n, Remain(n),
         fs \subseteq DOMAIN fns', \A f \in fs : fns'[f].pass = "real", Closed(blocks', fs, nfn), nfn' = nfn,
         status' = "run" /\ Genuine(n) => Unmarked(scope')
  PROVE  Lasting(fs)'
<1>1. Inv1 /\ Ranked(fs) BY Standing
<1>2. Len(stack) \in Nat /\ 1 \in 1..n BY <1>1, StackFacts DEF Remain
<1>3. stack'[1].next = stack[1].next BY <1>2 DEF Remain, Like
<1>4. status' = "run" => Ranked(fs)' BY <1>1, RankedRemains
<1>. QED  BY <1>3, <1>4 DEF Lasting, Closed

\* Code is appended at the insert point.
LEMMA EmitLasting ==
  ASSUME Inv2, NEW fs, Lasting(fs), status = "run", NEW STATE is, is \in Seq(Instr), Emit(is),
         Top.fn \in fs => Among(is, fs), Genuine(Len(stack)) => Unmarked(scope')
  PROVE  Lasting(fs)'
<1>1. /\ blocks' = AppendTo(blocks, ip, is) /\ stack' = Advance(stack, Len(stack)) /\ fns' = fns
      /\ status' = status /\ nfn' = nfn
  BY DEF Emit
<1>2. Closed(blocks', fs, nfn) BY <1>1, Standing, ClosedAppend
<1>3. Remain(Len(stack)) BY <1>1, Standing, AdvanceRemains
<1>4. fs \subseteq DOMAIN fns' /\ \A f \in fs : fns'[f].pass = "real" BY <1>1, Standing
<1>. QED  BY <1>1, <1>2, <1>3, <1>4, RemainLasting

\* Symbols stay unmarked when one that is not joins them.
LEMMA UnmarkedMore ==
  ASSUME NEW symbols \in [Names -> Symbol], NEW y, NEW sym, sym.k = "fn" => ~sym.mark, Unmarked(symbols)
  PROVE  Unmarked([symbols EXCEPT ![y] = sym])
BY DEF Unmarked

\* A variable is read.
LEMMA UseLasting == ASSUME Inv2, NEW fs, Lasting(fs), Use PROVE Lasting(fs)'
<1>1. AtLine("use") /\ Inv1 BY DEF Use, Inv2
<1>2. Cur.x \in Names /\ status = "run" BY <1>1, LineTypes DEF Complete, Line, AtLine
<1>3. CASE Throw BY <1>3, ThrowLasting
<1>4. CASE scope[Cur.x].k \in {"slot", "ptr"} /\ Emit(<<Refer("load", {scope[Cur.x].at})>>) /\ scope' = scope
  <2>1. scope[Cur.x].at \in Nat BY <1>1, <1>2, <1>4, LineTypes, SymbolFields
  <2>2. <<Refer("load", {scope[Cur.x].at})>> \in Seq(Instr) BY <2>1, InstrTypes, CodeTypes DEF Kinds
  <2>3. Among(<<Refer("load", {scope[Cur.x].at})>>, fs) BY Mentioned, AmongFew
  <2>. QED  BY <1>2, <1>4, <2>2, <2>3, Standing, EmitLasting
<1>5. CASE Emit(<< >>) /\ scope' = scope
  BY <1>2, <1>5, CodeTypes, AmongFew, Standing, EmitLasting
<1>. QED  BY <1>3, <1>4, <1>5 DEF Use

\* A number is assigned.
LEMMA SetLasting == ASSUME Inv2, NEW fs, Lasting(fs), Set PROVE Lasting(fs)'
<1>0. Inv1 BY DEF Inv2
<1>1. PICK o \in {"set", "heap"} : AtLine(o) BY DEF Set
<1>2. Cur.x \in Names /\ ip \in Nat /\ status = "run" /\ scope \in [Names -> Symbol]
  BY <1>0, <1>1, LineTypes DEF Complete, Line, AtLine
<1>3. CASE Throw BY <1>3, ThrowLasting
<1>4. CASE Emit(<<Plain("alloca"), Refer("store", {ip})>>) /\ scope' = [scope EXCEPT ![Cur.x] = SlotIn(ip)]
  <2>1. <<Plain("alloca"), Refer("store", {ip})>> \in Seq(Instr) BY <1>2, InstrTypes, CodeTypes DEF Kinds
  <2>2. Among(<<Plain("alloca"), Refer("store", {ip})>>, fs) BY Mentioned, AmongFew
  <2>3. SlotIn(ip).k # "fn" BY DEF SlotIn
  <2>4. Unmarked(scope) => Unmarked(scope') BY <1>2, <1>4, <2>3, UnmarkedMore
  <2>. QED  BY <1>2, <1>4, <2>1, <2>2, <2>4, Standing, EmitLasting
<1>5. CASE scope[Cur.x].k = "slot" /\ Emit(<<Refer("store", {scope[Cur.x].at})>>) /\ scope' = scope
  <2>1. scope[Cur.x].at \in Nat BY <1>2, <1>5, SymbolFields
  <2>2. <<Refer("store", {scope[Cur.x].at})>> \in Seq(Instr) BY <2>1, InstrTypes, CodeTypes DEF Kinds
  <2>3. Among(<<Refer("store", {scope[Cur.x].at})>>, fs) BY Mentioned, AmongFew
  <2>. QED  BY <1>2, <1>5, <2>2, <2>3, Standing, EmitLasting
<1>. QED  BY <1>3, <1>4, <1>5 DEF Set

\* A header is imported.
LEMMA ImportHeaderLasting == ASSUME Inv2, NEW fs, Lasting(fs), ImportHeader PROVE Lasting(fs)'
<1> DEFINE is == <<Plain("alloca"), Refer("store", {ip})>>
<1>1. status = "run" /\ ip \in Nat /\ Emit(is) /\ scope' = scope
  BY DEF ImportHeader, AtHeader, AtLine, Inv2, Inv1, Typed
<1>2. is \in Seq(Instr) BY <1>1, InstrTypes, CodeTypes DEF Kinds
<1>3. Among(is, fs) BY Mentioned, AmongFew
<1>. HIDE DEF is
<1>. QED  BY <1>1, <1>2, <1>3, Standing, EmitLasting

\* Storage is taken from the collector; main mentions no function for it.
LEMMA HeapLasting == ASSUME Inv2, NEW fs, Lasting(fs), Heap PROVE Lasting(fs)'
<1> DEFINE init == AppendTo(blocks, 1, <<Plain("gcinit")>>)
           bs == IF gc THEN blocks ELSE init
           is == <<Plain("ccall"), Refer("store", {ip})>>
<1>0. Inv1 BY DEF Inv2
<1>1. /\ AtLine("heap") /\ status = "run" /\ status' = status /\ fns' = fns /\ nfn' = nfn /\ stack' = Advance(stack, Len(stack))
      /\ scope' = [scope EXCEPT ![Cur.x] = SlotIn(ip)]
      /\ blocks' = AppendTo(bs, ip, is)
  BY DEF Heap, InitGC, AtLine
<1>2. scope \in [Names -> Symbol] BY <1>0, <1>1, LineTypes
<1>3. /\ Closed(blocks, fs, nfn) /\ IsCode(blocks) /\ ip \in DOMAIN blocks /\ ip \in Nat
      /\ (Genuine(Len(stack)) => Unmarked(scope))
      /\ fs \subseteq DOMAIN fns /\ \A f \in fs : fns[f].pass = "real"
  BY <1>1, Standing
<1>4. 1 \in DOMAIN blocks BY <1>1 DEF Inv2, MainEntry
<1>5. is \in Seq(Instr) /\ <<Plain("gcinit")>> \in Seq(Instr) BY <1>3, InstrTypes, CodeTypes DEF Kinds
<1>6. Among(is, fs) /\ Among(<<Plain("gcinit")>>, fs) BY Mentioned, AmongFew
<1>. HIDE DEF is
<1>7. IsCode(init) /\ DOMAIN init = DOMAIN blocks /\ Closed(init, fs, nfn)
  BY <1>3, <1>4, <1>5, <1>6, AppendGrows, ClosedAppend
<1>8. bs = blocks \/ bs = init OBVIOUS
<1>. HIDE DEF init, bs
<1>9. IsCode(bs) /\ ip \in DOMAIN bs /\ Closed(bs, fs, nfn) BY <1>3, <1>7, <1>8
<1>10. Closed(blocks', fs, nfn) BY <1>1, <1>5, <1>6, <1>9, ClosedAppend
<1>11. SlotIn(ip).k # "fn" BY DEF SlotIn
<1>12. Genuine(Len(stack)) => Unmarked(scope') BY <1>1, <1>2, <1>3, <1>11, UnmarkedMore
<1>13. Remain(Len(stack)) BY <1>0, <1>1, AdvanceRemains
<1>. QED  BY <1>1, <1>3, <1>10, <1>12, <1>13, RemainLasting

\* A lazy literal is bound; it is marked in a survey only.
LEMMA BindLasting == ASSUME Inv2, NEW fs, Lasting(fs), Bind PROVE Lasting(fs)'
<1> DEFINE is == IF scope[Cur.x].k = "none" THEN <<Plain("alloca")>> ELSE << >>
           sym == [k |-> "fn", at |-> Cur.a, mark |-> Marked]
<1>0. Inv1 BY DEF Inv2
<1>1. AtLine("fun") /\ status = "run" /\ Emit(is) /\ scope' = [scope EXCEPT ![Cur.x] = sym] BY DEF Bind, AtLine
<1>2. is \in Seq(Instr) BY InstrTypes, CodeTypes DEF Kinds
<1>3. Among(is, fs) BY Mentioned, AmongFew
<1>4. scope \in [Names -> Symbol] BY <1>0, <1>1, LineTypes
<1>5. sym.mark = Top.survey BY DEF Marked
<1>. HIDE DEF is, sym
<1>6. Genuine(Len(stack)) => Unmarked(scope') BY <1>1, <1>4, <1>5, Standing, UnmarkedMore
<1>. QED  BY <1>1, <1>2, <1>3, <1>6, EmitLasting

\* A value is returned.
LEMMA ReturnLasting == ASSUME Inv2, NEW fs, Lasting(fs), Return PROVE Lasting(fs)'
<1>0. Inv1 BY DEF Inv2
<1>1. AtLine("ret") /\ status = "run" /\ Emit(<<Ret(Cur.ty)>>) /\ scope' = scope BY DEF Return, AtLine
<1>2. Cur.ty \in Types BY <1>0, <1>1, LineTypes DEF Line
<1>3. <<Ret(Cur.ty)>> \in Seq(Instr) BY <1>2, InstrTypes, CodeTypes
<1>4. Among(<<Ret(Cur.ty)>>, fs) BY Mentioned, AmongFew
<1>. QED  BY <1>1, <1>3, <1>4, Standing, EmitLasting

\* A function calls itself: it mentions one of its own kind.
LEMMA ReturnSelfLasting == ASSUME Inv2, NEW fs, Lasting(fs), ReturnSelf PROVE Lasting(fs)'
<1> DEFINE is == <<Plain("load"), CallOf(Top.fn, fns[Top.fn].rty), Ret(fns[Top.fn].rty)>>
<1>0. Inv1 BY DEF Inv2
<1>1. AtLine("retself") /\ status = "run" BY DEF ReturnSelf, AtLine
<1>2. is \in Seq(Instr)
  <2>1. /\ Plain("load") \in Instr /\ CallOf(Top.fn, fns[Top.fn].rty) \in Instr
        /\ Ret(fns[Top.fn].rty) \in Instr
    BY <1>0, <1>1, LineTypes, InstrTypes DEF Kinds
  <2>. QED  BY <2>1, CodeTypes
<1>3. Top.fn \in fs => Among(is, fs) BY Mentioned, AmongFew
<1>4. CASE Throw BY <1>4, ThrowLasting
<1>5. CASE Emit(is) /\ scope' = scope
  <2>. HIDE DEF is
  <2>. QED  BY <1>1, <1>2, <1>3, <1>5, Standing, EmitLasting
<1>. QED  BY <1>4, <1>5 DEF ReturnSelf

\* A function behind a pointer is called: no function is mentioned.
LEMMA CallPointerLasting == ASSUME Inv2, NEW fs, Lasting(fs), CallPointer PROVE Lasting(fs)'
<1> DEFINE callee == scope[Cur.x]
           arg == ArgOf(Cur, scope)
           call == <<[Plain("call") EXCEPT !.ty = callee.ty]>>
           final == IF Cur.op = "retcall" THEN <<Ret(callee.ty)>> ELSE << >>
           is == Loads(callee) \o Loads(arg) \o call \o final
<1>0. Inv1 BY DEF Inv2
<1>1. PICK o \in {"call", "retcall"} : AtLine(o) BY DEF CallPointer, AtCall
<1>2. callee.k = "ptr" /\ Emit(is) /\ scope' = scope /\ status = "run" BY <1>1 DEF CallPointer, AtLine
<1>3. Cur.x \in Names /\ Cur.y \in Names \cup {None} BY <1>0, <1>1, LineTypes DEF Complete, Line
<1>4. callee \in Symbol /\ arg \in Symbol BY <1>0, <1>1, <1>3, LineTypes, SymbolTypes DEF ArgOf
<1>5. callee.ty \in Types BY <1>2, <1>4, SymbolFields
<1>6. \A s \in Symbol : Loads(s) \in Seq(Instr) BY BeforeTypes
<1>7. \A s : Among(Loads(s), fs) BY Mentioned, AmongFew DEF Loads
<1>8. call \in Seq(Instr) /\ Among(call, fs)
  <2>1. [Plain("call") EXCEPT !.ty = callee.ty] \in Instr BY <1>5 DEF Plain, Instr, Kinds
  <2>2. [Plain("call") EXCEPT !.ty = callee.ty].fn = {} BY DEF Plain
  <2>. QED  BY <2>1, <2>2, CodeTypes, AmongFew
<1>9. final \in Seq(Instr) /\ Among(final, fs) BY <1>5, InstrTypes, CodeTypes, Mentioned, AmongFew
<1>. HIDE DEF call, final, arg, callee
<1>10. /\ Loads(callee) \o Loads(arg) \in Seq(Instr) /\ Among(Loads(callee) \o Loads(arg), fs)
  BY <1>4, <1>6, <1>7, ConcatProperties, AmongCat
<1>11. /\ Loads(callee) \o Loads(arg) \o call \in Seq(Instr) /\ Among(Loads(callee) \o Loads(arg) \o call, fs)
  BY <1>8, <1>10, ConcatProperties, AmongCat
<1>12. is \in Seq(Instr) /\ Among(is, fs) BY <1>9, <1>11, ConcatProperties, AmongCat
<1>. HIDE DEF is
<1>. QED  BY <1>2, <1>12, Standing, EmitLasting

\* Code that mentions no other functions is appended to a block.
LEMMA QuietAppend ==
  ASSUME NEW bs, NEW fs, NEW n, IsCode(bs), Closed(bs, fs, n), NEW b \in DOMAIN bs, NEW is \in Seq(Instr), Among(is, fs),
         NEW cs, cs = AppendTo(bs, b, is)
  PROVE  IsCode(cs) /\ DOMAIN cs = DOMAIN bs /\ Closed(cs, fs, n)
BY AppendGrows, ClosedAppend

\* A conditional on values: branches and stores.
LEMMA SelectLasting == ASSUME Inv2, NEW fs, Lasting(fs), Select PROVE Lasting(fs)'
<1> DEFINE t == nblk + 1
           e == nblk + 2
           m == nblk + 3
           ids == {t, e, m}
           bs == Create(blocks, ids, blocks[ip].fn)
           arm == <<Refer("store", {ip}), Refer("br", {m})>>
           fork == <<Plain("alloca"), Refer("br", {t, e})>>
           load == <<Refer("load", {ip})>>
           b1 == AppendTo(bs, t, arm)
           b2 == AppendTo(b1, e, arm)
           b3 == AppendTo(b2, ip, fork)
           b4 == AppendTo(b3, m, load)
<1>1. /\ AtLine("select") /\ status = "run" /\ scope' = scope /\ fns' = fns /\ nfn' = nfn /\ status' = status
      /\ stack' = Advance(stack, Len(stack)) /\ blocks' = b4
  BY DEF Select, AtLine
<1>2. /\ Inv1 /\ nblk \in Nat /\ ip \in DOMAIN blocks /\ ip \in Nat /\ IsCode(blocks) /\ Closed(blocks, fs, nfn)
      /\ DOMAIN blocks \subseteq 1..nblk /\ blocks[ip].fn \in Nat /\ blocks[ip].fn <= nfn
      /\ fs \subseteq DOMAIN fns /\ (\A f \in fs : fns[f].pass = "real")
      /\ (Genuine(Len(stack)) => Unmarked(scope))
  BY <1>1, Standing, StackFacts DEF Frame
<1>3. t \in Nat /\ e \in Nat /\ m \in Nat /\ {t, e} \in SUBSET Nat /\ t \in ids /\ e \in ids /\ m \in ids
  BY <1>2
<1>4. arm \in Seq(Instr) /\ fork \in Seq(Instr) /\ load \in Seq(Instr)
  BY <1>2, <1>3, InstrTypes, CodeTypes DEF Kinds
<1>5. Among(arm, fs) /\ Among(fork, fs) /\ Among(load, fs) BY Mentioned, AmongFew
<1>. HIDE DEF ids, t, e, m, arm, fork, load
<1>6. /\ IsCode(bs) /\ Closed(bs, fs, nfn) /\ t \in DOMAIN bs /\ e \in DOMAIN bs /\ m \in DOMAIN bs /\ ip \in DOMAIN bs
  <2>1. IsCode(bs) /\ DOMAIN bs = DOMAIN blocks \cup ids /\ Closed(bs, fs, nfn)
    BY <1>2, CreateType, ClosedCreate DEF IsCode
  <2>. QED  BY <1>2, <1>3, <2>1
<1>. HIDE DEF bs
<1>7. IsCode(b1) /\ DOMAIN b1 = DOMAIN bs /\ Closed(b1, fs, nfn) BY <1>4, <1>5, <1>6, QuietAppend
<1>. HIDE DEF b1
<1>8. IsCode(b2) /\ DOMAIN b2 = DOMAIN bs /\ Closed(b2, fs, nfn) BY <1>4, <1>5, <1>6, <1>7, QuietAppend
<1>. HIDE DEF b2
<1>9. IsCode(b3) /\ DOMAIN b3 = DOMAIN bs /\ Closed(b3, fs, nfn) BY <1>4, <1>5, <1>6, <1>8, QuietAppend
<1>. HIDE DEF b3
<1>10. Closed(b4, fs, nfn) BY <1>4, <1>5, <1>6, <1>9, QuietAppend
<1>. HIDE DEF b4
<1>11. Remain(Len(stack)) BY <1>1, <1>2, AdvanceRemains
<1>. QED  BY <1>1, <1>2, <1>10, <1>11, RemainLasting

----------------------------------------------------------------------------
(* Each action: routines begin.                                               *)

\* A frame is pushed: what has to be shown of a step.
LEMMA PushLasting ==
  ASSUME Inv2, NEW fs, Lasting(fs), status = "run", status' = "run", NEW STATE f, f \in Frame,
         stack' = Append(stack, f), f.prev = scope,
         f.fn \in fs <=> Genuine(Len(stack)) /\ ~f.survey,
         Genuine(Len(stack)) => ~f.mark,
         Genuine(Len(stack)) /\ ~f.survey => Unmarked(scope'),
         fs \subseteq DOMAIN fns', \A g \in fs : fns'[g].pass = "real", Closed(blocks', fs, nfn')
  PROVE  Lasting(fs)'
<1>1. Inv1 /\ Ranked(fs) BY Standing
<1>2. 1 \in 1..Len(stack) /\ \A i \in 1..Len(stack) : stack'[i] = stack[i] BY <1>1, PushFacts
<1>3. Ranked(fs)' BY <1>1, RankedPushed
<1>. QED  BY <1>2, <1>3 DEF Lasting, Closed

\* A survey begins, in a new function that will not stay; no mark comes with it
\* out of a function that stays.
LEMMA SurveyLasting ==
  ASSUME Inv2, NEW fs, Lasting(fs), status = "run", NEW STATE b, b \in Bodies, NEW STATE mark, mark \in BOOLEAN,
         NEW STATE arg, NEW STATE before, before \in Seq(Instr), Survey(b, mark, arg, before),
         Among(before, fs), Genuine(Len(stack)) => ~mark
  PROVE  Lasting(fs)'
<1> DEFINE entry == nblk + 1
           g == nfn + 1
           f == [kind |-> "fn", body |-> b, pos |-> 1, survey |-> TRUE,
                 mark |-> mark, fn |-> g, pb |-> ip, prev |-> scope,
                 one |-> entry, two |-> 0, next |-> 0, used |-> FALSE]
           b1 == AppendTo(blocks, ip, before)
           b2 == Create(b1, {entry}, g)
           first == <<Plain("alloca")>>
           b3 == AppendTo(b2, entry, first)
<1>1. /\ stack' = Append(stack, f) /\ blocks' = b3 /\ status' = status /\ nfn' = g
      /\ fns' = [h \in DOMAIN fns \cup {g} |-> IF h = g THEN [pass |-> "survey", rty |-> DeclaredType(b)] ELSE fns[h]]
  BY DEF Survey
<1>2. /\ Inv1 /\ nblk \in Nat /\ nfn \in Nat /\ ip \in DOMAIN blocks /\ ip \in Nat /\ IsCode(blocks) /\ Closed(blocks, fs, nfn)
      /\ fs \subseteq DOMAIN fns /\ (\A h \in fs : fns[h].pass = "real") /\ g \notin fs
  BY Standing
<1>3. scope \in [Names -> Symbol] BY <1>2 DEF Inv1, Typed
<1>4. f \in Frame /\ f.prev = scope /\ f.survey /\ f.mark = mark /\ f.fn = g BY <1>2, <1>3 DEF Frame
<1>5. g \in Nat /\ g <= g /\ first \in Seq(Instr) /\ Among(first, fs)
  <2>1. first \in Seq(Instr) BY InstrTypes, CodeTypes DEF Kinds
  <2>2. Among(first, fs) BY Mentioned, AmongFew
  <2>. QED  BY <1>2, <2>1, <2>2
<1>6. fs \subseteq DOMAIN fns' /\ \A h \in fs : fns'[h].pass = "real" BY <1>1, <1>2
<1>. HIDE DEF entry, g, f, first
<1>7. IsCode(b1) /\ Closed(b1, fs, g)
  <2>1. IsCode(b1) /\ Closed(b1, fs, nfn) BY <1>2, QuietAppend
  <2>. HIDE DEF b1
  <2>. QED  BY <1>2, <2>1, ClosedBeyond DEF g
<1>. HIDE DEF b1
<1>8. IsCode(b2) /\ DOMAIN b2 = DOMAIN b1 \cup {entry} /\ Closed(b2, fs, g)
  BY <1>5, <1>7, CreateType, ClosedCreate DEF IsCode
<1>. HIDE DEF b2
<1>9. Closed(b3, fs, g) BY <1>5, <1>8, QuietAppend
<1>. HIDE DEF b3
<1>. QED  BY <1>1, <1>2, <1>4, <1>6, <1>9, PushLasting

\* The code before a call mentions no function.
LEMMA BeforeAmong ==
  ASSUME NEW fs
  PROVE  (\A s : Among(Loads(s), fs)) /\ \A b : Among(Scratch(b), fs)
BY Mentioned, AmongFew DEF Loads, Scratch

\* An eager literal: it is marked in a survey only.
LEMMA EvalLiteralLasting == ASSUME Inv2, NEW fs, Lasting(fs), EvalLiteral PROVE Lasting(fs)'
<1>0. Inv1 BY DEF Inv2
<1>1. AtLine("fun") /\ status = "run" /\ Survey(Cur.a, Marked, Absent, Scratch(Cur.a)) BY DEF EvalLiteral, AtLine
<1>2. Cur.a \in Bodies BY <1>0, <1>1, LineTypes DEF Line
<1>3. Marked \in BOOLEAN BY <1>0, StackFacts DEF Marked, Frame
<1>4. Genuine(Len(stack)) => ~Marked BY <1>1, Standing DEF Marked
<1>5. Scratch(Cur.a) \in Seq(Instr) /\ Among(Scratch(Cur.a), fs) BY <1>2, BeforeTypes, BeforeAmong
<1>. QED  BY <1>1, <1>2, <1>3, <1>4, <1>5, SurveyLasting

\* A lazy function: it is marked only if the symbols show marked ones.
LEMMA CallLazyLasting == ASSUME Inv2, NEW fs, Lasting(fs), CallLazy PROVE Lasting(fs)'
<1> DEFINE arg == ArgOf(Cur, scope)
<1>0. Inv1 BY DEF Inv2
<1>1. PICK o \in {"call", "retcall"} : AtLine(o) BY DEF CallLazy, AtCall
<1>2. /\ scope[Cur.x].k = "fn" /\ status = "run"
      /\ Survey(scope[Cur.x].at, scope[Cur.x].mark, arg, Loads(arg))
  BY <1>1 DEF CallLazy, AtLine
<1>3. Cur.x \in Names /\ Cur.y \in Names \cup {None} BY <1>0, <1>1, LineTypes DEF Complete, Line
<1>4. scope[Cur.x] \in Symbol /\ arg \in Symbol BY <1>0, <1>1, <1>3, LineTypes, SymbolTypes DEF ArgOf
<1>5. scope[Cur.x].at \in Bodies /\ scope[Cur.x].mark \in BOOLEAN BY <1>2, <1>4, SymbolFields
<1>6. Loads(arg) \in Seq(Instr) /\ Among(Loads(arg), fs) BY <1>4, BeforeTypes, BeforeAmong
<1>7. Genuine(Len(stack)) => ~scope[Cur.x].mark BY <1>2, <1>3, Standing DEF Unmarked
<1>. HIDE DEF arg
<1>. QED  BY <1>2, <1>5, <1>6, <1>7, SurveyLasting

\* The top-level value is never marked.
LEMMA EnterTopLasting == ASSUME Inv2, NEW fs, Lasting(fs), EnterTop PROVE Lasting(fs)'
<1> DEFINE before == IF prog.eager[prog.top] THEN Scratch(prog.top) ELSE << >>
<1>0. Inv1 /\ status = "run" BY DEF Inv2, EnterTop
<1>1. CASE Throw BY <1>1, ThrowLasting
<1>2. CASE Survey(prog.top, FALSE, Absent, before)
  <2>1. prog.top \in Bodies BY <1>0 DEF Inv1, Typed, WellFormed, Program
  <2>2. before \in Seq(Instr) /\ Among(before, fs) BY <2>1, BeforeTypes, CodeTypes, BeforeAmong, AmongFew
  <2>3. FALSE \in BOOLEAN OBVIOUS
  <2>. HIDE DEF before
  <2>. QED  BY <1>0, <1>2, <2>1, <2>2, <2>3, SurveyLasting
<1>. QED  BY <1>1, <1>2 DEF EnterTop

\* A scope, a branch or an import begins in the function at hand.
LEMMA InnerLasting ==
  ASSUME Inv2, NEW fs, Lasting(fs), NEW CONSTANT op, AtLine(op), status' = status, NEW STATE f, f \in Frame,
         stack' = Append(stack, f), f.prev = scope, f.fn = Top.fn, ~f.survey, ~f.mark, fns' = fns,
         Unmarked(scope) => Unmarked(scope'), Closed(blocks', fs, nfn), nfn' = nfn
  PROVE  Lasting(fs)'
<1>0. Inv1 BY DEF Inv2
<1>1. status = "run" /\ Len(stack) > 1 BY <1>0, LinePlace
<1>2. /\ (Top.fn \in fs <=> Genuine(Len(stack))) /\ (Genuine(Len(stack)) => Unmarked(scope))
      /\ fs \subseteq DOMAIN fns /\ \A g \in fs : fns[g].pass = "real"
  BY <1>1, Standing
<1>. QED  BY <1>1, <1>2, PushLasting

\* A scope begins.
LEMMA EnterScopeLasting == ASSUME Inv2, NEW fs, Lasting(fs), EnterScope PROVE Lasting(fs)'
<1> DEFINE f == [kind |-> "scope", body |-> Cur.a, pos |-> 1, survey |-> FALSE, mark |-> FALSE,
                 fn |-> Top.fn, pb |-> ip, prev |-> scope, one |-> nblk + 2, two |-> 0,
                 next |-> nblk + 1, used |-> FALSE]
<1>0. Inv1 BY DEF Inv2
<1>1. /\ AtLine("scope") /\ scope' = scope /\ fns' = fns /\ nfn' = nfn /\ status' = status /\ stack' = Append(stack, f)
      /\ blocks' = Create(blocks, {nblk + 1, nblk + 2}, blocks[ip].fn) /\ status = "run"
  BY DEF EnterScope, AtLine
<1>2. Cur.a \in Bodies /\ scope \in [Names -> Symbol] /\ ip \in Nat /\ Top.fn \in Nat
  BY <1>0, <1>1, LineTypes DEF Line
<1>3. nblk \in Nat BY <1>1, Standing
<1>4. f \in Frame BY <1>2, <1>3 DEF Frame
<1>5. f.prev = scope /\ f.fn = Top.fn /\ ~f.survey /\ ~f.mark OBVIOUS
<1>6. Closed(blocks', fs, nfn) BY <1>1, Standing, ClosedCreate
<1>. HIDE DEF f
<1>. QED  BY <1>1, <1>4, <1>5, <1>6, InnerLasting

\* A conditional begins.
LEMMA EnterCondLasting == ASSUME Inv2, NEW fs, Lasting(fs), EnterCond PROVE Lasting(fs)'
<1> DEFINE f == [kind |-> "then", body |-> Cur.a, pos |-> 1, survey |-> FALSE, mark |-> FALSE,
                 fn |-> Top.fn, pb |-> ip, prev |-> scope, one |-> nblk + 1, two |-> nblk + 2,
                 next |-> nblk + 3, used |-> FALSE]
<1>0. Inv1 BY DEF Inv2
<1>1. /\ AtLine("cond") /\ scope' = scope /\ fns' = fns /\ nfn' = nfn /\ status' = status /\ stack' = Append(stack, f)
      /\ blocks' = Create(blocks, {nblk + 1, nblk + 2, nblk + 3}, blocks[ip].fn) /\ status = "run"
  BY DEF EnterCond, AtLine
<1>2. Cur.a \in Bodies /\ scope \in [Names -> Symbol] /\ ip \in Nat /\ Top.fn \in Nat
  BY <1>0, <1>1, LineTypes DEF Line
<1>3. nblk \in Nat BY <1>1, Standing
<1>4. f \in Frame BY <1>2, <1>3 DEF Frame
<1>5. f.prev = scope /\ f.fn = Top.fn /\ ~f.survey /\ ~f.mark OBVIOUS
<1>6. Closed(blocks', fs, nfn) BY <1>1, Standing, ClosedCreate
<1>. HIDE DEF f
<1>. QED  BY <1>1, <1>4, <1>5, <1>6, InnerLasting

\* An imported file begins without symbols.
LEMMA EnterImportLasting == ASSUME Inv2, NEW fs, Lasting(fs), EnterImport PROVE Lasting(fs)'
<1> DEFINE f == [kind |-> "import", body |-> Cur.a, pos |-> 1, survey |-> FALSE, mark |-> FALSE,
                 fn |-> Top.fn, pb |-> ip, prev |-> scope, one |-> ip, two |-> 0, next |-> 0, used |-> FALSE]
<1>0. Inv1 BY DEF Inv2
<1>1. /\ AtLine("import") /\ scope' = NoSymbols /\ fns' = fns /\ nfn' = nfn /\ status' = status /\ stack' = Append(stack, f)
      /\ blocks' = blocks /\ status = "run"
  BY DEF EnterImport, AtLine
<1>2. Cur.a \in Bodies /\ scope \in [Names -> Symbol] /\ ip \in Nat /\ Top.fn \in Nat
  BY <1>0, <1>1, LineTypes DEF Line
<1>4. f \in Frame BY <1>2 DEF Frame
<1>5. f.prev = scope /\ f.fn = Top.fn /\ ~f.survey /\ ~f.mark OBVIOUS
<1>6. Closed(blocks', fs, nfn) BY <1>1, Standing
<1>7. Unmarked(scope') BY <1>1 DEF Unmarked, NoSymbols, Absent
<1>. HIDE DEF f
<1>. QED  BY <1>1, <1>4, <1>5, <1>6, <1>7, InnerLasting

----------------------------------------------------------------------------
(* Each action: routines end.                                                 *)

\* The symbols that come back show no marked literal to a function that stays.
LEMMA PrevUnmarked ==
  ASSUME Inv2, NEW fs, Lasting(fs), status = "run", Len(stack) > 1
  PROVE  /\ Genuine(Len(stack) - 1) => Unmarked(Top.prev) /\ ~Top.mark
         /\ Genuine(Len(stack)) <=> Genuine(Len(stack) - 1) /\ ~Top.survey
<1>1. Ranked(fs) /\ Inv1 BY Standing
<1>2. Len(stack) \in 2..Len(stack) /\ Len(stack) \in Nat BY <1>1, StackFacts
<1>3. \A i : i \in 1..Len(stack) <=> i \in 1..(Len(stack) - 1) \/ i = Len(stack) BY <1>2
<1>4. Genuine(Len(stack)) <=> Genuine(Len(stack) - 1) /\ ~Top.survey BY <1>3 DEF Genuine, Top
<1>5. Genuine(Len(stack) - 1) => Unmarked(Top.prev) /\ ~Top.mark BY <1>1, <1>2 DEF Ranked, Top
<1>. QED  BY <1>4, <1>5

\* A scope, a branch or an import is over: what has to be shown of a step.
LEMMA LeaveLasting ==
  ASSUME Inv2, NEW fs, Lasting(fs), NEW CONSTANT kind, AtEnd(kind), kind \notin {"main", "fn"}, Pop,
         scope' = Top.prev, status' = status, fns' = fns, nfn' = nfn, Closed(blocks', fs, nfn)
  PROVE  Lasting(fs)'
<1>0. Inv1 BY DEF Inv2
<1>1. status = "run" /\ Len(stack) > 1 /\ Len(stack) \in Nat BY <1>0, InnerTop, StackFacts
<1>2. Remain(Len(stack) - 1) BY <1>0, <1>1, PopRemains
<1>3. Genuine(Len(stack) - 1) => Unmarked(scope') BY <1>1, PrevUnmarked
<1>4. fs \subseteq DOMAIN fns' /\ \A f \in fs : fns'[f].pass = "real" BY <1>1, Standing
<1>. QED  BY <1>1, <1>2, <1>3, <1>4, RemainLasting

\* A branch is the end of a block; it mentions no function.
LEMMA BranchClosed ==
  ASSUME NEW bs, NEW fs, NEW n, IsCode(bs), Closed(bs, fs, n), NEW b \in DOMAIN bs, NEW t \in SUBSET Nat
  PROVE  IsCode(AppendTo(bs, b, <<Refer("br", t)>>)) /\ Closed(AppendTo(bs, b, <<Refer("br", t)>>), fs, n)
<1>1. <<Refer("br", t)>> \in Seq(Instr) BY InstrTypes, CodeTypes DEF Kinds
<1>2. Among(<<Refer("br", t)>>, fs) BY Mentioned, AmongFew
<1>. QED  BY <1>1, <1>2, QuietAppend

\* What a branch that is over leaves behind.
LEMMA FallClosed ==
  ASSUME Inv2, NEW fs, Lasting(fs), status = "run", Top.next \in Nat
  PROVE  IsCode(Fall) /\ DOMAIN Fall = DOMAIN blocks /\ Closed(Fall, fs, nfn)
<1>1. IsCode(blocks) /\ Closed(blocks, fs, nfn) /\ ip \in DOMAIN blocks /\ Inv1 BY Standing
<1>2. {Top.next} \in SUBSET Nat OBVIOUS
<1>3. Closed(AppendTo(blocks, ip, <<Refer("br", {Top.next})>>), fs, nfn) BY <1>1, <1>2, BranchClosed
<1>4. Closed(Fall, fs, nfn) BY <1>1, <1>3 DEF Fall
<1>. QED  BY <1>1, <1>4, FallGrows

\* The block a routine was entered from stays, whatever it ends with.
LEMMA DoorClosed ==
  ASSUME Inv2, NEW fs, Lasting(fs), status = "run", Top.pb \in DOMAIN blocks, Top.pb # Top.next,
         NEW bs, bs = Erase(blocks, {Top.next})
  PROVE  IsCode(bs) /\ Closed(bs, fs, nfn) /\ Top.pb \in DOMAIN bs
<1>1. IsCode(blocks) /\ Closed(blocks, fs, nfn) BY Standing
<1>2. IsCode(bs) /\ DOMAIN bs = DOMAIN blocks \ {Top.next} BY <1>1, EraseType DEF IsCode, Erase
<1>. QED  BY <1>1, <1>2, ClosedErase

\* A scope is over.
LEMMA LeaveScopeLasting == ASSUME Inv2, NEW fs, Lasting(fs), LeaveScope PROVE Lasting(fs)'
<1> DEFINE bs == IF ~HasTerminator(ip) THEN AppendTo(blocks, ip, <<Refer("br", {Top.next})>>)
                                       ELSE Erase(blocks, {Top.next})
<1>0. Inv1 BY DEF Inv2
<1>1. /\ AtEnd("scope") /\ fns' = fns /\ nfn' = nfn /\ status' = status /\ scope' = Top.prev /\ Pop
      /\ blocks' = AppendTo(bs, Top.pb, <<Refer("br", {Top.one})>>)
  BY DEF LeaveScope
<1>2. /\ status = "run" /\ Top.kind = "scope" /\ Top.next \in Nat /\ {Top.one} \in SUBSET Nat /\ Pending(Top)
      /\ Top.pb \in DOMAIN blocks /\ Top.pb # Top.next
  BY <1>0, <1>1, InnerTop DEF Pending
<1>3. IsCode(bs) /\ Closed(bs, fs, nfn) /\ Top.pb \in DOMAIN bs
  <2>1. CASE ~HasTerminator(ip)
    <3>1. bs = Fall BY <2>1 DEF Fall
    <3>. HIDE DEF bs
    <3>. QED  BY <1>2, <3>1, FallClosed
  <2>2. CASE HasTerminator(ip)
    <3>1. bs = Erase(blocks, {Top.next}) BY <2>2
    <3>. HIDE DEF bs
    <3>. QED  BY <1>2, <3>1, DoorClosed
  <2>. QED  BY <2>1, <2>2
<1>. HIDE DEF bs
<1>4. Closed(blocks', fs, nfn) BY <1>1, <1>2, <1>3, BranchClosed
<1>. QED  BY <1>1, <1>4, LeaveLasting

\* The first branch is over: the same frame goes on with the second.
LEMMA EndThenLasting == ASSUME Inv2, NEW fs, Lasting(fs), EndThen PROVE Lasting(fs)'
<1> DEFINE f == [Top EXCEPT !.kind = "else", !.body = LineOf(Caller).b, !.pos = 1, !.used = ~HasTerminator(ip)]
           n == Len(stack)
<1>0. Inv1 BY DEF Inv2
<1>1. /\ AtEnd("then") /\ fns' = fns /\ nfn' = nfn /\ status' = status /\ scope' = Top.prev /\ blocks' = Fall
      /\ stack' = [stack EXCEPT ![n] = f]
  BY DEF EndThen, Top
<1>2. status = "run" /\ Top.next \in Nat /\ n > 1 BY <1>0, <1>1, InnerTop, StackFacts
<1>3. n \in 1..n /\ n \in Nat /\ stack \in Seq(Frame) /\ Len(stack) = n /\ Top \in Frame BY <1>0, StackFacts
<1>4. Like(f, stack[n]) BY <1>3 DEF Like, Frame, Top
<1>5. Remain(n)
  <2>1. Len(stack') = n /\ \A i \in 1..n : stack'[i] = IF i = n THEN f ELSE stack[i]
    BY <1>1, <1>3
  <2>. HIDE DEF f, n
  <2>. QED  BY <1>3, <1>4, <2>1 DEF Remain, Like
<1>6. Closed(blocks', fs, nfn) BY <1>1, <1>2, FallClosed
<1>7. Genuine(n) => Unmarked(scope') BY <1>1, <1>2, PrevUnmarked
<1>8. fs \subseteq DOMAIN fns' /\ \A g \in fs : fns'[g].pass = "real" BY <1>1, <1>2, Standing
<1>. HIDE DEF n
<1>. QED  BY <1>1, <1>2, <1>5, <1>6, <1>7, <1>8, RemainLasting

\* A conditional is over.
LEMMA EndElseLasting == ASSUME Inv2, NEW fs, Lasting(fs), EndElse PROVE Lasting(fs)'
<1> DEFINE bs == IF MergeUsed THEN Fall ELSE Erase(blocks, {Top.next})
<1>0. Inv1 BY DEF Inv2
<1>1. /\ AtEnd("else") /\ fns' = fns /\ nfn' = nfn /\ status' = status /\ scope' = Top.prev /\ Pop
      /\ blocks' = AppendTo(bs, Top.pb, <<Refer("br", {Top.one, Top.two})>>)
  BY DEF EndElse
<1>2. /\ status = "run" /\ Top.kind = "else" /\ Top.next \in Nat /\ {Top.one, Top.two} \in SUBSET Nat /\ Pending(Top)
      /\ Top.pb \in DOMAIN blocks /\ Top.pb # Top.next
  BY <1>0, <1>1, InnerTop DEF Pending
<1>3. IsCode(bs) /\ Closed(bs, fs, nfn) /\ Top.pb \in DOMAIN bs
  <2>1. CASE MergeUsed
    <3>1. bs = Fall BY <2>1
    <3>. HIDE DEF bs
    <3>. QED  BY <1>2, <3>1, FallClosed
  <2>2. CASE ~MergeUsed
    <3>1. bs = Erase(blocks, {Top.next}) BY <2>2
    <3>. HIDE DEF bs
    <3>. QED  BY <1>2, <3>1, DoorClosed
  <2>. QED  BY <2>1, <2>2
<1>. HIDE DEF bs
<1>4. Closed(blocks', fs, nfn) BY <1>1, <1>2, <1>3, BranchClosed
<1>. QED  BY <1>1, <1>4, LeaveLasting

\* An imported file is over.
LEMMA LeaveImportLasting == ASSUME Inv2, NEW fs, Lasting(fs), LeaveImport PROVE Lasting(fs)'
<1>1. /\ AtEnd("import") /\ fns' = fns /\ nfn' = nfn /\ status' = status /\ scope' = Top.prev /\ Pop /\ blocks' = blocks
  BY DEF LeaveImport
<1>2. Closed(blocks', fs, nfn) BY <1>1 DEF Lasting
<1>. QED  BY <1>1, <1>2, LeaveLasting

\* Where a function that is over stands among those that stay.
LEMMA CallerRank ==
  ASSUME Inv2, NEW fs, Lasting(fs), AtEnd("fn")
  PROVE  /\ Inv1 /\ status = "run" /\ Len(stack) \in Nat /\ Len(stack) > 1
         /\ Caller.kind # "main" => (Caller.fn \in fs <=> Genuine(Len(stack) - 1))
         /\ Caller.kind = "main" => Genuine(Len(stack) - 1) /\ Caller.fn \notin fs
         /\ Top.fn \in fs <=> Genuine(Len(stack) - 1) /\ ~Top.survey
         /\ Top.mark => ~Genuine(Len(stack) - 1)
         /\ Genuine(Len(stack) - 1) => Unmarked(Top.prev)
         /\ Top.pb \in DOMAIN blocks /\ blocks[Top.pb].fn = Caller.fn /\ Caller.fn # Top.fn
<1>1. Inv1 BY DEF Inv2
<1>2. status = "run" /\ Len(stack) > 1 /\ Len(stack) \in Nat BY <1>1, FnTop, StackFacts
<1>3. Ranked(fs) /\ (Top.fn \in fs <=> Genuine(Len(stack))) /\ 1 \notin fs BY <1>2, Standing DEF Lasting
<1>4. /\ Genuine(Len(stack)) <=> Genuine(Len(stack) - 1) /\ ~Top.survey
      /\ Genuine(Len(stack) - 1) => Unmarked(Top.prev) /\ ~Top.mark
  BY <1>2, PrevUnmarked
<1>5. ASSUME Caller.kind # "main" PROVE Caller.fn \in fs <=> Genuine(Len(stack) - 1)
  <2>1. Len(stack) - 1 \in 2..Len(stack) BY <1>1, <1>2, <1>5, StackFacts
  <2>. QED  BY <1>3, <2>1 DEF Ranked, Caller
<1>6. ASSUME Caller.kind = "main" PROVE Genuine(Len(stack) - 1) /\ Caller.fn \notin fs
  <2>1. Len(stack) - 1 = 1 BY <1>1, <1>2, <1>6, StackFacts
  <2>2. \A i \in 1..1 : i = 1 OBVIOUS
  <2>3. ~stack[1].survey /\ stack[1].fn = 1 BY <1>1, <1>3 DEF Ranked, Inv1, StackDiscipline
  <2>4. Genuine(1) BY <2>2, <2>3 DEF Genuine
  <2>. QED  BY <1>3, <2>1, <2>3, <2>4 DEF Caller
<1>7. Top.pb \in DOMAIN blocks /\ blocks[Top.pb].fn = Caller.fn /\ Caller.fn # Top.fn
  <2>1. Len(stack) \in 2..Len(stack) /\ Len(stack) - 1 \in 1..(Len(stack) - 1) BY <1>2
  <2>. QED  BY <1>1, <1>2, <2>1, FnTop, KeptFacts DEF Top, Caller
<1>. QED  BY <1>1, <1>2, <1>3, <1>4, <1>5, <1>6, <1>7

\* A function is over, and what stands for it is mentioned: by a function that stays
\* only if it stays itself.
LEMMA ReturnToLasting ==
  ASSUME Inv2, NEW fs, Lasting(fs), AtEnd("fn"), NEW STATE bs, NEW STATE f, f \in Nat, NEW STATE t, t \in Types,
         ReturnTo(bs, f, t), IsCode(bs), Closed(bs, fs, nfn), Top.pb \in DOMAIN bs, bs[Top.pb].fn = Caller.fn,
         Caller.fn \in fs => f \in fs, Caller.kind = "main" => f \in fs,
         nfn' = nfn, fs \subseteq DOMAIN fns', \A h \in fs : fns'[h].pass = "real"
  PROVE  Lasting(fs)'
<1> DEFINE l == LineOf(Caller)
           takes == prog.param[Top.body] # None
           tab == Top.fn \in tables
           old == Top.prev[l.x]
           home == IF old.k = "ptr" THEN old.at ELSE Top.pb
           call == IF l.op = "retcall" THEN <<CallOf(f, t)>> \o <<Ret(t)>> ELSE <<CallOf(f, t)>>
           one == <<[Refer("store", {home}) EXCEPT !.fn = {f}]>>
           store == IF old.k = "ptr" THEN one ELSE <<Plain("alloca")>> \o one
<1>1. /\ Inv1 /\ status = "run" /\ Len(stack) \in Nat /\ Len(stack) > 1
      /\ (Genuine(Len(stack) - 1) => Unmarked(Top.prev))
  BY CallerRank
<1>2. Top \in Frame /\ Top.prev \in [Names -> Symbol] /\ Top.pb \in Nat BY <1>1, StackFacts DEF Frame
<1>3. CASE /\ Caller.kind = "main" /\ blocks' = bs /\ scope' = Top.prev /\ status' = status
           /\ stack' = [Below EXCEPT ![1] = [@ EXCEPT !.pos = 2, !.next = f]]
  <2>1. Len(stack) = 2 /\ Len(stack) - 1 = 1 /\ stack[1] \in Frame BY <1>1, <1>3, StackFacts
  <2>2. Below \in Seq(Frame) /\ Len(Below) = 1 /\ Below[1] = stack[1]
    BY <1>1, <2>1, StackFacts, SubSeqProperties DEF Below
  <2>3. Len(stack') = 1 /\ stack'[1] = [stack[1] EXCEPT !.pos = 2, !.next = f] BY <1>3, <2>2
  <2>4. stack'[1].next = f /\ stack'[1].survey = stack[1].survey BY <2>1, <2>3 DEF Frame
  <2>5. ~stack[1].survey BY <1>1, Standing DEF Ranked
  <2>6. Unmarked(scope') BY <1>1, <1>3, CallerRank
  <2>7. Ranked(fs)'
    <3>1. \A j \in 2..Len(stack') : FALSE BY <2>3
    <3>. QED  BY <2>4, <2>5, <2>6, <3>1 DEF Ranked, Unmarked
  <2>. QED  BY <1>1, <1>3, <2>4, <2>7 DEF Lasting
<1>4. ASSUME Caller.kind # "main", Pop, Closed(blocks', fs, nfn), status' \in {"run", "error"},
             Unmarked(Top.prev) => Unmarked(scope')
      PROVE  Lasting(fs)'
  <2>1. Remain(Len(stack) - 1) BY <1>1, <1>4, PopRemains
  <2>. QED  BY <1>1, <1>4, <2>1, RemainLasting
<1>5. ASSUME Caller.kind # "main" PROVE l \in Line /\ Complete(l)
  <2>1. "fn" # "main" OBVIOUS
  <2>. QED  BY <1>1, <1>5, <2>1, EndFacts
<1>6. CASE /\ Caller.kind # "main" /\ blocks' = AppendTo(bs, Top.pb, call) /\ Pop /\ scope' = Top.prev
           /\ status' = status
  <2>1. <<CallOf(f, t)>> \in Seq(Instr) /\ <<Ret(t)>> \in Seq(Instr) BY InstrTypes, CodeTypes
  <2>2. f \in fs => Among(<<CallOf(f, t)>>, fs)
    <3>1. CallOf(f, t).fn = {f} BY Mentioned
    <3>2. f \in fs => CallOf(f, t).fn \subseteq fs BY <3>1
    <3>. QED  BY <3>2, AmongFew
  <2>3. Among(<<Ret(t)>>, fs) BY Mentioned, AmongFew
  <2>4. call \in Seq(Instr) BY <2>1, ConcatProperties
  <2>5. f \in fs => Among(call, fs) BY <2>1, <2>2, <2>3, AmongCat
  <2>. HIDE DEF call
  <2>6. Closed(blocks', fs, nfn) BY <1>6, <2>4, <2>5, ClosedAppend
  <2>. QED  BY <1>1, <1>4, <1>6, <2>6
<1>7. CASE /\ Caller.kind # "main" /\ l.op = "fun" /\ blocks' = AppendTo(bs, Top.pb, store)
           /\ Pop /\ scope' = [Top.prev EXCEPT ![l.x] = PtrIn(home, t, takes, tab)] /\ status' = status
  <2>1. l.x \in Names BY <1>5, <1>7 DEF Complete, Line
  <2>2. old \in Symbol BY <1>2, <2>1
  <2>3. home \in Nat BY <1>2, <2>2, SymbolFields
  <2>. HIDE DEF home, old
  <2>4. one \in Seq(Instr) /\ (f \in fs => Among(one, fs))
    <3>1. [Refer("store", {home}) EXCEPT !.fn = {f}] \in Instr
      BY <2>3, TypesAssumption DEF Refer, Instr, Kinds
    <3>2. [Refer("store", {home}) EXCEPT !.fn = {f}].fn = {f} BY DEF Refer
    <3>3. one \in Seq(Instr) BY <3>1, CodeTypes
    <3>4. f \in fs => Among(one, fs) BY <3>2, AmongFew
    <3>. QED  BY <3>3, <3>4
  <2>5. <<Plain("alloca")>> \in Seq(Instr) BY InstrTypes, CodeTypes DEF Kinds
  <2>6. Among(<<Plain("alloca")>>, fs) BY Mentioned, AmongFew
  <2>. HIDE DEF one
  <2>7. store \in Seq(Instr) BY <2>4, <2>5, ConcatProperties
  <2>8. f \in fs => Among(store, fs) BY <2>4, <2>5, <2>6, AmongCat
  <2>. HIDE DEF store
  <2>9. Closed(blocks', fs, nfn) BY <1>7, <2>7, <2>8, ClosedAppend
  <2>10. PtrIn(home, t, takes, tab).k # "fn" BY DEF PtrIn
  <2>. HIDE DEF takes
  <2>11. Unmarked(Top.prev) => Unmarked(scope') BY <1>2, <1>7, <2>10, UnmarkedMore
  <2>. QED  BY <1>1, <1>4, <1>7, <2>9, <2>11
<1>8. CASE Caller.kind # "main" /\ blocks' = bs /\ Pop /\ scope' = Top.prev /\ status' = "error"
  BY <1>1, <1>4, <1>8
<1>. QED  BY <1>3, <1>6, <1>7, <1>8 DEF ReturnTo

\* A marked literal: the prototype that stands for it is not mentioned by a function that stays.
LEMMA EndMarkedLasting == ASSUME Inv2, NEW fs, Lasting(fs), EndMarked PROVE Lasting(fs)'
<1> DEFINE bs == Erase(blocks, BlocksOf(Top.fn))
<1>1. AtEnd("fn") /\ Top.mark /\ Top.survey /\ nfn' = nfn /\ fns' = [g \in DOMAIN fns \ {Top.fn} |-> fns[g]]
  BY DEF EndMarked, EndSurvey, Dismissed
<1>2. PICK t \in Surveyed(Top.fn) : ReturnTo(bs, 0, t) BY DEF EndMarked
<1>3. /\ Inv1 /\ status = "run" /\ Caller.fn \notin fs /\ Caller.kind # "main" /\ Top.fn \notin fs
      /\ Top.pb \in DOMAIN blocks /\ blocks[Top.pb].fn = Caller.fn /\ Caller.fn # Top.fn
  BY <1>1, CallerRank
<1>4. t \in Types BY <1>2, <1>3, SurveyedTypes
<1>5. /\ IsCode(blocks) /\ Closed(blocks, fs, nfn) /\ fs \subseteq DOMAIN fns /\ \A h \in fs : fns[h].pass = "real"
  BY <1>3, Standing
<1>6. IsCode(bs) /\ Closed(bs, fs, nfn) BY <1>5, EraseType, ClosedErase DEF IsCode
<1>7. Top.pb \in DOMAIN bs /\ bs[Top.pb].fn = Caller.fn BY <1>3 DEF Erase, BlocksOf
<1>8. fs \subseteq DOMAIN fns' /\ \A h \in fs : fns'[h].pass = "real" BY <1>1, <1>3, <1>5
<1>9. 0 \in Nat OBVIOUS
<1>. HIDE DEF bs
<1>. QED  BY <1>1, <1>2, <1>3, <1>4, <1>6, <1>7, <1>8, <1>9, ReturnToLasting

\* A real pass is over: the function stays if its caller does.
LEMMA EndRealLasting == ASSUME Inv2, NEW fs, Lasting(fs), EndReal PROVE Lasting(fs)'
<1> DEFINE t == fns[Top.fn].rty
           final == <<Plain("retvoid")>>
           bs == IF t = Void THEN AppendTo(blocks, ip, final) ELSE blocks
           f == Top.fn
<1>1. AtEnd("fn") /\ ~Top.survey /\ ReturnTo(bs, f, t) /\ nfn' = nfn /\ fns' = fns BY DEF EndReal
<1>2. /\ Inv1 /\ status = "run" /\ (Caller.fn \in fs => f \in fs) /\ (Caller.kind = "main" => f \in fs)
      /\ Top.pb \in DOMAIN blocks /\ blocks[Top.pb].fn = Caller.fn
  BY <1>1, CallerRank
<1>3. t \in Types /\ f \in Nat BY <1>1, <1>2, FnTop DEF Fn
<1>4. /\ IsCode(blocks) /\ Closed(blocks, fs, nfn) /\ ip \in DOMAIN blocks
      /\ fs \subseteq DOMAIN fns' /\ \A h \in fs : fns'[h].pass = "real"
  BY <1>1, <1>2, Standing
<1>5. final \in Seq(Instr) BY InstrTypes, CodeTypes DEF Kinds
<1>6. Among(final, fs) BY Mentioned, AmongFew
<1>. HIDE DEF final
<1>7. IsCode(bs) /\ Closed(bs, fs, nfn) /\ Top.pb \in DOMAIN bs /\ bs[Top.pb].fn = Caller.fn
  <2>1. CASE t = Void
    <3>1. bs = AppendTo(blocks, ip, final) BY <2>1
    <3>. HIDE DEF bs
    <3>2. IsCode(bs) /\ DOMAIN bs = DOMAIN blocks /\ Closed(bs, fs, nfn) BY <1>4, <1>5, <1>6, <3>1, QuietAppend
    <3>3. bs[Top.pb].fn = blocks[Top.pb].fn BY <1>2, <1>4, <1>5, <3>1, AppendCode
    <3>. QED  BY <1>2, <3>2, <3>3
  <2>2. CASE t # Void BY <1>2, <1>4, <2>2
  <2>. QED  BY <2>1, <2>2
<1>. HIDE DEF bs, t, f
<1>. QED  BY <1>1, <1>2, <1>3, <1>4, <1>7, ReturnToLasting

\* The symbols a function starts with show a marked literal only if its argument is one.
LEMMA FormalsUnmarked ==
  ASSUME NEW b, NEW arg, NEW entry, arg.k = "fn" => ~arg.mark
  PROVE  Unmarked(Formals(b, arg, entry))
BY DEF Unmarked, Formals, Absent, PtrIn, SlotIn

\* The real pass begins, in a function k that did not exist: it stays if its caller
\* does, and gs is fs with k or without it.
LEMMA RealLasting ==
  ASSUME Inv2, NEW fs, Lasting(fs), StartReal, NEW k, k = nfn + 1, NEW gs,
         k \in gs <=> Genuine(Len(stack) - 1), \A h : h # k => (h \in gs <=> h \in fs)
  PROVE  Lasting(gs)'
<1> DEFINE n == Len(stack)
           entry == nblk + 1
           arg == IF Caller.kind = "main" THEN Absent ELSE ArgOf(LineOf(Caller), Top.prev)
           f == RealOf(Top, k, entry)
           first == <<Plain("alloca"), [Plain("store") EXCEPT !.fn = {k}]>>
           b1 == Erase(blocks, BlocksOf(Top.fn))
           b2 == Create(b1, {entry}, k)
           b3 == AppendTo(b2, entry, first)
<1>1. /\ AtEnd("fn") /\ Top.survey /\ blocks' = b3 /\ scope' = Formals(Top.body, arg, entry)
      /\ stack' = [stack EXCEPT ![n] = f] /\ nfn' = k /\ status' = status
  BY DEF StartReal, EndSurvey, RealOf, Top
<1>2. PICK t \in Surveyed(Top.fn) :
        fns' = [h \in (DOMAIN fns \ {Top.fn}) \cup {k} |-> IF h = k THEN [pass |-> "real", rty |-> t] ELSE fns[h]]
  BY DEF StartReal, Dismissed
<1>3. /\ Inv1 /\ status = "run" /\ n \in Nat /\ n > 1 /\ Top.fn \notin fs
      /\ (Genuine(n - 1) => Unmarked(Top.prev))
  BY <1>1, CallerRank
<1>4. /\ Ranked(fs) /\ Closed(blocks, fs, nfn) /\ IsCode(blocks) /\ nblk \in Nat /\ nfn \in Nat
      /\ fs \subseteq DOMAIN fns /\ (\A h \in fs : fns[h].pass = "real") /\ k \notin fs
  BY <1>3, Standing
<1>5. k \in Nat /\ k <= k /\ entry \in Nat /\ fs \subseteq gs BY <1>4
<1>6. gs \subseteq DOMAIN fns' /\ 1 \notin gs /\ \A h \in gs : fns'[h].pass = "real"
  <2>1. fs \subseteq DOMAIN fns' /\ \A h \in fs : fns'[h].pass = "real" BY <1>2, <1>3, <1>4
  <2>2. k \in DOMAIN fns' /\ fns'[k].pass = "real" BY <1>2
  <2>3. 1 \notin fs BY DEF Lasting
  <2>4. k # 1
    <3>1. stack[1].fn = 1 /\ 1 \in 1..Len(stack) BY <1>3, StackFacts DEF Inv1, StackDiscipline
    <3>2. 1 <= nfn BY <1>3, <3>1, FnFacts
    <3>. QED  BY <1>4, <3>2
  <2>. QED  BY <2>1, <2>2, <2>3, <2>4
<1>7. IsCode(b1) /\ Closed(b1, gs, k)
  <2>1. IsCode(b1) /\ Closed(b1, fs, nfn) BY <1>4, EraseType, ClosedErase DEF IsCode
  <2>. HIDE DEF b1
  <2>2. Closed(b1, fs, k) BY <1>4, <2>1, ClosedBeyond
  <2>3. \A b \in DOMAIN b1 : b1[b].fn # k
    <3>1. \A b \in DOMAIN b1 : b1[b].fn \in Nat BY <2>1 DEF IsCode, Block
    <3>. QED  BY <1>4, <2>1, <3>1 DEF Closed
  <2>. QED  BY <1>5, <2>1, <2>2, <2>3 DEF Closed
<1>8. first \in Seq(Instr) /\ (k \in gs => Among(first, gs))
  <2>1. [Plain("store") EXCEPT !.fn = {k}] \in Instr BY <1>5, TypesAssumption DEF Plain, Instr, Kinds
  <2>2. [Plain("store") EXCEPT !.fn = {k}].fn = {k} /\ Plain("alloca").fn = {} BY DEF Plain
  <2>3. first \in Seq(Instr) BY <2>1, InstrTypes, CodeTypes DEF Kinds
  <2>4. k \in gs => Among(first, gs) BY <2>2, AmongFew
  <2>. QED  BY <2>3, <2>4
<1>9. f \in Frame /\ f.fn = k /\ f.prev = Top.prev /\ f.mark = Top.mark /\ ~f.survey
  BY <1>3, <1>5, StackFacts DEF RealOf, Frame
<1>10. Len(stack') = n /\ (\A i \in 1..(n - 1) : stack'[i] = stack[i]) /\ stack'[n] = f
  BY <1>1, <1>3, <1>9, ReplaceShape DEF Shape
<1>11. Genuine(n - 1) => Unmarked(scope')
  <2>1. Top.prev \in [Names -> Symbol] BY <1>3, StackFacts DEF Frame
  <2>2. "fn" # "main" OBVIOUS
  <2>3. Caller.kind # "main" => LineOf(Caller) \in Line BY <1>1, <1>3, <2>2, EndFacts
  <2>4. Unmarked(Top.prev) => (arg.k = "fn" => ~arg.mark) BY <2>1, <2>3 DEF ArgOf, Line, Unmarked, Absent
  <2>. HIDE DEF arg
  <2>. QED  BY <1>1, <1>3, <2>4, FormalsUnmarked
<1>. HIDE DEF entry, first, b1, f, arg
<1>12. IsCode(b2) /\ entry \in DOMAIN b2 /\ b2[entry].fn = k /\ Closed(b2, gs, k)
  <2>1. IsCode(b2) /\ DOMAIN b2 = DOMAIN b1 \cup {entry} BY <1>5, <1>7, CreateType DEF IsCode
  <2>2. b2[entry].fn = k BY DEF Create
  <2>3. Closed(b2, gs, k) BY <1>5, <1>7, ClosedCreate
  <2>. QED  BY <2>1, <2>2, <2>3
<1>. HIDE DEF b2
<1>13. Closed(b3, gs, k) BY <1>8, <1>12, ClosedAppend
<1>. HIDE DEF b3
<1>14. Ranked(gs)'
  <2>1. ASSUME NEW j \in 1..(n - 1) PROVE (\A i \in 1..j : ~stack'[i].survey) <=> Genuine(j)
    <3>1. \A i \in 1..j : i \in 1..(n - 1) BY <1>3
    <3>. QED  BY <1>10, <3>1 DEF Genuine
  <2>2. (\A i \in 1..n : ~stack'[i].survey) <=> Genuine(n - 1)
    <3>1. \A i : i \in 1..n <=> i \in 1..(n - 1) \/ i = n BY <1>3
    <3>2. n - 1 \in 1..(n - 1) BY <1>3
    <3>. QED  BY <1>9, <1>10, <2>1, <3>1, <3>2
  <2>3. \A j \in 1..n : stack[j].fn # k
    <3>1. \A j \in 1..n : stack[j].fn \in Nat /\ stack[j].fn <= nfn BY <1>3, FnFacts DEF n
    <3>. QED  BY <1>4, <3>1
  <2>4. ASSUME NEW j \in 2..n
        PROVE  /\ stack'[j].fn \in gs <=> \A i \in 1..j : ~stack'[i].survey
               /\ (\A i \in 1..(j - 1) : ~stack'[i].survey) => Unmarked(stack'[j].prev) /\ ~stack'[j].mark
    <3>1. CASE j = n
      <4>1. n - 1 \in 1..(n - 1) BY <1>3
      <4>2. Genuine(n - 1) => Unmarked(Top.prev) /\ ~Top.mark BY <1>3, PrevUnmarked DEF n
      <4>. QED  BY <1>9, <1>10, <2>1, <2>2, <3>1, <4>1, <4>2 DEF n
    <3>2. CASE j # n
      <4>1. j \in 1..n /\ j \in 1..(n - 1) /\ j - 1 \in 1..(n - 1) /\ j \in 2..Len(stack) BY <1>3, <3>2 DEF n
      <4>2. stack[j].fn \in gs <=> Genuine(j) BY <1>4, <2>3, <4>1 DEF Ranked
      <4>3. Genuine(j - 1) => Unmarked(stack[j].prev) /\ ~stack[j].mark BY <1>4, <4>1 DEF Ranked
      <4>. QED  BY <1>10, <2>1, <4>1, <4>2, <4>3
    <3>. QED  BY <3>1, <3>2
  <2>5. ~stack'[1].survey
    <3>1. 1 \in 1..(n - 1) BY <1>3
    <3>. QED  BY <1>4, <1>10, <3>1 DEF Ranked
  <2>. QED  BY <1>10, <1>11, <2>2, <2>4, <2>5 DEF Ranked, Genuine, Unmarked
<1>15. stack'[1] = stack[1]
  <2>1. 1 \in 1..(n - 1) BY <1>3
  <2>. QED  BY <1>10, <2>1
<1>16. stack[1].next # 0 => stack[1].next \in gs BY <1>5 DEF Lasting
<1>. QED  BY <1>1, <1>3, <1>6, <1>13, <1>14, <1>15, <1>16 DEF Lasting

\* The real pass begins: some set of functions stays.
LEMMA StartRealLasting == ASSUME Inv2, NEW fs, Lasting(fs), StartReal PROVE \E gs : Lasting(gs)'
<1>1. AtEnd("fn") BY DEF StartReal, EndSurvey
<1>2. status = "run" BY <1>1 DEF AtEnd
<1>3. PICK k : k = nfn + 1 OBVIOUS
<1>4. k \notin fs BY <1>2, <1>3, Standing
<1>5. CASE Genuine(Len(stack) - 1)
  <2>1. Lasting(fs \cup {k})' BY <1>3, <1>5, RealLasting
  <2>. QED  BY <2>1
<1>6. CASE ~Genuine(Len(stack) - 1)
  <2>1. Lasting(fs)' BY <1>3, <1>4, <1>6, RealLasting
  <2>. QED  BY <2>1
<1>. QED  BY <1>5, <1>6

\* main is closed with a call of the user's function, or dropped.
LEMMA CreateMainRetLasting == ASSUME Inv2, NEW fs, Lasting(fs), CreateMainRet PROVE Lasting(fs)'
<1> DEFINE t == fns[Top.next].rty
           is == <<CallOf(Top.next, t), Ret(IF t = Void THEN I32 ELSE t)>>
<1>1. /\ status = "run" /\ Top.kind = "main" /\ Top.pos = 2 /\ status' = "built" /\ stack' = stack /\ nfn' = nfn
  BY DEF CreateMainRet
<1>2. /\ Inv1 /\ IsCode(blocks) /\ Closed(blocks, fs, nfn) /\ ip \in DOMAIN blocks
      /\ fs \subseteq DOMAIN fns /\ 1 \notin fs /\ \A h \in fs : fns[h].pass = "real"
  BY <1>1, Standing DEF Lasting
<1>3. Top = stack[1] BY <1>1, <1>2, MainTop
<1>4. Top.next \in DOMAIN fns /\ Top.next \in Nat /\ Top.next # 0
  <2>1. Top.next \in DOMAIN fns BY <1>1, <1>2, <1>3 DEF Inv1, FnsAlive
  <2>2. DOMAIN fns \subseteq 1..nfn /\ nfn \in Nat BY <1>2 DEF Inv1, Typed
  <2>. QED  BY <2>1, <2>2
<1>5. Top.next \in fs BY <1>3, <1>4 DEF Lasting
<1>6. CASE blocks' = Erase(blocks, BlocksOf(1)) /\ fns' = [g \in DOMAIN fns \ {1} |-> fns[g]]
  <2>1. Closed(blocks', fs, nfn) BY <1>2, <1>6, ClosedErase
  <2>2. fs \subseteq DOMAIN fns' /\ \A h \in fs : fns'[h].pass = "real" BY <1>2, <1>6
  <2>. QED  BY <1>1, <1>2, <1>3, <1>4, <1>5, <2>1, <2>2 DEF Lasting
<1>7. CASE blocks' = AppendTo(blocks, ip, is) /\ fns' = fns
  <2>1. t \in Types BY <1>2, <1>4 DEF Inv1, Typed, Fn
  <2>2. is \in Seq(Instr) BY <1>4, <2>1, TypesAssumption, InstrTypes, CodeTypes
  <2>3. Among(is, fs)
    <3>1. CallOf(Top.next, t).fn = {Top.next} BY Mentioned
    <3>2. CallOf(Top.next, t).fn \subseteq fs BY <1>5, <3>1
    <3>3. Ret(IF t = Void THEN I32 ELSE t).fn \subseteq fs BY Mentioned
    <3>. QED  BY <3>2, <3>3, AmongFew
  <2>. HIDE DEF is
  <2>4. Closed(blocks', fs, nfn) BY <1>2, <1>7, <2>2, <2>3, ClosedAppend
  <2>. QED  BY <1>1, <1>2, <1>3, <1>4, <1>5, <1>7, <2>4 DEF Lasting
<1>. QED  BY <1>6, <1>7 DEF CreateMainRet

----------------------------------------------------------------------------
(* The invariant, and what follows from it.                                   *)

\* Steps that only change the status, or nothing.
LEMMA IdleLasting ==
  ASSUME Inv2, NEW fs, Lasting(fs),
         Bad \/ CallError \/ SurveyError \/ ImportFails \/ Overflow \/ HeapCrash \/ ScopeCrash \/ Verify \/ UNCHANGED vars
  PROVE  Lasting(fs)'
<1>1. CASE Bad \/ CallError \/ SurveyError \/ ImportFails
  BY <1>1, ThrowLasting DEF Bad, CallError, SurveyError, ImportFails
<1>2. CASE Overflow \/ HeapCrash \/ ScopeCrash
  BY <1>2, StopLasting DEF Overflow, HeapCrash, ScopeCrash, Crash, Stop
<1>3. CASE Verify
  <2>1. /\ status = "built" /\ status' \in {"ok", "bug"} /\ stack' = stack /\ blocks' = blocks /\ fns' = fns
        /\ nfn' = nfn
    BY <1>3 DEF Verify, Stop
  <2>. QED  BY <2>1, StopLasting
<1>4. CASE UNCHANGED vars BY <1>4 DEF vars, Lasting, Ranked, Genuine, Unmarked
<1>. QED  BY <1>1, <1>2, <1>3, <1>4

\* Every step keeps the functions that stay closed.
LEMMA NextLasting == ASSUME Inv2, NEW fs, Lasting(fs), [Next]_vars PROVE \E gs : Lasting(gs)'
<1>1. CASE Use \/ Set \/ Heap \/ ImportHeader \/ Bind \/ Return \/ ReturnSelf \/ CallPointer \/ Select
  BY <1>1, UseLasting, SetLasting, HeapLasting, ImportHeaderLasting, BindLasting, ReturnLasting, ReturnSelfLasting,
     CallPointerLasting, SelectLasting
<1>2. CASE EvalLiteral \/ CallLazy \/ EnterTop \/ EnterScope \/ EnterCond \/ EnterImport
  BY <1>2, EvalLiteralLasting, CallLazyLasting, EnterTopLasting, EnterScopeLasting, EnterCondLasting, EnterImportLasting
<1>3. CASE LeaveScope \/ EndThen \/ EndElse \/ LeaveImport \/ EndMarked \/ EndReal \/ CreateMainRet
  BY <1>3, LeaveScopeLasting, EndThenLasting, EndElseLasting, LeaveImportLasting, EndMarkedLasting, EndRealLasting,
     CreateMainRetLasting
<1>4. CASE StartReal BY <1>4, StartRealLasting
<1>5. CASE \/ Bad \/ CallError \/ SurveyError \/ ImportFails \/ Overflow \/ HeapCrash \/ ScopeCrash \/ Verify
           \/ UNCHANGED vars
  BY <1>5, IdleLasting
<1>6. CASE Finished BY <1>6, IdleLasting DEF Finished
<1>. QED  BY <1>1, <1>2, <1>3, <1>4, <1>5, <1>6 DEF Next

\* Nothing is written when createMain has run.
LEMMA InitLasting == Init => Inv3
<1>. SUFFICES ASSUME Init PROVE Inv3 OBVIOUS
<1>1. Inv2 BY InitStored
<1>2. /\ Len(stack) = 1 /\ ~stack[1].survey /\ stack[1].next = 0 /\ status = "run" /\ scope = NoSymbols /\ nfn = 1
      /\ blocks = [b \in {1} |-> [fn |-> 1, code |-> << >>]]
  BY DEF Init
<1>3. Ranked({})
  <2>1. \A j \in 2..Len(stack) : FALSE BY <1>2
  <2>2. Unmarked(scope) BY <1>2 DEF Unmarked, NoSymbols, Absent
  <2>. QED  BY <1>2, <2>1, <2>2 DEF Ranked
<1>4. Closed(blocks, {}, nfn) BY <1>2 DEF Closed
<1>5. Lasting({}) BY <1>2, <1>3, <1>4 DEF Lasting
<1>. QED  BY <1>1, <1>5 DEF Inv3

\* For any programs, the program that runs is complete: every function reached from
\* the user's function is in the module and was written by a real pass, though
\* functions written during a survey may mention prototypes that are in no module.
THEOREM WholeProgram == Spec => []ProgramComplete
<1>1. Inv3 => ProgramComplete
  <2>. SUFFICES ASSUME Inv3, status \in {"built", "ok", "bug"}
                PROVE  \E fs \in SUBSET DOMAIN fns : stack[1].next \in fs /\ Linked(fs)
    BY DEF ProgramComplete
  <2>1. PICK fs : Lasting(fs) BY DEF Inv3
  <2>2. fs \in SUBSET DOMAIN fns /\ stack[1].next \in fs BY <2>1 DEF Lasting
  <2>3. \A f \in fs : fns[f].pass = "real" /\ Mentions(f) \subseteq fs
    BY <2>1 DEF Lasting, Closed, Mentions, BlocksOf
  <2>. QED  BY <2>2, <2>3 DEF Linked
<1>2. Inv3 /\ [Next]_vars => Inv3' BY NextStep, NextLasting DEF Inv3
<1>. QED  BY <1>1, <1>2, InitLasting, PTL DEF Spec

=============================================================================
