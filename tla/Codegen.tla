------------------------------ MODULE Codegen ------------------------------
(***************************************************************************)
(* The code generator of scopion: the translator and the evaluator it      *)
(* calls on lazy values, as they drive one llvm::IRBuilder.                *)
(*                                                                         *)
(* A function literal is lazy.  Every call of one translates its body      *)
(* twice: a "survey" pass into a throw-away function finds the return      *)
(* type, then a real pass writes the function that is called.  A scope,    *)
(* and either branch of a conditional, is translated into blocks of the    *)
(* function at hand.  The C++ call stack is the variable stack; thisScope_ *)
(* and the builder's insert block are scope and ip, set on the way in and  *)
(* put back on the way out by hand in each of these routines.              *)
(*                                                                         *)
(* Data is abstracted to what the generated control flow depends on: a     *)
(* line of a body is a record with the kind of its expression, the names   *)
(* it mentions and the bodies it encloses; a basic block is the sequence   *)
(* of its instructions, each with the blocks and the function it refers to.*)
(* An instruction's reference to a local variable is its reference to the  *)
(* block that holds the variable's alloca.                                 *)
(***************************************************************************)
EXTENDS Naturals, Sequences, FiniteSets

CONSTANTS
  Names,     \* names of variables and parameters
  Types,     \* LLVM types a returned value can have
  Bodies,    \* the bodies of function and scope literals
  Programs,  \* the programs to translate
  MaxDepth   \* frames the C++ stack has room for

None == "none"
Void == "void"
I32  == "i32"

(* Lines.  Not every field means something for every op:                    *)
(*   use x, set x, heap x     read; assign or declare; declare with #heap   *)
(*   fun x a                  x = (..){..}                                  *)
(*   call x y, retcall x y    x(y) and |> x(y); y = None: no argument       *)
(*   ret ty, retself          |> of a value, |> of a call of @self          *)
(*   scope a                  {..}()                                        *)
(*   cond a b, select         c ? {..} : {..} and c ? v : w                 *)
(*   import a                 @import#m of a file holding that expression   *)
(*   header, link, gclink     @import#c or #ir of a file that declares       *)
(*                            GC_malloc; of another one, with #link:gc; both *)
(*   bad                      an expression the translator refuses          *)
(* Every variable is #mut; a value that is returned has a type.             *)
Ops == {"use", "set", "heap", "fun", "call", "retcall", "ret", "retself",
        "scope", "cond", "select", "import", "header", "link", "gclink", "bad"}

Line == [op : Ops, x : Names \cup {None}, y : Names \cup {None},
         a : Bodies, b : Bodies, ty : Types \ {Void}]

\* eager: the parameter, if any, has a #type and the literal has no #lazy.
Program == [body : [Bodies -> Seq(Line)], param : [Bodies -> Names \cup {None}],
            eager : [Bodies -> BOOLEAN], rettype : [Bodies -> Types \cup {None}],
            top : Bodies, notEntry : BOOLEAN]

\* A line names the variables its op needs, and no argument where there is no call.
Complete(l) == /\ l.op \in {"use", "set", "heap", "fun", "call", "retcall"} => l.x # None
               /\ l.op = "fun" => l.y = None

WellFormed(p) == /\ p \in Program
                 /\ \A b \in Bodies : \A i \in DOMAIN p.body[b] : Complete(p.body[b][i])

ASSUME TypesAssumption    == {Void, I32} \subseteq Types /\ None \notin Types
ASSUME NamesAssumption    == None \notin Names
ASSUME ProgramsAssumption == \A p \in Programs : WellFormed(p)
ASSUME DepthAssumption    == MaxDepth \in Nat \ {0, 1}

VARIABLES
  prog,    \* the program being translated; never changes
  stack,   \* evaluations in progress, innermost last
  ip,      \* builder_.GetInsertBlock(); the builder always appends
  scope,   \* thisScope_->symbols()
  blocks,  \* the basic blocks of the module, by id
  fns,     \* the functions of the module, by id
  nblk,    \* ids of blocks given out so far
  nfn,     \* ids of functions given out so far
  gc,      \* "gc" \in module_->link_libraries_
  decl,    \* the module declares GC_malloc
  last,    \* what the line visited last gave: nullptr, a value, one with a ret_table
  tables,  \* the functions whose survey has come upon a ret_table
  status

vars == <<prog, stack, ip, scope, blocks, fns, nblk, nfn, gc, decl, last, tables, status>>

----------------------------------------------------------------------------
(* Instructions, blocks and symbols.                                        *)

Kinds == {"alloca", "load", "store", "call", "ccall", "gcinit", "br", "ret", "retvoid"}
Terminators == {"ret", "retvoid", "br"}

\* ref: the blocks branched to, or the block of the variable used.
\* fn: the function mentioned; 0 stands for a prototype that is in no module.
Instr == [k : Kinds, ty : Types, ref : SUBSET Nat, fn : SUBSET Nat]

Plain(k)     == [k |-> k, ty |-> Void, ref |-> {}, fn |-> {}]
Refer(k, bs) == [k |-> k, ty |-> Void, ref |-> bs, fn |-> {}]
Ret(t)       == [k |-> "ret", ty |-> t, ref |-> {}, fn |-> {}]
CallOf(f, t) == [k |-> "call", ty |-> t, ref |-> {}, fn |-> {f}]

Block == [fn : Nat, code : Seq(Instr)]
Fn    == [pass : {"main", "survey", "real"}, rty : Types]

\* A symbol: a variable with the block of its storage (slot; ptr when it holds a
\* function, tab when that one has a ret_table), or a lazy function with the
\* survey flag of its AST (fn).
Symbol == [k : {"none", "slot"}, at : Nat]
          \cup [k : {"ptr"}, at : Nat, ty : Types, takes : BOOLEAN, tab : BOOLEAN]
          \cup [k : {"fn"}, at : Bodies, mark : BOOLEAN]
Absent    == [k |-> "none", at |-> 0]
SlotIn(b) == [k |-> "slot", at |-> b]
PtrIn(b, t, takes, tab) == [k |-> "ptr", at |-> b, ty |-> t, takes |-> takes, tab |-> tab]

NoSymbols == [x \in Names |-> Absent]

Create(bs, ids, f) ==
  [b \in DOMAIN bs \cup ids |-> IF b \in ids THEN [fn |-> f, code |-> << >>] ELSE bs[b]]
AppendTo(bs, b, is) == [bs EXCEPT ![b].code = @ \o is]
Erase(bs, ids)     == [b \in DOMAIN bs \ ids |-> bs[b]]
BlocksOf(f)        == {b \in DOMAIN blocks : blocks[b].fn = f}

\* Slip: a block that ends in a branch counts as one that falls through.
EndsInReturn(b) == \E i \in DOMAIN blocks[b].code : blocks[b].code[i].k \in {"ret", "retvoid"}

\* The test apply_bb ends with.
HasTerminator(b) == \E i \in DOMAIN blocks[b].code : blocks[b].code[i].k \in Terminators

\* Slip: only the entry block is searched for the returned values.
RetTypesOfEntry(f) ==
  UNION {{blocks[b].code[i].ty : i \in {j \in DOMAIN blocks[b].code : blocks[b].code[j].k = "ret"}}
           : b \in {c \in BlocksOf(f) : \A d \in BlocksOf(f) : c <= d}}

\* The types of the values returned in any block of f.
RetTypes(f) ==
  UNION {{blocks[b].code[i].ty : i \in {j \in DOMAIN blocks[b].code : blocks[b].code[j].k = "ret"}}
           : b \in BlocksOf(f)}

----------------------------------------------------------------------------
(* Frames.  kind: which routine is running.  survey: set_survey has marked   *)
(* the literals written here.  mark: the evaluated literal was itself marked.*)
(* pb, prev: the insert block and the scope saved on the way in.             *)
(* one, two, next: the blocks the routine has created and still needs        *)
(* (theblock and nb; thenbb, elsebb and mergebb); for main, next is the      *)
(* function written for the top-level value.                                 *)

Frame == [kind : {"main", "fn", "scope", "then", "else", "import"},
          body : Bodies, pos : Nat, survey : BOOLEAN, mark : BOOLEAN, fn : Nat,
          pb : Nat, prev : [Names -> Symbol], one : Nat, two : Nat, next : Nat,
          used : BOOLEAN]

Top        == stack[Len(stack)]
Caller     == stack[Len(stack) - 1]
Below      == SubSeq(stack, 1, Len(stack) - 1)
Lines(f)   == IF f.kind = "main" THEN << >> ELSE prog.body[f.body]
LineOf(f)  == Lines(f)[f.pos]
Cur        == LineOf(Top)
AtLine(op) == /\ status = "run"
              /\ Top.pos \in DOMAIN Lines(Top)
              /\ Cur.op = op
AtEnd(kind) == /\ status = "run"
               /\ Top.kind = kind
               /\ Top.pos = Len(Lines(Top)) + 1

\* Go on with the next line of frame i of s.
Advance(s, i) == [s EXCEPT ![i].pos = @ + 1]

\* The innermost routine is over: its caller goes on with the next line.
Pop == stack' = Advance(Below, Len(stack) - 1)

\* A line of frame f gives v.  Only the loop of a survey pass looks at it, for
\* the ret_table of its function.
Yields(f, v) ==
  /\ last' = v
  /\ tables' = tables \cup {g \in {f.fn} : f.kind = "fn" /\ f.survey /\ v = "table"}

Stop(s) == /\ status' = s
           /\ UNCHANGED <<prog, stack, ip, scope, blocks, fns, nblk, nfn, gc, decl, last, tables>>

Throw == Stop("error")

\* The compiler follows a null pointer.
Crash == Stop("crash")

----------------------------------------------------------------------------
Init ==
  /\ prog \in Programs
  /\ stack = <<[kind |-> "main", body |-> prog.top, pos |-> 1, survey |-> FALSE,
                mark |-> FALSE, fn |-> 1, pb |-> 1, prev |-> NoSymbols,
                one |-> 1, two |-> 0, next |-> 0, used |-> FALSE]>>
  /\ ip = 1
  /\ scope = NoSymbols
  /\ blocks = [b \in {1} |-> [fn |-> 1, code |-> << >>]]
  /\ fns = [f \in {1} |-> [pass |-> "main", rty |-> I32]]
  /\ nblk = 1
  /\ nfn = 1
  /\ gc = FALSE
  /\ decl = FALSE
  /\ last = "null"
  /\ tables = {}
  /\ status = "run"

----------------------------------------------------------------------------
(* Lines that leave the builder where it is.                                 *)

Emit(is) == /\ blocks' = AppendTo(blocks, ip, is)
            /\ stack' = Advance(stack, Len(stack))
            /\ UNCHANGED <<prog, ip, fns, nblk, nfn, status>>

\* A variable: not found is an error; a lazy value is returned without a load.
Use == /\ AtLine("use")
       /\ \/ /\ scope[Cur.x].k = "none"
             /\ Throw
          \/ /\ scope[Cur.x].k \in {"slot", "ptr"}
             /\ Emit(<<Refer("load", {scope[Cur.x].at})>>)
             /\ Yields(Top, IF scope[Cur.x].k = "ptr" /\ scope[Cur.x].tab THEN "table" ELSE "plain")
             /\ UNCHANGED <<scope, gc, decl>>
          \/ /\ scope[Cur.x].k = "fn"
             /\ Emit(<< >>)
             /\ Yields(Top, "plain")
             /\ UNCHANGED <<scope, gc, decl>>

\* An assignment of a number: declares the variable in thisScope_ when it is
\* not found there; copyFull refuses to store it where a function is kept.
Set == /\ AtLine("set") \/ AtLine("heap")
       /\ \/ /\ scope[Cur.x].k = "none"
             /\ Cur.op = "set"
             /\ Emit(<<Plain("alloca"), Refer("store", {ip})>>)
             /\ scope' = [scope EXCEPT ![Cur.x] = SlotIn(ip)]
             /\ Yields(Top, "plain")
             /\ UNCHANGED <<gc, decl>>
          \/ /\ scope[Cur.x].k = "slot"
             /\ Emit(<<Refer("store", {scope[Cur.x].at})>>)
             /\ Yields(Top, "plain")
             /\ UNCHANGED <<scope, gc, decl>>
          \/ /\ scope[Cur.x].k \in {"ptr", "fn"}
             /\ Throw

\* Slip: the library is not noted, and every allocation initialises the collector again.
NotLinked == gc' = gc /\ decl' = TRUE

LinkGC == gc' = TRUE /\ decl' = TRUE

\* insertGCInitInMain: into the entry block of main, whatever function is being written.
InitGC(bs) == AppendTo(bs, 1, <<Plain("gcinit")>>)

\* createGCMalloc: unless the library was asked for already, the collector is
\* initialised.
Heap == /\ AtLine("heap")
        /\ scope[Cur.x].k = "none"
        /\ gc => decl
        /\ blocks' = AppendTo(IF gc THEN blocks ELSE InitGC(blocks),
                             ip, <<Plain("ccall"), Refer("store", {ip})>>)
        /\ scope' = [scope EXCEPT ![Cur.x] = SlotIn(ip)]
        /\ LinkGC
        /\ stack' = Advance(stack, Len(stack))
        /\ Yields(Top, "plain")
        /\ UNCHANGED <<prog, ip, fns, nblk, nfn, status>>

\* The library was asked for by an import whose file does not declare GC_malloc.
HeapCrash == AtLine("heap") /\ scope[Cur.x].k = "none" /\ gc /\ ~decl /\ Crash

AtHeader == AtLine("header") \/ AtLine("link") \/ AtLine("gclink")

\* importIR: a structure of the functions the file declares; #link is noted first.
ImportHeader == /\ AtHeader
                /\ Emit(<<Plain("alloca"), Refer("store", {ip})>>)
                /\ gc' = IF Cur.op = "header" THEN gc ELSE TRUE
                /\ decl' = IF Cur.op = "link" THEN decl ELSE TRUE
                /\ Yields(Top, "plain")
                /\ UNCHANGED scope

\* Slip: set_survey marks the literal itself, not a copy.
MarkedInPlace == TRUE

\* The survey flag of a literal: set in a line of a surveyed body, not in the
\* scopes of that body, since set_survey does not enter a scope literal.
Marked == Top.survey

\* A lazy function literal is bound as it is, over whatever the name held.
Bind == /\ AtLine("fun")
        /\ ~prog.eager[Cur.a]
        /\ Emit(IF scope[Cur.x].k = "none" THEN <<Plain("alloca")>> ELSE << >>)
        /\ scope' = [scope EXCEPT ![Cur.x] = [k |-> "fn", at |-> Cur.a, mark |-> Marked]]
        /\ Yields(Top, "plain")
        /\ UNCHANGED <<gc, decl>>

Return == /\ AtLine("ret")
          /\ Emit(<<Ret(Cur.ty)>>)
          /\ Yields(Top, "table")
          /\ UNCHANGED <<scope, gc, decl>>

\* |> @self(..): the call has the type declared for the function being written.
\* The translator of an imported file has no __self of its own.
ReturnSelf == /\ AtLine("retself")
              /\ IF \E i \in DOMAIN stack : stack[i].kind = "import" /\ stack[i].fn = Top.fn
                   THEN Throw
                   ELSE /\ Emit(<<Plain("load"), CallOf(Top.fn, fns[Top.fn].rty), Ret(fns[Top.fn].rty)>>)
                        /\ Yields(Top, "table")
                        /\ UNCHANGED <<scope, gc, decl>>

\* Any other line that is refused: an unknown @name, an import of no file or of one
\* that cannot be read.
Bad == AtLine("bad") /\ Throw

\* The conditional operator on values: both branches store into one slot.
Select ==
  /\ AtLine("select")
  /\ LET t == nblk + 1
         e == nblk + 2
         m == nblk + 3
         bs == Create(blocks, {t, e, m}, blocks[ip].fn)
         arm == <<Refer("store", {ip}), Refer("br", {m})>>
     IN /\ blocks' = AppendTo(AppendTo(AppendTo(AppendTo(bs, t, arm), e, arm),
                                     ip, <<Plain("alloca"), Refer("br", {t, e})>>),
                             m, <<Refer("load", {ip})>>)
        /\ ip' = m
        /\ nblk' = m
  /\ stack' = Advance(stack, Len(stack))
  /\ Yields(Top, "plain")
  /\ UNCHANGED <<prog, scope, fns, nfn, gc, decl, status>>

----------------------------------------------------------------------------
(* Function literals and calls: evaluator::operator()(ast::function const&). *)

\* Slip: the parameter is the caller's variable, not a copy of it.
FormalsShared(b, arg, entry) == [x \in Names |-> IF x # prog.param[b] THEN Absent ELSE arg]

\* Slip: the body also sees the variables of its caller, as a scope does.
FormalsDynamic(b, arg, entry) == [x \in Names |-> IF x # prog.param[b] THEN scope[x] ELSE SlotIn(entry)]

\* The symbols a function body starts with: its parameter only.
Formals(b, arg, entry) ==
  [x \in Names |-> IF x # prog.param[b] THEN Absent
                   ELSE CASE arg.k = "fn"  -> arg
                          [] arg.k = "ptr" -> PtrIn(entry, arg.ty, arg.takes, arg.tab)
                          [] OTHER         -> SlotIn(entry)]

\* Slip: no default when the literal declares no return type.
DeclaredOnly(b) == prog.rettype[b]

DeclaredType(b) == IF prog.rettype[b] = None THEN Void ELSE prog.rettype[b]

\* Push the frame of the survey pass of body b, called with arg, after emitting before.
Survey(b, mark, arg, before) ==
  LET entry == nblk + 1
      f     == nfn + 1
  IN /\ stack' = Append(stack, [kind |-> "fn", body |-> b, pos |-> 1, survey |-> TRUE,
                                mark |-> mark, fn |-> f, pb |-> ip, prev |-> scope,
                                one |-> entry, two |-> 0, next |-> 0, used |-> FALSE])
     /\ blocks' = AppendTo(Create(AppendTo(blocks, ip, before), {entry}, f), entry, <<Plain("alloca")>>)
     /\ fns' = [g \in DOMAIN fns \cup {f} |->
                  IF g = f THEN [pass |-> "survey", rty |-> DeclaredType(b)] ELSE fns[g]]
     /\ scope' = Formals(b, arg, entry)
     /\ ip' = entry
     /\ nblk' = entry
     /\ nfn' = f
     /\ UNCHANGED <<prog, gc, decl, last, tables, status>>

\* The value of a line's argument, in the symbols s.
ArgOf(l, s) == IF l.y = None THEN Absent ELSE s[l.y]
Loads(sym)  == IF sym.k \in {"slot", "ptr"} THEN <<Refer("load", {sym.at})>> ELSE << >>
Room        == Len(stack) < MaxDepth

\* The scratch variables of an eager literal's parameters, loaded where it is written.
Scratch(b) == IF prog.param[b] = None THEN << >> ELSE <<Plain("alloca"), Plain("load")>>

\* A literal whose parameters are all typed is evaluated where it is written.
EvalLiteral == /\ AtLine("fun")
               /\ prog.eager[Cur.a]
               /\ Room
               /\ Survey(Cur.a, Marked, Absent, Scratch(Cur.a))

AtCall == AtLine("call") \/ AtLine("retcall")

\* A function is called, with what it takes: a lazy one with any argument, one
\* behind a pointer with a number.
Callable ==
  LET callee == scope[Cur.x]
      arg    == ArgOf(Cur, scope)
      given  == Cur.y # None
  IN /\ given => arg.k # "none"
     /\ \/ callee.k = "fn"  /\ given = (prog.param[callee.at] # None)
        \/ callee.k = "ptr" /\ given = callee.takes /\ (given => arg.k = "slot")

CallError == AtCall /\ ~Callable /\ Throw

CallPointer ==
  /\ AtCall
  /\ Callable
  /\ scope[Cur.x].k = "ptr"
  /\ LET callee == scope[Cur.x]
     IN Emit(Loads(callee) \o Loads(ArgOf(Cur, scope)) \o <<[Plain("call") EXCEPT !.ty = callee.ty]>>
               \o (IF Cur.op = "retcall" THEN <<Ret(callee.ty)>> ELSE << >>))
  /\ Yields(Top, IF Cur.op = "retcall" THEN "table" ELSE "plain")
  /\ UNCHANGED <<scope, gc, decl>>

\* A call of a lazy function evaluates it for these arguments.
CallLazy ==
  /\ AtCall
  /\ Callable
  /\ scope[Cur.x].k = "fn"
  /\ Room
  /\ LET arg == ArgOf(Cur, scope)
     IN Survey(scope[Cur.x].at, scope[Cur.x].mark, arg, Loads(arg))

\* The top-level value: a function literal, evaluated where it is written, or by
\* createMainRet with the arguments of main.
EnterTop ==
  /\ status = "run"
  /\ Top.kind = "main"
  /\ Top.pos = 1
  /\ IF prog.notEntry /\ ~prog.eager[prog.top]
       THEN Throw
       ELSE Survey(prog.top, FALSE, Absent, IF prog.eager[prog.top] THEN Scratch(prog.top) ELSE << >>)

\* The recursion has no bound of its own: a program that passes a function to
\* itself exhausts the C++ stack.
Overflow ==
  /\ status = "run"
  /\ ~Room
  /\ \/ AtLine("fun") /\ prog.eager[Cur.a]
     \/ AtCall /\ Callable /\ scope[Cur.x].k = "fn"
     \/ AtLine("scope") \/ AtLine("cond") \/ AtLine("import")
  /\ Stop("overflow")

\* The type of the returned values, void when nothing is returned.
Surveyed(f) == IF RetTypes(f) = {} THEN {Void} ELSE RetTypes(f)

SurveyFails == \/ \E s, t \in Surveyed(Top.fn) : s # t
               \/ prog.rettype[Top.body] # None /\ Surveyed(Top.fn) # {prog.rettype[Top.body]}

\* A function may be stored over the variable sym, when there is one, if it has the same signature.
Assignable(sym, t, takes) == sym.k = "none" \/ (sym.k = "ptr" /\ sym.ty = t /\ sym.takes = takes)

\* Slip: the builder stays in the function just written.
NotRestored == ip' = ip

\* builder_.SetInsertPoint(pb, pp) at the end of an evaluation.
Restored == ip' = Top.pb

\* The caller of the innermost function goes on, in bs, with the function f of type t.
ReturnTo(bs, f, t) ==
  LET l     == LineOf(Caller)
      takes == prog.param[Top.body] # None
      tab   == Top.fn \in tables
      old   == Top.prev[l.x]
      home  == IF old.k = "ptr" THEN old.at ELSE Top.pb
      call  == <<CallOf(f, t)>>
      store == <<[Refer("store", {home}) EXCEPT !.fn = {f}]>>
  IN /\ Restored
     /\ \/ /\ Caller.kind = "main"
           /\ blocks' = bs
           /\ stack' = [Below EXCEPT ![1] = [@ EXCEPT !.pos = 2, !.next = f]]
           /\ scope' = Top.prev
           /\ UNCHANGED <<last, tables, status>>
        \/ /\ Caller.kind # "main"
           /\ l.op # "fun"
           /\ blocks' = AppendTo(bs, Top.pb, IF l.op = "retcall" THEN call \o <<Ret(t)>> ELSE call)
           /\ Pop
           /\ scope' = Top.prev
           /\ Yields(Caller, IF l.op = "retcall" THEN "table" ELSE "plain")
           /\ UNCHANGED status
        \/ /\ Caller.kind # "main"
           /\ l.op = "fun"
           /\ Assignable(old, t, takes)
           /\ blocks' = AppendTo(bs, Top.pb, IF old.k = "ptr" THEN store ELSE <<Plain("alloca")>> \o store)
           /\ Pop
           /\ scope' = [Top.prev EXCEPT ![l.x] = PtrIn(home, t, takes, tab)]
           /\ Yields(Caller, IF tab THEN "table" ELSE "plain")
           /\ UNCHANGED status
        \/ /\ Caller.kind # "main"
           /\ l.op = "fun"
           /\ ~Assignable(old, t, takes)
           /\ blocks' = bs
           /\ Pop
           /\ scope' = Top.prev
           /\ status' = "error"
           /\ UNCHANGED <<last, tables>>

\* Slip: the survey function stays in the module.
Kept == fns

\* func->eraseFromParent().
Dismissed == [g \in DOMAIN fns \ {Top.fn} |-> fns[g]]

EndSurvey == AtEnd("fn") /\ Top.survey

SurveyError == EndSurvey /\ SurveyFails /\ Throw

\* A marked literal: the survey function is erased and a bare prototype, in no module, stands for it.
EndMarked ==
  /\ EndSurvey
  /\ ~SurveyFails
  /\ Top.mark
  /\ \E t \in Surveyed(Top.fn) : ReturnTo(Erase(blocks, BlocksOf(Top.fn)), 0, t)
  /\ fns' = Dismissed
  /\ UNCHANGED <<prog, nblk, nfn, gc, decl>>

\* Otherwise the body is translated again, with the same arguments, into the function that stays.
StartReal ==
  /\ EndSurvey
  /\ ~SurveyFails
  /\ ~Top.mark
  /\ LET entry == nblk + 1
         f     == nfn + 1
         arg   == IF Caller.kind = "main" THEN Absent ELSE ArgOf(LineOf(Caller), Top.prev)
     IN /\ blocks' = AppendTo(Create(Erase(blocks, BlocksOf(Top.fn)), {entry}, f), entry,
                             <<Plain("alloca"), [Plain("store") EXCEPT !.fn = {f}]>>)
        /\ \E t \in Surveyed(Top.fn) :
             fns' = [g \in DOMAIN Dismissed \cup {f} |->
                       IF g = f THEN [pass |-> "real", rty |-> t] ELSE fns[g]]
        /\ stack' = [stack EXCEPT ![Len(stack)] =
                       [@ EXCEPT !.pos = 1, !.survey = FALSE, !.fn = f, !.one = entry]]
        /\ scope' = Formals(Top.body, arg, entry)
        /\ ip' = entry
        /\ nblk' = entry
        /\ nfn' = f
        /\ tables' = tables \cup {g \in {f} : Top.fn \in tables}
  /\ UNCHANGED <<prog, gc, decl, last, status>>

EndReal ==
  /\ AtEnd("fn")
  /\ ~Top.survey
  /\ LET t == fns[Top.fn].rty
     IN ReturnTo(IF t = Void THEN AppendTo(blocks, ip, <<Plain("retvoid")>>) ELSE blocks, Top.fn, t)
  /\ UNCHANGED <<prog, fns, nblk, nfn, gc, decl>>

----------------------------------------------------------------------------
(* Scopes and conditionals: new blocks of the function being written.        *)

EnterScope ==
  /\ AtLine("scope")
  /\ Len(stack) < MaxDepth
  /\ LET nb       == nblk + 1
         theblock == nblk + 2
     IN /\ blocks' = Create(blocks, {nb, theblock}, blocks[ip].fn)
        /\ stack' = Append(stack, [kind |-> "scope", body |-> Cur.a, pos |-> 1,
                                   survey |-> FALSE, mark |-> FALSE, fn |-> Top.fn,
                                   pb |-> ip, prev |-> scope, one |-> theblock,
                                   two |-> 0, next |-> nb, used |-> FALSE])
        /\ ip' = theblock
        /\ nblk' = theblock
  /\ last' = "null"
  /\ UNCHANGED <<prog, scope, fns, nfn, gc, decl, tables, status>>

\* Slip: the builder is moved to nb whether or not it was erased.
AlwaysNext(non_rb) == Top.next

AfterScope(non_rb) == IF non_rb THEN Top.next ELSE Top.pb

\* An empty scope gives nullptr, and so does one that ends in a call of an empty
\* scope; a survey pass that has no ret_table yet looks for one there.
Fatal == last = "null" /\ Caller.kind = "fn" /\ Caller.survey /\ Caller.fn \notin tables

ScopeCrash == AtEnd("scope") /\ Fatal /\ Crash

\* Fall through to nb, unless the block reached already ends in a ret or a br: then nb is erased.
LeaveScope ==
  /\ AtEnd("scope")
  /\ ~Fatal
  /\ LET non_rb == ~HasTerminator(ip)
         bs == IF non_rb THEN AppendTo(blocks, ip, <<Refer("br", {Top.next})>>)
                         ELSE Erase(blocks, {Top.next})
     IN /\ blocks' = AppendTo(bs, Top.pb, <<Refer("br", {Top.one})>>)
        /\ ip' = AfterScope(non_rb)
  /\ scope' = Top.prev
  /\ Pop
  /\ Yields(Caller, last)
  /\ UNCHANGED <<prog, fns, nblk, nfn, gc, decl, status>>

EnterCond ==
  /\ AtLine("cond")
  /\ Len(stack) < MaxDepth
  /\ LET thenbb  == nblk + 1
         elsebb  == nblk + 2
         mergebb == nblk + 3
     IN /\ blocks' = Create(blocks, {thenbb, elsebb, mergebb}, blocks[ip].fn)
        /\ stack' = Append(stack, [kind |-> "then", body |-> Cur.a, pos |-> 1,
                                   survey |-> FALSE, mark |-> FALSE, fn |-> Top.fn,
                                   pb |-> ip, prev |-> scope, one |-> thenbb,
                                   two |-> elsebb, next |-> mergebb, used |-> FALSE])
        /\ ip' = thenbb
        /\ nblk' = mergebb
  /\ UNCHANGED <<prog, scope, fns, nfn, gc, decl, last, tables, status>>

\* A branch that can fall through goes to mergebb.
Fall == IF HasTerminator(ip) THEN blocks ELSE AppendTo(blocks, ip, <<Refer("br", {Top.next})>>)

EndThen ==
  /\ AtEnd("then")
  /\ blocks' = Fall
  /\ stack' = [stack EXCEPT ![Len(stack)] =
                 [@ EXCEPT !.kind = "else", !.body = LineOf(Caller).b, !.pos = 1,
                           !.used = ~HasTerminator(ip)]]
  /\ ip' = Top.two
  /\ scope' = Top.prev
  /\ UNCHANGED <<prog, fns, nblk, nfn, gc, decl, last, tables, status>>

\* Slip: the second branch alone decides whether mergebb stays.
MergeUsedByElse == ~HasTerminator(ip)

\* ~mergebbShouldBeErased: one branch at least falls through.
MergeUsed == Top.used \/ ~HasTerminator(ip)

EndElse ==
  /\ AtEnd("else")
  /\ LET used == MergeUsed
         bs   == IF used THEN Fall ELSE Erase(blocks, {Top.next})
     IN /\ blocks' = AppendTo(bs, Top.pb, <<Refer("br", {Top.one, Top.two})>>)
        /\ ip' = IF used THEN Top.next ELSE Top.pb
  /\ scope' = Top.prev
  /\ Pop
  /\ Yields(Caller, "plain")
  /\ UNCHANGED <<prog, fns, nblk, nfn, gc, decl, status>>

----------------------------------------------------------------------------
(* @import#m: another translator, with a copy of the builder, visits the      *)
(* file's expression in the same module.                                      *)

EnterImport ==
  /\ AtLine("import")
  /\ Len(stack) < MaxDepth
  /\ stack' = Append(stack, [kind |-> "import", body |-> Cur.a, pos |-> 1,
                             survey |-> FALSE, mark |-> FALSE, fn |-> Top.fn,
                             pb |-> ip, prev |-> scope, one |-> ip, two |-> 0,
                             next |-> 0, used |-> FALSE])
  /\ scope' = NoSymbols
  /\ last' = "null"
  /\ UNCHANGED <<prog, ip, blocks, fns, nblk, nfn, gc, decl, tables, status>>

\* A null value is taken for a file that cannot be opened.
ImportFails == AtEnd("import") /\ last = "null" /\ Throw

\* The importer's own builder has not moved.
LeaveImport ==
  /\ AtEnd("import")
  /\ last # "null"
  /\ ip' = Top.pb
  /\ scope' = Top.prev
  /\ Pop
  /\ Yields(Caller, last)
  /\ UNCHANGED <<prog, blocks, fns, nblk, nfn, gc, decl, status>>

----------------------------------------------------------------------------
(* createMainRet and module::verify.                                          *)

CreateMainRet ==
  /\ status = "run"
  /\ Top.kind = "main"
  /\ Top.pos = 2
  /\ IF prog.notEntry
       THEN /\ blocks' = Erase(blocks, BlocksOf(1))
            /\ fns' = [g \in DOMAIN fns \ {1} |-> fns[g]]
       ELSE /\ LET t == fns[Top.next].rty
               IN blocks' = AppendTo(blocks, ip, <<CallOf(Top.next, t), Ret(IF t = Void THEN I32 ELSE t)>>)
            /\ UNCHANGED fns
  /\ status' = "built"
  /\ UNCHANGED <<prog, stack, ip, scope, nblk, nfn, gc, decl, last, tables>>

Entry(f) == CHOOSE b \in BlocksOf(f) : \A c \in BlocksOf(f) : b <= c

Successors(b) == UNION {blocks[b].code[i].ref : i \in {j \in DOMAIN blocks[b].code : blocks[b].code[j].k = "br"}}

\* The blocks of f reached from its entry without going through the blocks in cut.
Reach(f, cut) ==
  LET go[n \in 0..nblk, seen \in SUBSET Nat] ==
        IF n = 0 THEN seen
        ELSE go[n - 1, seen \cup (UNION {Successors(b) : b \in seen \cap DOMAIN blocks} \ cut)]
  IN go[nblk, {Entry(f)} \ cut]

\* What the LLVM verifier requires of block b.
ValidBlock(b) ==
  LET code == blocks[b].code
      f    == blocks[b].fn
  IN /\ {i \in DOMAIN code : code[i].k \in Terminators} = {Len(code)}
     /\ \A i \in DOMAIN code :
          /\ code[i].ref \subseteq BlocksOf(f)
          /\ code[i].fn \subseteq DOMAIN fns
          /\ code[i].k = "ret" => code[i].ty = fns[f].rty /\ code[i].ty # Void
          /\ code[i].k = "retvoid" => fns[f].rty = Void
          /\ code[i].k # "br" => \A s \in code[i].ref : b \notin Reach(f, {s})

\* module::verify: invalid IR is reported as a bug of the compiler.
Verify ==
  /\ status = "built"
  /\ Stop(IF \A b \in DOMAIN blocks : ValidBlock(b) THEN "ok" ELSE "bug")

Finished == /\ status \in {"ok", "bug", "error", "overflow", "crash"}
            /\ UNCHANGED vars

----------------------------------------------------------------------------
Next == \/ Use \/ Set \/ Heap \/ HeapCrash \/ ImportHeader \/ Bind \/ Return \/ ReturnSelf \/ Bad \/ Select
        \/ EvalLiteral \/ CallError \/ CallPointer \/ CallLazy \/ EnterTop \/ Overflow
        \/ SurveyError \/ EndMarked \/ StartReal \/ EndReal
        \/ EnterScope \/ ScopeCrash \/ LeaveScope \/ EnterCond \/ EndThen \/ EndElse
        \/ EnterImport \/ ImportFails \/ LeaveImport
        \/ CreateMainRet \/ Verify \/ Finished

\* One thread that does not stop by itself.
Spec == Init /\ [][Next]_vars /\ WF_vars(Next)

----------------------------------------------------------------------------
(* Properties.                                                               *)

\* The variables keep their types; block and function ids are fresh when created.
TypeOK ==
  /\ WellFormed(prog)
  /\ stack \in Seq(Frame)
  /\ ip \in Nat
  /\ scope \in [Names -> Symbol]
  /\ nblk \in Nat
  /\ nfn \in Nat
  /\ blocks \in [DOMAIN blocks -> Block]
  /\ DOMAIN blocks \subseteq 1..nblk
  /\ fns \in [DOMAIN fns -> Fn]
  /\ DOMAIN fns \subseteq 1..nfn
  /\ gc \in BOOLEAN
  /\ decl \in BOOLEAN
  /\ last \in {"null", "plain", "table"}
  /\ tables \subseteq Nat
  /\ status \in {"run", "built", "ok", "bug", "error", "overflow", "crash"}

\* The builder stands in a block of the function being written, and the blocks
\* saved to come back to are still there: no routine restores an insert point
\* that was erased in between (evaluator.cpp:268, 300; translator_operators.cpp:652).
InsertPointsAlive ==
  status = "run" =>
    /\ ip \in BlocksOf(Top.fn)
    /\ \A j \in 2..Len(stack) : stack[j].pb \in BlocksOf(stack[j - 1].fn)

Local(symbols, f) == \A x \in Names : symbols[x].k \in {"slot", "ptr"} => symbols[x].at \in BlocksOf(f)

\* A variable that can be named lives in the function being written: thisScope_
\* never shows storage of a caller, of a callee, or of an erased survey function.
SlotsLocal ==
  status = "run" =>
    /\ Local(scope, Top.fn)
    /\ \A j \in 2..Len(stack) : Local(stack[j].prev, stack[j - 1].fn)

\* No instruction mentions a block that was erased or that belongs to another
\* function: nb and mergebb are erased only when nothing branches to them, a
\* survey function only when nothing outside it uses its blocks.
RefsAlive ==
  \A b \in DOMAIN blocks : \A i \in DOMAIN blocks[b].code :
    blocks[b].code[i].ref \subseteq BlocksOf(blocks[b].fn)

\* The throw-away functions in the module are those of the survey passes in progress.
SurveysErased ==
  status # "error" =>
    {f \in DOMAIN fns : fns[f].pass = "survey"}
      = {stack[i].fn : i \in {j \in 1..Len(stack) : stack[j].kind = "fn" /\ stack[j].survey}}

\* What a real pass returns has the type its survey found (evaluator.cpp:226).
SurveyAgrees ==
  \A b \in DOMAIN blocks :
    fns[blocks[b].fn].pass = "real" =>
      \A i \in DOMAIN blocks[b].code :
        blocks[b].code[i].k = "ret" => blocks[b].code[i].ty = fns[blocks[b].fn].rty

\* Functions mentioned in the code of f.
Mentions(f) == UNION {UNION {blocks[b].code[i].fn : i \in DOMAIN blocks[b].code} : b \in BlocksOf(f)}

\* The functions in fs are in the module, written for real, and mention none but each other.
Linked(fs) == /\ fs \subseteq DOMAIN fns
              /\ \A f \in fs : fns[f].pass = "real" /\ Mentions(f) \subseteq fs

\* The program that runs is complete: every function reached from the entry is in
\* the module, written for real, even when survey passes left other functions behind.
ProgramComplete ==
  status \in {"built", "ok", "bug"} =>
    \E fs \in SUBSET DOMAIN fns : stack[1].next \in fs /\ Linked(fs)

Positions(b, k) == {i \in DOMAIN blocks[b].code : blocks[b].code[i].k = k}

\* Some import says #link:gc.
Asks == \E b \in Bodies : \E i \in DOMAIN prog.body[b] : prog.body[b][i].op \in {"link", "gclink"}

\* The collector is initialised at most once, before main calls the user's function,
\* though a survey pass may be what asked for it first, and it is linked and not
\* initialised only in a program that says #link:gc (createGCMalloc takes the
\* library for the initialisation; not when main itself is dropped: see not-entry).
GCReady ==
  (status # "run" /\ 1 \in DOMAIN blocks) =>
    /\ Cardinality(Positions(1, "gcinit")) <= IF gc THEN 1 ELSE 0
    /\ gc /\ ~Asks => Positions(1, "gcinit") # {}
    /\ \A i \in Positions(1, "gcinit") : \A j \in Positions(1, "call") : i < j

\* A function that is not being written any more is never touched again; main
\* alone may still be given its GC_init.
FinishedUntouched ==
  [][\A b \in DOMAIN blocks :
       blocks[b].fn \notin {stack[i].fn : i \in 1..Len(stack)} =>
         b \in DOMAIN blocks' /\ blocks'[b] = blocks[b]]_vars

=============================================================================
