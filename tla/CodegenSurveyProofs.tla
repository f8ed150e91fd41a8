------------------------ MODULE CodegenSurveyProofs ------------------------
(***************************************************************************)
(* What a real pass returns has the type its survey found.  The proof is   *)
(* that translation is deterministic: the kinds of the symbols, and so the *)
(* types returned, at each line of a body depend only on the kinds of the  *)
(* symbols the body starts with.  A table of what is known of bodies that  *)
(* were translated, in full or in part, is kept along the run; every       *)
(* translation in progress follows it, whichever pass it belongs to.       *)
(***************************************************************************)
EXTENDS CodegenStorageProofs

----------------------------------------------------------------------------
(* Symbols without what differs from one pass to the other.                  *)

\* A symbol without the block of its storage and the mark of its literal.
Bare(sym) ==
  CASE sym.k = "fn"   -> [k |-> "fn", at |-> sym.at, mark |-> FALSE]
    [] sym.k = "ptr"  -> PtrIn(0, sym.ty, sym.takes, FALSE)
    [] sym.k = "slot" -> SlotIn(0)
    [] OTHER          -> Absent

Bared(symbols) == [x \in Names |-> Bare(symbols[x])]

\* The bare symbols body b of P starts with when it is called with arg.
Opening(P, b, arg) ==
  [x \in Names |-> IF x # P.param[b] THEN Absent
                   ELSE IF arg.k \in {"fn", "ptr"} THEN Bare(arg) ELSE SlotIn(0)]

\* A bare symbol is a symbol of the same kind, and bare for good.
LEMMA BareFacts ==
  ASSUME NEW s \in Symbol
  PROVE  /\ Bare(s) \in Symbol /\ Bare(s).k = s.k
         /\ s.k = "fn" => Bare(s).at = s.at
         /\ s.k = "ptr" => Bare(s).ty = s.ty /\ Bare(s).takes = s.takes
         /\ Bare(Bare(s)) = Bare(s)
<1>1. CASE s.k = "fn"
  <2>1. s.at \in Bodies BY <1>1, SymbolFields
  <2>2. Bare(s) = [k |-> "fn", at |-> s.at, mark |-> FALSE] BY <1>1 DEF Bare
  <2>. QED  BY <1>1, <2>1, <2>2 DEF Symbol, Bare
<1>2. CASE s.k = "ptr"
  <2>1. s.ty \in Types /\ s.takes \in BOOLEAN BY <1>2, SymbolFields
  <2>2. Bare(s) = PtrIn(0, s.ty, s.takes, FALSE) BY <1>2 DEF Bare
  <2>3. Bare(s) \in Symbol BY <2>1, <2>2, SymbolTypes
  <2>. QED  BY <1>2, <2>2, <2>3 DEF Bare, PtrIn
<1>3. CASE s.k = "slot"
  <2>1. Bare(s) = SlotIn(0) BY <1>3 DEF Bare
  <2>. QED  BY <1>3, <2>1, SymbolTypes DEF Bare, SlotIn
<1>4. CASE s.k = "none"
  <2>1. Bare(s) = Absent BY <1>4 DEF Bare
  <2>. QED  BY <1>4, <2>1, SymbolTypes DEF Bare, Absent
<1>. QED  BY <1>1, <1>2, <1>3, <1>4, SymbolFields

\* The bare symbols of a scope, one by one.
LEMMA BaredFacts ==
  ASSUME NEW s \in [Names -> Symbol]
  PROVE  /\ Bared(s) \in [Names -> Symbol]
         /\ \A x \in Names : Bared(s)[x] = Bare(s[x]) /\ Bared(s)[x].k = s[x].k
         /\ \A l : l.y \in Names \cup {None} => ArgOf(l, Bared(s)) = Bare(ArgOf(l, s))
<1>1. \A x \in Names : Bare(s[x]) \in Symbol /\ Bare(s[x]).k = s[x].k BY BareFacts
<1>2. Bared(s) \in [Names -> Symbol] BY <1>1 DEF Bared
<1>3. \A x \in Names : Bared(s)[x] = Bare(s[x]) BY DEF Bared
<1>4. Bare(Absent) = Absent BY DEF Bare, Absent
<1>5. ASSUME NEW l, l.y \in Names \cup {None} PROVE ArgOf(l, Bared(s)) = Bare(ArgOf(l, s))
  <2>1. CASE l.y = None BY <1>4, <2>1 DEF ArgOf
  <2>2. CASE l.y # None
    <3>1. l.y \in Names BY <1>5, <2>2
    <3>. QED  BY <1>3, <2>2, <3>1 DEF ArgOf
  <2>. QED  BY <2>1, <2>2
<1>. QED  BY <1>1, <1>2, <1>3, <1>5

\* Changing one symbol changes one bare symbol.
LEMMA BaredExcept ==
  ASSUME NEW s \in [Names -> Symbol], NEW x \in Names, NEW y
  PROVE  Bared([s EXCEPT ![x] = y]) = [Bared(s) EXCEPT ![x] = Bare(y)]
BY DEF Bared

\* No symbols, bare.
LEMMA BareNone == Bare(Absent) = Absent /\ Bared(NoSymbols) = NoSymbols /\ \A b : Bare(SlotIn(b)) = SlotIn(0)
<1>1. Bare(Absent) = Absent /\ \A b : Bare(SlotIn(b)) = SlotIn(0) BY DEF Bare, Absent, SlotIn
<1>. QED  BY <1>1 DEF Bared, NoSymbols

\* A body starts with the same kinds of symbols however its argument is stored or marked.
LEMMA OpeningBare ==
  ASSUME NEW b \in Bodies, NEW a \in Symbol, NEW e
  PROVE  Bared(Formals(b, a, e)) = Opening(prog, b, Bare(a))
<1>1. Bare(a).k = a.k /\ Bare(Bare(a)) = Bare(a) BY BareFacts
<1>2. ASSUME NEW x \in Names PROVE Bare(Formals(b, a, e)[x]) = Opening(prog, b, Bare(a))[x]
  <2>1. CASE x # prog.param[b] BY <2>1, BareNone DEF Formals, Opening
  <2>2. CASE x = prog.param[b]
    <3>0. Opening(prog, b, Bare(a))[x] = IF a.k \in {"fn", "ptr"} THEN Bare(a) ELSE SlotIn(0)
      BY <1>1, <2>2 DEF Opening
    <3>1. CASE a.k = "fn"
      <4>1. Formals(b, a, e)[x] = a BY <2>2, <3>1 DEF Formals
      <4>. QED  BY <3>0, <3>1, <4>1
    <3>2. CASE a.k = "ptr"
      <4>1. Formals(b, a, e)[x] = PtrIn(e, a.ty, a.takes, a.tab) BY <2>2, <3>2 DEF Formals
      <4>2. Bare(PtrIn(e, a.ty, a.takes, a.tab)) = PtrIn(0, a.ty, a.takes, FALSE) BY DEF Bare, PtrIn
      <4>3. Bare(a) = PtrIn(0, a.ty, a.takes, FALSE) BY <3>2 DEF Bare
      <4>. QED  BY <3>0, <3>2, <4>1, <4>2, <4>3
    <3>3. CASE a.k \notin {"fn", "ptr"}
      <4>1. Formals(b, a, e)[x] = SlotIn(e) BY <2>2, <3>3 DEF Formals
      <4>. QED  BY <3>0, <3>3, <4>1, BareNone
    <3>. QED  BY <3>1, <3>2, <3>3
  <2>. QED  BY <2>1, <2>2
<1>. QED  BY <1>2 DEF Bared, Opening

----------------------------------------------------------------------------
(* What is known of the bodies of a program P: a table m gives, for a body    *)
(* and the bare symbols it starts with, the lines known so far (those before  *)
(* n), the bare symbols before each line (tr) and the types of the values the *)
(* line returns (rs), other than by a call of @self.                          *)

\* All the lines of the body of k are known.
Over(P, m, k) == k \in DOMAIN m /\ m[k].n = Len(P.body[k[1]]) + 1

\* The types returned by the lines of k before line p.
RetsUpTo(m, k, p) == UNION {m[k].rs[q] : q \in 1..(p - 1)}

Rets(m, k) == RetsUpTo(m, k, m[k].n)

\* A survey of k finds the type t: the one declared, or that of the values returned.
HasType(P, m, k, t) ==
  /\ Over(P, m, k)
  /\ Rets(m, k) \subseteq {t}
  /\ IF P.rettype[k[1]] # None THEN t = P.rettype[k[1]] ELSE Rets(m, k) = {} => t = Void

\* Line l, where the symbols are s, evaluates a function.
Evaluates(P, l, s) == \/ l.op = "fun" /\ P.eager[l.a]
                      \/ l.op \in {"call", "retcall"} /\ s[l.x].k = "fn"

\* ... this one, with these symbols.
Callee(P, l, s) == LET b == IF l.op = "fun" THEN l.a ELSE s[l.x].at
                   IN <<b, Opening(P, b, ArgOf(l, s))>>

\* The bodies line l translates into the function at hand.
Parts(l, s) == CASE l.op = "scope"  -> {<<l.a, s>>}
                 [] l.op = "cond"   -> {<<l.a, s>>, <<l.b, s>>}
                 [] l.op = "import" -> {<<l.a, NoSymbols>>}
                 [] OTHER           -> {}

\* The symbols after a line that evaluates a function of type t.
Assigned(P, l, s, t) == IF l.op = "fun" THEN [s EXCEPT ![l.x] = PtrIn(0, t, P.param[l.a] # None, FALSE)] ELSE s

\* The symbols after another line, and the types of what it returns.
Altered(l, s) == IF l.op \in {"set", "heap"} /\ s[l.x].k = "none" THEN [s EXCEPT ![l.x] = SlotIn(0)]
                 ELSE IF l.op = "fun" THEN [s EXCEPT ![l.x] = [k |-> "fn", at |-> l.a, mark |-> FALSE]]
                 ELSE s
Returns(m, l, s) == IF l.op = "ret" THEN {l.ty}
                    ELSE IF l.op = "retcall" THEN {s[l.x].ty}
                    ELSE UNION {Rets(m, k) : k \in Parts(l, s)}

\* By the table, line l leads from the symbols s to t and returns values of the types R.
Explained(P, m, l, s, t, R) ==
  /\ \A k \in Parts(l, s) : Over(P, m, k)
  /\ IF Evaluates(P, l, s)
       THEN \E y : /\ HasType(P, m, Callee(P, l, s), y)
                   /\ t = Assigned(P, l, s, y)
                   /\ R = IF l.op = "retcall" THEN {y} ELSE {}
       ELSE t = Altered(l, s) /\ R = Returns(m, l, s)

Bounded(P, m) == \A k \in DOMAIN m : k[1] \in Bodies /\ m[k].n \in 1..(Len(P.body[k[1]]) + 1)

\* The table is made of what its own lines explain.
Table(P, m) ==
  /\ Bounded(P, m)
  /\ \A k \in DOMAIN m :
       /\ m[k].tr[1] = k[2]
       /\ \A p \in 1..(m[k].n - 1) : Explained(P, m, P.body[k[1]][p], m[k].tr[p], m[k].tr[p + 1], m[k].rs[p])

\* What m knows w knows as well.
Extends(m, w) ==
  \A k \in DOMAIN m :
    /\ k \in DOMAIN w /\ m[k].n <= w[k].n
    /\ \A p \in 1..m[k].n : w[k].tr[p] = m[k].tr[p]
    /\ \A p \in 1..(m[k].n - 1) : w[k].rs[p] = m[k].rs[p]

\* A table extends itself.
LEMMA ExtendsSelf == ASSUME NEW P, NEW m, Bounded(P, m) PROVE Extends(m, m)
<1>1. ASSUME NEW k \in DOMAIN m PROVE m[k].n <= m[k].n
  <2>1. m[k].n \in Int BY DEF Bounded
  <2>. QED  BY <2>1
<1>. QED  BY <1>1 DEF Extends

\* The body of a key is a sequence of lines.
LEMMA BodyLength ==
  ASSUME NEW P, WellFormed(P), NEW b \in Bodies
  PROVE  P.body[b] \in Seq(Line) /\ Len(P.body[b]) \in Nat /\ DOMAIN P.body[b] = 1..Len(P.body[b])
<1>1. P.body[b] \in Seq(Line) BY DEF WellFormed, Program
<1>. QED  BY <1>1, LenProperties

\* What is known in full does not change any more.
LEMMA OverKept ==
  ASSUME NEW P, WellFormed(P), NEW m, Bounded(P, m), NEW w, Bounded(P, w), Extends(m, w), NEW k, Over(P, m, k)
  PROVE  Over(P, w, k) /\ Rets(w, k) = Rets(m, k)
<1>1. k \in DOMAIN m /\ k \in DOMAIN w /\ k[1] \in Bodies BY DEF Over, Extends, Bounded
<1>2. Len(P.body[k[1]]) \in Nat BY <1>1, BodyLength
<1>3. m[k].n = Len(P.body[k[1]]) + 1 /\ m[k].n <= w[k].n /\ w[k].n \in 1..(Len(P.body[k[1]]) + 1)
  BY <1>1 DEF Over, Extends, Bounded
<1>4. w[k].n = m[k].n BY <1>2, <1>3
<1>5. \A p \in 1..(m[k].n - 1) : w[k].rs[p] = m[k].rs[p] BY <1>1 DEF Extends
<1>6. Rets(w, k) = Rets(m, k) BY <1>4, <1>5 DEF Rets, RetsUpTo
<1>. QED  BY <1>1, <1>3, <1>4, <1>6 DEF Over

\* ... nor its type.
LEMMA HasTypeKept ==
  ASSUME NEW P, WellFormed(P), NEW m, Bounded(P, m), NEW w, Bounded(P, w), Extends(m, w), NEW k, NEW t, HasType(P, m, k, t)
  PROVE  HasType(P, w, k, t)
<1>1. Over(P, m, k) BY DEF HasType
<1>2. Over(P, w, k) /\ Rets(w, k) = Rets(m, k) BY <1>1, OverKept
<1>. QED  BY <1>2 DEF HasType

\* A type is found once.
LEMMA HasTypeOnce ==
  ASSUME NEW P, NEW m, NEW k, NEW t, NEW u, HasType(P, m, k, t), HasType(P, m, k, u)
  PROVE  t = u
BY DEF HasType

\* What a table explains, a larger one does.
LEMMA ExplainedKept ==
  ASSUME NEW P, WellFormed(P), NEW m, Bounded(P, m), NEW w, Bounded(P, w), Extends(m, w),
         NEW l, NEW s, NEW t, NEW R, Explained(P, m, l, s, t, R)
  PROVE  Explained(P, w, l, s, t, R)
<1>1. \A k \in Parts(l, s) : Over(P, w, k) /\ Rets(w, k) = Rets(m, k) BY OverKept DEF Explained
<1>2. CASE Evaluates(P, l, s)
  <2>1. PICK y : /\ HasType(P, m, Callee(P, l, s), y)
                 /\ t = Assigned(P, l, s, y)
                 /\ R = IF l.op = "retcall" THEN {y} ELSE {}
    BY <1>2 DEF Explained
  <2>2. HasType(P, w, Callee(P, l, s), y) BY <2>1, HasTypeKept
  <2>. QED  BY <1>1, <1>2, <2>1, <2>2 DEF Explained
<1>3. CASE ~Evaluates(P, l, s)
  <2>1. t = Altered(l, s) /\ R = Returns(m, l, s) BY <1>3 DEF Explained
  <2>2. Returns(w, l, s) = Returns(m, l, s)
    <3>1. UNION {Rets(w, k) : k \in Parts(l, s)} = UNION {Rets(m, k) : k \in Parts(l, s)} BY <1>1
    <3>. QED  BY <3>1 DEF Returns
  <2>. QED  BY <1>1, <1>3, <2>1, <2>2 DEF Explained
<1>. QED  BY <1>2, <1>3

\* A line is explained in one way.
LEMMA ExplainedOnce ==
  ASSUME NEW P, NEW m, NEW l, NEW s, NEW t, NEW R, NEW u, NEW S,
         Explained(P, m, l, s, t, R), Explained(P, m, l, s, u, S)
  PROVE  t = u /\ R = S
<1>1. CASE Evaluates(P, l, s)
  <2>1. PICK y : /\ HasType(P, m, Callee(P, l, s), y)
                 /\ t = Assigned(P, l, s, y)
                 /\ R = IF l.op = "retcall" THEN {y} ELSE {}
    BY <1>1 DEF Explained
  <2>2. PICK z : /\ HasType(P, m, Callee(P, l, s), z)
                 /\ u = Assigned(P, l, s, z)
                 /\ S = IF l.op = "retcall" THEN {z} ELSE {}
    BY <1>1 DEF Explained
  <2>3. y = z BY <2>1, <2>2, HasTypeOnce
  <2>. QED  BY <2>1, <2>2, <2>3
<1>2. CASE ~Evaluates(P, l, s) BY <1>2 DEF Explained
<1>. QED  BY <1>1, <1>2

\* A body is met with symbols it may have been met with before.
LEMMA Meet ==
  ASSUME NEW P, WellFormed(P), NEW m, Table(P, m), NEW b \in Bodies, NEW s
  PROVE  \E w : Table(P, w) /\ Extends(m, w) /\ <<b, s>> \in DOMAIN w
<1> DEFINE k == <<b, s>>
           new == [n |-> 1, tr |-> [q \in Nat |-> s], rs |-> [q \in Nat |-> {}]]
           w == [j \in DOMAIN m \cup {k} |-> IF j \in DOMAIN m THEN m[j] ELSE new]
<1>0. Bounded(P, m) BY DEF Table
<1>1. k[1] = b /\ k[2] = s OBVIOUS
<1>2. DOMAIN w = DOMAIN m \cup {k} /\ (\A j \in DOMAIN m : w[j] = m[j]) /\ (k \notin DOMAIN m => w[k] = new) OBVIOUS
<1>3. new.n = 1 /\ new.tr[1] = s OBVIOUS
<1>. HIDE DEF k, new, w
<1>4. Extends(m, w)
  <2>1. Extends(m, m) BY <1>0, ExtendsSelf
  <2>. QED  BY <1>2, <2>1 DEF Extends
<1>5. Bounded(P, w)
  <2>1. ASSUME NEW j \in DOMAIN w PROVE j[1] \in Bodies /\ w[j].n \in 1..(Len(P.body[j[1]]) + 1)
    <3>1. CASE j \in DOMAIN m BY <1>0, <1>2, <3>1 DEF Bounded
    <3>2. CASE j \notin DOMAIN m
      <4>1. j = k /\ w[j].n = 1 BY <1>2, <1>3, <3>2
      <4>2. Len(P.body[b]) \in Nat BY BodyLength
      <4>. QED  BY <1>1, <4>1, <4>2
    <3>. QED  BY <3>1, <3>2
  <2>. QED  BY <2>1 DEF Bounded
<1>6. ASSUME NEW j \in DOMAIN w
      PROVE  /\ w[j].tr[1] = j[2]
             /\ \A p \in 1..(w[j].n - 1) : Explained(P, w, P.body[j[1]][p], w[j].tr[p], w[j].tr[p + 1], w[j].rs[p])
  <2>1. CASE j \in DOMAIN m
    <3>1. w[j] = m[j] BY <1>2, <2>1
    <3>2. /\ m[j].tr[1] = j[2]
          /\ \A p \in 1..(m[j].n - 1) : Explained(P, m, P.body[j[1]][p], m[j].tr[p], m[j].tr[p + 1], m[j].rs[p])
      BY <2>1 DEF Table
    <3>3. \A p \in 1..(m[j].n - 1) : Explained(P, w, P.body[j[1]][p], m[j].tr[p], m[j].tr[p + 1], m[j].rs[p])
      BY <1>0, <1>4, <1>5, <3>2, ExplainedKept
    <3>. QED  BY <3>1, <3>2, <3>3
  <2>2. CASE j \notin DOMAIN m
    <3>1. j = k /\ w[j].n = 1 /\ w[j].tr[1] = s BY <1>2, <1>3, <2>2
    <3>2. 1..(1 - 1) = {} OBVIOUS
    <3>. QED  BY <1>1, <3>1, <3>2
  <2>. QED  BY <2>1, <2>2
<1>7. Table(P, w) BY <1>5, <1>6 DEF Table
<1>8. k \in DOMAIN w BY <1>2
<1>. QED  BY <1>4, <1>7, <1>8 DEF k

\* The table has body k up to line p, with the symbols s there.
Reached(m, k, p, s) == k \in DOMAIN m /\ p <= m[k].n /\ m[k].tr[p] = s

\* Table w is m with line p of k, which leads to the symbols t and returns values of the types R.
Learnt(P, m, w, k, p, t, R) ==
  Table(P, w) /\ Extends(m, w) /\ Reached(w, k, p + 1, t) /\ w[k].rs[p] = R

\* A line is translated: the table knew it, and knew it just so, or learns it.
LEMMA Learn ==
  ASSUME NEW P, WellFormed(P), NEW m, Table(P, m), NEW k \in DOMAIN m, NEW p \in 1..m[k].n, p <= Len(P.body[k[1]]),
         NEW s, s = m[k].tr[p], NEW l, l = P.body[k[1]][p],
         NEW t, NEW R, Explained(P, m, l, s, t, R)
  PROVE  \E w : Learnt(P, m, w, k, p, t, R)
<1>0. Bounded(P, m) /\ Extends(m, m) BY ExtendsSelf DEF Table
<1>1. k[1] \in Bodies /\ Len(P.body[k[1]]) \in Nat /\ m[k].n \in 1..(Len(P.body[k[1]]) + 1)
  BY <1>0, BodyLength DEF Bounded
<1>2. p \in Nat /\ p >= 1 /\ p <= m[k].n /\ m[k].n \in Nat BY <1>1
<1>3. CASE p < m[k].n
  <2>1. p \in 1..(m[k].n - 1) /\ p + 1 <= m[k].n BY <1>2, <1>3
  <2>2. Explained(P, m, P.body[k[1]][p], m[k].tr[p], m[k].tr[p + 1], m[k].rs[p]) BY <2>1 DEF Table
  <2>3. m[k].tr[p + 1] = t /\ m[k].rs[p] = R BY <2>2, ExplainedOnce
  <2>. QED  BY <1>0, <2>1, <2>3 DEF Learnt, Reached
<1>4. CASE p = m[k].n
  <2> DEFINE new == [n |-> p + 1, tr |-> [q \in Nat |-> IF q = p + 1 THEN t ELSE m[k].tr[q]],
                                  rs |-> [q \in Nat |-> IF q = p THEN R ELSE m[k].rs[q]]]
             w == [j \in DOMAIN m |-> IF j = k THEN new ELSE m[j]]
  <2>1. /\ new.n = p + 1 /\ new.tr[p + 1] = t /\ new.rs[p] = R
        /\ \A q \in 1..p : new.tr[q] = m[k].tr[q]
        /\ \A q \in 1..(p - 1) : new.rs[q] = m[k].rs[q]
    BY <1>2
  <2>2. DOMAIN w = DOMAIN m /\ w[k] = new /\ \A j \in DOMAIN m : j # k => w[j] = m[j] OBVIOUS
  <2>. HIDE DEF new, w
  <2>3. Extends(m, w)
    <3>1. ASSUME NEW j \in DOMAIN m
          PROVE  /\ j \in DOMAIN w /\ m[j].n <= w[j].n
                 /\ \A q \in 1..m[j].n : w[j].tr[q] = m[j].tr[q]
                 /\ \A q \in 1..(m[j].n - 1) : w[j].rs[q] = m[j].rs[q]
      <4>1. CASE j = k
        <5>1. m[j].n = p /\ w[j] = new /\ p <= p + 1 BY <1>2, <1>4, <2>2, <4>1
        <5>. QED  BY <2>1, <2>2, <4>1, <5>1
      <4>2. CASE j # k BY <1>0, <2>2, <4>2 DEF Extends
      <4>. QED  BY <4>1, <4>2
    <3>. QED  BY <3>1 DEF Extends
  <2>4. Bounded(P, w)
    <3>1. ASSUME NEW j \in DOMAIN w PROVE j[1] \in Bodies /\ w[j].n \in 1..(Len(P.body[j[1]]) + 1)
      <4>1. CASE j = k
        <5>1. w[j].n = p + 1 /\ p + 1 \in 1..(Len(P.body[k[1]]) + 1) BY <1>1, <1>2, <2>1, <2>2, <4>1
        <5>. QED  BY <1>1, <4>1, <5>1
      <4>2. CASE j # k BY <1>0, <2>2, <4>2 DEF Bounded
      <4>. QED  BY <4>1, <4>2
    <3>. QED  BY <3>1 DEF Bounded
  <2>5. ASSUME NEW j \in DOMAIN w
        PROVE  /\ w[j].tr[1] = j[2]
               /\ \A q \in 1..(w[j].n - 1) : Explained(P, w, P.body[j[1]][q], w[j].tr[q], w[j].tr[q + 1], w[j].rs[q])
    <3>0. j \in DOMAIN m BY <2>2
    <3>1. /\ m[j].tr[1] = j[2]
          /\ \A q \in 1..(m[j].n - 1) : Explained(P, m, P.body[j[1]][q], m[j].tr[q], m[j].tr[q + 1], m[j].rs[q])
      BY <3>0 DEF Table
    <3>2. \A q \in 1..(m[j].n - 1) : Explained(P, w, P.body[j[1]][q], m[j].tr[q], m[j].tr[q + 1], m[j].rs[q])
      BY <1>0, <2>3, <2>4, <3>1, ExplainedKept
    <3>3. CASE j # k BY <2>2, <3>0, <3>1, <3>2, <3>3
    <3>4. CASE j = k
      <4>1. w[j] = new /\ m[j].n = p BY <1>4, <2>2, <3>4
      <4>2. new.tr[1] = j[2]
        <5>1. 1 \in 1..p BY <1>2
        <5>. QED  BY <2>1, <3>1, <3>4, <5>1
      <4>3. Explained(P, w, P.body[k[1]][p], m[k].tr[p], t, R) BY <1>0, <2>3, <2>4, ExplainedKept
      <4>4. new.tr[p] = m[k].tr[p]
        <5>1. p \in 1..p BY <1>2
        <5>. QED  BY <2>1, <5>1
      <4>5. ASSUME NEW q \in 1..(new.n - 1)
            PROVE  Explained(P, w, P.body[k[1]][q], new.tr[q], new.tr[q + 1], new.rs[q])
        <5>1. CASE q = p BY <2>1, <4>3, <4>4, <5>1
        <5>2. CASE q # p
          <6>1. q \in 1..(p - 1) /\ q \in 1..p /\ q + 1 \in 1..p BY <1>2, <2>1, <5>2
          <6>2. new.tr[q] = m[k].tr[q] /\ new.tr[q + 1] = m[k].tr[q + 1] /\ new.rs[q] = m[k].rs[q] BY <2>1, <6>1
          <6>. QED  BY <3>2, <3>4, <4>1, <6>1, <6>2
        <5>. QED  BY <5>1, <5>2
      <4>. QED  BY <3>4, <4>1, <4>2, <4>5
    <3>. QED  BY <3>3, <3>4
  <2>6. Table(P, w) BY <2>4, <2>5 DEF Table
  <2>7. p + 1 <= w[k].n /\ w[k].tr[p + 1] = t /\ w[k].rs[p] = R
    <3>1. p + 1 <= p + 1 BY <1>2
    <3>. QED  BY <2>1, <2>2, <3>1
  <2>. QED  BY <2>2, <2>3, <2>6, <2>7 DEF Learnt, Reached
<1>. QED  BY <1>2, <1>3, <1>4

----------------------------------------------------------------------------
(* The types of the values that code returns.                                 *)

\* The types of the values returned by code, and by function g of bs.
TypesIn(code) == {code[i].ty : i \in Spots(code, "ret")}
From(bs, g) == UNION {TypesIn(bs[b].code) : b \in Owned(bs, g)}

\* From bs to cs, function g returns values of the types E as well.
Adds(bs, cs, g, E) == From(cs, g) = From(bs, g) \cup E /\ \A h : h # g => From(cs, h) = From(bs, h)

\* The functions that have blocks in bs.
Owners(bs) == {bs[b].fn : b \in DOMAIN bs}

\* Nothing is returned in the blocks of hs.
Blank(bs, hs) == \A b \in hs : b \in DOMAIN bs => TypesIn(bs[b].code) = {}

\* Returned types, code after code.
LEMMA TypesCat ==
  ASSUME NEW s \in Seq(Instr), NEW t \in Seq(Instr)
  PROVE  TypesIn(s \o t) = TypesIn(s) \cup TypesIn(t)
<1>1. /\ \A i \in Spots(s, "ret") : i \in Spots(s \o t, "ret") /\ i <= Len(s)
      /\ \A i \in Spots(s \o t, "ret") : i \in Spots(s, "ret") \/ (i > Len(s) /\ i - Len(s) \in Spots(t, "ret"))
      /\ \A i \in Spots(t, "ret") : Len(s) + i \in Spots(s \o t, "ret")
  BY SpotsCat
<1>2. /\ \A i \in DOMAIN s : (s \o t)[i] = s[i]
      /\ \A i \in DOMAIN t : (s \o t)[Len(s) + i] = t[i]
      /\ Len(s) \in Nat /\ Len(t) \in Nat /\ DOMAIN t = 1..Len(t) /\ DOMAIN s = 1..Len(s)
  <2>1. Len(s) \in Nat /\ Len(t) \in Nat /\ DOMAIN t = 1..Len(t) /\ DOMAIN s = 1..Len(s) BY LenProperties
  <2>2. \A i \in 1..Len(s) : (s \o t)[i] = s[i] BY <2>1, ConcatProperties
  <2>3. \A i \in 1..Len(t) : (s \o t)[Len(s) + i] = t[i] BY <2>1, ConcatProperties
  <2>. QED  BY <2>1, <2>2, <2>3
<1>3. ASSUME NEW x \in TypesIn(s \o t) PROVE x \in TypesIn(s) \cup TypesIn(t)
  <2>1. PICK i \in Spots(s \o t, "ret") : x = (s \o t)[i].ty BY <1>3 DEF TypesIn
  <2>2. CASE i \in Spots(s, "ret")
    <3>1. (s \o t)[i] = s[i] BY <1>2, <2>2 DEF Spots
    <3>. QED  BY <2>1, <2>2, <3>1 DEF TypesIn
  <2>3. CASE i > Len(s) /\ i - Len(s) \in Spots(t, "ret")
    <3>1. i - Len(s) \in DOMAIN t BY <2>3 DEF Spots
    <3>2. i \in Nat
      <4>1. i \in DOMAIN (s \o t) BY DEF Spots
      <4>. QED  BY <1>2, <4>1, ConcatProperties
    <3>3. Len(s) + (i - Len(s)) = i BY <1>2, <3>2
    <3>4. (s \o t)[i] = t[i - Len(s)] BY <1>2, <3>1, <3>3
    <3>. QED  BY <2>1, <2>3, <3>4 DEF TypesIn
  <2>. QED  BY <1>1, <2>2, <2>3
<1>4. ASSUME NEW x \in TypesIn(s) PROVE x \in TypesIn(s \o t)
  <2>1. PICK i \in Spots(s, "ret") : x = s[i].ty BY <1>4 DEF TypesIn
  <2>2. (s \o t)[i] = s[i] BY <1>2 DEF Spots
  <2>. QED  BY <1>1, <2>1, <2>2 DEF TypesIn
<1>5. ASSUME NEW x \in TypesIn(t) PROVE x \in TypesIn(s \o t)
  <2>1. PICK i \in Spots(t, "ret") : x = t[i].ty BY <1>5 DEF TypesIn
  <2>2. (s \o t)[Len(s) + i] = t[i] BY <1>2 DEF Spots
  <2>. QED  BY <1>1, <2>1, <2>2 DEF TypesIn
<1>. QED  BY <1>3, <1>4, <1>5

\* Returned types of one to three instructions.
LEMMA TypesFew ==
  /\ TypesIn(<< >>) = {}
  /\ \A i : TypesIn(<<i>>) = IF i.k = "ret" THEN {i.ty} ELSE {}
  /\ \A i, j : i.k # "ret" => TypesIn(<<i, j>>) = IF j.k = "ret" THEN {j.ty} ELSE {}
  /\ \A i, j, k : i.k # "ret" /\ j.k # "ret" => TypesIn(<<i, j, k>>) = IF k.k = "ret" THEN {k.ty} ELSE {}
BY DEF TypesIn, Spots

\* The kinds of the instructions the translator makes.
LEMMA KindsOf ==
  /\ \A k : Plain(k).k = k
  /\ \A k, bs : Refer(k, bs).k = k
  /\ \A t : Ret(t).k = "ret" /\ Ret(t).ty = t
  /\ \A f, t : CallOf(f, t).k = "call"
BY DEF Plain, Refer, Ret, CallOf

\* Code without a return.
LEMMA QuietCode ==
  /\ \A k : k # "ret" => TypesIn(<<Plain(k)>>) = {}
  /\ \A k, bs : k # "ret" => TypesIn(<<Refer(k, bs)>>) = {}
  /\ \A j, k : j # "ret" /\ k # "ret" => TypesIn(<<Plain(j), Plain(k)>>) = {}
  /\ \A j, k, bs : j # "ret" /\ k # "ret" => TypesIn(<<Plain(j), Refer(k, bs)>>) = {}
  /\ \A j, k, bs, cs : j # "ret" /\ k # "ret" => TypesIn(<<Refer(j, bs), Refer(k, cs)>>) = {}
  /\ \A f, t : TypesIn(<<CallOf(f, t)>>) = {}
<1>1. ASSUME NEW k, k # "ret" PROVE TypesIn(<<Plain(k)>>) = {}
  <2>1. Plain(k).k # "ret" BY <1>1, KindsOf
  <2>. QED  BY <2>1, TypesFew
<1>2. ASSUME NEW k, NEW bs, k # "ret" PROVE TypesIn(<<Refer(k, bs)>>) = {}
  <2>1. Refer(k, bs).k # "ret" BY <1>2, KindsOf
  <2>. QED  BY <2>1, TypesFew
<1>3. ASSUME NEW j, NEW k, j # "ret", k # "ret" PROVE TypesIn(<<Plain(j), Plain(k)>>) = {}
  <2>1. Plain(j).k # "ret" /\ Plain(k).k # "ret" BY <1>3, KindsOf
  <2>. QED  BY <2>1, TypesFew
<1>4. ASSUME NEW j, NEW k, NEW bs, j # "ret", k # "ret" PROVE TypesIn(<<Plain(j), Refer(k, bs)>>) = {}
  <2>1. Plain(j).k # "ret" /\ Refer(k, bs).k # "ret" BY <1>4, KindsOf
  <2>. QED  BY <2>1, TypesFew
<1>5. ASSUME NEW j, NEW k, NEW bs, NEW cs, j # "ret", k # "ret" PROVE TypesIn(<<Refer(j, bs), Refer(k, cs)>>) = {}
  <2>1. Refer(j, bs).k # "ret" /\ Refer(k, cs).k # "ret" BY <1>5, KindsOf
  <2>. QED  BY <2>1, TypesFew
<1>6. ASSUME NEW f, NEW t PROVE TypesIn(<<CallOf(f, t)>>) = {}
  <2>1. CallOf(f, t).k # "ret" BY KindsOf
  <2>. QED  BY <2>1, TypesFew
<1>. QED  BY <1>1, <1>2, <1>3, <1>4, <1>5, <1>6

\* Code that ends in a return.
LEMMA RetCode ==
  /\ \A t : TypesIn(<<Ret(t)>>) = {t}
  /\ \A f, t : TypesIn(<<CallOf(f, t), Ret(t)>>) = {t}
  /\ \A f, t : TypesIn(<<Plain("load"), CallOf(f, t), Ret(t)>>) = {t}
<1>1. ASSUME NEW f, NEW t
      PROVE  /\ TypesIn(<<Ret(t)>>) = {t} /\ TypesIn(<<CallOf(f, t), Ret(t)>>) = {t}
             /\ TypesIn(<<Plain("load"), CallOf(f, t), Ret(t)>>) = {t}
  <2>1. Ret(t).k = "ret" /\ Ret(t).ty = t /\ CallOf(f, t).k # "ret" /\ Plain("load").k # "ret" BY KindsOf
  <2>2. PICK i, j, l : i = Ret(t) /\ j = CallOf(f, t) /\ l = Plain("load") OBVIOUS
  <2>3. TypesIn(<<i>>) = {t} BY <2>1, <2>2, TypesFew
  <2>4. TypesIn(<<j, i>>) = {t} BY <2>1, <2>2, TypesFew
  <2>5. TypesIn(<<l, j, i>>) = {t} BY <2>1, <2>2, TypesFew
  <2>. QED  BY <2>2, <2>3, <2>4, <2>5
<1>. QED  BY <1>1

\* Code appended to a block is code of its function.
LEMMA FromAppend ==
  ASSUME NEW bs, IsCode(bs), NEW b \in DOMAIN bs, NEW is \in Seq(Instr), NEW cs, cs = AppendTo(bs, b, is)
  PROVE  /\ Adds(bs, cs, bs[b].fn, TypesIn(is))
         /\ IsCode(cs) /\ DOMAIN cs = DOMAIN bs /\ Owners(cs) = Owners(bs)
         /\ \A hs : Blank(bs, hs) /\ (b \notin hs \/ TypesIn(is) = {}) => Blank(cs, hs)
<1>1. /\ cs[b].code = bs[b].code \o is /\ cs[b].fn = bs[b].fn
      /\ \A c \in DOMAIN bs : c # b => cs[c] = bs[c]
  BY AppendCode
<1>2. IsCode(cs) /\ DOMAIN cs = DOMAIN bs BY AppendGrows
<1>3. \A c \in DOMAIN bs : cs[c].fn = bs[c].fn BY <1>1
<1>4. bs[b].code \in Seq(Instr) BY DEF IsCode, Block
<1>5. TypesIn(cs[b].code) = TypesIn(bs[b].code) \cup TypesIn(is) BY <1>1, <1>4, TypesCat
<1>6. \A c \in DOMAIN bs : TypesIn(cs[c].code) = TypesIn(bs[c].code) \cup (IF c = b THEN TypesIn(is) ELSE {})
  BY <1>1, <1>5
<1>7. \A h : Owned(cs, h) = Owned(bs, h) BY <1>2, <1>3 DEF Owned
<1>8. Adds(bs, cs, bs[b].fn, TypesIn(is))
  <2>1. From(cs, bs[b].fn) = From(bs, bs[b].fn) \cup TypesIn(is)
    <3> DEFINE h == bs[b].fn
    <3>1. b \in Owned(bs, h) /\ \A c \in Owned(bs, h) : c \in DOMAIN bs BY DEF Owned
    <3>2. \A c \in Owned(bs, h) : c # b => TypesIn(cs[c].code) = TypesIn(bs[c].code) BY <1>1, <3>1
    <3>. HIDE DEF h
    <3>3. From(cs, h) = From(bs, h) \cup TypesIn(is) BY <1>5, <1>7, <3>1, <3>2 DEF From
    <3>. QED  BY <3>3 DEF h
  <2>2. ASSUME NEW h, h # bs[b].fn PROVE From(cs, h) = From(bs, h)
    <3>1. \A c \in Owned(bs, h) : c \in DOMAIN bs /\ c # b BY <2>2 DEF Owned
    <3>2. \A c \in Owned(bs, h) : TypesIn(cs[c].code) = TypesIn(bs[c].code) BY <1>1, <3>1
    <3>. QED  BY <1>7, <3>2 DEF From
  <2>. QED  BY <2>1, <2>2 DEF Adds
<1>9. Owners(cs) = Owners(bs) BY <1>2, <1>3 DEF Owners
<1>10. ASSUME NEW hs, Blank(bs, hs), b \notin hs \/ TypesIn(is) = {} PROVE Blank(cs, hs)
  BY <1>2, <1>6, <1>10 DEF Blank
<1>. QED  BY <1>2, <1>8, <1>9, <1>10

\* From bs to cs nothing changes in what functions return; function g may have blocks it had not.
Quiet(bs, cs, g) ==
  /\ IsCode(cs) /\ Owners(cs) \subseteq Owners(bs) \cup {g}
  /\ \A h : From(cs, h) = From(bs, h)
  /\ \A hs : Blank(bs, hs) => Blank(cs, hs)

\* From bs to cs function f is erased.
Leaves(bs, cs, f) ==
  /\ IsCode(cs) /\ Owners(cs) \subseteq Owners(bs) \ {f}
  /\ \A h : h # f => From(cs, h) = From(bs, h)
  /\ \A hs : Blank(bs, hs) => Blank(cs, hs)

\* Step by step.
LEMMA QuietOn == ASSUME NEW as, NEW bs, NEW cs, NEW g, Quiet(as, bs, g), Quiet(bs, cs, g) PROVE Quiet(as, cs, g)
<1>1. IsCode(cs) /\ Owners(cs) \subseteq Owners(as) \cup {g} BY DEF Quiet
<1>2. \A h : From(cs, h) = From(as, h) BY DEF Quiet
<1>3. \A hs : Blank(as, hs) => Blank(cs, hs) BY DEF Quiet
<1>. QED  BY <1>1, <1>2, <1>3 DEF Quiet

\* Doing nothing.
LEMMA QuietSelf == ASSUME NEW bs, IsCode(bs), NEW g PROVE Quiet(bs, bs, g)
BY DEF Quiet

\* Writing code that returns nothing.
LEMMA QuietAppend ==
  ASSUME NEW bs, IsCode(bs), NEW b \in DOMAIN bs, NEW is \in Seq(Instr), TypesIn(is) = {}, NEW cs, cs = AppendTo(bs, b, is), NEW g
  PROVE  Quiet(bs, cs, g) /\ DOMAIN cs = DOMAIN bs
<1>1. Adds(bs, cs, bs[b].fn, TypesIn(is)) BY FromAppend
<1>2. \A h : From(cs, h) = From(bs, h) BY <1>1 DEF Adds
<1>3. IsCode(cs) /\ DOMAIN cs = DOMAIN bs /\ Owners(cs) = Owners(bs) BY FromAppend
<1>4. \A hs : Blank(bs, hs) => Blank(cs, hs)
  <2>1. \A hs : Blank(bs, hs) /\ (b \notin hs \/ TypesIn(is) = {}) => Blank(cs, hs) BY FromAppend
  <2>. QED  BY <2>1
<1>. QED  BY <1>2, <1>3, <1>4 DEF Quiet

\* Creating blocks: nothing is returned there yet.
LEMMA QuietCreate ==
  ASSUME NEW bs, IsCode(bs), NEW ids, Fresh(ids, bs), NEW f \in Nat, NEW cs, cs = Create(bs, ids, f)
  PROVE  Quiet(bs, cs, f) /\ DOMAIN cs = DOMAIN bs \cup ids
<1>1. IsCode(cs) /\ DOMAIN cs = DOMAIN bs \cup ids BY CreateGrows
<1>2. \A c \in DOMAIN bs : cs[c] = bs[c] BY DEF Create, Fresh
<1>3. \A c \in ids : cs[c].code = << >> /\ cs[c].fn = f BY DEF Create
<1>4. \A c \in ids : TypesIn(cs[c].code) = {} BY <1>3, TypesFew
<1>5. ASSUME NEW h PROVE From(cs, h) = From(bs, h)
  <2>1. \A c \in Owned(bs, h) : c \in Owned(cs, h) /\ TypesIn(cs[c].code) = TypesIn(bs[c].code) BY <1>1, <1>2 DEF Owned
  <2>2. \A c \in Owned(cs, h) : c \in Owned(bs, h) \/ TypesIn(cs[c].code) = {} BY <1>1, <1>2, <1>4 DEF Owned
  <2>. QED  BY <2>1, <2>2 DEF From
<1>6. Owners(cs) \subseteq Owners(bs) \cup {f} BY <1>1, <1>2, <1>3 DEF Owners
<1>7. ASSUME NEW hs, Blank(bs, hs) PROVE Blank(cs, hs) BY <1>1, <1>2, <1>4, <1>7 DEF Blank
<1>8. Quiet(bs, cs, f) BY <1>1, <1>5, <1>6, <1>7 DEF Quiet
<1>. QED  BY <1>1, <1>8

\* The blocks created are blank.
LEMMA BlankCreate ==
  ASSUME NEW bs, NEW ids, Fresh(ids, bs), NEW f, NEW cs, cs = Create(bs, ids, f), NEW hs, Blank(bs, hs)
  PROVE  Blank(cs, hs \cup ids)
<1>1. DOMAIN cs = DOMAIN bs \cup ids BY DEF Create
<1>2. \A c \in DOMAIN bs : cs[c] = bs[c] BY DEF Create, Fresh
<1>3. \A c \in ids : cs[c].code = << >> BY DEF Create
<1>4. \A c \in ids : TypesIn(cs[c].code) = {} BY <1>3, TypesFew
<1>. QED  BY <1>1, <1>2, <1>4 DEF Blank

\* Erasing blocks where nothing is returned.
LEMMA QuietErase ==
  ASSUME NEW bs, IsCode(bs), NEW ids, Blank(bs, ids), NEW cs, cs = Erase(bs, ids), NEW g
  PROVE  Quiet(bs, cs, g) /\ DOMAIN cs = DOMAIN bs \ ids /\ \A c \in DOMAIN cs : cs[c] = bs[c]
<1>1. IsCode(cs) /\ DOMAIN cs = DOMAIN bs \ ids BY EraseType DEF IsCode
<1>2. \A c \in DOMAIN cs : cs[c] = bs[c] /\ c \in DOMAIN bs BY <1>1 DEF Erase
<1>3. ASSUME NEW h PROVE From(cs, h) = From(bs, h)
  <2>1. \A c \in Owned(cs, h) : c \in Owned(bs, h) /\ TypesIn(cs[c].code) = TypesIn(bs[c].code) BY <1>2 DEF Owned
  <2>2. \A c \in Owned(bs, h) : c \in Owned(cs, h) \/ TypesIn(bs[c].code) = {} BY <1>1, <1>2 DEF Owned, Blank
  <2>. QED  BY <2>1, <2>2 DEF From
<1>4. Owners(cs) \subseteq Owners(bs) BY <1>2 DEF Owners
<1>5. ASSUME NEW hs, Blank(bs, hs) PROVE Blank(cs, hs) BY <1>2, <1>5 DEF Blank
<1>6. Quiet(bs, cs, g) BY <1>1, <1>3, <1>4, <1>5 DEF Quiet
<1>. QED  BY <1>1, <1>2, <1>6

\* Erasing a function.
LEMMA LeavesErase ==
  ASSUME NEW bs, IsCode(bs), NEW f, NEW cs, cs = Erase(bs, Owned(bs, f))
  PROVE  Leaves(bs, cs, f) /\ DOMAIN cs = DOMAIN bs \ Owned(bs, f) /\ \A c \in DOMAIN cs : cs[c] = bs[c]
<1> DEFINE ids == Owned(bs, f)
<1>1. IsCode(cs) /\ DOMAIN cs = DOMAIN bs \ ids BY EraseType DEF IsCode
<1>2. \A c \in DOMAIN cs : cs[c] = bs[c] /\ c \in DOMAIN bs /\ bs[c].fn # f BY <1>1 DEF Erase, Owned
<1>3. ASSUME NEW h, h # f PROVE From(cs, h) = From(bs, h)
  <2>1. \A c \in Owned(cs, h) : c \in Owned(bs, h) /\ cs[c] = bs[c] BY <1>2 DEF Owned
  <2>2. \A c \in Owned(bs, h) : c \in Owned(cs, h) BY <1>1, <1>2, <1>3 DEF Owned
  <2>. QED  BY <2>1, <2>2 DEF From
<1>4. Owners(cs) \subseteq Owners(bs) \ {f} BY <1>2 DEF Owners
<1>5. ASSUME NEW hs, Blank(bs, hs) PROVE Blank(cs, hs) BY <1>2, <1>5 DEF Blank
<1>6. Leaves(bs, cs, f) BY <1>1, <1>3, <1>4, <1>5 DEF Leaves
<1>. QED  BY <1>1, <1>2, <1>6

\* A function without blocks returns nothing.
LEMMA FromNone == ASSUME NEW bs, NEW h, h \notin Owners(bs) PROVE From(bs, h) = {}
<1>1. Owned(bs, h) = {} BY DEF Owned, Owners
<1>. QED  BY <1>1 DEF From

----------------------------------------------------------------------------
(* The invariant: every routine in progress follows the table.                *)

\* The line frame c stands at.
At(P, c) == P.body[c.body][c.pos]

\* The body of frame f, started by frame c, and the bare symbols it starts with.
KeyOf(P, c, f) ==
  LET l == At(P, c)
      s == Bared(f.prev)
  IN CASE f.kind = "fn"     -> IF c.kind = "main" THEN <<f.body, Opening(P, f.body, Absent)>> ELSE Callee(P, l, s)
       [] f.kind = "else"   -> <<l.b, s>>
       [] f.kind = "import" -> <<l.a, NoSymbols>>
       [] OTHER             -> <<l.a, s>>

\* ... and of the first branch, when f is in the second one.
ThenKey(P, c, f) == <<At(P, c).a, Bared(f.prev)>>

\* Frame f translates what the line of c says.
Begun(P, c, f) == /\ KeyOf(P, c, f)[1] = f.body
                  /\ f.kind = "fn" /\ c.kind # "main" => Evaluates(P, At(P, c), Bared(f.prev))

\* The functions F have the function of frame f in the pass that f says.
Passing(P, F, m, k, f) ==
  IF f.survey THEN F[f.fn].pass = "survey" /\ F[f.fn].rty = (IF P.rettype[f.body] = None THEN Void ELSE P.rettype[f.body])
              ELSE F[f.fn].pass = "real" /\ HasType(P, m, k, F[f.fn].rty)

\* A function written for real: what body k returns, in every line of it, has the type of the function.
Settled(P, F, m, k, f) == F[f.fn].pass = "real" => Over(P, m, k) /\ Rets(m, k) \subseteq {F[f.fn].rty}

\* Frame f, started by frame c, follows the table; s are the symbols at its line.
Going(P, F, m, c, f, s) ==
  /\ Begun(P, c, f)
  /\ Reached(m, KeyOf(P, c, f), f.pos, s)
  /\ f.kind = "else" => Over(P, m, ThenKey(P, c, f))
  /\ f.kind = "fn" => Passing(P, F, m, KeyOf(P, c, f), f)
  /\ Settled(P, F, m, KeyOf(P, c, f), f)

\* The types of the values returned by what frame f has translated so far.
Written(P, m, c, f) == RetsUpTo(m, KeyOf(P, c, f), f.pos) \cup (IF f.kind = "else" THEN Rets(m, ThenKey(P, c, f)) ELSE {})

\* The bare symbols at the line of the i-th frame.
Now(i) == Bared(IF i = Len(stack) THEN scope ELSE stack[i + 1].prev)

\* In a survey, the code of function g returns what the table says of its routines,
\* and calls of @self.
Tallied(m, g) ==
  /\ \A i \in 2..Len(stack) : stack[i].fn = g => Written(prog, m, stack[i - 1], stack[i]) \subseteq From(blocks, g)
  /\ \A t \in From(blocks, g) :
       t = fns[g].rty \/ \E i \in 2..Len(stack) : stack[i].fn = g /\ t \in Written(prog, m, stack[i - 1], stack[i])

Agreed(m) ==
  /\ Table(prog, m)
  /\ \A i \in 2..Len(stack) : Going(prog, fns, m, stack[i - 1], stack[i], Now(i))
  /\ \A g \in DOMAIN fns : fns[g].pass = "survey" => Tallied(m, g)

\* Every block belongs to a function of the module.
Homes == Owners(blocks) \subseteq DOMAIN fns

\* Every value returned by a function written for real has the type of the function.
RealTypes == \A g \in DOMAIN fns : fns[g].pass = "real" => From(blocks, g) \subseteq {fns[g].rty}

Right == /\ Homes /\ RealTypes
         /\ status = "run" => Blank(blocks, Hanging) /\ \E m : Agreed(m)

\* What is returned up to a line that is known does not change.
LEMMA RetsKept ==
  ASSUME NEW m, NEW w, Extends(m, w), NEW k \in DOMAIN m, m[k].n \in Nat, NEW p \in Nat, p <= m[k].n
  PROVE  RetsUpTo(w, k, p) = RetsUpTo(m, k, p)
<1>1. \A q \in 1..(p - 1) : q \in 1..(m[k].n - 1) OBVIOUS
<1>2. \A q \in 1..(p - 1) : w[k].rs[q] = m[k].rs[q] BY <1>1 DEF Extends
<1>. QED  BY <1>2 DEF RetsUpTo

\* A frame that follows a table follows a larger one.
LEMMA GoingKept ==
  ASSUME NEW P, WellFormed(P), NEW F, NEW G, NEW m, Table(P, m), NEW w, Table(P, w), Extends(m, w),
         NEW c, NEW f, NEW s, f.pos \in Nat, f.pos >= 1, Going(P, F, m, c, f, s), G[f.fn] = F[f.fn]
  PROVE  Going(P, G, w, c, f, s) /\ Written(P, w, c, f) = Written(P, m, c, f)
<1> DEFINE k == KeyOf(P, c, f)
           a == ThenKey(P, c, f)
<1>0. Bounded(P, m) /\ Bounded(P, w) BY DEF Table
<1>1. Begun(P, c, f) /\ Reached(m, k, f.pos, s) /\ (f.kind = "else" => Over(P, m, a)) BY DEF Going
<1>2. (f.kind = "fn" => Passing(P, F, m, k, f)) /\ Settled(P, F, m, k, f) BY DEF Going
<1>. HIDE DEF k, a
<1>3. k \in DOMAIN m /\ f.pos <= m[k].n /\ m[k].tr[f.pos] = s BY <1>1 DEF Reached
<1>4. k[1] \in Bodies /\ m[k].n \in 1..(Len(P.body[k[1]]) + 1) BY <1>0, <1>3 DEF Bounded
<1>5. m[k].n \in Nat
  <2>1. Len(P.body[k[1]]) \in Nat BY <1>4, BodyLength
  <2>. QED  BY <1>4, <2>1
<1>6. k \in DOMAIN w /\ m[k].n <= w[k].n /\ \A p \in 1..m[k].n : w[k].tr[p] = m[k].tr[p] BY <1>3 DEF Extends
<1>7. w[k].n \in Nat
  <2>1. Len(P.body[k[1]]) \in Nat /\ w[k].n \in 1..(Len(P.body[k[1]]) + 1) BY <1>0, <1>4, <1>6, BodyLength DEF Bounded
  <2>. QED  BY <2>1
<1>8. Reached(w, k, f.pos, s)
  <2>1. f.pos \in 1..m[k].n /\ f.pos <= w[k].n BY <1>3, <1>5, <1>6, <1>7
  <2>. QED  BY <1>3, <1>6, <2>1 DEF Reached
<1>9. f.kind = "else" => Over(P, w, a) /\ Rets(w, a) = Rets(m, a) BY <1>0, <1>1, OverKept
<1>10. f.kind = "fn" => Passing(P, G, w, k, f)
  <2>1. ASSUME f.kind = "fn" PROVE Passing(P, G, w, k, f)
    <3>1. Passing(P, F, m, k, f) BY <1>2, <2>1
    <3>2. CASE f.survey BY <3>1, <3>2 DEF Passing
    <3>3. CASE ~f.survey
      <4>1. G[f.fn].pass = "real" /\ HasType(P, m, k, G[f.fn].rty) BY <3>1, <3>3 DEF Passing
      <4>2. HasType(P, w, k, G[f.fn].rty) BY <1>0, <4>1, HasTypeKept
      <4>. QED  BY <3>3, <4>1, <4>2 DEF Passing
    <3>. QED  BY <3>2, <3>3
  <2>. QED  BY <2>1
<1>11. Settled(P, G, w, k, f)
  <2>1. ASSUME G[f.fn].pass = "real" PROVE Over(P, w, k) /\ Rets(w, k) \subseteq {G[f.fn].rty}
    <3>1. Over(P, m, k) /\ Rets(m, k) \subseteq {G[f.fn].rty} BY <1>2, <2>1 DEF Settled
    <3>2. Over(P, w, k) /\ Rets(w, k) = Rets(m, k) BY <1>0, <3>1, OverKept
    <3>. QED  BY <3>1, <3>2
  <2>. QED  BY <2>1 DEF Settled
<1>12. RetsUpTo(w, k, f.pos) = RetsUpTo(m, k, f.pos) BY <1>3, <1>5, RetsKept
<1>13. Going(P, G, w, c, f, s) BY <1>1, <1>8, <1>9, <1>10, <1>11 DEF Going, k, a
<1>14. Written(P, w, c, f) = Written(P, m, c, f)
  <2>1. CASE f.kind = "else" BY <1>9, <1>12, <2>1 DEF Written, k, a
  <2>2. CASE f.kind # "else" BY <1>12, <2>2 DEF Written, k
  <2>. QED  BY <2>1, <2>2
<1>. QED  BY <1>13, <1>14

----------------------------------------------------------------------------
(* A step, and the table after it.                                            *)

\* A step makes function g return values of the types E as well, and erases the functions in gone.
Wrote(g, E, gone) ==
  /\ From(blocks', g) = From(blocks, g) \cup E
  /\ \A h : h # g /\ h \notin gone => From(blocks', h) = From(blocks, h)
  /\ Owners(blocks') \subseteq (Owners(blocks) \cup {g}) \ gone
  /\ Blank(blocks', Hanging')

\* What frame f says was returned, after the step, in a survey.
Accounts(w, c, f, E) ==
  fns'[f.fn].pass = "survey" => /\ Written(prog, w, c, f) \subseteq From(blocks', f.fn)
                                /\ E \subseteq Written(prog, w, c, f) \cup {fns'[f.fn].rty}

\* The functions in survey after the step are those before it but for the ones in gone, and new ones that return nothing yet.
SurveysOn(gone) ==
  \A h \in DOMAIN fns' : fns'[h].pass = "survey" =>
    /\ h \notin gone
    /\ h \in DOMAIN fns => fns'[h] = fns[h]
    /\ h \notin DOMAIN fns => From(blocks', h) = {}

\* The routines from the n-th on, if their function is still in survey, hand what they returned to f.
HandsOver(m, w, n, f) ==
  \A i \in n..Len(stack) : stack[i].fn \in DOMAIN fns' /\ fns'[stack[i].fn].pass = "survey" =>
    /\ stack[i].fn = f.fn
    /\ Written(prog, m, stack[i - 1], stack[i]) \subseteq Written(prog, w, stack[n - 1], f)

\* The frames below the one a step changes follow the table as they did.
LEMMA FramesBelow ==
  ASSUME Inv1, status = "run", NEW m, Agreed(m), NEW w, Table(prog, w), Extends(m, w), prog' = prog,
         NEW STATE n, n \in 2..(Len(stack) + 1), NEW STATE f, Shape(stack', n, f),
         f.prev = (IF n > Len(stack) THEN scope ELSE stack[n].prev),
         \A i \in 1..(n - 1) : fns'[stack[i].fn] = fns[stack[i].fn]
  PROVE  \A i \in 2..(n - 1) : /\ Going(prog', fns', w, stack'[i - 1], stack'[i], Now(i)')
                               /\ Written(prog', w, stack'[i - 1], stack'[i]) = Written(prog, m, stack[i - 1], stack[i])
<1>1. /\ Len(stack) \in Nat /\ Len(stack') = n /\ n \in Nat /\ n <= Len(stack) + 1 /\ n >= 2
      /\ \A i \in 1..(n - 1) : stack'[i] = stack[i]
      /\ stack'[n] = f
  BY StackFacts DEF Shape
<1>2. WellFormed(prog) /\ Table(prog, m) BY DEF Inv1, Typed, Agreed
<1>3. ASSUME NEW i \in 2..(n - 1)
      PROVE  /\ Going(prog', fns', w, stack'[i - 1], stack'[i], Now(i)')
             /\ Written(prog', w, stack'[i - 1], stack'[i]) = Written(prog, m, stack[i - 1], stack[i])
  <2>1. i \in 2..Len(stack) /\ i \in 1..(n - 1) /\ i - 1 \in 1..(n - 1) /\ i # n /\ i \in 1..Len(stack) BY <1>1
  <2>2. stack'[i] = stack[i] /\ stack'[i - 1] = stack[i - 1] BY <1>1, <2>1
  <2>3. Going(prog, fns, m, stack[i - 1], stack[i], Now(i)) BY <2>1 DEF Agreed
  <2>4. fns'[stack[i].fn] = fns[stack[i].fn] BY <2>1
  <2>5. stack[i].pos \in Nat /\ stack[i].pos >= 1
    <3>1. stack[i] \in Frame BY <2>1, StackFacts
    <3>2. stack[i].body \in Bodies /\ stack[i].pos \in 1..(Len(prog.body[stack[i].body]) + 1)
      BY <2>1, <3>1 DEF Inv1, StackDiscipline, Frame
    <3>3. Len(prog.body[stack[i].body]) \in Nat BY <1>2, <3>2, BodyLength
    <3>. QED  BY <3>2, <3>3
  <2>6. Now(i)' = Now(i)
    <3>1. Now(i)' = Bared(stack'[i + 1].prev) BY <1>1, <2>1 DEF Now
    <3>2. CASE i + 1 = n
      <4>1. stack'[i + 1].prev = f.prev BY <1>1, <3>2
      <4>2. CASE n > Len(stack)
        <5>1. i = Len(stack) /\ f.prev = scope BY <1>1, <2>1, <3>2, <4>2
        <5>. QED  BY <3>1, <4>1, <5>1 DEF Now
      <4>3. CASE ~(n > Len(stack))
        <5>1. i # Len(stack) /\ f.prev = stack[i + 1].prev BY <1>1, <2>1, <3>2, <4>3
        <5>. QED  BY <3>1, <4>1, <5>1 DEF Now
      <4>. QED  BY <4>2, <4>3
    <3>3. CASE i + 1 # n
      <4>1. i + 1 \in 1..(n - 1) /\ i # Len(stack) BY <1>1, <2>1, <3>3
      <4>2. stack'[i + 1] = stack[i + 1] BY <1>1, <4>1
      <4>. QED  BY <3>1, <4>1, <4>2 DEF Now
    <3>. QED  BY <3>2, <3>3
  <2>7. /\ Going(prog, fns', w, stack[i - 1], stack[i], Now(i))
        /\ Written(prog, w, stack[i - 1], stack[i]) = Written(prog, m, stack[i - 1], stack[i])
    BY <1>2, <2>3, <2>4, <2>5, GoingKept
  <2>. QED  BY <2>2, <2>6, <2>7
<1>. QED  BY <1>3

\* The table still accounts for what is returned.
LEMMA TallyStep ==
  ASSUME Inv1, status = "run", NEW m, Agreed(m), NEW w, prog' = prog,
         NEW STATE n, n \in 2..(Len(stack) + 1), NEW STATE f, Shape(stack', n, f),
         \A i \in 2..(n - 1) : Written(prog', w, stack'[i - 1], stack'[i]) = Written(prog, m, stack[i - 1], stack[i]),
         NEW STATE E, NEW STATE gone, Wrote(f.fn, E, gone), SurveysOn(gone),
         Accounts(w, stack[n - 1], f, E), HandsOver(m, w, n, f)
  PROVE  \A h \in DOMAIN fns' : fns'[h].pass = "survey" => Tallied(w, h)'
<1>1. /\ Len(stack) \in Nat /\ Len(stack') = n /\ n \in Nat /\ n <= Len(stack) + 1 /\ n >= 2
      /\ \A i \in 1..(n - 1) : stack'[i] = stack[i]
      /\ stack'[n] = f
  BY StackFacts DEF Shape
<1>2. stack'[n - 1] = stack[n - 1] BY <1>1
<1>3. \A i \in 1..Len(stack) : stack[i].fn \in DOMAIN fns BY DEF Inv1, FnsAlive
<1> DEFINE W == Written(prog, w, stack[n - 1], f)
<1>4. Written(prog', w, stack'[n - 1], stack'[n]) = W BY <1>1, <1>2
<1>. HIDE DEF W
<1>5. SUFFICES ASSUME NEW h \in DOMAIN fns', fns'[h].pass = "survey" PROVE Tallied(w, h)'
  OBVIOUS
<1>6. h \notin gone /\ (h \in DOMAIN fns => fns'[h] = fns[h]) /\ (h \notin DOMAIN fns => From(blocks', h) = {})
  BY <1>5 DEF SurveysOn
<1>7. h \in DOMAIN fns => fns[h].pass = "survey" /\ Tallied(m, h) BY <1>5, <1>6 DEF Agreed
<1>8. From(blocks, h) \subseteq From(blocks', h)
  <2>1. CASE h = f.fn BY <2>1 DEF Wrote
  <2>2. CASE h # f.fn BY <1>6, <2>2 DEF Wrote
  <2>. QED  BY <2>1, <2>2
<1>9. h = f.fn => W \subseteq From(blocks', h) /\ E \subseteq W \cup {fns'[h].rty} BY <1>5 DEF Accounts, W
<1>10. ASSUME NEW i \in 2..n, stack'[i].fn = h
       PROVE  Written(prog', w, stack'[i - 1], stack'[i]) \subseteq From(blocks', h)
  <2>1. CASE i = n
    <3>1. h = f.fn BY <1>1, <1>10, <2>1
    <3>. QED  BY <1>4, <1>9, <2>1, <3>1
  <2>2. CASE i # n
    <3>1. i \in 2..(n - 1) /\ i \in 1..(n - 1) /\ i \in 2..Len(stack) /\ i \in 1..Len(stack) BY <1>1, <2>2
    <3>2. stack[i].fn = h BY <1>1, <1>10, <3>1
    <3>3. h \in DOMAIN fns BY <1>3, <3>1, <3>2
    <3>4. Written(prog, m, stack[i - 1], stack[i]) \subseteq From(blocks, h) BY <1>7, <3>1, <3>2, <3>3 DEF Tallied
    <3>5. Written(prog', w, stack'[i - 1], stack'[i]) = Written(prog, m, stack[i - 1], stack[i]) BY <3>1
    <3>. QED  BY <1>8, <3>4, <3>5
  <2>. QED  BY <2>1, <2>2
<1>11. ASSUME NEW t \in From(blocks', h), t # fns'[h].rty
       PROVE  \E i \in 2..n : stack'[i].fn = h /\ t \in Written(prog', w, stack'[i - 1], stack'[i])
  <2>1. h \in DOMAIN fns BY <1>6
  <2>2. n \in 2..n BY <1>1
  <2>3. CASE t \in W /\ h = f.fn BY <1>1, <1>4, <2>2, <2>3
  <2>4. CASE t \in From(blocks, h)
    <3>1. PICK i \in 2..Len(stack) : stack[i].fn = h /\ t \in Written(prog, m, stack[i - 1], stack[i])
      BY <1>6, <1>7, <1>11, <2>1, <2>4 DEF Tallied
    <3>2. CASE i < n
      <4>1. i \in 2..(n - 1) /\ i \in 1..(n - 1) /\ i \in 2..n BY <1>1, <3>2
      <4>2. Written(prog', w, stack'[i - 1], stack'[i]) = Written(prog, m, stack[i - 1], stack[i]) BY <4>1
      <4>3. stack'[i].fn = h BY <1>1, <3>1, <4>1
      <4>. QED  BY <3>1, <4>1, <4>2, <4>3
    <3>3. CASE ~(i < n)
      <4>1. i \in n..Len(stack) BY <1>1, <3>3
      <4>2. h = f.fn /\ Written(prog, m, stack[i - 1], stack[i]) \subseteq W BY <1>5, <3>1, <4>1 DEF HandsOver, W
      <4>3. t \in W BY <3>1, <4>2
      <4>. QED  BY <2>3, <4>2, <4>3
    <3>. QED  BY <3>2, <3>3
  <2>5. t \in From(blocks, h) \/ (h = f.fn /\ t \in E)
    <3>1. CASE h = f.fn BY <3>1 DEF Wrote
    <3>2. CASE h # f.fn BY <1>6, <3>2 DEF Wrote
    <3>. QED  BY <3>1, <3>2
  <2>6. h = f.fn /\ t \in E => t \in W BY <1>9, <1>11
  <2>. QED  BY <2>3, <2>4, <2>5, <2>6
<1>. QED  BY <1>1, <1>10, <1>11 DEF Tallied

\* The table after a step that leaves frame f at the top.
LEMMA StepAgrees ==
  ASSUME Inv1, status = "run", NEW m, Agreed(m), NEW w, Table(prog, w), Extends(m, w), prog' = prog,
         NEW STATE n, n \in 2..(Len(stack) + 1), NEW STATE f, Shape(stack', n, f),
         f.prev = (IF n > Len(stack) THEN scope ELSE stack[n].prev),
         \A i \in 1..(n - 1) : fns'[stack[i].fn] = fns[stack[i].fn],
         Going(prog, fns', w, stack[n - 1], f, Bared(scope')),
         NEW STATE E, NEW STATE gone, Wrote(f.fn, E, gone), SurveysOn(gone),
         Accounts(w, stack[n - 1], f, E), HandsOver(m, w, n, f)
  PROVE  Agreed(w)'
<1>1. /\ Len(stack) \in Nat /\ Len(stack') = n /\ n \in Nat /\ n <= Len(stack) + 1 /\ n >= 2
      /\ \A i \in 1..(n - 1) : stack'[i] = stack[i]
      /\ stack'[n] = f
  BY StackFacts DEF Shape
<1>2. stack'[n - 1] = stack[n - 1] BY <1>1
<1>3. \A i \in 2..(n - 1) : /\ Going(prog', fns', w, stack'[i - 1], stack'[i], Now(i)')
                            /\ Written(prog', w, stack'[i - 1], stack'[i]) = Written(prog, m, stack[i - 1], stack[i])
  BY FramesBelow
<1>4. \A h \in DOMAIN fns' : fns'[h].pass = "survey" => Tallied(w, h)'
  <2>1. \A i \in 2..(n - 1) : Written(prog', w, stack'[i - 1], stack'[i]) = Written(prog, m, stack[i - 1], stack[i])
    BY <1>3
  <2>. QED  BY <2>1, TallyStep
<1>5. ASSUME NEW i \in 2..n PROVE Going(prog', fns', w, stack'[i - 1], stack'[i], Now(i)')
  <2>1. CASE i = n
    <3>1. Now(i)' = Bared(scope') BY <1>1, <2>1 DEF Now
    <3>. QED  BY <1>1, <1>2, <2>1, <3>1
  <2>2. CASE i # n
    <3>1. i \in 2..(n - 1) BY <1>1, <2>2
    <3>. QED  BY <1>3, <3>1
  <2>. QED  BY <2>1, <2>2
<1>6. Table(prog, w)' OBVIOUS
<1>. QED  BY <1>1, <1>4, <1>5, <1>6 DEF Agreed

\* Functions written for real, after a step that erases those in gone.
LEMMA RealStep ==
  ASSUME Homes, RealTypes, NEW STATE g, NEW STATE E, NEW STATE gone, Wrote(g, E, gone),
         (DOMAIN fns \cup {g}) \ gone \subseteq DOMAIN fns',
         \A h \in DOMAIN fns' : fns'[h].pass = "real" =>
           \/ From(blocks', h) = {}
           \/ h \in DOMAIN fns /\ fns'[h] = fns[h] /\ h \notin gone /\ (h = g => E \subseteq {fns[h].rty})
  PROVE  Homes' /\ RealTypes'
<1>1. Homes' BY DEF Homes, Wrote
<1>2. ASSUME NEW h \in DOMAIN fns', fns'[h].pass = "real" PROVE From(blocks', h) \subseteq {fns'[h].rty}
  <2>1. CASE From(blocks', h) = {} BY <2>1
  <2>2. CASE h \in DOMAIN fns /\ fns'[h] = fns[h] /\ h \notin gone /\ (h = g => E \subseteq {fns[h].rty})
    <3>1. From(blocks, h) \subseteq {fns'[h].rty} BY <1>2, <2>2 DEF RealTypes
    <3>2. CASE h = g BY <2>2, <3>1, <3>2 DEF Wrote
    <3>3. CASE h # g BY <2>2, <3>1, <3>3 DEF Wrote
    <3>. QED  BY <3>2, <3>3
  <2>. QED  BY <1>2, <2>1, <2>2
<1>. QED  BY <1>1, <1>2 DEF RealTypes

\* The same when no function begins or ends.
LEMMA RealSame ==
  ASSUME Homes, RealTypes, fns' = fns, NEW STATE g, g \in DOMAIN fns, NEW STATE E, Wrote(g, E, {}),
         fns[g].pass = "real" => E \subseteq {fns[g].rty}
  PROVE  Homes' /\ RealTypes' /\ SurveysOn({})
<1>1. (DOMAIN fns \cup {g}) \ {} \subseteq DOMAIN fns' OBVIOUS
<1>2. \A h \in DOMAIN fns' : fns'[h].pass = "real" =>
        h \in DOMAIN fns /\ fns'[h] = fns[h] /\ h \notin {} /\ (h = g => E \subseteq {fns[h].rty})
  OBVIOUS
<1>3. Homes' /\ RealTypes' BY <1>1, <1>2, RealStep
<1>4. SurveysOn({}) BY DEF SurveysOn
<1>. QED  BY <1>3, <1>4

\* One line more.
LEMMA RetsNext ==
  ASSUME NEW m, NEW k, NEW p \in Nat, p >= 1
  PROVE  RetsUpTo(m, k, p + 1) = RetsUpTo(m, k, p) \cup m[k].rs[p]
<1>1. 1..((p + 1) - 1) = 1..(p - 1) \cup {p} OBVIOUS
<1>. QED  BY <1>1 DEF RetsUpTo

\* Frame f is g one line further.
Onward(f, g) == /\ f.kind = g.kind /\ f.body = g.body /\ f.prev = g.prev /\ f.survey = g.survey /\ f.fn = g.fn
                /\ f.pos = g.pos + 1

\* It translates the same body.
LEMMA OnwardKeys ==
  ASSUME NEW P, NEW c, NEW f, NEW g, Onward(f, g)
  PROVE  KeyOf(P, c, f) = KeyOf(P, c, g) /\ ThenKey(P, c, f) = ThenKey(P, c, g)
<1>1. f.kind = g.kind /\ f.body = g.body /\ f.prev = g.prev BY DEF Onward
<1>. QED  BY <1>1 DEF KeyOf, ThenKey

\* A frame that has translated its line follows the table.
LEMMA GoingNext ==
  ASSUME NEW P, NEW F, NEW w, NEW c, NEW g, NEW s, Going(P, F, w, c, g, s),
         NEW f, Onward(f, g), NEW k, k = KeyOf(P, c, g), NEW t, Reached(w, k, g.pos + 1, t)
  PROVE  Going(P, F, w, c, f, t)
<1>1. /\ f.kind = g.kind /\ f.body = g.body /\ f.prev = g.prev /\ f.survey = g.survey /\ f.fn = g.fn
      /\ f.pos = g.pos + 1
  BY DEF Onward
<1>2. KeyOf(P, c, f) = KeyOf(P, c, g) /\ ThenKey(P, c, f) = ThenKey(P, c, g) BY OnwardKeys
<1>4. Begun(P, c, f) BY <1>1, <1>2 DEF Going, Begun
<1>5. f.kind = "else" => Over(P, w, ThenKey(P, c, f)) BY <1>1, <1>2 DEF Going
<1>6. f.kind = "fn" => Passing(P, F, w, KeyOf(P, c, f), f) BY <1>1, <1>2 DEF Going, Passing
<1>7. Settled(P, F, w, KeyOf(P, c, f), f) BY <1>1, <1>2 DEF Going, Settled
<1>. QED  BY <1>1, <1>2, <1>4, <1>5, <1>6, <1>7 DEF Going

\* ... and has returned what the line returns.
LEMMA WrittenNext ==
  ASSUME NEW P, NEW w, NEW c, NEW g, g.pos \in Nat, g.pos >= 1, NEW f, Onward(f, g)
  PROVE  Written(P, w, c, f) = Written(P, w, c, g) \cup w[KeyOf(P, c, g)].rs[g.pos]
<1> DEFINE k == KeyOf(P, c, g)
<1>1. f.kind = g.kind /\ f.pos = g.pos + 1 BY DEF Onward
<1>2. KeyOf(P, c, f) = k /\ ThenKey(P, c, f) = ThenKey(P, c, g) BY OnwardKeys
<1>. HIDE DEF k
<1>3. RetsUpTo(w, k, g.pos + 1) = RetsUpTo(w, k, g.pos) \cup w[k].rs[g.pos] BY RetsNext
<1>4. Written(P, w, c, g) = RetsUpTo(w, k, g.pos) \cup (IF g.kind = "else" THEN Rets(w, ThenKey(P, c, g)) ELSE {})
  BY DEF Written, k
<1>5. Written(P, w, c, f) = RetsUpTo(w, k, g.pos + 1) \cup (IF g.kind = "else" THEN Rets(w, ThenKey(P, c, g)) ELSE {})
  BY <1>1, <1>2 DEF Written
<1>6. Written(P, w, c, f) = Written(P, w, c, g) \cup w[k].rs[g.pos] BY <1>3, <1>4, <1>5
<1>. QED  BY <1>6 DEF k

\* Where the frames of a run stand.
LEMMA FrameFacts ==
  ASSUME Inv1, status = "run", NEW m, Agreed(m), NEW STATE n, n \in 2..Len(stack)
  PROVE  /\ WellFormed(prog) /\ Table(prog, m) /\ Bounded(prog, m)
         /\ stack[n] \in Frame /\ stack[n - 1] \in Frame /\ stack[n].kind # "main"
         /\ stack[n].pos \in Nat /\ stack[n].pos >= 1 /\ stack[n].fn \in DOMAIN fns
         /\ Len(prog.body[stack[n].body]) \in Nat /\ stack[n].pos <= Len(prog.body[stack[n].body]) + 1
         /\ stack[n].prev \in [Names -> Symbol]
         /\ Going(prog, fns, m, stack[n - 1], stack[n], Now(n))
<1>1. WellFormed(prog) /\ Table(prog, m) /\ Bounded(prog, m) BY DEF Inv1, Typed, Agreed, Table
<1>2. Len(stack) \in Nat /\ n \in 1..Len(stack) /\ n - 1 \in 1..Len(stack) BY StackFacts
<1>3. stack[n] \in Frame /\ stack[n - 1] \in Frame BY <1>2, StackFacts
<1>4. stack[n].kind # "main" /\ stack[n].pos \in 1..(Len(prog.body[stack[n].body]) + 1) BY DEF Inv1, StackDiscipline
<1>5. stack[n].body \in Bodies /\ stack[n].prev \in [Names -> Symbol] BY <1>3 DEF Frame
<1>6. Len(prog.body[stack[n].body]) \in Nat BY <1>1, <1>5, BodyLength
<1>7. stack[n].pos \in Nat /\ stack[n].pos >= 1 /\ stack[n].pos <= Len(prog.body[stack[n].body]) + 1 BY <1>4, <1>6
<1>8. stack[n].fn \in DOMAIN fns BY <1>2 DEF Inv1, FnsAlive
<1>9. Going(prog, fns, m, stack[n - 1], stack[n], Now(n)) BY DEF Agreed
<1>. QED  BY <1>1, <1>3, <1>4, <1>5, <1>6, <1>7, <1>8, <1>9

\* The table learns the line of a frame; for a function written for real it knew
\* it, and what the line returns has the type of the function.
LEMMA LineLearn ==
  ASSUME Inv1, status = "run", NEW m, Agreed(m), NEW STATE n, n \in 2..Len(stack),
         stack[n].pos <= Len(prog.body[stack[n].body]),
         NEW t, NEW R, Explained(prog, m, At(prog, stack[n]), Now(n), t, R)
  PROVE  /\ \E w : Learnt(prog, m, w, KeyOf(prog, stack[n - 1], stack[n]), stack[n].pos, t, R)
         /\ fns[stack[n].fn].pass = "real" => R \subseteq {fns[stack[n].fn].rty}
<1> DEFINE k == KeyOf(prog, stack[n - 1], stack[n])
           p == stack[n].pos
           y == fns[stack[n].fn].rty
<1>1. /\ WellFormed(prog) /\ Table(prog, m) /\ Bounded(prog, m) /\ p \in Nat /\ p >= 1
      /\ Len(prog.body[stack[n].body]) \in Nat
      /\ Going(prog, fns, m, stack[n - 1], stack[n], Now(n))
  BY FrameFacts
<1>2. k[1] = stack[n].body /\ k \in DOMAIN m /\ p <= m[k].n /\ m[k].tr[p] = Now(n)
  BY <1>1 DEF Going, Begun, Reached
<1>3. fns[stack[n].fn].pass = "real" => Over(prog, m, k) /\ Rets(m, k) \subseteq {y}
  BY <1>1 DEF Going, Settled
<1>4. At(prog, stack[n]) = prog.body[k[1]][p] /\ p <= Len(prog.body[k[1]]) BY <1>2 DEF At
<1>5. Explained(prog, m, prog.body[k[1]][p], m[k].tr[p], t, R) BY <1>2, <1>4
<1>. HIDE DEF k, p, y
<1>6. m[k].n \in Nat
  <2>1. m[k].n \in 1..(Len(prog.body[k[1]]) + 1) BY <1>1, <1>2 DEF Bounded
  <2>. QED  BY <1>1, <1>2, <2>1
<1>7. p \in 1..m[k].n BY <1>1, <1>2, <1>6
<1>8. PICK w : Learnt(prog, m, w, k, p, t, R)
  <2>1. WellFormed(prog) /\ Table(prog, m) /\ k \in DOMAIN m /\ p <= Len(prog.body[k[1]]) BY <1>1, <1>2, <1>4
  <2>. QED  BY <1>5, <1>7, <2>1, Learn
<1>9. Table(prog, w) /\ Extends(m, w) /\ k \in DOMAIN w /\ p + 1 <= w[k].n /\ w[k].rs[p] = R
  BY <1>8 DEF Learnt, Reached
<1>11. ASSUME fns[stack[n].fn].pass = "real" PROVE R \subseteq {y}
  <2>1. Bounded(prog, w) BY <1>9 DEF Table
  <2>2. Rets(w, k) = Rets(m, k) BY <1>1, <1>3, <1>9, <1>11, <2>1, OverKept
  <2>3. w[k].n \in Nat
    <3>1. w[k].n \in 1..(Len(prog.body[k[1]]) + 1) BY <1>9, <2>1 DEF Bounded
    <3>. QED  BY <1>1, <1>2, <3>1
  <2>4. p \in 1..(w[k].n - 1) BY <1>1, <1>9, <2>3
  <2>5. R \subseteq Rets(w, k) BY <1>9, <2>4 DEF Rets, RetsUpTo
  <2>. QED  BY <1>3, <1>11, <2>2, <2>5
<1>. QED  BY <1>8, <1>11 DEF k, p, y

\* A line of the n-th frame is over, and so are the routines above it.
LEMMA LineDone ==
  ASSUME Inv1, status = "run", NEW m, Agreed(m), prog' = prog,
         NEW STATE n, n \in 2..Len(stack), NEW STATE f, f = [stack[n] EXCEPT !.pos = @ + 1], Shape(stack', n, f),
         stack[n].pos <= Len(prog.body[stack[n].body]),
         \A i \in 1..n : fns'[stack[i].fn] = fns[stack[i].fn],
         NEW STATE R, Explained(prog, m, At(prog, stack[n]), Now(n), Bared(scope'), R),
         NEW STATE E, NEW STATE gone, Wrote(stack[n].fn, E, gone), SurveysOn(gone),
         fns[stack[n].fn].pass = "survey" => R \subseteq From(blocks', stack[n].fn) /\ E \subseteq R \cup {fns[stack[n].fn].rty},
         \A i \in (n + 1)..Len(stack) : stack[i].fn \in DOMAIN fns' /\ fns'[stack[i].fn].pass = "survey" =>
            stack[i].fn = stack[n].fn /\ Written(prog, m, stack[i - 1], stack[i]) \subseteq R
  PROVE  \E w : Agreed(w)'
<1> DEFINE c == stack[n - 1]
           g == stack[n]
           k == KeyOf(prog, c, g)
<1>1. /\ WellFormed(prog) /\ Table(prog, m) /\ g \in Frame /\ g.pos \in Nat /\ g.pos >= 1 /\ g.fn \in DOMAIN fns
      /\ Going(prog, fns, m, c, g, Now(n))
  BY FrameFacts
<1>0. PICK t : t = Bared(scope') OBVIOUS
<1>2. PICK w : Learnt(prog, m, w, k, g.pos, t, R)
  <2>1. Explained(prog, m, At(prog, stack[n]), Now(n), t, R) BY <1>0
  <2>. QED  BY <2>1, LineLearn
<1>16. Table(prog, w) /\ Extends(m, w) /\ Reached(w, k, g.pos + 1, t) /\ w[k].rs[g.pos] = R BY <1>2 DEF Learnt
<1>3. n \in 1..n /\ n \in Nat /\ Len(stack) \in Nat /\ n <= Len(stack) /\ n >= 2 BY StackFacts
<1>4. fns'[g.fn] = fns[g.fn] BY <1>3
<1>5. f.fn = g.fn /\ f.prev = g.prev BY <1>1 DEF Frame
<1>. HIDE DEF c, g, k
<1>6. Going(prog, fns', w, c, g, Now(n)) /\ Written(prog, w, c, g) = Written(prog, m, c, g)
  BY <1>1, <1>16, <1>4, GoingKept
<1>7. /\ Going(prog, fns', w, c, f, Bared(scope'))
      /\ Written(prog, w, c, f) = Written(prog, w, c, g) \cup R
  <2>1. Onward(f, g) BY <1>1 DEF Onward, Frame, g
  <2>2. k = KeyOf(prog, c, g) BY DEF k
  <2>3. g \in Frame /\ g.pos >= 1 /\ Reached(w, k, g.pos + 1, t) /\ w[k].rs[g.pos] = R BY <1>1, <1>16
  <2>4. Going(prog, fns', w, c, g, Now(n)) BY <1>6
  <2>5. Going(prog, fns', w, c, f, t) BY <2>1, <2>2, <2>3, <2>4, GoingNext
  <2>6. Written(prog, w, c, f) = Written(prog, w, c, g) \cup R
    <3>1. g.pos \in Nat /\ g.pos >= 1 BY <1>1
    <3>2. Written(prog, w, c, f) = Written(prog, w, c, g) \cup w[KeyOf(prog, c, g)].rs[g.pos] BY <2>1, <3>1, WrittenNext
    <3>. QED  BY <2>2, <2>3, <3>2
  <2>. QED  BY <1>0, <2>5, <2>6
<1>8. Written(prog, w, c, f) = Written(prog, m, c, g) \cup R BY <1>6, <1>7
<1>9. Accounts(w, c, f, E)
  <2>1. ASSUME fns'[f.fn].pass = "survey"
        PROVE  /\ Written(prog, w, c, f) \subseteq From(blocks', f.fn)
               /\ E \subseteq Written(prog, w, c, f) \cup {fns'[f.fn].rty}
    <3>1. fns[g.fn].pass = "survey" BY <1>4, <1>5, <2>1
    <3>2. Tallied(m, g.fn) BY <1>1, <3>1 DEF Agreed
    <3>3. Written(prog, m, c, g) \subseteq From(blocks, g.fn) BY <3>2 DEF Tallied, c, g
    <3>4. From(blocks, g.fn) \subseteq From(blocks', g.fn) BY DEF Wrote, g
    <3>5. R \subseteq From(blocks', g.fn) /\ E \subseteq R \cup {fns[g.fn].rty} BY <3>1 DEF g
    <3>. QED  BY <1>4, <1>5, <1>8, <3>3, <3>4, <3>5
  <2>. QED  BY <2>1 DEF Accounts
<1>10. HandsOver(m, w, n, f)
  <2>1. ASSUME NEW i \in n..Len(stack), stack[i].fn \in DOMAIN fns', fns'[stack[i].fn].pass = "survey"
        PROVE  /\ stack[i].fn = f.fn
               /\ Written(prog, m, stack[i - 1], stack[i]) \subseteq Written(prog, w, c, f)
    <3>1. CASE i = n BY <1>5, <1>8, <3>1 DEF c, g
    <3>2. CASE i # n
      <4>1. i \in (n + 1)..Len(stack) BY <1>3, <3>2
      <4>2. stack[i].fn = g.fn /\ Written(prog, m, stack[i - 1], stack[i]) \subseteq R BY <2>1, <4>1 DEF g
      <4>. QED  BY <1>5, <1>8, <4>2
    <3>. QED  BY <3>1, <3>2
  <2>. QED  BY <2>1 DEF HandsOver, c
<1>11. n \in 2..(Len(stack) + 1) /\ ~(n > Len(stack)) BY <1>3
<1>12. f.prev = (IF n > Len(stack) THEN scope ELSE stack[n].prev) BY <1>5, <1>11 DEF g
<1>13. \A i \in 1..(n - 1) : fns'[stack[i].fn] = fns[stack[i].fn]
  <2>1. \A i \in 1..(n - 1) : i \in 1..n BY <1>3
  <2>. QED  BY <2>1
<1>14. Wrote(f.fn, E, gone) BY <1>5 DEF g
<1>15. Agreed(w)' BY <1>16, <1>7, <1>9, <1>10, <1>11, <1>12, <1>13, <1>14, StepAgrees DEF c
<1>. QED  BY <1>15

----------------------------------------------------------------------------
(* Lines that start no routine.                                               *)

\* Fewer blocks to be blank.
LEMMA BlankFewer == ASSUME NEW bs, NEW hs, NEW ks, Blank(bs, hs), ks \subseteq hs PROVE Blank(bs, ks)
BY DEF Blank

\* The run is over: only the types of what was written matter.
LEMMA StopRight ==
  ASSUME Right, status' # "run", blocks' = blocks, fns' = fns
  PROVE  Right'
<1>1. Homes' BY DEF Right, Homes
<1>2. RealTypes' BY DEF Right, RealTypes
<1>. QED  BY <1>1, <1>2 DEF Right

\* An error.
LEMMA ThrowRight == ASSUME Right, Throw PROVE Right'
BY StopRight DEF Throw, Stop

\* After a line the blocks set apart are those of before.
LEMMA AdvanceHangs == ASSUME Inv1, stack' = Advance(stack, Len(stack)) PROVE Hanging' \subseteq Hanging
<1>1. FirstFrames(Len(stack)) BY AdvanceKept
<1>2. Len(stack) \in 1..Len(stack) BY StackFacts
<1>3. Len(stack') = Len(stack) /\ \A i \in 1..Len(stack) : Resembles(stack'[i], stack[i]) BY <1>1 DEF FirstFrames, Alike
<1>. QED  BY <1>2, <1>3, KeptPlaces

\* Code appended at the insert point is code of the function being written.
LEMMA EmitWrote ==
  ASSUME Inv2, status = "run", Blank(blocks, Hanging), NEW STATE is, is \in Seq(Instr), Emit(is)
  PROVE  Wrote(Top.fn, TypesIn(is), {})
<1>1. blocks' = AppendTo(blocks, ip, is) /\ stack' = Advance(stack, Len(stack)) BY DEF Emit
<1>2. Inv1 /\ ip \in DOMAIN blocks /\ blocks[ip].fn = Top.fn /\ ip \notin Hanging /\ IsCode(blocks) BY Here DEF Good
<1>3. Adds(blocks, blocks', Top.fn, TypesIn(is)) /\ Owners(blocks') = Owners(blocks)
  <2>1. Adds(blocks, blocks', blocks[ip].fn, TypesIn(is)) /\ Owners(blocks') = Owners(blocks) BY <1>1, <1>2, FromAppend
  <2>. QED  BY <1>2, <2>1
<1>4. Blank(blocks', Hanging)
  <2>1. \A hs : Blank(blocks, hs) /\ (ip \notin hs \/ TypesIn(is) = {}) => Blank(blocks', hs) BY <1>1, <1>2, FromAppend
  <2>. QED  BY <1>2, <2>1
<1>5. Blank(blocks', Hanging') BY <1>1, <1>2, <1>4, AdvanceHangs, BlankFewer
<1>. QED  BY <1>3, <1>5 DEF Wrote, Adds

\* A line that starts no routine explains itself.
LEMMA PlainLine ==
  ASSUME NEW P, NEW m, NEW l, NEW s, l.op \notin {"scope", "cond", "import"}, ~Evaluates(P, l, s)
  PROVE  /\ Explained(P, m, l, s, Altered(l, s), Returns(m, l, s))
         /\ l.op \notin {"ret", "retcall"} => Returns(m, l, s) = {}
<1>1. Parts(l, s) = {} BY DEF Parts
<1>2. Explained(P, m, l, s, Altered(l, s), Returns(m, l, s)) BY <1>1 DEF Explained
<1>3. ASSUME l.op \notin {"ret", "retcall"} PROVE Returns(m, l, s) = {} BY <1>1, <1>3 DEF Returns
<1>. QED  BY <1>2, <1>3

\* Where the top frame stands when a line of it is translated.
LEMMA TopFacts ==
  ASSUME Inv1, NEW CONSTANT op, AtLine(op)
  PROVE  /\ status = "run" /\ Len(stack) \in Nat /\ Len(stack) \in 2..Len(stack) /\ stack[Len(stack)] = Top /\ Top \in Frame
         /\ Top.pos <= Len(prog.body[Top.body]) /\ At(prog, Top) = Cur /\ Now(Len(stack)) = Bared(scope)
         /\ Top.fn \in DOMAIN fns
<1>1. /\ status = "run" /\ Len(stack) > 1 /\ Top.pos \in 1..Len(prog.body[Top.body])
      /\ Cur = prog.body[Top.body][Top.pos]
  BY LineFacts
<1>2. Len(stack) \in Nat /\ Top \in Frame BY StackFacts
<1>3. Len(stack) \in 2..Len(stack) /\ Len(stack) \in 1..Len(stack) BY <1>1, <1>2
<1>4. prog.body[Top.body] \in Seq(Line) BY <1>2 DEF Inv1, Typed, WellFormed, Program, Frame
<1>5. Top.pos <= Len(prog.body[Top.body]) BY <1>1, <1>4, LenProperties
<1>6. Top.fn \in DOMAIN fns BY <1>1, <1>3 DEF Inv1, FnsAlive, Top
<1>. QED  BY <1>1, <1>2, <1>3, <1>5, <1>6 DEF Top, At, Now

\* A line that starts no routine, and returns values of the types R.
LEMMA LineRight ==
  ASSUME Inv2, Right, NEW CONSTANT op, AtLine(op), prog' = prog, fns' = fns, stack' = Advance(stack, Len(stack)),
         NEW STATE E, NEW STATE R, Wrote(Top.fn, E, {}), E = R \/ (R = {} /\ E = {fns[Top.fn].rty}),
         \A m : Explained(prog, m, Cur, Bared(scope), Bared(scope'), R)
  PROVE  Right'
<1> DEFINE n == Len(stack)
           f == [Top EXCEPT !.pos = @ + 1]
<1>0. Inv1 BY DEF Inv2
<1>1. /\ status = "run" /\ n \in Nat /\ n \in 2..Len(stack) /\ stack[n] = Top /\ Top \in Frame
      /\ Top.pos <= Len(prog.body[Top.body]) /\ At(prog, Top) = Cur /\ Now(n) = Bared(scope)
      /\ Top.fn \in DOMAIN fns
  BY <1>0, TopFacts
<1>2. PICK m : Agreed(m) BY <1>1 DEF Right
<1>3. f \in Frame BY <1>1, NextLine
<1>4. stack' = [stack EXCEPT ![n] = f]
  <2>1. n \in DOMAIN stack BY <1>0, <1>1, StackFacts
  <2>. QED  BY <1>1, <2>1 DEF Advance
<1>5. Shape(stack', n, f) BY <1>0, <1>3, <1>4, ReplaceShape
<1>6. f = [stack[n] EXCEPT !.pos = @ + 1] BY <1>1
<1>. HIDE DEF n, f
<1>7. Explained(prog, m, At(prog, stack[n]), Now(n), Bared(scope'), R) BY <1>1
<1>8. fns[stack[n].fn].pass = "real" => R \subseteq {fns[stack[n].fn].rty}
  <2>1. PICK t : t = Bared(scope') OBVIOUS
  <2>2. Explained(prog, m, At(prog, stack[n]), Now(n), t, R) BY <1>7, <2>1
  <2>. QED  BY <1>0, <1>1, <1>2, <2>2, LineLearn
<1>9. fns[Top.fn].pass = "real" => E \subseteq {fns[Top.fn].rty} BY <1>1, <1>8
<1>10. Homes' /\ RealTypes' /\ SurveysOn({}) BY <1>1, <1>9, RealSame DEF Right
<1>11. fns[stack[n].fn].pass = "survey" => /\ R \subseteq From(blocks', stack[n].fn)
                                           /\ E \subseteq R \cup {fns[stack[n].fn].rty}
  BY <1>1 DEF Wrote
<1>12. Wrote(stack[n].fn, E, {}) BY <1>1
<1>13. \A i \in (n + 1)..Len(stack) : FALSE BY <1>1 DEF n
<1>14. \E w : Agreed(w)'
  BY <1>0, <1>1, <1>2, <1>5, <1>6, <1>7, <1>10, <1>11, <1>12, <1>13, LineDone
<1>15. Blank(blocks', Hanging') BY DEF Wrote
<1>. QED  BY <1>10, <1>14, <1>15 DEF Right

\* A step that is quiet.
LEMMA QuietWrote ==
  ASSUME NEW STATE g, Quiet(blocks, blocks', g), Blank(blocks, Hanging), Hanging' \subseteq Hanging
  PROVE  Wrote(g, {}, {})
<1>1. Blank(blocks', Hanging) BY DEF Quiet
<1>2. Blank(blocks', Hanging') BY <1>1, BlankFewer
<1>. QED  BY <1>2 DEF Quiet, Wrote

\* Where a line is translated: the facts about the line, its symbols and the state.
LEMMA LineHere ==
  ASSUME Inv2, Right, NEW CONSTANT op, AtLine(op)
  PROVE  /\ Inv1 /\ status = "run" /\ Blank(blocks, Hanging) /\ IsCode(blocks)
         /\ ip \in DOMAIN blocks /\ blocks[ip].fn = Top.fn /\ ip \in Nat /\ Top.fn \in Nat
         /\ Top.fn \in DOMAIN fns /\ fns[Top.fn].rty \in Types
         /\ Cur \in Line /\ Complete(Cur) /\ Cur.op = op /\ Cur.y \in Names \cup {None} /\ Cur.a \in Bodies /\ Cur.ty \in Types
         /\ scope \in [Names -> Symbol] /\ Bared(scope) \in [Names -> Symbol]
         /\ \A x \in Names : Bared(scope)[x] = Bare(scope[x]) /\ Bared(scope)[x].k = scope[x].k
<1>1. Inv1 /\ status = "run" BY DEF Inv2, AtLine
<1>2. Blank(blocks, Hanging) BY <1>1 DEF Right
<1>3. IsCode(blocks) /\ ip \in DOMAIN blocks /\ blocks[ip].fn = Top.fn BY <1>1, Here DEF Good
<1>4. /\ scope \in [Names -> Symbol] /\ ip \in Nat /\ Cur \in Line /\ Complete(Cur) /\ Cur.op = op
      /\ Top.fn \in DOMAIN fns /\ fns[Top.fn].rty \in Types /\ Top.fn \in Nat
  BY <1>1, LineTypes
<1>5. Cur.y \in Names \cup {None} /\ Cur.a \in Bodies /\ Cur.ty \in Types BY <1>4 DEF Line
<1>6. /\ Bared(scope) \in [Names -> Symbol]
      /\ \A x \in Names : Bared(scope)[x] = Bare(scope[x]) /\ Bared(scope)[x].k = scope[x].k
  BY <1>4, BaredFacts
<1>. QED  BY <1>1, <1>2, <1>3, <1>4, <1>5, <1>6

\* A line that changes no symbol and returns nothing.
LEMMA IdleLine ==
  ASSUME NEW P, NEW l, NEW s, l.op \in {"use", "set", "heap", "header", "link", "gclink", "call", "retself", "select"},
         l.op \in {"set", "heap"} => s[l.x].k # "none", l.op = "call" => s[l.x].k # "fn"
  PROVE  \A m : Explained(P, m, l, s, s, {})
<1>1. ~Evaluates(P, l, s) BY DEF Evaluates
<1>2. Altered(l, s) = s BY DEF Altered
<1>. QED  BY <1>1, <1>2, PlainLine

\* A line that declares a variable.
LEMMA DeclaringLine ==
  ASSUME NEW P, NEW l, NEW s, l.op \in {"set", "heap", "fun"}, ~Evaluates(P, l, s), NEW t, t = Altered(l, s)
  PROVE  \A m : Explained(P, m, l, s, t, {})
BY PlainLine

\* Reading a variable.
LEMMA UseRight == ASSUME Inv2, Right, Use PROVE Right'
<1>1. AtLine("use") BY DEF Use
<1>2. CASE Throw BY <1>2, ThrowRight
<1>3. ASSUME NEW STATE is, is \in Seq(Instr), TypesIn(is) = {}, Emit(is), scope' = scope PROVE Right'
  <2>1. Wrote(Top.fn, {}, {}) BY <1>1, <1>3, LineHere, EmitWrote
  <2>2. \A m : Explained(prog, m, Cur, Bared(scope), Bared(scope), {}) BY <1>1, LineHere, IdleLine
  <2>. QED  BY <1>1, <1>3, <2>1, <2>2, LineRight DEF Emit
<1>4. CASE scope[Cur.x].k \in {"slot", "ptr"} /\ Emit(<<Refer("load", {scope[Cur.x].at})>>) /\ scope' = scope
  <2>1. Cur.x \in Names BY <1>1, LineHere DEF Complete, Line
  <2>2. scope[Cur.x].at \in Nat BY <1>1, <1>4, <2>1, LineHere, SymbolFields
  <2>3. <<Refer("load", {scope[Cur.x].at})>> \in Seq(Instr) BY <2>2, InstrTypes, CodeTypes DEF Kinds
  <2>4. TypesIn(<<Refer("load", {scope[Cur.x].at})>>) = {} BY QuietCode
  <2>. QED  BY <1>3, <1>4, <2>3, <2>4
<1>5. CASE Emit(<< >>) /\ scope' = scope
  <2>1. << >> \in Seq(Instr) /\ TypesIn(<< >>) = {} BY CodeTypes, TypesFew
  <2>. QED  BY <1>3, <1>5, <2>1
<1>. QED  BY <1>2, <1>4, <1>5 DEF Use

\* Assigning a variable.
LEMMA SetRight == ASSUME Inv2, Right, Set PROVE Right'
<1>1. PICK o \in {"set", "heap"} : AtLine(o) BY DEF Set
<1>2. Cur.x \in Names /\ ip \in Nat BY <1>1, LineHere DEF Complete, Line
<1>3. CASE Throw BY <1>3, ThrowRight
<1>4. CASE /\ scope[Cur.x].k = "none" /\ Emit(<<Plain("alloca"), Refer("store", {ip})>>)
           /\ scope' = [scope EXCEPT ![Cur.x] = SlotIn(ip)]
  <2> DEFINE is == <<Plain("alloca"), Refer("store", {ip})>>
  <2>1. is \in Seq(Instr) BY <1>2, InstrTypes, CodeTypes DEF Kinds
  <2>2. TypesIn(is) = {} BY QuietCode
  <2>3. Wrote(Top.fn, TypesIn(is), {}) BY <1>1, <1>4, <2>1, LineHere, EmitWrote
  <2>. HIDE DEF is
  <2>4. Wrote(Top.fn, {}, {}) BY <2>2, <2>3
  <2>5. Bared(scope') = [Bared(scope) EXCEPT ![Cur.x] = SlotIn(0)]
    <3>0. scope \in [Names -> Symbol] BY <1>1, LineHere
    <3>1. Bared(scope') = [Bared(scope) EXCEPT ![Cur.x] = Bare(SlotIn(ip))] BY <1>2, <1>4, <3>0, BaredExcept
    <3>. QED  BY <3>1, BareNone
  <2>6. \A m : Explained(prog, m, Cur, Bared(scope), Bared(scope'), {})
    <3>1. Bared(scope)[Cur.x].k = "none" /\ Cur.op \in {"set", "heap"} BY <1>1, <1>2, <1>4, LineHere
    <3>2. Bared(scope') = Altered(Cur, Bared(scope)) BY <2>5, <3>1 DEF Altered
    <3>3. Cur.op \in {"set", "heap", "fun"} /\ ~Evaluates(prog, Cur, Bared(scope)) BY <3>1 DEF Evaluates
    <3>. QED  BY <3>2, <3>3, DeclaringLine
  <2>. QED  BY <1>1, <1>4, <2>4, <2>6, LineRight DEF Emit
<1>5. CASE scope[Cur.x].k = "slot" /\ Emit(<<Refer("store", {scope[Cur.x].at})>>) /\ scope' = scope
  <2> DEFINE is == <<Refer("store", {scope[Cur.x].at})>>
  <2>1. is \in Seq(Instr)
    <3>1. scope[Cur.x].at \in Nat BY <1>1, <1>2, <1>5, LineHere, SymbolFields
    <3>. QED  BY <3>1, InstrTypes, CodeTypes DEF Kinds
  <2>2. TypesIn(is) = {} BY QuietCode
  <2>3. Wrote(Top.fn, TypesIn(is), {}) BY <1>1, <1>5, <2>1, LineHere, EmitWrote
  <2>. HIDE DEF is
  <2>4. Wrote(Top.fn, {}, {}) BY <2>2, <2>3
  <2>5. \A m : Explained(prog, m, Cur, Bared(scope), Bared(scope), {})
    <3>1. Bared(scope)[Cur.x].k # "none" /\ Cur.op \in {"set", "heap"} BY <1>1, <1>2, <1>5, LineHere
    <3>. QED  BY <3>1, IdleLine
  <2>. QED  BY <1>1, <1>5, <2>4, <2>5, LineRight DEF Emit
<1>. QED  BY <1>3, <1>4, <1>5 DEF Set

\* Importing a header.
LEMMA ImportHeaderRight == ASSUME Inv2, Right, ImportHeader PROVE Right'
<1> DEFINE is == <<Plain("alloca"), Refer("store", {ip})>>
<1>1. PICK o \in {"header", "link", "gclink"} : AtLine(o) BY DEF ImportHeader, AtHeader
<1>2. Emit(is) /\ scope' = scope /\ ip \in Nat BY <1>1, LineHere DEF ImportHeader
<1>3. is \in Seq(Instr) BY <1>2, InstrTypes, CodeTypes DEF Kinds
<1>4. TypesIn(is) = {} BY QuietCode
<1>. HIDE DEF is
<1>5. Wrote(Top.fn, {}, {}) BY <1>1, <1>2, <1>3, <1>4, LineHere, EmitWrote
<1>6. \A m : Explained(prog, m, Cur, Bared(scope), Bared(scope), {}) BY <1>1, LineHere, IdleLine
<1>. QED  BY <1>1, <1>2, <1>5, <1>6, LineRight DEF Emit

\* Allocating from the collector.
LEMMA HeapRight == ASSUME Inv2, Right, Heap PROVE Right'
<1> DEFINE bs == IF gc THEN blocks ELSE InitGC(blocks)
           is == <<Plain("ccall"), Refer("store", {ip})>>
           init == <<Plain("gcinit")>>
<1>1. AtLine("heap") BY DEF Heap
<1>2. /\ fns' = fns /\ stack' = Advance(stack, Len(stack)) /\ scope' = [scope EXCEPT ![Cur.x] = SlotIn(ip)]
      /\ blocks' = AppendTo(bs, ip, is) /\ scope[Cur.x].k = "none" /\ prog' = prog
  BY DEF Heap
<1>3. Cur.x \in Names /\ ip \in Nat /\ Inv1 /\ status = "run" /\ IsCode(blocks) /\ ip \in DOMAIN blocks /\ Blank(blocks, Hanging)
  BY <1>1, LineHere DEF Complete, Line
<1>4. is \in Seq(Instr) /\ init \in Seq(Instr) BY <1>3, InstrTypes, CodeTypes DEF Kinds
<1>5. TypesIn(is) = {} /\ TypesIn(init) = {} BY QuietCode
<1>6. Quiet(blocks, bs, Top.fn) /\ DOMAIN bs = DOMAIN blocks
  <2>1. CASE gc
    <3>1. bs = blocks BY <2>1
    <3>. QED  BY <1>3, <3>1, QuietSelf
  <2>2. CASE ~gc
    <3>1. 1 \in DOMAIN blocks BY <1>3 DEF Inv2, MainEntry
    <3>2. bs = AppendTo(blocks, 1, init) BY <2>2 DEF InitGC
    <3>. HIDE DEF bs, init
    <3>. QED  BY <1>3, <1>4, <1>5, <3>1, <3>2, QuietAppend
  <2>. QED  BY <2>1, <2>2
<1>. HIDE DEF bs, is, init
<1>7. ip \in DOMAIN bs /\ IsCode(bs) BY <1>3, <1>6 DEF Quiet
<1>8. Quiet(bs, blocks', Top.fn) BY <1>2, <1>4, <1>5, <1>7, QuietAppend
<1>9. Quiet(blocks, blocks', Top.fn) BY <1>6, <1>8, QuietOn
<1>10. Wrote(Top.fn, {}, {}) BY <1>2, <1>3, <1>9, QuietWrote, AdvanceHangs
<1>11. Bared(scope') = [Bared(scope) EXCEPT ![Cur.x] = SlotIn(0)]
  <2>0. scope \in [Names -> Symbol] BY <1>1, LineHere
  <2>1. Bared(scope') = [Bared(scope) EXCEPT ![Cur.x] = Bare(SlotIn(ip))] BY <1>2, <1>3, <2>0, BaredExcept
  <2>. QED  BY <2>1, BareNone
<1>12. \A m : Explained(prog, m, Cur, Bared(scope), Bared(scope'), {})
  <2>1. Bared(scope)[Cur.x].k = "none" /\ Cur.op \in {"set", "heap"} BY <1>1, <1>2, <1>3, LineHere
  <2>2. Bared(scope') = Altered(Cur, Bared(scope)) BY <1>11, <2>1 DEF Altered
  <2>3. Cur.op \in {"set", "heap", "fun"} /\ ~Evaluates(prog, Cur, Bared(scope)) BY <2>1 DEF Evaluates
  <2>. QED  BY <2>2, <2>3, DeclaringLine
<1>. QED  BY <1>1, <1>2, <1>10, <1>12, LineRight

\* A line that only appends code.
LEMMA EmitRight ==
  ASSUME Inv2, Right, NEW CONSTANT op, AtLine(op), NEW STATE is, is \in Seq(Instr), Emit(is),
         NEW STATE R, TypesIn(is) = R \/ (R = {} /\ TypesIn(is) = {fns[Top.fn].rty}),
         \A m : Explained(prog, m, Cur, Bared(scope), Bared(scope'), R)
  PROVE  Right'
<1>1. status = "run" /\ Blank(blocks, Hanging) BY LineHere
<1>2. PICK E : E = TypesIn(is) OBVIOUS
<1>3. Wrote(Top.fn, TypesIn(is), {}) BY <1>1, EmitWrote
<1>4. prog' = prog /\ fns' = fns /\ stack' = Advance(stack, Len(stack)) BY DEF Emit
<1>. QED  BY <1>3, <1>4, LineRight

\* Binding a lazy function.
LEMMA BindRight == ASSUME Inv2, Right, Bind PROVE Right'
<1> DEFINE is == IF scope[Cur.x].k = "none" THEN <<Plain("alloca")>> ELSE << >>
           sym == [k |-> "fn", at |-> Cur.a, mark |-> Marked]
           bare == [k |-> "fn", at |-> Cur.a, mark |-> FALSE]
<1>1. AtLine("fun") /\ ~prog.eager[Cur.a] /\ Emit(is) /\ scope' = [scope EXCEPT ![Cur.x] = sym] BY DEF Bind
<1>2. Cur.op = "fun" /\ scope \in [Names -> Symbol] BY <1>1, LineHere
<1>3. Cur.x \in Names BY <1>1, LineHere DEF Complete, Line
<1>4. is \in Seq(Instr) BY InstrTypes, CodeTypes DEF Kinds
<1>5. TypesIn(is) = {} BY QuietCode, TypesFew
<1>6. Bare(sym) = bare BY DEF Bare
<1>. HIDE DEF is, sym, bare
<1>7. Bared(scope') = [Bared(scope) EXCEPT ![Cur.x] = bare]
  <2>1. Bared(scope') = [Bared(scope) EXCEPT ![Cur.x] = Bare(sym)] BY <1>1, <1>2, <1>3, BaredExcept
  <2>. QED  BY <1>6, <2>1
<1>8. ~Evaluates(prog, Cur, Bared(scope)) BY <1>1, <1>2 DEF Evaluates
<1>9. Bared(scope') = Altered(Cur, Bared(scope)) BY <1>2, <1>7 DEF Altered, bare
<1>10. \A m : Explained(prog, m, Cur, Bared(scope), Bared(scope'), {}) BY <1>2, <1>8, <1>9, DeclaringLine
<1>. QED  BY <1>1, <1>4, <1>5, <1>10, EmitRight

\* Returning a number.
LEMMA ReturnRight == ASSUME Inv2, Right, Return PROVE Right'
<1> DEFINE is == <<Ret(Cur.ty)>>
           R == {Cur.ty}
<1>1. AtLine("ret") /\ Emit(is) /\ scope' = scope BY DEF Return
<1>2. Cur.op = "ret" /\ Cur.ty \in Types BY <1>1, LineHere
<1>3. is \in Seq(Instr) BY <1>2, InstrTypes, CodeTypes
<1>4. TypesIn(is) = R BY RetCode
<1>5. ~Evaluates(prog, Cur, Bared(scope)) BY <1>2 DEF Evaluates
<1>6. Altered(Cur, Bared(scope)) = Bared(scope') BY <1>1, <1>2 DEF Altered
<1>7. \A m : Returns(m, Cur, Bared(scope)) = R BY <1>2 DEF Returns
<1>. HIDE DEF is, R
<1>8. ASSUME NEW m PROVE Explained(prog, m, Cur, Bared(scope), Bared(scope'), R)
  <2>1. Explained(prog, m, Cur, Bared(scope), Altered(Cur, Bared(scope)), Returns(m, Cur, Bared(scope)))
    BY <1>2, <1>5, PlainLine
  <2>. QED  BY <1>6, <1>7, <2>1
<1>. QED  BY <1>1, <1>3, <1>4, <1>8, EmitRight

\* Returning a call of @self.
LEMMA ReturnSelfRight == ASSUME Inv2, Right, ReturnSelf PROVE Right'
<1> DEFINE is == <<Plain("load"), CallOf(Top.fn, fns[Top.fn].rty), Ret(fns[Top.fn].rty)>>
<1>1. AtLine("retself") BY DEF ReturnSelf
<1>2. Cur.op = "retself" /\ Top.fn \in Nat /\ fns[Top.fn].rty \in Types BY <1>1, LineHere
<1>3. is \in Seq(Instr) BY <1>2, InstrTypes, CodeTypes DEF Kinds
<1>4. TypesIn(is) = {fns[Top.fn].rty} BY RetCode
<1>5. CASE Throw BY <1>5, ThrowRight
<1>6. CASE Emit(is) /\ scope' = scope
  <2>. HIDE DEF is
  <2>1. \A m : Explained(prog, m, Cur, Bared(scope), Bared(scope), {}) BY <1>2, IdleLine
  <2>2. \A m : Explained(prog, m, Cur, Bared(scope), Bared(scope'), {}) BY <1>6, <2>1
  <2>. QED  BY <1>1, <1>3, <1>4, <1>6, <2>2, EmitRight
<1>. QED  BY <1>5, <1>6 DEF ReturnSelf

\* Loading a value and preparing the parameters of a literal return nothing.
LEMMA BeforeQuiet == (\A s : TypesIn(Loads(s)) = {}) /\ (\A b : TypesIn(Scratch(b)) = {})
<1>1. ASSUME NEW s PROVE TypesIn(Loads(s)) = {}
  <2>1. CASE s.k \in {"slot", "ptr"}
    <3>1. Loads(s) = <<Refer("load", {s.at})>> BY <2>1 DEF Loads
    <3>. QED  BY <3>1, QuietCode
  <2>2. CASE s.k \notin {"slot", "ptr"}
    <3>1. Loads(s) = << >> BY <2>2 DEF Loads
    <3>. QED  BY <3>1, TypesFew
  <2>. QED  BY <2>1, <2>2
<1>2. ASSUME NEW b PROVE TypesIn(Scratch(b)) = {}
  <2>1. CASE prog.param[b] = None BY <2>1, TypesFew DEF Scratch
  <2>2. CASE prog.param[b] # None BY <2>2, QuietCode DEF Scratch
  <2>. QED  BY <2>1, <2>2
<1>. QED  BY <1>1, <1>2

\* Calling a function behind a pointer.
LEMMA CallPointerRight == ASSUME Inv2, Right, CallPointer PROVE Right'
<1> DEFINE callee == scope[Cur.x]
           arg == ArgOf(Cur, scope)
           i == [Plain("call") EXCEPT !.ty = callee.ty]
           call == <<i>>
           final == IF Cur.op = "retcall" THEN <<Ret(callee.ty)>> ELSE << >>
           R == IF Cur.op = "retcall" THEN {callee.ty} ELSE {}
           two == Loads(callee) \o Loads(arg)
           is == (two \o call) \o final
<1>1. PICK o \in {"call", "retcall"} : AtLine(o) BY DEF CallPointer, AtCall
<1>2. callee.k = "ptr" /\ Emit(is) /\ scope' = scope BY DEF CallPointer
<1>3. Inv1 /\ status = "run" /\ Cur.op \in {"call", "retcall"} /\ Cur.y \in Names \cup {None} /\ scope \in [Names -> Symbol]
  BY <1>1, LineHere
<1>4. Cur.x \in Names BY <1>1, LineHere DEF Complete, Line
<1>5. callee \in Symbol /\ arg \in Symbol BY <1>3, <1>4, ArgSafe
<1>6. callee.ty \in Types BY <1>2, <1>5, SymbolFields
<1>7. Bared(scope)[Cur.x] = Bare(callee) BY <1>1, <1>4, LineHere
<1>8. Bare(callee).k = "ptr" /\ Bare(callee).ty = callee.ty BY <1>2, <1>5, BareFacts
<1>9. Loads(callee) \in Seq(Instr) /\ Loads(arg) \in Seq(Instr) BY <1>5, BeforeTypes
<1>10. TypesIn(Loads(callee)) = {} /\ TypesIn(Loads(arg)) = {} BY BeforeQuiet
<1>11. i \in Instr /\ i.k = "call" BY <1>6 DEF Plain, Instr, Kinds
<1>12. call \in Seq(Instr) /\ TypesIn(call) = {}
  <2>1. call \in Seq(Instr) BY <1>11, CodeTypes
  <2>. HIDE DEF i
  <2>2. TypesIn(<<i>>) = {} BY <1>11, TypesFew
  <2>. QED  BY <2>1, <2>2
<1>13. final \in Seq(Instr) /\ TypesIn(final) = R
  <2>1. CASE Cur.op = "retcall"
    <3>1. final = <<Ret(callee.ty)>> /\ R = {callee.ty} BY <2>1
    <3>2. <<Ret(callee.ty)>> \in Seq(Instr) BY <1>6, InstrTypes, CodeTypes
    <3>3. TypesIn(<<Ret(callee.ty)>>) = {callee.ty} BY RetCode
    <3>. QED  BY <3>1, <3>2, <3>3
  <2>2. CASE Cur.op # "retcall"
    <3>1. final = << >> /\ R = {} BY <2>2
    <3>. QED  BY <3>1, CodeTypes, TypesFew
  <2>. QED  BY <2>1, <2>2
<1>14. ASSUME NEW m PROVE Returns(m, Cur, Bared(scope)) = R
  <2>1. CASE Cur.op = "retcall" BY <1>7, <1>8, <2>1 DEF Returns
  <2>2. CASE Cur.op # "retcall"
    <3>1. Parts(Cur, Bared(scope)) = {} BY <1>3 DEF Parts
    <3>. QED  BY <1>3, <2>2, <3>1 DEF Returns
  <2>. QED  BY <2>1, <2>2
<1>. HIDE DEF callee, arg, call, final, R, i
<1>15. two \in Seq(Instr) /\ TypesIn(two) = {} BY <1>9, <1>10, TypesCat, ConcatProperties
<1>. HIDE DEF two
<1>16. two \o call \in Seq(Instr) /\ TypesIn(two \o call) = {} BY <1>12, <1>15, TypesCat, ConcatProperties
<1>17. is \in Seq(Instr) /\ TypesIn(is) = R
  <2>1. PICK u : u = two \o call OBVIOUS
  <2>2. u \in Seq(Instr) /\ TypesIn(u) = {} BY <1>16, <2>1
  <2>3. u \o final \in Seq(Instr) BY <1>13, <2>2, ConcatProperties
  <2>4. TypesIn(u \o final) = TypesIn(u) \cup TypesIn(final) BY <1>13, <2>2, TypesCat
  <2>5. TypesIn(u \o final) = R BY <1>13, <2>2, <2>4
  <2>. QED  BY <2>1, <2>3, <2>5
<1>. HIDE DEF is
<1>18. ~Evaluates(prog, Cur, Bared(scope)) BY <1>3, <1>7, <1>8 DEF Evaluates
<1>19. Altered(Cur, Bared(scope)) = Bared(scope') BY <1>2, <1>3 DEF Altered
<1>20. ASSUME NEW m PROVE Explained(prog, m, Cur, Bared(scope), Bared(scope'), R)
  <2>1. Explained(prog, m, Cur, Bared(scope), Altered(Cur, Bared(scope)), Returns(m, Cur, Bared(scope)))
    BY <1>3, <1>18, PlainLine
  <2>. QED  BY <1>14, <1>19, <2>1
<1>. QED  BY <1>1, <1>2, <1>17, <1>20, EmitRight

\* A conditional on values.
LEMMA SelectRight == ASSUME Inv2, Right, Select PROVE Right'
<1> DEFINE t == nblk + 1
           e == nblk + 2
           m == nblk + 3
           ids == {t, e, m}
           bs == Create(blocks, ids, Top.fn)
           arm == <<Refer("store", {ip}), Refer("br", {m})>>
           fork == <<Plain("alloca"), Refer("br", {t, e})>>
           join == <<Refer("load", {ip})>>
           b1 == AppendTo(bs, t, arm)
           b2 == AppendTo(b1, e, arm)
           b3 == AppendTo(b2, ip, fork)
           b4 == AppendTo(b3, m, join)
<1>1. AtLine("select") BY DEF Select
<1>2. /\ Inv1 /\ status = "run" /\ Blank(blocks, Hanging) /\ IsCode(blocks) /\ ip \in DOMAIN blocks /\ blocks[ip].fn = Top.fn
      /\ ip \in Nat /\ Top.fn \in Nat /\ Cur.op = "select"
  BY <1>1, LineHere
<1>3. nblk \in Nat /\ DOMAIN blocks \subseteq 1..nblk BY <1>2 DEF Inv1, Typed
<1>4. prog' = prog /\ scope' = scope /\ fns' = fns /\ stack' = Advance(stack, Len(stack)) /\ blocks' = b4
  BY <1>2 DEF Select
<1>5. /\ t \in Nat /\ e \in Nat /\ m \in Nat /\ Fresh(ids, blocks) /\ t \in ids /\ e \in ids /\ m \in ids
  BY <1>3 DEF Fresh
<1>6. arm \in Seq(Instr) /\ fork \in Seq(Instr) /\ join \in Seq(Instr) BY <1>2, <1>5, InstrTypes, CodeTypes DEF Kinds
<1>7. TypesIn(arm) = {} /\ TypesIn(fork) = {} /\ TypesIn(join) = {} BY QuietCode
<1>. HIDE DEF ids, arm, fork, join
<1>8. Quiet(blocks, bs, Top.fn) /\ DOMAIN bs = DOMAIN blocks \cup ids BY <1>2, <1>5, QuietCreate
<1>9. IsCode(bs) /\ t \in DOMAIN bs /\ e \in DOMAIN bs /\ m \in DOMAIN bs /\ ip \in DOMAIN bs BY <1>2, <1>5, <1>8 DEF Quiet
<1>. HIDE DEF bs, t, e, m
<1>10. Quiet(bs, b1, Top.fn) /\ DOMAIN b1 = DOMAIN bs BY <1>6, <1>7, <1>9, QuietAppend
<1>11. IsCode(b1) /\ Quiet(blocks, b1, Top.fn) BY <1>8, <1>10, QuietOn DEF Quiet
<1>. HIDE DEF b1
<1>12. Quiet(b1, b2, Top.fn) /\ DOMAIN b2 = DOMAIN bs BY <1>6, <1>7, <1>9, <1>10, <1>11, QuietAppend
<1>13. IsCode(b2) /\ Quiet(blocks, b2, Top.fn) BY <1>11, <1>12, QuietOn DEF Quiet
<1>. HIDE DEF b2
<1>14. Quiet(b2, b3, Top.fn) /\ DOMAIN b3 = DOMAIN bs BY <1>6, <1>7, <1>9, <1>12, <1>13, QuietAppend
<1>15. IsCode(b3) /\ Quiet(blocks, b3, Top.fn) BY <1>13, <1>14, QuietOn DEF Quiet
<1>. HIDE DEF b3
<1>16. Quiet(b3, b4, Top.fn) BY <1>6, <1>7, <1>9, <1>14, <1>15, QuietAppend
<1>17. Quiet(blocks, b4, Top.fn) BY <1>15, <1>16, QuietOn
<1>. HIDE DEF b4
<1>18. Hanging' \subseteq Hanging BY <1>2, <1>4, AdvanceHangs
<1>19. Wrote(Top.fn, {}, {}) BY <1>2, <1>4, <1>17, <1>18, QuietWrote
<1>20. \A w : Explained(prog, w, Cur, Bared(scope), Bared(scope), {}) BY <1>2, IdleLine
<1>21. \A w : Explained(prog, w, Cur, Bared(scope), Bared(scope'), {}) BY <1>4, <1>20
<1>. QED  BY <1>1, <1>4, <1>19, <1>21, LineRight

----------------------------------------------------------------------------
(* Scopes, branches and imports.                                              *)

\* In a function written for real, the parts of a line are known, and what they return has its type.
LEMMA PartSettled ==
  ASSUME Inv1, status = "run", NEW m, Agreed(m), NEW STATE n, n \in 2..Len(stack),
         stack[n].pos <= Len(prog.body[stack[n].body]),
         NEW l, l = At(prog, stack[n]), l.op \in {"scope", "cond", "import"},
         NEW k, k \in Parts(l, Now(n)), fns[stack[n].fn].pass = "real"
  PROVE  Over(prog, m, k) /\ Rets(m, k) \subseteq {fns[stack[n].fn].rty}
<1> DEFINE j == KeyOf(prog, stack[n - 1], stack[n])
           p == stack[n].pos
           y == fns[stack[n].fn].rty
<1>1. /\ WellFormed(prog) /\ Table(prog, m) /\ Bounded(prog, m) /\ p \in Nat /\ p >= 1
      /\ Going(prog, fns, m, stack[n - 1], stack[n], Now(n))
  BY FrameFacts
<1>2. j[1] = stack[n].body /\ j \in DOMAIN m /\ p <= m[j].n /\ m[j].tr[p] = Now(n)
  BY <1>1 DEF Going, Begun, Reached
<1>3. Over(prog, m, j) /\ Rets(m, j) \subseteq {y} BY <1>1 DEF Going, Settled
<1>4. l = prog.body[j[1]][p] /\ p <= Len(prog.body[j[1]]) BY <1>2 DEF At
<1>. HIDE DEF j, p, y
<1>5. m[j].n = Len(prog.body[j[1]]) + 1 /\ m[j].n \in Nat
  <2>1. j[1] \in Bodies BY <1>1, <1>2 DEF Bounded
  <2>2. Len(prog.body[j[1]]) \in Nat BY <1>1, <2>1, BodyLength
  <2>. QED  BY <1>3, <2>2 DEF Over
<1>6. p \in 1..(m[j].n - 1)
  <2>1. Len(prog.body[j[1]]) = m[j].n - 1 BY <1>5, <1>4
  <2>. QED  BY <1>1, <1>4, <1>5, <2>1
<1>7. Explained(prog, m, l, Now(n), m[j].tr[p + 1], m[j].rs[p]) BY <1>1, <1>2, <1>4, <1>6 DEF Table
<1>8. ~Evaluates(prog, l, Now(n)) BY DEF Evaluates
<1>9. Over(prog, m, k) BY <1>7 DEF Explained
<1>10. m[j].rs[p] = Returns(m, l, Now(n)) BY <1>7, <1>8 DEF Explained
<1>11. Returns(m, l, Now(n)) = UNION {Rets(m, h) : h \in Parts(l, Now(n))} BY DEF Returns
<1>12. Rets(m, k) \subseteq m[j].rs[p] BY <1>10, <1>11
<1>13. m[j].rs[p] \subseteq Rets(m, j) BY <1>6 DEF Rets, RetsUpTo
<1>. QED  BY <1>3, <1>9, <1>12, <1>13 DEF y

\* A table that knows what m does has settled what m has.
LEMMA SettledKept ==
  ASSUME NEW P, WellFormed(P), NEW m, Table(P, m), NEW w, Table(P, w), Extends(m, w), NEW k, NEW R,
         Over(P, m, k), Rets(m, k) \subseteq R
  PROVE  Over(P, w, k) /\ Rets(w, k) \subseteq R
<1>1. Bounded(P, m) /\ Bounded(P, w) BY DEF Table
<1>2. Over(P, w, k) /\ Rets(w, k) = Rets(m, k) BY <1>1, OverKept
<1>. QED  BY <1>2

\* A body is about to begin.
LEMMA BodyBegins ==
  ASSUME NEW P, WellFormed(P), NEW w, Table(P, w), NEW k \in DOMAIN w
  PROVE  Reached(w, k, 1, k[2]) /\ RetsUpTo(w, k, 1) = {}
<1>1. Bounded(P, w) BY DEF Table
<1>2. k[1] \in Bodies /\ w[k].n \in 1..(Len(P.body[k[1]]) + 1) BY <1>1 DEF Bounded
<1>3. Len(P.body[k[1]]) \in Nat BY <1>2, BodyLength
<1>4. 1 <= w[k].n BY <1>2, <1>3
<1>5. w[k].tr[1] = k[2] BY DEF Table
<1>6. 1..(1 - 1) = {} OBVIOUS
<1>. QED  BY <1>4, <1>5, <1>6 DEF Reached, RetsUpTo

\* A step that is quiet and leaves the blocks set apart blank.
LEMMA QuietWrites ==
  ASSUME NEW STATE g, Quiet(blocks, blocks', g), Blank(blocks', Hanging')
  PROVE  Wrote(g, {}, {})
BY DEF Quiet, Wrote

\* Frame f begins a part of the line of frame c.
Opens(P, c, f) ==
  /\ f.pos = 1 /\ f.fn = c.fn /\ f.body = At(P, c).a
  /\ At(P, c).op = (IF f.kind = "then" THEN "cond" ELSE f.kind) /\ f.kind \in {"scope", "then", "import"}

\* Its body, and what it starts with, is a part of the line.
LEMMA OpensPart ==
  ASSUME NEW P, NEW c, NEW f, Opens(P, c, f), NEW k, k = KeyOf(P, c, f)
  PROVE  /\ k \in Parts(At(P, c), Bared(f.prev)) /\ k[1] = f.body /\ At(P, c).op \in {"scope", "cond", "import"}
         /\ k[2] = (IF f.kind = "import" THEN NoSymbols ELSE Bared(f.prev)) /\ Begun(P, c, f)
         /\ k = <<At(P, c).a, k[2]>>
<1>1. CASE f.kind = "import"
  <2>1. k = <<At(P, c).a, NoSymbols>> BY <1>1 DEF KeyOf
  <2>2. k \in Parts(At(P, c), Bared(f.prev)) BY <1>1, <2>1 DEF Opens, Parts
  <2>. QED  BY <1>1, <2>1, <2>2 DEF Opens, Begun
<1>2. CASE f.kind # "import"
  <2>1. k = <<At(P, c).a, Bared(f.prev)>> BY <1>2 DEF KeyOf, Opens
  <2>2. k \in Parts(At(P, c), Bared(f.prev)) BY <1>2, <2>1 DEF Opens, Parts
  <2>. QED  BY <1>2, <2>1, <2>2 DEF Opens, Begun
<1>. QED  BY <1>1, <1>2

\* A routine within the function begins.
LEMMA OpenRight ==
  ASSUME Inv2, Right, NEW CONSTANT op, AtLine(op), NEW STATE f, f \in Frame, stack' = Append(stack, f),
         Opens(prog, Top, f), f.prev = scope, prog' = prog, fns' = fns, Wrote(Top.fn, {}, {}),
         scope' = (IF f.kind = "import" THEN NoSymbols ELSE scope)
  PROVE  Right'
<1> DEFINE k == KeyOf(prog, Top, f)
           n == Len(stack) + 1
<1>0. Inv1 BY DEF Inv2
<1>1. /\ status = "run" /\ Len(stack) \in Nat /\ Len(stack) \in 2..Len(stack) /\ stack[Len(stack)] = Top /\ Top \in Frame
      /\ Top.pos <= Len(prog.body[Top.body]) /\ At(prog, Top) = Cur /\ Now(Len(stack)) = Bared(scope)
      /\ Top.fn \in DOMAIN fns
  BY <1>0, TopFacts
<1>2. PICK m : Agreed(m) BY <1>1 DEF Right
<1>3. WellFormed(prog) /\ Table(prog, m) BY <1>0, <1>2 DEF Inv1, Typed, Agreed
<1>4. /\ k \in Parts(Cur, Bared(scope)) /\ k[1] = f.body /\ Cur.op \in {"scope", "cond", "import"}
      /\ k[2] = (IF f.kind = "import" THEN NoSymbols ELSE Bared(scope)) /\ Begun(prog, Top, f)
      /\ k = <<Cur.a, k[2]>>
  BY <1>1, OpensPart
<1>5. f.pos = 1 /\ f.fn = Top.fn /\ f.kind \in {"scope", "then", "import"} BY DEF Opens
<1>6. k[2] = Bared(scope')
  <2>1. CASE f.kind = "import" BY <1>4, <2>1, BareNone
  <2>2. CASE f.kind # "import" BY <1>4, <2>2
  <2>. QED  BY <2>1, <2>2
<1>. HIDE DEF k
<1>7. PICK w : Table(prog, w) /\ Extends(m, w) /\ k \in DOMAIN w
  <2>1. Cur.a \in Bodies BY LineHere
  <2>2. PICK s : s = k[2] OBVIOUS
  <2>3. \E w : Table(prog, w) /\ Extends(m, w) /\ <<Cur.a, s>> \in DOMAIN w BY <1>3, <2>1, Meet
  <2>. QED  BY <1>4, <2>2, <2>3
<1>8. Reached(w, k, 1, k[2]) /\ RetsUpTo(w, k, 1) = {} BY <1>3, <1>7, BodyBegins
<1>9. ASSUME fns[f.fn].pass = "real" PROVE Over(prog, w, k) /\ Rets(w, k) \subseteq {fns[f.fn].rty}
  <2> DEFINE i == Len(stack)
  <2>1. /\ i \in 2..Len(stack) /\ stack[i].pos <= Len(prog.body[stack[i].body]) /\ Cur = At(prog, stack[i])
        /\ k \in Parts(Cur, Now(i)) /\ fns[stack[i].fn].pass = "real" /\ stack[i].fn = f.fn
    BY <1>1, <1>4, <1>5, <1>9
  <2>. HIDE DEF i
  <2>2. Over(prog, m, k) /\ Rets(m, k) \subseteq {fns[stack[i].fn].rty} BY <1>0, <1>1, <1>2, <1>4, <2>1, PartSettled
  <2>3. Over(prog, w, k) /\ Rets(w, k) \subseteq {fns[stack[i].fn].rty} BY <1>3, <1>7, <2>2, SettledKept
  <2>. QED  BY <2>1, <2>3
<1>10. Going(prog, fns', w, Top, f, Bared(scope'))
  <2>1. Settled(prog, fns', w, k, f) BY <1>9 DEF Settled
  <2>2. Reached(w, k, f.pos, Bared(scope')) BY <1>5, <1>6, <1>8
  <2>. QED  BY <1>4, <1>5, <2>1, <2>2 DEF Going, k
<1>11. Written(prog, w, Top, f) = {} BY <1>5, <1>8 DEF Written, k
<1>12. Homes' /\ RealTypes' /\ SurveysOn({})
  <2>1. Homes /\ RealTypes BY DEF Right
  <2>2. fns[Top.fn].pass = "real" => {} \subseteq {fns[Top.fn].rty} OBVIOUS
  <2>. QED  BY <1>1, <2>1, <2>2, RealSame
<1>13. Agreed(w)'
  <2>1. n \in 2..(Len(stack) + 1) /\ n - 1 = Len(stack) /\ n > Len(stack) BY <1>1
  <2>2. Shape(stack', n, f) BY <1>0, PushShape
  <2>3. f.prev = (IF n > Len(stack) THEN scope ELSE stack[n].prev) BY <2>1
  <2>4. \A i \in 1..(n - 1) : fns'[stack[i].fn] = fns[stack[i].fn] OBVIOUS
  <2>5. Going(prog, fns', w, stack[n - 1], f, Bared(scope')) BY <1>1, <1>10, <2>1
  <2>6. Wrote(f.fn, {}, {}) BY <1>5
  <2>7. Accounts(w, stack[n - 1], f, {}) BY <1>1, <1>11, <2>1 DEF Accounts
  <2>8. HandsOver(m, w, n, f)
    <3>1. \A i \in n..Len(stack) : FALSE BY <1>1
    <3>. QED  BY <3>1 DEF HandsOver
  <2>. HIDE DEF n
  <2>. QED  BY <1>0, <1>1, <1>2, <1>7, <1>12, <2>1, <2>2, <2>3, <2>4, <2>5, <2>6, <2>7, <2>8, StepAgrees
<1>14. Blank(blocks', Hanging') BY DEF Wrote
<1>. QED  BY <1>12, <1>13, <1>14 DEF Right

\* Blocks are created for a routine that begins.
LEMMA CreateWrote ==
  ASSUME Inv2, Right, NEW CONSTANT op, AtLine(op), NEW STATE f, f \in Frame, stack' = Append(stack, f),
         NEW STATE ids, Fresh(ids, blocks), blocks' = Create(blocks, ids, blocks[ip].fn), f.next \in ids
  PROVE  Wrote(Top.fn, {}, {})
<1>1. Inv1 /\ Blank(blocks, Hanging) /\ IsCode(blocks) /\ Top.fn \in Nat /\ blocks[ip].fn = Top.fn BY LineHere
<1>2. blocks' = Create(blocks, ids, Top.fn) BY <1>1
<1>3. Quiet(blocks, blocks', Top.fn) BY <1>1, <1>2, QuietCreate
<1>4. Blank(blocks', Hanging \cup ids) BY <1>1, <1>2, BlankCreate
<1>5. Hanging' \subseteq Hanging \cup ids
  <2>1. \A b \in Hanging' : b \in Hanging \/ (Pending(f) /\ b = f.next) BY <1>1, PushedPlaces
  <2>. QED  BY <2>1
<1>6. Blank(blocks', Hanging') BY <1>4, <1>5, BlankFewer
<1>. QED  BY <1>3, <1>6, QuietWrites

\* Beginning a scope.
LEMMA EnterScopeRight == ASSUME Inv2, Right, EnterScope PROVE Right'
<1> DEFINE nb == nblk + 1
           theblock == nblk + 2
           ids == {nb, theblock}
           f == [kind |-> "scope", body |-> Cur.a, pos |-> 1, survey |-> FALSE, mark |-> FALSE, fn |-> Top.fn,
                 pb |-> ip, prev |-> scope, one |-> theblock, two |-> 0, next |-> nb, used |-> FALSE]
<1>1. AtLine("scope") BY DEF EnterScope
<1>2. /\ Inv1 /\ Cur.a \in Bodies /\ scope \in [Names -> Symbol] /\ ip \in Nat /\ Top.fn \in Nat /\ Cur.op = "scope"
  BY <1>1, LineHere
<1>3. nblk \in Nat /\ DOMAIN blocks \subseteq 1..nblk BY <1>2 DEF Inv1, Typed
<1>4. /\ stack' = Append(stack, f) /\ blocks' = Create(blocks, ids, blocks[ip].fn)
      /\ prog' = prog /\ fns' = fns /\ scope' = scope
  BY DEF EnterScope
<1>5. f \in Frame BY <1>2, <1>3 DEF Frame
<1>6. Fresh(ids, blocks) BY <1>3 DEF Fresh
<1>7. At(prog, Top) = Cur BY <1>1, <1>2, TopFacts
<1>8. Opens(prog, Top, f) /\ f.prev = scope /\ f.kind # "import" /\ f.next \in ids BY <1>2, <1>7 DEF Opens
<1>. HIDE DEF f, ids
<1>9. Wrote(Top.fn, {}, {}) BY <1>1, <1>4, <1>5, <1>6, <1>8, CreateWrote
<1>. QED  BY <1>1, <1>4, <1>5, <1>8, <1>9, OpenRight

\* Beginning a conditional.
LEMMA EnterCondRight == ASSUME Inv2, Right, EnterCond PROVE Right'
<1> DEFINE thenbb == nblk + 1
           elsebb == nblk + 2
           mergebb == nblk + 3
           ids == {thenbb, elsebb, mergebb}
           f == [kind |-> "then", body |-> Cur.a, pos |-> 1, survey |-> FALSE, mark |-> FALSE, fn |-> Top.fn,
                 pb |-> ip, prev |-> scope, one |-> thenbb, two |-> elsebb, next |-> mergebb, used |-> FALSE]
<1>1. AtLine("cond") BY DEF EnterCond
<1>2. /\ Inv1 /\ Cur.a \in Bodies /\ scope \in [Names -> Symbol] /\ ip \in Nat /\ Top.fn \in Nat /\ Cur.op = "cond"
  BY <1>1, LineHere
<1>3. nblk \in Nat /\ DOMAIN blocks \subseteq 1..nblk BY <1>2 DEF Inv1, Typed
<1>4. /\ stack' = Append(stack, f) /\ blocks' = Create(blocks, ids, blocks[ip].fn)
      /\ prog' = prog /\ fns' = fns /\ scope' = scope
  BY DEF EnterCond
<1>5. f \in Frame BY <1>2, <1>3 DEF Frame
<1>6. Fresh(ids, blocks) BY <1>3 DEF Fresh
<1>7. At(prog, Top) = Cur BY <1>1, <1>2, TopFacts
<1>8. Opens(prog, Top, f) /\ f.prev = scope /\ f.kind # "import" /\ f.next \in ids BY <1>2, <1>7 DEF Opens
<1>. HIDE DEF f, ids
<1>9. Wrote(Top.fn, {}, {}) BY <1>1, <1>4, <1>5, <1>6, <1>8, CreateWrote
<1>. QED  BY <1>1, <1>4, <1>5, <1>8, <1>9, OpenRight

\* Beginning an import.
LEMMA EnterImportRight == ASSUME Inv2, Right, EnterImport PROVE Right'
<1> DEFINE f == [kind |-> "import", body |-> Cur.a, pos |-> 1, survey |-> FALSE, mark |-> FALSE, fn |-> Top.fn,
                 pb |-> ip, prev |-> scope, one |-> ip, two |-> 0, next |-> 0, used |-> FALSE]
<1>1. AtLine("import") BY DEF EnterImport
<1>2. /\ Inv1 /\ Cur.a \in Bodies /\ scope \in [Names -> Symbol] /\ ip \in Nat /\ Top.fn \in Nat /\ Cur.op = "import"
      /\ IsCode(blocks) /\ Blank(blocks, Hanging)
  BY <1>1, LineHere
<1>3. stack' = Append(stack, f) /\ blocks' = blocks /\ prog' = prog /\ fns' = fns /\ scope' = NoSymbols BY DEF EnterImport
<1>4. f \in Frame BY <1>2 DEF Frame
<1>5. At(prog, Top) = Cur BY <1>1, <1>2, TopFacts
<1>6. Opens(prog, Top, f) /\ f.prev = scope /\ f.kind = "import" BY <1>2, <1>5 DEF Opens
<1>7. ~Pending(f) BY DEF Pending
<1>. HIDE DEF f
<1>8. Wrote(Top.fn, {}, {})
  <2>1. \A b \in Hanging' : b \in Hanging \/ (Pending(f) /\ b = f.next) BY <1>2, <1>3, <1>4, PushedPlaces
  <2>2. Hanging' \subseteq Hanging BY <1>7, <2>1
  <2>3. Quiet(blocks, blocks', Top.fn) BY <1>2, <1>3, QuietSelf
  <2>. QED  BY <1>2, <2>2, <2>3, QuietWrote
<1>. QED  BY <1>1, <1>3, <1>4, <1>6, <1>8, OpenRight

\* Where the caller of a routine that is over stands.
LEMMA CallerFacts ==
  ASSUME Inv1, NEW CONSTANT kind, AtEnd(kind), kind # "main", Caller.kind # "main"
  PROVE  /\ Len(stack) - 1 \in 2..Len(stack) /\ Len(stack) \in 2..Len(stack) /\ stack[Len(stack) - 1] = Caller
         /\ Caller \in Frame /\ Caller.pos <= Len(prog.body[Caller.body]) /\ At(prog, Caller) = LineOf(Caller)
         /\ Now(Len(stack) - 1) = Bared(Top.prev) /\ Started(Caller, Top) /\ Caller.fn \in DOMAIN fns
<1>1. /\ status = "run" /\ Len(stack) > 2 /\ Started(Caller, Top) /\ Caller.pos \in 1..Len(prog.body[Caller.body])
      /\ LineOf(Caller) = prog.body[Caller.body][Caller.pos]
  BY EndFacts
<1>2. Len(stack) \in Nat BY StackFacts
<1>3. Len(stack) - 1 \in 2..Len(stack) /\ Len(stack) \in 2..Len(stack) /\ Len(stack) - 1 # Len(stack) BY <1>1, <1>2
<1>4. (Len(stack) - 1) + 1 = Len(stack) /\ Len(stack) - 1 \in 1..Len(stack) BY <1>2, <1>3
<1>5. Now(Len(stack) - 1) = Bared(Top.prev) BY <1>3, <1>4 DEF Now, Top
<1>6. Caller \in Frame /\ Caller.fn \in DOMAIN fns BY <1>1, <1>4, StackFacts DEF Caller, Inv1, FnsAlive
<1>7. Caller.pos <= Len(prog.body[Caller.body])
  <2>1. prog.body[Caller.body] \in Seq(Line) BY <1>6 DEF Inv1, Typed, WellFormed, Program, Frame
  <2>. QED  BY <1>1, <2>1, LenProperties
<1>. QED  BY <1>1, <1>3, <1>5, <1>6, <1>7 DEF Caller, At

\* A routine that is over has its body known in full.
LEMMA TopOver ==
  ASSUME Inv1, NEW m, Agreed(m), NEW CONSTANT kind, AtEnd(kind), kind # "main", NEW k, k = KeyOf(prog, Caller, Top)
  PROVE  /\ Going(prog, fns, m, Caller, Top, Bared(scope)) /\ Over(prog, m, k) /\ k[1] = Top.body
         /\ kind # "else" => Written(prog, m, Caller, Top) = Rets(m, k)
         /\ Written(prog, m, Caller, Top) = Rets(m, k) \cup (IF kind = "else" THEN Rets(m, ThenKey(prog, Caller, Top)) ELSE {})
<1> DEFINE n == Len(stack)
<1>1. status = "run" /\ Top.kind = kind /\ Top.pos = Len(Lines(Top)) + 1 BY DEF AtEnd
<1>2. Len(stack) > 1 /\ n \in Nat BY <1>1, EndFacts, StackFacts
<1>3. n \in 2..Len(stack) BY <1>2
<1>4. stack[n] = Top /\ stack[n - 1] = Caller /\ Now(n) = Bared(scope) BY DEF Top, Caller, Now
<1>5. Top.pos = Len(prog.body[Top.body]) + 1 BY <1>1 DEF Lines
<1>. HIDE DEF n
<1>6. /\ WellFormed(prog) /\ Bounded(prog, m) /\ Len(prog.body[stack[n].body]) \in Nat
      /\ Going(prog, fns, m, stack[n - 1], stack[n], Now(n))
  BY <1>1, <1>3, FrameFacts
<1>7. Going(prog, fns, m, Caller, Top, Bared(scope)) /\ Len(prog.body[Top.body]) \in Nat BY <1>4, <1>6
<1>8. k[1] = Top.body /\ k \in DOMAIN m /\ Top.pos <= m[k].n BY <1>7 DEF Going, Begun, Reached
<1>9. m[k].n \in 1..(Len(prog.body[Top.body]) + 1) BY <1>6, <1>8 DEF Bounded
<1>10. m[k].n = Len(prog.body[Top.body]) + 1 /\ m[k].n = Top.pos BY <1>5, <1>7, <1>8, <1>9
<1>11. Over(prog, m, k) BY <1>8, <1>10 DEF Over
<1>12. Rets(m, k) = RetsUpTo(m, KeyOf(prog, Caller, Top), Top.pos) BY <1>10 DEF Rets
<1>13. Written(prog, m, Caller, Top) = Rets(m, k) \cup (IF kind = "else" THEN Rets(m, ThenKey(prog, Caller, Top)) ELSE {})
  BY <1>1, <1>12 DEF Written
<1>. QED  BY <1>7, <1>8, <1>11, <1>13

\* The line of a caller whose scope, conditional or import is over.
LEMMA ClosedLine ==
  ASSUME NEW P, NEW m, NEW c, NEW f, NEW kind, f.kind = kind, kind \in {"scope", "else", "import"},
         At(P, c).op = (IF kind = "else" THEN "cond" ELSE kind),
         NEW k, k = KeyOf(P, c, f), Over(P, m, k), NEW j, j = ThenKey(P, c, f), kind = "else" => Over(P, m, j),
         NEW s, s = Bared(f.prev), NEW R, R = Rets(m, k) \cup (IF kind = "else" THEN Rets(m, j) ELSE {})
  PROVE  Explained(P, m, At(P, c), s, s, R)
<1> DEFINE l == At(P, c)
<1>1. ~Evaluates(P, l, s) BY DEF Evaluates
<1>2. Altered(l, s) = s BY DEF Altered
<1>3. (\A h \in Parts(l, s) : Over(P, m, h)) /\ UNION {Rets(m, h) : h \in Parts(l, s)} = R
  <2>1. CASE kind = "scope"
    <3>1. k = <<l.a, s>> BY <2>1 DEF KeyOf
    <3>2. Parts(l, s) = {k} BY <2>1, <3>1 DEF Parts
    <3>. QED  BY <2>1, <3>2
  <2>2. CASE kind = "import"
    <3>1. k = <<l.a, NoSymbols>> BY <2>2 DEF KeyOf
    <3>2. Parts(l, s) = {k} BY <2>2, <3>1 DEF Parts
    <3>. QED  BY <2>2, <3>2
  <2>3. CASE kind = "else"
    <3>1. k = <<l.b, s>> /\ j = <<l.a, s>> BY <2>3 DEF KeyOf, ThenKey
    <3>2. Parts(l, s) = {j, k} BY <2>3, <3>1 DEF Parts
    <3>. QED  BY <2>3, <3>2
  <2>. QED  BY <2>1, <2>2, <2>3
<1>4. Returns(m, l, s) = R BY <1>3 DEF Returns
<1>. QED  BY <1>1, <1>2, <1>3, <1>4 DEF Explained

\* The frame the caller goes on with.
LEMMA PopShape ==
  ASSUME Inv1, NEW CONSTANT kind, AtEnd(kind), kind # "main", Pop,
         NEW STATE n, n = Len(stack) - 1, NEW STATE f, f = [stack[n] EXCEPT !.pos = @ + 1]
  PROVE  Shape(stack', n, f) /\ Hanging' \subseteq Hanging
<1>1. status = "run" /\ Len(stack) > 1 BY EndFacts
<1>2. n \in Nat /\ n \in 1..Len(stack) /\ Caller = stack[n] BY <1>1, StackFacts DEF Caller
<1>3. f \in Frame BY <1>1, <1>2, StackFacts, NextLine
<1>4. Below \in Seq(Frame) /\ Len(Below) = n /\ \A i \in 1..n : Below[i] = stack[i] BY EndFacts
<1>5. Below[n] = stack[n]
  <2>1. n \in 1..n BY <1>2
  <2>. QED  BY <1>4, <2>1
<1>6. stack' = [Below EXCEPT ![n] = f] BY <1>5 DEF Pop, Advance
<1>7. Shape(stack', n, f) BY <1>2, <1>3, <1>4, <1>6, ExceptSeq DEF Shape
<1>8. Hanging' \subseteq Hanging
  <2>1. FirstFrames(n) BY <1>1, PopKept
  <2>2. Len(stack') = n /\ \A i \in 1..n : Resembles(stack'[i], stack[i]) BY <2>1 DEF FirstFrames, Alike
  <2>. QED  BY <1>2, <2>2, KeptPlaces
<1>. QED  BY <1>7, <1>8

\* A scope, a conditional or an import is over.
LEMMA CloseRight ==
  ASSUME Inv2, Right, NEW CONSTANT kind, kind \in {"scope", "else", "import"}, AtEnd(kind), Pop,
         prog' = prog, fns' = fns, scope' = Top.prev, Quiet(blocks, blocks', Top.fn)
  PROVE  Right'
<1> DEFINE n == Len(stack) - 1
           f == [stack[n] EXCEPT !.pos = @ + 1]
           k == KeyOf(prog, Caller, Top)
           j == ThenKey(prog, Caller, Top)
           s == Bared(Top.prev)
<1>0. Inv1 /\ kind # "main" BY DEF Inv2
<1>1. status = "run" /\ Top.kind = kind /\ Len(stack) > 2 BY <1>0, InnerTop
<1>2. Len(stack) \in Nat /\ n \in Nat /\ n >= 2 /\ Len(stack) = n + 1 BY <1>0, <1>1, StackFacts
<1>3. Caller.kind # "main" /\ Caller.fn = Top.fn
  <2>1. n \in 2..Len(stack) /\ Len(stack) \in 2..Len(stack) BY <1>2
  <2>2. stack[n].kind # "main" BY <1>0, <2>1 DEF Inv1, StackDiscipline
  <2>3. stack[Len(stack)].fn = stack[Len(stack) - 1].fn BY <1>0, <1>1, <2>1 DEF Inv1, StackDiscipline, Top
  <2>. QED  BY <2>2, <2>3 DEF Caller, Top
<1>4. /\ n \in 2..Len(stack) /\ stack[n] = Caller /\ Caller.pos <= Len(prog.body[Caller.body])
      /\ Now(n) = s /\ Started(Caller, Top) /\ Caller.fn \in DOMAIN fns
  BY <1>0, <1>3, CallerFacts
<1>5. PICK m : Agreed(m) BY <1>1 DEF Right
<1>. DEFINE R == Written(prog, m, Caller, Top)
<1>6. /\ Going(prog, fns, m, Caller, Top, Bared(scope)) /\ Over(prog, m, k)
      /\ R = Rets(m, k) \cup (IF kind = "else" THEN Rets(m, j) ELSE {})
  BY <1>0, <1>5, TopOver
<1>7. kind = "else" => Over(prog, m, j) BY <1>1, <1>6 DEF Going
<1>8. At(prog, Caller).op = (IF kind = "else" THEN "cond" ELSE kind) BY <1>1, <1>4 DEF Started, At
<1>9. Shape(stack', n, f) /\ Hanging' \subseteq Hanging BY <1>0, PopShape
<1>10. f = [stack[n] EXCEPT !.pos = @ + 1] OBVIOUS
<1>11. stack[Len(stack)] = Top /\ stack[Len(stack) - 1] = Caller BY DEF Top, Caller
<1>. HIDE DEF n, f, k, j, s, R
<1>12. Explained(prog, m, At(prog, Caller), s, s, R) BY <1>1, <1>6, <1>7, <1>8, ClosedLine DEF k, j, s
<1>13. Wrote(Caller.fn, {}, {})
  <2>1. Blank(blocks, Hanging) BY <1>1 DEF Right
  <2>2. Wrote(Top.fn, {}, {}) BY <1>9, <2>1, QuietWrote
  <2>. QED  BY <1>3, <2>2
<1>14. Homes' /\ RealTypes' /\ SurveysOn({})
  <2>1. Homes /\ RealTypes BY DEF Right
  <2>2. fns[Caller.fn].pass = "real" => {} \subseteq {fns[Caller.fn].rty} OBVIOUS
  <2>. QED  BY <1>4, <1>13, <2>1, <2>2, RealSame
<1>15. fns[Caller.fn].pass = "survey" => R \subseteq From(blocks', Caller.fn)
  <2>1. ASSUME fns[Caller.fn].pass = "survey" PROVE R \subseteq From(blocks', Caller.fn)
    <3>1. Tallied(m, Caller.fn) BY <1>4, <1>5, <2>1 DEF Agreed
    <3>2. Len(stack) \in 2..Len(stack) BY <1>2
    <3>3. R \subseteq From(blocks, Caller.fn) BY <1>3, <1>11, <3>1, <3>2 DEF Tallied, R
    <3>. QED  BY <3>3 DEF Quiet
  <2>. QED  BY <2>1
<1>16. \E w : Agreed(w)'
  <2>1. Explained(prog, m, At(prog, stack[n]), Now(n), Bared(scope'), R) BY <1>4, <1>12 DEF s
  <2>2. Wrote(stack[n].fn, {}, {}) BY <1>4, <1>13
  <2>3. fns[stack[n].fn].pass = "survey" => R \subseteq From(blocks', stack[n].fn) /\ {} \subseteq R \cup {fns[stack[n].fn].rty}
    BY <1>4, <1>15
  <2>4. ASSUME NEW i \in (n + 1)..Len(stack), stack[i].fn \in DOMAIN fns', fns'[stack[i].fn].pass = "survey"
        PROVE  stack[i].fn = stack[n].fn /\ Written(prog, m, stack[i - 1], stack[i]) \subseteq R
    <3>1. i = Len(stack) BY <1>2
    <3>. QED  BY <1>3, <1>4, <1>11, <3>1 DEF R
  <2>5. stack[n].pos <= Len(prog.body[stack[n].body]) BY <1>4
  <2>6. \A i \in 1..n : fns'[stack[i].fn] = fns[stack[i].fn] OBVIOUS
  <2>. QED  BY <1>0, <1>1, <1>4, <1>5, <1>9, <1>10, <1>14, <2>1, <2>2, <2>3, <2>4, <2>5, <2>6, LineDone
<1>17. Blank(blocks', Hanging') BY <1>13 DEF Wrote
<1>. QED  BY <1>14, <1>16, <1>17 DEF Right

\* The last code of a scope or a conditional returns nothing.
LEMMA CloseQuiet ==
  ASSUME Inv2, Right, status = "run", Len(stack) > 1, Pending(Top), NEW STATE bs,
         \/ bs = blocks
         \/ bs = AppendTo(blocks, ip, <<Refer("br", {Top.next})>>)
         \/ bs = Erase(blocks, {Top.next}),
         NEW STATE is, is \in Seq(Instr), TypesIn(is) = {}, blocks' = AppendTo(bs, Top.pb, is)
  PROVE  Quiet(blocks, blocks', Top.fn)
<1>1. Inv1 /\ IsCode(blocks) /\ ip \in DOMAIN blocks BY Here DEF Good
<1>2. Len(stack) \in 2..Len(stack) /\ Top \in Frame BY <1>1, StackFacts
<1>3. Top.next \in Hanging BY <1>2 DEF Hanging, Top
<1>4. Top.next \in Nat /\ Top.pb \in DOMAIN blocks /\ Top.pb # Top.next
  <2>1. Top.next \in Nat BY <1>2 DEF Frame
  <2>2. Top.pb \in DOMAIN blocks BY <1>1, <1>2, KeptFacts DEF Top
  <2>3. Top.pb \notin Hanging BY <1>1, <1>2, HangingFacts DEF Top
  <2>. QED  BY <1>3, <2>1, <2>2, <2>3
<1>5. Quiet(blocks, bs, Top.fn) /\ Top.pb \in DOMAIN bs
  <2>1. CASE bs = blocks
    <3>1. Quiet(blocks, blocks, Top.fn) BY <1>1, QuietSelf
    <3>. QED  BY <1>4, <2>1, <3>1
  <2>2. CASE bs = AppendTo(blocks, ip, <<Refer("br", {Top.next})>>)
    <3> DEFINE br == <<Refer("br", {Top.next})>>
    <3>1. br \in Seq(Instr) BY <1>4, InstrTypes, CodeTypes DEF Kinds
    <3>2. TypesIn(br) = {} BY QuietCode
    <3>3. bs = AppendTo(blocks, ip, br) BY <2>2
    <3>. HIDE DEF br
    <3>4. Quiet(blocks, bs, Top.fn) /\ DOMAIN bs = DOMAIN blocks BY <1>1, <3>1, <3>2, <3>3, QuietAppend
    <3>. QED  BY <1>4, <3>4
  <2>3. CASE bs = Erase(blocks, {Top.next})
    <3> DEFINE ids == {Top.next}
    <3>1. Blank(blocks, ids)
      <4>1. Blank(blocks, Hanging) BY DEF Right
      <4>2. ids \subseteq Hanging BY <1>3
      <4>. QED  BY <4>1, <4>2, BlankFewer
    <3>2. bs = Erase(blocks, ids) BY <2>3
    <3>3. Top.pb \notin ids BY <1>4
    <3>. HIDE DEF ids
    <3>4. Quiet(blocks, bs, Top.fn) /\ DOMAIN bs = DOMAIN blocks \ ids BY <1>1, <3>1, <3>2, QuietErase
    <3>. QED  BY <1>4, <3>3, <3>4
  <2>. QED  BY <2>1, <2>2, <2>3
<1>6. IsCode(bs) BY <1>5 DEF Quiet
<1>7. Quiet(bs, blocks', Top.fn) BY <1>5, <1>6, QuietAppend
<1>. QED  BY <1>5, <1>7, QuietOn

\* A scope is over.
LEMMA LeaveScopeRight == ASSUME Inv2, Right, LeaveScope PROVE Right'
<1> DEFINE bs == IF ~HasTerminator(ip) THEN AppendTo(blocks, ip, <<Refer("br", {Top.next})>>)
                                       ELSE Erase(blocks, {Top.next})
           is == <<Refer("br", {Top.one})>>
<1>0. Inv1 BY DEF Inv2
<1>1. AtEnd("scope") /\ prog' = prog /\ fns' = fns /\ scope' = Top.prev /\ Pop /\ blocks' = AppendTo(bs, Top.pb, is)
  BY DEF LeaveScope
<1>2. status = "run" /\ Top.kind = "scope" /\ Len(stack) > 2 /\ Top.one \in Nat BY <1>0, <1>1, InnerTop
<1>3. Pending(Top) /\ Len(stack) > 1
  <2>1. Len(stack) \in Nat BY <1>0, StackFacts
  <2>. QED  BY <1>2, <2>1 DEF Pending
<1>4. is \in Seq(Instr) /\ TypesIn(is) = {} BY <1>2, InstrTypes, CodeTypes, QuietCode DEF Kinds
<1>5. bs = AppendTo(blocks, ip, <<Refer("br", {Top.next})>>) \/ bs = Erase(blocks, {Top.next}) OBVIOUS
<1>. HIDE DEF bs, is
<1>6. Quiet(blocks, blocks', Top.fn) BY <1>1, <1>2, <1>3, <1>4, <1>5, CloseQuiet
<1>. QED  BY <1>1, <1>6, CloseRight

\* A conditional is over.
LEMMA EndElseRight == ASSUME Inv2, Right, EndElse PROVE Right'
<1> DEFINE bs == IF MergeUsed THEN Fall ELSE Erase(blocks, {Top.next})
           is == <<Refer("br", {Top.one, Top.two})>>
<1>0. Inv1 BY DEF Inv2
<1>1. AtEnd("else") /\ prog' = prog /\ fns' = fns /\ scope' = Top.prev /\ Pop /\ blocks' = AppendTo(bs, Top.pb, is)
  BY DEF EndElse
<1>2. status = "run" /\ Top.kind = "else" /\ Len(stack) > 2 /\ Top.one \in Nat /\ Top.two \in Nat BY <1>0, <1>1, InnerTop
<1>3. Pending(Top) /\ Len(stack) > 1
  <2>1. Len(stack) \in Nat BY <1>0, StackFacts
  <2>. QED  BY <1>2, <2>1 DEF Pending
<1>4. is \in Seq(Instr) BY <1>2, InstrTypes, CodeTypes DEF Kinds
<1>5. TypesIn(is) = {} BY QuietCode
<1>6. \/ bs = blocks
      \/ bs = AppendTo(blocks, ip, <<Refer("br", {Top.next})>>)
      \/ bs = Erase(blocks, {Top.next})
  BY DEF Fall
<1>. HIDE DEF bs, is
<1>7. Quiet(blocks, blocks', Top.fn) BY <1>1, <1>2, <1>3, <1>4, <1>5, <1>6, CloseQuiet
<1>. QED  BY <1>1, <1>7, CloseRight

\* An import is over.
LEMMA LeaveImportRight == ASSUME Inv2, Right, LeaveImport PROVE Right'
<1>1. AtEnd("import") /\ prog' = prog /\ fns' = fns /\ scope' = Top.prev /\ Pop /\ blocks' = blocks BY DEF LeaveImport
<1>2. IsCode(blocks) BY DEF Inv2, Inv1, Typed, IsCode
<1>3. Quiet(blocks, blocks', Top.fn) BY <1>1, <1>2, QuietSelf
<1>. QED  BY <1>1, <1>3, CloseRight

\* From one branch of a conditional to the other.
LEMMA EndThenRight == ASSUME Inv2, Right, EndThen PROVE Right'
<1> DEFINE f == [Top EXCEPT !.kind = "else", !.body = LineOf(Caller).b, !.pos = 1, !.used = ~HasTerminator(ip)]
           n == Len(stack)
           i == n - 1
           br == <<Refer("br", {Top.next})>>
           l == At(prog, Caller)
           s == Bared(Top.prev)
           j == <<l.a, s>>
           k == <<l.b, s>>
<1>0. Inv1 BY DEF Inv2
<1>1. /\ AtEnd("then") /\ prog' = prog /\ fns' = fns /\ scope' = Top.prev /\ blocks' = Fall /\ stack' = [stack EXCEPT ![n] = f]
  BY DEF EndThen, Top
<1>2. status = "run" /\ Top.kind = "then" /\ Len(stack) > 2 /\ Top.next \in Nat BY <1>0, <1>1, InnerTop
<1>3. n \in Nat /\ n \in 2..Len(stack) /\ i \in 2..Len(stack) /\ Top \in Frame /\ n \in 2..(Len(stack) + 1) /\ ~(n > Len(stack))
  BY <1>0, <1>2, StackFacts
<1>4. Caller.kind # "main" /\ Caller.fn = Top.fn
  <2>1. stack[i].kind # "main" BY <1>0, <1>3 DEF Inv1, StackDiscipline
  <2>2. stack[n].fn = stack[n - 1].fn BY <1>0, <1>2, <1>3 DEF Inv1, StackDiscipline, Top
  <2>. QED  BY <2>1, <2>2 DEF Caller, Top
<1>5. /\ stack[i] = Caller /\ Caller.pos <= Len(prog.body[Caller.body]) /\ At(prog, Caller) = LineOf(Caller)
      /\ Now(i) = s /\ Started(Caller, Top) /\ Caller.fn \in DOMAIN fns
  BY <1>0, <1>1, <1>4, CallerFacts
<1>6. l.b \in Bodies /\ l.op = "cond"
  <2>1. LineOf(Caller) \in Line BY <1>0, <1>1, <1>4, EndFacts
  <2>2. l.op = "cond" BY <1>2, <1>5 DEF Started, At
  <2>. QED  BY <1>5, <2>1, <2>2 DEF Line
<1>7. f \in Frame
  <2>1. (~HasTerminator(ip)) \in BOOLEAN BY DEF HasTerminator
  <2>. QED  BY <1>3, <1>5, <1>6, <2>1 DEF Frame
<1>8. f.kind = "else" /\ f.body = l.b /\ f.pos = 1 /\ f.fn = Top.fn /\ f.prev = Top.prev /\ f.next = Top.next /\ f.one = Top.one
      /\ f.two = Top.two
  BY <1>3, <1>5 DEF Frame
<1>9. stack[n] = Top /\ stack[n - 1] = Caller /\ i = n - 1 BY DEF Top, Caller
<1>10. KeyOf(prog, Caller, Top) = j BY <1>2 DEF KeyOf
<1>11. j[1] = l.a /\ k[1] = l.b /\ k[2] = s /\ k \in Parts(l, s) BY <1>6 DEF Parts
<1>12. n \in 1..Len(stack) /\ n > 1 BY <1>3
<1>13. blocks' = blocks \/ blocks' = AppendTo(blocks, ip, br) BY <1>1 DEF Fall
<1>14. br \in Seq(Instr) /\ TypesIn(br) = {} BY <1>2, InstrTypes, CodeTypes, QuietCode DEF Kinds
<1>. HIDE DEF f
<1>15. KeyOf(prog, Caller, f) = k /\ ThenKey(prog, Caller, f) = j BY <1>8 DEF KeyOf, ThenKey
<1>16. PICK m : Agreed(m) BY <1>2 DEF Right
<1>17. WellFormed(prog) /\ Table(prog, m) BY <1>0, <1>16 DEF Inv1, Typed, Agreed
<1>18. PICK w : Table(prog, w) /\ Extends(m, w) /\ k \in DOMAIN w BY <1>6, <1>17, Meet
<1>19. Shape(stack', n, f) BY <1>0, <1>1, <1>7, ReplaceShape
<1>20. Hanging' \subseteq Hanging
  <2>1. Resembles(f, stack[n]) BY <1>2, <1>8, <1>9 DEF Resembles
  <2>2. Len(stack') = n /\ stack'[n] = f /\ \A h \in 1..(n - 1) : stack'[h] = stack[h] BY <1>19 DEF Shape
  <2>3. \A h \in 1..n : h = n \/ h \in 1..(n - 1) BY <1>3
  <2>4. \A h \in 1..n : Resembles(stack'[h], stack[h]) BY <2>1, <2>2, <2>3, AlikeSelf DEF Alike
  <2>. QED  BY <1>0, <1>12, <2>2, <2>4, KeptPlaces
<1>. HIDE DEF n, i, br, l, s, j, k
<1>21. Over(prog, m, j) /\ Written(prog, m, Caller, Top) = Rets(m, j)
  <2>1. Over(prog, m, j) BY <1>0, <1>1, <1>10, <1>16, TopOver
  <2>2. Written(prog, m, Caller, Top) = Rets(m, j)
    <3>1. PICK kind : kind = "then" OBVIOUS
    <3>2. AtEnd(kind) /\ kind # "main" /\ kind # "else" BY <1>1, <3>1
    <3>. QED  BY <1>0, <1>10, <1>16, <3>2, TopOver
  <2>. QED  BY <2>1, <2>2
<1>22. Over(prog, w, j) /\ Rets(w, j) = Rets(m, j)
  <2>1. Bounded(prog, m) /\ Bounded(prog, w) BY <1>17, <1>18 DEF Table
  <2>. QED  BY <1>17, <1>18, <1>21, <2>1, OverKept
<1>23. Reached(w, k, 1, k[2]) /\ RetsUpTo(w, k, 1) = {} BY <1>17, <1>18, BodyBegins
<1>24. ASSUME fns[f.fn].pass = "real" PROVE Over(prog, w, k) /\ Rets(w, k) \subseteq {fns[f.fn].rty}
  <2>1. /\ stack[i].pos <= Len(prog.body[stack[i].body]) /\ l = At(prog, stack[i]) /\ l.op \in {"scope", "cond", "import"}
        /\ k \in Parts(l, Now(i)) /\ fns[stack[i].fn].pass = "real" /\ stack[i].fn = f.fn
    BY <1>4, <1>5, <1>6, <1>8, <1>11, <1>24 DEF l
  <2>2. Over(prog, m, k) /\ Rets(m, k) \subseteq {fns[stack[i].fn].rty} BY <1>0, <1>2, <1>3, <1>16, <2>1, PartSettled
  <2>3. Over(prog, w, k) /\ Rets(w, k) \subseteq {fns[stack[i].fn].rty} BY <1>17, <1>18, <2>2, SettledKept
  <2>. QED  BY <2>1, <2>3
<1>25. Going(prog, fns', w, Caller, f, Bared(scope'))
  <2>1. Settled(prog, fns', w, k, f) BY <1>1, <1>24 DEF Settled
  <2>2. Reached(w, k, f.pos, Bared(scope')) BY <1>1, <1>8, <1>11, <1>23 DEF s
  <2>3. Begun(prog, Caller, f) BY <1>8, <1>11, <1>15 DEF Begun
  <2>. QED  BY <1>8, <1>15, <1>22, <2>1, <2>2, <2>3 DEF Going
<1>26. Written(prog, w, Caller, f) = Written(prog, m, Caller, Top) BY <1>8, <1>15, <1>21, <1>22, <1>23 DEF Written
<1>27. Quiet(blocks, blocks', Top.fn)
  <2>1. IsCode(blocks) /\ ip \in DOMAIN blocks BY <1>2, Here DEF Good
  <2>2. CASE blocks' = blocks BY <2>1, <2>2, QuietSelf
  <2>3. CASE blocks' = AppendTo(blocks, ip, br) BY <1>14, <2>1, <2>3, QuietAppend
  <2>. QED  BY <1>13, <2>2, <2>3
<1>28. Wrote(Top.fn, {}, {})
  <2>1. Blank(blocks, Hanging) BY <1>2 DEF Right
  <2>. QED  BY <1>20, <1>27, <2>1, QuietWrote
<1>29. Homes' /\ RealTypes' /\ SurveysOn({})
  <2>1. Homes /\ RealTypes /\ Top.fn \in DOMAIN fns BY <1>4, <1>5 DEF Right
  <2>2. fns[Top.fn].pass = "real" => {} \subseteq {fns[Top.fn].rty} OBVIOUS
  <2>. QED  BY <1>1, <1>28, <2>1, <2>2, RealSame
<1>30. Accounts(w, Caller, f, {})
  <2>1. ASSUME fns'[f.fn].pass = "survey"
        PROVE  Written(prog, w, Caller, f) \subseteq From(blocks', f.fn)
    <3>1. Tallied(m, Top.fn) BY <1>1, <1>4, <1>5, <1>8, <1>16, <2>1 DEF Agreed
    <3>2. Written(prog, m, Caller, Top) \subseteq From(blocks, Top.fn) BY <1>3, <1>9, <3>1 DEF Tallied
    <3>. QED  BY <1>8, <1>26, <1>27, <3>2 DEF Quiet
  <2>. QED  BY <2>1 DEF Accounts
<1>31. HandsOver(m, w, n, f)
  <2>1. \A h \in n..Len(stack) : h = n BY <1>3 DEF n
  <2>. QED  BY <1>8, <1>9, <1>26, <2>1 DEF HandsOver
<1>32. Agreed(w)'
  <2>1. f.prev = (IF n > Len(stack) THEN scope ELSE stack[n].prev) BY <1>3, <1>8, <1>9
  <2>2. \A h \in 1..(n - 1) : fns'[stack[h].fn] = fns[stack[h].fn] BY <1>1
  <2>3. Going(prog, fns', w, stack[n - 1], f, Bared(scope')) /\ Accounts(w, stack[n - 1], f, {}) BY <1>9, <1>25, <1>30
  <2>4. Wrote(f.fn, {}, {}) BY <1>8, <1>28
  <2>. QED  BY <1>0, <1>1, <1>2, <1>3, <1>16, <1>18, <1>19, <1>29, <1>31, <2>1, <2>2, <2>3, <2>4, StepAgrees
<1>33. Blank(blocks', Hanging') BY <1>28 DEF Wrote
<1>. QED  BY <1>29, <1>32, <1>33 DEF Right

----------------------------------------------------------------------------
(* Functions: a survey pass, then a real one.                                 *)

\* Body b, called with arg, is what the line of the innermost routine evaluates.
Wanted(b, arg) ==
  IF Top.kind = "main" THEN arg = Absent
  ELSE /\ Evaluates(prog, At(prog, Top), Bared(scope))
       /\ Callee(prog, At(prog, Top), Bared(scope)) = <<b, Opening(prog, b, Bare(arg))>>

\* The code a survey pass begins with returns nothing.
LEMMA SurveyQuiet ==
  ASSUME NEW bs, IsCode(bs), NEW i \in DOMAIN bs, NEW before \in Seq(Instr), TypesIn(before) = {},
         NEW entry, entry \notin DOMAIN bs, NEW g \in Nat, NEW first \in Seq(Instr), TypesIn(first) = {},
         NEW b1, b1 = AppendTo(bs, i, before), NEW b2, b2 = Create(b1, {entry}, g),
         NEW b3, b3 = AppendTo(b2, entry, first)
  PROVE  Quiet(bs, b3, g)
<1> DEFINE ids == {entry}
<1>1. Quiet(bs, b1, g) /\ DOMAIN b1 = DOMAIN bs BY QuietAppend
<1>2. Fresh(ids, b1) /\ IsCode(b1) BY <1>1 DEF Fresh, Quiet
<1>3. b2 = Create(b1, ids, g) /\ entry \in ids OBVIOUS
<1>. HIDE DEF ids
<1>4. Quiet(b1, b2, g) /\ DOMAIN b2 = DOMAIN b1 \cup ids BY <1>2, <1>3, QuietCreate
<1>5. IsCode(b2) /\ entry \in DOMAIN b2 BY <1>3, <1>4 DEF Quiet
<1>6. Quiet(b2, b3, g) BY <1>5, QuietAppend
<1>. QED  BY <1>1, <1>4, <1>6, QuietOn

\* A survey pass begins.
LEMMA SurveyRight ==
  ASSUME Inv2, Right, status = "run", NEW STATE b, b \in Bodies, NEW STATE mark, mark \in BOOLEAN,
         NEW STATE arg, arg \in Symbol, NEW STATE before, before \in Seq(Instr), TypesIn(before) = {},
         Wanted(b, arg), Survey(b, mark, arg, before)
  PROVE  Right'
<1> DEFINE entry == nblk + 1
           g == nfn + 1
           f == [kind |-> "fn", body |-> b, pos |-> 1, survey |-> TRUE,
                 mark |-> mark, fn |-> g, pb |-> ip, prev |-> scope,
                 one |-> entry, two |-> 0, next |-> 0, used |-> FALSE]
           first == <<Plain("alloca")>>
           b1 == AppendTo(blocks, ip, before)
           b2 == Create(b1, {entry}, g)
           t == [pass |-> "survey", rty |-> DeclaredType(b)]
           n == Len(stack) + 1
           s == Opening(prog, b, Bare(arg))
           k == <<b, s>>
<1>0. Inv1 BY DEF Inv2
<1>1. /\ stack' = Append(stack, f) /\ blocks' = AppendTo(b2, entry, first) /\ scope' = Formals(b, arg, entry)
      /\ fns' = [h \in DOMAIN fns \cup {g} |-> IF h = g THEN t ELSE fns[h]] /\ prog' = prog
  BY DEF Survey
<1>2. /\ IsCode(blocks) /\ ip \in DOMAIN blocks /\ nblk \in Nat /\ DOMAIN blocks \subseteq 1..nblk BY Here DEF Good
<1>3. nfn \in Nat /\ DOMAIN fns \subseteq 1..nfn /\ scope \in [Names -> Symbol] /\ ip \in Nat BY <1>0 DEF Inv1, Typed
<1>4. f \in Frame BY <1>2, <1>3 DEF Frame
<1>5. entry \notin DOMAIN blocks /\ g \notin DOMAIN fns /\ g \in Nat BY <1>2, <1>3
<1>6. first \in Seq(Instr) /\ TypesIn(first) = {} BY InstrTypes, CodeTypes, QuietCode DEF Kinds
<1>7. f.kind = "fn" /\ f.body = b /\ f.pos = 1 /\ f.survey /\ f.fn = g /\ f.prev = scope /\ ~Pending(f) BY DEF Pending
<1>8. t.pass = "survey" /\ t.rty = DeclaredType(b) OBVIOUS
<1>9. k[1] = b /\ k[2] = s OBVIOUS
<1>10. s = Bared(scope') BY <1>1, OpeningBare
<1>11. Len(stack) \in Nat /\ Len(stack) >= 1 /\ n \in Nat /\ n \in 2..(Len(stack) + 1) /\ n > Len(stack) /\ n - 1 = Len(stack)
  BY <1>0, StackFacts
<1>. HIDE DEF f, t, s
<1>12. KeyOf(prog, Top, f) = k /\ Begun(prog, Top, f)
  <2>1. CASE Top.kind = "main"
    <3>1. KeyOf(prog, Top, f) = <<b, Opening(prog, b, Absent)>> BY <1>7, <2>1 DEF KeyOf
    <3>2. KeyOf(prog, Top, f) = k BY <2>1, <3>1, BareNone DEF Wanted, s
    <3>. QED  BY <1>7, <1>9, <2>1, <3>2 DEF Begun
  <2>2. CASE Top.kind # "main"
    <3>1. KeyOf(prog, Top, f) = Callee(prog, At(prog, Top), Bared(scope)) BY <1>7, <2>2 DEF KeyOf
    <3>2. KeyOf(prog, Top, f) = k BY <2>2, <3>1 DEF Wanted, s
    <3>. QED  BY <1>7, <1>9, <2>2, <3>2 DEF Begun, Wanted
  <2>. QED  BY <2>1, <2>2
<1>13. DOMAIN fns' = DOMAIN fns \cup {g} /\ fns'[g] = t /\ \A h \in DOMAIN fns : fns'[h] = fns[h] BY <1>1, <1>5
<1>. HIDE DEF k
<1>14. Quiet(blocks, blocks', g) BY <1>1, <1>2, <1>5, <1>6, SurveyQuiet
<1>15. Wrote(g, {}, {})
  <2>1. \A h \in Hanging' : h \in Hanging \/ (Pending(f) /\ h = f.next) BY <1>0, <1>1, <1>4, PushedPlaces
  <2>2. Hanging' \subseteq Hanging BY <1>7, <2>1
  <2>3. Blank(blocks, Hanging) BY DEF Right
  <2>. QED  BY <1>14, <2>2, <2>3, QuietWrote
<1>16. From(blocks', g) = {}
  <2>1. g \notin Owners(blocks) BY <1>5 DEF Right, Homes
  <2>2. From(blocks, g) = {} BY <2>1, FromNone
  <2>. QED  BY <1>14, <2>2 DEF Quiet
<1>17. SurveysOn({}) BY <1>13, <1>16 DEF SurveysOn
<1>18. Homes' /\ RealTypes'
  <2>1. Homes /\ RealTypes BY DEF Right
  <2>2. (DOMAIN fns \cup {g}) \ {} \subseteq DOMAIN fns' BY <1>13
  <2>3. \A h \in DOMAIN fns' : fns'[h].pass = "real" =>
          \/ From(blocks', h) = {}
          \/ h \in DOMAIN fns /\ fns'[h] = fns[h] /\ h \notin {} /\ (h = g => {} \subseteq {fns[h].rty})
    BY <1>13, <1>16
  <2>. QED  BY <1>15, <2>1, <2>2, <2>3, RealStep
<1>19. PICK m : Agreed(m) BY DEF Right
<1>20. WellFormed(prog) /\ Table(prog, m) BY <1>0, <1>19 DEF Inv1, Typed, Agreed
<1>21. PICK w : Table(prog, w) /\ Extends(m, w) /\ k \in DOMAIN w BY <1>20, Meet DEF k
<1>22. Reached(w, k, 1, k[2]) /\ RetsUpTo(w, k, 1) = {} BY <1>20, <1>21, BodyBegins
<1>23. Going(prog, fns', w, Top, f, Bared(scope'))
  <2>1. Passing(prog, fns', w, k, f) BY <1>7, <1>8, <1>13 DEF Passing, DeclaredType
  <2>2. Settled(prog, fns', w, k, f) BY <1>7, <1>8, <1>13 DEF Settled
  <2>3. Reached(w, k, f.pos, Bared(scope')) BY <1>7, <1>9, <1>10, <1>22
  <2>. QED  BY <1>7, <1>12, <2>1, <2>2, <2>3 DEF Going
<1>24. Written(prog, w, Top, f) = {} BY <1>7, <1>12, <1>22 DEF Written
<1>25. Agreed(w)'
  <2>1. stack[n - 1] = Top BY <1>11 DEF Top
  <2>2. Shape(stack', n, f) BY <1>0, <1>1, <1>4, PushShape
  <2>3. f.prev = (IF n > Len(stack) THEN scope ELSE stack[n].prev) BY <1>7, <1>11
  <2>4. \A i \in 1..(n - 1) : fns'[stack[i].fn] = fns[stack[i].fn]
    <3>1. \A i \in 1..Len(stack) : stack[i].fn \in DOMAIN fns BY <1>0 DEF Inv1, FnsAlive
    <3>. QED  BY <1>11, <1>13, <3>1
  <2>5. Going(prog, fns', w, stack[n - 1], f, Bared(scope')) BY <1>23, <2>1
  <2>6. Wrote(f.fn, {}, {}) BY <1>7, <1>15
  <2>7. Accounts(w, stack[n - 1], f, {}) BY <1>24, <2>1 DEF Accounts
  <2>8. HandsOver(m, w, n, f)
    <3>1. \A i \in n..Len(stack) : FALSE BY <1>11
    <3>. QED  BY <3>1 DEF HandsOver
  <2>. HIDE DEF n
  <2>. QED  BY <1>0, <1>1, <1>11, <1>17, <1>19, <1>21, <2>2, <2>3, <2>4, <2>5, <2>6, <2>7, <2>8, StepAgrees
<1>26. Blank(blocks', Hanging') BY <1>15 DEF Wrote
<1>. QED  BY <1>18, <1>25, <1>26 DEF Right

\* An eager literal is evaluated.
LEMMA EvalLiteralRight == ASSUME Inv2, Right, EvalLiteral PROVE Right'
<1>1. AtLine("fun") /\ prog.eager[Cur.a] /\ Survey(Cur.a, Marked, Absent, Scratch(Cur.a)) BY DEF EvalLiteral
<1>2. /\ Inv1 /\ status = "run" /\ Cur.a \in Bodies /\ Complete(Cur) /\ Cur.op = "fun" BY <1>1, LineHere
<1>3. Top.kind # "main" /\ At(prog, Top) = Cur
  <2>1. At(prog, Top) = Cur BY <1>1, <1>2, TopFacts
  <2>2. Len(stack) \in 2..Len(stack) BY <1>1, <1>2, TopFacts
  <2>. QED  BY <1>2, <2>1, <2>2 DEF Inv1, StackDiscipline, Top
<1>4. Marked \in BOOLEAN BY <1>2, StackFacts DEF Marked, Frame
<1>5. Absent \in Symbol /\ Scratch(Cur.a) \in Seq(Instr) /\ TypesIn(Scratch(Cur.a)) = {}
  BY <1>2, SymbolTypes, BeforeTypes, BeforeQuiet
<1>6. Cur.y = None BY <1>2 DEF Complete
<1>7. Wanted(Cur.a, Absent)
  <2>1. Evaluates(prog, Cur, Bared(scope)) BY <1>1, <1>2 DEF Evaluates
  <2>2. ArgOf(Cur, Bared(scope)) = Absent BY <1>6 DEF ArgOf
  <2>3. Callee(prog, Cur, Bared(scope)) = <<Cur.a, Opening(prog, Cur.a, Absent)>> BY <1>2, <2>2 DEF Callee
  <2>. QED  BY <1>3, <2>1, <2>3, BareNone DEF Wanted
<1>. QED  BY <1>1, <1>2, <1>4, <1>5, <1>7, SurveyRight

\* A lazy function is called.
LEMMA CallLazyRight == ASSUME Inv2, Right, CallLazy PROVE Right'
<1> DEFINE arg == ArgOf(Cur, scope)
           b == scope[Cur.x].at
<1>1. PICK o \in {"call", "retcall"} : AtLine(o) BY DEF CallLazy, AtCall
<1>2. scope[Cur.x].k = "fn" /\ Survey(b, scope[Cur.x].mark, arg, Loads(arg)) BY DEF CallLazy
<1>3. /\ Inv1 /\ status = "run" /\ Cur \in Line /\ Complete(Cur) /\ Cur.op = o /\ Cur.y \in Names \cup {None}
      /\ scope \in [Names -> Symbol]
      /\ \A x \in Names : Bared(scope)[x] = Bare(scope[x]) /\ Bared(scope)[x].k = scope[x].k
  BY <1>1, LineHere
<1>4. Cur.x \in Names BY <1>3 DEF Complete, Line
<1>5. scope[Cur.x] \in Symbol BY <1>3, <1>4
<1>6. b \in Bodies /\ scope[Cur.x].mark \in BOOLEAN BY <1>2, <1>5, SymbolFields
<1>7. arg \in Symbol
  <2>1. CASE Cur.y = None BY <2>1, SymbolTypes DEF ArgOf
  <2>2. CASE Cur.y # None BY <1>3, <2>2 DEF ArgOf
  <2>. QED  BY <2>1, <2>2
<1>8. Loads(arg) \in Seq(Instr) /\ TypesIn(Loads(arg)) = {} BY <1>7, BeforeTypes, BeforeQuiet
<1>9. Top.kind # "main" /\ At(prog, Top) = Cur
  <2>1. At(prog, Top) = Cur BY <1>1, <1>3, TopFacts
  <2>2. Len(stack) \in 2..Len(stack) BY <1>1, <1>3, TopFacts
  <2>. QED  BY <1>3, <2>1, <2>2 DEF Inv1, StackDiscipline, Top
<1>10. Bared(scope)[Cur.x].k = "fn" /\ Bared(scope)[Cur.x].at = b
  <2>1. Bare(scope[Cur.x]).at = scope[Cur.x].at BY <1>2, <1>5, BareFacts
  <2>. QED  BY <1>2, <1>3, <1>4, <2>1
<1>11. ArgOf(Cur, Bared(scope)) = Bare(arg) BY <1>3, BaredFacts
<1>. HIDE DEF arg, b
<1>12. Wanted(b, arg)
  <2>1. Evaluates(prog, Cur, Bared(scope)) BY <1>3, <1>10 DEF Evaluates
  <2>2. Callee(prog, Cur, Bared(scope)) = <<b, Opening(prog, b, Bare(arg))>> BY <1>3, <1>10, <1>11 DEF Callee
  <2>. QED  BY <1>9, <2>1, <2>2 DEF Wanted
<1>. QED  BY <1>2, <1>3, <1>6, <1>7, <1>8, <1>12, SurveyRight

\* The top-level value is evaluated.
LEMMA EnterTopRight == ASSUME Inv2, Right, EnterTop PROVE Right'
<1> DEFINE before == IF prog.eager[prog.top] THEN Scratch(prog.top) ELSE << >>
<1>1. status = "run" /\ Inv1 /\ Top.kind = "main" BY DEF EnterTop, Inv2
<1>2. CASE Throw BY <1>2, ThrowRight
<1>3. CASE Survey(prog.top, FALSE, Absent, before)
  <2>1. prog.top \in Bodies BY <1>1 DEF Inv1, Typed, WellFormed, Program
  <2>2. before \in Seq(Instr) BY <2>1, BeforeTypes, CodeTypes
  <2>3. TypesIn(before) = {}
    <3>1. TypesIn(<< >>) = {} BY TypesFew
    <3>. QED  BY <3>1, BeforeQuiet
  <2>4. Absent \in Symbol /\ FALSE \in BOOLEAN /\ Wanted(prog.top, Absent) BY <1>1, SymbolTypes DEF Wanted
  <2>. HIDE DEF before
  <2>. QED  BY <1>1, <1>3, <2>1, <2>2, <2>3, <2>4, SurveyRight
<1>. QED  BY <1>2, <1>3 DEF EnterTop

\* What a survey pass finds is the type the table gives to the body.
LEMMA SurveyEnds ==
  ASSUME Inv1, NEW m, Agreed(m), EndSurvey, ~SurveyFails, NEW STATE t, t \in Surveyed(Top.fn),
         NEW k, k = KeyOf(prog, Caller, Top)
  PROVE  HasType(prog, m, k, t) /\ fns[Top.fn].pass = "survey"
<1> DEFINE g == Top.fn
           n == Len(stack)
           y == prog.rettype[Top.body]
<1>0. PICK kind : kind = "fn" OBVIOUS
<1>1. AtEnd(kind) /\ Top.survey /\ kind # "main" /\ kind # "else" BY <1>0 DEF EndSurvey
<1>2. Going(prog, fns, m, Caller, Top, Bared(scope)) /\ Over(prog, m, k) /\ k[1] = Top.body
      /\ Written(prog, m, Caller, Top) = Rets(m, k)
  BY <1>1, TopOver
<1>3. Top.kind = "fn" BY <1>0, <1>1 DEF AtEnd
<1>4. fns[g].pass = "survey" /\ fns[g].rty = (IF y = None THEN Void ELSE y)
  BY <1>1, <1>2, <1>3 DEF Going, Passing
<1>5. /\ g \in DOMAIN fns /\ n \in Nat /\ n > 1 /\ \A i \in 1..(n - 1) : stack[i].fn # g
  BY <1>0, <1>1, FnTop, StackFacts
<1>6. Tallied(m, g) BY <1>4, <1>5 DEF Agreed
<1>7. stack[n] = Top /\ stack[n - 1] = Caller /\ n \in 2..n BY <1>5 DEF Top, Caller
<1>8. Rets(m, k) \subseteq From(blocks, g) BY <1>2, <1>6, <1>7 DEF Tallied
<1>9. ASSUME NEW u \in From(blocks, g), u # fns[g].rty PROVE u \in Rets(m, k)
  <2>1. PICK i \in 2..Len(stack) : stack[i].fn = g /\ u \in Written(prog, m, stack[i - 1], stack[i])
    BY <1>6, <1>9 DEF Tallied
  <2>2. i \notin 1..(n - 1) BY <1>5, <2>1
  <2>3. i = n BY <1>5, <2>2
  <2>. QED  BY <1>2, <1>7, <2>1, <2>3
<1>10. RetTypes(g) = From(blocks, g) BY DEF RetTypes, From, TypesIn, Spots, BlocksOf, Owned
<1>. HIDE DEF g, n, y
<1>11. \A u \in Surveyed(g) : u = t BY DEF SurveyFails, g
<1>12. y # None => Surveyed(g) = {y} BY DEF SurveyFails, g, y
<1>13. Surveyed(g) = IF From(blocks, g) = {} THEN {Void} ELSE From(blocks, g) BY <1>10 DEF Surveyed
<1>14. \A u \in From(blocks, g) : u = t
  <2>1. CASE From(blocks, g) = {} BY <2>1
  <2>2. CASE From(blocks, g) # {} BY <1>11, <1>13, <2>2
  <2>. QED  BY <2>1, <2>2
<1>15. Rets(m, k) \subseteq {t} BY <1>8, <1>14
<1>16. t \in Surveyed(g) BY DEF g
<1>17. y # None => t = y BY <1>12, <1>16
<1>18. ASSUME y = None, Rets(m, k) = {} PROVE t = Void
  <2>1. CASE From(blocks, g) = {} BY <1>13, <1>16, <2>1
  <2>2. CASE From(blocks, g) # {}
    <3>1. t \in From(blocks, g) BY <1>13, <1>16, <2>2
    <3>2. t = fns[g].rty BY <1>9, <1>18, <3>1
    <3>. QED  BY <1>4, <1>18, <3>2
  <2>. QED  BY <2>1, <2>2
<1>19. prog.rettype[k[1]] = y BY <1>2 DEF y
<1>20. HasType(prog, m, k, t)
  <2>1. CASE y = None BY <1>2, <1>15, <1>18, <1>19, <2>1 DEF HasType
  <2>2. CASE y # None BY <1>2, <1>15, <1>17, <1>19, <2>2 DEF HasType
  <2>. QED  BY <2>1, <2>2
<1>. QED  BY <1>4, <1>20 DEF g

\* From bs to cs the functions in gone are erased and nothing else changes in what functions return.
Drops(bs, cs, gone) ==
  /\ IsCode(cs) /\ Owners(cs) \subseteq Owners(bs) \ gone
  /\ \A h : h \notin gone => From(cs, h) = From(bs, h)
  /\ \A hs : Blank(bs, hs) => Blank(cs, hs)

\* The module loses the functions in gone: the one whose pass is over, if it was a survey, or none.
Dismisses(gone) ==
  /\ gone \subseteq {Top.fn} /\ (Top.fn \in gone \/ fns[Top.fn].pass # "survey")
  /\ DOMAIN fns' = DOMAIN fns \ gone /\ \A h \in DOMAIN fns' : fns'[h] = fns[h]

\* The line of a caller whose function was evaluated, with the type t.
LEMMA CalledLine ==
  ASSUME NEW P, NEW m, NEW c, NEW f, f.kind = "fn", c.kind # "main", Begun(P, c, f),
         NEW l, l = At(P, c), l.op \in {"fun", "call", "retcall"}, NEW s, s = Bared(f.prev),
         NEW t, HasType(P, m, KeyOf(P, c, f), t), NEW u, u = Assigned(P, l, s, t),
         NEW R, R = IF l.op = "retcall" THEN {t} ELSE {}
  PROVE  Explained(P, m, l, s, u, R)
<1>1. Evaluates(P, l, s) BY DEF Begun
<1>2. KeyOf(P, c, f) = Callee(P, l, s) BY DEF KeyOf
<1>3. Parts(l, s) = {} BY DEF Parts
<1>. QED  BY <1>1, <1>2, <1>3 DEF Explained

\* Back in its caller a function that was evaluated is called or stored.
LEMMA CalledRight ==
  ASSUME Inv2, Right, NEW CONSTANT kind, kind = "fn", AtEnd(kind), Caller.kind # "main", Pop, prog' = prog, status' = status,
         NEW STATE gone, Dismisses(gone), NEW STATE bs, Drops(blocks, bs, gone), Has(bs, Top.pb, Caller.fn),
         NEW STATE is, is \in Seq(Instr), blocks' = AppendTo(bs, Top.pb, is),
         NEW t, \A m : Agreed(m) => HasType(prog, m, KeyOf(prog, Caller, Top), t),
         TypesIn(is) = (IF LineOf(Caller).op = "retcall" THEN {t} ELSE {}),
         Bared(scope') = Assigned(prog, LineOf(Caller), Bared(Top.prev), t)
  PROVE  Right'
<1> DEFINE n == Len(stack) - 1
           f == [stack[n] EXCEPT !.pos = @ + 1]
           s == Bared(Top.prev)
           l == LineOf(Caller)
           R == TypesIn(is)
           h == Caller.fn
<1>0. Inv1 /\ kind # "main" BY DEF Inv2
<1>1. status = "run" /\ Top.kind = "fn" BY DEF AtEnd
<1>2. Len(stack) \in Nat /\ n \in Nat /\ Len(stack) = n + 1 BY <1>0, StackFacts
<1>3. /\ n \in 2..Len(stack) /\ stack[n] = Caller /\ Caller.pos <= Len(prog.body[Caller.body]) /\ l = At(prog, Caller)
      /\ Now(n) = s /\ Started(Caller, Top) /\ h \in DOMAIN fns
  BY <1>0, CallerFacts
<1>4. PICK m : Agreed(m) BY <1>1 DEF Right
<1>5. Going(prog, fns, m, Caller, Top, Bared(scope)) BY <1>0, <1>4, TopOver
<1>6. l.op \in {"fun", "call", "retcall"} BY <1>1, <1>3 DEF Started, At
<1>7. Shape(stack', n, f) /\ Hanging' \subseteq Hanging BY <1>0, PopShape
<1>8. f = [stack[n] EXCEPT !.pos = @ + 1] OBVIOUS
<1>9. \A i \in 1..n : stack[i].fn \in DOMAIN fns /\ stack[i].fn # Top.fn BY <1>0, FnTop
<1>10. h # Top.fn
  <2>1. n \in 1..n BY <1>2, <1>3
  <2>. QED  BY <1>3, <1>9, <2>1
<1>11. h \notin gone /\ fns'[h] = fns[h] /\ h \in DOMAIN fns' BY <1>3, <1>10 DEF Dismisses
<1>. HIDE DEF n, f, s, l, R, h
<1>12. Explained(prog, m, l, s, Bared(scope'), R)
  <2>1. PICK u : u = Bared(scope') OBVIOUS
  <2>2. u = Assigned(prog, l, s, t) BY <2>1 DEF l, s
  <2>3. Begun(prog, Caller, Top) BY <1>5 DEF Going
  <2>4. HasType(prog, m, KeyOf(prog, Caller, Top), t) BY <1>4
  <2>5. R = IF l.op = "retcall" THEN {t} ELSE {} BY DEF R, l
  <2>6. l = At(prog, Caller) /\ s = Bared(Top.prev) BY <1>3 DEF s
  <2>7. Explained(prog, m, l, s, u, R) BY <1>1, <1>6, <2>2, <2>3, <2>4, <2>5, <2>6, CalledLine
  <2>. QED  BY <2>1, <2>7
<1>13. Explained(prog, m, At(prog, stack[n]), Now(n), Bared(scope'), R) BY <1>3, <1>12
<1>14. fns[h].pass = "real" => R \subseteq {fns[h].rty}
  <2>1. PICK u : u = Bared(scope') OBVIOUS
  <2>2. Explained(prog, m, At(prog, stack[n]), Now(n), u, R) BY <1>13, <2>1
  <2>3. stack[n].pos <= Len(prog.body[stack[n].body]) BY <1>3
  <2>4. fns[stack[n].fn].pass = "real" => R \subseteq {fns[stack[n].fn].rty} BY <1>0, <1>1, <1>3, <1>4, <2>2, <2>3, LineLearn
  <2>. QED  BY <1>3, <2>4 DEF h
<1>15. Wrote(h, R, gone)
  <2>1. Top.pb \in DOMAIN bs /\ bs[Top.pb].fn = h /\ IsCode(bs) BY DEF Has, h, Drops
  <2>2. /\ Adds(bs, blocks', h, R) /\ Owners(blocks') = Owners(bs)
        /\ \A hs : Blank(bs, hs) /\ Top.pb \notin hs => Blank(blocks', hs)
    <3>1. Adds(bs, blocks', bs[Top.pb].fn, TypesIn(is)) BY <2>1, FromAppend
    <3>2. Owners(blocks') = Owners(bs) BY <2>1, FromAppend
    <3>3. \A hs : Blank(bs, hs) /\ (Top.pb \notin hs \/ TypesIn(is) = {}) => Blank(blocks', hs) BY <2>1, FromAppend
    <3>. QED  BY <2>1, <3>1, <3>2, <3>3 DEF R
  <2>3. From(blocks', h) = From(blocks, h) \cup R BY <1>11, <2>2 DEF Adds, Drops
  <2>4. \A g : g # h /\ g \notin gone => From(blocks', g) = From(blocks, g) BY <2>2 DEF Adds, Drops
  <2>5. Owners(blocks') \subseteq (Owners(blocks) \cup {h}) \ gone BY <2>2 DEF Drops
  <2>6. Blank(blocks', Hanging')
    <3>1. Blank(blocks, Hanging) BY <1>1 DEF Right
    <3>2. Len(stack) \in 2..Len(stack) BY <1>2, <1>3
    <3>3. Top.pb \notin Hanging BY <1>0, <1>1, <3>2, HangingFacts DEF Top
    <3>4. Blank(blocks', Hanging) BY <2>2, <3>1, <3>3 DEF Drops
    <3>. QED  BY <1>7, <3>4, BlankFewer
  <2>. QED  BY <2>3, <2>4, <2>5, <2>6 DEF Wrote
<1>16. SurveysOn(gone) BY DEF SurveysOn, Dismisses
<1>17. Homes' /\ RealTypes'
  <2>1. Homes /\ RealTypes BY DEF Right
  <2>2. (DOMAIN fns \cup {h}) \ gone \subseteq DOMAIN fns' BY <1>11 DEF Dismisses
  <2>3. \A g \in DOMAIN fns' : fns'[g].pass = "real" =>
          \/ From(blocks', g) = {}
          \/ g \in DOMAIN fns /\ fns'[g] = fns[g] /\ g \notin gone /\ (g = h => R \subseteq {fns[g].rty})
    BY <1>14 DEF Dismisses
  <2>. QED  BY <1>15, <2>1, <2>2, <2>3, RealStep
<1>18. \E w : Agreed(w)'
  <2>1. Wrote(stack[n].fn, R, gone) BY <1>3, <1>15 DEF h
  <2>2. fns[stack[n].fn].pass = "survey" => R \subseteq From(blocks', stack[n].fn) /\ R \subseteq R \cup {fns[stack[n].fn].rty}
    BY <1>3, <1>15 DEF Wrote, h
  <2>3. ASSUME NEW i \in (n + 1)..Len(stack), stack[i].fn \in DOMAIN fns', fns'[stack[i].fn].pass = "survey"
        PROVE  stack[i].fn = stack[n].fn /\ Written(prog, m, stack[i - 1], stack[i]) \subseteq R
    <3>1. i = Len(stack) BY <1>2
    <3>2. Top.fn \in DOMAIN fns' /\ fns'[Top.fn].pass = "survey" BY <2>3, <3>1 DEF Top
    <3>. QED  BY <3>2 DEF Dismisses
  <2>4. stack[n].pos <= Len(prog.body[stack[n].body]) BY <1>3
  <2>5. \A i \in 1..n : fns'[stack[i].fn] = fns[stack[i].fn] BY <1>9 DEF Dismisses
  <2>. QED  BY <1>0, <1>1, <1>3, <1>4, <1>7, <1>8, <1>13, <1>16, <2>1, <2>2, <2>3, <2>4, <2>5, LineDone DEF f
<1>19. Blank(blocks', Hanging') BY <1>15 DEF Wrote
<1>. QED  BY <1>17, <1>18, <1>19 DEF Right

\* A function is over, and its code with it: what the other functions return is as it was.
LEMMA DroppedTypes ==
  ASSUME Homes, RealTypes, NEW STATE gone, Dismisses(gone), Drops(blocks, blocks', gone)
  PROVE  Homes' /\ RealTypes'
<1>1. Homes' BY DEF Homes, Dismisses, Drops
<1>2. ASSUME NEW h \in DOMAIN fns', fns'[h].pass = "real" PROVE From(blocks', h) \subseteq {fns'[h].rty}
  <2>1. h \in DOMAIN fns /\ h \notin gone /\ fns'[h] = fns[h] BY DEF Dismisses
  <2>2. From(blocks', h) = From(blocks, h) BY <2>1 DEF Drops
  <2>. QED  BY <1>2, <2>1, <2>2 DEF RealTypes
<1>. QED  BY <1>1, <1>2 DEF RealTypes

\* The top-level value is translated: no routine is in progress but main.
LEMMA TopRight ==
  ASSUME Inv2', Homes', RealTypes', Len(stack') = 1, status' = "run", prog' = prog, NEW m, Agreed(m)
  PROVE  Right'
<1>1. \A i \in 2..Len(stack') : FALSE OBVIOUS
<1>2. Hanging' = {} BY <1>1 DEF Hanging
<1>3. Blank(blocks', Hanging') BY <1>2 DEF Blank
<1>4. Table(prog, m)' BY DEF Agreed
<1>5. \A g \in DOMAIN fns' : fns'[g].pass # "survey"
  <2>1. SurveysErased' /\ stack'[1].kind = "main" BY DEF Inv2, Inv1, StackDiscipline
  <2>2. \A j \in 1..Len(stack') : stack'[j].kind # "fn"
    <3>1. \A j \in 1..Len(stack') : j = 1 OBVIOUS
    <3>. QED  BY <2>1, <3>1
  <2>. QED  BY <2>1, <2>2 DEF SurveysErased
<1>6. Agreed(m)'
  <2>1. \A i \in 2..Len(stack') : Going(prog', fns', m, stack'[i - 1], stack'[i], Now(i)') BY <1>1
  <2>2. \A g \in DOMAIN fns' : fns'[g].pass = "survey" => Tallied(m, g)' BY <1>5
  <2>. QED  BY <1>4, <2>1, <2>2 DEF Agreed
<1>. QED  BY <1>3, <1>6 DEF Right

\* The code that calls a function, or keeps it, returns what the line of its caller says.
LEMMA UsedCode ==
  ASSUME NEW f \in Nat, NEW t \in Types, NEW b \in Nat
  PROVE  /\ <<CallOf(f, t)>> \in Seq(Instr) /\ TypesIn(<<CallOf(f, t)>>) = {}
         /\ <<CallOf(f, t)>> \o <<Ret(t)>> \in Seq(Instr) /\ TypesIn(<<CallOf(f, t)>> \o <<Ret(t)>>) = {t}
         /\ <<[Refer("store", {b}) EXCEPT !.fn = {f}]>> \in Seq(Instr)
         /\ TypesIn(<<[Refer("store", {b}) EXCEPT !.fn = {f}]>>) = {}
         /\ <<Plain("alloca")>> \o <<[Refer("store", {b}) EXCEPT !.fn = {f}]>> \in Seq(Instr)
         /\ TypesIn(<<Plain("alloca")>> \o <<[Refer("store", {b}) EXCEPT !.fn = {f}]>>) = {}
<1> DEFINE c == <<CallOf(f, t)>>
           r == <<Ret(t)>>
           i == [Refer("store", {b}) EXCEPT !.fn = {f}]
           a == <<Plain("alloca")>>
<1>1. c \in Seq(Instr) /\ r \in Seq(Instr) /\ a \in Seq(Instr) BY InstrTypes, CodeTypes DEF Kinds
<1>2. TypesIn(c) = {} /\ TypesIn(r) = {t} /\ TypesIn(a) = {} BY QuietCode, RetCode
<1>3. i \in Instr /\ i.k = "store" BY TypesAssumption DEF Refer, Instr, Kinds
<1>. HIDE DEF c, r, i, a
<1>4. <<i>> \in Seq(Instr) BY <1>3, CodeTypes
<1>5. TypesIn(<<i>>) = {}
  <2>1. i.k # "ret" BY <1>3
  <2>. QED  BY <2>1, TypesFew
<1>6. c \o r \in Seq(Instr) /\ a \o <<i>> \in Seq(Instr) BY <1>1, <1>4, ConcatProperties
<1>7. TypesIn(c \o r) = {t} BY <1>1, <1>2, TypesCat
<1>8. TypesIn(a \o <<i>>) = {}
  <2>1. PICK o : o = <<i>> OBVIOUS
  <2>2. TypesIn(a \o o) = TypesIn(a) \cup TypesIn(o) BY <1>1, <1>4, <2>1, TypesCat
  <2>. QED  BY <1>2, <1>5, <2>1, <2>2
<1>. QED  BY <1>1, <1>2, <1>4, <1>5, <1>6, <1>7, <1>8 DEF c, r, i, a

\* A function that was evaluated, with the type t the table has for it, is handed to its caller.
LEMMA ReturnToRight ==
  ASSUME Inv2, Inv2', Right, NEW CONSTANT kind, kind = "fn", AtEnd(kind), prog' = prog,
         NEW STATE gone, Dismisses(gone), NEW STATE bs, Drops(blocks, bs, gone), Has(bs, Top.pb, Caller.fn),
         NEW STATE f, f \in Nat, NEW t, t \in Types, ReturnTo(bs, f, t),
         \A m : Agreed(m) => HasType(prog, m, KeyOf(prog, Caller, Top), t)
  PROVE  Right'
<1> DEFINE l == LineOf(Caller)
           takes == prog.param[Top.body] # None
           tab == Top.fn \in tables
           old == Top.prev[l.x]
           home == IF old.k = "ptr" THEN old.at ELSE Top.pb
           call == <<CallOf(f, t)>>
           final == call \o <<Ret(t)>>
           one == <<[Refer("store", {home}) EXCEPT !.fn = {f}]>>
           two == <<Plain("alloca")>> \o one
           sym == PtrIn(home, t, takes, tab)
<1>0. Inv1 /\ kind # "main" /\ status = "run" /\ Top.kind = "fn" BY DEF Inv2, AtEnd
<1>1. Homes /\ RealTypes /\ \E m : Agreed(m) BY <1>0 DEF Right
<1>2. PICK m : Agreed(m) BY <1>1
<1>3. CASE /\ Caller.kind = "main" /\ blocks' = bs /\ status' = status
           /\ stack' = [Below EXCEPT ![1] = [@ EXCEPT !.pos = 2, !.next = f]]
  <2>1. Len(stack) > 1 BY <1>0, EndFacts
  <2>2. FirstFrames(Len(stack) - 1) BY <1>0, <1>3, <2>1, MainKept
  <2>3. Len(stack') = 1
    <3>1. Len(stack) < 3 /\ Len(stack) \in Nat BY <1>0, <1>3, <2>1, StackFacts
    <3>2. Len(stack') = Len(stack) - 1 BY <2>2 DEF FirstFrames
    <3>. QED  BY <2>1, <3>1, <3>2
  <2>4. Homes' /\ RealTypes' BY <1>1, <1>3, DroppedTypes
  <2>5. status' = "run" BY <1>0, <1>3
  <2>. QED  BY <1>2, <2>3, <2>4, <2>5, TopRight
<1>4. ASSUME Caller.kind # "main"
      PROVE  /\ l \in Line /\ Complete(l) /\ l.op \in {"fun", "call", "retcall"} /\ Top.prev \in [Names -> Symbol]
             /\ l = At(prog, Caller)
  <2>1. Started(Caller, Top) /\ l = prog.body[Caller.body][Caller.pos] /\ l \in Line /\ Complete(l)
    BY <1>0, <1>4, EndFacts
  <2>2. Top \in Frame BY <1>0, StackFacts
  <2>. QED  BY <1>0, <2>1, <2>2 DEF Started, At, Frame
<1>5. CASE /\ Caller.kind # "main" /\ l.op # "fun" /\ Pop /\ scope' = Top.prev /\ status' = status
           /\ blocks' = AppendTo(bs, Top.pb, IF l.op = "retcall" THEN final ELSE call)
  <2> DEFINE is == IF l.op = "retcall" THEN final ELSE call
  <2>1. is \in Seq(Instr) /\ TypesIn(is) = IF l.op = "retcall" THEN {t} ELSE {}
    <3>1. call \in Seq(Instr) /\ TypesIn(call) = {} /\ final \in Seq(Instr) /\ TypesIn(final) = {t} BY UsedCode
    <3>. HIDE DEF call, final
    <3>. QED  BY <3>1
  <2>2. Bared(scope') = Assigned(prog, l, Bared(Top.prev), t) BY <1>5 DEF Assigned
  <2>3. blocks' = AppendTo(bs, Top.pb, is) BY <1>5
  <2>. HIDE DEF is
  <2>. QED  BY <1>5, <2>1, <2>2, <2>3, CalledRight
<1>6. CASE /\ Caller.kind # "main" /\ l.op = "fun" /\ Pop /\ scope' = [Top.prev EXCEPT ![l.x] = sym] /\ status' = status
           /\ blocks' = AppendTo(bs, Top.pb, IF old.k = "ptr" THEN one ELSE two)
  <2> DEFINE is == IF old.k = "ptr" THEN one ELSE two
  <2>1. l.x \in Names BY <1>4, <1>6 DEF Complete, Line
  <2>2. old \in Symbol BY <1>4, <1>6, <2>1
  <2>3. home \in Nat
    <3>1. Len(stack) > 1 BY <1>0, EndFacts
    <3>2. Top.pb \in Nat BY <1>0, <3>1, PoppedFns
    <3>. QED  BY <2>2, <3>2, SymbolFields
  <2>4. is \in Seq(Instr) /\ TypesIn(is) = IF l.op = "retcall" THEN {t} ELSE {}
    <3>1. one \in Seq(Instr) /\ TypesIn(one) = {} /\ two \in Seq(Instr) /\ TypesIn(two) = {}
      <4>. HIDE DEF home
      <4>. QED  BY <2>3, UsedCode
    <3>. HIDE DEF one, two
    <3>. QED  BY <1>6, <3>1
  <2>5. Bared(scope') = Assigned(prog, l, Bared(Top.prev), t)
    <3>1. Bare(sym) = PtrIn(0, t, takes, FALSE)
      <4>. HIDE DEF home, takes
      <4>. QED  BY DEF Bare, PtrIn
    <3>2. Bared(scope') = [Bared(Top.prev) EXCEPT ![l.x] = Bare(sym)]
      <4>. HIDE DEF sym, l
      <4>. QED  BY <1>4, <1>6, <2>1, BaredExcept
    <3>3. Top.body = l.a
      <4>1. Going(prog, fns, m, Caller, Top, Bared(scope)) BY <1>0, <1>2, TopOver
      <4>2. KeyOf(prog, Caller, Top)[1] = Top.body BY <4>1 DEF Going, Begun
      <4>3. KeyOf(prog, Caller, Top) = Callee(prog, l, Bared(Top.prev)) BY <1>0, <1>4, <1>6 DEF KeyOf
      <4>. QED  BY <1>6, <4>2, <4>3 DEF Callee
    <3>. QED  BY <1>6, <3>1, <3>2, <3>3 DEF Assigned
  <2>6. blocks' = AppendTo(bs, Top.pb, is) BY <1>6
  <2>. HIDE DEF is
  <2>. QED  BY <1>6, <2>4, <2>5, <2>6, CalledRight
<1>7. CASE blocks' = bs /\ status' = "error"
  <2>1. Homes' /\ RealTypes' BY <1>1, <1>7, DroppedTypes
  <2>. QED  BY <1>7, <2>1 DEF Right
<1>. QED  BY <1>3, <1>5, <1>6, <1>7 DEF ReturnTo

\* A survey function is erased.
LEMMA DismissDrops ==
  ASSUME IsCode(blocks), NEW STATE bs, bs = Erase(blocks, BlocksOf(Top.fn)), NEW STATE gone, gone = {Top.fn}
  PROVE  /\ Drops(blocks, bs, gone) /\ DOMAIN bs \subseteq DOMAIN blocks
         /\ \A b, h : Has(blocks, b, h) /\ h # Top.fn => Has(bs, b, h)
<1>1. PICK f : f = Top.fn OBVIOUS
<1>2. bs = Erase(blocks, Owned(blocks, f)) BY <1>1 DEF BlocksOf, Owned
<1>3. Leaves(blocks, bs, f) BY <1>2, LeavesErase
<1>4. DOMAIN bs = DOMAIN blocks \ Owned(blocks, f) BY <1>2, LeavesErase
<1>5. \A c \in DOMAIN bs : bs[c] = blocks[c] BY DEF Erase
<1>6. Drops(blocks, bs, gone) BY <1>1, <1>3 DEF Drops, Leaves
<1>7. \A b, h : Has(blocks, b, h) /\ h # Top.fn => Has(bs, b, h) BY <1>1, <1>4, <1>5 DEF Has, Owned
<1>. QED  BY <1>4, <1>6, <1>7

\* The survey of a marked literal is over.
LEMMA EndMarkedRight == ASSUME Inv2, Inv2', Right, EndMarked PROVE Right'
<1> DEFINE bs == Erase(blocks, BlocksOf(Top.fn))
<1>0. PICK kind : kind = "fn" OBVIOUS
<1>1. EndSurvey /\ ~SurveyFails /\ fns' = [g \in DOMAIN fns \ {Top.fn} |-> fns[g]] /\ prog' = prog
  BY DEF EndMarked, Dismissed
<1>2. AtEnd(kind) /\ status = "run" /\ Inv1 /\ IsCode(blocks)
  <2>1. AtEnd(kind) /\ status = "run" BY <1>0, <1>1 DEF EndSurvey, AtEnd
  <2>. QED  BY <2>1, Here DEF Good
<1>3. PICK t \in Surveyed(Top.fn) : ReturnTo(bs, 0, t) BY DEF EndMarked
<1>4. t \in Types /\ 0 \in Nat BY <1>2, <1>3, SurveyedTypes
<1>5. PICK gone : gone = {Top.fn} OBVIOUS
<1>6. Dismisses(gone) BY <1>1, <1>5 DEF Dismisses
<1>7. bs = Erase(blocks, BlocksOf(Top.fn)) OBVIOUS
<1>. HIDE DEF bs
<1>8. Drops(blocks, bs, gone) /\ \A b, h : Has(blocks, b, h) /\ h # Top.fn => Has(bs, b, h)
  BY <1>2, <1>5, <1>7, DismissDrops
<1>9. Has(bs, Top.pb, Caller.fn)
  <2>1. Len(stack) > 1 /\ Top.kind = "fn" BY <1>0, <1>2, EndFacts DEF AtEnd
  <2>2. Has(blocks, Top.pb, Caller.fn) /\ Caller.fn # Top.fn BY <1>2, <2>1, PoppedFns
  <2>. QED  BY <1>8, <2>2
<1>10. ASSUME NEW m, Agreed(m) PROVE HasType(prog, m, KeyOf(prog, Caller, Top), t)
  BY <1>1, <1>2, <1>3, <1>10, SurveyEnds
<1>. QED  BY <1>0, <1>1, <1>2, <1>3, <1>4, <1>6, <1>8, <1>9, <1>10, ReturnToRight

\* A real pass is over.
LEMMA EndRealRight == ASSUME Inv2, Inv2', Right, EndReal PROVE Right'
<1> DEFINE final == <<Plain("retvoid")>>
           bs == IF fns[Top.fn].rty = Void THEN AppendTo(blocks, ip, final) ELSE blocks
<1>0. PICK kind : kind = "fn" OBVIOUS
<1>1. AtEnd(kind) /\ ~Top.survey /\ ReturnTo(bs, Top.fn, fns[Top.fn].rty) /\ fns' = fns /\ prog' = prog BY <1>0 DEF EndReal
<1>2. Inv1 /\ IsCode(blocks) /\ ip \in DOMAIN blocks /\ blocks[ip].fn = Top.fn /\ Top.fn \in Nat /\ status = "run" /\ Top.kind = "fn"
  <2>1. status = "run" /\ Top.kind = "fn" BY <1>0, <1>1 DEF AtEnd
  <2>. QED  BY <2>1, Here DEF Good
<1>3. PICK t : t = fns[Top.fn].rty OBVIOUS
<1>4. t \in Types BY <1>0, <1>1, <1>2, <1>3, FnTop DEF Fn
<1>5. final \in Seq(Instr) /\ TypesIn(final) = {} BY InstrTypes, CodeTypes, QuietCode DEF Kinds
<1>6. Quiet(blocks, bs, Top.fn) /\ DOMAIN bs = DOMAIN blocks /\ Grows(blocks, bs)
  <2>1. CASE t = Void
    <3>1. bs = AppendTo(blocks, ip, final) BY <1>3, <2>1
    <3>. HIDE DEF bs, final
    <3>2. Quiet(blocks, bs, Top.fn) /\ DOMAIN bs = DOMAIN blocks BY <1>2, <1>5, <3>1, QuietAppend
    <3>3. Grows(blocks, bs) BY <1>2, <1>5, <3>1, AppendGrows
    <3>. QED  BY <3>2, <3>3
  <2>2. CASE t # Void
    <3>1. bs = blocks BY <1>3, <2>2
    <3>. HIDE DEF bs
    <3>2. Quiet(blocks, blocks, Top.fn) BY <1>2, QuietSelf
    <3>. QED  BY <3>1, <3>2 DEF Grows
  <2>. QED  BY <2>1, <2>2
<1>7. ReturnTo(bs, Top.fn, t) BY <1>1, <1>3
<1>. HIDE DEF bs
<1>8. PICK gone : gone = {} OBVIOUS
<1>9. Drops(blocks, bs, gone)
  <2>1. Top.fn \in Owners(blocks) BY <1>2 DEF Owners
  <2>. QED  BY <1>6, <1>8, <2>1 DEF Drops, Quiet
<1>10. Has(bs, Top.pb, Caller.fn)
  <2>1. Len(stack) > 1 BY <1>0, <1>1, <1>2, EndFacts
  <2>2. Has(blocks, Top.pb, Caller.fn) BY <1>2, <2>1, PoppedFns
  <2>. QED  BY <1>6, <2>2 DEF Has, Grows
<1>11. ASSUME NEW m, Agreed(m) PROVE HasType(prog, m, KeyOf(prog, Caller, Top), t) /\ fns[Top.fn].pass = "real"
  <2>1. kind # "main" BY <1>0
  <2>2. Going(prog, fns, m, Caller, Top, Bared(scope)) BY <1>1, <1>2, <1>11, <2>1, TopOver
  <2>3. Passing(prog, fns, m, KeyOf(prog, Caller, Top), Top) BY <1>2, <2>2 DEF Going
  <2>. QED  BY <1>1, <1>3, <2>3 DEF Passing
<1>12. Dismisses(gone)
  <2>1. PICK m : Agreed(m) BY <1>2 DEF Right
  <2>2. fns[Top.fn].pass = "real" BY <1>11, <2>1
  <2>. QED  BY <1>1, <1>8, <2>2 DEF Dismisses
<1>13. \A m : Agreed(m) => HasType(prog, m, KeyOf(prog, Caller, Top), t) BY <1>11
<1>. QED  BY <1>0, <1>1, <1>2, <1>4, <1>7, <1>9, <1>10, <1>12, <1>13, ReturnToRight

\* The symbols the real pass begins with are, but for storage and marks, those of the survey.
LEMMA SameSymbols ==
  ASSUME Inv1, NEW CONSTANT kind, kind = "fn", AtEnd(kind), Begun(prog, Caller, Top),
         NEW STATE arg, arg = (IF Caller.kind = "main" THEN Absent ELSE ArgOf(LineOf(Caller), Top.prev)),
         NEW STATE e, NEW k, k = KeyOf(prog, Caller, Top)
  PROVE  arg \in Symbol /\ k[2] = Bared(Formals(Top.body, arg, e))
<1>1. Top.kind = "fn" /\ kind # "main" BY DEF AtEnd
<1>2. Top.body \in Bodies /\ Top.prev \in [Names -> Symbol] BY StackFacts DEF Frame
<1>3. CASE Caller.kind = "main"
  <2>1. arg = Absent /\ arg \in Symbol /\ Bare(arg) = Absent BY <1>3, SymbolTypes, BareNone
  <2>2. k = <<Top.body, Opening(prog, Top.body, Absent)>> BY <1>1, <1>3 DEF KeyOf
  <2>3. Bared(Formals(Top.body, arg, e)) = Opening(prog, Top.body, Bare(arg)) BY <1>2, <2>1, OpeningBare
  <2>. QED  BY <2>1, <2>2, <2>3
<1>4. CASE Caller.kind # "main"
  <2> DEFINE l == LineOf(Caller)
             s == Bared(Top.prev)
  <2>1. l \in Line /\ l = At(prog, Caller) BY <1>1, <1>4, EndFacts DEF At
  <2>2. l.y \in Names \cup {None} BY <2>1 DEF Line
  <2>3. arg = ArgOf(l, Top.prev) BY <1>4
  <2>4. k = Callee(prog, l, s) BY <1>1, <1>4, <2>1 DEF KeyOf
  <2>5. k[1] = Top.body BY DEF Begun
  <2>6. arg \in Symbol
    <3>1. CASE l.y = None BY <2>3, <3>1, SymbolTypes DEF ArgOf
    <3>2. CASE l.y # None BY <1>2, <2>2, <2>3, <3>2 DEF ArgOf
    <3>. QED  BY <3>1, <3>2
  <2>7. ArgOf(l, s) = Bare(arg) BY <1>2, <2>2, <2>3, BaredFacts
  <2>. HIDE DEF l, s
  <2>8. k[2] = Opening(prog, k[1], ArgOf(l, s)) BY <2>4 DEF Callee
  <2>9. Bared(Formals(Top.body, arg, e)) = Opening(prog, Top.body, Bare(arg)) BY <1>2, <2>6, OpeningBare
  <2>. QED  BY <2>5, <2>6, <2>7, <2>8, <2>9
<1>. QED  BY <1>3, <1>4

\* From bs to cs the functions in gone give way to g, which returns nothing yet.
Replaces(bs, cs, gone, g) ==
  /\ \A h : h \notin gone => From(cs, h) = From(bs, h)
  /\ Owners(cs) \subseteq (Owners(bs) \cup {g}) \ gone
  /\ \A hs : Blank(bs, hs) => Blank(cs, hs)

\* The code of the real pass begins where that of the survey was erased.
LEMMA RealQuiet ==
  ASSUME NEW bs, NEW gone, NEW b1, Drops(bs, b1, gone), NEW entry, entry \notin DOMAIN b1, NEW g \in Nat, g \notin gone,
         NEW first \in Seq(Instr), TypesIn(first) = {}, NEW b2, b2 = Create(b1, {entry}, g),
         NEW b3, b3 = AppendTo(b2, entry, first)
  PROVE  Replaces(bs, b3, gone, g)
<1> DEFINE ids == {entry}
<1>1. Fresh(ids, b1) /\ IsCode(b1) BY DEF Fresh, Drops
<1>2. b2 = Create(b1, ids, g) /\ entry \in ids OBVIOUS
<1>. HIDE DEF ids
<1>3. Quiet(b1, b2, g) /\ DOMAIN b2 = DOMAIN b1 \cup ids BY <1>1, <1>2, QuietCreate
<1>4. IsCode(b2) /\ entry \in DOMAIN b2 BY <1>2, <1>3 DEF Quiet
<1>5. Quiet(b2, b3, g) BY <1>4, QuietAppend
<1>6. Quiet(b1, b3, g) BY <1>3, <1>5, QuietOn
<1>7. \A h : h \notin gone => From(b3, h) = From(bs, h) BY <1>6 DEF Quiet, Drops
<1>8. Owners(b3) \subseteq (Owners(bs) \cup {g}) \ gone BY <1>6 DEF Quiet, Drops
<1>9. \A hs : Blank(bs, hs) => Blank(b3, hs) BY <1>6 DEF Quiet, Drops
<1>. QED  BY <1>7, <1>8, <1>9 DEF Replaces

\* The survey is over and the real pass begins: it will find what the survey found.
LEMMA StartRealRight == ASSUME Inv2, Right, StartReal PROVE Right'
<1> DEFINE entry == nblk + 1
           g == nfn + 1
           arg == IF Caller.kind = "main" THEN Absent ELSE ArgOf(LineOf(Caller), Top.prev)
           f == RealOf(Top, g, entry)
           first == <<Plain("alloca"), [Plain("store") EXCEPT !.fn = {g}]>>
           b1 == Erase(blocks, BlocksOf(Top.fn))
           b2 == Create(b1, {entry}, g)
           n == Len(stack)
           gone == {Top.fn}
           k == KeyOf(prog, Caller, Top)
<1>0. PICK kind : kind = "fn" OBVIOUS
<1>1. /\ AtEnd(kind) /\ EndSurvey /\ ~SurveyFails /\ blocks' = AppendTo(b2, entry, first)
      /\ scope' = Formals(Top.body, arg, entry) /\ stack' = [stack EXCEPT ![n] = f] /\ prog' = prog /\ status' = status
  BY <1>0 DEF StartReal, EndSurvey, RealOf, Top
<1>2. PICK t \in Surveyed(Top.fn) :
        fns' = [h \in (DOMAIN fns \ {Top.fn}) \cup {g} |-> IF h = g THEN [pass |-> "real", rty |-> t] ELSE fns[h]]
  BY DEF StartReal, Dismissed
<1>3. status = "run" /\ Top.kind = "fn" /\ kind # "main" BY <1>0, <1>1 DEF AtEnd
<1>4. /\ Inv1 /\ IsCode(blocks) /\ nblk \in Nat /\ DOMAIN blocks \subseteq 1..nblk /\ DOMAIN fns \subseteq 1..nfn
  BY <1>3, Here DEF Good, Inv1, Typed
<1>5. /\ n \in Nat /\ n > 1 /\ Top \in Frame /\ Top.fn \in Nat /\ Top.fn <= nfn /\ nfn \in Nat /\ Top.fn \in DOMAIN fns
      /\ \A i \in 1..(n - 1) : stack[i].fn \in DOMAIN fns /\ stack[i].fn # Top.fn
  <2>1. nfn \in Nat /\ n \in Nat /\ Top \in Frame BY <1>4, FnFacts, StackFacts
  <2>. QED  BY <1>0, <1>1, <1>4, <2>1, FnTop
<1>6. entry \in Nat /\ g \in Nat /\ entry \notin DOMAIN blocks /\ g # Top.fn /\ g \notin DOMAIN fns BY <1>4, <1>5
<1>7. /\ f \in Frame /\ f.kind = "fn" /\ f.body = Top.body /\ f.pos = 1 /\ f.fn = g /\ f.prev = Top.prev /\ ~f.survey
  BY <1>3, <1>5, <1>6 DEF RealOf, Frame
<1>8. first \in Seq(Instr) /\ TypesIn(first) = {}
  <2> DEFINE i == Plain("alloca")
             j == [Plain("store") EXCEPT !.fn = {g}]
  <2>1. j \in Instr /\ j.k = "store" BY <1>6, TypesAssumption DEF Plain, Instr, Kinds
  <2>2. i \in Instr /\ i.k = "alloca" BY InstrTypes, KindsOf DEF Kinds
  <2>3. first = <<i, j>> OBVIOUS
  <2>. HIDE DEF i, j, first
  <2>4. TypesIn(<<i, j>>) = {}
    <3>1. i.k # "ret" /\ j.k # "ret" BY <2>1, <2>2
    <3>. QED  BY <3>1, TypesFew
  <2>. QED  BY <2>1, <2>2, <2>3, <2>4, CodeTypes
<1>9. b1 = Erase(blocks, BlocksOf(Top.fn)) /\ b2 = Create(b1, {entry}, g) /\ gone = {Top.fn} /\ g \notin gone BY <1>6
<1>10. k = KeyOf(prog, Caller, Top) /\ Caller = stack[n - 1] /\ Top = stack[n] BY DEF Caller, Top
<1>11. stack' = [stack EXCEPT ![Len(stack)] = f] BY <1>1
<1>12. DOMAIN fns' = (DOMAIN fns \ gone) \cup {g} /\ fns'[g].pass = "real" /\ fns'[g].rty = t
       /\ \A h \in DOMAIN fns' : h # g => fns'[h] = fns[h]
  BY <1>2
<1>13. arg = (IF Caller.kind = "main" THEN Absent ELSE ArgOf(LineOf(Caller), Top.prev)) OBVIOUS
<1>. HIDE DEF entry, g, arg, f, first, b1, b2, gone, k
<1>14. Drops(blocks, b1, gone) /\ DOMAIN b1 \subseteq DOMAIN blocks BY <1>4, <1>9, DismissDrops
<1>15. /\ \A h : h \notin gone => From(blocks', h) = From(blocks, h)
       /\ Owners(blocks') \subseteq (Owners(blocks) \cup {g}) \ gone
       /\ \A hs : Blank(blocks, hs) => Blank(blocks', hs)
  <2>1. entry \notin DOMAIN b1 BY <1>6, <1>14
  <2>2. PICK cs : cs = blocks' OBVIOUS
  <2>3. cs = AppendTo(b2, entry, first) BY <1>1, <2>2
  <2>4. Replaces(blocks, cs, gone, g) BY <1>6, <1>8, <1>9, <1>14, <2>1, <2>3, RealQuiet
  <2>. QED  BY <2>2, <2>4 DEF Replaces
<1>16. Shape(stack', n, f) BY <1>4, <1>7, <1>11, ReplaceShape
<1>17. Hanging' \subseteq Hanging
  <2>1. \A i \in 1..n : Resembles(stack'[i], stack[i])
    <3>1. \A i \in 1..(n - 1) : Resembles(stack'[i], stack[i]) BY <1>16, AlikeSelf DEF Shape, Alike
    <3>2. Resembles(stack'[n], stack[n])
      <4>1. stack'[n] = f /\ stack[n] = Top BY <1>10, <1>16 DEF Shape
      <4>2. Resembles(f, Top) BY <1>3, <1>5, <1>6 DEF Resembles, f, RealOf, Frame, Pending
      <4>. QED  BY <4>1, <4>2
    <3>3. \A i \in 1..n : i \in 1..(n - 1) \/ i = n BY <1>5
    <3>. QED  BY <3>1, <3>2, <3>3
  <2>2. Len(stack') = n /\ n \in 1..Len(stack) BY <1>5, <1>16 DEF Shape
  <2>. QED  BY <1>4, <2>1, <2>2, KeptPlaces
<1>18. Wrote(g, {}, gone)
  <2>1. Blank(blocks, Hanging) BY <1>3 DEF Right
  <2>2. Blank(blocks', Hanging') BY <1>15, <1>17, <2>1, BlankFewer
  <2>. QED  BY <1>9, <1>15, <2>2 DEF Wrote
<1>19. From(blocks', g) = {}
  <2>1. g \notin Owners(blocks) BY <1>6 DEF Right, Homes
  <2>2. From(blocks, g) = {} BY <2>1, FromNone
  <2>. QED  BY <1>9, <1>15, <2>2
<1>20. SurveysOn(gone) BY <1>12 DEF SurveysOn
<1>21. Homes' /\ RealTypes'
  <2>1. Homes /\ RealTypes BY DEF Right
  <2>2. (DOMAIN fns \cup {g}) \ gone \subseteq DOMAIN fns' BY <1>12
  <2>3. \A h \in DOMAIN fns' : fns'[h].pass = "real" =>
          \/ From(blocks', h) = {}
          \/ h \in DOMAIN fns /\ fns'[h] = fns[h] /\ h \notin gone /\ (h = g => {} \subseteq {fns[h].rty})
    BY <1>12, <1>19
  <2>. QED  BY <1>18, <2>1, <2>2, <2>3, RealStep
<1>22. PICK m : Agreed(m) BY <1>3 DEF Right
<1>23. WellFormed(prog) /\ Table(prog, m) /\ Extends(m, m)
  <2>1. WellFormed(prog) /\ Table(prog, m) BY <1>4, <1>22 DEF Inv1, Typed, Agreed
  <2>2. Bounded(prog, m) BY <2>1 DEF Table
  <2>. QED  BY <2>1, <2>2, ExtendsSelf
<1>24. Going(prog, fns, m, Caller, Top, Bared(scope)) /\ Over(prog, m, k) /\ k[1] = Top.body
  BY <1>1, <1>3, <1>4, <1>10, <1>22, TopOver
<1>25. HasType(prog, m, k, t) BY <1>1, <1>2, <1>4, <1>10, <1>22, SurveyEnds
<1>26. KeyOf(prog, Caller, f) = k BY <1>3, <1>7, <1>10 DEF KeyOf
<1>27. Going(prog, fns', m, Caller, f, Bared(scope'))
  <2>1. Begun(prog, Caller, Top) BY <1>24 DEF Going
  <2>2. Begun(prog, Caller, f) BY <1>3, <1>7, <1>10, <1>26, <2>1 DEF Begun
  <2>3. k[2] = Bared(Formals(Top.body, arg, entry)) BY <1>0, <1>1, <1>4, <1>10, <1>13, <2>1, SameSymbols
  <2>4. Reached(m, k, 1, k[2])
    <3>1. k \in DOMAIN m BY <1>24 DEF Over
    <3>. QED  BY <1>23, <3>1, BodyBegins
  <2>5. Reached(m, k, f.pos, Bared(scope')) BY <1>1, <1>7, <2>3, <2>4
  <2>6. Passing(prog, fns', m, k, f) BY <1>7, <1>12, <1>25 DEF Passing
  <2>7. Settled(prog, fns', m, k, f) BY <1>7, <1>12, <1>25 DEF Settled, HasType
  <2>. QED  BY <1>7, <1>26, <2>2, <2>5, <2>6, <2>7 DEF Going
<1>28. Agreed(m)'
  <2>1. n \in 2..(Len(stack) + 1) /\ ~(n > Len(stack)) BY <1>5
  <2>2. f.prev = (IF n > Len(stack) THEN scope ELSE stack[n].prev) BY <1>7, <1>10, <2>1
  <2>3. \A i \in 1..(n - 1) : fns'[stack[i].fn] = fns[stack[i].fn] BY <1>5, <1>6, <1>9, <1>12
  <2>4. Going(prog, fns', m, stack[n - 1], f, Bared(scope')) BY <1>10, <1>27
  <2>5. Wrote(f.fn, {}, gone) BY <1>7, <1>18
  <2>6. Accounts(m, stack[n - 1], f, {}) BY <1>7, <1>12 DEF Accounts
  <2>7. HandsOver(m, m, n, f)
    <3>1. \A i \in n..Len(stack) : i = n BY <1>5
    <3>2. stack[n].fn \notin DOMAIN fns' BY <1>9, <1>10, <1>12
    <3>. QED  BY <3>1, <3>2 DEF HandsOver
  <2>. HIDE DEF n
  <2>. QED  BY <1>1, <1>3, <1>4, <1>16, <1>20, <1>22, <1>23, <2>1, <2>2, <2>3, <2>4, <2>5, <2>6, <2>7, StepAgrees
<1>29. Blank(blocks', Hanging') BY <1>18 DEF Wrote
<1>. QED  BY <1>21, <1>28, <1>29 DEF Right

----------------------------------------------------------------------------
(* main, the steps that end a run, and the invariant.                         *)

\* Function 1 is main: it is neither a survey nor a real pass.
MainFn == 1 \in DOMAIN fns => fns[1].pass = "main"

\* A step adds no function to the module but the next one.
Adding == \A g \in DOMAIN fns' : (g \in DOMAIN fns /\ fns'[g] = fns[g]) \/ g = nfn + 1

\* Every step.
LEMMA NextAdds == ASSUME [Next]_vars PROVE Adding
<1>0. ASSUME fns' = fns PROVE Adding BY <1>0 DEF Adding
<1>1. ASSUME NEW STATE b, NEW STATE mark, NEW STATE arg, NEW STATE before, Survey(b, mark, arg, before) PROVE Adding
  <2>1. PICK t : fns' = [g \in DOMAIN fns \cup {nfn + 1} |-> IF g = nfn + 1 THEN t ELSE fns[g]] BY <1>1 DEF Survey
  <2>. QED  BY <2>1 DEF Adding
<1>2. CASE Use \/ Set \/ Heap \/ HeapCrash \/ ImportHeader \/ Bind
  BY <1>0, <1>2 DEF Use, Set, Heap, HeapCrash, ImportHeader, Bind, Emit, Throw, Crash, Stop
<1>3. CASE Return \/ ReturnSelf \/ Bad \/ Select BY <1>0, <1>3 DEF Return, ReturnSelf, Bad, Select, Emit, Throw, Stop
<1>4. CASE CallError \/ CallPointer \/ Overflow \/ SurveyError
  BY <1>0, <1>4 DEF CallError, CallPointer, Overflow, SurveyError, Emit, Throw, Stop
<1>5. CASE \/ EnterScope \/ ScopeCrash \/ LeaveScope \/ EnterCond \/ EndThen \/ EndElse
           \/ EnterImport \/ ImportFails \/ LeaveImport
  BY <1>0, <1>5 DEF EnterScope, ScopeCrash, LeaveScope, EnterCond, EndThen, EndElse, EnterImport, ImportFails,
                    LeaveImport, Throw, Crash, Stop
<1>6. CASE EvalLiteral
  <2>1. Survey(Cur.a, Marked, Absent, Scratch(Cur.a)) BY <1>6 DEF EvalLiteral
  <2>. QED  BY <1>1, <2>1
<1>7. CASE CallLazy
  <2>1. Survey(scope[Cur.x].at, scope[Cur.x].mark, ArgOf(Cur, scope), Loads(ArgOf(Cur, scope))) BY <1>7 DEF CallLazy
  <2>. QED  BY <1>1, <2>1
<1>8. CASE EnterTop
  <2> DEFINE before == IF prog.eager[prog.top] THEN Scratch(prog.top) ELSE << >>
  <2>1. Throw \/ Survey(prog.top, FALSE, Absent, before) BY <1>8 DEF EnterTop
  <2>2. CASE Throw BY <1>0, <2>2 DEF Throw, Stop
  <2>. HIDE DEF before
  <2>. QED  BY <1>1, <2>1, <2>2
<1>9. CASE EndMarked
  <2>1. fns' = [g \in DOMAIN fns \ {Top.fn} |-> fns[g]] BY <1>9 DEF EndMarked, Dismissed
  <2>. QED  BY <2>1 DEF Adding
<1>10. CASE StartReal
  <2>1. PICK t : fns' = [g \in (DOMAIN fns \ {Top.fn}) \cup {nfn + 1} |->
                           IF g = nfn + 1 THEN [pass |-> "real", rty |-> t] ELSE fns[g]]
    BY <1>10 DEF StartReal, Dismissed
  <2>. QED  BY <2>1 DEF Adding
<1>11. CASE EndReal BY <1>0, <1>11 DEF EndReal
<1>12. CASE CreateMainRet
  <2>1. fns' = fns \/ fns' = [g \in DOMAIN fns \ {1} |-> fns[g]] BY <1>12 DEF CreateMainRet
  <2>2. CASE fns' = [g \in DOMAIN fns \ {1} |-> fns[g]] BY <2>2 DEF Adding
  <2>. QED  BY <1>0, <2>1, <2>2
<1>13. CASE Verify \/ Finished \/ UNCHANGED vars BY <1>0, <1>13 DEF Verify, Stop, Finished, vars
<1>. QED  BY <1>2, <1>3, <1>4, <1>5, <1>6, <1>7, <1>8, <1>9, <1>10, <1>11, <1>12, <1>13 DEF Next

\* main stays main.
LEMMA MainStays == ASSUME Inv1, MainFn, [Next]_vars PROVE MainFn'
<1>1. nfn \in Nat /\ stack[1].fn <= nfn /\ stack[1].fn = 1
  <2>1. 1 \in 1..Len(stack) BY StackFacts
  <2>. QED  BY <2>1, FnFacts DEF Inv1, StackDiscipline
<1>2. 1 # nfn + 1 BY <1>1
<1>. QED  BY <1>2, NextAdds DEF Adding, MainFn

\* main is closed or dropped.
LEMMA CreateMainRetRight == ASSUME Inv2, MainFn, Right, CreateMainRet PROVE Right'
<1> DEFINE t == fns[Top.next].rty
           is == <<CallOf(Top.next, t), Ret(IF t = Void THEN I32 ELSE t)>>
<1>1. status = "run" /\ Top.kind = "main" /\ Top.pos = 2 /\ status' = "built" BY DEF CreateMainRet
<1>2. Inv1 /\ IsCode(blocks) /\ ip \in DOMAIN blocks /\ blocks[ip].fn = Top.fn BY <1>1, Here DEF Good
<1>3. Top = stack[1] /\ Top.fn = 1 BY <1>1, <1>2, MainTop
<1>4. Homes /\ RealTypes BY DEF Right
<1>5. CASE blocks' = Erase(blocks, BlocksOf(1)) /\ fns' = [g \in DOMAIN fns \ {1} |-> fns[g]]
  <2>1. PICK f : f = 1 OBVIOUS
  <2>2. PICK cs : cs = blocks' OBVIOUS
  <2>3. cs = Erase(blocks, Owned(blocks, f)) BY <1>5, <2>1, <2>2 DEF BlocksOf, Owned
  <2>4. Leaves(blocks, cs, f) BY <1>2, <2>3, LeavesErase
  <2>5. Homes' BY <1>4, <1>5, <2>1, <2>2, <2>4 DEF Homes, Leaves
  <2>6. RealTypes'
    <3>1. ASSUME NEW g \in DOMAIN fns', fns'[g].pass = "real" PROVE From(blocks', g) \subseteq {fns'[g].rty}
      <4>1. g \in DOMAIN fns /\ g # f /\ fns'[g] = fns[g] BY <1>5, <2>1
      <4>2. From(blocks', g) = From(blocks, g) BY <2>2, <2>4, <4>1 DEF Leaves
      <4>. QED  BY <1>4, <3>1, <4>1, <4>2 DEF RealTypes
    <3>. QED  BY <3>1 DEF RealTypes
  <2>. QED  BY <1>1, <2>5, <2>6 DEF Right
<1>6. CASE blocks' = AppendTo(blocks, ip, is) /\ fns' = fns
  <2>1. is \in Seq(Instr)
    <3>1. Top.next \in DOMAIN fns /\ Top.next \in Nat
      BY <1>1, <1>2, <1>3, StackFacts DEF Inv1, FnsAlive, Frame
    <3>2. t \in Types BY <1>2, <3>1 DEF Inv1, Typed, Fn
    <3>. QED  BY <3>1, <3>2, TypesAssumption, InstrTypes, CodeTypes
  <2>2. PICK cs : cs = blocks' OBVIOUS
  <2>3. cs = AppendTo(blocks, ip, is) BY <1>6, <2>2
  <2>. HIDE DEF is
  <2>4. Adds(blocks, cs, blocks[ip].fn, TypesIn(is)) BY <1>2, <2>1, <2>3, FromAppend
  <2>5. Owners(cs) = Owners(blocks) BY <1>2, <2>1, <2>3, FromAppend
  <2>6. Homes' BY <1>4, <1>6, <2>2, <2>5 DEF Homes
  <2>7. RealTypes'
    <3>1. ASSUME NEW g \in DOMAIN fns', fns'[g].pass = "real" PROVE From(blocks', g) \subseteq {fns'[g].rty}
      <4>1. g \in DOMAIN fns /\ fns'[g] = fns[g] BY <1>6
      <4>2. g # 1 BY <3>1, <4>1 DEF MainFn
      <4>3. From(blocks', g) = From(blocks, g) BY <1>2, <1>3, <2>2, <2>4, <4>2 DEF Adds
      <4>. QED  BY <1>4, <3>1, <4>1, <4>3 DEF RealTypes
    <3>. QED  BY <3>1 DEF RealTypes
  <2>. QED  BY <1>1, <2>6, <2>7 DEF Right
<1>. QED  BY <1>5, <1>6 DEF CreateMainRet

\* Doing nothing.
LEMMA IdleRight == ASSUME Right, UNCHANGED vars PROVE Right'
<1>1. stack' = stack /\ prog' = prog /\ scope' = scope /\ blocks' = blocks /\ fns' = fns /\ status' = status BY DEF vars
<1>2. Homes' /\ RealTypes' BY <1>1 DEF Right, Homes, RealTypes
<1>3. CASE status # "run" BY <1>1, <1>2, <1>3 DEF Right
<1>4. CASE status = "run"
  <2>1. Hanging' = Hanging BY <1>1 DEF Hanging, Pending
  <2>2. Blank(blocks', Hanging') BY <1>1, <1>4, <2>1 DEF Right
  <2>3. PICK m : Agreed(m) BY <1>4 DEF Right
  <2>4. ASSUME NEW i PROVE Now(i)' = Now(i) BY <1>1 DEF Now
  <2>5. ASSUME NEW g, Tallied(m, g) PROVE Tallied(m, g)' BY <1>1, <2>5 DEF Tallied
  <2>6. Agreed(m)' BY <1>1, <2>3, <2>4, <2>5 DEF Agreed
  <2>. QED  BY <1>2, <2>2, <2>6 DEF Right
<1>. QED  BY <1>3, <1>4

\* Every step.
LEMMA NextRight == ASSUME Inv2, MainFn, Right, [Next]_vars PROVE Right'
<1>1. Inv2' BY NextStep
<1>2. CASE Use \/ Set \/ Heap \/ ImportHeader \/ Bind \/ Return \/ ReturnSelf \/ Select \/ CallPointer
  BY <1>2, UseRight, SetRight, HeapRight, ImportHeaderRight, BindRight, ReturnRight, ReturnSelfRight, SelectRight, CallPointerRight
<1>3. CASE Bad \/ CallError \/ SurveyError \/ ImportFails
  BY <1>3, ThrowRight DEF Bad, CallError, SurveyError, ImportFails
<1>4. CASE EvalLiteral \/ CallLazy \/ EnterTop BY <1>4, EvalLiteralRight, CallLazyRight, EnterTopRight
<1>5. CASE EndMarked \/ EndReal \/ StartReal BY <1>1, <1>5, EndMarkedRight, EndRealRight, StartRealRight
<1>6. CASE EnterScope \/ EnterCond \/ EnterImport BY <1>6, EnterScopeRight, EnterCondRight, EnterImportRight
<1>7. CASE LeaveScope \/ EndThen \/ EndElse \/ LeaveImport
  BY <1>7, LeaveScopeRight, EndThenRight, EndElseRight, LeaveImportRight
<1>8. CASE Overflow \/ HeapCrash \/ ScopeCrash
  <2>1. status' # "run" /\ blocks' = blocks /\ fns' = fns
    BY <1>8 DEF Overflow, HeapCrash, ScopeCrash, Crash, Stop
  <2>. QED  BY <2>1, StopRight
<1>9. CASE Verify
  <2>1. status' # "run" /\ blocks' = blocks /\ fns' = fns BY <1>9 DEF Verify, Stop
  <2>. QED  BY <2>1, StopRight
<1>10. CASE CreateMainRet BY <1>10, CreateMainRetRight
<1>11. CASE Finished \/ UNCHANGED vars BY <1>11, IdleRight DEF Finished
<1>. QED  BY <1>2, <1>3, <1>4, <1>5, <1>6, <1>7, <1>8, <1>9, <1>10, <1>11 DEF Next

\* When createMain has run nothing is known and nothing is returned.
LEMMA InitRight == Init => Right /\ MainFn
<1>. SUFFICES ASSUME Init PROVE Right /\ MainFn OBVIOUS
<1>1. /\ Len(stack) = 1 /\ blocks = [b \in {1} |-> [fn |-> 1, code |-> << >>]]
      /\ fns = [f \in {1} |-> [pass |-> "main", rty |-> I32]]
  BY DEF Init
<1>2. \A i \in 2..Len(stack) : FALSE BY <1>1
<1>3. DOMAIN fns = {1} /\ DOMAIN blocks = {1} /\ fns[1].pass = "main" /\ blocks[1].fn = 1 BY <1>1
<1>4. Homes BY <1>3 DEF Homes, Owners
<1>5. RealTypes BY <1>3 DEF RealTypes
<1>6. Blank(blocks, Hanging)
  <2>1. Hanging = {} BY <1>2 DEF Hanging
  <2>. QED  BY <2>1 DEF Blank
<1>7. PICK m : m = << >> OBVIOUS
<1>8. DOMAIN m = {} BY <1>7
<1>9. Table(prog, m) BY <1>8 DEF Table, Bounded
<1>10. Agreed(m) BY <1>2, <1>3, <1>9 DEF Agreed
<1>. QED  BY <1>3, <1>4, <1>5, <1>6, <1>10 DEF Right, MainFn

\* For any programs, and however calls, scopes, conditionals and imports are nested,
\* every value a function written for real returns has the type its survey pass
\* found: translating a body twice, with other storage and other marks, cannot
\* lead to another type (evaluator.cpp:226).
THEOREM SurveyAgreement == Spec => []SurveyAgrees
<1> DEFINE Inv4 == Inv2 /\ MainFn /\ Right
<1>1. Inv4 => SurveyAgrees
  <2>. SUFFICES ASSUME Inv4 PROVE SurveyAgrees OBVIOUS
  <2>1. Homes /\ RealTypes BY DEF Right
  <2>2. ASSUME NEW b \in DOMAIN blocks, fns[blocks[b].fn].pass = "real",
               NEW i \in DOMAIN blocks[b].code, blocks[b].code[i].k = "ret"
        PROVE  blocks[b].code[i].ty = fns[blocks[b].fn].rty
    <3> DEFINE g == blocks[b].fn
    <3>1. g \in DOMAIN fns BY <2>1 DEF Homes, Owners
    <3>2. From(blocks, g) \subseteq {fns[g].rty} BY <2>1, <2>2, <3>1 DEF RealTypes
    <3>3. b \in Owned(blocks, g) BY DEF Owned
    <3>4. blocks[b].code[i].ty \in TypesIn(blocks[b].code) BY <2>2 DEF TypesIn, Spots
    <3>5. blocks[b].code[i].ty \in From(blocks, g) BY <3>3, <3>4 DEF From
    <3>. QED  BY <3>2, <3>5
  <2>. QED  BY <2>2 DEF SurveyAgrees
<1>2. Inv4 /\ [Next]_vars => Inv4'
  <2>. SUFFICES ASSUME Inv4, [Next]_vars PROVE Inv4' OBVIOUS
  <2>1. Inv2' BY NextStep
  <2>2. MainFn' BY MainStays DEF Inv2
  <2>3. Right' BY NextRight
  <2>. QED  BY <2>1, <2>2, <2>3
<1>3. Init => Inv4 BY InitStored, InitRight
<1>. HIDE DEF Inv4
<1>. QED  BY <1>1, <1>2, <1>3, PTL DEF Spec

=============================================================================
