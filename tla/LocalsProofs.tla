---------------------------- MODULE LocalsProofs ----------------------------
(***************************************************************************)
(* Thick scope chains reach the program, the items of thin scopes are      *)
(* never shared, and without an eval or a with every variable has a place  *)
(* that is known before it runs, whatever the program is.                  *)
(***************************************************************************)
EXTENDS Locals, SequenceTheorems, WellFoundedInduction, TLAPS

(* Sequences and records whose elements have no set of their own.          *)
IsList(s) == s \in Seq({s[i] : i \in DOMAIN s})

IsFn(r) == r = [decl |-> r.decl, parent |-> r.parent, site |-> r.site,
                build |-> r.build, take |-> r.take, slots |-> r.slots]

IsOpen(w) == w = [fn |-> w.fn, lifted |-> w.lifted, blocks |-> w.blocks]

(* A list is a function on the numbers up to its length.                 *)
LEMMA Lists ==
  ASSUME NEW s, IsList(s)
  PROVE  /\ Len(s) \in Nat /\ DOMAIN s = 1 .. Len(s)
         /\ s = [i \in DOMAIN s |-> s[i]]
BY LenProperties DEF IsList

(* A function on the indexes of a list is a list.                        *)
LEMMA ListOf ==
  ASSUME NEW s, IsList(s), NEW t, t = [i \in DOMAIN s |-> t[i]]
  PROVE  IsList(t) /\ DOMAIN t = DOMAIN s /\ Len(t) = Len(s)
<1>. DEFINE T == {t[i] : i \in DOMAIN t}
<1>1. PICK n \in Nat : DOMAIN t = 1 .. n /\ n = Len(s)
  BY Lists
<1>2. t \in [1 .. n -> T]
  BY <1>1
<1>3. t \in Seq(T)
  <2>. HIDE DEF T
  <2>. QED BY <1>2, SeqDef
<1>4. Len(t) \in Nat /\ DOMAIN t = 1 .. Len(t)
  BY <1>3, LenProperties
<1>5. Len(t) = n
  BY <1>1, <1>4
<1>. QED BY <1>1, <1>3, <1>5 DEF IsList

(* Append leaves the elements where they are and adds one.               *)
LEMMA AppendList ==
  ASSUME NEW s, IsList(s), NEW e
  PROVE  /\ IsList(Append(s, e))
         /\ DOMAIN Append(s, e) = 1 .. Len(s) + 1
         /\ Len(Append(s, e)) = Len(s) + 1
         /\ \A i \in 1 .. Len(s) : Append(s, e)[i] = s[i]
         /\ Append(s, e)[Len(s) + 1] = e
<1>. DEFINE S == {s[i] : i \in DOMAIN s} \cup {e}
            t == Append(s, e)
<1>1. s \in Seq(S) /\ Len(s) \in Nat /\ DOMAIN s = 1 .. Len(s)
  BY Lists DEF IsList
<1>2. /\ t \in Seq(S) /\ Len(t) = Len(s) + 1
      /\ \A i \in 1 .. Len(s) : t[i] = s[i]
      /\ t[Len(s) + 1] = e
  BY <1>1, AppendProperties
<1>3. t \in [1 .. Len(s) + 1 -> S]
  BY <1>2, LenProperties
<1>4. t \in [1 .. Len(s) + 1 -> {t[i] : i \in DOMAIN t}]
  BY <1>3
<1>5. IsList(t)
  BY <1>1, <1>4, SeqDef DEF IsList
<1>. QED BY <1>2, <1>3, <1>5

(* Front drops the last element.                                         *)
LEMMA FrontList ==
  ASSUME NEW s, IsList(s), s # <<>>
  PROVE  /\ IsList(Front(s)) /\ Len(Front(s)) = Len(s) - 1
         /\ \A i \in 1 .. Len(s) - 1 : Front(s)[i] = s[i]
<1>. DEFINE S == {s[i] : i \in DOMAIN s}
            t == Front(s)
<1>1. s \in Seq(S) /\ Len(s) \in Nat /\ Len(s) > 0
  BY Lists, EmptySeq DEF IsList
<1>2. \A i \in 1 .. Len(s) - 1 : s[i] \in S
  BY <1>1, Lists
<1>3. /\ t \in Seq(S)
      /\ Len(t) = IF 1 <= Len(s) - 1 THEN (Len(s) - 1) - 1 + 1 ELSE 0
      /\ \A i \in 1 .. (Len(s) - 1) - 1 + 1 : t[i] = s[1 + i - 1]
  <2>. HIDE DEF S
  <2>. QED BY <1>1, <1>2, SubSeqProperties DEF Front
<1>4. Len(t) = Len(s) - 1 /\ \A i \in 1 .. Len(s) - 1 : t[i] = s[i]
  <2>. HIDE DEF t
  <2>. DEFINE Size(m) == IF 1 <= m - 1 THEN (m - 1) - 1 + 1 ELSE 0
  <2>0. \A m \in Nat : m > 0 => Size(m) = m - 1
    OBVIOUS
  <2>1. Len(t) = Len(s) - 1
    <3>1. Len(t) = Size(Len(s))
      BY <1>3, Zenon
    <3>. HIDE DEF Size
    <3>. QED BY <1>1, <2>0, <3>1
  <2>2. ASSUME NEW i \in 1 .. Len(s) - 1  PROVE t[i] = s[i]
    <3>1. i \in Int /\ 1 + i - 1 = i /\ (Len(s) - 1) - 1 + 1 = Len(s) - 1
      BY <1>1
    <3>. QED BY <1>3, <3>1
  <2>. QED BY <2>1, <2>2
<1>5. t \in [1 .. Len(s) - 1 -> S]
  BY <1>3, <1>4, LenProperties
<1>6. t \in [1 .. Len(s) - 1 -> {t[i] : i \in DOMAIN t}]
  BY <1>5
<1>7. IsList(t)
  BY <1>1, <1>6, SeqDef DEF IsList
<1>. QED BY <1>4, <1>7

-----------------------------------------------------------------------------
(* The functions are a list of records that point to the functions around  *)
(* them; those the parser deoptimised are thick, and thick ones are linked *)
(* to thick ones.  The scopes on the stack are nested as the functions are.*)
IsThick(r) == r.build = Scope.thick

Formed(fs) ==
  /\ IsList(fs) /\ Len(fs) >= 1
  /\ \A f \in DOMAIN fs : IsFn(fs[f])
  /\ \A f \in DOMAIN fs \ {1} : fs[f].parent \in DOMAIN fs

Deopts(fs) == \A f \in DOMAIN fs \ {1} : fs[f].decl.deopt => IsThick(fs[f])

Linked(fs) ==
  \A f \in DOMAIN fs \ {1} :
    IsThick(fs[f]) =>
      fs[f].take /\ (fs[f].parent # 1 => IsThick(fs[fs[f].parent]))

Nested(fs, w) ==
  /\ IsList(w)
  /\ \A s \in 1 .. Len(w) :
       /\ IsOpen(w[s]) /\ w[s].fn \in DOMAIN fs
       /\ s = 1 => w[s].fn = 1
       /\ s > 1 => fs[w[s].fn].parent = w[s - 1].fn

Good(fs) == Formed(fs) /\ Deopts(fs) /\ Linked(fs)

IInv == Good(fns) /\ Nested(fns, walker) /\ ~fns[1].decl.deopt

(* A step that keeps every function where it is, and every thick one thick *)
(* and linked, keeps all of this but the links of functions it makes thick.*)
Keeping(fs, gs) ==
  /\ gs = [f \in DOMAIN fs |-> gs[f]]
  /\ \A f \in DOMAIN fs :
       /\ IsFn(gs[f]) /\ gs[f].parent = fs[f].parent /\ gs[f].decl = fs[f].decl
       /\ gs[f].site = fs[f].site
       /\ f # 1 /\ IsThick(fs[f]) => IsThick(gs[f])
       /\ f # 1 /\ IsThick(fs[f]) /\ fs[f].take => gs[f].take

NewLinked(fs, gs) ==
  \A f \in DOMAIN fs \ {1} :
    IsThick(gs[f]) /\ ~IsThick(fs[f]) =>
      gs[f].take /\ (fs[f].parent # 1 => IsThick(gs[fs[f].parent]))

(* Such a step preserves the invariant of the functions.                 *)
LEMMA KeepingGood ==
  ASSUME NEW fs, Good(fs), NEW gs, Keeping(fs, gs), NewLinked(fs, gs)
  PROVE  Good(gs)
<1>1. IsList(gs) /\ DOMAIN gs = DOMAIN fs /\ Len(gs) = Len(fs)
  BY ListOf DEF Good, Formed, Keeping
<1>2. Formed(gs)
  BY <1>1 DEF Good, Formed, Keeping
<1>3. Deopts(gs)
  BY <1>1 DEF Good, Deopts, Keeping
<1>4. Linked(gs)
  <2>1. ASSUME NEW f \in DOMAIN gs \ {1}, IsThick(gs[f])
        PROVE  gs[f].take /\ (gs[f].parent # 1 => IsThick(gs[gs[f].parent]))
    <3>0. f \in DOMAIN fs \ {1} /\ gs[f].parent = fs[f].parent
          /\ fs[f].parent \in DOMAIN fs
      BY <1>1 DEF Good, Formed, Keeping
    <3>1. CASE IsThick(fs[f])
      <4>1. fs[f].take /\ (fs[f].parent # 1 => IsThick(fs[fs[f].parent]))
        BY <3>0, <3>1 DEF Good, Linked
      <4>. QED BY <3>0, <3>1, <4>1 DEF Keeping
    <3>2. CASE ~IsThick(fs[f])
      BY <2>1, <3>0, <3>2 DEF NewLinked
    <3>. QED BY <3>1, <3>2
  <2>. QED BY <2>1 DEF Linked
<1>. QED BY <1>2, <1>3, <1>4 DEF Good

(* It leaves the scopes on the stack nested.                             *)
LEMMA KeepingNested ==
  ASSUME NEW fs, Good(fs), NEW gs, Keeping(fs, gs), NEW w, Nested(fs, w)
  PROVE  Nested(gs, w)
<1>1. DOMAIN gs = DOMAIN fs
  BY DEF Keeping
<1>2. \A f \in DOMAIN fs : gs[f].parent = fs[f].parent
  BY DEF Keeping
<1>. QED BY <1>1, <1>2 DEF Nested

(* The scopes on the stack, as far as this invariant sees them.            *)
LEMMA SameScopes ==
  ASSUME NEW fs, NEW w, Nested(fs, w), NEW v,
         v = [s \in DOMAIN w |-> v[s]],
         \A s \in DOMAIN w : IsOpen(v[s]) /\ v[s].fn = w[s].fn
  PROVE  Nested(fs, v)
<1>1. IsList(v) /\ DOMAIN v = DOMAIN w /\ Len(v) = Len(w)
  BY ListOf DEF Nested
<1>2. DOMAIN w = 1 .. Len(w) /\ Len(w) \in Nat
  BY Lists DEF Nested
<1>3. \A s \in 1 .. Len(w) : s > 1 => s - 1 \in 1 .. Len(w)
  BY <1>2
<1>. QED BY <1>1, <1>2, <1>3 DEF Nested

(* Slots are no part of the invariant.                                   *)
LEMMA SlotsKeep ==
  ASSUME NEW fs, Good(fs), NEW g, NEW slots, NEW gs,
         gs = [fs EXCEPT ![g].slots = slots]
  PROVE  Good(gs) /\ Keeping(fs, gs)
<1>1. \A f \in DOMAIN fs : IsFn(fs[f])
  BY DEF Good, Formed
<1>2. gs = [f \in DOMAIN fs |-> gs[f]]
  OBVIOUS
<1>3. ASSUME NEW f \in DOMAIN fs
      PROVE  /\ IsFn(gs[f]) /\ gs[f].parent = fs[f].parent /\ gs[f].decl = fs[f].decl
             /\ gs[f].site = fs[f].site
             /\ gs[f].build = fs[f].build /\ gs[f].take = fs[f].take
  <2>1. CASE f = g
    <3>1. gs[f] = [fs[f] EXCEPT !.slots = slots]
      BY <2>1
    <3>. QED BY <1>1, <3>1 DEF IsFn
  <2>2. CASE f # g
    BY <1>1, <2>2
  <2>. QED BY <2>1, <2>2
<1>4. Keeping(fs, gs) /\ NewLinked(fs, gs)
  BY <1>2, <1>3 DEF Keeping, NewLinked, IsThick
<1>. QED BY <1>4, KeepingGood

(* Lifting a local changes a slot only.                                  *)
LEMMA LiftKeeps ==
  ASSUME Good(fns), NEW st
  PROVE  Good(Lift(fns, st)) /\ Keeping(fns, Lift(fns, st))
<1>1. CASE Lifts(st)
  <2>1. PICK slots : slots = [fns[st.fn].slots EXCEPT ![st.slot] =
                                Lifted(walker[Len(walker) - st.depth].lifted)]
    OBVIOUS
  <2>2. Lift(fns, st) = [fns EXCEPT ![st.fn].slots = slots]
    BY <1>1, <2>1 DEF Lift
  <2>. QED BY <2>2, SlotsKeep
<1>2. CASE ~Lifts(st)
  BY <1>2, Lists DEF Lift, Good, Formed, Keeping
<1>. QED BY <1>1, <1>2

(* mark_build_thin_scope makes no thick function thin: it stops before   *)
(* one.                                                                  *)
LEMMA MarkThinKeeps ==
  ASSUME NEW fs, Good(fs), Nested(fs, walker), NEW target
  PROVE  Keeping(fs, MarkThin(fs, target)) /\ NewLinked(fs, MarkThin(fs, target))
<1>. DEFINE Met(f, last) == \E s \in last .. Len(walker) - 1 :
                              walker[s].fn = f /\ ThinReaches(fs, s)
            gs == MarkThin(fs, target)
<1>1. ASSUME NEW f \in DOMAIN fs, Met(f, target)
      PROVE  ~IsThick(fs[f])
  BY <1>1 DEF ThinReaches, Builds, IsThick, Scope
<1>2. \A f \in DOMAIN fs : IsFn(fs[f])
  BY DEF Good, Formed
<1>3. gs = [f \in DOMAIN fs |-> gs[f]]
  BY DEF MarkThin
<1>4. ASSUME NEW f \in DOMAIN fs
      PROVE  /\ IsFn(gs[f]) /\ gs[f].parent = fs[f].parent /\ gs[f].decl = fs[f].decl
             /\ gs[f].site = fs[f].site
             /\ IsThick(gs[f]) <=> IsThick(fs[f])
             /\ IsThick(fs[f]) /\ fs[f].take => gs[f].take
  <2>1. CASE f = Last(walker).fn
    <3>1. gs[f] = [fs[f] EXCEPT !.take = TRUE]
      BY <2>1 DEF MarkThin
    <3>. QED BY <1>2, <3>1 DEF IsFn, IsThick
  <2>2. CASE f # Last(walker).fn /\ Met(f, target)
    <3>1. gs[f] = [fs[f] EXCEPT !.build = Thin(0), !.take = @ \/ Met(f, target + 1)]
      BY <2>2 DEF MarkThin
    <3>2. ~IsThick(gs[f])
      BY <1>2, <3>1 DEF IsFn, IsThick, Thin, Scope
    <3>. QED BY <1>1, <1>2, <2>2, <3>1, <3>2 DEF IsFn
  <2>3. CASE f # Last(walker).fn /\ ~Met(f, target)
    BY <1>2, <2>3 DEF MarkThin
  <2>. QED BY <2>1, <2>2, <2>3
<1>. QED BY <1>3, <1>4 DEF Keeping, NewLinked

(* The marks go on to the first thick function, or to the program.         *)
LEMMA MarkThickKeeps ==
  ASSUME NEW fs, Good(fs), Nested(fs, walker)
  PROVE  Keeping(fs, MarkThick(fs)) /\ NewLinked(fs, MarkThick(fs))
<1>. DEFINE gs == MarkThick(fs)
            Met(f) == \E s \in DOMAIN walker : walker[s].fn = f /\ ThickReaches(fs, s)
<1>1. \A f \in DOMAIN fs : IsFn(fs[f])
  BY DEF Good, Formed
<1>2. gs = [f \in DOMAIN fs |-> gs[f]]
  BY DEF MarkThick
<1>3. ASSUME NEW f \in DOMAIN fs
      PROVE  /\ IsFn(gs[f]) /\ gs[f].parent = fs[f].parent /\ gs[f].decl = fs[f].decl
             /\ gs[f].site = fs[f].site
             /\ Met(f) => IsThick(gs[f]) /\ gs[f].take
             /\ ~Met(f) => gs[f] = fs[f]
  <2>1. CASE Met(f)
    <3>1. gs[f] = [fs[f] EXCEPT !.build = Scope.thick, !.take = TRUE]
      BY <2>1 DEF MarkThick
    <3>. QED BY <1>1, <2>1, <3>1 DEF IsFn, IsThick
  <2>2. CASE ~Met(f)
    BY <1>1, <2>2 DEF MarkThick
  <2>. QED BY <2>1, <2>2
<1>4. Keeping(fs, gs)
  BY <1>2, <1>3 DEF Keeping
<1>5. ASSUME NEW f \in DOMAIN fs \ {1}, IsThick(gs[f]), ~IsThick(fs[f])
      PROVE  gs[f].take /\ (fs[f].parent # 1 => IsThick(gs[fs[f].parent]))
  <2>1. PICK s \in DOMAIN walker : walker[s].fn = f /\ ThickReaches(fs, s)
    BY <1>3, <1>5
  <2>2. DOMAIN walker = 1 .. Len(walker) /\ Len(walker) \in Nat
    BY Lists DEF Nested
  <2>3. s - 1 \in DOMAIN walker /\ fs[f].parent = walker[s - 1].fn
    BY <2>1, <2>2 DEF Nested
  <2>4. fs[f].parent \in DOMAIN fs
    BY <2>2, <2>3 DEF Nested
  <2>5. CASE IsThick(fs[fs[f].parent])
    BY <1>3, <1>5, <2>4, <2>5
  <2>6. CASE ~IsThick(fs[fs[f].parent])
    <3>1. ThickReaches(fs, s - 1)
      BY <2>1, <2>2, <2>3, <2>6 DEF ThickReaches, Builds, IsThick
    <3>. QED BY <1>3, <1>5, <2>1, <2>3, <2>4, <3>1
  <2>. QED BY <2>5, <2>6
<1>. QED BY <1>4, <1>5 DEF NewLinked

-----------------------------------------------------------------------------
(* What is rewritten with a function is convertible and inside of a        *)
(* function that is rewritten.                                             *)
LEMMA RewrittenInside ==
  ASSUME NEW fs, NEW top \in DOMAIN fs, NEW f \in Rewritten(fs, top), f # top
  PROVE  Converts(fs, f) /\ fs[f].parent \in Rewritten(fs, top)
<1>. DEFINE R == Rewritten(fs, top)
<1>1. top \in R
  BY DEF Rewritten
<1>2. Closed(fs, R)
  <2>1. ASSUME NEW g \in DOMAIN fs, Converts(fs, g), fs[g].parent \in R,
               NEW S \in SUBSET DOMAIN fs, top \in S, Closed(fs, S)
        PROVE  g \in S
    <3>1. fs[g].parent \in S
      BY <2>1 DEF Rewritten
    <3>. QED BY <2>1, <3>1 DEF Closed
  <2>. QED BY <2>1 DEF Closed, Rewritten
<1>3. ASSUME ~(Converts(fs, f) /\ fs[f].parent \in R)
      PROVE  FALSE
  <2>. DEFINE S == R \ {f}
  <2>1. S \in SUBSET DOMAIN fs /\ top \in S
    BY <1>1 DEF Rewritten
  <2>2. Closed(fs, S)
    BY <1>2, <1>3 DEF Closed
  <2>3. f \in S
    BY <2>1, <2>2 DEF Rewritten
  <2>. QED BY <2>3
<1>. QED BY <1>3

(* ThickScopeTransformer makes thick what takes a scope, with what is    *)
(* around it.                                                            *)
LEMMA TransformKeeps ==
  ASSUME NEW fs, Good(fs), NEW top \in DOMAIN fs, IsThick(fs[top])
  PROVE  Good(Transform(fs, top)) /\ Keeping(fs, Transform(fs, top))
<1>. DEFINE gs == Transform(fs, top)
<1>1. \A f \in DOMAIN fs : IsFn(fs[f])
  BY DEF Good, Formed
<1>2. gs = [f \in DOMAIN fs |-> gs[f]]
  BY DEF Transform
<1>3. ASSUME NEW f \in DOMAIN fs
      PROVE  /\ IsFn(gs[f]) /\ gs[f].parent = fs[f].parent /\ gs[f].decl = fs[f].decl
             /\ gs[f].site = fs[f].site
             /\ gs[f].take = fs[f].take
             /\ f \in Rewritten(fs, top) => IsThick(gs[f])
             /\ f \notin Rewritten(fs, top) => gs[f] = fs[f]
  <2>1. CASE f \in Rewritten(fs, top)
    <3>1. PICK slots : gs[f] = [fs[f] EXCEPT !.build = Scope.thick, !.slots = slots]
      BY <2>1 DEF Transform
    <3>. QED BY <1>1, <2>1, <3>1 DEF IsFn, IsThick
  <2>2. CASE f \notin Rewritten(fs, top)
    BY <1>1, <2>2 DEF Transform
  <2>. QED BY <2>1, <2>2
<1>4. Keeping(fs, gs)
  BY <1>2, <1>3 DEF Keeping
<1>5. ASSUME NEW f \in DOMAIN fs \ {1}, IsThick(gs[f]), ~IsThick(fs[f])
      PROVE  gs[f].take /\ (fs[f].parent # 1 => IsThick(gs[fs[f].parent]))
  <2>1. f \in Rewritten(fs, top) /\ f # top
    BY <1>3, <1>5
  <2>2. Converts(fs, f) /\ fs[f].parent \in Rewritten(fs, top)
    BY <2>1, RewrittenInside
  <2>3. fs[f].parent \in DOMAIN fs
    BY DEF Good, Formed
  <2>. QED BY <1>3, <2>2, <2>3 DEF Converts
<1>6. NewLinked(fs, gs)
  BY <1>5 DEF NewLinked
<1>. QED BY <1>4, <1>6, KeepingGood

-----------------------------------------------------------------------------
(* The program alone is not thick.                                       *)
LEMMA InitInv == Init => IInv
<1>. SUFFICES ASSUME Init  PROVE IInv
  OBVIOUS
<1>1. fns = <<NewFunction(Global, 0, <<>>)>> /\ walker = <<Open(1)>>
  BY DEF Init
<1>2. /\ IsList(fns) /\ Len(fns) = 1 /\ DOMAIN fns = {1}
      /\ IsList(walker) /\ Len(walker) = 1
  BY <1>1 DEF IsList
<1>3. fns[1] = NewFunction(Global, 0, <<>>) /\ walker[1] = Open(1)
  BY <1>1
<1>4. IsFn(fns[1]) /\ fns[1].decl = Global
  BY <1>3 DEF NewFunction, IsFn
<1>5. IsOpen(walker[1]) /\ walker[1].fn = 1
  BY <1>3 DEF Open, IsOpen
<1>6. ~fns[1].decl.deopt
  BY <1>4 DEF Global
<1>7. Good(fns)
  BY <1>2, <1>4 DEF Good, Formed, Deopts, Linked
<1>8. Nested(fns, walker)
  BY <1>2, <1>5 DEF Nested
<1>. QED BY <1>6, <1>7, <1>8 DEF IInv

(* The function on top of the stack is one of the functions.               *)
LEMMA TopFact ==
  ASSUME IInv, Running
  PROVE  /\ Len(walker) \in Nat \ {0} /\ DOMAIN walker = 1 .. Len(walker)
         /\ Top = walker[Len(walker)].fn /\ Top \in DOMAIN fns
         /\ 1 \in DOMAIN fns
<1>1. IsList(walker) /\ IsList(fns) /\ Len(fns) >= 1
  BY DEF IInv, Good, Formed, Nested
<1>2. Len(walker) \in Nat \ {0}
  BY <1>1, EmptySeq DEF IsList, Running
<1>. QED BY <1>1, <1>2, Lists DEF IInv, Nested, Top, Last

(* A step of the resolver that keeps the functions preserves the         *)
(* invariant.                                                            *)
LEMMA KeepingInv ==
  ASSUME IInv, Running, NEW gs, Good(gs), Keeping(fns, gs), fns' = gs,
         NEW w, Nested(fns, w), walker' = w
  PROVE  IInv'
<1>1. 1 \in DOMAIN fns
  BY TopFact
<1>2. ~gs[1].decl.deopt
  BY <1>1 DEF IInv, Keeping
<1>3. Nested(gs, w)
  BY KeepingNested DEF IInv
<1>4. (IInv)' = (Good(fns') /\ Nested(fns', walker') /\ ~fns'[1].decl.deopt)
  BY DEF IInv, Good, Formed, Deopts, Linked, Nested, IsList, IsThick, IsFn, IsOpen, Scope
<1>. QED BY <1>2, <1>3, <1>4

(* So does one that changes slots.                                       *)
LEMMA SlotsInv ==
  ASSUME IInv, Running, NEW slots, fns' = [fns EXCEPT ![Top].slots = slots],
         NEW w, Nested(fns, w), walker' = w
  PROVE  IInv'
<1>1. Good(fns') /\ Keeping(fns, fns')
  BY SlotsKeep DEF IInv
<1>. QED BY <1>1, KeepingInv

(* An identifier lifts a local, then marks the functions on the stack.   *)
LEMMA UseInv ==
  ASSUME IInv, NEW name, Use(name)
  PROVE  IInv' /\ Keeping(fns, fns')
<1>1. PICK st : st = Resolved(name)
  OBVIOUS
<1>. DEFINE mid == Lift(fns, st)
            gs == Marked(mid, st)
<1>2. Running /\ fns' = gs /\ walker' = Counted(st)
  BY <1>1 DEF Use, MoreUses
<1>3. Good(fns) /\ Nested(fns, walker)
  BY DEF IInv
<1>4. Good(mid) /\ Keeping(fns, mid)
  BY <1>3, LiftKeeps
<1>5. Nested(mid, walker)
  BY <1>3, <1>4, KeepingNested
<1>6. Good(gs) /\ Keeping(mid, gs)
  <2>. HIDE DEF mid
  <2>1. CASE st.is \in {"LiftedSlot", "LiftedArg"}
    <3>1. gs = MarkThin(mid, Len(walker) - st.depth)
      BY <2>1 DEF Marked
    <3>. QED BY <1>4, <1>5, <3>1, MarkThinKeeps, KeepingGood
  <2>2. CASE st.is \in {"Scoped", "ScopedArg"}
    <3>1. gs = MarkThick(mid)
      BY <2>2 DEF Marked
    <3>. QED BY <1>4, <1>5, <3>1, MarkThickKeeps, KeepingGood
  <2>3. CASE st.is \notin {"LiftedSlot", "LiftedArg", "Scoped", "ScopedArg"}
    <3>1. gs = mid
      BY <2>3 DEF Marked
    <3>. QED BY <1>4, <3>1, Lists DEF Good, Formed, Keeping
  <2>. QED BY <2>1, <2>2, <2>3
<1>7. Keeping(fns, gs)
  <2>. HIDE DEF mid, gs
  <2>. QED BY <1>4, <1>6 DEF Keeping
<1>8. Nested(fns, Counted(st))
  <2>1. CASE Lifts(st)
    <3>1. Counted(st) = [walker EXCEPT ![Len(walker) - st.depth].lifted = @ + 1]
      BY <2>1 DEF Counted
    <3>2. \A s \in DOMAIN walker : IsOpen(walker[s])
      BY <1>3, Lists DEF Nested
    <3>3. \A s \in DOMAIN walker :
            IsOpen(Counted(st)[s]) /\ Counted(st)[s].fn = walker[s].fn
      BY <3>1, <3>2 DEF IsOpen
    <3>. QED BY <1>3, <3>1, <3>3, SameScopes
  <2>2. CASE ~Lifts(st)
    BY <1>3, <2>2 DEF Counted
  <2>. QED BY <2>1, <2>2
<1>. HIDE DEF gs
<1>. QED BY <1>2, <1>6, <1>7, <1>8, KeepingInv

(* A function with an eval or a with is inside of such functions only.   *)
LEMMA EnterFunctionInv ==
  ASSUME IInv, NEW decl \in Decls, EnterFunction(decl)
  PROVE  IInv'
<1>. DEFINE new == NewFunction(decl, Top, Last(walker).blocks)
            n == Len(fns) + 1
<1>1. Running /\ fns' = Append(fns, new) /\ walker' = Append(walker, Open(n))
      /\ (decl.deopt => Top = 1 \/ fns[Top].decl.deopt)
  BY DEF EnterFunction, MoreParts, MoreUses
<1>2. /\ Good(fns) /\ Nested(fns, walker) /\ ~fns[1].decl.deopt
      /\ IsList(fns) /\ IsList(walker)
  BY DEF IInv, Good, Formed, Nested
<1>3. /\ Len(fns) \in Nat \ {0} /\ DOMAIN fns = 1 .. Len(fns)
  BY <1>2, Lists DEF Good, Formed
<1>4. /\ IsList(fns') /\ Len(fns') = n /\ DOMAIN fns' = 1 .. n
      /\ \A f \in DOMAIN fns : fns'[f] = fns[f]
      /\ fns'[n] = new
  BY <1>1, <1>2, <1>3, AppendList
<1>5. /\ IsFn(new) /\ new.parent = Top /\ new.decl = decl
      /\ IsThick(new) <=> decl.deopt
      /\ decl.deopt => new.take
  BY DeclsAssumption DEF NewFunction, IsFn, IsThick, Scope
<1>6. Top \in DOMAIN fns /\ Len(walker) \in Nat \ {0}
      /\ DOMAIN walker = 1 .. Len(walker) /\ Top = walker[Len(walker)].fn
  BY <1>1, TopFact
<1>7. /\ n # 1 /\ n >= 1
      /\ \A f \in DOMAIN fns' : f \in DOMAIN fns \/ f = n
      /\ \A f \in DOMAIN fns : f \in DOMAIN fns'
  BY <1>3, <1>4
<1>. HIDE DEF n, new
<1>8. Formed(fns')
  <2>1. \A f \in DOMAIN fns' : IsFn(fns'[f])
    BY <1>2, <1>4, <1>5, <1>7 DEF Good, Formed
  <2>2. \A f \in DOMAIN fns' \ {1} : fns'[f].parent \in DOMAIN fns'
    BY <1>2, <1>4, <1>5, <1>6, <1>7 DEF Good, Formed
  <2>. QED BY <1>4, <1>7, <2>1, <2>2 DEF Formed
<1>9. Deopts(fns')
  BY <1>2, <1>4, <1>5, <1>7 DEF Good, Deopts
<1>10. Linked(fns')
  <2>1. ASSUME NEW f \in DOMAIN fns \ {1}, IsThick(fns[f])
        PROVE  fns[f].take /\ (fns[f].parent # 1 => IsThick(fns'[fns[f].parent]))
    BY <1>2, <1>4, <2>1 DEF Good, Linked, Formed
  <2>2. IsThick(new) => new.take /\ (new.parent # 1 => IsThick(fns'[new.parent]))
    BY <1>1, <1>2, <1>4, <1>5, <1>6 DEF Good, Deopts
  <2>. QED BY <1>4, <1>7, <2>1, <2>2 DEF Linked
<1>11. Nested(fns', walker')
  <2>1. /\ IsList(walker') /\ Len(walker') = Len(walker) + 1
        /\ \A s \in 1 .. Len(walker) : walker'[s] = walker[s]
        /\ walker'[Len(walker) + 1] = Open(n)
    BY <1>1, <1>2, AppendList
  <2>2. IsOpen(Open(n)) /\ Open(n).fn = n
    BY DEF Open, IsOpen
  <2>3. ASSUME NEW s \in 1 .. Len(walker)
        PROVE  /\ IsOpen(walker'[s]) /\ walker'[s].fn \in DOMAIN fns'
               /\ s = 1 => walker'[s].fn = 1
               /\ s > 1 => fns'[walker'[s].fn].parent = walker'[s - 1].fn
    <3>1. s > 1 => s - 1 \in 1 .. Len(walker)
      BY <1>6
    <3>2. walker[s].fn \in DOMAIN fns /\ DOMAIN fns \subseteq DOMAIN fns'
      BY <1>2, <1>3, <1>4 DEF Nested, n
    <3>. QED BY <1>2, <1>4, <2>1, <3>1, <3>2 DEF Nested
  <2>4. LET s == Len(walker) + 1 IN
          /\ IsOpen(walker'[s]) /\ walker'[s].fn \in DOMAIN fns'
          /\ s > 1 /\ s - 1 = Len(walker)
          /\ fns'[walker'[s].fn].parent = walker'[Len(walker)].fn
    BY <1>3, <1>4, <1>5, <1>6, <2>1, <2>2 DEF n
  <2>5. ASSUME NEW s \in 1 .. Len(walker'), s \notin 1 .. Len(walker)
        PROVE  s = Len(walker) + 1 /\ s # 1 /\ s - 1 = Len(walker)
    BY <1>6, <2>1, <2>5
  <2>6. ASSUME NEW s \in 1 .. Len(walker')
        PROVE  /\ IsOpen(walker'[s]) /\ walker'[s].fn \in DOMAIN fns'
               /\ s = 1 => walker'[s].fn = 1
               /\ s > 1 => fns'[walker'[s].fn].parent = walker'[s - 1].fn
    <3>1. CASE s \in 1 .. Len(walker)
      BY <2>3, <3>1
    <3>2. CASE s \notin 1 .. Len(walker)
      BY <2>4, <2>5, <3>2
    <3>. QED BY <3>1, <3>2
  <2>. QED BY <2>1, <2>6 DEF Nested
<1>12. ~fns'[1].decl.deopt
  BY <1>2, <1>3, <1>4
<1>13. (IInv)' = (Good(fns') /\ Nested(fns', walker') /\ ~fns'[1].decl.deopt)
  BY DEF IInv, Good, Formed, Deopts, Linked, Nested, IsList, IsThick, IsFn, IsOpen, Scope
<1>. QED BY <1>8, <1>9, <1>10, <1>11, <1>12, <1>13 DEF Good

(* Blocks are no part of the invariant.                                  *)
LEMMA BlocksNested ==
  ASSUME Nested(fns, walker), NEW bs
  PROVE  Nested(fns, [walker EXCEPT ![Len(walker)].blocks = bs])
<1>. DEFINE w == [walker EXCEPT ![Len(walker)].blocks = bs]
<1>1. \A s \in DOMAIN walker : IsOpen(walker[s])
  BY Lists DEF Nested
<1>2. \A s \in DOMAIN walker : IsOpen(w[s]) /\ w[s].fn = walker[s].fn
  BY <1>1 DEF IsOpen
<1>3. w = [s \in DOMAIN walker |-> w[s]]
  OBVIOUS
<1>. QED BY <1>2, <1>3, SameScopes

(* An entered block is one more.                                         *)
LEMMA BlockNested ==
  ASSUME Nested(fns, walker), NEW block
  PROVE  Nested(fns, WithBlock(block))
<1>1. PICK bs : bs = Append(walker[Len(walker)].blocks, block)
  OBVIOUS
<1>2. WithBlock(block) = [walker EXCEPT ![Len(walker)].blocks = bs]
  BY <1>1 DEF WithBlock
<1>. QED BY <1>2, BlocksNested

(* A catch block adds a slot.                                            *)
LEMMA EnterCatchInv ==
  ASSUME IInv, NEW name, EnterCatch(name)
  PROVE  IInv'
<1>1. PICK slots, block :
        /\ fns' = [fns EXCEPT ![Top].slots = slots]
        /\ walker' = WithBlock(block)
  BY DEF EnterCatch
<1>2. Running
  BY DEF EnterCatch, MoreParts, MoreUses
<1>3. Nested(fns, WithBlock(block))
  BY BlockNested DEF IInv
<1>. QED BY <1>1, <1>2, <1>3, SlotsInv

(* A step that changes blocks only preserves the invariant.              *)
LEMMA BlocksInv ==
  ASSUME IInv, Running, UNCHANGED fns, NEW w, Nested(fns, w), walker' = w
  PROVE  IInv'
<1>1. Good(fns) /\ Keeping(fns, fns)
  BY Lists DEF IInv, Good, Formed, Keeping
<1>. QED BY <1>1, KeepingInv

(* The program alone loses its scope when it is left.                      *)
LEMMA LeaveInv ==
  ASSUME IInv, Leave
  PROVE  IInv' /\ Keeping(fns, fns')
<1>. DEFINE lifted == Last(walker).lifted
            sized == IF lifted > 0 /\ fns[Top].build # Scope.thick
                       THEN [fns EXCEPT ![Top].build = Thin(lifted)] ELSE fns
            done == IF sized[Top].build = Scope.thick
                      THEN Transform(sized, Top) ELSE sized
            gs == IF Top # 1 THEN done
                  ELSE [done EXCEPT ![1].build = Scope.none, ![1].take = FALSE]
<1>1. Running /\ fns' = gs /\ walker' = Front(walker)
  BY DEF Leave
<1>2. Good(fns) /\ Nested(fns, walker) /\ Top \in DOMAIN fns
  BY <1>1, TopFact DEF IInv
<1>3. Good(sized) /\ Keeping(fns, sized)
  <2>1. CASE sized = fns
    BY <1>2, <2>1, Lists DEF Good, Formed, Keeping
  <2>2. CASE sized # fns
    <3>1. sized = [fns EXCEPT ![Top].build = Thin(lifted)] /\ ~IsThick(fns[Top])
      BY <2>2 DEF IsThick
    <3>2. ASSUME NEW f \in DOMAIN fns
          PROVE  /\ IsFn(sized[f]) /\ sized[f].parent = fns[f].parent
                 /\ sized[f].decl = fns[f].decl /\ sized[f].take = fns[f].take
                 /\ sized[f].site = fns[f].site
                 /\ IsThick(sized[f]) <=> IsThick(fns[f])
      <4>1. IsFn(fns[f])
        BY <1>2 DEF Good, Formed
      <4>2. CASE f = Top
        <5>1. sized[f] = [fns[f] EXCEPT !.build = Thin(lifted)]
          BY <3>1, <4>2
        <5>. QED BY <3>1, <4>1, <4>2, <5>1 DEF IsFn, IsThick, Thin, Scope
      <4>3. CASE f # Top
        BY <3>1, <4>1, <4>3
      <4>. QED BY <4>2, <4>3
    <3>3. sized = [f \in DOMAIN fns |-> sized[f]]
      BY <3>1
    <3>. HIDE DEF sized
    <3>4. Keeping(fns, sized) /\ NewLinked(fns, sized)
      BY <3>2, <3>3 DEF Keeping, NewLinked
    <3>. QED BY <1>2, <3>4, KeepingGood
  <2>. QED BY <2>1, <2>2
<1>4. Good(done) /\ Keeping(sized, done)
  <2>. HIDE DEF sized
  <2>1. CASE IsThick(sized[Top])
    <3>1. Top \in DOMAIN sized
      BY <1>2, <1>3 DEF Keeping
    <3>. QED BY <1>3, <2>1, <3>1, TransformKeeps DEF IsThick
  <2>2. CASE ~IsThick(sized[Top])
    BY <1>3, <2>2, Lists DEF IsThick, Good, Formed, Keeping
  <2>. QED BY <2>1, <2>2
<1>5. Good(gs) /\ Keeping(done, gs)
  <2>. HIDE DEF done
  <2>1. CASE Top # 1
    BY <1>4, <2>1, Lists DEF Good, Formed, Keeping
  <2>2. CASE Top = 1
    <3>1. ASSUME NEW f \in DOMAIN done
          PROVE  /\ IsFn(gs[f]) /\ gs[f].parent = done[f].parent
                 /\ gs[f].decl = done[f].decl /\ gs[f].site = done[f].site
                 /\ f # 1 => gs[f] = done[f]
      <4>1. IsFn(done[f])
        BY <1>4 DEF Good, Formed
      <4>2. CASE f = 1
        <5>1. gs[f] = [done[f] EXCEPT !.build = Scope.none, !.take = FALSE]
          BY <2>2, <4>2
        <5>. QED BY <4>1, <4>2, <5>1 DEF IsFn
      <4>3. CASE f # 1
        BY <2>2, <4>1, <4>3
      <4>. QED BY <4>2, <4>3
    <3>2. gs = [f \in DOMAIN done |-> gs[f]]
      BY <2>2
    <3>. HIDE DEF gs
    <3>3. Keeping(done, gs) /\ NewLinked(done, gs)
      BY <3>1, <3>2 DEF Keeping, NewLinked
    <3>. QED BY <1>4, <3>3, KeepingGood
  <2>. QED BY <2>1, <2>2
<1>6. Keeping(fns, gs)
  <2>. HIDE DEF sized, done, gs
  <2>. QED BY <1>3, <1>4, <1>5 DEF Keeping
<1>7. Nested(fns, Front(walker))
  <2>1. /\ IsList(Front(walker)) /\ Len(Front(walker)) = Len(walker) - 1
        /\ \A s \in 1 .. Len(walker) - 1 : Front(walker)[s] = walker[s]
    BY <1>1, <1>2, FrontList DEF Nested, Running
  <2>2. Len(walker) \in Nat
    BY <1>2, Lists DEF Nested
  <2>3. ASSUME NEW s \in 1 .. Len(walker) - 1
        PROVE  s \in 1 .. Len(walker) /\ (s > 1 => s - 1 \in 1 .. Len(walker) - 1)
    BY <2>2
  <2>. QED BY <1>2, <2>1, <2>3 DEF Nested
<1>. HIDE DEF gs
<1>. QED BY <1>1, <1>5, <1>6, <1>7, KeepingInv

-----------------------------------------------------------------------------
(* Every step of the resolver preserves the invariant.                   *)
LEMMA NextInv == IInv /\ [Next]_vars => IInv'
<1>. SUFFICES ASSUME IInv, [Next]_vars  PROVE IInv'
  OBVIOUS
<1>1. ASSUME NEW name \in Names \cup {Arguments}, Use(name)
      PROVE  IInv'
  BY <1>1, UseInv
<1>2. ASSUME NEW decl \in Decls, EnterFunction(decl)
      PROVE  IInv'
  BY <1>2, EnterFunctionInv
<1>3. ASSUME NEW name \in Names, EnterCatch(name)
      PROVE  IInv'
  BY <1>3, EnterCatchInv
<1>4. CASE EnterWith
  <2>1. PICK block : walker' = WithBlock(block)
    BY <1>4 DEF EnterWith
  <2>2. Running /\ UNCHANGED fns
    BY <1>4 DEF EnterWith, MoreParts, MoreUses
  <2>3. Nested(fns, WithBlock(block))
    BY BlockNested DEF IInv
  <2>. QED BY <2>1, <2>2, <2>3, BlocksInv
<1>5. CASE LeaveBlock
  <2>1. Running /\ UNCHANGED fns
        /\ walker' = [walker EXCEPT ![Len(walker)].blocks = Front(@)]
    BY <1>5 DEF LeaveBlock
  <2>2. PICK bs : walker' = [walker EXCEPT ![Len(walker)].blocks = bs]
    BY <2>1
  <2>3. Nested(fns, [walker EXCEPT ![Len(walker)].blocks = bs])
    BY BlocksNested DEF IInv
  <2>. QED BY <2>1, <2>2, <2>3, BlocksInv
<1>6. CASE Leave
  BY <1>6, LeaveInv
<1>7. CASE UNCHANGED vars
  BY <1>7 DEF vars, IInv, Good, Formed, Deopts, Linked, Nested, IsList, IsThick,
              IsFn, IsOpen, Scope
<1>. QED BY <1>1, <1>2, <1>3, <1>4, <1>5, <1>6, <1>7 DEF Next

(* Whatever the program is, a function that builds a thick scope is linked *)
(* through thick scopes to the program, at every step of the resolution.   *)
THEOREM ThickChainKept == Spec => []ThickChain
<1>1. IInv => ThickChain
  BY DEF IInv, Good, Linked, IsThick, ThickChain
<1>. QED BY <1>1, InitInv, NextInv, PTL DEF Spec

-----------------------------------------------------------------------------

(* A set of numbers up to some limit has a largest one. *)
LEMMA Largest ==
  ASSUME NEW n \in Nat, NEW S, S \subseteq 0 .. n, S # {}
  PROVE  \E x \in S : \A y \in S : y <= x
<1>. DEFINE T == {n - x : x \in S}
<1>1. T \subseteq Nat /\ T # {}
  <2>1. \A x \in S : n - x \in Nat
    OBVIOUS
  <2>2. PICK x : x \in S
    OBVIOUS
  <2>3. n - x \in T
    BY <2>2
  <2>. QED BY <2>1, <2>3
<1>. HIDE DEF T
<1>2. PICK t \in T : \A y \in T : ~(<<y, t>> \in OpToRel(<, Nat))
  BY <1>1, NatLessThanWellFounded, WFMin
<1>3. \A y \in T : t <= y
  <2>1. OpToRel(<, Nat) = {ss \in Nat \X Nat : ss[1] < ss[2]}
    BY Zenon DEF OpToRel
  <2>2. ASSUME NEW y \in T, y < t
        PROVE  FALSE
    <3>1. <<y, t>> \in {ss \in Nat \X Nat : ss[1] < ss[2]}
      BY <1>1, <2>2
    <3>. QED BY <1>2, <2>1, <3>1
  <2>3. \A y \in T : y \in Nat /\ t \in Nat
    BY <1>1
  <2>. QED BY <2>2, <2>3
<1>4. PICK x \in S : t = n - x
  BY DEF T
<1>5. \A y \in S : n - y \in T
  BY DEF T
<1>6. \A y \in S : y \in 0 .. n /\ t <= n - y
  BY <1>3, <1>5
<1>7. ASSUME NEW y \in S PROVE y <= x
  BY <1>4, <1>6
<1>. QED BY <1>7

(* The walk stops at a block of a scope that is on the stack. *)
LEMMA StopOnStack ==
  ASSUME NEW name, Len(walker) \in Nat \ {0}, Len(walker[1].blocks) \in Nat \ {0}
  PROVE  LET at == Stop(name) IN
           /\ at[1] \in 1 .. Len(walker) /\ at[2] \in 1 .. MaxParts
           /\ at[2] <= Len(walker[at[1]].blocks)
<1>. DEFINE places == {p \in (1 .. Len(walker)) \X (1 .. MaxParts) :
                         p[2] <= Len(walker[p[1]].blocks) /\ Stops(name, p[1], p[2])}
            firsts == {p[1] : p \in places}
<1>1. MaxParts \in Nat /\ 1 \in 1 .. MaxParts
  BY PartsAssumption
<1>2. <<1, 1>> \in places
  BY <1>1 DEF Stops, IsTop
<1>3. PICK s \in firsts : \A r \in firsts : r <= s
  <2>1. firsts \subseteq 0 .. Len(walker) /\ firsts # {}
    BY <1>2
  <2>. HIDE DEF firsts
  <2>. QED BY <2>1, Largest
<1>. DEFINE seconds == {b \in 1 .. MaxParts : <<s, b>> \in places}
<1>4. s \in 1 .. Len(walker)
  OBVIOUS
<1>5. PICK b \in seconds : \A c \in seconds : c <= b
  <2>1. seconds \subseteq 0 .. MaxParts /\ seconds # {}
    <3>1. PICK p \in places : p[1] = s
      OBVIOUS
    <3>2. p = <<s, p[2]>> /\ p[2] \in 1 .. MaxParts
      BY <3>1
    <3>. QED BY <1>1, <3>1, <3>2
  <2>. HIDE DEF seconds
  <2>. QED BY <1>1, <2>1, Largest
<1>6. <<s, b>> \in places
  OBVIOUS
<1>7. ASSUME NEW q \in places
      PROVE  q[1] < s \/ (q[1] = s /\ q[2] <= b)
  <2>1. q[1] \in 1 .. Len(walker) /\ q[2] \in 1 .. MaxParts /\ q = <<q[1], q[2]>> /\ q[1] \in firsts
    OBVIOUS
  <2>2. q[1] <= s
    BY <1>3, <2>1
  <2>3. CASE q[1] = s
    <3>1. q[2] \in seconds
      BY <2>1, <2>3
    <3>. QED BY <1>5, <2>3, <3>1
  <2>4. CASE q[1] # s
    BY <1>4, <2>1, <2>2, <2>4
  <2>. QED BY <2>3, <2>4
<1>8. \E p \in places : \A q \in places : q[1] < p[1] \/ (q[1] = p[1] /\ q[2] <= p[2])
  <2>. HIDE DEF places
  <2>. QED BY <1>6, <1>7
<1>9. Stop(name) = CHOOSE p \in places : \A q \in places :
                     q[1] < p[1] \/ (q[1] = p[1] /\ q[2] <= p[2])
  BY DEF Stop
<1>10. Stop(name) \in places
  <2>. HIDE DEF places
  <2>. QED BY <1>8, <1>9
<1>. QED BY <1>10

(* A variable that is lifted is one of a function on the stack, below its   *)
(* top by as much as the state says.                                       *)
LEMMA LiftedFromStack ==
  ASSUME NEW name, Len(walker) \in Nat \ {0}, Len(walker[1].blocks) \in Nat \ {0},
         NEW st, st = Resolved(name), st.is \in {"LiftedSlot", "LiftedArg"}
  PROVE  /\ Len(walker) - st.depth \in 1 .. Len(walker)
         /\ st.fn = walker[Len(walker) - st.depth].fn
<1>. DEFINE at == Stop(name)
<1>1. at[1] \in 1 .. Len(walker)
  BY StopOnStack
<1>. HIDE DEF at
<1>2. st.depth = Len(walker) - at[1] /\ st.fn = walker[at[1]].fn
  BY DEF Resolved, at
<1>3. Len(walker) - (Len(walker) - at[1]) = at[1]
  BY <1>1
<1>. QED BY <1>1, <1>2, <1>3

-----------------------------------------------------------------------------
(* Items of a function's scope, and what the resolver keeps true of them:   *)
(* no two variables have the same one, those of a function on the stack lie *)
(* below its count, and those of one that was left below the size of its   *)
(* scope.                                                                  *)
LiftedSlots(r) == {s \in DOMAIN r.slots : IsLifted(r.slots[s])}

Items(fs) ==
  \A f \in DOMAIN fs : \A s \in LiftedSlots(fs[f]) : fs[f].slots[s][2] \in Nat

Injective(fs) ==
  \A f \in DOMAIN fs : \A s, t \in LiftedSlots(fs[f]) :
    fs[f].slots[s][2] = fs[f].slots[t][2] => s = t

Room(fs, w) ==
  \A i \in DOMAIN w :
    /\ w[i].lifted \in Nat
    /\ \A s \in LiftedSlots(fs[w[i].fn]) : fs[w[i].fn].slots[s][2] < w[i].lifted

Stacked(w) ==
  /\ \A i \in DOMAIN w : IsList(w[i].blocks) /\ Len(w[i].blocks) >= 1
  /\ \A i, j \in DOMAIN w : w[i].fn = w[j].fn => i = j

OffStack(w, f) == \A i \in DOMAIN w : w[i].fn # f

SizeFits(r) ==
  \A s \in LiftedSlots(r) : r.build[1] = "Thin" /\ r.slots[s][2] < r.build[2]

Sized(fs, w) ==
  \A f \in DOMAIN fs \ {1} : OffStack(w, f) /\ ~IsThick(fs[f]) => SizeFits(fs[f])

Placed(fs, w) ==
  /\ Items(fs) /\ Injective(fs) /\ Room(fs, w) /\ Stacked(w) /\ Sized(fs, w)

AInv == IInv /\ Placed(fns, walker)

(* A step that gives out no item, and leaves the scopes of functions that   *)
(* were left as they are or makes them thick.                              *)
NoNewItems(fs, gs) ==
  /\ DOMAIN gs = DOMAIN fs
  /\ \A f \in DOMAIN fs : \A s \in LiftedSlots(gs[f]) :
       s \in LiftedSlots(fs[f]) /\ gs[f].slots[s] = fs[f].slots[s]

Settled(fs, gs, w) ==
  \A f \in DOMAIN fs : OffStack(w, f) => IsThick(gs[f]) \/ gs[f].build = fs[f].build

(* Such a step keeps the items placed.                                     *)
LEMMA NoNewPlaced ==
  ASSUME NEW fs, NEW gs, NEW w, Placed(fs, w), NoNewItems(fs, gs), Settled(fs, gs, w),
         \A i \in DOMAIN w : w[i].fn \in DOMAIN fs
  PROVE  Placed(gs, w)
<1>1. Items(gs) /\ Injective(gs)
  BY DEF Placed, Items, Injective, NoNewItems
<1>2. Room(gs, w)
  BY DEF Placed, Room, NoNewItems
<1>3. Sized(gs, w)
  <2>1. ASSUME NEW f \in DOMAIN gs \ {1}, OffStack(w, f), ~IsThick(gs[f])
        PROVE  SizeFits(gs[f])
    <3>1. f \in DOMAIN fs \ {1} /\ gs[f].build = fs[f].build
      BY <2>1 DEF NoNewItems, Settled
    <3>2. SizeFits(fs[f])
      BY <2>1, <3>1 DEF Placed, Sized, IsThick
    <3>. QED BY <3>1, <3>2 DEF SizeFits, NoNewItems
  <2>. QED BY <2>1 DEF Sized
<1>. QED BY <1>1, <1>2, <1>3 DEF Placed

(* The items see of the stack its functions and their counts.              *)
LEMMA SameCounts ==
  ASSUME NEW fs, NEW w, NEW v, Placed(fs, w), DOMAIN v = DOMAIN w,
         \A i \in DOMAIN w :
           /\ v[i].fn = w[i].fn /\ v[i].lifted = w[i].lifted
           /\ IsList(v[i].blocks) /\ Len(v[i].blocks) >= 1
  PROVE  Placed(fs, v)
<1>1. Room(fs, v)
  BY DEF Placed, Room
<1>2. Stacked(v)
  BY DEF Placed, Stacked
<1>3. Sized(fs, v)
  BY DEF Placed, Sized, OffStack
<1>. QED BY <1>1, <1>2, <1>3 DEF Placed

(* What the invariant says in the next state.                              *)
LEMMA AInvNext ==
  ASSUME IInv', NEW gs, NEW w, fns' = gs, walker' = w, Placed(gs, w)
  PROVE  AInv'
<1>1. Placed(fns', walker')
  OBVIOUS
<1>2. (Placed(fns, walker))' = Placed(fns', walker')
  BY DEF Placed, Items, Injective, Room, Stacked, Sized, OffStack, SizeFits,
         LiftedSlots, IsLifted, IsThick, IsList, Local, Scoped, Scope
<1>. QED BY <1>1, <1>2 DEF AInv

(* Every scope on the stack is one of a function.                          *)
LEMMA StackFacts ==
  ASSUME IInv
  PROVE  /\ DOMAIN walker = 1 .. Len(walker) /\ Len(walker) \in Nat
         /\ \A i \in DOMAIN walker : walker[i].fn \in DOMAIN fns /\ IsOpen(walker[i])
         /\ \A f \in DOMAIN fns : IsFn(fns[f])
BY Lists DEF IInv, Good, Formed, Nested

-----------------------------------------------------------------------------
(* Marks give out no items, and touch functions on the stack only.         *)
LEMMA MarkedPlaced ==
  ASSUME IInv, Running, NEW name, NEW st, st = Resolved(name),
         NEW fs, DOMAIN fs = DOMAIN fns, \A f \in DOMAIN fs : IsFn(fs[f]),
         NEW w, Placed(fs, w), DOMAIN w = DOMAIN walker,
         \A i \in DOMAIN walker : w[i].fn = walker[i].fn,
         Len(walker[1].blocks) \in Nat \ {0}
  PROVE  Placed(Marked(fs, st), w)
<1>. DEFINE gs == Marked(fs, st)
            n == Len(walker)
<1>1. /\ n \in Nat \ {0} /\ DOMAIN walker = 1 .. n /\ Last(walker).fn = walker[n].fn
      /\ \A i \in DOMAIN walker : walker[i].fn \in DOMAIN fs
  BY TopFact, StackFacts DEF Top
<1>2. ASSUME NEW f \in DOMAIN fs
      PROVE  /\ gs[f].slots = fs[f].slots
             /\ OffStack(w, f) => gs[f].build = fs[f].build
  <2>0. OffStack(w, f) => \A i \in 1 .. n : walker[i].fn # f
    BY <1>1 DEF OffStack
  <2>1. CASE st.is \in {"LiftedSlot", "LiftedArg"}
    <3>1. gs = MarkThin(fs, n - st.depth) /\ n - st.depth \in 1 .. n
      BY <1>1, <2>1, LiftedFromStack DEF Marked
    <3>. DEFINE target == n - st.depth
                Met(last) == \E s \in last .. n - 1 : walker[s].fn = f /\ ThinReaches(fs, s)
    <3>2. CASE f = Last(walker).fn
      <4>1. gs[f] = [fs[f] EXCEPT !.take = TRUE]
        BY <3>1, <3>2 DEF MarkThin
      <4>. QED BY <4>1 DEF IsFn
    <3>3. CASE f # Last(walker).fn /\ Met(target)
      <4>1. gs[f] = [fs[f] EXCEPT !.build = Thin(0), !.take = @ \/ Met(target + 1)]
        BY <3>1, <3>3 DEF MarkThin
      <4>2. ~OffStack(w, f)
        BY <1>1, <2>0, <3>1, <3>3
      <4>. QED BY <4>1, <4>2 DEF IsFn
    <3>4. CASE f # Last(walker).fn /\ ~Met(target)
      BY <3>1, <3>4 DEF MarkThin
    <3>. QED BY <3>2, <3>3, <3>4
  <2>2. CASE st.is \in {"Scoped", "ScopedArg"}
    <3>1. gs = MarkThick(fs)
      BY <2>2 DEF Marked
    <3>2. CASE \E s \in DOMAIN walker : walker[s].fn = f /\ ThickReaches(fs, s)
      <4>1. gs[f] = [fs[f] EXCEPT !.build = Scope.thick, !.take = TRUE]
        BY <3>1, <3>2 DEF MarkThick
      <4>. QED BY <1>1, <2>0, <3>2, <4>1 DEF IsFn
    <3>3. CASE ~\E s \in DOMAIN walker : walker[s].fn = f /\ ThickReaches(fs, s)
      BY <3>1, <3>3 DEF MarkThick
    <3>. QED BY <3>2, <3>3
  <2>3. CASE st.is \notin {"LiftedSlot", "LiftedArg", "Scoped", "ScopedArg"}
    BY <2>3 DEF Marked
  <2>. QED BY <2>1, <2>2, <2>3
<1>3. DOMAIN gs = DOMAIN fs
  BY DEF Marked, MarkThin, MarkThick
<1>. HIDE DEF gs
<1>4. NoNewItems(fs, gs) /\ Settled(fs, gs, w)
  BY <1>2, <1>3 DEF NoNewItems, Settled, LiftedSlots
<1>5. \A i \in DOMAIN w : w[i].fn \in DOMAIN fs
  BY <1>1
<1>6. Placed(gs, w)
  BY <1>4, <1>5, NoNewPlaced
<1>. QED BY <1>6 DEF gs

(* A lifted variable gets the next item of its function.                   *)
LEMMA LiftPlaced ==
  ASSUME AInv, Running, NEW name, NEW st, st = Resolved(name), Lifts(st)
  PROVE  Placed(Lift(fns, st), Counted(st))
<1>. DEFINE k == Len(walker) - st.depth
            item == walker[k].lifted
            gs == Lift(fns, st)
            w == Counted(st)
<1>1. Len(walker) \in Nat \ {0} /\ DOMAIN walker = 1 .. Len(walker)
      /\ \A i \in DOMAIN walker : walker[i].fn \in DOMAIN fns /\ IsOpen(walker[i])
      /\ \A f \in DOMAIN fns : IsFn(fns[f])
  BY TopFact, StackFacts DEF AInv
<1>2. Len(walker[1].blocks) \in Nat \ {0}
  BY <1>1, Lists DEF AInv, Placed, Stacked
<1>3. k \in DOMAIN walker /\ st.fn = walker[k].fn /\ st.fn \in DOMAIN fns
  BY <1>1, <1>2, LiftedFromStack DEF Lifts
<1>4. item \in Nat /\ \A s \in LiftedSlots(fns[st.fn]) : fns[st.fn].slots[s][2] < item
  BY <1>3 DEF AInv, Placed, Room
<1>5. gs = [fns EXCEPT ![st.fn].slots[st.slot] = Lifted(item)]
  BY DEF Lift
<1>6. w = [walker EXCEPT ![k].lifted = @ + 1]
  BY DEF Counted
<1>. HIDE DEF k
<1>7. /\ DOMAIN w = DOMAIN walker
      /\ \A i \in DOMAIN walker :
           /\ w[i].fn = walker[i].fn /\ w[i].blocks = walker[i].blocks
           /\ i # k => w[i].lifted = walker[i].lifted
           /\ i = k => w[i].lifted = item + 1
  BY <1>1, <1>3, <1>6 DEF IsOpen
<1>8. /\ DOMAIN gs = DOMAIN fns
      /\ \A f \in DOMAIN fns : gs[f].build = fns[f].build
      /\ \A f \in DOMAIN fns : f # st.fn => gs[f] = fns[f]
  BY <1>1, <1>5 DEF IsFn
<1>9. gs[st.fn].slots = [fns[st.fn].slots EXCEPT ![st.slot] = Lifted(item)]
  BY <1>1, <1>3, <1>5 DEF IsFn
<1>. HIDE DEF gs, w
<1>. DEFINE old == fns[st.fn].slots
            new == gs[st.fn].slots
<1>10. ASSUME NEW s \in LiftedSlots(gs[st.fn])
       PROVE  \/ s = st.slot /\ new[s][2] = item
              \/ s # st.slot /\ s \in LiftedSlots(fns[st.fn]) /\ new[s] = old[s]
  BY <1>9 DEF LiftedSlots, Lifted
<1>11. \A s \in LiftedSlots(fns[st.fn]) : old[s][2] \in Nat
  BY <1>3 DEF AInv, Placed, Items
<1>12. ASSUME NEW s \in LiftedSlots(gs[st.fn])
       PROVE  new[s][2] \in Nat /\ new[s][2] < item + 1
  BY <1>4, <1>10, <1>11
<1>13. Items(gs)
  BY <1>3, <1>8, <1>12 DEF AInv, Placed, Items
<1>14. Injective(gs)
  <2>1. ASSUME NEW s \in LiftedSlots(gs[st.fn]), NEW t \in LiftedSlots(gs[st.fn]),
               new[s][2] = new[t][2]
        PROVE  s = t
    <3>1. CASE s = st.slot /\ t # st.slot
      BY <1>4, <1>10, <1>11, <2>1, <3>1
    <3>2. CASE s # st.slot /\ t = st.slot
      BY <1>4, <1>10, <1>11, <2>1, <3>2
    <3>3. CASE s # st.slot /\ t # st.slot
      BY <1>3, <1>10, <2>1, <3>3 DEF AInv, Placed, Injective
    <3>. QED BY <3>1, <3>2, <3>3
  <2>. QED BY <1>3, <1>8, <2>1 DEF AInv, Placed, Injective
<1>15. Room(gs, w)
  <2>1. ASSUME NEW i \in DOMAIN walker
        PROVE  /\ w[i].lifted \in Nat
               /\ \A s \in LiftedSlots(gs[w[i].fn]) : gs[w[i].fn].slots[s][2] < w[i].lifted
    <3>1. CASE i = k
      BY <1>3, <1>4, <1>7, <1>12, <3>1
    <3>2. CASE i # k
      <4>1. walker[i].fn # st.fn
        BY <1>3, <3>2 DEF AInv, Placed, Stacked
      <4>. QED BY <1>1, <1>7, <1>8, <3>2, <4>1 DEF AInv, Placed, Room
    <3>. QED BY <3>1, <3>2
  <2>. QED BY <1>7, <2>1 DEF Room
<1>16. Stacked(w)
  BY <1>7 DEF AInv, Placed, Stacked
<1>17. Sized(gs, w)
  <2>1. ASSUME NEW f \in DOMAIN gs \ {1}, OffStack(w, f), ~IsThick(gs[f])
        PROVE  SizeFits(gs[f])
    <3>1. OffStack(walker, f)
      BY <1>7, <2>1 DEF OffStack
    <3>2. f # st.fn
      BY <1>3, <3>1 DEF OffStack
    <3>. QED BY <1>8, <2>1, <3>1, <3>2 DEF AInv, Placed, Sized
  <2>. QED BY <2>1 DEF Sized
<1>18. Placed(gs, w)
  BY <1>13, <1>14, <1>15, <1>16, <1>17 DEF Placed
<1>. QED BY <1>18 DEF gs, w

(* An entered block is one more, and gives out no items.                   *)
LEMMA BlockPlaced ==
  ASSUME IInv, Running, NEW fs, Placed(fs, walker), NEW block
  PROVE  Placed(fs, WithBlock(block))
<1>. DEFINE v == WithBlock(block)
            bs == Append(walker[Len(walker)].blocks, block)
<1>1. \A i \in DOMAIN walker : IsOpen(walker[i]) /\ IsList(walker[i].blocks)
                               /\ Len(walker[i].blocks) >= 1
  BY StackFacts DEF Placed, Stacked
<1>2. Len(walker) \in DOMAIN walker
  BY TopFact
<1>3. IsList(bs) /\ Len(bs) >= 1
  BY <1>1, <1>2, AppendList, Lists
<1>4. v = [walker EXCEPT ![Len(walker)].blocks = bs]
  BY DEF WithBlock
<1>. HIDE DEF bs, v
<1>5. \A i \in DOMAIN walker :
        /\ v[i].fn = walker[i].fn /\ v[i].lifted = walker[i].lifted
        /\ IsList(v[i].blocks) /\ Len(v[i].blocks) >= 1
  BY <1>1, <1>3, <1>4 DEF IsOpen
<1>6. Placed(fs, v)
  BY <1>4, <1>5, SameCounts
<1>. QED BY <1>6 DEF v

(* An identifier takes an item or none, and marks the stack.               *)
LEMMA UsePlaced ==
  ASSUME AInv, NEW name, Use(name)
  PROVE  AInv'
<1>1. PICK st : st = Resolved(name)
  OBVIOUS
<1>2. Running /\ fns' = Marked(Lift(fns, st), st) /\ walker' = Counted(st)
  BY <1>1 DEF Use, MoreUses
<1>3. IInv /\ IInv' /\ Len(walker) \in Nat \ {0} /\ DOMAIN walker = 1 .. Len(walker)
      /\ \A i \in DOMAIN walker : IsOpen(walker[i])
  BY <1>2, UseInv, TopFact, StackFacts DEF AInv
<1>4. Len(walker[1].blocks) \in Nat \ {0}
  BY <1>3, Lists DEF AInv, Placed, Stacked
<1>5. Placed(Lift(fns, st), Counted(st))
  <2>1. CASE Lifts(st)
    BY <1>1, <1>2, <2>1, LiftPlaced
  <2>2. CASE ~Lifts(st)
    BY <2>2 DEF Lift, Counted, AInv
  <2>. QED BY <2>1, <2>2
<1>6. DOMAIN Lift(fns, st) = DOMAIN fns /\ \A f \in DOMAIN fns : IsFn(Lift(fns, st)[f])
  BY <1>3, LiftKeeps DEF IInv, Keeping
<1>7. DOMAIN Counted(st) = DOMAIN walker
      /\ \A i \in DOMAIN walker : Counted(st)[i].fn = walker[i].fn
  BY <1>3 DEF Counted, IsOpen
<1>8. Placed(Marked(Lift(fns, st), st), Counted(st))
  BY <1>1, <1>2, <1>3, <1>4, <1>5, <1>6, <1>7, MarkedPlaced
<1>. QED BY <1>2, <1>3, <1>8, AInvNext

(* A new function has no items.                                            *)
LEMMA EnterFunctionPlaced ==
  ASSUME AInv, NEW decl \in Decls, EnterFunction(decl)
  PROVE  AInv'
<1>. DEFINE new == NewFunction(decl, Top, Last(walker).blocks)
            n == Len(fns) + 1
            m == Len(walker) + 1
<1>1. Running /\ fns' = Append(fns, new) /\ walker' = Append(walker, Open(n))
  BY DEF EnterFunction, MoreParts, MoreUses
<1>2. IInv /\ IInv'
  BY EnterFunctionInv DEF AInv
<1>3. /\ IsList(fns) /\ Len(fns) \in Nat \ {0} /\ DOMAIN fns = 1 .. Len(fns)
      /\ IsList(walker) /\ Len(walker) \in Nat /\ DOMAIN walker = 1 .. Len(walker)
      /\ \A i \in DOMAIN walker : walker[i].fn \in DOMAIN fns
      /\ Placed(fns, walker) /\ Top # 0
  <2>1. IsList(fns) /\ IsList(walker) /\ Len(fns) >= 1 /\ Placed(fns, walker)
    BY DEF AInv, IInv, Good, Formed, Nested
  <2>2. Len(fns) \in Nat \ {0} /\ DOMAIN fns = 1 .. Len(fns) /\ 0 \notin DOMAIN fns
    BY <2>1, Lists
  <2>3. Top \in DOMAIN fns
    BY <1>1, <1>2, TopFact
  <2>. QED BY <1>2, <2>1, <2>2, <2>3, StackFacts
<1>4. /\ DOMAIN fns' = DOMAIN fns \cup {n} /\ n \notin DOMAIN fns
      /\ \A f \in DOMAIN fns : fns'[f] = fns[f]
      /\ fns'[n] = new
  <2>1. 1 .. Len(fns) + 1 = (1 .. Len(fns)) \cup {Len(fns) + 1}
    BY <1>3
  <2>. QED BY <1>1, <1>3, <2>1, AppendList
<1>5. /\ DOMAIN walker' = DOMAIN walker \cup {m} /\ m \notin DOMAIN walker
      /\ \A i \in DOMAIN walker : walker'[i] = walker[i]
      /\ walker'[m] = Open(n)
  <2>1. 1 .. Len(walker) + 1 = (1 .. Len(walker)) \cup {Len(walker) + 1}
    BY <1>3
  <2>. QED BY <1>1, <1>3, <2>1, AppendList
<1>6. LiftedSlots(new) = {}
  <2>1. \A s \in DOMAIN new.slots : new.slots[s] = Local
    BY <1>3 DEF NewFunction
  <2>. QED BY <2>1 DEF LiftedSlots, IsLifted
<1>7. /\ Open(n).fn = n /\ Open(n).lifted = 0
      /\ IsList(Open(n).blocks) /\ Len(Open(n).blocks) >= 1
  BY DEF Open, IsList
<1>. DEFINE gs == fns'
            w == walker'
<1>. HIDE DEF new, n, m, gs, w
<1>8. /\ DOMAIN gs = DOMAIN fns \cup {n} /\ gs[n] = new
      /\ \A f \in DOMAIN fns : gs[f] = fns[f]
  BY <1>4 DEF gs
<1>9. /\ DOMAIN w = DOMAIN walker \cup {m} /\ w[m] = Open(n)
      /\ \A i \in DOMAIN walker : w[i] = walker[i]
  BY <1>5 DEF w
<1>10. Items(gs) /\ Injective(gs)
  BY <1>3, <1>6, <1>8 DEF Placed, Items, Injective
<1>11. Room(gs, w)
  <2>1. ASSUME NEW i \in DOMAIN walker
        PROVE  /\ w[i].lifted \in Nat
               /\ \A s \in LiftedSlots(gs[w[i].fn]) : gs[w[i].fn].slots[s][2] < w[i].lifted
    BY <1>3, <1>8, <1>9 DEF Placed, Room
  <2>2. w[m].lifted \in Nat /\ LiftedSlots(gs[w[m].fn]) = {}
    BY <1>6, <1>7, <1>8, <1>9
  <2>. QED BY <1>9, <2>1, <2>2 DEF Room
<1>12. Stacked(w)
  <2>1. \A i \in DOMAIN w : IsList(w[i].blocks) /\ Len(w[i].blocks) >= 1
    BY <1>3, <1>7, <1>9 DEF Placed, Stacked
  <2>2. \A i, j \in DOMAIN w : w[i].fn = w[j].fn => i = j
    BY <1>3, <1>4, <1>7, <1>9 DEF Placed, Stacked
  <2>. QED BY <2>1, <2>2 DEF Stacked
<1>13. Sized(gs, w)
  <2>1. ASSUME NEW f \in DOMAIN gs \ {1}, OffStack(w, f), ~IsThick(gs[f])
        PROVE  SizeFits(gs[f])
    <3>1. f # n /\ OffStack(walker, f)
      BY <1>7, <1>9, <2>1 DEF OffStack
    <3>. QED BY <1>3, <1>8, <2>1, <3>1 DEF Placed, Sized
  <2>. QED BY <2>1 DEF Sized
<1>14. Placed(gs, w)
  BY <1>10, <1>11, <1>12, <1>13 DEF Placed
<1>. QED BY <1>2, <1>14, AInvNext DEF gs, w

(* The slot of a caught name is a local one.                               *)
LEMMA EnterCatchPlaced ==
  ASSUME AInv, NEW name, EnterCatch(name)
  PROVE  AInv'
<1>1. PICK block, slot :
        /\ fns' = [fns EXCEPT ![Top].slots =
                     [s \in DOMAIN @ \cup {slot} |-> IF s = slot THEN Local ELSE @[s]]]
        /\ walker' = WithBlock(block)
  BY DEF EnterCatch
<1>2. Running /\ IInv /\ IInv'
  BY EnterCatchInv DEF EnterCatch, MoreParts, MoreUses, AInv
<1>. DEFINE gs == fns'
<1>3. /\ DOMAIN gs = DOMAIN fns
      /\ \A f \in DOMAIN fns : f # Top => gs[f] = fns[f]
      /\ gs[Top].build = fns[Top].build
      /\ gs[Top].slots = [s \in DOMAIN fns[Top].slots \cup {slot} |->
                            IF s = slot THEN Local ELSE fns[Top].slots[s]]
  BY <1>1, <1>2, TopFact, StackFacts DEF IsFn
<1>. HIDE DEF gs
<1>4. \A s \in LiftedSlots(gs[Top]) :
        s \in LiftedSlots(fns[Top]) /\ gs[Top].slots[s] = fns[Top].slots[s]
  BY <1>3 DEF LiftedSlots, IsLifted
<1>5. NoNewItems(fns, gs) /\ Settled(fns, gs, walker)
  BY <1>3, <1>4 DEF NoNewItems, Settled
<1>6. Placed(gs, walker)
  BY <1>2, <1>5, StackFacts, NoNewPlaced DEF AInv
<1>7. Placed(gs, WithBlock(block))
  BY <1>2, <1>6, BlockPlaced
<1>. QED BY <1>1, <1>2, <1>7, AInvNext DEF gs

(* The end of a catch or with block.                                       *)
LEMMA LeaveBlockPlaced ==
  ASSUME AInv, IInv', LeaveBlock
  PROVE  AInv'
<1>. DEFINE bs == Front(walker[Len(walker)].blocks)
            v == [walker EXCEPT ![Len(walker)].blocks = bs]
<1>1. /\ Running /\ fns' = fns /\ walker' = v
      /\ Len(walker[Len(walker)].blocks) > 1
  BY DEF LeaveBlock, Last
<1>2. \A i \in DOMAIN walker : IsOpen(walker[i]) /\ IsList(walker[i].blocks)
                               /\ Len(walker[i].blocks) >= 1
  BY StackFacts DEF AInv, Placed, Stacked
<1>3. Len(walker) \in DOMAIN walker
  BY <1>1, TopFact DEF AInv
<1>4. IsList(bs) /\ Len(bs) >= 1
  <2>1. PICK c : c = walker[Len(walker)].blocks
    OBVIOUS
  <2>2. IsList(c) /\ Len(c) \in Nat /\ Len(c) > 1 /\ c # <<>>
    BY <1>1, <1>2, <1>3, <2>1, Lists
  <2>3. IsList(Front(c)) /\ Len(Front(c)) = Len(c) - 1
    BY <2>2, FrontList
  <2>. QED BY <2>1, <2>2, <2>3
<1>. HIDE DEF bs
<1>5. \A i \in DOMAIN walker :
        /\ v[i].fn = walker[i].fn /\ v[i].lifted = walker[i].lifted
        /\ IsList(v[i].blocks) /\ Len(v[i].blocks) >= 1
  BY <1>2, <1>4 DEF IsOpen
<1>6. DOMAIN v = DOMAIN walker
  OBVIOUS
<1>. HIDE DEF v
<1>7. Placed(fns, v)
  BY <1>5, <1>6, SameCounts DEF AInv
<1>. QED BY <1>1, <1>7, AInvNext

(* A function that is left gets a scope with an item for each variable,     *)
(* unless it builds a thick one.                                           *)
LEMMA LeavePlaced ==
  ASSUME AInv, Leave
  PROVE  AInv'
<1>. DEFINE lifted == Last(walker).lifted
            sized == IF lifted > 0 /\ fns[Top].build # Scope.thick
                       THEN [fns EXCEPT ![Top].build = Thin(lifted)] ELSE fns
            done == IF sized[Top].build = Scope.thick
                      THEN Transform(sized, Top) ELSE sized
            gs == IF Top # 1 THEN done
                  ELSE [done EXCEPT ![1].build = Scope.none, ![1].take = FALSE]
            n == Len(walker)
            v == Front(walker)
<1>1. Running /\ fns' = gs /\ walker' = v
  BY DEF Leave
<1>2. IInv /\ IInv' /\ Placed(fns, walker)
  BY LeaveInv DEF AInv
<1>3. /\ n \in Nat \ {0} /\ DOMAIN walker = 1 .. n /\ n \in DOMAIN walker
      /\ Top = walker[n].fn /\ lifted = walker[n].lifted /\ Top \in DOMAIN fns
      /\ 1 \in DOMAIN fns
      /\ \A i \in DOMAIN walker : walker[i].fn \in DOMAIN fns
      /\ \A f \in DOMAIN fns : IsFn(fns[f])
  BY <1>1, <1>2, TopFact, StackFacts DEF Last
<1>4. /\ lifted \in Nat
      /\ \A s \in LiftedSlots(fns[Top]) :
           fns[Top].slots[s][2] \in Nat /\ fns[Top].slots[s][2] < lifted
  BY <1>2, <1>3 DEF Placed, Room, Items
<1>. HIDE DEF lifted, n
<1>5. /\ DOMAIN sized = DOMAIN fns
      /\ \A f \in DOMAIN fns : IsFn(sized[f]) /\ sized[f].slots = fns[f].slots
      /\ \A f \in DOMAIN fns : f # Top => sized[f] = fns[f]
      /\ IsThick(sized[Top]) \/ SizeFits(sized[Top])
  <2>1. CASE lifted > 0 /\ fns[Top].build # Scope.thick
    <3>1. sized = [fns EXCEPT ![Top].build = Thin(lifted)]
      BY <2>1
    <3>2. sized[Top].build = <<"Thin", lifted>> /\ sized[Top].slots = fns[Top].slots
          /\ IsFn(sized[Top])
      BY <1>3, <3>1 DEF Thin, IsFn
    <3>3. SizeFits(sized[Top])
      BY <1>4, <3>2 DEF SizeFits, LiftedSlots
    <3>. QED BY <1>3, <3>1, <3>2, <3>3
  <2>2. CASE ~(lifted > 0 /\ fns[Top].build # Scope.thick)
    <3>1. sized = fns
      BY <2>2
    <3>2. IsThick(fns[Top]) \/ SizeFits(fns[Top])
      <4>1. CASE fns[Top].build # Scope.thick
        <5>1. LiftedSlots(fns[Top]) = {}
          BY <1>4, <2>2, <4>1
        <5>. QED BY <5>1 DEF SizeFits
      <4>. QED BY <4>1 DEF IsThick
    <3>. QED BY <1>3, <3>1, <3>2
  <2>. QED BY <2>1, <2>2
<1>. HIDE DEF sized
<1>6. /\ DOMAIN done = DOMAIN fns
      /\ \A f \in DOMAIN fns :
           /\ IsFn(done[f])
           /\ done[f].build = sized[f].build \/ IsThick(done[f])
           /\ \A s \in LiftedSlots(done[f]) :
                s \in LiftedSlots(sized[f]) /\ done[f].slots[s] = sized[f].slots[s]
  <2>1. CASE sized[Top].build = Scope.thick
    <3>1. done = Transform(sized, Top)
      BY <2>1
    <3>2. ASSUME NEW f \in DOMAIN fns
          PROVE  /\ IsFn(done[f])
                 /\ done[f].build = sized[f].build \/ IsThick(done[f])
                 /\ \A s \in LiftedSlots(done[f]) :
                      s \in LiftedSlots(sized[f]) /\ done[f].slots[s] = sized[f].slots[s]
      <4>1. CASE f \in Rewritten(sized, Top)
        <5>1. PICK P : P = [s \in DOMAIN sized[f].slots |->
                 f = Top \/ \E i \in DOMAIN idents :
                               /\ idents[i].state.is = "Slot"
                               /\ idents[i].fn = f /\ idents[i].state.slot = s]
          OBVIOUS
        <5>2. PICK slots : slots = [s \in DOMAIN sized[f].slots |->
                                      IF P[s] THEN Scoped ELSE sized[f].slots[s]]
          OBVIOUS
        <5>3. slots = [s \in DOMAIN sized[f].slots |->
                 IF f = Top \/ \E i \in DOMAIN idents :
                               /\ idents[i].state.is = "Slot"
                               /\ idents[i].fn = f /\ idents[i].state.slot = s
                   THEN Scoped ELSE sized[f].slots[s]]
          BY <5>1, <5>2
        <5>4. done[f] = [sized[f] EXCEPT !.build = Scope.thick, !.slots = slots]
          BY <1>5, <3>1, <4>1, <5>3 DEF Transform
        <5>5. /\ IsFn(done[f]) /\ done[f].build = Scope.thick /\ done[f].slots = slots
          BY <1>5, <5>4 DEF IsFn
        <5>. QED BY <5>2, <5>5 DEF IsThick, LiftedSlots, IsLifted
      <4>2. CASE f \notin Rewritten(sized, Top)
        <5>1. done[f] = sized[f]
          BY <1>5, <3>1, <4>2 DEF Transform
        <5>. QED BY <1>5, <5>1
      <4>. QED BY <4>1, <4>2
    <3>3. DOMAIN done = DOMAIN fns
      BY <1>5, <3>1 DEF Transform
    <3>. QED BY <3>2, <3>3
  <2>2. CASE sized[Top].build # Scope.thick
    BY <1>5, <2>2
  <2>. QED BY <2>1, <2>2
<1>7. IsThick(done[Top]) \/ SizeFits(done[Top])
  <2>1. CASE IsThick(sized[Top])
    <3>1. done = Transform(sized, Top)
      BY <2>1 DEF IsThick
    <3>2. Top \in Rewritten(sized, Top)
      BY <1>3, <1>5 DEF Rewritten
    <3>3. PICK f \in DOMAIN sized : f = Top
      BY <1>3, <1>5
    <3>4. PICK slots : done[f] = [sized[f] EXCEPT !.build = Scope.thick, !.slots = slots]
      BY <3>1, <3>2, <3>3 DEF Transform
    <3>. QED BY <1>3, <1>5, <3>3, <3>4 DEF IsFn, IsThick
  <2>2. CASE ~IsThick(sized[Top])
    BY <1>5, <2>2 DEF IsThick
  <2>. QED BY <2>1, <2>2
<1>. HIDE DEF done
<1>8. /\ DOMAIN gs = DOMAIN fns
      /\ \A f \in DOMAIN fns : gs[f].slots = done[f].slots
      /\ \A f \in DOMAIN fns : f # 1 => gs[f] = done[f]
      /\ Top # 1 => gs = done
  <2>1. CASE Top = 1
    <3>1. gs = [done EXCEPT ![1].build = Scope.none, ![1].take = FALSE]
      BY <2>1
    <3>2. gs[1].slots = done[1].slots
      BY <1>3, <1>6, <3>1 DEF IsFn
    <3>. QED BY <1>6, <2>1, <3>1, <3>2
  <2>2. CASE Top # 1
    BY <1>6, <2>2
  <2>. QED BY <2>1, <2>2
<1>. HIDE DEF gs
<1>9. NoNewItems(fns, gs)
  BY <1>5, <1>6, <1>8 DEF NoNewItems, LiftedSlots
<1>10. ASSUME NEW f \in DOMAIN fns, OffStack(walker, f)
       PROVE  IsThick(gs[f]) \/ gs[f].build = fns[f].build
  <2>1. f # Top
    BY <1>3, <1>10 DEF OffStack
  <2>2. f # 1
    <3>1. walker[1].fn = 1 /\ 1 \in DOMAIN walker
      BY <1>2, <1>3 DEF IInv, Nested, n
    <3>. QED BY <1>10, <3>1 DEF OffStack
  <2>. QED BY <1>5, <1>6, <1>8, <2>1, <2>2
<1>11. Placed(gs, walker)
  BY <1>2, <1>3, <1>9, <1>10, NoNewPlaced DEF Settled
<1>12. /\ DOMAIN v = 1 .. n - 1
       /\ \A i \in 1 .. n - 1 : v[i] = walker[i] /\ i \in DOMAIN walker /\ i # n
  <2>1. IsList(walker) /\ walker # <<>>
    BY <1>1, <1>2 DEF IInv, Nested, Running
  <2>2. IsList(v) /\ Len(v) = n - 1 /\ \A i \in 1 .. n - 1 : v[i] = walker[i]
    BY <2>1, FrontList DEF n
  <2>3. \A i \in 1 .. n - 1 : i \in 1 .. n /\ i # n
    BY <1>3
  <2>. QED BY <1>3, <2>2, <2>3, Lists
<1>13. \A i \in DOMAIN walker : i # n => i \in 1 .. n - 1
  BY <1>3
<1>. HIDE DEF v
<1>14. Room(gs, v)
  BY <1>11, <1>12 DEF Placed, Room
<1>15. Stacked(v)
  BY <1>11, <1>12 DEF Placed, Stacked
<1>16. Sized(gs, v)
  <2>1. ASSUME NEW f \in DOMAIN gs \ {1}, OffStack(v, f), ~IsThick(gs[f])
        PROVE  SizeFits(gs[f])
    <3>1. CASE f = Top
      <4>1. gs = done
        BY <1>8, <2>1, <3>1
      <4>. QED BY <1>7, <2>1, <3>1, <4>1
    <3>2. CASE f # Top
      <4>1. OffStack(walker, f)
        BY <1>3, <1>12, <1>13, <2>1, <3>2 DEF OffStack
      <4>. QED BY <1>11, <2>1, <4>1 DEF Placed, Sized
    <3>. QED BY <3>1, <3>2
  <2>. QED BY <2>1 DEF Sized
<1>17. Placed(gs, v)
  BY <1>11, <1>14, <1>15, <1>16 DEF Placed
<1>. QED BY <1>1, <1>2, <1>17, AInvNext

-----------------------------------------------------------------------------
(* The program begins without a lifted variable.                           *)
LEMMA InitPlaced == Init => AInv
<1>. SUFFICES ASSUME Init  PROVE AInv
  OBVIOUS
<1>1. fns = <<NewFunction(Global, 0, <<>>)>> /\ walker = <<Open(1)>>
  BY DEF Init
<1>2. /\ DOMAIN fns = {1} /\ fns[1] = NewFunction(Global, 0, <<>>)
      /\ DOMAIN walker = {1} /\ walker[1] = Open(1)
  BY <1>1
<1>3. LiftedSlots(fns[1]) = {}
  <2>1. \A s \in DOMAIN fns[1].slots : fns[1].slots[s] = Scoped
    BY <1>2 DEF NewFunction
  <2>. QED BY <2>1 DEF LiftedSlots, IsLifted
<1>4. /\ walker[1].fn = 1 /\ walker[1].lifted = 0
      /\ IsList(walker[1].blocks) /\ Len(walker[1].blocks) >= 1
  BY <1>2 DEF Open, IsList
<1>5. Placed(fns, walker)
  BY <1>2, <1>3, <1>4 DEF Placed, Items, Injective, Room, Stacked, Sized
<1>. QED BY <1>5, InitInv DEF AInv

(* Every step of the resolver keeps the items placed.                      *)
LEMMA NextPlaced == AInv /\ [Next]_vars => AInv'
<1>. SUFFICES ASSUME AInv, [Next]_vars  PROVE AInv'
  OBVIOUS
<1>0. IInv /\ IInv'
  BY NextInv DEF AInv
<1>1. ASSUME NEW name \in Names \cup {Arguments}, Use(name)
      PROVE  AInv'
  BY <1>1, UsePlaced
<1>2. ASSUME NEW decl \in Decls, EnterFunction(decl)
      PROVE  AInv'
  BY <1>2, EnterFunctionPlaced
<1>3. ASSUME NEW name \in Names, EnterCatch(name)
      PROVE  AInv'
  BY <1>3, EnterCatchPlaced
<1>4. CASE EnterWith
  <2>1. PICK block : walker' = WithBlock(block)
    BY <1>4 DEF EnterWith
  <2>2. Running /\ fns' = fns
    BY <1>4 DEF EnterWith, MoreParts, MoreUses
  <2>3. Placed(fns, WithBlock(block))
    BY <1>0, <2>2, BlockPlaced DEF AInv
  <2>. QED BY <1>0, <2>1, <2>2, <2>3, AInvNext
<1>5. CASE LeaveBlock
  BY <1>0, <1>5, LeaveBlockPlaced
<1>6. CASE Leave
  BY <1>6, LeavePlaced
<1>7. CASE UNCHANGED vars
  <2>1. fns' = fns /\ walker' = walker
    BY <1>7 DEF vars
  <2>. QED BY <1>0, <2>1, AInvNext DEF AInv
<1>. QED BY <1>1, <1>2, <1>3, <1>4, <1>5, <1>6, <1>7 DEF Next

(* Whatever the program is, two variables of a function never share an item *)
(* of its thin scope, and the scope has an item for each of them.          *)
THEOREM ItemsNotShared == Spec => []NoAlias
<1>1. AInv => NoAlias
  <2>. SUFFICES ASSUME AInv, NEW f \in DOMAIN fns \ {1}
                PROVE  LET slots == fns[f].slots
                           lifted == {s \in DOMAIN slots : IsLifted(slots[s])}
                           open == {s \in DOMAIN walker : walker[s].fn = f}
                       IN  /\ \A s, t \in lifted : slots[s][2] = slots[t][2] => s = t
                           /\ open = {} /\ fns[f].build # Scope.thick =>
                                \A s \in lifted :
                                  fns[f].build[1] = "Thin" /\ slots[s][2] < fns[f].build[2]
    BY DEF NoAlias
  <2>1. \A s, t \in LiftedSlots(fns[f]) :
          fns[f].slots[s][2] = fns[f].slots[t][2] => s = t
    BY DEF AInv, Placed, Injective
  <2>2. {s \in DOMAIN walker : walker[s].fn = f} = {} => OffStack(walker, f)
    BY DEF OffStack
  <2>3. OffStack(walker, f) /\ fns[f].build # Scope.thick => SizeFits(fns[f])
    BY DEF AInv, Placed, Sized, IsThick
  <2>. QED BY <2>1, <2>2, <2>3 DEF SizeFits, LiftedSlots
<1>. QED BY <1>1, InitPlaced, NextPlaced, PTL DEF Spec

-----------------------------------------------------------------------------
(* No eval and no with: neither in the functions nor around the identifiers *)
(* met so far.                                                              *)
HasWith(blocks) == \E b \in DOMAIN blocks : blocks[b].kind = "with"

Blameless(fs, ids) ==
  /\ \A f \in DOMAIN fs : ~fs[f].decl.deopt /\ ~HasWith(fs[f].site)
  /\ \A i \in DOMAIN ids : ~HasWith(ids[i].blocks)

(* Nothing is left to run time: no thick scope, a program that takes none, *)
(* and no identifier that is searched for by name.                         *)
Light(fs) == ~fs[1].take /\ \A f \in DOMAIN fs : ~IsThick(fs[f])
Bound(ids) ==
  \A i \in DOMAIN ids : ids[i].state.is \notin {"Scoped", "ScopedArg"}

(* The blocks a function stands in are those open in the function around.  *)
Sites(fs, w) ==
  \A s \in 1 .. Len(w) - 1 : w[s].blocks = fs[w[s + 1].fn].site

OInv ==
  /\ AInv /\ IsList(idents) /\ Sites(fns, walker)
  /\ Blameless(fns, idents) => Light(fns) /\ Bound(idents)

(* What is free of eval and with was so before. *)
LEMMA BlamelessBefore ==
  ASSUME NEW fs, NEW gs, NEW ids, NEW js, Blameless(gs, js),
         \A f \in DOMAIN fs : /\ f \in DOMAIN gs /\ gs[f].decl = fs[f].decl
                              /\ gs[f].site = fs[f].site,
         \A i \in DOMAIN ids : i \in DOMAIN js /\ js[i].blocks = ids[i].blocks
  PROVE  Blameless(fs, ids)
BY DEF Blameless

(* A step that keeps the functions and the places of all but the last. *)
LEMMA SitesKept ==
  ASSUME NEW fs, NEW gs, Keeping(fs, gs), NEW w, Sites(fs, w), NEW v,
         Len(w) \in Nat, DOMAIN w = 1 .. Len(w), Len(v) \in Nat, Len(v) <= Len(w),
         \A s \in 1 .. Len(w) : w[s].fn \in DOMAIN fs,
         \A s \in 1 .. Len(v) :
           v[s].fn = w[s].fn /\ (s < Len(v) => v[s].blocks = w[s].blocks)
  PROVE  Sites(gs, v)
<1>. SUFFICES ASSUME NEW s \in 1 .. Len(v) - 1
              PROVE  v[s].blocks = gs[v[s + 1].fn].site
  BY DEF Sites
<1>1. /\ s \in 1 .. Len(v) /\ s + 1 \in 1 .. Len(v) /\ s \in 1 .. Len(w) - 1
      /\ s + 1 \in 1 .. Len(w) /\ s < Len(v)
  OBVIOUS
<1>2. v[s].blocks = w[s].blocks /\ v[s + 1].fn = w[s + 1].fn
  BY <1>1
<1>3. w[s].blocks = fs[w[s + 1].fn].site
  BY <1>1 DEF Sites
<1>. QED BY <1>1, <1>2, <1>3 DEF Keeping

(* Without an eval or a with nothing is searched for by name. *)
LEMMA ResolvedBound ==
  ASSUME AInv, Running, Sites(fns, walker), Light(fns),
         \A f \in DOMAIN fns : ~HasWith(fns[f].site),
         ~HasWith(Last(walker).blocks), NEW name
  PROVE  Resolved(name).is \notin {"Scoped", "ScopedArg"}
<1>. DEFINE at == Stop(name)
            s == at[1]
            f == walker[s].fn
            block == walker[s].blocks[at[2]]
<1>1. /\ Len(walker) \in Nat \ {0} /\ DOMAIN walker = 1 .. Len(walker)
      /\ \A i \in DOMAIN walker : walker[i].fn \in DOMAIN fns
      /\ \A i \in DOMAIN walker : /\ IsList(walker[i].blocks)
                                  /\ Len(walker[i].blocks) >= 1
  BY TopFact, StackFacts DEF AInv, Placed, Stacked
<1>2. /\ s \in 1 .. Len(walker) /\ at[2] \in 1 .. MaxParts
      /\ at[2] <= Len(walker[s].blocks)
  <2>1. Len(walker[1].blocks) \in Nat \ {0}
    BY <1>1, Lists
  <2>. QED BY <1>1, <2>1, StopOnStack
<1>. HIDE DEF at
<1>3. at[2] \in DOMAIN walker[s].blocks
  <2>1. /\ DOMAIN walker[s].blocks = 1 .. Len(walker[s].blocks)
        /\ Len(walker[s].blocks) \in Nat
    BY <1>1, <1>2, Lists
  <2>. QED BY <1>2, <2>1, PartsAssumption
<1>4. ~HasWith(walker[s].blocks)
  <2>1. CASE s = Len(walker)
    BY <2>1 DEF Last
  <2>2. CASE s # Len(walker)
    <3>1. s \in 1 .. Len(walker) - 1 /\ s + 1 \in 1 .. Len(walker)
      BY <1>1, <1>2, <2>2
    <3>. QED BY <1>1, <3>1 DEF Sites
  <2>. QED BY <2>1, <2>2
<1>5. block.kind # "with"
  BY <1>3, <1>4 DEF HasWith
<1>6. ~MetThick(s, at[2]) /\ ~fns[1].take
  <2>1. \A i \in s .. Len(walker) : fns[walker[i].fn].build # Scope.thick
    BY <1>1, <1>2 DEF Light, IsThick
  <2>. QED BY <2>1 DEF MetThick, Light
<1>. HIDE DEF f, block
<1>7. Resolved(name).is \in
        {"Global", "LoadFunction", "LiftedArg", "Arg", "Slot", "LiftedSlot"}
  BY <1>5, <1>6 DEF Resolved, at, s, f, block
<1>. QED BY <1>7

(* Lifting a local changes no scope. *)
LEMMA LiftLight ==
  ASSUME Good(fns), Light(fns), NEW st
  PROVE  Light(Lift(fns, st))
<1>1. 1 \in DOMAIN fns /\ \A f \in DOMAIN fns : IsFn(fns[f])
  BY Lists DEF Good, Formed
<1>2. CASE Lifts(st)
  <2>1. PICK slots : Lift(fns, st) = [fns EXCEPT ![st.fn].slots = slots]
    BY <1>2 DEF Lift
  <2>2. ASSUME NEW f \in DOMAIN fns
        PROVE  /\ Lift(fns, st)[f].build = fns[f].build
               /\ Lift(fns, st)[f].take = fns[f].take
    BY <1>1, <2>1 DEF IsFn
  <2>. QED BY <1>1, <2>1, <2>2 DEF Light, IsThick
<1>3. CASE ~Lifts(st)
  BY <1>3 DEF Lift
<1>. QED BY <1>2, <1>3

(* A variable of another function makes thin scopes only, and the program  *)
(* takes none: it is the first on the stack and there only once.           *)
LEMMA MarkedLight ==
  ASSUME AInv, Running, NEW name, NEW st, st = Resolved(name),
         st.is \notin {"Scoped", "ScopedArg"},
         NEW fs, Good(fs), DOMAIN fs = DOMAIN fns, Light(fs)
  PROVE  Light(Marked(fs, st))
<1>. DEFINE n == Len(walker)
            target == n - st.depth
            gs == MarkThin(fs, target)
            Met(f, last) == \E s \in last .. n - 1 :
                              walker[s].fn = f /\ ThinReaches(fs, s)
<1>1. /\ n \in Nat \ {0} /\ DOMAIN walker = 1 .. n
      /\ Last(walker).fn = walker[n].fn /\ walker[1].fn = 1
      /\ \A i, j \in DOMAIN walker : walker[i].fn = walker[j].fn => i = j
      /\ IsList(walker[1].blocks) /\ Len(walker[1].blocks) >= 1
  BY TopFact DEF AInv, IInv, Nested, Placed, Stacked, Top
<1>2. 1 \in DOMAIN fs /\ \A f \in DOMAIN fs : IsFn(fs[f])
  BY Lists DEF Good, Formed
<1>3. CASE st.is \notin {"LiftedSlot", "LiftedArg"}
  <2>1. Marked(fs, st) = fs
    BY <1>3 DEF Marked
  <2>. QED BY <2>1
<1>4. CASE st.is \in {"LiftedSlot", "LiftedArg"}
  <2>1. Marked(fs, st) = gs
    BY <1>4 DEF Marked
  <2>2. target \in 1 .. n
    <3>1. Len(walker[1].blocks) \in Nat \ {0}
      BY <1>1, Lists
    <3>. QED BY <1>1, <1>4, <3>1, LiftedFromStack
  <2>3. st.depth # 0
    <3>1. PICK at : at = Stop(name)
      OBVIOUS
    <3>2. at[1] \in 1 .. n
      <4>1. Len(walker[1].blocks) \in Nat \ {0}
        BY <1>1, Lists
      <4>. QED BY <1>1, <3>1, <4>1, StopOnStack
    <3>3. st.depth = n - at[1] /\ (n - at[1] > 0 \/ n - at[1] # 0)
      BY <1>4, <3>1 DEF Resolved
    <3>. QED BY <1>1, <3>2, <3>3
  <2>4. st.depth = n - target /\ target # n /\ target + 1 > 1
    <3>1. st.depth \in Int
      <4>1. PICK at : at = Stop(name)
        OBVIOUS
      <4>2. at[1] \in 1 .. n
        <5>1. Len(walker[1].blocks) \in Nat \ {0}
          BY <1>1, Lists
        <5>. QED BY <1>1, <4>1, <5>1, StopOnStack
      <4>3. st.depth = n - at[1]
        BY <1>4, <4>1 DEF Resolved
      <4>. QED BY <1>1, <4>2, <4>3
    <3>. QED BY <1>1, <2>2, <2>3, <3>1
  <2>. HIDE DEF target
  <2>7. n \in 2 .. n /\ target + 1 \in 2 .. n /\ \A i \in 2 .. n : walker[i].fn # 1
    <3>1. n # 1 /\ n \in Nat /\ target \in Nat /\ target >= 1 /\ target < n
      <4>1. n \in Nat \ {0} /\ target \in 1 .. n /\ target # n
        BY <1>1, <2>2, <2>4
      <4>. HIDE DEF n
      <4>. QED BY <4>1
    <3>2. ASSUME NEW i \in 2 .. n PROVE walker[i].fn # 1
      <4>1. i \in DOMAIN walker /\ 1 \in DOMAIN walker /\ i # 1
        BY <1>1
      <4>. QED BY <1>1, <4>1
    <3>. HIDE DEF n
    <3>3. n \in 2 .. n /\ target + 1 \in 2 .. n
      BY <3>1
    <3>. QED BY <3>2, <3>3
  <2>5. ASSUME NEW f \in DOMAIN fs
        PROVE  ~IsThick(gs[f]) /\ (f = 1 => ~gs[f].take)
    <3>1. IsFn(fs[f]) /\ ~IsThick(fs[f]) /\ (f = 1 => ~fs[f].take)
      BY <1>2 DEF Light
    <3>2. CASE f = Last(walker).fn
      <4>1. gs[f] = [fs[f] EXCEPT !.take = TRUE]
        BY <3>2 DEF MarkThin
      <4>2. f # 1
        BY <1>1, <2>7, <3>2
      <4>. QED BY <3>1, <4>1, <4>2 DEF IsFn, IsThick
    <3>3. CASE f # Last(walker).fn /\ Met(f, target)
      <4>1. gs[f] = [fs[f] EXCEPT !.build = Thin(0), !.take = @ \/ Met(f, target + 1)]
        BY <3>3 DEF MarkThin
      <4>2. f = 1 => ~Met(f, target + 1)
        <5>1. \A i \in target + 1 .. n - 1 : i \in 2 .. n
          BY <1>1, <2>7
        <5>. QED BY <2>7, <5>1
      <4>3. Thin(0) # Scope.thick
        BY DEF Thin, Scope
      <4>4. gs[f].build = Thin(0) /\ gs[f].take = (fs[f].take \/ Met(f, target + 1))
        <5>. HIDE DEF Met, gs
        <5>. QED BY <3>1, <4>1 DEF IsFn
      <4>. QED BY <3>1, <4>2, <4>3, <4>4 DEF IsThick
    <3>4. CASE f # Last(walker).fn /\ ~Met(f, target)
      <4>1. gs[f] = fs[f]
        BY <3>4 DEF MarkThin
      <4>. QED BY <3>1, <4>1
    <3>. QED BY <3>2, <3>3, <3>4
  <2>6. DOMAIN gs = DOMAIN fs
    BY DEF MarkThin
  <2>. QED BY <1>2, <2>1, <2>5, <2>6 DEF Light
<1>. QED BY <1>3, <1>4

(* The invariant after a step, from what the step leaves. *)
LEMMA OInvNext ==
  ASSUME AInv', NEW gs, fns' = gs, NEW w, walker' = w, NEW ids, idents' = ids,
         IsList(ids), Sites(gs, w), Blameless(gs, ids) => Light(gs) /\ Bound(ids)
  PROVE  OInv'
BY DEF OInv, Sites, Blameless, Light, Bound, HasWith, IsList, IsThick, Scope

(* An identifier. *)
LEMMA UseOptimised ==
  ASSUME OInv, AInv', NEW name, Use(name)
  PROVE  OInv'
<1>1. PICK st : st = Resolved(name)
  OBVIOUS
<1>2. /\ Running /\ fns' = Marked(Lift(fns, st), st) /\ walker' = Counted(st)
      /\ idents' = Append(idents, Ident(name, st))
  BY <1>1 DEF Use, MoreUses
<1>3. AInv /\ IInv /\ IsList(idents) /\ Good(fns)
  BY DEF OInv, AInv, IInv
<1>4. Keeping(fns, fns') /\ DOMAIN fns' = DOMAIN fns
  BY <1>3, UseInv DEF Keeping
<1>5. /\ IsList(idents') /\ DOMAIN idents' = 1 .. Len(idents) + 1
      /\ DOMAIN idents = 1 .. Len(idents) /\ Len(idents) \in Nat
      /\ \A i \in DOMAIN idents : idents'[i] = idents[i]
      /\ idents'[Len(idents) + 1] = Ident(name, st)
  BY <1>2, <1>3, AppendList, Lists
<1>6. Sites(fns', walker')
  <2>1. /\ DOMAIN walker = 1 .. Len(walker) /\ Len(walker) \in Nat
        /\ \A i \in DOMAIN walker : walker[i].fn \in DOMAIN fns /\ IsOpen(walker[i])
        /\ Len(Counted(st)) = Len(walker)
    BY <1>2, <1>3, StackFacts DEF Counted
  <2>2. \A i \in 1 .. Len(walker) : /\ Counted(st)[i].fn = walker[i].fn
                                    /\ Counted(st)[i].blocks = walker[i].blocks
    BY <2>1 DEF Counted, IsOpen
  <2>. QED BY <1>2, <1>4, <2>1, <2>2, SitesKept DEF OInv
<1>7. ASSUME Blameless(fns', idents')
      PROVE  Light(fns') /\ Bound(idents')
  <2>1. Blameless(fns, idents)
    BY <1>4, <1>5, <1>7, BlamelessBefore DEF Keeping
  <2>2. Light(fns) /\ Bound(idents) /\ Sites(fns, walker)
    BY <2>1 DEF OInv
  <2>3. ~HasWith(Last(walker).blocks)
    BY <1>5, <1>7 DEF Blameless, Ident
  <2>4. st.is \notin {"Scoped", "ScopedArg"}
    BY <1>1, <1>2, <1>3, <2>1, <2>2, <2>3, ResolvedBound DEF Blameless
  <2>5. Light(fns')
    <3>1. Good(Lift(fns, st)) /\ DOMAIN Lift(fns, st) = DOMAIN fns
          /\ Light(Lift(fns, st))
      BY <1>3, <2>2, LiftKeeps, LiftLight DEF Keeping
    <3>. QED BY <1>1, <1>2, <1>3, <2>4, <3>1, MarkedLight
  <2>6. Bound(idents')
    BY <1>5, <2>2, <2>4 DEF Bound, Ident
  <2>. QED BY <2>5, <2>6
<1>. QED BY <1>5, <1>6, <1>7, OInvNext

(* Steps that change blocks alone, on top of the stack. *)
LEMMA BlocksOptimised ==
  ASSUME OInv, AInv', UNCHANGED <<fns, idents>>, NEW bs,
         walker' = [walker EXCEPT ![Len(walker)].blocks = bs]
  PROVE  OInv'
<1>. DEFINE w == [walker EXCEPT ![Len(walker)].blocks = bs]
<1>1. /\ Good(fns) /\ Len(walker) \in Nat /\ DOMAIN walker = 1 .. Len(walker)
      /\ \A i \in DOMAIN walker : walker[i].fn \in DOMAIN fns /\ IsOpen(walker[i])
  BY StackFacts DEF OInv, AInv, IInv
<1>2. /\ Len(w) = Len(walker)
      /\ \A i \in 1 .. Len(walker) :
           w[i].fn = walker[i].fn /\ (i < Len(w) => w[i].blocks = walker[i].blocks)
  BY <1>1 DEF IsOpen
<1>. HIDE DEF w
<1>3. Keeping(fns, fns)
  BY <1>1, Lists DEF Good, Formed, Keeping
<1>4. Sites(fns, w)
  BY <1>1, <1>2, <1>3, SitesKept DEF OInv
<1>. QED BY <1>4, OInvNext DEF OInv, w

(* A new function. *)
LEMMA EnterFunctionOptimised ==
  ASSUME OInv, AInv', NEW decl \in Decls, EnterFunction(decl)
  PROVE  OInv'
<1>. DEFINE n == Len(fns) + 1
<1>1. PICK new : new = NewFunction(decl, Top, Last(walker).blocks)
  OBVIOUS
<1>2. /\ Running /\ fns' = Append(fns, new) /\ walker' = Append(walker, Open(n))
      /\ idents' = idents
  BY <1>1 DEF EnterFunction, MoreParts, MoreUses
<1>3. /\ IInv /\ IsList(fns) /\ IsList(walker) /\ Len(walker) \in Nat \ {0}
      /\ DOMAIN walker = 1 .. Len(walker) /\ DOMAIN fns = 1 .. Len(fns)
      /\ Len(fns) \in Nat /\ 1 \in DOMAIN fns
      /\ \A i \in DOMAIN walker : walker[i].fn \in DOMAIN fns
  BY <1>2, TopFact, StackFacts, Lists DEF OInv, AInv, IInv, Good, Formed, Nested
<1>4. /\ DOMAIN fns' = 1 .. n /\ fns'[n] = new
      /\ \A f \in DOMAIN fns : fns'[f] = fns[f]
      /\ \A f \in DOMAIN fns' : f \in DOMAIN fns \/ f = n
      /\ DOMAIN fns \subseteq DOMAIN fns'
  BY <1>2, <1>3, AppendList
<1>5. /\ Len(walker') = Len(walker) + 1
      /\ \A s \in 1 .. Len(walker) : walker'[s] = walker[s]
      /\ walker'[Len(walker) + 1].fn = n
  <2>1. Open(n).fn = n
    BY DEF Open
  <2>. QED BY <1>2, <1>3, <2>1, AppendList
<1>6. /\ new.decl = decl /\ new.site = walker[Len(walker)].blocks
      /\ ~decl.deopt => ~IsThick(new)
  BY <1>1 DEF NewFunction, IsThick, Scope, Last
<1>. HIDE DEF n
<1>7. Sites(fns', walker')
  <2>. SUFFICES ASSUME NEW s \in 1 .. Len(walker') - 1
                PROVE  walker'[s].blocks = fns'[walker'[s + 1].fn].site
    BY DEF Sites
  <2>1. CASE s = Len(walker)
    BY <1>3, <1>4, <1>5, <1>6, <2>1
  <2>2. CASE s # Len(walker)
    <3>. DEFINE m == Len(walker)
    <3>1. m \in Nat /\ Len(walker') = m + 1 /\ s \in 1 .. Len(walker') - 1 /\ s # m
      BY <1>3, <1>5, <2>2
    <3>. HIDE DEF m
    <3>2. s \in 1 .. m - 1 /\ s \in 1 .. m /\ s + 1 \in 1 .. m
      BY <3>1
    <3>. USE DEF m
    <3>3. walker[s].blocks = fns[walker[s + 1].fn].site
      BY <3>2 DEF OInv, Sites
    <3>. QED BY <1>3, <1>4, <1>5, <3>2, <3>3
  <2>. QED BY <2>1, <2>2
<1>8. ASSUME Blameless(fns', idents)
      PROVE  Light(fns') /\ Bound(idents)
  <2>1. Blameless(fns, idents)
    BY <1>4, <1>8, BlamelessBefore
  <2>2. ~decl.deopt
    BY <1>3, <1>4, <1>6, <1>8 DEF Blameless, n
  <2>3. Light(fns')
    BY <1>3, <1>4, <1>6, <2>1, <2>2 DEF OInv, Light
  <2>. QED BY <2>1, <2>3 DEF OInv
<1>. QED BY <1>2, <1>7, <1>8, OInvNext DEF OInv

(* A caught name is a variable of the function the block is in. *)
LEMMA EnterCatchOptimised ==
  ASSUME OInv, AInv', NEW name, EnterCatch(name)
  PROVE  OInv'
<1>1. PICK slots, bs, st :
        /\ fns' = [fns EXCEPT ![Top].slots = slots]
        /\ walker' = [walker EXCEPT ![Len(walker)].blocks = bs]
        /\ idents' = Append(idents, [name |-> name, fn |-> Top, state |-> st,
                                      blocks |-> Last(walker').blocks])
        /\ fns[Top].build # Scope.thick => st.is \notin {"Scoped", "ScopedArg"}
        /\ Running
  <2>. DEFINE block == [kind |-> "catch", name |-> name, id |-> opened + 1]
              slot == SlotOf(name, block.id)
              st == IF fns[Top].decl.self = name
                      THEN [is |-> "LoadFunction", fn |-> Top]
                    ELSE IF fns[Top].build = Scope.thick THEN [is |-> "Scoped"]
                    ELSE [is |-> "Slot", fn |-> Top, slot |-> slot, depth |-> 0]
              slots == [s \in DOMAIN fns[Top].slots \cup {slot} |->
                          IF s = slot THEN Local ELSE fns[Top].slots[s]]
              bs == Append(walker[Len(walker)].blocks, block)
  <2>1. fns[Top].build # Scope.thick => st.is \notin {"Scoped", "ScopedArg"}
    OBVIOUS
  <2>2. fns' = [fns EXCEPT ![Top].slots = slots]
    BY DEF EnterCatch
  <2>3. walker' = [walker EXCEPT ![Len(walker)].blocks = bs]
    BY DEF EnterCatch, WithBlock
  <2>4. idents' = Append(idents, [name |-> name, fn |-> Top, state |-> st,
                                  blocks |-> Last(walker').blocks])
    BY DEF EnterCatch
  <2>5. Running
    BY DEF EnterCatch, MoreParts, MoreUses
  <2>. HIDE DEF slots, bs, st
  <2>. QED BY <2>1, <2>2, <2>3, <2>4, <2>5 DEF st
<1>2. PICK new : new = [name |-> name, fn |-> Top, state |-> st,
                        blocks |-> Last(walker').blocks]
  OBVIOUS
<1>3. /\ IInv /\ Good(fns) /\ IsList(idents) /\ Top \in DOMAIN fns
      /\ Len(walker) \in Nat \ {0} /\ DOMAIN walker = 1 .. Len(walker)
      /\ 1 \in DOMAIN fns /\ \A f \in DOMAIN fns : IsFn(fns[f])
      /\ \A i \in DOMAIN walker : walker[i].fn \in DOMAIN fns /\ IsOpen(walker[i])
  BY <1>1, TopFact, StackFacts DEF OInv, AInv, IInv
<1>4. Keeping(fns, fns') /\ DOMAIN fns' = DOMAIN fns
  BY <1>1, <1>3, SlotsKeep
<1>5. \A f \in DOMAIN fns : fns'[f].build = fns[f].build /\ fns'[f].take = fns[f].take
  BY <1>1, <1>3 DEF IsFn
<1>6. /\ IsList(idents') /\ DOMAIN idents' = 1 .. Len(idents) + 1
      /\ DOMAIN idents = 1 .. Len(idents) /\ Len(idents) \in Nat
      /\ \A i \in DOMAIN idents : idents'[i] = idents[i]
      /\ idents'[Len(idents) + 1] = new
  BY <1>1, <1>2, <1>3, AppendList, Lists
<1>7. Sites(fns', walker')
  <2>1. /\ Len(walker') = Len(walker)
        /\ \A i \in 1 .. Len(walker) :
             /\ walker'[i].fn = walker[i].fn
             /\ i < Len(walker) => walker'[i].blocks = walker[i].blocks
    BY <1>1, <1>3 DEF IsOpen
  <2>2. PICK w, gs : w = walker' /\ gs = fns'
    OBVIOUS
  <2>3. /\ Len(w) \in Nat /\ Len(w) <= Len(walker) /\ Len(walker) \in Nat
        /\ \A i \in 1 .. Len(w) :
             w[i].fn = walker[i].fn /\ (i < Len(w) => w[i].blocks = walker[i].blocks)
    BY <1>3, <2>1, <2>2
  <2>4. Sites(gs, w)
    <3>1. Sites(fns, walker) /\ Keeping(fns, gs)
      BY <1>4, <2>2 DEF OInv
    <3>2. \A i \in 1 .. Len(walker) : walker[i].fn \in DOMAIN fns
      BY <1>3
    <3>. QED BY <1>3, <2>3, <3>1, <3>2, SitesKept
  <2>. QED BY <2>2, <2>4
<1>8. ASSUME Blameless(fns', idents')
      PROVE  Light(fns') /\ Bound(idents')
  <2>1. Blameless(fns, idents)
    BY <1>4, <1>6, <1>8, BlamelessBefore DEF Keeping
  <2>2. Light(fns) /\ Bound(idents)
    BY <2>1 DEF OInv
  <2>3. Light(fns')
    BY <1>3, <1>4, <1>5, <2>2 DEF Light, IsThick
  <2>4. st.is \notin {"Scoped", "ScopedArg"}
    BY <1>1, <1>3, <2>2 DEF Light, IsThick
  <2>5. new.state = st
    BY <1>2
  <2>6. ASSUME NEW i \in DOMAIN idents'
        PROVE  idents'[i].state.is \notin {"Scoped", "ScopedArg"}
    <3>1. i \in DOMAIN idents \/ i = Len(idents) + 1
      BY <1>6
    <3>. QED BY <1>6, <2>2, <2>4, <2>5, <3>1 DEF Bound
  <2>. QED BY <2>3, <2>6 DEF Bound
<1>. QED BY <1>6, <1>7, <1>8, OInvNext

(* A function is left: without a thick scope nothing is transformed. *)
LEMMA LeaveOptimised ==
  ASSUME OInv, AInv', Leave
  PROVE  OInv'
<1>. DEFINE lifted == Last(walker).lifted
            sized == IF lifted > 0 /\ fns[Top].build # Scope.thick
                       THEN [fns EXCEPT ![Top].build = Thin(lifted)] ELSE fns
            thick == sized[Top].build = Scope.thick
            done == IF thick THEN Transform(sized, Top) ELSE sized
<1>1. /\ Running /\ walker' = Front(walker)
      /\ idents' = IF thick THEN TransformIdents(sized, Top) ELSE idents
      /\ fns' = IF Top # 1 THEN done
                ELSE [done EXCEPT ![1].build = Scope.none, ![1].take = FALSE]
  BY DEF Leave
<1>2. /\ IInv /\ Good(fns) /\ IsList(idents) /\ Top \in DOMAIN fns
      /\ Len(walker) \in Nat \ {0} /\ DOMAIN walker = 1 .. Len(walker)
      /\ 1 \in DOMAIN fns /\ \A f \in DOMAIN fns : IsFn(fns[f])
      /\ IsList(walker)
      /\ \A i \in DOMAIN walker : walker[i].fn \in DOMAIN fns
  BY <1>1, TopFact, StackFacts DEF OInv, AInv, IInv, Nested
<1>3. Keeping(fns, fns') /\ DOMAIN fns' = DOMAIN fns
  BY <1>2, LeaveInv DEF Keeping
<1>4. /\ IsList(idents') /\ DOMAIN idents' = DOMAIN idents
      /\ \A i \in DOMAIN idents : idents'[i].blocks = idents[i].blocks
  <2>. HIDE DEF sized, thick
  <2>1. CASE ~thick
    BY <1>1, <1>2, <2>1
  <2>2. CASE thick
    <3>1. idents' = TransformIdents(sized, Top)
      BY <1>1, <2>2
    <3>2. idents' = [i \in DOMAIN idents |-> idents'[i]]
      BY <3>1 DEF TransformIdents
    <3>3. IsList(idents') /\ DOMAIN idents' = DOMAIN idents
      BY <1>2, <3>2, ListOf
    <3>4. ASSUME NEW i \in DOMAIN idents
          PROVE  idents'[i].blocks = idents[i].blocks
      BY <3>1 DEF TransformIdents
    <3>. QED BY <3>3, <3>4
  <2>. QED BY <2>1, <2>2
<1>5. Sites(fns', walker')
  <2>1. /\ Len(walker') = Len(walker) - 1
        /\ \A s \in 1 .. Len(walker) - 1 : walker'[s] = walker[s]
    BY <1>1, <1>2, FrontList DEF Running
  <2>2. /\ Len(walker') \in Nat /\ Len(walker') <= Len(walker)
        /\ \A s \in 1 .. Len(walker') : walker'[s] = walker[s]
    BY <1>2, <2>1
  <2>. QED BY <1>2, <1>3, <2>2, SitesKept DEF OInv
<1>6. ASSUME Blameless(fns', idents')
      PROVE  Light(fns') /\ Bound(idents')
  <2>1. Blameless(fns, idents)
    BY <1>3, <1>4, <1>6, BlamelessBefore DEF Keeping
  <2>2. Light(fns) /\ Bound(idents)
    BY <2>1 DEF OInv
  <2>3. /\ DOMAIN sized = DOMAIN fns
        /\ \A f \in DOMAIN fns : IsFn(sized[f]) /\ ~IsThick(sized[f])
                                 /\ sized[f].take = fns[f].take
    <3>1. CASE sized = fns
      BY <1>2, <2>2, <3>1 DEF Light
    <3>2. CASE sized = [fns EXCEPT ![Top].build = Thin(lifted)]
      <4>1. Thin(lifted) # Scope.thick
        BY DEF Thin, Scope
      <4>. QED BY <1>2, <2>2, <3>2, <4>1 DEF Light, IsThick, IsFn
    <3>. QED BY <3>1, <3>2
  <2>. HIDE DEF sized
  <2>4. ~thick /\ done = sized /\ idents' = idents
    BY <1>1, <1>2, <2>3 DEF IsThick
  <2>5. Light(fns')
    <3>1. CASE Top # 1
      BY <1>1, <1>2, <2>2, <2>3, <2>4, <3>1 DEF Light
    <3>2. CASE Top = 1
      <4>1. fns' = [sized EXCEPT ![1].build = Scope.none, ![1].take = FALSE]
        BY <1>1, <2>4, <3>2
      <4>2. fns'[1].take = FALSE /\ fns'[1].build = Scope.none
            /\ \A f \in DOMAIN fns \ {1} : fns'[f] = sized[f]
        BY <1>2, <2>3, <4>1 DEF IsFn
      <4>3. Scope.none # Scope.thick
        BY DEF Scope
      <4>. QED BY <1>3, <2>3, <4>2, <4>3 DEF Light, IsThick
    <3>. QED BY <3>1, <3>2
  <2>. QED BY <2>2, <2>4, <2>5
<1>. QED BY <1>4, <1>5, <1>6, OInvNext

(* Initially there is the program and nothing is met. *)
LEMMA InitOptimised == Init => OInv
<1>. SUFFICES ASSUME Init PROVE OInv
  OBVIOUS
<1>1. AInv
  BY InitPlaced
<1>2. /\ fns = <<NewFunction(Global, 0, <<>>)>> /\ walker = <<Open(1)>>
      /\ idents = <<>>
  BY DEF Init
<1>3. Sites(fns, walker) /\ IsList(idents) /\ Bound(idents)
  BY <1>2 DEF Sites, IsList, Bound
<1>4. Light(fns)
  BY <1>2 DEF Light, IsThick, NewFunction, Global, Scope
<1>. QED BY <1>1, <1>3, <1>4 DEF OInv

(* Every step of the resolver. *)
LEMMA NextOptimised == OInv /\ [Next]_vars => OInv'
<1>. SUFFICES ASSUME OInv, [Next]_vars PROVE OInv'
  OBVIOUS
<1>0. AInv /\ AInv'
  BY NextPlaced DEF OInv
<1>1. ASSUME NEW name \in Names \cup {Arguments}, Use(name)
      PROVE  OInv'
  BY <1>0, <1>1, UseOptimised
<1>2. ASSUME NEW decl \in Decls, EnterFunction(decl)
      PROVE  OInv'
  BY <1>0, <1>2, EnterFunctionOptimised
<1>3. ASSUME NEW name \in Names, EnterCatch(name)
      PROVE  OInv'
  BY <1>0, <1>3, EnterCatchOptimised
<1>4. CASE EnterWith
  <2>1. PICK bs : walker' = [walker EXCEPT ![Len(walker)].blocks = bs]
    BY <1>4 DEF EnterWith, WithBlock
  <2>. QED BY <1>0, <1>4, <2>1, BlocksOptimised DEF EnterWith
<1>5. CASE LeaveBlock
  <2>1. PICK bs : walker' = [walker EXCEPT ![Len(walker)].blocks = bs]
    BY <1>5 DEF LeaveBlock
  <2>. QED BY <1>0, <1>5, <2>1, BlocksOptimised DEF LeaveBlock
<1>6. CASE Leave
  BY <1>0, <1>6, LeaveOptimised
<1>7. CASE UNCHANGED vars
  <2>1. fns' = fns /\ walker' = walker /\ idents' = idents
    BY <1>7 DEF vars
  <2>. QED BY <1>0, <2>1, OInvNext DEF OInv
<1>. QED BY <1>1, <1>2, <1>3, <1>4, <1>5, <1>6, <1>7 DEF Next

(* Whatever the program is: as long as it has no eval and no with, every   *)
(* variable has a place that is known before it runs.                      *)
THEOREM AlwaysOptimised == Spec => []Optimised
<1>1. OInv => Optimised
  <2>1. ~Blamed => Blameless(fns, idents)
    BY DEF Blamed, Blameless, HasWith
  <2>. QED BY <2>1 DEF OInv, Optimised, Light, Bound, IsThick
<1>. QED BY <1>1, InitOptimised, NextOptimised, PTL DEF Spec
=============================================================================
