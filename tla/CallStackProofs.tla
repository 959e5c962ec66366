--------------------------- MODULE CallStackProofs ---------------------------
(***************************************************************************)
(* The calls on the shared stack keep the values of their callers, and     *)
(* behave as Calls says, for all functions and every size of the stack.    *)
(* IInv: the activations stand one above the other in the stack, and a     *)
(* result is where the activation on top expects it.  Each action of the   *)
(* stack is then seen, through Picture, to be one of Calls.                *)
(***************************************************************************)
EXTENDS CallStack, SequenceTheorems, TLAPS

Kinds == {"ir", "native", "bound", "boundnew", "new"}
Acts == [kind : Kinds, fn : Values, frame : Nat, argc : Nat, base : Nat, junk : Nat]

Placed(a) ==
  /\ a.kind # "new" => a.fn \in Functions /\ a.frame + 2 + Held(a) <= a.base
  /\ a.kind \in {"bound", "boundnew"} => Kind[a.fn] = "bound"

(* The activations as stand one above the other in the stack st.           *)
Stands(st, ac) ==
  /\ st \in Seq(Values) /\ ac \in Seq(Acts)
  /\ \A i \in 1 .. Len(ac) :
       /\ Placed(ac[i]) /\ Floor(ac[i]) <= Len(st)
       /\ ac[i].kind # "new" => st[ac[i].frame + 2] = ac[i].fn
  /\ \A i \in 1 .. Len(ac), j \in 1 .. Len(ac) : i < j => Floor(ac[i]) <= ac[j].frame
  /\ \A i \in 1 .. Len(ac) - 1 : ac[i].kind = "new" =>
       ac[i + 1].frame = ac[i].frame /\ ac[i + 1].kind \in {"ir", "native"}

(* What the activation on top is like when it runs, and when it gets a     *)
(* result.                                                                 *)
Topped(st, ac, o) ==
  ac # <<>> =>
    LET a == ac[Len(ac)] IN
    /\ o = "run" => a.kind # "new"
    /\ o = "ok" => Floor(a) < Len(st)
    /\ o = "ok" /\ a.kind = "new" => Len(st) = a.frame + 1

IInv ==
  /\ Stands(stack, acts) /\ Topped(stack, acts, out)
  /\ out \in {"run", "ok", "err", "panic"}
  /\ out \in {"ok", "err"} => Len(stack) <= StackSize

-----------------------------------------------------------------------------
(* Sequences                                                               *)
Agree(s, t, m) ==
  m \in Nat /\ m <= Len(s) /\ m <= Len(t) /\ \A i \in 1 .. m : s[i] = t[i]

LEMMA SeqFacts ==
  ASSUME NEW S, NEW s \in Seq(S)
  PROVE  /\ Len(s) \in Nat /\ DOMAIN s = 1 .. Len(s)
         /\ \A i \in 1 .. Len(s) : s[i] \in S
         /\ s = <<>> <=> Len(s) = 0
         /\ s # <<>> => Len(s) \in 1 .. Len(s)
<1>1. /\ Len(s) \in Nat /\ DOMAIN s = 1 .. Len(s) /\ s \in [1 .. Len(s) -> S]
  BY LenProperties
<1>2. s = <<>> <=> Len(s) = 0
  BY EmptySeq
<1>. QED BY <1>1, <1>2

LEMMA CutFacts ==
  ASSUME NEW S, NEW s \in Seq(S), NEW m \in Nat, m <= Len(s)
  PROVE  /\ Cut(s, m) \in Seq(S) /\ Len(Cut(s, m)) = m /\ Agree(s, Cut(s, m), m)
         /\ \A i \in 1 .. m : Cut(s, m)[i] = s[i]
<1>1. Len(s) \in Nat /\ \A i \in 1 .. m : s[i] \in S
  BY SeqFacts
<1>2. /\ SubSeq(s, 1, m) \in Seq(S)
      /\ Len(SubSeq(s, 1, m)) = IF 1 <= m THEN m - 1 + 1 ELSE 0
      /\ \A i \in 1 .. m - 1 + 1 : SubSeq(s, 1, m)[i] = s[1 + i - 1]
  BY <1>1, SubSeqProperties
<1>3. Len(Cut(s, m)) = m
  BY <1>2 DEF Cut
<1>4. \A i \in 1 .. m : Cut(s, m)[i] = s[i]
  BY <1>2 DEF Cut
<1>. QED BY <1>1, <1>2, <1>3, <1>4 DEF Cut, Agree

(* t is s with an element more, with u behind it, with another element.    *)
Grown(s, e, t) == t = Append(s, e)
Joined(s, u, t) == t = s \o u
Changed(s, k, e, t) == t = [s EXCEPT ![k] = e]

LEMMA AppendFacts ==
  ASSUME NEW S, NEW s \in Seq(S), NEW e \in S, NEW t, Grown(s, e, t)
  PROVE  /\ t \in Seq(S) /\ Len(t) = Len(s) + 1 /\ Agree(s, t, Len(s))
         /\ t[Len(s) + 1] = e /\ \A i \in 1 .. Len(s) : t[i] = s[i]
<1>1. Len(s) \in Nat
  BY SeqFacts
<1>2. /\ Append(s, e) \in Seq(S) /\ Len(Append(s, e)) = Len(s) + 1
      /\ Append(s, e)[Len(s) + 1] = e
      /\ \A i \in 1 .. Len(s) : Append(s, e)[i] = s[i]
  BY AppendProperties
<1>. QED BY <1>1, <1>2 DEF Agree, Grown

LEMMA ConcatFacts ==
  ASSUME NEW S, NEW s \in Seq(S), NEW u \in Seq(S), NEW t, Joined(s, u, t)
  PROVE  /\ t \in Seq(S) /\ Len(t) = Len(s) + Len(u) /\ Agree(s, t, Len(s))
         /\ \A i \in 1 .. Len(u) : t[Len(s) + i] = u[i]
<1>1. Len(s) \in Nat /\ Len(u) \in Nat
  BY SeqFacts
<1>2. /\ s \o u \in Seq(S) /\ Len(s \o u) = Len(s) + Len(u)
      /\ \A i \in 1 .. Len(s) + Len(u) :
           (s \o u)[i] = IF i <= Len(s) THEN s[i] ELSE u[i - Len(s)]
  BY ConcatProperties
<1>. QED BY <1>1, <1>2 DEF Agree, Joined

LEMMA ChangeFacts ==
  ASSUME NEW S, NEW s \in Seq(S), NEW k \in 1 .. Len(s), NEW e \in S,
         NEW t, Changed(s, k, e, t)
  PROVE  /\ t \in Seq(S) /\ Len(t) = Len(s) /\ Agree(s, t, k - 1) /\ t[k] = e
         /\ \A j \in 1 .. Len(s) : j # k => t[j] = s[j]
<1>1. Len(s) \in Nat
  BY SeqFacts
<1>2. /\ [s EXCEPT ![k] = e] \in Seq(S) /\ Len([s EXCEPT ![k] = e]) = Len(s)
      /\ \A j \in 1 .. Len(s) : [s EXCEPT ![k] = e][j] = IF j = k THEN e ELSE s[j]
  BY ExceptSeq
<1>. QED BY <1>1, <1>2 DEF Agree, Changed

(* The part of a sequence from cell k + 1 to cell m.                       *)
LEMMA PartFacts ==
  ASSUME NEW S, NEW s \in Seq(S), NEW k \in Nat, NEW m \in Nat, k <= m, m <= Len(s)
  PROVE  /\ SubSeq(s, k + 1, m) \in Seq(S) /\ Len(SubSeq(s, k + 1, m)) = m - k
         /\ \A i \in 1 .. m - k : SubSeq(s, k + 1, m)[i] = s[k + i]
<1>1. Len(s) \in Nat /\ \A i \in k + 1 .. m : s[i] \in S
  BY SeqFacts
<1>2. /\ SubSeq(s, k + 1, m) \in Seq(S)
      /\ Len(SubSeq(s, k + 1, m)) = IF k + 1 <= m THEN m - (k + 1) + 1 ELSE 0
      /\ \A i \in 1 .. m - (k + 1) + 1 : SubSeq(s, k + 1, m)[i] = s[k + 1 + i - 1]
  BY <1>1, SubSeqProperties
<1>3. m - (k + 1) + 1 = m - k
  OBVIOUS
<1>4. \A i \in 1 .. m - k : SubSeq(s, k + 1, m)[i] = s[k + i]
  BY <1>2, <1>3
<1>. QED BY <1>2, <1>3, <1>4

LEMMA PartSame ==
  ASSUME NEW S, NEW s \in Seq(S), NEW t \in Seq(S), NEW k \in Nat, NEW m \in Nat,
         k <= m, Agree(s, t, m)
  PROVE  SubSeq(s, k + 1, m) = SubSeq(t, k + 1, m)
<1>. DEFINE a == SubSeq(s, k + 1, m)
            b == SubSeq(t, k + 1, m)
<1>1. m <= Len(s) /\ m <= Len(t) /\ \A i \in 1 .. m : s[i] = t[i]
  BY DEF Agree
<1>2. /\ a \in Seq(S) /\ Len(a) = m - k /\ \A i \in 1 .. m - k : a[i] = s[k + i]
  BY <1>1, PartFacts
<1>3. /\ b \in Seq(S) /\ Len(b) = m - k /\ \A i \in 1 .. m - k : b[i] = t[k + i]
  BY <1>1, PartFacts
<1>. HIDE DEF a, b
<1>4. Len(a) = Len(b) /\ \A i \in 1 .. Len(a) : a[i] = b[i]
  BY <1>1, <1>2, <1>3
<1>5. a = b
  BY <1>2, <1>3, <1>4, SeqEqual
<1>. QED BY <1>5 DEF a, b

LEMMA AgreeTrans ==
  ASSUME NEW s, NEW t, NEW u, NEW m, NEW n, Agree(s, t, m), Agree(t, u, n), m <= n
  PROVE  Agree(s, u, m)
BY DEF Agree

LEMMA AgreeLess ==
  ASSUME NEW S, NEW s \in Seq(S), NEW t \in Seq(S), NEW m, NEW n \in Nat, Agree(s, t, m), n <= m
  PROVE  Agree(s, t, n)
<1>1. Len(s) \in Nat /\ Len(t) \in Nat
  BY SeqFacts
<1>. QED BY <1>1 DEF Agree

-----------------------------------------------------------------------------
(* Activations that stand                                                  *)
LEMMA PlacedFacts ==
  ASSUME NEW a \in Acts, Placed(a)
  PROVE  /\ a.frame \in Nat /\ Floor(a) \in Nat /\ a.frame <= Floor(a) /\ Held(a) \in Nat
         /\ a.kind # "new" => /\ a.frame + 2 + Held(a) <= a.base
                              /\ a.frame + 2 <= Floor(a)
                              /\ a.base <= Floor(a)
                              /\ a.fn \in Functions
<1>1. PICK kind, fn, frame, argc, base, junk, held :
        /\ kind = a.kind /\ fn = a.fn /\ frame = a.frame /\ argc = a.argc
        /\ base = a.base /\ junk = a.junk /\ held = Held(a)
  OBVIOUS
<1>2. frame \in Nat /\ argc \in Nat /\ base \in Nat /\ junk \in Nat
  BY <1>1 DEF Acts
<1>3. kind # "new" => fn \in Functions /\ frame + 2 + held <= base
  BY <1>1 DEF Placed
<1>4. held \in Nat
  <2>1. CASE kind = "ir"
    <3>1. PICK p \in Nat : p = Params[fn]
      BY <1>3, <2>1, SameAssumption DEF Abstract!FunctionsAssumption
    <3>2. held = argc + (IF argc < p THEN p - argc ELSE 0)
      BY <1>1, <2>1, <3>1 DEF Held, Missing
    <3>. QED BY <1>2, <3>1, <3>2
  <2>2. CASE kind # "ir"
    BY <1>1, <1>2, <2>2 DEF Held
  <2>. QED BY <2>1, <2>2
<1>5. Floor(a) = IF kind = "new" THEN frame ELSE base + junk
  BY <1>1 DEF Floor
<1>. QED BY <1>1, <1>2, <1>3, <1>4, <1>5

LEMMA Placing ==
  ASSUME NEW st, NEW ac, Stands(st, ac), NEW i \in 1 .. Len(ac)
  PROVE  /\ ac[i] \in Acts /\ ac[i].frame \in Nat /\ ac[i].base \in Nat
         /\ ac[i].junk \in Nat /\ ac[i].argc \in Nat /\ ac[i].fn \in Values
         /\ Held(ac[i]) \in Nat
         /\ Floor(ac[i]) \in Nat /\ Len(st) \in Nat /\ Floor(ac[i]) <= Len(st)
         /\ ac[i].frame <= Floor(ac[i])
         /\ ac[i].kind # "new" => /\ ac[i].frame + 2 + Held(ac[i]) <= ac[i].base
                                  /\ ac[i].frame + 2 <= Floor(ac[i])
                                  /\ ac[i].base <= Floor(ac[i])
                                  /\ ac[i].fn \in Functions
<1>1. PICK a, n : a = ac[i] /\ n = Len(st)
  OBVIOUS
<1>2. a \in Acts /\ n \in Nat
  BY <1>1, SeqFacts DEF Stands
<1>3. Placed(a) /\ Floor(a) <= n
  BY <1>1 DEF Stands
<1>4. /\ a.frame \in Nat /\ Floor(a) \in Nat /\ a.frame <= Floor(a) /\ Held(a) \in Nat
      /\ a.kind # "new" => /\ a.frame + 2 + Held(a) <= a.base
                           /\ a.frame + 2 <= Floor(a)
                           /\ a.base <= Floor(a)
                           /\ a.fn \in Functions
  BY <1>2, <1>3, PlacedFacts
<1>. QED BY <1>1, <1>2, <1>3, <1>4 DEF Acts

LEMMA Lens ==
  ASSUME NEW st, NEW ac, Stands(st, ac)
  PROVE  Len(st) \in Nat /\ Len(ac) \in Nat /\ ac \in Seq(Acts) /\ st \in Seq(Values)
BY SeqFacts DEF Stands

(* The cells below the floors are all that counts.                         *)
LEMMA StandsKept ==
  ASSUME NEW st, NEW ac, Stands(st, ac), NEW st2 \in Seq(Values), NEW m,
         Agree(st, st2, m), \A i \in 1 .. Len(ac) : Floor(ac[i]) <= m
  PROVE  Stands(st2, ac)
<1>1. Len(st) \in Nat /\ Len(st2) \in Nat /\ m \in Nat /\ m <= Len(st2)
  BY Lens, SeqFacts DEF Agree
<1>2. ASSUME NEW i \in 1 .. Len(ac)
      PROVE  /\ Placed(ac[i]) /\ Floor(ac[i]) <= Len(st2)
             /\ ac[i].kind # "new" => st2[ac[i].frame + 2] = ac[i].fn
  <2>1. PICK f, g, k, fn : f = Floor(ac[i]) /\ g = ac[i].frame /\ k = ac[i].kind
                           /\ fn = ac[i].fn
    OBVIOUS
  <2>2. f \in Nat /\ g \in Nat /\ (k # "new" => g + 2 <= f) /\ f <= m
    BY <2>1, Placing
  <2>3. Placed(ac[i]) /\ (k # "new" => st[g + 2] = fn)
    BY <2>1 DEF Stands
  <2>4. (k # "new" => g + 2 \in 1 .. m) /\ f <= Len(st2)
    BY <1>1, <2>2
  <2>5. k # "new" => st2[g + 2] = fn
    BY <2>3, <2>4 DEF Agree
  <2>. QED BY <2>1, <2>3, <2>4, <2>5
<1>. QED BY <1>2 DEF Stands

LEMMA StandsPushed ==
  ASSUME NEW st, NEW ac, Stands(st, ac), NEW a \in Acts, Placed(a), Floor(a) <= Len(st),
         \A i \in 1 .. Len(ac) : Floor(ac[i]) <= a.frame,
         a.kind # "new" => st[a.frame + 2] = a.fn,
         ac # <<>> /\ ac[Len(ac)].kind = "new" =>
           a.frame = ac[Len(ac)].frame /\ a.kind \in {"ir", "native"}
  PROVE  Stands(st, Append(ac, a))
<1>. DEFINE bs == Append(ac, a)
            n == Len(ac)
<1>0. ac \in Seq(Acts)
  BY DEF Stands
<1>. HIDE DEF Acts
<1>1. n \in Nat /\ ac \in Seq(Acts) /\ (ac # <<>> <=> n # 0)
  BY <1>0, SeqFacts
<1>2. /\ bs \in Seq(Acts) /\ Len(bs) = n + 1 /\ bs[n + 1] = a
      /\ \A i \in 1 .. n : bs[i] = ac[i]
  <2>1. PICK b : b = Append(ac, a)
    OBVIOUS
  <2>2. /\ b \in Seq(Acts) /\ Len(b) = Len(ac) + 1 /\ b[Len(ac) + 1] = a
        /\ \A i \in 1 .. Len(ac) : b[i] = ac[i]
    <3>1. Grown(ac, a, b)
      BY <2>1 DEF Grown
    <3>. QED BY <1>0, <3>1, AppendFacts
  <2>. QED BY <2>1, <2>2
<1>3. n # 0 /\ ac[n].kind = "new" => a.frame = ac[n].frame /\ a.kind \in {"ir", "native"}
  BY <1>1
<1>. HIDE DEF bs, n
<1>4. \A i \in 1 .. n + 1 : i \in 1 .. n \/ i = n + 1
  BY <1>1
<1>5. \A i \in 1 .. n :
       /\ Placed(ac[i]) /\ Floor(ac[i]) <= Len(st)
       /\ ac[i].kind # "new" => st[ac[i].frame + 2] = ac[i].fn
  BY DEF Stands, n
<1>6. \A i \in 1 .. n, j \in 1 .. n : i < j => Floor(ac[i]) <= ac[j].frame
  BY DEF Stands, n
<1>7. \A i \in 1 .. n - 1 : ac[i].kind = "new" =>
       ac[i + 1].frame = ac[i].frame /\ ac[i + 1].kind \in {"ir", "native"}
  BY DEF Stands, n
<1>8. \A i \in 1 .. Len(bs) :
       /\ Placed(bs[i]) /\ Floor(bs[i]) <= Len(st)
       /\ bs[i].kind # "new" => st[bs[i].frame + 2] = bs[i].fn
  BY <1>2, <1>4, <1>5
<1>9. ASSUME NEW i \in 1 .. Len(bs), NEW j \in 1 .. Len(bs), i < j
      PROVE  Floor(bs[i]) <= bs[j].frame
  <2>1. i \in 1 .. n
    BY <1>1, <1>2, <1>9
  <2>2. CASE j \in 1 .. n
    BY <1>2, <1>6, <1>9, <2>1, <2>2
  <2>3. CASE j = n + 1
    BY <1>2, <2>1, <2>3 DEF n
  <2>. QED BY <1>2, <1>4, <2>2, <2>3
<1>10. ASSUME NEW i \in 1 .. Len(bs) - 1, bs[i].kind = "new"
       PROVE  bs[i + 1].frame = bs[i].frame /\ bs[i + 1].kind \in {"ir", "native"}
  <2>1. i \in 1 .. n
    BY <1>1, <1>2
  <2>2. CASE i = n
    <3>1. bs[i + 1] = a /\ bs[i] = ac[n]
      BY <1>2, <2>1, <2>2
    <3>2. n # 0
      BY <1>1, <2>1, <2>2
    <3>. QED BY <1>3, <1>10, <3>1, <3>2
  <2>3. CASE i # n
    <3>1. i \in 1 .. n - 1 /\ i + 1 \in 1 .. n
      BY <1>1, <2>1, <2>3
    <3>. QED BY <1>2, <1>7, <1>10, <2>1, <3>1
  <2>. QED BY <2>2, <2>3
<1>11. Stands(st, bs)
  BY <1>2, <1>8, <1>9, <1>10 DEF Stands
<1>. QED BY <1>11 DEF bs

LEMMA StandsPopped ==
  ASSUME NEW st, NEW ac, Stands(st, ac), ac # <<>>
  PROVE  /\ Stands(st, Cut(ac, Len(ac) - 1))
         /\ \A i \in 1 .. Len(Cut(ac, Len(ac) - 1)) :
              Floor(Cut(ac, Len(ac) - 1)[i]) <= ac[Len(ac)].frame
<1>. DEFINE n == Len(ac)
            bs == Cut(ac, n - 1)
<1>0. ac \in Seq(Acts) /\ st \in Seq(Values)
  BY DEF Stands
<1>1. n \in Nat /\ n # 0
  BY <1>0, SeqFacts
<1>7. /\ \A i \in 1 .. n :
           /\ Placed(ac[i]) /\ Floor(ac[i]) <= Len(st)
           /\ ac[i].kind # "new" => st[ac[i].frame + 2] = ac[i].fn
      /\ \A i \in 1 .. n, j \in 1 .. n : i < j => Floor(ac[i]) <= ac[j].frame
      /\ \A i \in 1 .. n - 1 : ac[i].kind = "new" =>
           ac[i + 1].frame = ac[i].frame /\ ac[i + 1].kind \in {"ir", "native"}
  BY DEF Stands
<1>. HIDE DEF n, Acts
<1>2. bs \in Seq(Acts) /\ Len(bs) = n - 1 /\ \A i \in 1 .. n - 1 : bs[i] = ac[i]
  <2>1. n - 1 \in Nat /\ n - 1 <= n
    BY <1>1
  <2>2. n - 1 <= Len(ac)
    BY <2>1 DEF n
  <2>. QED BY <1>0, <2>1, <2>2, CutFacts
<1>3. \A i \in 1 .. n - 1 : i \in 1 .. n
  BY <1>1
<1>4. \A i \in 1 .. n - 2 : i \in 1 .. n - 1 /\ i + 1 \in 1 .. n - 1
  BY <1>1
<1>5. n - 1 - 1 = n - 2
  BY <1>1
<1>6. n \in 1 .. n /\ \A i \in 1 .. n - 1 : i < n
  BY <1>1
<1>. HIDE DEF bs
<1>8. /\ \A i \in 1 .. Len(bs) :
           /\ Placed(bs[i]) /\ Floor(bs[i]) <= Len(st)
           /\ bs[i].kind # "new" => st[bs[i].frame + 2] = bs[i].fn
  BY <1>2, <1>3, <1>7
<1>9. \A i \in 1 .. Len(bs), j \in 1 .. Len(bs) : i < j => Floor(bs[i]) <= bs[j].frame
  BY <1>2, <1>3, <1>7
<1>10. \A i \in 1 .. Len(bs) - 1 : bs[i].kind = "new" =>
           bs[i + 1].frame = bs[i].frame /\ bs[i + 1].kind \in {"ir", "native"}
  BY <1>2, <1>4, <1>5, <1>7
<1>11. Stands(st, bs)
  BY <1>0, <1>2, <1>8, <1>9, <1>10 DEF Stands
<1>12. \A i \in 1 .. Len(bs) : Floor(bs[i]) <= ac[n].frame
  BY <1>2, <1>3, <1>6, <1>7
<1>. QED BY <1>11, <1>12 DEF n, bs

(* Nothing but the activation on top reaches above its frame.              *)
LEMMA Floors ==
  ASSUME NEW st, NEW ac, Stands(st, ac), NEW m, Floor(ac[Len(ac)]) <= m, m \in Nat
  PROVE  \A i \in 1 .. Len(ac) : Floor(ac[i]) <= m
<1>. SUFFICES ASSUME NEW i \in 1 .. Len(ac) PROVE Floor(ac[i]) <= m
  OBVIOUS
<1>1. PICK n, f, g, h : /\ n = Len(ac) /\ f = Floor(ac[i]) /\ g = Floor(ac[n])
                       /\ h = ac[n].frame
  OBVIOUS
<1>2. n \in Nat /\ i \in 1 .. n
  BY <1>1, Lens
<1>3. n \in 1 .. n /\ (i # n => i < n)
  BY <1>2
<1>4. i # n => f <= h
  BY <1>1, <1>2, <1>3 DEF Stands
<1>5. f \in Nat /\ g \in Nat /\ h \in Nat /\ h <= g
  BY <1>1, <1>2, <1>3, Placing
<1>6. i = n => f = g
  BY <1>1
<1>7. g <= m
  BY <1>1
<1>8. f <= m
  BY <1>4, <1>5, <1>6, <1>7
<1>. QED BY <1>1, <1>8

-----------------------------------------------------------------------------
(* Steps                                                                   *)
LEMMA BecomesInv ==
  ASSUME IInv, NEW st, NEW ac, NEW o \in {"run", "ok", "err"},
         Stands(st, ac), Topped(st, ac, o), Becomes(st, ac, o)
  PROVE  /\ IInv'
         /\ \/ out' = "panic" /\ stack' = stack /\ acts' = acts /\ Len(st) > StackSize
            \/ stack' = st /\ acts' = ac /\ out' = o /\ Len(st) <= StackSize
<1>1. Len(st) \in Nat /\ StackSize \in Nat
  BY Lens, CellsAssumption
<1>2. CASE Len(st) <= StackSize
  <2>1. stack' = st /\ acts' = ac /\ out' = o
    BY <1>2 DEF Becomes
  <2>2. Stands(stack', acts') /\ Topped(stack', acts', out')
    BY <2>1
  <2>. QED BY <1>2, <2>1, <2>2 DEF IInv, Stands, Topped, Floor, Placed, Held, Missing
<1>3. CASE ~(Len(st) <= StackSize)
  <2>1. out' = "panic" /\ stack' = stack /\ acts' = acts
    BY <1>3 DEF Becomes
  <2>2. Stands(stack', acts') /\ Topped(stack', acts', out')
    BY <2>1 DEF IInv, Topped
  <2>. QED BY <1>1, <1>3, <2>1, <2>2 DEF IInv
<1>. QED BY <1>2, <1>3

(* Part of the values are undefined.                                       *)
LEMMA UndefinedsFacts ==
  ASSUME NEW n \in Nat
  PROVE  Undefineds(n) \in Seq(Values) /\ Len(Undefineds(n)) = n
<1>. DEFINE t == [i \in 1 .. n |-> Undefined]
<1>1. t \in [1 .. n -> Values]
  BY DEF Values
<1>. HIDE DEF t
<1>2. t \in Seq(Values)
  BY <1>1, SeqDef
<1>3. Len(t) = n
  BY <1>1, <1>2, LenProperties
<1>. QED BY <1>2, <1>3 DEF t, Undefineds

(* What the calls need: the callee's frame is all that is above the        *)
(* activations ac, and a constructor is called in the frame of its new.    *)
Ready(st, ac, frame, argc) ==
  /\ Stands(st, ac) /\ frame \in Nat /\ argc \in Nat /\ frame + 2 + argc = Len(st)
  /\ \A i \in 1 .. Len(ac) : Floor(ac[i]) <= frame

LEMMA ReadyFacts ==
  ASSUME NEW st, NEW ac, NEW frame, NEW argc, Ready(st, ac, frame, argc)
  PROVE  /\ frame \in Nat /\ argc \in Nat /\ Len(st) \in Nat /\ frame + 2 + argc = Len(st)
         /\ frame + 1 \in 1 .. Len(st) /\ frame + 2 \in 1 .. Len(st)
         /\ st[frame + 1] \in Values /\ st[frame + 2] \in Values
         /\ frame <= Len(st) /\ st \in Seq(Values)
<1>1. PICK n : n = Len(st)
  OBVIOUS
<1>2. n \in Nat /\ frame \in Nat /\ argc \in Nat /\ frame + 2 + argc = n /\ st \in Seq(Values)
  BY <1>1, Lens DEF Ready
<1>3. frame + 1 \in 1 .. n /\ frame + 2 \in 1 .. n /\ frame <= n
  BY <1>2
<1>. QED BY <1>1, <1>2, <1>3, SeqFacts

(* The cells of a function that is entered: its this value, the missing    *)
(* arguments and its locals.                                               *)
Completed(st, fn, frame, argc) ==
  LET this == IF fn \notin Strict /\ st[frame + 1] = Undefined THEN Global ELSE st[frame + 1]
  IN [st EXCEPT ![frame + 1] = this]
       \o Undefineds(Missing(fn, argc)) \o Undefineds(Locals[fn])

LEMMA CompletedFacts ==
  ASSUME NEW st, NEW ac, NEW frame, NEW argc, Ready(st, ac, frame, argc),
         NEW fn \in Functions, NEW t, t = Completed(st, fn, frame, argc)
  PROVE  /\ t \in Seq(Values) /\ Missing(fn, argc) \in Nat /\ Locals[fn] \in Nat
         /\ Len(t) = Len(st) + Missing(fn, argc) + Locals[fn]
         /\ Agree(st, t, frame)
         /\ t[frame + 1] = IF fn \notin Strict /\ st[frame + 1] = Undefined
                             THEN Global ELSE st[frame + 1]
         /\ \A i \in frame + 2 .. Len(st) : t[i] = st[i]
         /\ \A i \in Len(st) + 1 .. Len(st) + Missing(fn, argc) : t[i] = Undefined
<1>. DEFINE this == IF fn \notin Strict /\ st[frame + 1] = Undefined
                      THEN Global ELSE st[frame + 1]
<1>1. PICK n, m, p, l, th : /\ n = Len(st) /\ m = Missing(fn, argc) /\ l = Locals[fn]
                            /\ p = Params[fn] /\ th = this
  OBVIOUS
<1>2. /\ n \in Nat /\ frame \in Nat /\ argc \in Nat /\ frame + 2 + argc = n
      /\ frame + 1 \in 1 .. n /\ st \in Seq(Values)
  BY <1>1, ReadyFacts
<1>3. m \in Nat /\ l \in Nat
  <2>1. p \in Nat /\ l \in Nat
    BY <1>1, SameAssumption, CellsAssumption DEF Abstract!FunctionsAssumption
  <2>2. m = IF argc < p THEN p - argc ELSE 0
    BY <1>1 DEF Missing
  <2>. QED BY <1>2, <2>1, <2>2
<1>4. th \in Values
  BY <1>1, ReadyFacts DEF Values
<1>5. PICK s, u, v, w :
        /\ s = [st EXCEPT ![frame + 1] = th] /\ u = Undefineds(m) /\ v = Undefineds(l)
        /\ w = s \o u
  OBVIOUS
<1>6. t = w \o v
  BY <1>1, <1>5 DEF Completed
<1>7. /\ s \in Seq(Values) /\ Len(s) = n /\ s[frame + 1] = th
      /\ \A j \in 1 .. n : j # frame + 1 => s[j] = st[j]
  <2>1. Changed(st, frame + 1, th, s)
    BY <1>5 DEF Changed
  <2>. QED BY <1>1, <1>2, <1>4, <2>1, ChangeFacts
<1>8. /\ u \in Seq(Values) /\ Len(u) = m /\ v \in Seq(Values) /\ Len(v) = l
  BY <1>3, <1>5, UndefinedsFacts
<1>9. /\ w \in Seq(Values) /\ Len(w) = n + m /\ Agree(s, w, n)
      /\ \A i \in 1 .. m : w[n + i] = u[i]
  <2>1. Joined(s, u, w) /\ s \in Seq(Values) /\ u \in Seq(Values)
    BY <1>5, <1>7, <1>8 DEF Joined
  <2>2. w \in Seq(Values) /\ Len(w) = Len(s) + Len(u) /\ Agree(s, w, Len(s))
    BY <2>1, ConcatFacts
  <2>3. \A i \in 1 .. Len(u) : w[Len(s) + i] = u[i]
    BY <2>1, ConcatFacts
  <2>. QED BY <1>7, <1>8, <2>2, <2>3
<1>10. t \in Seq(Values) /\ Len(t) = n + m + l /\ Agree(w, t, n + m)
  <2>1. Joined(w, v, t) /\ w \in Seq(Values) /\ v \in Seq(Values)
    BY <1>6, <1>8, <1>9 DEF Joined
  <2>2. t \in Seq(Values) /\ Len(t) = Len(w) + Len(v) /\ Agree(w, t, Len(w))
    BY <2>1, ConcatFacts
  <2>. QED BY <1>8, <1>9, <2>2
<1>11. \A i \in 1 .. n : t[i] = s[i]
  BY <1>2, <1>3, <1>9, <1>10 DEF Agree
<1>12. Agree(st, t, frame)
  <2>1. \A i \in 1 .. frame : i \in 1 .. n /\ i # frame + 1
    BY <1>2
  <2>2. frame <= n /\ frame <= n + m + l
    BY <1>2, <1>3
  <2>. QED BY <1>1, <1>2, <1>7, <1>10, <1>11, <2>1, <2>2 DEF Agree
<1>13. t[frame + 1] = this
  BY <1>1, <1>2, <1>7, <1>11
<1>14. \A i \in frame + 2 .. n : t[i] = st[i]
  <2>1. \A i \in frame + 2 .. n : i \in 1 .. n /\ i # frame + 1
    BY <1>2
  <2>. QED BY <1>7, <1>11, <2>1
<1>15. ASSUME NEW i \in n + 1 .. n + m
       PROVE  t[i] = Undefined
  <2>1. i - n \in 1 .. m /\ n + (i - n) = i /\ i \in 1 .. n + m
    BY <1>2, <1>3
  <2>2. t[i] = w[i]
    BY <1>10, <2>1 DEF Agree
  <2>3. w[i] = u[i - n]
    BY <1>9, <2>1
  <2>4. u[i - n] = Undefined
    BY <1>5, <2>1 DEF Undefineds
  <2>. QED BY <2>2, <2>3, <2>4
<1>. HIDE DEF this
<1>16. /\ t \in Seq(Values) /\ Missing(fn, argc) \in Nat /\ Locals[fn] \in Nat
       /\ Len(t) = Len(st) + Missing(fn, argc) + Locals[fn]
  BY <1>1, <1>3, <1>10
<1>. QED BY <1>1, <1>12, <1>13, <1>14, <1>15, <1>16 DEF this

(* A new activation whose operands start at the top of the stack.          *)
LEMMA PushedStands ==
  ASSUME NEW st, NEW ac, NEW frame, NEW argc, Ready(st, ac, frame, argc),
         NEW t \in Seq(Values), Agree(st, t, frame), Len(st) <= Len(t),
         NEW fn \in Functions, t[frame + 2] = fn,
         NEW kind \in Kinds \ {"new"}, NEW a, a = Activation(kind, fn, frame, argc, Len(t)),
         frame + 2 + Held(a) <= Len(t),
         kind \in {"bound", "boundnew"} => Kind[fn] = "bound",
         ac # <<>> /\ ac[Len(ac)].kind = "new" =>
           ac[Len(ac)].frame = frame /\ kind \in {"ir", "native"}
  PROVE  Stands(t, Append(ac, a)) /\ Topped(t, Append(ac, a), "run")
<1>1. Len(t) \in Nat /\ frame \in Nat /\ argc \in Nat
  BY SeqFacts, ReadyFacts
<1>2. a = [kind |-> kind, fn |-> fn, frame |-> frame, argc |-> argc, base |-> Len(t), junk |-> 0]
  BY DEF Activation
<1>3. a \in Acts
  <2>1. fn \in Values
    BY DEF Values
  <2>. QED BY <1>1, <1>2, <2>1 DEF Acts
<1>4. /\ a.kind = kind /\ a.fn = fn /\ a.frame = frame /\ a.base = Len(t) /\ a.junk = 0
  BY <1>2
<1>5. Placed(a) /\ Floor(a) = Len(t)
  BY <1>1, <1>4 DEF Placed, Floor
<1>6. Stands(t, ac)
  <2>1. Stands(st, ac) /\ \A i \in 1 .. Len(ac) : Floor(ac[i]) <= frame
    BY DEF Ready
  <2>. QED BY <2>1, StandsKept
<1>7. \A i \in 1 .. Len(ac) : Floor(ac[i]) <= a.frame
  BY <1>4 DEF Ready
<1>8. Stands(t, Append(ac, a))
  BY <1>1, <1>3, <1>4, <1>5, <1>6, <1>7, StandsPushed
<1>9. PICK b : b = Append(ac, a)
  OBVIOUS
<1>10. Len(b) = Len(ac) + 1 /\ b[Len(ac) + 1] = a
  <2>1. ac \in Seq(Acts) /\ Grown(ac, a, b)
    BY <1>6, <1>9 DEF Stands, Grown
  <2>. QED BY <1>3, <2>1, AppendFacts
<1>11. Topped(t, b, "run")
  BY <1>4, <1>10 DEF Topped
<1>. QED BY <1>8, <1>9, <1>11

LEMMA CallInv ==
  ASSUME IInv, NEW st, NEW ac, NEW frame, NEW argc, NEW construct,
         Ready(st, ac, frame, argc), out = "run",
         ac # <<>> /\ ac[Len(ac)].kind = "new" =>
           /\ ac[Len(ac)].frame = frame
           /\ st[frame + 2] \in Functions => Kind[st[frame + 2]] # "bound",
         Call(st, ac, frame, argc, construct)
  PROVE  /\ IInv'
         /\ \/ out' = "panic" /\ stack' = stack /\ acts' = acts
            \/ out' \in {"run", "err"} /\ Agree(st, stack', frame)
<1>. DEFINE fn == st[frame + 2]
<1>1. /\ frame \in Nat /\ argc \in Nat /\ Len(st) \in Nat /\ frame + 2 + argc = Len(st)
      /\ frame + 2 \in 1 .. Len(st) /\ frame <= Len(st) /\ st \in Seq(Values)
  BY ReadyFacts
<1>2. Agree(st, st, frame)
  BY <1>1 DEF Agree
<1>3. CASE fn \in Functions /\ (construct => fn \in Constructors) /\ Kind[fn] = "ir"
  <2>. DEFINE t == Completed(st, fn, frame, argc)
              a == Activation("ir", fn, frame, argc, Len(t))
  <2>1. Becomes(t, Append(ac, a), "run")
    BY <1>3 DEF Call, Entered, Completed
  <2>2. /\ t \in Seq(Values) /\ Missing(fn, argc) \in Nat /\ Locals[fn] \in Nat
        /\ Len(t) = Len(st) + Missing(fn, argc) + Locals[fn]
        /\ Agree(st, t, frame) /\ \A i \in frame + 2 .. Len(st) : t[i] = st[i]
    BY <1>3, CompletedFacts
  <2>3. Held(a) = argc + Missing(fn, argc)
    BY DEF Held, Activation
  <2>. HIDE DEF t, a
  <2>4. /\ Len(st) <= Len(t) /\ t[frame + 2] = fn /\ frame + 2 + Held(a) <= Len(t)
    <3>1. PICK n, m, l : n = Len(st) /\ m = Missing(fn, argc) /\ l = Locals[fn]
      OBVIOUS
    <3>2. /\ n \in Nat /\ m \in Nat /\ l \in Nat /\ frame + 2 + argc = n /\ argc \in Nat
          /\ Len(t) = n + m + l /\ Held(a) = argc + m /\ frame \in Nat
      BY <1>1, <2>2, <2>3, <3>1
    <3>3. n <= n + m + l /\ frame + 2 + (argc + m) <= n + m + l /\ frame + 2 \in frame + 2 .. n
      BY <3>2
    <3>. QED BY <2>2, <3>1, <3>2, <3>3
  <2>5. Stands(t, Append(ac, a)) /\ Topped(t, Append(ac, a), "run")
    BY <1>3, <2>2, <2>4, PushedStands DEF a, Kinds
  <2>. QED BY <2>1, <2>2, <2>5, BecomesInv
<1>4. CASE fn \in Functions /\ (construct => fn \in Constructors) /\ Kind[fn] # "ir"
  <2>. DEFINE a == Activation(Kind[fn], fn, frame, argc, Len(st))
  <2>1. Becomes(st, Append(ac, a), "run")
    BY <1>4 DEF Call
  <2>2. Kind[fn] \in {"native", "bound"}
    BY <1>4, SameAssumption DEF Abstract!FunctionsAssumption
  <2>3. Held(a) = argc
    BY <1>4 DEF Held, Activation
  <2>. HIDE DEF a
  <2>4. frame + 2 + Held(a) <= Len(st) /\ Len(st) <= Len(st)
    BY <1>1, <2>3
  <2>5. Stands(st, Append(ac, a)) /\ Topped(st, Append(ac, a), "run")
    BY <1>1, <1>2, <1>4, <2>2, <2>4, PushedStands DEF a, Kinds
  <2>. QED BY <1>2, <2>1, <2>5, BecomesInv
<1>5. CASE ~(fn \in Functions /\ (construct => fn \in Constructors))
  <2>1. Becomes(st, ac, "err")
    BY <1>5 DEF Call
  <2>2. Stands(st, ac) /\ Topped(st, ac, "err")
    BY DEF Ready, Topped
  <2>. QED BY <1>2, <2>1, <2>2, BecomesInv
<1>. QED BY <1>3, <1>4, <1>5

(* new: its activation comes first, and the callee is in the same frame.   *)
LEMMA NewReady ==
  ASSUME NEW st, NEW ac, NEW frame, NEW argc, Ready(st, ac, frame, argc),
         ac # <<>> => ac[Len(ac)].kind # "new",
         NEW a, a = Activation("new", st[frame + 2], frame, argc, Len(st)),
         NEW t, t = [st EXCEPT ![frame + 1] = Fresh]
  PROVE  /\ Ready(t, Append(ac, a), frame, argc)
         /\ t \in Seq(Values) /\ Len(t) = Len(st) /\ Agree(st, t, frame)
         /\ t[frame + 1] = Fresh /\ \A i \in frame + 2 .. Len(st) : t[i] = st[i]
         /\ Append(ac, a) # <<>> /\ Append(ac, a)[Len(Append(ac, a))] = a
<1>1. /\ frame \in Nat /\ argc \in Nat /\ Len(st) \in Nat /\ frame + 2 + argc = Len(st)
      /\ frame + 1 \in 1 .. Len(st) /\ frame + 2 \in 1 .. Len(st) /\ frame <= Len(st)
      /\ st \in Seq(Values) /\ st[frame + 2] \in Values
  BY ReadyFacts
<1>2. /\ t \in Seq(Values) /\ Len(t) = Len(st)
      /\ \A j \in 1 .. Len(st) : j # frame + 1 => t[j] = st[j]
      /\ t[frame + 1] = Fresh
  <2>1. Fresh \in Values /\ Changed(st, frame + 1, Fresh, t)
    BY DEF Values, Changed
  <2>. QED BY <1>1, <2>1, ChangeFacts
<1>3. Agree(st, t, frame)
  BY <1>1, <1>2 DEF Agree
<1>4. \A i \in frame + 2 .. Len(st) : t[i] = st[i]
  <2>1. \A i \in frame + 2 .. Len(st) : i \in 1 .. Len(st) /\ i # frame + 1
    BY <1>1
  <2>. QED BY <1>2, <2>1
<1>5. /\ a \in Acts /\ a.kind = "new" /\ a.frame = frame /\ Placed(a) /\ Floor(a) = frame
  BY <1>1 DEF Activation, Acts, Kinds, Placed, Floor
<1>6. Stands(t, ac) /\ \A i \in 1 .. Len(ac) : Floor(ac[i]) <= frame
  <2>1. Stands(st, ac) /\ \A i \in 1 .. Len(ac) : Floor(ac[i]) <= frame
    BY DEF Ready
  <2>. QED BY <1>2, <1>3, <2>1, StandsKept
<1>7. Stands(t, Append(ac, a))
  BY <1>1, <1>2, <1>5, <1>6, StandsPushed
<1>8. PICK b : b = Append(ac, a)
  OBVIOUS
<1>9. /\ Len(b) = Len(ac) + 1 /\ b[Len(ac) + 1] = a /\ Len(ac) \in Nat
      /\ \A i \in 1 .. Len(ac) : b[i] = ac[i]
  <2>1. ac \in Seq(Acts) /\ Grown(ac, a, b) /\ Len(ac) \in Nat
    BY <1>6, <1>8, Lens DEF Stands, Grown
  <2>. QED BY <1>5, <2>1, AppendFacts
<1>10. b # <<>> /\ b[Len(b)] = a
  <2>1. Len(b) # 0
    BY <1>9
  <2>2. b \in Seq(Acts)
    BY <1>7, <1>8 DEF Stands
  <2>. QED BY <1>9, <2>1, <2>2, SeqFacts
<1>11. \A i \in 1 .. Len(b) : Floor(b[i]) <= frame
  <2>1. \A i \in 1 .. Len(b) : i \in 1 .. Len(ac) \/ i = Len(ac) + 1
    BY <1>9
  <2>. QED BY <1>1, <1>5, <1>6, <1>9, <2>1
<1>12. Ready(t, b, frame, argc)
  BY <1>1, <1>2, <1>7, <1>8, <1>11 DEF Ready
<1>. QED BY <1>2, <1>3, <1>4, <1>8, <1>10, <1>12

LEMMA ConstructInv ==
  ASSUME IInv, NEW st, NEW ac, NEW frame, NEW argc,
         Ready(st, ac, frame, argc), out = "run",
         ac # <<>> => ac[Len(ac)].kind # "new",
         Construct(st, ac, frame, argc)
  PROVE  /\ IInv'
         /\ \/ out' = "panic" /\ stack' = stack /\ acts' = acts
            \/ out' \in {"run", "err"} /\ Agree(st, stack', frame)
<1>. DEFINE fn == st[frame + 2]
<1>1. /\ frame \in Nat /\ argc \in Nat /\ Len(st) \in Nat /\ frame + 2 + argc = Len(st)
      /\ frame <= Len(st) /\ frame + 2 \in 1 .. Len(st) /\ st \in Seq(Values)
  BY ReadyFacts
<1>2. Agree(st, st, frame)
  BY <1>1 DEF Agree
<1>3. CASE fn \in Functions /\ Kind[fn] = "bound"
  <2>. DEFINE a == Activation("boundnew", fn, frame, argc, Len(st))
  <2>1. Becomes(st, Append(ac, a), "run")
    BY <1>3 DEF Construct
  <2>2. Held(a) = argc
    BY DEF Held, Activation
  <2>. HIDE DEF a
  <2>3. frame + 2 + Held(a) <= Len(st) /\ Len(st) <= Len(st)
    BY <1>1, <2>2
  <2>4. Stands(st, Append(ac, a)) /\ Topped(st, Append(ac, a), "run")
    BY <1>1, <1>2, <1>3, <2>3, PushedStands DEF a, Kinds
  <2>. QED BY <1>2, <2>1, <2>4, BecomesInv
<1>4. CASE ~(fn \in Functions /\ Kind[fn] = "bound")
  <2>. DEFINE a == Activation("new", fn, frame, argc, Len(st))
              t == [st EXCEPT ![frame + 1] = Fresh]
  <2>1. Becomes(st, ac, "err") \/ Call(t, Append(ac, a), frame, argc, TRUE)
    BY <1>4 DEF Construct
  <2>2. CASE Becomes(st, ac, "err")
    <3>1. Stands(st, ac) /\ Topped(st, ac, "err")
      BY DEF Ready, Topped
    <3>. QED BY <1>2, <2>2, <3>1, BecomesInv
  <2>3. CASE Call(t, Append(ac, a), frame, argc, TRUE)
    <3>1. /\ Ready(t, Append(ac, a), frame, argc) /\ Agree(st, t, frame)
          /\ \A i \in frame + 2 .. Len(st) : t[i] = st[i]
          /\ Append(ac, a)[Len(Append(ac, a))] = a
      BY NewReady
    <3>2. a.kind = "new" /\ a.frame = frame
      BY DEF Activation
    <3>. HIDE DEF a, t
    <3>3. t[frame + 2] = fn
      <4>1. frame + 2 \in frame + 2 .. Len(st)
        BY <1>1
      <4>. QED BY <3>1, <4>1
    <3>4. t[frame + 2] \in Functions => Kind[t[frame + 2]] # "bound"
      BY <1>4, <3>3
    <3>5. /\ IInv'
          /\ \/ out' = "panic" /\ stack' = stack /\ acts' = acts
             \/ out' \in {"run", "err"} /\ Agree(t, stack', frame)
      BY <2>3, <3>1, <3>2, <3>4, CallInv
    <3>6. Agree(t, stack', frame) => Agree(st, stack', frame)
      BY <3>1 DEF Agree
    <3>. QED BY <3>5, <3>6
  <2>. QED BY <2>1, <2>2, <2>3
<1>. QED BY <1>3, <1>4

(* The activation on top.                                                  *)
LEMMA TopFacts ==
  ASSUME IInv, acts # <<>>
  PROVE  /\ Len(acts) \in Nat /\ Len(acts) \in 1 .. Len(acts) /\ acts \in Seq(Acts)
         /\ stack \in Seq(Values) /\ Len(stack) \in Nat
         /\ Top \in Acts /\ Top = acts[Len(acts)] /\ Placed(Top)
         /\ Top.frame \in Nat /\ Top.base \in Nat /\ Top.junk \in Nat /\ Top.argc \in Nat
         /\ Floor(Top) \in Nat /\ Floor(Top) <= Len(stack) /\ Top.frame <= Floor(Top)
         /\ Top.frame <= Len(stack)
         /\ Top.kind # "new" => /\ Top.frame + 2 + Held(Top) <= Top.base
                                /\ Held(Top) \in Nat /\ Top.fn \in Functions
                                /\ Floor(Top) = Top.base + Top.junk
                                /\ stack[Top.frame + 2] = Top.fn
         /\ \A i \in 1 .. Len(acts) : Floor(acts[i]) <= Floor(Top)
<1>1. Stands(stack, acts)
  BY DEF IInv
<1>2. PICK n : n = Len(acts)
  OBVIOUS
<1>3. acts \in Seq(Acts) /\ stack \in Seq(Values) /\ n \in 1 .. n /\ n \in Nat /\ Len(stack) \in Nat
  BY <1>1, <1>2, SeqFacts DEF Stands
<1>4. PICK a : a = acts[n]
  OBVIOUS
<1>5. /\ a \in Acts /\ a.frame \in Nat /\ a.base \in Nat /\ a.junk \in Nat /\ a.argc \in Nat
      /\ Floor(a) \in Nat /\ Floor(a) <= Len(stack) /\ a.frame <= Floor(a) /\ Held(a) \in Nat
      /\ a.kind # "new" => a.frame + 2 + Held(a) <= a.base /\ a.fn \in Functions
  BY <1>1, <1>2, <1>3, <1>4, Placing
<1>6. Placed(a) /\ (a.kind # "new" => stack[a.frame + 2] = a.fn)
  BY <1>1, <1>2, <1>3, <1>4 DEF Stands
<1>7. a.kind # "new" => Floor(a) = a.base + a.junk
  BY DEF Floor
<1>8. \A i \in 1 .. n : Floor(acts[i]) <= Floor(a)
  BY <1>1, <1>2, <1>4, <1>5, Floors
<1>9. a = Top
  BY <1>2, <1>4 DEF Top
<1>10. a.frame <= Len(stack)
  <2>1. PICK f, g, l : f = a.frame /\ g = Floor(a) /\ l = Len(stack)
    OBVIOUS
  <2>. QED BY <1>3, <1>5, <2>1
<1>. QED BY <1>2, <1>3, <1>4, <1>5, <1>6, <1>7, <1>8, <1>9, <1>10

(* A step that leaves the activations and the stack below their floors.    *)
LEMMA TopInv ==
  ASSUME IInv, acts # <<>>, NEW t \in Seq(Values), NEW o \in {"run", "ok", "err"},
         Agree(stack, t, Floor(Top)), Topped(t, acts, o), Becomes(t, acts, o)
  PROVE  /\ IInv' /\ Agree(stack, stack', Floor(Top)) /\ Agree(stack, stack', Top.frame)
<1>1. /\ Floor(Top) \in Nat /\ Top.frame \in Nat /\ Top.frame <= Floor(Top)
      /\ Floor(Top) <= Len(stack) /\ stack \in Seq(Values) /\ Len(stack) \in Nat
      /\ \A i \in 1 .. Len(acts) : Floor(acts[i]) <= Floor(Top)
  BY TopFacts
<1>2. Stands(t, acts)
  BY <1>1, StandsKept DEF IInv
<1>3. /\ IInv'
      /\ \/ out' = "panic" /\ stack' = stack /\ acts' = acts
         \/ stack' = t /\ acts' = acts /\ out' = o
  BY <1>2, BecomesInv
<1>4. Agree(stack, stack, Floor(Top))
  BY <1>1 DEF Agree
<1>5. Agree(stack, stack', Floor(Top))
  BY <1>3, <1>4
<1>6. Agree(stack, stack', Top.frame)
  <2>1. PICK f, g, l : f = Top.frame /\ g = Floor(Top) /\ l = Len(stack)
    OBVIOUS
  <2>2. f \in Nat /\ g \in Nat /\ l \in Nat /\ f <= g
    BY <1>1, <2>1
  <2>3. g <= Len(stack) /\ g <= Len(stack') /\ \A i \in 1 .. g : stack[i] = stack'[i]
    BY <1>5, <2>1 DEF Agree
  <2>4. Len(stack') \in Nat
    BY <1>3, Lens DEF IInv
  <2>5. f <= Len(stack) /\ f <= Len(stack') /\ \A i \in 1 .. f : i \in 1 .. g
    BY <1>1, <2>2, <2>3, <2>4
  <2>6. Agree(stack, stack', f)
    BY <2>2, <2>3, <2>5 DEF Agree
  <2>. QED BY <2>1, <2>6
<1>. QED BY <1>3, <1>5, <1>6

(* The activation on top ends.                                             *)
LEMMA PopInv ==
  ASSUME IInv, acts # <<>>, NEW t \in Seq(Values), NEW o \in {"ok", "err"},
         Agree(stack, t, Top.frame), o = "ok" => Top.frame < Len(t),
         o = "ok" /\ Top.kind \in {"ir", "native"} => Len(t) = Top.frame + 1,
         Becomes(t, Below, o)
  PROVE  IInv' /\ Agree(stack, stack', Top.frame)
<1>. DEFINE n == Len(acts)
<1>1. /\ n \in Nat /\ n \in 1 .. n /\ acts \in Seq(Acts) /\ Stands(stack, acts)
      /\ Top.frame \in Nat /\ Top = acts[n] /\ Top.frame <= Len(stack)
  BY TopFacts DEF IInv
<1>. HIDE DEF n
<1>2. /\ Stands(stack, Below) /\ \A i \in 1 .. Len(Below) : Floor(Below[i]) <= Top.frame
  BY <1>1, StandsPopped DEF Below, n
<1>3. Stands(t, Below)
  BY <1>2, StandsKept
<1>4. Topped(t, Below, o)
  <2>. SUFFICES ASSUME Below # <<>>, o = "ok"
                PROVE  /\ Floor(Below[Len(Below)]) < Len(t)
                       /\ Below[Len(Below)].kind = "new" =>
                            Len(t) = Below[Len(Below)].frame + 1
    BY DEF Topped
  <2>1. PICK k, b : k = Len(Below) /\ b = Below[k]
    OBVIOUS
  <2>2. k \in 1 .. k /\ k \in Nat
    BY <1>2, <2>1, SeqFacts DEF Stands
  <2>3. k = n - 1 /\ b = acts[n - 1]
    <3>1. n - 1 \in Nat /\ n - 1 <= n
      BY <1>1
    <3>2. n - 1 <= Len(acts)
      BY <3>1 DEF n
    <3>3. Len(Below) = n - 1 /\ \A i \in 1 .. n - 1 : Below[i] = acts[i]
      BY <1>1, <3>1, <3>2, CutFacts DEF Below, n
    <3>. QED BY <2>1, <2>2, <3>3
  <2>4. Floor(b) \in Nat /\ Floor(b) <= Top.frame /\ Len(t) \in Nat
    BY <1>2, <2>1, <2>2, Placing, SeqFacts
  <2>5. Floor(b) < Len(t)
    <3>1. PICK f, g, l : f = Floor(b) /\ g = Top.frame /\ l = Len(t)
      OBVIOUS
    <3>2. f \in Nat /\ g \in Nat /\ l \in Nat /\ f <= g /\ g < l
      BY <1>1, <2>4, <3>1
    <3>. QED BY <3>1, <3>2
  <2>6. ASSUME b.kind = "new"
        PROVE  Len(t) = b.frame + 1
    <3>1. n - 1 \in 1 .. n - 1 /\ n - 1 + 1 = n
      BY <1>1, <2>2, <2>3
    <3>2. acts[n].frame = b.frame /\ acts[n].kind \in {"ir", "native"}
      BY <1>1, <2>3, <2>6, <3>1 DEF Stands, n
    <3>. QED BY <1>1, <3>2
  <2>. QED BY <2>1, <2>5, <2>6
<1>5. /\ IInv'
      /\ \/ out' = "panic" /\ stack' = stack /\ acts' = acts
         \/ stack' = t /\ acts' = Below /\ out' = o
  BY <1>3, <1>4, BecomesInv
<1>6. Agree(stack, stack, Top.frame)
  BY <1>1 DEF Agree
<1>. QED BY <1>5, <1>6

(* What is pushed, popped or put below the result.                         *)
LEMMA PushFacts ==
  ASSUME IInv, acts # <<>>, NEW v \in Values, NEW t, t = Append(stack, v)
  PROVE  /\ t \in Seq(Values) /\ Len(t) = Len(stack) + 1 /\ t[Len(stack) + 1] = v
         /\ Agree(stack, t, Len(stack)) /\ Agree(stack, t, Floor(Top))
<1>1. /\ stack \in Seq(Values) /\ Floor(Top) \in Nat /\ Floor(Top) <= Len(stack)
  BY TopFacts
<1>2. Grown(stack, v, t)
  BY DEF Grown
<1>3. /\ t \in Seq(Values) /\ Len(t) = Len(stack) + 1 /\ t[Len(stack) + 1] = v
      /\ Agree(stack, t, Len(stack))
  BY <1>1, <1>2, AppendFacts
<1>4. Agree(stack, t, Floor(Top))
  BY <1>1, <1>3, AgreeLess
<1>. QED BY <1>3, <1>4

LEMMA CutsFacts ==
  ASSUME IInv, acts # <<>>, NEW m, m \in Nat, m <= Len(stack), NEW f, f \in Nat, f <= m,
         NEW t, t = Cut(stack, m)
  PROVE  t \in Seq(Values) /\ Len(t) = m /\ Agree(stack, t, m) /\ Agree(stack, t, f)
<1>1. stack \in Seq(Values)
  BY TopFacts
<1>2. t \in Seq(Values) /\ Len(t) = m /\ Agree(stack, t, m)
  BY <1>1, CutFacts
<1>. QED BY <1>1, <1>2, AgreeLess

LEMMA ResultFacts ==
  ASSUME IInv, acts # <<>>, NEW v \in Values, NEW t,
         Grown(Cut(stack, Top.frame), v, t)
  PROVE  /\ t \in Seq(Values) /\ Len(t) = Top.frame + 1 /\ t[Top.frame + 1] = v
         /\ Agree(stack, t, Top.frame)
<1>1. Top.frame \in Nat /\ Top.frame <= Len(stack)
  BY TopFacts
<1>2. PICK c, f : c = Cut(stack, Top.frame) /\ f = Top.frame
  OBVIOUS
<1>3. c \in Seq(Values) /\ Len(c) = f /\ Agree(stack, c, f)
  BY <1>1, <1>2, CutsFacts
<1>4. Grown(c, v, t)
  BY <1>2
<1>5. t \in Seq(Values) /\ Len(t) = f + 1 /\ t[f + 1] = v /\ Agree(c, t, f)
  <2>1. c \in Seq(Values)
    BY <1>3
  <2>2. t \in Seq(Values) /\ Len(t) = Len(c) + 1 /\ Agree(c, t, Len(c))
    BY <1>4, <2>1, AppendFacts
  <2>3. t[Len(c) + 1] = v
    BY <1>4, <2>1, AppendFacts
  <2>. QED BY <1>3, <2>2, <2>3
<1>6. Agree(stack, t, f)
  BY <1>3, <1>5 DEF Agree
<1>. QED BY <1>2, <1>5, <1>6

LEMMA PushedReady ==
  ASSUME IInv, acts # <<>>, NEW fn \in Values, NEW this \in Values, NEW args \in Seq(Values),
         NEW t, t = Pushed(fn, this, args)
  PROVE  /\ Ready(t, acts, Len(stack), Len(args)) /\ Agree(stack, t, Len(stack))
         /\ t[Len(stack) + 1] = this /\ t[Len(stack) + 2] = fn
         /\ \A i \in 1 .. Len(args) : t[Len(stack) + 2 + i] = args[i]
<1>1. /\ stack \in Seq(Values) /\ Len(stack) \in Nat /\ Floor(Top) \in Nat
      /\ Floor(Top) <= Len(stack) /\ \A i \in 1 .. Len(acts) : Floor(acts[i]) <= Floor(Top)
  BY TopFacts
<1>2. PICK u, w, n, k : /\ u = <<this, fn>> /\ w = stack \o u /\ n = Len(stack) /\ k = Len(args)
  OBVIOUS
<1>3. u \in Seq(Values) /\ Len(u) = 2 /\ u[1] = this /\ u[2] = fn
  BY <1>2
<1>4. n \in Nat /\ k \in Nat
  BY <1>1, <1>2, SeqFacts
<1>5. w \in Seq(Values) /\ Len(w) = n + 2 /\ Agree(stack, w, n) /\ w[n + 1] = this /\ w[n + 2] = fn
  <2>0. stack \in Seq(Values) /\ u \in Seq(Values)
    BY <1>1, <1>3
  <2>1. Joined(stack, u, w)
    BY <1>2 DEF Joined
  <2>2. w \in Seq(Values) /\ Len(w) = Len(stack) + Len(u) /\ Agree(stack, w, Len(stack))
    BY <2>0, <2>1, ConcatFacts
  <2>3. \A i \in 1 .. Len(u) : w[Len(stack) + i] = u[i]
    BY <2>0, <2>1, ConcatFacts
  <2>4. 1 \in 1 .. Len(u) /\ 2 \in 1 .. Len(u)
    BY <1>3
  <2>. QED BY <1>2, <1>3, <2>2, <2>3, <2>4
<1>6. t \in Seq(Values) /\ Len(t) = n + 2 + k /\ Agree(w, t, n + 2)
      /\ \A i \in 1 .. k : t[n + 2 + i] = args[i]
  <2>1. Joined(w, args, t)
    BY <1>2 DEF Joined, Pushed
  <2>2. t \in Seq(Values) /\ Len(t) = Len(w) + Len(args) /\ Agree(w, t, Len(w))
    BY <1>5, <2>1, ConcatFacts
  <2>3. \A i \in 1 .. Len(args) : t[Len(w) + i] = args[i]
    BY <1>5, <2>1, ConcatFacts
  <2>. QED BY <1>2, <1>5, <2>2, <2>3
<1>7. n + 1 \in 1 .. n + 2 /\ n + 2 \in 1 .. n + 2 /\ n <= n + 2
  BY <1>4
<1>8. t[n + 1] = this /\ t[n + 2] = fn
  BY <1>5, <1>6, <1>7 DEF Agree
<1>9. Agree(stack, t, n)
  <2>1. \A i \in 1 .. n : i \in 1 .. n + 2
    BY <1>4
  <2>2. n <= n + 2 + k
    BY <1>4
  <2>. QED BY <1>2, <1>4, <1>5, <1>6, <2>1, <2>2 DEF Agree
<1>10. \A i \in 1 .. Len(acts) : Floor(acts[i]) <= n
  <2>1. PICK g : g = Floor(Top)
    OBVIOUS
  <2>2. g \in Nat /\ g <= n /\ \A i \in 1 .. Len(acts) : Floor(acts[i]) <= g
    BY <1>1, <1>2, <2>1
  <2>3. \A i \in 1 .. Len(acts) : Floor(acts[i]) \in Nat
    BY Placing DEF IInv
  <2>. QED BY <1>4, <2>2, <2>3
<1>11. Stands(t, acts)
  BY <1>6, <1>9, <1>10, StandsKept DEF IInv
<1>12. Ready(t, acts, n, k)
  BY <1>4, <1>6, <1>10, <1>11 DEF Ready
<1>. QED BY <1>2, <1>6, <1>8, <1>9, <1>12

(* An instruction gives up the operands from cell frame + 1 on.            *)
LEMMA OperandsReady ==
  ASSUME IInv, acts # <<>>, Top.kind = "ir", NEW n, n \in 0 .. Operands - 2
  PROVE  /\ Ready(stack, acts, Len(stack) - n - 2, n)
         /\ Floor(Top) <= Len(stack) - n - 2 /\ n \in Nat
<1>1. /\ stack \in Seq(Values) /\ Len(stack) \in Nat /\ Floor(Top) \in Nat
      /\ Floor(Top) = Top.base + Top.junk /\ Top.base \in Nat /\ Top.junk \in Nat
      /\ \A i \in 1 .. Len(acts) : Floor(acts[i]) <= Floor(Top)
  BY TopFacts
<1>2. PICK l, g, b, j, k : /\ l = Len(stack) /\ g = Floor(Top) /\ b = Top.base /\ j = Top.junk
                           /\ k = l - n - 2
  OBVIOUS
<1>3. l \in Nat /\ g = b + j /\ b \in Nat /\ j \in Nat /\ n \in 0 .. l - b - j - 2 /\ g \in Nat
  BY <1>1, <1>2 DEF Operands
<1>4. k \in Nat /\ n \in Nat /\ g <= k /\ k + 2 + n = l
  BY <1>2, <1>3
<1>5. \A i \in 1 .. Len(acts) : Floor(acts[i]) <= k
  <2>1. \A i \in 1 .. Len(acts) : Floor(acts[i]) \in Nat /\ Floor(acts[i]) <= g
    BY <1>1, <1>2, Placing DEF IInv
  <2>. QED BY <1>3, <1>4, <2>1
<1>6. Ready(stack, acts, k, n)
  BY <1>2, <1>4, <1>5 DEF IInv, Ready
<1>. QED BY <1>2, <1>4, <1>6

-----------------------------------------------------------------------------
(* The actions                                                             *)
Kept == acts # <<>> => Agree(stack, stack', Top.frame)

LEMMA KeptTop ==
  ASSUME IInv, IInv', acts # <<>>, NEW m, Agree(stack, stack', m), Top.frame <= m
  PROVE  Kept
<1>1. /\ stack \in Seq(Values) /\ stack' \in Seq(Values) /\ Top.frame \in Nat
  BY TopFacts DEF IInv, Stands
<1>. QED BY <1>1, AgreeLess DEF Kept

LEMMA LoadInv == ASSUME IInv, Load PROVE IInv' /\ Kept
<1>1. PICK v \in Loads : Becomes(Append(stack, v), acts, "run")
  BY DEF Load
<1>2. acts # <<>> /\ Top.kind = "ir" /\ v \in Values
  BY SameAssumption DEF Load, InCode, Abstract!FunctionsAssumption, Values, Abstract!Values
<1>3. PICK t : t = Append(stack, v)
  OBVIOUS
<1>4. t \in Seq(Values) /\ Agree(stack, t, Floor(Top))
  BY <1>2, <1>3, PushFacts
<1>5. Topped(t, acts, "run")
  BY <1>2 DEF Topped, Top
<1>6. Becomes(t, acts, "run")
  BY <1>1, <1>3
<1>. QED BY <1>2, <1>4, <1>5, <1>6, TopInv DEF Kept

LEMMA DropInv == ASSUME IInv, Drop PROVE IInv' /\ Kept
<1>1. acts # <<>> /\ Top.kind = "ir" /\ Operands >= 1
  BY DEF Drop, InCode
<1>2. PICK m, f : m = Len(stack) - 1 /\ f = Floor(Top)
  OBVIOUS
<1>3. m \in Nat /\ m <= Len(stack) /\ f \in Nat /\ f <= m
  <2>1. PICK l, b, j : l = Len(stack) /\ b = Top.base /\ j = Top.junk
    OBVIOUS
  <2>2. /\ l \in Nat /\ b \in Nat /\ j \in Nat /\ f = b + j /\ l - b - j >= 1 /\ m = l - 1
    BY <1>1, <1>2, <2>1, TopFacts DEF Operands
  <2>3. m \in Nat /\ m <= l /\ f \in Nat /\ f <= m
    BY <2>2
  <2>. QED BY <2>1, <2>3
<1>4. PICK t : t = Cut(stack, m)
  OBVIOUS
<1>5. t \in Seq(Values) /\ Agree(stack, t, f)
  BY <1>1, <1>3, <1>4, CutsFacts
<1>6. Topped(t, acts, "run")
  BY <1>1 DEF Topped, Top
<1>7. Becomes(t, acts, "run")
  BY <1>2, <1>4 DEF Drop
<1>. QED BY <1>1, <1>2, <1>5, <1>6, <1>7, TopInv DEF Kept

(* The two cells that are exchanged are operands.                          *)
Swapped(n, t) == t = [stack EXCEPT ![n] = stack[n - 1], ![n - 1] = stack[n]]

LEMMA SwapFacts ==
  ASSUME IInv, acts # <<>>, Top.kind = "ir", Operands >= 2, NEW n, n = Len(stack),
         NEW t, Swapped(n, t)
  PROVE  /\ t \in Seq(Values) /\ Len(t) = n /\ Agree(stack, t, n - 2)
         /\ t[n] = stack[n - 1] /\ t[n - 1] = stack[n]
         /\ Floor(Top) \in Nat /\ Floor(Top) <= n - 2 /\ n \in Nat
<1>1. PICK b, j : b = Top.base /\ j = Top.junk
  OBVIOUS
<1>2. /\ n \in Nat /\ b \in Nat /\ j \in Nat /\ n - b - j >= 2 /\ Floor(Top) = b + j
      /\ stack \in Seq(Values)
  BY <1>1, TopFacts DEF Operands
<1>3. n \in 1 .. n /\ n - 1 \in 1 .. n /\ n - 1 # n /\ n - 2 \in Nat /\ b + j <= n - 2
  BY <1>2
<1>4. PICK s : Changed(stack, n, stack[n - 1], s) /\ Changed(s, n - 1, stack[n], t)
  BY DEF Changed, Swapped
<1>5. stack[n] \in Values /\ stack[n - 1] \in Values
  BY <1>2, <1>3, SeqFacts
<1>6. /\ s \in Seq(Values) /\ Len(s) = n /\ s[n] = stack[n - 1]
      /\ \A j1 \in 1 .. n : j1 # n => s[j1] = stack[j1]
  <2>1. Changed(stack, n, stack[n - 1], s) /\ n \in 1 .. Len(stack)
    BY <1>3, <1>4
  <2>. QED BY <1>2, <1>5, <2>1, ChangeFacts
<1>7. Changed(s, n - 1, stack[n], t)
  BY <1>4
<1>8. /\ t \in Seq(Values) /\ Len(t) = n /\ t[n - 1] = stack[n]
      /\ \A j1 \in 1 .. n : j1 # n - 1 => t[j1] = s[j1]
  <2>1. PICK k, e : k = n - 1 /\ e = stack[n]
    OBVIOUS
  <2>2. k \in 1 .. Len(s) /\ e \in Values /\ s \in Seq(Values) /\ Changed(s, k, e, t)
    BY <1>3, <1>5, <1>6, <1>7, <2>1
  <2>3. t \in Seq(Values) /\ Len(t) = Len(s) /\ t[k] = e
    BY <2>2, ChangeFacts
  <2>4. \A j1 \in 1 .. Len(s) : j1 # k => t[j1] = s[j1]
    BY <2>2, ChangeFacts
  <2>. QED BY <1>6, <2>1, <2>3, <2>4
<1>9. \A j1 \in 1 .. n - 2 : j1 \in 1 .. n /\ j1 # n /\ j1 # n - 1
  BY <1>2
<1>10. n - 2 <= n
  BY <1>2
<1>11. Agree(stack, t, n - 2)
  BY <1>3, <1>6, <1>8, <1>9, <1>10 DEF Agree
<1>. QED BY <1>2, <1>3, <1>6, <1>8, <1>11

LEMMA SwapInv == ASSUME IInv, Swap PROVE IInv' /\ Kept
<1>1. acts # <<>> /\ Top.kind = "ir" /\ Operands >= 2
  BY DEF Swap, InCode
<1>2. PICK n, t : n = Len(stack) /\ Swapped(n, t)
  BY DEF Swapped
<1>3. /\ t \in Seq(Values) /\ Agree(stack, t, n - 2) /\ Floor(Top) \in Nat
      /\ Floor(Top) <= n - 2 /\ stack \in Seq(Values)
  BY <1>1, <1>2, SwapFacts, TopFacts
<1>4. Agree(stack, t, Floor(Top))
  BY <1>3, AgreeLess
<1>5. Topped(t, acts, "run")
  BY <1>1 DEF Topped, Top
<1>6. Becomes(t, acts, "run")
  BY <1>2 DEF Swap, Swapped
<1>. QED BY <1>1, <1>3, <1>4, <1>5, <1>6, TopInv DEF Kept

(* A call leaves the stack below the frame it is made in.                  *)
LEMMA CallKept ==
  ASSUME IInv, acts # <<>>, IInv', NEW st \in Seq(Values), NEW f \in Nat,
         Agree(stack, st, f), Top.frame <= f,
         \/ out' = "panic" /\ stack' = stack /\ acts' = acts
         \/ out' \in {"run", "err"} /\ Agree(st, stack', f)
  PROVE  Kept
<1>1. CASE stack' = stack
  <2>1. Top.frame \in Nat /\ Top.frame <= Len(stack)
    BY TopFacts
  <2>. QED BY <1>1, <2>1 DEF Kept, Agree
<1>2. CASE Agree(st, stack', f)
  <2>1. Agree(stack, stack', f)
    BY <1>2 DEF Agree
  <2>. QED BY <2>1, KeptTop
<1>. QED BY <1>1, <1>2

LEMMA CallOpInv == ASSUME IInv, CallOp PROVE IInv' /\ Kept
<1>1. acts # <<>> /\ Top.kind = "ir" /\ out = "run"
  BY DEF CallOp, InCode
<1>2. PICK n \in 0 .. Operands - 2, construct \in Modes :
        IF construct THEN Construct(stack, acts, Len(stack) - n - 2, n)
        ELSE Call(stack, acts, Len(stack) - n - 2, n, FALSE)
  BY DEF CallOp
<1>3. PICK f : f = Len(stack) - n - 2
  OBVIOUS
<1>4. Ready(stack, acts, f, n) /\ Floor(Top) <= f
  BY <1>1, <1>3, OperandsReady
<1>5. acts[Len(acts)].kind # "new"
  BY <1>1 DEF Top
<1>6. /\ IInv'
      /\ \/ out' = "panic" /\ stack' = stack /\ acts' = acts
         \/ out' \in {"run", "err"} /\ Agree(stack, stack', f)
  <2>1. CASE construct
    <3>1. Construct(stack, acts, f, n)
      BY <1>2, <1>3, <2>1
    <3>. QED BY <1>1, <1>4, <1>5, <3>1, ConstructInv
  <2>2. CASE ~construct
    <3>1. Call(stack, acts, f, n, FALSE)
      BY <1>2, <1>3, <2>2
    <3>. QED BY <1>1, <1>4, <1>5, <3>1, CallInv
  <2>. QED BY <2>1, <2>2
<1>7. f \in Nat /\ Agree(stack, stack, f) /\ Top.frame <= f /\ stack \in Seq(Values)
  <2>1. f \in Nat /\ f <= Len(stack) /\ stack \in Seq(Values)
    BY <1>4, ReadyFacts
  <2>2. PICK g, h : g = Top.frame /\ h = Floor(Top)
    OBVIOUS
  <2>3. g \in Nat /\ h \in Nat /\ g <= h /\ h <= f
    BY <1>1, <1>4, <2>2, TopFacts
  <2>4. g <= f
    BY <2>1, <2>3
  <2>. QED BY <2>1, <2>2, <2>4 DEF Agree
<1>. QED BY <1>1, <1>6, <1>7, CallKept

(* Native code and bound functions push a frame of their own.              *)
LEMMA PushedInv ==
  ASSUME IInv, acts # <<>>, out = "run", NEW fn \in Values, NEW this \in Values,
         NEW args \in Seq(Values),
         LET t == Pushed(fn, this, args) IN
         \/ Call(t, acts, Len(stack), Len(args), FALSE)
         \/ Construct(t, acts, Len(stack), Len(args))
  PROVE  IInv' /\ Kept
<1>1. PICK t : t = Pushed(fn, this, args)
  OBVIOUS
<1>2. Ready(t, acts, Len(stack), Len(args)) /\ Agree(stack, t, Len(stack))
  BY <1>1, PushedReady
<1>3. acts[Len(acts)].kind # "new"
  BY DEF IInv, Topped
<1>4. /\ IInv'
      /\ \/ out' = "panic" /\ stack' = stack /\ acts' = acts
         \/ out' \in {"run", "err"} /\ Agree(t, stack', Len(stack))
  <2>1. CASE Call(t, acts, Len(stack), Len(args), FALSE)
    BY <1>2, <1>3, <2>1, CallInv
  <2>2. CASE Construct(t, acts, Len(stack), Len(args))
    BY <1>2, <1>3, <2>2, ConstructInv
  <2>. QED BY <1>1, <2>1, <2>2
<1>5. t \in Seq(Values) /\ Len(stack) \in Nat /\ Top.frame <= Len(stack)
  BY <1>2, ReadyFacts, TopFacts
<1>. QED BY <1>2, <1>4, <1>5, CallKept

LEMMA NativeCallsInv == ASSUME IInv, NativeCalls PROVE IInv' /\ Kept
<1>1. acts # <<>> /\ out = "run"
  BY DEF NativeCalls, Waiting
<1>2. PICK fn \in Loads, p \in Passed :
        \/ Call(Pushed(fn, p.this, p.args), acts, Len(stack), Len(p.args), FALSE)
        \/ Construct(Pushed(fn, Undefined, p.args), acts, Len(stack), Len(p.args))
  BY DEF NativeCalls
<1>3. fn \in Values /\ p.this \in Values /\ p.args \in Seq(Values) /\ Undefined \in Values
  BY SameAssumption DEF Abstract!FunctionsAssumption, Values, Abstract!Values
<1>. QED BY <1>1, <1>2, <1>3, PushedInv

(* What a bound function passes.                                           *)
BoundArgs == Target[Top.fn].args \o SubSeq(stack, Top.frame + 3, Top.frame + 2 + Top.argc)

LEMMA BoundFacts ==
  ASSUME IInv, acts # <<>>, Top.kind \in {"bound", "boundnew"}
  PROVE  /\ Target[Top.fn].fn \in Values /\ Target[Top.fn].this \in Values
         /\ BoundArgs \in Seq(Values) /\ Undefined \in Values
<1>1. /\ Top.fn \in Functions /\ Kind[Top.fn] = "bound" /\ Held(Top) = Top.argc
      /\ Top.frame + 2 + Held(Top) <= Top.base /\ Top.frame \in Nat /\ Top.argc \in Nat
      /\ Top.base \in Nat /\ Top.junk \in Nat /\ Floor(Top) = Top.base + Top.junk
      /\ Floor(Top) <= Len(stack) /\ stack \in Seq(Values) /\ Len(stack) \in Nat
  BY TopFacts DEF Held, Placed
<1>2. Target[Top.fn] \in [fn : Values, this : Values, args : Seq(Values)]
  BY <1>1, SameAssumption DEF Abstract!FunctionsAssumption, Values, Abstract!Values
<1>3. SubSeq(stack, Top.frame + 3, Top.frame + 2 + Top.argc) \in Seq(Values)
  <2>1. PICK f, c, b, j, l, h :
          f = Top.frame /\ c = Top.argc /\ b = Top.base /\ j = Top.junk /\ l = Len(stack)
          /\ h = Held(Top)
    OBVIOUS
  <2>2. f \in Nat /\ c \in Nat /\ b \in Nat /\ j \in Nat /\ l \in Nat /\ f + 2 + c <= b
        /\ b + j <= l
    BY <1>1, <2>1
  <2>3. /\ f + 2 \in Nat /\ f + 2 + c \in Nat /\ f + 2 <= f + 2 + c /\ f + 2 + c <= l
        /\ f + 2 + 1 = f + 3
    BY <2>2
  <2>4. SubSeq(stack, f + 2 + 1, f + 2 + c) \in Seq(Values)
    BY <1>1, <2>1, <2>3, PartFacts
  <2>. QED BY <2>1, <2>3, <2>4
<1>4. PICK u, v, w : /\ u = Target[Top.fn].args
                     /\ v = SubSeq(stack, Top.frame + 3, Top.frame + 2 + Top.argc)
                     /\ w = BoundArgs
  OBVIOUS
<1>5. u \in Seq(Values) /\ v \in Seq(Values) /\ Joined(u, v, w)
  BY <1>2, <1>3, <1>4 DEF Joined, BoundArgs
<1>6. w \in Seq(Values)
  BY <1>5, ConcatFacts
<1>. QED BY <1>2, <1>4, <1>6 DEF Values

LEMMA BindInv == ASSUME IInv, Bind PROVE IInv' /\ Kept
<1>1. acts # <<>> /\ out = "run" /\ Top.kind \in {"bound", "boundnew"}
  BY DEF Bind, Waiting
<1>2. PICK fn, this, args : fn = Target[Top.fn].fn /\ this = Target[Top.fn].this /\ args = BoundArgs
  OBVIOUS
<1>3. \/ Call(Pushed(fn, this, args), acts, Len(stack), Len(args), FALSE)
      \/ Construct(Pushed(fn, Undefined, args), acts, Len(stack), Len(args))
  BY <1>2 DEF Bind, BoundArgs
<1>4. fn \in Values /\ this \in Values /\ args \in Seq(Values) /\ Undefined \in Values
  BY <1>1, <1>2, BoundFacts
<1>. QED BY <1>1, <1>3, <1>4, PushedInv

(* A frame is dropped, and a result is put there.                          *)
LEMMA ResultInv ==
  ASSUME IInv, acts # <<>>, NEW v \in Values,
         Becomes(Append(Cut(stack, Top.frame), v), Below, "ok")
  PROVE  IInv' /\ Kept
<1>1. PICK t : Grown(Cut(stack, Top.frame), v, t)
  BY DEF Grown
<1>2. Becomes(t, Below, "ok")
  BY <1>1 DEF Grown
<1>3. t \in Seq(Values) /\ Len(t) = Top.frame + 1 /\ Agree(stack, t, Top.frame)
  BY <1>1, ResultFacts
<1>4. Top.frame < Len(t)
  <2>1. PICK f : f = Top.frame
    OBVIOUS
  <2>2. f \in Nat
    BY <2>1, TopFacts
  <2>. QED BY <1>3, <2>1, <2>2
<1>5. IInv' /\ Agree(stack, stack', Top.frame)
  BY <1>2, <1>3, <1>4, PopInv
<1>. QED BY <1>5 DEF Kept

LEMMA ReturnOpInv == ASSUME IInv, ReturnOp PROVE IInv' /\ Kept
<1>1. acts # <<>> /\ Top.kind = "ir" /\ Operands >= 1
  BY DEF ReturnOp, InCode
<1>2. stack[Len(stack)] \in Values
  <2>1. PICK l, b, j : l = Len(stack) /\ b = Top.base /\ j = Top.junk
    OBVIOUS
  <2>2. l \in Nat /\ b \in Nat /\ j \in Nat /\ l - b - j >= 1 /\ stack \in Seq(Values)
    BY <1>1, <2>1, TopFacts DEF Operands
  <2>3. l \in 1 .. l
    BY <2>2
  <2>. QED BY <2>1, <2>2, <2>3, SeqFacts
<1>3. Becomes(Append(Cut(stack, Top.frame), stack[Len(stack)]), Below, "ok")
  BY DEF ReturnOp
<1>. QED BY <1>1, <1>2, <1>3, ResultInv

LEMMA NativeReturnsInv == ASSUME IInv, NativeReturns PROVE IInv' /\ Kept
<1>1. PICK v \in Loads : Becomes(Append(Cut(stack, Top.frame), v), Below, "ok")
  BY DEF NativeReturns
<1>2. v \in Values /\ acts # <<>>
  BY SameAssumption
     DEF NativeReturns, Waiting, Abstract!FunctionsAssumption, Values, Abstract!Values
<1>. QED BY <1>1, <1>2, ResultInv

LEMMA BoundNewResumesInv == ASSUME IInv, BoundNewResumes PROVE IInv' /\ Kept
<1>1. acts # <<>> /\ out = "ok"
  BY DEF BoundNewResumes, Resumes
<1>2. stack[Len(stack)] \in Values
  <2>1. PICK l, f : l = Len(stack) /\ f = Floor(Top)
    OBVIOUS
  <2>2. l \in Nat /\ f \in Nat /\ f < l /\ stack \in Seq(Values)
    BY <1>1, <2>1, TopFacts DEF IInv, Topped
  <2>3. l \in 1 .. l
    BY <2>2
  <2>. QED BY <2>1, <2>2, <2>3, SeqFacts
<1>3. Becomes(Append(Cut(stack, Top.frame), stack[Len(stack)]), Below, "ok")
  BY DEF BoundNewResumes
<1>. QED BY <1>1, <1>2, <1>3, ResultInv

(* The stack as it is reaches to the floor of the activation on top.       *)
LEMMA SameStack ==
  ASSUME IInv, acts # <<>>
  PROVE  Agree(stack, stack, Floor(Top)) /\ Agree(stack, stack, Top.frame)
<1>1. /\ Floor(Top) \in Nat /\ Top.frame \in Nat /\ Floor(Top) <= Len(stack)
      /\ Top.frame <= Len(stack)
  BY TopFacts
<1>. QED BY <1>1 DEF Agree

LEMMA CodeResumesInv == ASSUME IInv, CodeResumes PROVE IInv' /\ Kept
<1>1. acts # <<>> /\ Top.kind = "ir" /\ Becomes(stack, acts, "run")
  BY DEF CodeResumes, Resumes
<1>2. Topped(stack, acts, "run") /\ stack \in Seq(Values)
  BY <1>1, TopFacts DEF Topped, Top
<1>. QED BY <1>1, <1>2, SameStack, TopInv DEF Kept

(* A result is there to be dropped.                                        *)
LEMMA ResultThere ==
  ASSUME IInv, acts # <<>>, out = "ok"
  PROVE  /\ Len(stack) \in Nat /\ Len(stack) - 1 \in Nat /\ Floor(Top) \in Nat
         /\ Floor(Top) <= Len(stack) - 1 /\ Len(stack) - 1 <= Len(stack)
         /\ Len(stack) \in 1 .. Len(stack) /\ stack[Len(stack)] \in Values
         /\ stack \in Seq(Values) /\ Top.frame <= Len(stack) - 1 /\ Top.frame < Len(stack)
<1>1. PICK l, f, g : l = Len(stack) /\ f = Floor(Top) /\ g = Top.frame
  OBVIOUS
<1>2. l \in Nat /\ f \in Nat /\ f < l /\ stack \in Seq(Values) /\ g \in Nat /\ g <= f
  BY <1>1, TopFacts DEF IInv, Topped, Top
<1>3. l - 1 \in Nat /\ f <= l - 1 /\ l - 1 <= l /\ l \in 1 .. l /\ g <= l - 1 /\ g < l
  BY <1>2
<1>4. stack[l] \in Values
  BY <1>1, <1>2, <1>3, SeqFacts
<1>. QED BY <1>1, <1>2, <1>3, <1>4

LEMMA NativeResumesInv == ASSUME IInv, NativeResumes PROVE IInv' /\ Kept
<1>1. /\ acts # <<>> /\ Top.kind = "native" /\ out = "ok"
      /\ Becomes(Cut(stack, Len(stack) - 1), acts, "run")
  BY DEF NativeResumes, Resumes
<1>2. PICK m, f, t : m = Len(stack) - 1 /\ f = Floor(Top) /\ t = Cut(stack, m)
  OBVIOUS
<1>3. m \in Nat /\ f \in Nat /\ f <= m /\ m <= Len(stack)
  BY <1>1, <1>2, ResultThere
<1>4. t \in Seq(Values) /\ Agree(stack, t, f)
  BY <1>1, <1>2, <1>3, CutsFacts
<1>5. Topped(t, acts, "run") /\ Becomes(t, acts, "run")
  BY <1>1, <1>2 DEF Topped, Top
<1>. QED BY <1>1, <1>2, <1>4, <1>5, TopInv DEF Kept

LEMMA NewResumesInv == ASSUME IInv, NewResumes PROVE IInv' /\ Kept
<1>1. acts # <<>> /\ Top.kind = "new" /\ out = "ok"
  BY DEF NewResumes, Resumes
<1>2. PICK l, v, t :
        /\ l = Len(stack) /\ v = IF stack[l] = Undefined THEN Fresh ELSE stack[l]
        /\ Changed(stack, l, v, t) /\ Becomes(t, Below, "ok")
  BY DEF NewResumes, Changed
<1>3. /\ l \in Nat /\ l \in 1 .. Len(stack) /\ stack[l] \in Values /\ stack \in Seq(Values)
      /\ Top.frame < l
  BY <1>1, <1>2, ResultThere
<1>4. Len(stack) = Top.frame + 1
  BY <1>1 DEF IInv, Topped, Top
<1>5. v \in Values
  BY <1>2, <1>3 DEF Values
<1>6. t \in Seq(Values) /\ Len(t) = Len(stack) /\ Agree(stack, t, l - 1)
  BY <1>2, <1>3, <1>5, ChangeFacts
<1>7. Agree(stack, t, Top.frame)
  <2>1. Top.frame = l - 1
    <3>1. PICK f : f = Top.frame
      OBVIOUS
    <3>2. f \in Nat
      BY <1>1, <3>1, TopFacts
    <3>. QED BY <1>2, <1>4, <3>1, <3>2
  <2>. QED BY <1>6, <2>1
<1>8. Top.frame < Len(t) /\ Len(t) = Top.frame + 1
  BY <1>2, <1>3, <1>4, <1>6
<1>9. IInv' /\ Agree(stack, stack', Top.frame)
  BY <1>1, <1>2, <1>6, <1>7, <1>8, PopInv
<1>. QED BY <1>9 DEF Kept

LEMMA BoundResumesInv == ASSUME IInv, BoundResumes PROVE IInv' /\ Kept
<1>1. acts # <<>> /\ Top.kind = "bound" /\ out = "ok" /\ Becomes(stack, Below, "ok")
  BY DEF BoundResumes, Resumes
<1>2. /\ stack \in Seq(Values) /\ Top.frame < Len(stack) /\ Agree(stack, stack, Top.frame)
  BY <1>1, ResultThere, SameStack
<1>3. IInv' /\ Agree(stack, stack', Top.frame)
  BY <1>1, <1>2, PopInv
<1>. QED BY <1>3 DEF Kept

LEMMA ThrowInv == ASSUME IInv, Throw PROVE IInv' /\ Kept
<1>1. acts # <<>> /\ Top.kind \in {"ir", "native"}
  BY DEF Throw, Waiting
<1>2. PICK n \in {0, 1} : /\ Becomes(Cut(stack, Len(stack) - n), acts, "err")
                          /\ n = 1 => Top.kind = "ir" /\ Operands >= 1
  BY DEF Throw
<1>3. PICK m, f, t : m = Len(stack) - n /\ f = Floor(Top) /\ t = Cut(stack, m)
  OBVIOUS
<1>4. m \in Nat /\ f \in Nat /\ f <= m /\ m <= Len(stack)
  <2>1. PICK l, b, j : l = Len(stack) /\ b = Top.base /\ j = Top.junk
    OBVIOUS
  <2>2. l \in Nat /\ b \in Nat /\ j \in Nat /\ f = b + j /\ f <= l /\ (n = 1 => l - b - j >= 1)
    BY <1>1, <1>2, <1>3, <2>1, TopFacts DEF Operands
  <2>3. m = l - n
    BY <1>3, <2>1
  <2>4. m \in Nat /\ f \in Nat /\ f <= m /\ m <= l
    BY <2>2, <2>3
  <2>. QED BY <2>1, <2>4
<1>5. t \in Seq(Values) /\ Agree(stack, t, f)
  BY <1>1, <1>3, <1>4, CutsFacts
<1>6. Topped(t, acts, "err") /\ Becomes(t, acts, "err")
  BY <1>2, <1>3 DEF Topped
<1>. QED BY <1>1, <1>3, <1>5, <1>6, TopInv DEF Kept

LEMMA LeaveInv == ASSUME IInv, Leave PROVE IInv' /\ Kept
<1>1. acts # <<>>
  BY DEF Leave
<1>2. PICK f, t : f = Top.frame /\ t = IF Top.kind = "new" THEN stack ELSE Cut(stack, f)
  OBVIOUS
<1>3. f \in Nat /\ f <= Len(stack) /\ f <= f /\ stack \in Seq(Values)
  BY <1>1, <1>2, TopFacts
<1>4. Agree(stack, Cut(stack, f), f) /\ Cut(stack, f) \in Seq(Values)
  BY <1>3, CutFacts
<1>5. t \in Seq(Values) /\ Agree(stack, t, Top.frame)
  BY <1>1, <1>2, <1>3, <1>4, SameStack
<1>6. Becomes(t, Below, "err")
  BY <1>2 DEF Leave
<1>7. IInv' /\ Agree(stack, stack', Top.frame)
  BY <1>1, <1>5, <1>6, PopInv
<1>. QED BY <1>7 DEF Kept

(* The operands an exception leaves are counted.                           *)
Caught(ac) ==
  Changed(acts, Len(acts), [Top EXCEPT !.junk = Len(stack) - Top.base], ac)

LEMMA CatchStands ==
  ASSUME IInv, acts # <<>>, Top.kind # "new", NEW ac, Caught(ac)
  PROVE  /\ Stands(stack, ac) /\ Len(ac) = Len(acts) /\ ac \in Seq(Acts)
         /\ \A i \in 1 .. Len(acts) : i # Len(acts) => ac[i] = acts[i]
         /\ ac[Len(acts)] = [Top EXCEPT !.junk = Len(stack) - Top.base]
         /\ ac[Len(acts)].base + ac[Len(acts)].junk = Len(stack)
<1>1. PICK n, l, b, f : n = Len(acts) /\ l = Len(stack) /\ b = Top.base /\ f = Top.frame
  OBVIOUS
<1>2. /\ n \in Nat /\ n \in 1 .. n /\ acts \in Seq(Acts) /\ Top \in Acts /\ Top = acts[n]
      /\ l \in Nat /\ b \in Nat /\ f \in Nat /\ Placed(Top) /\ stack[f + 2] = Top.fn
      /\ DOMAIN acts = 1 .. n
  BY <1>1, TopFacts, SeqFacts
<1>3. l - b \in Nat
  <2>1. PICK j : j = Top.junk
    OBVIOUS
  <2>2. j \in Nat /\ b + j <= l
    BY <1>1, <2>1, TopFacts
  <2>. QED BY <1>2, <2>2
<1>4. PICK a : a = [Top EXCEPT !.junk = l - b]
  OBVIOUS
<1>5. /\ a \in Acts /\ a.kind = Top.kind /\ a.fn = Top.fn /\ a.frame = f /\ a.argc = Top.argc
      /\ a.base = b /\ a.junk = l - b
  BY <1>1, <1>2, <1>3, <1>4 DEF Acts
<1>6. a.kind # "new"
  BY <1>5
<1>7. Placed(a) /\ Floor(a) = l
  <2>1. Held(a) = Held(Top)
    BY <1>5 DEF Held
  <2>2. b + (l - b) = l
    BY <1>2
  <2>. QED BY <1>1, <1>2, <1>5, <1>6, <2>1, <2>2 DEF Placed, Floor
<1>8. Changed(acts, n, a, ac)
  BY <1>1, <1>4 DEF Caught
<1>9. /\ ac \in Seq(Acts) /\ Len(ac) = n /\ ac[n] = a
      /\ \A i \in 1 .. n : i # n => ac[i] = acts[i]
  BY <1>1, <1>2, <1>5, <1>8, ChangeFacts
<1>10. \A i \in 1 .. n : /\ Placed(ac[i]) /\ Floor(ac[i]) <= l
                         /\ ac[i].kind # "new" => stack[ac[i].frame + 2] = ac[i].fn
  <2>1. l <= l
    BY <1>2
  <2>. QED BY <1>1, <1>2, <1>5, <1>7, <1>9, <2>1 DEF IInv, Stands
<1>11. ASSUME NEW i \in 1 .. n, NEW j \in 1 .. n, i < j
       PROVE  Floor(ac[i]) <= ac[j].frame
  <2>1. i # n /\ ac[i] = acts[i]
    BY <1>2, <1>9, <1>11
  <2>2. ac[j].frame = acts[j].frame
    BY <1>1, <1>2, <1>5, <1>9
  <2>3. Floor(acts[i]) <= acts[j].frame
    BY <1>1, <1>11 DEF IInv, Stands
  <2>. QED BY <2>1, <2>2, <2>3
<1>12. ASSUME NEW i \in 1 .. n - 1, ac[i].kind = "new"
       PROVE  ac[i + 1].frame = ac[i].frame /\ ac[i + 1].kind \in {"ir", "native"}
  <2>1. i \in 1 .. n /\ i # n /\ i + 1 \in 1 .. n
    BY <1>2
  <2>2. ac[i] = acts[i]
    BY <1>9, <2>1
  <2>3. ac[i + 1].frame = acts[i + 1].frame /\ ac[i + 1].kind = acts[i + 1].kind
    BY <1>1, <1>2, <1>5, <1>9, <2>1
  <2>4. acts[i].kind = "new" =>
          acts[i + 1].frame = acts[i].frame /\ acts[i + 1].kind \in {"ir", "native"}
    BY <1>1 DEF IInv, Stands
  <2>. QED BY <1>12, <2>2, <2>3, <2>4
<1>13. Stands(stack, ac)
  BY <1>1, <1>9, <1>10, <1>11, <1>12 DEF IInv, Stands
<1>14. ac[n].base + ac[n].junk = l
  <2>1. ac[n].base = b /\ ac[n].junk = l - b
    BY <1>5, <1>9
  <2>2. b + (l - b) = l
    BY <1>2
  <2>. QED BY <2>1, <2>2
<1>. QED BY <1>1, <1>4, <1>9, <1>13, <1>14

LEMMA CatchInv == ASSUME IInv, Catch PROVE IInv' /\ Kept
<1>1. acts # <<>> /\ Top.kind \in {"ir", "native"}
  BY DEF Catch, Waiting
<1>2. PICK ac : ac = [acts EXCEPT ![Len(acts)].junk = Len(stack) - Top.base]
  OBVIOUS
<1>3. Becomes(stack, ac, "run")
  BY <1>2 DEF Catch
<1>8. Caught(ac)
  BY <1>2 DEF Caught, Changed, Top
<1>4. /\ Stands(stack, ac) /\ Len(ac) = Len(acts)
      /\ ac[Len(acts)] = [Top EXCEPT !.junk = Len(stack) - Top.base]
  BY <1>1, <1>8, CatchStands
<1>5. ac[Len(ac)].kind # "new"
  BY <1>1, <1>4, TopFacts DEF Acts
<1>6. Topped(stack, ac, "run")
  BY <1>5 DEF Topped
<1>7. IInv' /\ stack' = stack
  BY <1>3, <1>4, <1>6, BecomesInv
<1>. QED BY <1>1, <1>7, SameStack DEF Kept

-----------------------------------------------------------------------------
(* The whole                                                               *)
First == <<Global, Main>> \o Undefineds(Params[Main] + Locals[Main])

LEMMA FirstFacts ==
  /\ First \in Seq(Values) /\ First[1] = Global /\ First[2] = Main
  /\ Params[Main] \in Nat /\ Locals[Main] \in Nat /\ Main \in Functions /\ Kind[Main] = "ir"
  /\ Len(First) = 2 + (Params[Main] + Locals[Main])
  /\ \A i \in 1 .. Params[Main] : First[2 + i] = Undefined
<1>1. PICK p, l, u, n : /\ p = Params[Main] /\ l = Locals[Main] /\ u = Undefineds(p + l)
                        /\ n = p + l
  OBVIOUS
<1>2. Main \in Functions /\ Kind[Main] = "ir" /\ p \in Nat /\ l \in Nat
  BY <1>1, SameAssumption, CellsAssumption DEF Abstract!FunctionsAssumption
<1>3. PICK g : g = <<Global, Main>>
  OBVIOUS
<1>4. g \in Seq(Values) /\ Len(g) = 2 /\ g[1] = Global /\ g[2] = Main
  BY <1>2, <1>3 DEF Values
<1>5. n \in Nat
  BY <1>1, <1>2
<1>6. u \in Seq(Values) /\ Len(u) = n /\ \A i \in 1 .. n : u[i] = Undefined
  <2>1. u \in Seq(Values) /\ Len(u) = n
    BY <1>1, <1>5, UndefinedsFacts
  <2>2. \A i \in 1 .. n : u[i] = Undefined
    BY <1>1 DEF Undefineds
  <2>. QED BY <2>1, <2>2
<1>7. g \in Seq(Values) /\ u \in Seq(Values) /\ Joined(g, u, First)
  BY <1>1, <1>3, <1>4, <1>6 DEF Joined, First
<1>8. First \in Seq(Values) /\ Len(First) = Len(g) + Len(u) /\ Agree(g, First, Len(g))
  BY <1>7, ConcatFacts
<1>9. \A i \in 1 .. Len(u) : First[Len(g) + i] = u[i]
  BY <1>7, ConcatFacts
<1>10. First[1] = Global /\ First[2] = Main
  BY <1>4, <1>8 DEF Agree
<1>11. \A i \in 1 .. p : First[2 + i] = Undefined
  <2>1. \A i \in 1 .. p : i \in 1 .. n
    BY <1>1, <1>2
  <2>. QED BY <1>4, <1>6, <1>9, <2>1
<1>. QED BY <1>1, <1>2, <1>4, <1>6, <1>8, <1>10, <1>11

LEMMA InitInv == ASSUME Init PROVE IInv
<1>1. /\ First \in Seq(Values) /\ First[2] = Main /\ Params[Main] \in Nat /\ Locals[Main] \in Nat
      /\ Main \in Functions /\ Kind[Main] = "ir"
      /\ Len(First) = 2 + (Params[Main] + Locals[Main])
  BY FirstFacts
<1>2. PICK a : a = Activation("ir", Main, 0, 0, Len(First))
  OBVIOUS
<1>3. stack = First /\ acts = <<a>> /\ out = "run"
  BY <1>2 DEF Init, First
<1>4. /\ a \in Acts /\ a.kind = "ir" /\ a.fn = Main /\ a.frame = 0 /\ a.argc = 0
      /\ a.base = Len(First) /\ a.junk = 0
  <2>1. Len(First) \in Nat /\ Main \in Values
    BY <1>1 DEF Values
  <2>. QED BY <1>2, <2>1 DEF Activation, Acts, Kinds
<1>5. Placed(a) /\ Floor(a) = Len(First)
  <2>1. PICK p, l, n : p = Params[Main] /\ l = Locals[Main] /\ n = Len(First)
    OBVIOUS
  <2>2. Held(a) = 0 + Missing(Main, 0) /\ Missing(Main, 0) = IF 0 < p THEN p - 0 ELSE 0
    BY <1>4, <2>1 DEF Held, Missing
  <2>3. Held(a) = p
    BY <1>1, <2>1, <2>2
  <2>4. 0 + 2 + p <= n /\ n + 0 = n
    BY <1>1, <2>1
  <2>. QED BY <1>1, <1>4, <2>1, <2>3, <2>4 DEF Placed, Floor
<1>6. acts \in Seq(Acts) /\ Len(acts) = 1 /\ acts[1] = a
  BY <1>3, <1>4
<1>7. \A i \in 1 .. 1 : /\ Placed(acts[i]) /\ Floor(acts[i]) <= Len(stack)
                        /\ acts[i].kind # "new" => stack[acts[i].frame + 2] = acts[i].fn
  <2>1. Len(First) <= Len(First) /\ 0 + 2 = 2
    BY <1>1
  <2>. QED BY <1>1, <1>3, <1>4, <1>5, <1>6, <2>1
<1>8. Stands(stack, acts)
  BY <1>1, <1>3, <1>6, <1>7 DEF Stands
<1>9. Topped(stack, acts, out)
  BY <1>3, <1>4, <1>6 DEF Topped
<1>. QED BY <1>3, <1>8, <1>9 DEF IInv

LEMMA NextInv == ASSUME IInv, Next PROVE IInv' /\ Kept
BY LoadInv, DropInv, SwapInv, CallOpInv, BindInv, ReturnOpInv, NativeReturnsInv,
   NativeCallsInv, CodeResumesInv, NativeResumesInv, NewResumesInv, BoundResumesInv,
   BoundNewResumesInv, ThrowInv, CatchInv, LeaveInv DEF Next

LEMMA SameInv == ASSUME IInv, UNCHANGED vars PROVE IInv'
BY DEF IInv, vars, Stands, Topped, Placed, Held, Floor, Missing

(* What a step does to the stack stays above the frame of the innermost    *)
(* activation, for all functions, all kinds of calls and every size of the *)
(* stack.                                                                  *)
THEOREM CallersAreKept == Spec => CallersKept
<1>1. Init => IInv
  BY InitInv
<1>2. IInv /\ [Next]_vars => IInv'
  BY NextInv, SameInv
<1>3. ASSUME IInv, [Next]_vars
      PROVE  [acts # <<>> => /\ Len(stack') >= Top.frame
                             /\ Cut(stack', Top.frame) = Cut(stack, Top.frame)]_vars
  <2>. SUFFICES ASSUME Next, acts # <<>>
                PROVE  /\ Len(stack') >= Top.frame
                       /\ Cut(stack', Top.frame) = Cut(stack, Top.frame)
    BY <1>3
  <2>1. IInv' /\ Agree(stack, stack', Top.frame)
    BY <1>3, NextInv DEF Kept
  <2>2. /\ stack \in Seq(Values) /\ stack' \in Seq(Values) /\ Top.frame \in Nat
        /\ Len(stack') \in Nat
    BY <1>3, <2>1, TopFacts, Lens DEF IInv, Stands
  <2>3. PICK t, f, z : t = stack' /\ f = Top.frame /\ z = 0
    OBVIOUS
  <2>4. z <= f /\ z + 1 = 1 /\ z \in Nat
    BY <2>2, <2>3
  <2>5. SubSeq(stack, z + 1, f) = SubSeq(t, z + 1, f)
    <3>1. stack \in Seq(Values) /\ t \in Seq(Values) /\ f \in Nat /\ Agree(stack, t, f)
      BY <2>1, <2>2, <2>3
    <3>. QED BY <2>4, <3>1, PartSame
  <2>6. Len(t) >= f
    BY <2>1, <2>2, <2>3 DEF Agree
  <2>. QED BY <2>3, <2>4, <2>5, <2>6 DEF Cut
<1>. QED BY <1>1, <1>2, <1>3, PTL DEF Spec, CallersKept

-----------------------------------------------------------------------------
(* What the stack shows of the activations                                 *)
Listed(p, n) == n \in Nat /\ p = [i \in 1 .. n |-> p[i]]

LEMMA ListedSeq ==
  ASSUME NEW p, NEW n, Listed(p, n), NEW q, NEW m, Listed(q, m)
  PROVE  \E S : p \in Seq(S) /\ q \in Seq(S) /\ Len(p) = n /\ Len(q) = m
<1>. DEFINE S == {p[i] : i \in 1 .. n} \union {q[i] : i \in 1 .. m}
<1>1. n \in Nat /\ m \in Nat
  BY DEF Listed
<1>2. p \in [1 .. n -> S]
  <2>1. \A i \in 1 .. n : p[i] \in S
    OBVIOUS
  <2>. HIDE DEF S
  <2>. QED BY <2>1 DEF Listed
<1>3. q \in [1 .. m -> S]
  <2>1. \A i \in 1 .. m : q[i] \in S
    OBVIOUS
  <2>. HIDE DEF S
  <2>. QED BY <2>1 DEF Listed
<1>. HIDE DEF S
<1>4. p \in Seq(S) /\ q \in Seq(S)
  BY <1>1, <1>2, <1>3, SeqDef
<1>5. Len(p) = n
  BY <1>1, <1>2, <1>4, LenProperties
<1>6. Len(q) = m
  BY <1>1, <1>3, <1>4, LenProperties
<1>. QED BY <1>4, <1>5, <1>6

LEMMA ListedEqual ==
  ASSUME NEW p, NEW n, Listed(p, n), NEW q, Listed(q, n), \A i \in 1 .. n : p[i] = q[i]
  PROVE  p = q
BY DEF Listed

LEMMA ListedGrown ==
  ASSUME NEW p, NEW n, Listed(p, n), NEW q, Listed(q, n + 1), \A i \in 1 .. n : q[i] = p[i]
  PROVE  q = Append(p, q[n + 1])
<1>1. n \in Nat /\ n + 1 \in 1 .. n + 1
  BY DEF Listed
<1>2. PICK S : p \in Seq(S) /\ q \in Seq(S) /\ Len(p) = n /\ Len(q) = n + 1
  BY ListedSeq
<1>3. PICK e, t : e = q[n + 1] /\ Grown(p, e, t)
  BY DEF Grown
<1>4. e \in S
  BY <1>1, <1>2, <1>3, SeqFacts
<1>5. t \in Seq(S) /\ Len(t) = n + 1 /\ t[n + 1] = e /\ \A i \in 1 .. n : t[i] = p[i]
  BY <1>2, <1>3, <1>4, AppendFacts
<1>6. \A i \in 1 .. n + 1 : i \in 1 .. n \/ i = n + 1
  BY <1>1
<1>7. \A i \in 1 .. n + 1 : q[i] = t[i]
  BY <1>3, <1>5, <1>6
<1>8. q = t
  BY <1>2, <1>5, <1>7, SeqEqual
<1>. QED BY <1>3, <1>8 DEF Grown

LEMMA ListedCut ==
  ASSUME NEW p, NEW n, Listed(p, n), NEW q, NEW m, Listed(q, m), m <= n,
         \A i \in 1 .. m : q[i] = p[i]
  PROVE  q = Cut(p, m)
<1>1. n \in Nat /\ m \in Nat
  BY DEF Listed
<1>2. PICK S : p \in Seq(S) /\ q \in Seq(S) /\ Len(p) = n /\ Len(q) = m
  BY ListedSeq
<1>3. PICK t : t = Cut(p, m)
  OBVIOUS
<1>4. t \in Seq(S) /\ Len(t) = m /\ \A i \in 1 .. m : t[i] = p[i]
  BY <1>1, <1>2, <1>3, CutFacts
<1>5. q = t
  BY <1>2, <1>4, SeqEqual
<1>. QED BY <1>3, <1>5

LEMMA ListedChanged ==
  ASSUME NEW p, NEW n, Listed(p, n), n # 0, NEW q, Listed(q, n), NEW x,
         \A i \in 1 .. n : i # n => q[i] = p[i], q[n] = [p[n] EXCEPT !.ops = x]
  PROVE  q = Abstract!WithOps(p, x)
<1>1. n \in Nat /\ n \in 1 .. n
  BY DEF Listed
<1>2. Len(p) = n
  BY ListedSeq
<1>3. PICK e : e = q[n]
  OBVIOUS
<1>4. Abstract!WithOps(p, x) = [p EXCEPT ![n] = e]
  BY <1>2, <1>3 DEF Abstract!WithOps
<1>5. p = [i \in 1 .. n |-> p[i]] /\ q = [i \in 1 .. n |-> q[i]]
  BY DEF Listed
<1>6. PICK r : r = [p EXCEPT ![n] = e]
  OBVIOUS
<1>7. r = [i \in 1 .. n |-> IF i = n THEN e ELSE p[i]]
  BY <1>1, <1>5, <1>6
<1>8. q = r
  BY <1>3, <1>5, <1>7
<1>. QED BY <1>4, <1>6, <1>8

LEMMA Shape ==
  ASSUME NEW st, NEW ac, Len(ac) \in Nat, NEW u
  PROVE  /\ Listed(Picture(st, ac, u), Len(ac))
         /\ \A i \in 1 .. Len(ac) : i # Len(ac) =>
              Picture(st, ac, u)[i] = Show(ac[i], st, ac[i + 1].frame)
         /\ Len(ac) # 0 => Picture(st, ac, u)[Len(ac)] = Show(ac[Len(ac)], st, u)
<1>1. PICK n : n = Len(ac) /\ n \in Nat
  OBVIOUS
<1>2. PICK p : p = [i \in 1 .. n |-> Show(ac[i], st, IF i < n THEN ac[i + 1].frame ELSE u)]
  OBVIOUS
<1>3. Picture(st, ac, u) = p
  BY <1>1, <1>2 DEF Picture
<1>4. Listed(p, n)
  BY <1>1, <1>2 DEF Listed
<1>5. \A i \in 1 .. n : i # n => i < n
  BY <1>1
<1>6. \A i \in 1 .. n : i # n => p[i] = Show(ac[i], st, ac[i + 1].frame)
  BY <1>2, <1>5
<1>7. n # 0 => n \in 1 .. n /\ ~(n < n)
  BY <1>1
<1>8. n # 0 => p[n] = Show(ac[n], st, u)
  BY <1>2, <1>7
<1>. QED BY <1>1, <1>3, <1>4, <1>6, <1>8

(* An activation is seen in the cells below u alone.                       *)
LEMMA ShowSame ==
  ASSUME NEW st \in Seq(Values), NEW t \in Seq(Values), NEW a \in Acts, Placed(a), NEW u \in Nat,
         Floor(a) <= u, Agree(st, t, u)
  PROVE  Show(a, st, u) = Show(a, t, u)
<1>1. CASE a.kind = "new"
  BY <1>1 DEF Show
<1>2. CASE a.kind # "new"
  <2>1. PICK f, h, b, j, n, m, g : /\ f = a.frame /\ h = Held(a) /\ b = a.base /\ j = a.junk
                                   /\ n = f + 2 /\ m = n + h /\ g = b + j
    OBVIOUS
  <2>2. /\ f \in Nat /\ h \in Nat /\ b \in Nat /\ j \in Nat /\ f + 2 + h <= b /\ g <= u
        /\ u \in Nat /\ n = f + 2 /\ m = n + h /\ g = b + j
    BY <1>2, <2>1, PlacedFacts DEF Acts, Floor
  <2>3. f + 2 <= u /\ n \in Nat /\ m \in Nat /\ n <= m /\ m <= u /\ g \in Nat
    BY <2>2
  <2>10. f + 1 \in 1 .. u /\ f + 2 \in 1 .. u
    BY <2>2, <2>3
  <2>4. st[f + 1] = t[f + 1] /\ st[f + 2] = t[f + 2]
    BY <2>10 DEF Agree
  <2>5. SubSeq(st, n + 1, m) = SubSeq(t, n + 1, m)
    <3>1. Agree(st, t, m)
      BY <2>2, <2>3, AgreeLess
    <3>. QED BY <2>3, <3>1, PartSame
  <2>6. SubSeq(st, g + 1, u) = SubSeq(t, g + 1, u)
    BY <2>2, <2>3, PartSame
  <2>7. Ops(a, st, u) = Ops(a, t, u)
    BY <2>1, <2>6 DEF Ops
  <2>11. n + 1 = f + 3
    BY <2>2
  <2>8. SubSeq(st, f + 3, f + 2 + h) = SubSeq(t, f + 3, f + 2 + h)
    BY <2>1, <2>5, <2>11
  <2>. QED BY <1>2, <2>1, <2>4, <2>7, <2>8 DEF Show
<1>. QED BY <1>1, <1>2
(* Activations that differ only in their operands                          *)
Alike(a, b) == a.kind = b.kind /\ a.fn = b.fn /\ a.frame = b.frame /\ a.argc = b.argc

LEMMA ShowPart ==
  ASSUME NEW st \in Seq(Values), NEW t \in Seq(Values), NEW a \in Acts, Placed(a),
         Agree(st, t, Floor(a)), NEW b, Alike(a, b), NEW u, NEW v
  PROVE  Show(b, t, v) = [Show(a, st, u) EXCEPT !.ops = Ops(b, t, v)]
<1>1. CASE a.kind = "new"
  BY <1>1 DEF Show, Ops, Alike
<1>2. CASE a.kind # "new"
  <2>1. PICK m : m = Floor(a)
    OBVIOUS
  <2>2. m \in Nat /\ Floor(a) <= m /\ Agree(st, t, m)
    <3>1. m \in Nat
      BY <2>1, PlacedFacts
    <3>. QED BY <2>1, <3>1
  <2>3. Show(a, st, m) = Show(a, t, m)
    BY <2>2, ShowSame
  <2>4. PICK f, h : f = a.frame /\ h = Held(a)
    OBVIOUS
  <2>5. /\ st[f + 2] = t[f + 2] /\ st[f + 1] = t[f + 1]
        /\ SubSeq(st, f + 3, f + 2 + h) = SubSeq(t, f + 3, f + 2 + h)
    BY <1>2, <2>3, <2>4 DEF Show
  <2>6. b.kind = a.kind /\ b.frame = f /\ Held(b) = h
    BY <2>4 DEF Alike, Held
  <2>7. PICK args, ops, ops2 : /\ args = SubSeq(st, f + 3, f + 2 + h)
                               /\ ops = Ops(a, st, u) /\ ops2 = Ops(b, t, v)
    OBVIOUS
  <2>8. Show(a, st, u) = [kind |-> a.kind, fn |-> st[f + 2], this |-> st[f + 1],
                          args |-> args, ops |-> ops]
    BY <1>2, <2>4, <2>7 DEF Show
  <2>9. Show(b, t, v) = [kind |-> a.kind, fn |-> st[f + 2], this |-> st[f + 1],
                         args |-> args, ops |-> ops2]
    <3>1. Show(b, t, v) = [kind |-> b.kind, fn |-> t[f + 2], this |-> t[f + 1],
                           args |-> SubSeq(t, f + 3, f + 2 + h), ops |-> ops2]
      BY <1>2, <2>6, <2>7 DEF Show
    <3>. QED BY <2>5, <2>6, <2>7, <3>1
  <2>10. PICK r, r2 : r = Show(a, st, u) /\ r2 = Show(b, t, v)
    OBVIOUS
  <2>11. r2 = [r EXCEPT !.ops = ops2]
    BY <2>8, <2>9, <2>10
  <2>. QED BY <2>7, <2>10, <2>11
<1>. QED BY <1>1, <1>2

LEMMA FramesBetween ==
  ASSUME NEW st, NEW ac, Stands(st, ac), NEW i \in 1 .. Len(ac), i # Len(ac)
  PROVE  /\ i + 1 \in 1 .. Len(ac) /\ ac[i + 1].frame \in Nat
         /\ Floor(ac[i]) <= ac[i + 1].frame /\ ac[i + 1].frame <= Floor(ac[i + 1])
         /\ Floor(ac[i + 1]) <= Floor(ac[Len(ac)]) /\ Floor(ac[Len(ac)]) \in Nat
         /\ Floor(ac[i + 1]) \in Nat
<1>1. PICK n, j : n = Len(ac) /\ j = i + 1
  OBVIOUS
<1>2. n \in Nat
  BY <1>1, Lens
<1>3. j \in 1 .. n /\ i < j /\ n \in 1 .. n
  BY <1>1, <1>2
<1>4. Floor(ac[i]) <= ac[j].frame
  BY <1>1, <1>3 DEF Stands
<1>5. ac[j].frame \in Nat /\ ac[j].frame <= Floor(ac[j]) /\ Floor(ac[j]) \in Nat
      /\ Floor(ac[n]) \in Nat
  BY <1>1, <1>3, Placing
<1>6. Floor(ac[j]) <= Floor(ac[n])
  BY <1>1, <1>3, <1>5, Floors
<1>. QED BY <1>1, <1>3, <1>4, <1>5, <1>6

(* The cells the activations on top use do not show in those below.        *)
LEMMA ShowBelow ==
  ASSUME NEW st, NEW ac, Stands(st, ac), NEW t \in Seq(Values), NEW i \in 1 .. Len(ac),
         i # Len(ac), NEW m, m \in Nat, Floor(ac[Len(ac)]) <= m, Agree(st, t, m)
  PROVE  Show(ac[i], st, ac[i + 1].frame) = Show(ac[i], t, ac[i + 1].frame)
<1>1. PICK n, g, f, k, a : /\ n = Len(ac) /\ g = Floor(ac[n]) /\ f = ac[i + 1].frame
                           /\ k = Floor(ac[i + 1]) /\ a = ac[i]
  OBVIOUS
<1>2. f \in Nat /\ Floor(a) <= f /\ f <= k /\ k <= g /\ g <= m /\ g \in Nat /\ k \in Nat
  BY <1>1, FramesBetween
<1>3. f <= m
  BY <1>2
<1>4. st \in Seq(Values) /\ a \in Acts /\ Placed(a)
  BY <1>1, Placing DEF Stands
<1>5. Agree(st, t, f)
  BY <1>2, <1>3, <1>4, AgreeLess
<1>6. Show(a, st, f) = Show(a, t, f)
  BY <1>2, <1>4, <1>5, ShowSame
<1>. QED BY <1>1, <1>6

LEMMA PictureSet ==
  ASSUME NEW st, NEW ac, Stands(st, ac), Len(ac) # 0, NEW t \in Seq(Values),
         Agree(st, t, Floor(ac[Len(ac)])), NEW ac2, Len(ac2) = Len(ac),
         \A i \in 1 .. Len(ac) : i # Len(ac) => ac2[i] = ac[i],
         Alike(ac[Len(ac)], ac2[Len(ac)]), NEW u, NEW v
  PROVE  Picture(t, ac2, v) =
           Abstract!WithOps(Picture(st, ac, u), Ops(ac2[Len(ac)], t, v))
<1>1. PICK n, p, q, a, b, m : /\ n = Len(ac) /\ p = Picture(st, ac, u) /\ q = Picture(t, ac2, v)
                              /\ a = ac[n] /\ b = ac2[n] /\ m = Floor(a)
  OBVIOUS
<1>2. n \in Nat /\ n # 0 /\ n \in 1 .. n /\ st \in Seq(Values) /\ a \in Acts /\ Placed(a)
      /\ m \in Nat
  <2>1. n \in Nat /\ st \in Seq(Values)
    BY <1>1, Lens
  <2>2. n \in 1 .. n
    BY <1>1, <2>1
  <2>3. a \in Acts /\ m \in Nat
    BY <1>1, <2>2, Placing
  <2>4. Placed(a)
    BY <1>1, <2>2 DEF Stands
  <2>. QED BY <1>1, <2>1, <2>2, <2>3, <2>4
<1>3. /\ Listed(p, n) /\ p[n] = Show(a, st, u)
      /\ \A i \in 1 .. n : i # n => p[i] = Show(ac[i], st, ac[i + 1].frame)
  BY <1>1, <1>2, Shape
<1>4. /\ Listed(q, n) /\ q[n] = Show(b, t, v)
      /\ \A i \in 1 .. n : i # n => q[i] = Show(ac2[i], t, ac2[i + 1].frame)
  <2>1. Len(ac2) = n
    BY <1>1
  <2>2. Len(ac2) \in Nat
    BY <1>2, <2>1
  <2>. QED BY <1>1, <1>2, <2>1, <2>2, Shape
<1>5. ASSUME NEW i \in 1 .. n, i # n
      PROVE  q[i] = p[i]
  <2>1. i + 1 \in 1 .. n
    BY <1>2, <1>5
  <2>2. ac2[i] = ac[i] /\ ac2[i + 1].frame = ac[i + 1].frame
    BY <1>1, <1>5, <2>1 DEF Alike
  <2>3. m <= m /\ Floor(ac[Len(ac)]) <= m /\ Agree(st, t, m)
    BY <1>1, <1>2
  <2>4. Show(ac[i], st, ac[i + 1].frame) = Show(ac[i], t, ac[i + 1].frame)
    BY <1>1, <1>2, <1>5, <2>3, ShowBelow
  <2>. QED BY <1>3, <1>4, <1>5, <2>2, <2>4
<1>6. q[n] = [p[n] EXCEPT !.ops = Ops(b, t, v)]
  <2>1. Agree(st, t, Floor(a)) /\ Alike(a, b)
    BY <1>1
  <2>2. Show(b, t, v) = [Show(a, st, u) EXCEPT !.ops = Ops(b, t, v)]
    BY <1>2, <2>1, ShowPart
  <2>. QED BY <1>3, <1>4, <2>2
<1>7. q = Abstract!WithOps(p, Ops(b, t, v))
  BY <1>2, <1>3, <1>4, <1>5, <1>6, ListedChanged
<1>. QED BY <1>1, <1>7

LEMMA PictureKept ==
  ASSUME NEW st, NEW ac, Stands(st, ac), NEW t \in Seq(Values), NEW u, u \in Nat,
         \A i \in 1 .. Len(ac) : Floor(ac[i]) <= u, Agree(st, t, u)
  PROVE  Picture(st, ac, u) = Picture(t, ac, u)
<1>1. PICK n, p, q : n = Len(ac) /\ p = Picture(st, ac, u) /\ q = Picture(t, ac, u)
  OBVIOUS
<1>2. n \in Nat /\ st \in Seq(Values)
  BY <1>1, Lens
<1>3. Listed(p, n) /\ Listed(q, n)
  BY <1>1, <1>2, Shape
<1>4. ASSUME NEW i \in 1 .. n
      PROVE  p[i] = q[i]
  <2>1. n \in 1 .. n /\ n # 0
    BY <1>2
  <2>2. CASE i = n
    <3>1. ac[n] \in Acts /\ Placed(ac[n]) /\ Floor(ac[n]) <= u
      BY <1>1, <2>1, Placing DEF Stands
    <3>2. Show(ac[n], st, u) = Show(ac[n], t, u)
      BY <1>2, <3>1, ShowSame
    <3>. QED BY <1>1, <1>2, <2>1, <2>2, <3>2, Shape
  <2>3. CASE i # n
    <3>1. Floor(ac[Len(ac)]) <= u
      BY <1>1, <2>1
    <3>2. Show(ac[i], st, ac[i + 1].frame) = Show(ac[i], t, ac[i + 1].frame)
      BY <1>1, <2>3, <3>1, ShowBelow
    <3>. QED BY <1>1, <1>2, <2>3, <3>2, Shape
  <2>. QED BY <2>2, <2>3
<1>5. p = q
  BY <1>3, <1>4, ListedEqual
<1>. QED BY <1>1, <1>5

LEMMA PicturePushed ==
  ASSUME NEW ac \in Seq(Acts), NEW a \in Acts, NEW b, Grown(ac, a, b), NEW st, NEW u
  PROVE  Picture(st, b, u) = Append(Picture(st, ac, a.frame), Show(a, st, u))
<1>1. PICK n, p, q : n = Len(ac) /\ p = Picture(st, ac, a.frame) /\ q = Picture(st, b, u)
  OBVIOUS
<1>2. n \in Nat
  BY <1>1, SeqFacts
<1>3. Len(b) = n + 1 /\ b[n + 1] = a /\ \A i \in 1 .. n : b[i] = ac[i]
  BY <1>1, AppendFacts
<1>4. /\ Listed(p, n) /\ \A i \in 1 .. n : i # n => p[i] = Show(ac[i], st, ac[i + 1].frame)
      /\ n # 0 => p[n] = Show(ac[n], st, a.frame)
  BY <1>1, <1>2, Shape
<1>5. /\ Listed(q, n + 1)
      /\ \A i \in 1 .. n + 1 : i # n + 1 => q[i] = Show(b[i], st, b[i + 1].frame)
      /\ q[n + 1] = Show(a, st, u)
  <2>1. PICK k : k = Len(b)
    OBVIOUS
  <2>2. k \in Nat /\ k # 0 /\ k = n + 1
    BY <1>2, <1>3, <2>1
  <2>3. /\ Listed(q, k) /\ q[k] = Show(b[k], st, u)
        /\ \A i \in 1 .. k : i # k => q[i] = Show(b[i], st, b[i + 1].frame)
    <3>1. Len(b) \in Nat
      BY <2>1, <2>2
    <3>2. Listed(Picture(st, b, u), Len(b))
      BY <3>1, Shape
    <3>3. Len(b) # 0 => Picture(st, b, u)[Len(b)] = Show(b[Len(b)], st, u)
      BY <3>1, Shape
    <3>4. \A i \in 1 .. Len(b) : i # Len(b) =>
            Picture(st, b, u)[i] = Show(b[i], st, b[i + 1].frame)
      BY <3>1, Shape
    <3>. QED BY <1>1, <2>1, <2>2, <3>2, <3>3, <3>4
  <2>. QED BY <1>3, <2>2, <2>3
<1>6. ASSUME NEW i \in 1 .. n
      PROVE  q[i] = p[i]
  <2>1. i \in 1 .. n + 1 /\ i # n + 1 /\ (i # n => i + 1 \in 1 .. n) /\ n # 0
    BY <1>2
  <2>2. q[i] = Show(ac[i], st, b[i + 1].frame)
    BY <1>3, <1>5, <2>1
  <2>3. CASE i = n
    BY <1>3, <1>4, <2>1, <2>2, <2>3
  <2>4. CASE i # n
    BY <1>3, <1>4, <2>1, <2>2, <2>4
  <2>. QED BY <2>3, <2>4
<1>7. q = Append(p, q[n + 1])
  BY <1>4, <1>5, <1>6, ListedGrown
<1>. QED BY <1>1, <1>5, <1>7

LEMMA PictureTop ==
  ASSUME NEW st, NEW ac \in Seq(Acts), ac # <<>>, NEW u
  PROVE  /\ Picture(st, ac, u) # <<>>
         /\ Picture(st, ac, u)[Len(Picture(st, ac, u))] = Show(ac[Len(ac)], st, u)
         /\ Len(Picture(st, ac, u)) = Len(ac) /\ Len(ac) \in 1 .. Len(ac) /\ Len(ac) \in Nat
<1>1. PICK n, p : n = Len(ac) /\ p = Picture(st, ac, u)
  OBVIOUS
<1>2. n \in Nat /\ n # 0 /\ n \in 1 .. n
  BY <1>1, SeqFacts
<1>3. Listed(p, n) /\ p[n] = Show(ac[n], st, u)
  BY <1>1, <1>2, Shape
<1>4. PICK S : p \in Seq(S) /\ Len(p) = n
  BY <1>3, ListedSeq
<1>5. p # <<>>
  BY <1>2, <1>4, SeqFacts
<1>. QED BY <1>1, <1>2, <1>3, <1>4, <1>5

LEMMA PicturePopped ==
  ASSUME NEW st, NEW ac \in Seq(Acts), ac # <<>>, NEW u
  PROVE  SubSeq(Picture(st, ac, u), 1, Len(Picture(st, ac, u)) - 1) =
           Picture(st, Cut(ac, Len(ac) - 1), ac[Len(ac)].frame)
<1>1. PICK n, p, c, q, f : /\ n = Len(ac) /\ p = Picture(st, ac, u) /\ c = Cut(ac, n - 1)
                           /\ f = ac[n].frame /\ q = Picture(st, c, f)
  OBVIOUS
<1>2. n \in Nat /\ n # 0 /\ n \in 1 .. n /\ Len(p) = n
  BY <1>1, SeqFacts, PictureTop
<1>3. n - 1 \in Nat /\ n - 1 <= n
  BY <1>2
<1>4. Len(c) = n - 1 /\ \A i \in 1 .. n - 1 : c[i] = ac[i]
  BY <1>1, <1>3, CutFacts
<1>5. /\ Listed(p, n) /\ \A i \in 1 .. n : i # n => p[i] = Show(ac[i], st, ac[i + 1].frame)
  BY <1>1, <1>2, Shape
<1>6. /\ Listed(q, n - 1)
      /\ \A i \in 1 .. n - 1 : i # n - 1 => q[i] = Show(c[i], st, c[i + 1].frame)
      /\ n - 1 # 0 => q[n - 1] = Show(c[n - 1], st, f)
  <2>1. Len(c) \in Nat
    BY <1>3, <1>4
  <2>. QED BY <1>1, <1>4, <2>1, Shape
<1>7. ASSUME NEW i \in 1 .. n - 1
      PROVE  q[i] = p[i]
  <2>1. i \in 1 .. n /\ i # n /\ (i # n - 1 => i + 1 \in 1 .. n - 1) /\ n - 1 # 0
        /\ (i = n - 1 => i + 1 = n)
    BY <1>2
  <2>2. p[i] = Show(ac[i], st, ac[i + 1].frame)
    BY <1>5, <2>1
  <2>3. CASE i = n - 1
    BY <1>1, <1>4, <1>6, <2>1, <2>2, <2>3
  <2>4. CASE i # n - 1
    BY <1>4, <1>6, <2>1, <2>2, <2>4
  <2>. QED BY <2>3, <2>4
<1>8. q = Cut(p, n - 1)
  BY <1>3, <1>5, <1>6, <1>7, ListedCut
<1>. QED BY <1>1, <1>2, <1>8 DEF Cut
-----------------------------------------------------------------------------
(* Parts of the stack                                                      *)
LEMMA PartPart ==
  ASSUME NEW S, NEW s \in Seq(S), NEW k \in Nat, NEW m \in Nat, NEW i \in Nat, NEW j \in Nat,
         k <= m, m <= Len(s), i <= j, k + j <= m
  PROVE  SubSeq(SubSeq(s, k + 1, m), i + 1, j) = SubSeq(s, k + i + 1, k + j)
<1>1. PICK p, q, r, a, b : /\ p = SubSeq(s, k + 1, m) /\ q = SubSeq(p, i + 1, j)
                           /\ a = k + i /\ b = k + j /\ r = SubSeq(s, a + 1, b)
  OBVIOUS
<1>2. p \in Seq(S) /\ Len(p) = m - k /\ \A x \in 1 .. m - k : p[x] = s[k + x]
  BY <1>1, PartFacts
<1>3. /\ a \in Nat /\ b \in Nat /\ a <= b /\ b <= m /\ b - a = j - i /\ j <= m - k
      /\ m - k \in Nat /\ j - i \in Nat /\ Len(s) \in Nat /\ b <= Len(s)
  <2>1. Len(s) \in Nat
    BY SeqFacts
  <2>2. a = k + i /\ b = k + j
    BY <1>1
  <2>3. PICK l : l = Len(s)
    OBVIOUS
  <2>4. b <= l
    BY <2>1, <2>2, <2>3
  <2>. QED BY <2>1, <2>2, <2>3, <2>4
<1>4. q \in Seq(S) /\ Len(q) = j - i /\ \A x \in 1 .. j - i : q[x] = p[i + x]
  <2>1. j <= Len(p)
    BY <1>2, <1>3
  <2>. QED BY <1>1, <1>2, <2>1, PartFacts
<1>5. r \in Seq(S) /\ Len(r) = b - a /\ \A x \in 1 .. b - a : r[x] = s[a + x]
  BY <1>1, <1>3, PartFacts
<1>6. ASSUME NEW x \in 1 .. j - i
      PROVE  q[x] = r[x]
  <2>1. i + x \in 1 .. m - k /\ k + (i + x) = a + x /\ x \in 1 .. b - a
    <3>1. a = k + i
      BY <1>1
    <3>. QED BY <1>3, <3>1
  <2>2. q[x] = s[k + (i + x)]
    BY <1>2, <1>4, <2>1
  <2>. QED BY <1>5, <2>1, <2>2
<1>7. Len(q) = Len(r) /\ \A x \in 1 .. Len(q) : q[x] = r[x]
  BY <1>3, <1>4, <1>5, <1>6
<1>8. q = r
  BY <1>4, <1>5, <1>7, SeqEqual
<1>. QED BY <1>1, <1>8

LEMMA PartGrown ==
  ASSUME NEW S, NEW s \in Seq(S), NEW k \in Nat, NEW m \in Nat, k <= m, m + 1 <= Len(s)
  PROVE  SubSeq(s, k + 1, m + 1) = Append(SubSeq(s, k + 1, m), s[m + 1])
<1>1. PICK p, q, n, e, t : /\ p = SubSeq(s, k + 1, m) /\ n = m + 1 /\ q = SubSeq(s, k + 1, n)
                           /\ e = s[n] /\ Grown(p, e, t)
  BY DEF Grown
<1>2. n \in Nat /\ n = m + 1 /\ k <= n /\ n <= Len(s) /\ m <= Len(s) /\ n \in 1 .. Len(s)
  <2>1. n = m + 1
    BY <1>1
  <2>2. PICK l : l = Len(s) /\ l \in Nat
    BY SeqFacts
  <2>. QED BY <2>1, <2>2
<1>3. p \in Seq(S) /\ Len(p) = m - k /\ \A x \in 1 .. m - k : p[x] = s[k + x]
  BY <1>1, <1>2, PartFacts
<1>4. q \in Seq(S) /\ Len(q) = n - k /\ \A x \in 1 .. n - k : q[x] = s[k + x]
  BY <1>1, <1>2, PartFacts
<1>5. e \in S /\ Grown(p, e, t)
  BY <1>1, <1>2, SeqFacts
<1>6. t \in Seq(S) /\ Len(t) = Len(p) + 1 /\ t[Len(p) + 1] = e /\ \A x \in 1 .. Len(p) : t[x] = p[x]
  BY <1>3, <1>5, AppendFacts
<1>7. ASSUME NEW x \in 1 .. n - k
      PROVE  q[x] = t[x]
  <2>1. x \in 1 .. m - k \/ (x = m - k + 1 /\ k + x = n)
    BY <1>2
  <2>2. CASE x \in 1 .. m - k
    BY <1>3, <1>4, <1>6, <2>2
  <2>3. CASE x = m - k + 1 /\ k + x = n
    BY <1>1, <1>3, <1>4, <1>6, <2>3
  <2>. QED BY <2>1, <2>2, <2>3
<1>8. Len(t) = n - k
  BY <1>2, <1>3, <1>6
<1>9. q = t
  BY <1>4, <1>6, <1>7, <1>8, SeqEqual
<1>. QED BY <1>1, <1>9 DEF Grown

LEMMA NoPart ==
  ASSUME NEW S, NEW s \in Seq(S), NEW k \in Nat, k <= Len(s)
  PROVE  SubSeq(s, k + 1, k) = <<>>
<1>1. PICK p : p = SubSeq(s, k + 1, k)
  OBVIOUS
<1>2. p \in Seq(S) /\ Len(p) = k - k
  <2>1. k <= k
    OBVIOUS
  <2>. QED BY <1>1, <2>1, PartFacts
<1>3. Len(p) = 0
  BY <1>2
<1>4. p = <<>>
  BY <1>2, <1>3, SeqFacts
<1>. QED BY <1>1, <1>4

(* The operands up to cell u.                                              *)
LEMMA OpsFacts ==
  ASSUME NEW st \in Seq(Values), NEW a \in Acts, Placed(a), NEW u \in Nat, Floor(a) <= u,
         u <= Len(st)
  PROVE  /\ a.kind = "ir" => Ops(a, st, u) = SubSeq(st, Floor(a) + 1, u)
         /\ a.kind # "ir" => Ops(a, st, u) = <<>>
         /\ Ops(a, st, Floor(a)) = <<>>
<1>1. PICK g : g = Floor(a)
  OBVIOUS
<1>2. g \in Nat /\ g <= Len(st)
  <2>1. g \in Nat /\ g <= u
    BY <1>1, PlacedFacts
  <2>2. PICK l : l = Len(st) /\ l \in Nat
    BY SeqFacts
  <2>3. g <= l
    BY <2>1, <2>2
  <2>. QED BY <2>1, <2>2, <2>3
<1>3. a.kind = "ir" => \A v : Ops(a, st, v) = SubSeq(st, g + 1, v)
  BY <1>1 DEF Ops, Floor
<1>4. SubSeq(st, g + 1, g) = <<>>
  BY <1>2, NoPart
<1>5. a.kind # "ir" => \A v : Ops(a, st, v) = <<>>
  BY DEF Ops
<1>. QED BY <1>1, <1>3, <1>4, <1>5

-----------------------------------------------------------------------------
(* The state as Calls sees it                                              *)
LEMMA SeenNow ==
  /\ out \in {"run", "panic"} => AbsActs = Picture(stack, acts, Len(stack))
  /\ out = "ok" => AbsActs = Picture(stack, acts, Len(stack) - 1)
  /\ out = "err" /\ acts # <<>> => AbsActs = Picture(stack, acts, Floor(Top))
  /\ out = "run" => AbsOut = Abstract!Run
  /\ out = "ok" => AbsOut = Abstract!Ok(stack[Len(stack)])
  /\ out = "err" => AbsOut = Abstract!Err
BY DEF AbsActs, AbsOut, Edge, Top, Abstract!Run, Abstract!Ok, Abstract!Err

LEMMA SeenNext ==
  ASSUME NEW t, NEW ac, NEW o, stack' = t, acts' = ac, out' = o
  PROVE  /\ o \in {"run", "panic"} => AbsActs' = Picture(t, ac, Len(t))
         /\ o = "ok" => AbsActs' = Picture(t, ac, Len(t) - 1)
         /\ o = "err" /\ ac # <<>> => AbsActs' = Picture(t, ac, Floor(ac[Len(ac)]))
         /\ o = "run" => AbsOut' = Abstract!Run
         /\ o = "panic" => AbsOut' = Abstract!Panic
         /\ o = "ok" => AbsOut' = Abstract!Ok(t[Len(t)])
         /\ o = "err" => AbsOut' = Abstract!Err
BY DEF AbsActs, AbsOut, Edge, Abstract!Run, Abstract!Ok, Abstract!Err, Abstract!Panic

(* A push that does not fit ends the program in either module.             *)
LEMMA Steps ==
  ASSUME IInv, NEW t, NEW ac, NEW o, Becomes(t, ac, o), Len(t) \in Nat,
         out = "run" \/ (out \in {"ok", "err"} /\ Len(t) <= Len(stack))
  PROVE  (stack' = t /\ acts' = ac /\ out' = o) \/ Abstract!Abort
<1>1. CASE Len(t) <= StackSize
  BY <1>1 DEF Becomes
<1>2. CASE ~(Len(t) <= StackSize)
  <2>1. out' = "panic" /\ stack' = stack /\ acts' = acts
    BY <1>2 DEF Becomes
  <2>2. out = "run"
    <3>1. PICK l, m : l = Len(t) /\ m = Len(stack)
      OBVIOUS
    <3>2. l \in Nat /\ m \in Nat /\ StackSize \in Nat /\ ~(l <= StackSize)
      BY <1>2, <3>1, Lens, CellsAssumption DEF IInv
    <3>3. out \in {"ok", "err"} => m <= StackSize /\ l <= m
      BY <3>1 DEF IInv
    <3>. QED BY <3>2, <3>3
  <2>3. AbsActs' = AbsActs
    BY <2>1, <2>2 DEF AbsActs, Edge
  <2>4. AbsOut = Abstract!Run /\ AbsOut' = Abstract!Panic
    BY <2>1, <2>2 DEF AbsOut, Abstract!Run, Abstract!Panic
  <2>. QED BY <2>3, <2>4 DEF Abstract!Abort
<1>. QED BY <1>1, <1>2

LEMMA RunSteps ==
  ASSUME IInv, out = "run", NEW t, NEW ac, NEW o, Becomes(t, ac, o), Len(t) \in Nat
  PROVE  (stack' = t /\ acts' = ac /\ out' = o) \/ Abstract!Abort
<1>1. out = "run" \/ (out \in {"ok", "err"} /\ Len(t) <= Len(stack))
  OBVIOUS
<1>. QED BY <1>1, Steps

(* What Calls sees of the activation on top.                               *)
LEMMA TopSeen ==
  ASSUME IInv, acts # <<>>
  PROVE  /\ AbsActs # <<>> /\ Abstract!Top.kind = Top.kind
         /\ Top.kind # "new" => /\ Abstract!Top.fn = Top.fn
                                /\ Abstract!Top.args = SubSeq(stack, Top.frame + 3, Top.frame + 2 + Held(Top))
         /\ Abstract!Top.ops = Ops(Top, stack, Edge(stack, acts, out))
         /\ Len(AbsActs) = Len(acts)
<1>1. PICK u : u = Edge(stack, acts, out)
  OBVIOUS
<1>2. acts \in Seq(Acts) /\ Top = acts[Len(acts)] /\ (Top.kind # "new" => stack[Top.frame + 2] = Top.fn)
  BY TopFacts
<1>3. AbsActs = Picture(stack, acts, u)
  BY <1>1 DEF AbsActs
<1>4. AbsActs # <<>> /\ AbsActs[Len(AbsActs)] = Show(Top, stack, u) /\ Len(AbsActs) = Len(acts)
  BY <1>2, <1>3, PictureTop
<1>5. Abstract!Top = Show(Top, stack, u)
  BY <1>4 DEF Abstract!Top
<1>. QED BY <1>1, <1>2, <1>4, <1>5 DEF Show, Ops

(* Only the operands of the activation on top change.                      *)
LEMMA TopChanged ==
  ASSUME IInv, acts # <<>>, NEW t \in Seq(Values), Agree(stack, t, Floor(Top)), NEW v
  PROVE  Picture(t, acts, v) = Abstract!WithOps(AbsActs, Ops(Top, t, v))
<1>1. PICK u : u = Edge(stack, acts, out)
  OBVIOUS
<1>2. Len(acts) # 0 /\ Top = acts[Len(acts)] /\ Stands(stack, acts)
  BY TopFacts DEF IInv
<1>3. Alike(acts[Len(acts)], acts[Len(acts)])
  BY DEF Alike
<1>4. Picture(t, acts, v) = Abstract!WithOps(Picture(stack, acts, u), Ops(acts[Len(acts)], t, v))
  BY <1>2, <1>3, PictureSet
<1>. QED BY <1>1, <1>2, <1>4 DEF AbsActs
-----------------------------------------------------------------------------
(* Every step is one of Calls.                                             *)
LEMMA CodeSeen ==
  ASSUME IInv, out = "run", acts # <<>>, Top.kind = "ir"
  PROVE  /\ Abstract!InCode /\ Abstract!Top.ops = SubSeq(stack, Floor(Top) + 1, Len(stack))
         /\ Abstract!Top.ops \in Seq(Values) /\ Len(Abstract!Top.ops) = Operands
         /\ Operands = Len(stack) - Floor(Top) /\ Operands \in Nat
         /\ Floor(Top) \in Nat /\ Len(stack) \in Nat /\ Floor(Top) <= Len(stack)
<1>1. PICK l, g, b, j, p : /\ l = Len(stack) /\ g = Floor(Top) /\ b = Top.base /\ j = Top.junk
                           /\ p = SubSeq(stack, g + 1, l)
  OBVIOUS
<1>2. /\ l \in Nat /\ g \in Nat /\ g <= l /\ b \in Nat /\ j \in Nat /\ g = b + j
      /\ stack \in Seq(Values) /\ Top \in Acts /\ Placed(Top) /\ l <= l
  BY <1>1, TopFacts
<1>3. Ops(Top, stack, l) = p
  BY <1>1, <1>2, OpsFacts
<1>4. Edge(stack, acts, out) = l
  BY <1>1 DEF Edge
<1>5. AbsActs # <<>> /\ Abstract!Top.kind = "ir" /\ Abstract!Top.ops = p
  BY <1>3, <1>4, TopSeen
<1>6. Abstract!InCode
  BY <1>5, SeenNow DEF Abstract!InCode
<1>7. p \in Seq(Values) /\ Len(p) = l - g
  BY <1>1, <1>2, PartFacts
<1>8. Operands = l - b - j
  BY <1>1 DEF Operands
<1>9. Operands = l - g /\ Operands \in Nat
  BY <1>2, <1>8
<1>. QED BY <1>1, <1>2, <1>5, <1>6, <1>7, <1>9

LEMMA LoadSeen == ASSUME IInv, Load PROVE Abstract!Load \/ Abstract!Abort
<1>1. out = "run" /\ acts # <<>> /\ Top.kind = "ir"
  BY DEF Load, InCode
<1>2. PICK v, t : v \in Loads /\ Grown(stack, v, t) /\ Becomes(t, acts, "run")
  BY DEF Load, Grown
<1>3. v \in Values
  BY <1>2, SameAssumption DEF Abstract!FunctionsAssumption, Values, Abstract!Values
<1>4. PICK l, g, n : l = Len(stack) /\ g = Floor(Top) /\ n = l + 1
  OBVIOUS
<1>5. /\ l \in Nat /\ g \in Nat /\ g <= l /\ n = l + 1 /\ stack \in Seq(Values) /\ Top \in Acts
      /\ Placed(Top)
  BY <1>1, <1>4, TopFacts
<1>6. t \in Seq(Values) /\ Len(t) = n /\ t[n] = v /\ Agree(stack, t, l) /\ Agree(stack, t, g)
  <2>1. t \in Seq(Values) /\ Len(t) = l + 1 /\ t[l + 1] = v /\ Agree(stack, t, l)
    BY <1>2, <1>3, <1>4, <1>5, AppendFacts
  <2>2. Agree(stack, t, g)
    BY <1>5, <2>1, AgreeLess
  <2>. QED BY <1>5, <2>1, <2>2
<1>7. (stack' = t /\ acts' = acts /\ out' = "run") \/ Abstract!Abort
  <2>1. Len(t) \in Nat
    BY <1>5, <1>6
  <2>2. out = "run" /\ Becomes(t, acts, "run")
    BY <1>1, <1>2
  <2>. QED BY <2>1, <2>2, RunSteps
<1>. SUFFICES ASSUME stack' = t, acts' = acts, out' = "run"
              PROVE  Abstract!Load
  BY <1>7
<1>8. AbsActs' = Picture(t, acts, n) /\ AbsOut' = Abstract!Run
  BY <1>6, SeenNext
<1>9. Picture(t, acts, n) = Abstract!WithOps(AbsActs, Ops(Top, t, n))
  BY <1>1, <1>4, <1>6, TopChanged
<1>10. Ops(Top, t, n) = Append(SubSeq(stack, g + 1, l), v)
  <2>1. g <= n /\ n \in Nat /\ n <= Len(t)
    BY <1>5, <1>6
  <2>2. Ops(Top, t, n) = SubSeq(t, g + 1, n)
    BY <1>1, <1>4, <1>5, <1>6, <2>1, OpsFacts
  <2>3. SubSeq(t, g + 1, l + 1) = Append(SubSeq(t, g + 1, l), t[l + 1])
    <3>1. l + 1 <= Len(t)
      BY <1>5, <1>6
    <3>. QED BY <1>5, <1>6, <3>1, PartGrown
  <2>4. SubSeq(stack, g + 1, l) = SubSeq(t, g + 1, l)
    BY <1>5, <1>6, PartSame
  <2>. QED BY <1>4, <1>6, <2>2, <2>3, <2>4
<1>11. Abstract!InCode /\ Abstract!Top.ops = SubSeq(stack, g + 1, l)
  BY <1>1, <1>4, CodeSeen
<1>12. AbsActs' = Abstract!WithOps(AbsActs, Append(Abstract!Top.ops, v))
  BY <1>8, <1>9, <1>10, <1>11
<1>. QED BY <1>2, <1>8, <1>11, <1>12 DEF Abstract!Load

LEMMA DropSeen == ASSUME IInv, Drop PROVE Abstract!Drop \/ Abstract!Abort
<1>1. out = "run" /\ acts # <<>> /\ Top.kind = "ir" /\ Operands >= 1
  BY DEF Drop, InCode
<1>2. PICK l, g, m, t, z, p, j : /\ l = Len(stack) /\ g = Floor(Top) /\ m = l - 1 /\ t = Cut(stack, m)
                           /\ z = 0 /\ p = SubSeq(stack, g + 1, l) /\ j = m - g
  OBVIOUS
<1>3. /\ l \in Nat /\ g \in Nat /\ Operands = l - g /\ stack \in Seq(Values) /\ Top \in Acts
      /\ Placed(Top) /\ Abstract!InCode /\ Abstract!Top.ops = p /\ p \in Seq(Values)
      /\ Len(p) = Operands
  BY <1>1, <1>2, CodeSeen, TopFacts
<1>4. /\ m \in Nat /\ g <= m /\ m <= l /\ g <= l /\ z \in Nat /\ j \in Nat /\ z <= j /\ g + j = m
      /\ j = l - g - 1 /\ g + z + 1 = g + 1 /\ z + 1 = 1 /\ g + j <= l /\ l <= l
  <2>1. m = l - 1 /\ j = m - g /\ z = 0 /\ l - g >= 1
    BY <1>1, <1>2, <1>3
  <2>. QED BY <1>3, <2>1
<1>5. t \in Seq(Values) /\ Len(t) = m /\ Agree(stack, t, m) /\ Agree(stack, t, g)
  BY <1>1, <1>2, <1>3, <1>4, CutsFacts
<1>6. Becomes(t, acts, "run")
  BY <1>2 DEF Drop
<1>7. (stack' = t /\ acts' = acts /\ out' = "run") \/ Abstract!Abort
  <2>1. Len(t) \in Nat /\ out = "run"
    BY <1>1, <1>4, <1>5
  <2>. QED BY <1>6, <2>1, RunSteps
<1>. SUFFICES ASSUME stack' = t, acts' = acts, out' = "run"
              PROVE  Abstract!Drop
  BY <1>7
<1>8. AbsActs' = Picture(t, acts, m) /\ AbsOut' = Abstract!Run /\ AbsOut = Abstract!Run
  BY <1>1, <1>5, SeenNext, SeenNow
<1>9. Picture(t, acts, m) = Abstract!WithOps(AbsActs, Ops(Top, t, m))
  BY <1>1, <1>2, <1>5, TopChanged
<1>10. Ops(Top, t, m) = SubSeq(p, 1, Len(p) - 1)
  <2>1. m <= Len(t)
    BY <1>4, <1>5
  <2>2. Ops(Top, t, m) = SubSeq(t, g + 1, m)
    BY <1>1, <1>2, <1>3, <1>4, <1>5, <2>1, OpsFacts
  <2>3. SubSeq(stack, g + 1, m) = SubSeq(t, g + 1, m)
    <3>1. stack \in Seq(Values) /\ g \in Nat /\ m \in Nat /\ g <= m
      BY <1>3, <1>4
    <3>. QED BY <1>5, <3>1, PartSame
  <2>4. SubSeq(SubSeq(stack, g + 1, l), z + 1, j) = SubSeq(stack, g + z + 1, g + j)
    <3>1. /\ stack \in Seq(Values) /\ g \in Nat /\ l \in Nat /\ z \in Nat /\ j \in Nat
          /\ g <= l /\ l <= Len(stack) /\ z <= j /\ g + j <= l
      BY <1>2, <1>3, <1>4
    <3>. QED BY <3>1, PartPart
  <2>5. Len(p) - 1 = j
    BY <1>3, <1>4
  <2>. QED BY <1>2, <1>4, <2>2, <2>3, <2>4, <2>5
<1>11. p # <<>>
  <2>1. Len(p) # 0
    BY <1>1, <1>3
  <2>. QED BY <1>3, <2>1, SeqFacts
<1>12. AbsActs' = Abstract!WithOps(AbsActs, SubSeq(Abstract!Top.ops, 1, Len(Abstract!Top.ops) - 1))
  BY <1>3, <1>8, <1>9, <1>10
<1>. QED BY <1>3, <1>8, <1>11, <1>12 DEF Abstract!Drop

(* The operands exchanged                                                  *)
LEMMA SwapSeen == ASSUME IInv, Swap PROVE Abstract!Swap \/ Abstract!Abort
<1>1. out = "run" /\ acts # <<>> /\ Top.kind = "ir" /\ Operands >= 2
  BY DEF Swap, InCode
<1>2. PICK l, t, g, p, q : /\ l = Len(stack) /\ Swapped(l, t) /\ g = Floor(Top)
                           /\ p = SubSeq(stack, g + 1, l) /\ q = SubSeq(t, g + 1, l)
  BY DEF Swapped
<1>3. /\ t \in Seq(Values) /\ Len(t) = l /\ Agree(stack, t, l - 2)
      /\ t[l] = stack[l - 1] /\ t[l - 1] = stack[l]
      /\ g \in Nat /\ g <= l - 2 /\ l \in Nat
  BY <1>1, <1>2, SwapFacts
<1>4. /\ stack \in Seq(Values) /\ Top \in Acts /\ Placed(Top) /\ Abstract!InCode
      /\ Abstract!Top.ops = p /\ p \in Seq(Values) /\ Len(p) = Operands /\ Operands = l - g
  BY <1>1, <1>2, CodeSeen, TopFacts
<1>5. Becomes(t, acts, "run")
  BY <1>2 DEF Swap, Swapped
<1>6. (stack' = t /\ acts' = acts /\ out' = "run") \/ Abstract!Abort
  <2>1. Len(t) \in Nat /\ out = "run"
    BY <1>1, <1>3
  <2>. QED BY <1>5, <2>1, RunSteps
<1>. SUFFICES ASSUME stack' = t, acts' = acts, out' = "run"
              PROVE  Abstract!Swap
  BY <1>6
<1>7. AbsActs' = Picture(t, acts, l) /\ AbsOut' = Abstract!Run /\ AbsOut = Abstract!Run
  BY <1>1, <1>3, SeenNext, SeenNow
<1>8. g <= l /\ l <= l /\ Agree(stack, t, g)
  <2>1. l - 2 \in Nat /\ g <= l
    BY <1>3
  <2>2. Agree(stack, t, g)
    BY <1>3, <1>4, <2>1, AgreeLess
  <2>. QED BY <1>3, <2>1, <2>2
<1>9. Picture(t, acts, l) = Abstract!WithOps(AbsActs, q)
  <2>1. Picture(t, acts, l) = Abstract!WithOps(AbsActs, Ops(Top, t, l))
    BY <1>1, <1>2, <1>3, <1>8, TopChanged
  <2>2. Ops(Top, t, l) = q
    BY <1>1, <1>2, <1>3, <1>4, <1>8, OpsFacts
  <2>. QED BY <2>1, <2>2
<1>10. PICK n, r : n = l - g /\ r = [p EXCEPT ![n] = p[n - 1], ![n - 1] = p[n]]
  OBVIOUS
<1>11. n \in Nat /\ n >= 2 /\ g + n = l /\ g + (n - 1) = l - 1 /\ n = l - g
  BY <1>3, <1>10
<1>12. Len(p) = n /\ \A x \in 1 .. n : p[x] = stack[g + x]
  <2>1. stack \in Seq(Values) /\ g \in Nat /\ l \in Nat /\ g <= l /\ l <= Len(stack)
    BY <1>2, <1>3, <1>4, <1>8
  <2>2. Len(p) = l - g /\ \A x \in 1 .. l - g : p[x] = stack[g + x]
    BY <1>2, <2>1, PartFacts
  <2>. QED BY <1>11, <2>2
<1>13. q \in Seq(Values) /\ Len(q) = n /\ \A x \in 1 .. n : q[x] = t[g + x]
  <2>1. t \in Seq(Values) /\ g \in Nat /\ l \in Nat /\ g <= l /\ l <= Len(t)
    BY <1>3, <1>8
  <2>2. q \in Seq(Values) /\ Len(q) = l - g /\ \A x \in 1 .. l - g : q[x] = t[g + x]
    BY <1>2, <2>1, PartFacts
  <2>. QED BY <1>11, <2>2
<1>14. r = [x \in 1 .. n |-> IF x = n - 1 THEN p[n] ELSE IF x = n THEN p[n - 1] ELSE p[x]]
  <2>1. DOMAIN p = 1 .. n /\ n \in 1 .. n /\ n - 1 \in 1 .. n /\ n # n - 1
    <3>1. DOMAIN p = 1 .. n
      BY <1>4, <1>12, SeqFacts
    <3>. QED BY <1>11, <3>1
  <2>2. p = [x \in 1 .. n |-> p[x]]
    <3>1. p \in [1 .. n -> Values]
      BY <1>4, <1>12, LenProperties
    <3>. QED BY <3>1
  <2>. QED BY <1>10, <2>1, <2>2
<1>15. q = [x \in 1 .. n |-> q[x]]
  <2>1. q \in [1 .. n -> Values]
    BY <1>13, LenProperties
  <2>. QED BY <2>1
<1>16. ASSUME NEW x \in 1 .. n
       PROVE  q[x] = IF x = n - 1 THEN p[n] ELSE IF x = n THEN p[n - 1] ELSE p[x]
  <2>1. q[x] = t[g + x]
    BY <1>13
  <2>2. CASE x = n
    <3>1. p[n - 1] = stack[l - 1] /\ n # n - 1
      <4>1. n - 1 \in 1 .. n
        BY <1>11
      <4>. QED BY <1>11, <1>12, <4>1
    <3>. QED BY <1>3, <1>11, <2>1, <2>2, <3>1
  <2>3. CASE x = n - 1
    <3>1. p[n] = stack[l]
      <4>1. n \in 1 .. n
        BY <1>11
      <4>. QED BY <1>11, <1>12, <4>1
    <3>. QED BY <1>3, <1>11, <2>1, <2>3, <3>1
  <2>4. CASE x # n /\ x # n - 1
    <3>1. g + x \in 1 .. l - 2
      BY <1>3, <1>11, <2>4
    <3>2. t[g + x] = stack[g + x]
      BY <1>3, <3>1 DEF Agree
    <3>. QED BY <1>12, <2>1, <2>4, <3>2
  <2>. QED BY <2>2, <2>3, <2>4
<1>17. q = r
  BY <1>14, <1>15, <1>16
<1>18. Abstract!Top.ops = p /\ Len(Abstract!Top.ops) = n
  BY <1>4, <1>12
<1>19. AbsActs' = Abstract!WithOps(AbsActs,
         [Abstract!Top.ops EXCEPT ![n] = Abstract!Top.ops[n - 1], ![n - 1] = Abstract!Top.ops[n]])
  BY <1>7, <1>9, <1>10, <1>17, <1>18
<1>. QED BY <1>4, <1>7, <1>11, <1>18, <1>19 DEF Abstract!Swap
(* An activation ends with a result.                                       *)
LEMMA EndedSeen ==
  ASSUME IInv, acts # <<>>, NEW t \in Seq(Values), Agree(stack, t, Top.frame),
         Len(t) = Top.frame + 1, stack' = t, acts' = Below, out' = "ok"
  PROVE  Abstract!Ended(t[Len(t)])
<1>1. PICK f, u, n, ac : f = Top.frame /\ u = Edge(stack, acts, out) /\ n = Len(acts) /\ ac = Below
  OBVIOUS
<1>2. acts \in Seq(Acts) /\ Top = acts[n] /\ f \in Nat /\ Stands(stack, acts)
  BY <1>1, TopFacts DEF IInv
<1>3. Len(t) - 1 = f
  BY <1>1, <1>2
<1>4. AbsActs' = Picture(t, ac, f) /\ AbsOut' = Abstract!Ok(t[Len(t)])
  <2>1. acts' = ac
    BY <1>1
  <2>. QED BY <1>3, <2>1, SeenNext
<1>5. Stands(stack, ac) /\ \A i \in 1 .. Len(ac) : Floor(ac[i]) <= f
  BY <1>1, <1>2, StandsPopped DEF Below
<1>6. Picture(stack, ac, f) = Picture(t, ac, f)
  <2>1. Agree(stack, t, f)
    BY <1>1
  <2>. QED BY <1>2, <1>5, <2>1, PictureKept
<1>7. SubSeq(Picture(stack, acts, u), 1, Len(Picture(stack, acts, u)) - 1) = Picture(stack, ac, f)
  <2>1. SubSeq(Picture(stack, acts, u), 1, Len(Picture(stack, acts, u)) - 1) =
          Picture(stack, Cut(acts, Len(acts) - 1), acts[Len(acts)].frame)
    BY <1>2, PicturePopped
  <2>. QED BY <1>1, <1>2, <2>1 DEF Below
<1>8. Abstract!Below = Picture(stack, ac, f)
  BY <1>1, <1>7 DEF Abstract!Below, AbsActs
<1>. QED BY <1>4, <1>6, <1>8 DEF Abstract!Ended

LEMMA ResultSeen ==
  ASSUME IInv, acts # <<>>, NEW v \in Values, NEW t, Grown(Cut(stack, Top.frame), v, t),
         stack' = t, acts' = Below, out' = "ok"
  PROVE  Abstract!Ended(v)
<1>1. /\ t \in Seq(Values) /\ Len(t) = Top.frame + 1 /\ t[Top.frame + 1] = v
      /\ Agree(stack, t, Top.frame)
  BY ResultFacts
<1>2. Abstract!Ended(t[Len(t)])
  BY <1>1, EndedSeen
<1>. QED BY <1>1, <1>2

LEMMA ResultFits ==
  ASSUME IInv, acts # <<>>, NEW v \in Values, NEW t, Grown(Cut(stack, Top.frame), v, t)
  PROVE  Len(t) \in Nat /\ (out = "ok" => Len(t) <= Len(stack))
<1>1. PICK f, l : f = Top.frame /\ l = Len(stack)
  OBVIOUS
<1>2. Len(t) = f + 1 /\ f \in Nat /\ l \in Nat
  BY <1>1, ResultFacts, TopFacts
<1>3. out = "ok" => f < l
  BY <1>1, ResultThere
<1>4. f + 1 \in Nat /\ (out = "ok" => f + 1 <= l)
  BY <1>2, <1>3
<1>. QED BY <1>1, <1>2, <1>4

LEMMA ReturnOpSeen == ASSUME IInv, ReturnOp PROVE Abstract!ReturnOp \/ Abstract!Abort
<1>1. acts # <<>> /\ Top.kind = "ir" /\ Operands >= 1 /\ out = "run"
  BY DEF ReturnOp, InCode
<1>2. PICK l, g, p, n, t : /\ l = Len(stack) /\ g = Floor(Top) /\ p = SubSeq(stack, g + 1, l)
                           /\ n = l - g /\ Grown(Cut(stack, Top.frame), stack[l], t)
  BY DEF Grown
<1>3. /\ Abstract!InCode /\ Abstract!Top.ops = p /\ p \in Seq(Values) /\ Len(p) = n /\ n >= 1
      /\ l \in Nat /\ g \in Nat /\ g <= l /\ stack \in Seq(Values)
  BY <1>1, <1>2, CodeSeen, TopFacts
<1>4. n = l - g /\ n \in Nat /\ n \in 1 .. l - g /\ g + n = l /\ l \in 1 .. l /\ n # 0 /\ l <= l
  <2>1. n = l - g
    BY <1>2
  <2>. QED BY <1>3, <2>1
<1>5. p[n] = stack[l]
  <2>1. l <= Len(stack)
    BY <1>2, <1>4
  <2>2. \A x \in 1 .. l - g : p[x] = stack[g + x]
    BY <1>2, <1>3, <2>1, PartFacts
  <2>3. p[n] = stack[g + n]
    BY <1>4, <2>2
  <2>. QED BY <1>4, <2>3
<1>6. stack[l] \in Values
  BY <1>2, <1>3, <1>4, SeqFacts
<1>7. Becomes(t, Below, "ok")
  BY <1>2 DEF ReturnOp, Grown
<1>8. (stack' = t /\ acts' = Below /\ out' = "ok") \/ Abstract!Abort
  <2>1. Len(t) \in Nat
    BY <1>1, <1>2, <1>6, ResultFits
  <2>. QED BY <1>1, <1>7, <2>1, RunSteps
<1>. SUFFICES ASSUME stack' = t, acts' = Below, out' = "ok"
              PROVE  Abstract!ReturnOp
  BY <1>8
<1>9. Abstract!Ended(stack[l])
  BY <1>1, <1>2, <1>6, ResultSeen
<1>10. p # <<>>
  <2>1. Len(p) # 0
    BY <1>3, <1>4
  <2>. QED BY <1>3, <2>1, SeqFacts
<1>11. Abstract!Ended(Abstract!Top.ops[Len(Abstract!Top.ops)])
  BY <1>3, <1>5, <1>9
<1>. QED BY <1>3, <1>10, <1>11 DEF Abstract!ReturnOp

LEMMA NativeReturnsSeen ==
  ASSUME IInv, NativeReturns PROVE Abstract!NativeReturns \/ Abstract!Abort
<1>1. PICK v, t : /\ v \in Loads
                  /\ Grown(Cut(stack, Top.frame), v, t) /\ Becomes(t, Below, "ok")
  BY DEF NativeReturns, Grown
<1>2. v \in Values /\ acts # <<>> /\ out = "run" /\ Top.kind = "native"
  BY <1>1, SameAssumption
     DEF NativeReturns, Waiting, Abstract!FunctionsAssumption, Values, Abstract!Values
<1>3. (stack' = t /\ acts' = Below /\ out' = "ok") \/ Abstract!Abort
  <2>1. Len(t) \in Nat
    BY <1>1, <1>2, ResultFits
  <2>. QED BY <1>1, <1>2, <2>1, RunSteps
<1>. SUFFICES ASSUME stack' = t, acts' = Below, out' = "ok"
              PROVE  Abstract!NativeReturns
  BY <1>3
<1>4. Abstract!Ended(v)
  BY <1>1, <1>2, ResultSeen
<1>5. AbsActs # <<>> /\ Abstract!Top.kind = "native" /\ AbsOut = Abstract!Run
  BY <1>2, TopSeen, SeenNow
<1>. QED BY <1>1, <1>4, <1>5 DEF Abstract!NativeReturns

-----------------------------------------------------------------------------
(* A result arrives.                                                       *)
LEMMA ArrivalSeen ==
  ASSUME IInv, out = "ok", acts # <<>>
  PROVE  /\ AbsOut.is = "ok" /\ AbsOut.val = stack[Len(stack)] /\ AbsActs # <<>>
         /\ Abstract!Top.kind = Top.kind
BY SeenNow, TopSeen DEF Abstract!Ok

LEMMA BoundNewResumesSeen == ASSUME IInv, BoundNewResumes PROVE Abstract!Result
<1>1. acts # <<>> /\ out = "ok" /\ Top.kind = "boundnew"
  BY DEF BoundNewResumes, Resumes
<1>2. PICK v, t : v = stack[Len(stack)] /\ Grown(Cut(stack, Top.frame), v, t)
  BY DEF Grown
<1>3. v \in Values
  BY <1>1, <1>2, ResultThere
<1>4. Becomes(t, Below, "ok")
  BY <1>2 DEF BoundNewResumes, Grown
<1>5. Len(t) \in Nat /\ Len(t) <= Len(stack)
  BY <1>1, <1>2, <1>3, ResultFits
<1>6. (stack' = t /\ acts' = Below /\ out' = "ok") \/ Abstract!Abort
  BY <1>1, <1>4, <1>5, Steps
<1>7. ~Abstract!Abort
  BY <1>1, SeenNow DEF Abstract!Abort, Abstract!Run, Abstract!Ok
<1>8. Abstract!Ended(v)
  BY <1>1, <1>2, <1>3, <1>6, <1>7, ResultSeen
<1>. QED BY <1>1, <1>2, <1>8, ArrivalSeen DEF Abstract!Result

LEMMA NewResumesSeen == ASSUME IInv, NewResumes PROVE Abstract!Result
<1>1. acts # <<>> /\ Top.kind = "new" /\ out = "ok"
  BY DEF NewResumes, Resumes
<1>2. PICK l, v, t :
        /\ l = Len(stack) /\ v = IF stack[l] = Undefined THEN Fresh ELSE stack[l]
        /\ Changed(stack, l, v, t) /\ Becomes(t, Below, "ok")
  BY DEF NewResumes, Changed
<1>3. /\ l \in Nat /\ l \in 1 .. Len(stack) /\ stack[l] \in Values /\ stack \in Seq(Values)
  BY <1>1, <1>2, ResultThere
<1>4. Len(stack) = Top.frame + 1
  BY <1>1 DEF IInv, Topped, Top
<1>5. v \in Values
  BY <1>2, <1>3 DEF Values
<1>6. t \in Seq(Values) /\ Len(t) = Len(stack) /\ Agree(stack, t, l - 1) /\ t[l] = v
  BY <1>2, <1>3, <1>5, ChangeFacts
<1>7. Agree(stack, t, Top.frame)
  <2>1. Top.frame = l - 1
    <3>1. PICK f : f = Top.frame
      OBVIOUS
    <3>2. f \in Nat
      BY <1>1, <3>1, TopFacts
    <3>. QED BY <1>2, <1>4, <3>1, <3>2
  <2>. QED BY <1>6, <2>1
<1>8. stack' = t /\ acts' = Below /\ out' = "ok"
  <2>1. Len(t) \in Nat /\ out \in {"ok", "err"} /\ Len(t) <= Len(stack)
    BY <1>1, <1>2, <1>3, <1>6
  <2>2. (stack' = t /\ acts' = Below /\ out' = "ok") \/ Abstract!Abort
    BY <1>2, <2>1, Steps
  <2>3. ~Abstract!Abort
    BY <1>1, SeenNow DEF Abstract!Abort, Abstract!Run, Abstract!Ok
  <2>. QED BY <2>2, <2>3
<1>9. Abstract!Ended(v)
  <2>1. Len(t) = Top.frame + 1
    BY <1>4, <1>6
  <2>2. Abstract!Ended(t[Len(t)])
    BY <1>1, <1>6, <1>7, <1>8, <2>1, EndedSeen
  <2>. QED BY <1>2, <1>6, <2>2
<1>10. v = IF Abstract!IsObject(AbsOut.val) THEN AbsOut.val ELSE Fresh
  BY <1>1, <1>2, ArrivalSeen DEF Abstract!IsObject
<1>. QED BY <1>1, <1>9, <1>10, ArrivalSeen DEF Abstract!Result

LEMMA CodeResumesSeen == ASSUME IInv, CodeResumes PROVE Abstract!Result
<1>1. acts # <<>> /\ Top.kind = "ir" /\ out = "ok" /\ Becomes(stack, acts, "run")
  BY DEF CodeResumes, Resumes
<1>2. PICK l, m, g : l = Len(stack) /\ m = l - 1 /\ g = Floor(Top)
  OBVIOUS
<1>3. /\ l \in Nat /\ m \in Nat /\ g \in Nat /\ g <= m /\ m <= l /\ stack \in Seq(Values)
      /\ Top \in Acts /\ Placed(Top) /\ Agree(stack, stack, Floor(Top))
  BY <1>1, <1>2, ResultThere, TopFacts, SameStack
<1>4. g <= l /\ l <= l /\ m + 1 = l
  <2>1. m = l - 1
    BY <1>2
  <2>. QED BY <1>3, <2>1
<1>5. stack' = stack /\ acts' = acts /\ out' = "run"
  <2>1. Len(stack) \in Nat /\ out \in {"ok", "err"} /\ Len(stack) <= Len(stack)
    BY <1>1, <1>2, <1>3, <1>4
  <2>2. (stack' = stack /\ acts' = acts /\ out' = "run") \/ Abstract!Abort
    BY <1>1, <2>1, Steps
  <2>3. ~Abstract!Abort
    BY <1>1, SeenNow DEF Abstract!Abort, Abstract!Run, Abstract!Ok
  <2>. QED BY <2>2, <2>3
<1>6. AbsActs' = Picture(stack, acts, l) /\ AbsOut' = Abstract!Run
  BY <1>2, <1>5, SeenNext
<1>7. Picture(stack, acts, l) = Abstract!WithOps(AbsActs, Ops(Top, stack, l))
  BY <1>1, <1>3, TopChanged
<1>8. Ops(Top, stack, l) = SubSeq(stack, g + 1, l) /\ Ops(Top, stack, m) = SubSeq(stack, g + 1, m)
  BY <1>1, <1>2, <1>3, <1>4, OpsFacts
<1>9. Abstract!Top.ops = Ops(Top, stack, m)
  <2>1. Edge(stack, acts, out) = m
    BY <1>1, <1>2 DEF Edge
  <2>. QED BY <1>1, <2>1, TopSeen
<1>10. SubSeq(stack, g + 1, m + 1) = Append(SubSeq(stack, g + 1, m), stack[m + 1])
  <2>1. m + 1 <= Len(stack)
    BY <1>2, <1>4
  <2>. QED BY <1>3, <2>1, PartGrown
<1>11. Ops(Top, stack, l) = Append(Abstract!Top.ops, AbsOut.val)
  <2>1. AbsOut.val = stack[l]
    BY <1>1, <1>2, ArrivalSeen
  <2>. QED BY <1>4, <1>8, <1>9, <1>10, <2>1
<1>12. AbsActs' = Abstract!WithOps(AbsActs, Append(Abstract!Top.ops, AbsOut.val))
  BY <1>6, <1>7, <1>11
<1>. QED BY <1>1, <1>6, <1>12, ArrivalSeen DEF Abstract!Result

LEMMA NativeResumesSeen == ASSUME IInv, NativeResumes PROVE Abstract!Result
<1>1. /\ acts # <<>> /\ Top.kind = "native" /\ out = "ok"
      /\ Becomes(Cut(stack, Len(stack) - 1), acts, "run")
  BY DEF NativeResumes, Resumes
<1>2. PICK m, t : m = Len(stack) - 1 /\ t = Cut(stack, m)
  OBVIOUS
<1>3. /\ m \in Nat /\ m <= Len(stack) /\ stack \in Seq(Values) /\ Floor(Top) <= m
      /\ Floor(Top) \in Nat
  BY <1>1, <1>2, ResultThere
<1>4. t \in Seq(Values) /\ Len(t) = m /\ Agree(stack, t, m)
  BY <1>2, <1>3, CutFacts
<1>5. stack' = t /\ acts' = acts /\ out' = "run"
  <2>1. Len(t) \in Nat /\ out \in {"ok", "err"} /\ Len(t) <= Len(stack) /\ Becomes(t, acts, "run")
    BY <1>1, <1>2, <1>3, <1>4
  <2>2. (stack' = t /\ acts' = acts /\ out' = "run") \/ Abstract!Abort
    BY <2>1, Steps
  <2>3. ~Abstract!Abort
    BY <1>1, SeenNow DEF Abstract!Abort, Abstract!Run, Abstract!Ok
  <2>. QED BY <2>2, <2>3
<1>6. AbsActs' = Picture(t, acts, m) /\ AbsOut' = Abstract!Run
  BY <1>4, <1>5, SeenNext
<1>7. \A i \in 1 .. Len(acts) : Floor(acts[i]) <= m
  <2>1. PICK g : g = Floor(Top)
    OBVIOUS
  <2>2. \A i \in 1 .. Len(acts) : Floor(acts[i]) \in Nat /\ Floor(acts[i]) <= g
    BY <1>1, <2>1, TopFacts, Placing DEF IInv
  <2>. QED BY <1>3, <2>1, <2>2
<1>8. Picture(stack, acts, m) = Picture(t, acts, m)
  <2>1. Stands(stack, acts)
    BY DEF IInv
  <2>. QED BY <1>3, <1>4, <1>7, <2>1, PictureKept
<1>9. AbsActs = Picture(stack, acts, m)
  BY <1>1, <1>2, SeenNow
<1>. QED BY <1>1, <1>6, <1>8, <1>9, ArrivalSeen DEF Abstract!Result

-----------------------------------------------------------------------------
(* Errors                                                                  *)
LEMMA ThrowSeen == ASSUME IInv, Throw PROVE Abstract!Throw \/ Abstract!Abort
<1>1. acts # <<>> /\ Top.kind \in {"ir", "native"} /\ out = "run"
  BY DEF Throw, Waiting
<1>2. PICK n \in {0, 1} : /\ Becomes(Cut(stack, Len(stack) - n), acts, "err")
                          /\ n = 1 => Top.kind = "ir" /\ Operands >= 1
  BY DEF Throw
<1>3. PICK l, m, f, t : l = Len(stack) /\ m = l - n /\ f = Floor(Top) /\ t = Cut(stack, m)
  OBVIOUS
<1>4. m \in Nat /\ f \in Nat /\ f <= m /\ m <= Len(stack)
  <2>1. l \in Nat /\ f \in Nat /\ f <= l /\ (n = 1 => l - f >= 1) /\ m = l - n
    BY <1>1, <1>2, <1>3, TopFacts, CodeSeen
  <2>2. m \in Nat /\ f <= m /\ m <= l
    BY <2>1
  <2>. QED BY <1>3, <2>1, <2>2
<1>5. t \in Seq(Values) /\ Len(t) = m /\ Agree(stack, t, f)
  BY <1>1, <1>3, <1>4, CutsFacts
<1>6. (stack' = t /\ acts' = acts /\ out' = "err") \/ Abstract!Abort
  <2>1. Becomes(t, acts, "err") /\ Len(t) \in Nat
    BY <1>2, <1>3, <1>4, <1>5
  <2>. QED BY <1>1, <2>1, RunSteps
<1>. SUFFICES ASSUME stack' = t, acts' = acts, out' = "err"
              PROVE  Abstract!Throw
  BY <1>6
<1>7. AbsActs' = Picture(t, acts, f) /\ AbsOut' = Abstract!Err
  <2>1. Floor(acts[Len(acts)]) = f
    BY <1>3 DEF Top
  <2>. QED BY <1>1, <2>1, SeenNext
<1>8. Picture(t, acts, f) = Abstract!WithOps(AbsActs, Ops(Top, t, f))
  BY <1>1, <1>3, <1>5, TopChanged
<1>9. Ops(Top, t, f) = <<>>
  <2>1. Top \in Acts /\ Placed(Top) /\ f <= Len(t) /\ f <= f
    BY <1>1, <1>4, <1>5, TopFacts
  <2>2. Ops(Top, t, Floor(Top)) = <<>>
    BY <1>3, <1>4, <1>5, <2>1, OpsFacts
  <2>. QED BY <1>3, <2>2
<1>10. AbsActs # <<>> /\ Abstract!Top.kind = Top.kind /\ AbsOut = Abstract!Run
  BY <1>1, TopSeen, SeenNow
<1>. QED BY <1>1, <1>7, <1>8, <1>9, <1>10 DEF Abstract!Throw

LEMMA CatchSeen == ASSUME IInv, Catch PROVE Abstract!Catch
<1>1. acts # <<>> /\ Top.kind \in {"ir", "native"} /\ out = "err"
  BY DEF Catch, Waiting
<1>2. PICK ac : Caught(ac) /\ Becomes(stack, ac, "run")
  BY DEF Caught, Changed, Top, Catch
<1>3. PICK n, l, b : n = Len(acts) /\ l = Len(stack) /\ b = ac[n]
  OBVIOUS
<1>4. /\ Stands(stack, ac) /\ Len(ac) = n /\ \A i \in 1 .. n : i # n => ac[i] = acts[i]
      /\ b.base + b.junk = l
  BY <1>1, <1>2, <1>3, CatchStands
<1>5. b = [Top EXCEPT !.junk = Len(stack) - Top.base]
  BY <1>1, <1>2, <1>3, CatchStands
<1>6. /\ stack \in Seq(Values) /\ Top = acts[n] /\ Top \in Acts /\ n # 0 /\ l \in Nat /\ n \in 1 .. n
      /\ Agree(stack, stack, Floor(Top)) /\ Stands(stack, acts) /\ l <= l
  BY <1>1, <1>3, TopFacts, SameStack DEF IInv
<1>7. Alike(Top, b)
  BY <1>5, <1>6 DEF Alike, Acts
<1>8. stack' = stack /\ acts' = ac /\ out' = "run"
  <2>1. Len(stack) \in Nat /\ out \in {"ok", "err"} /\ Len(stack) <= Len(stack)
    BY <1>1, <1>3, <1>6
  <2>2. (stack' = stack /\ acts' = ac /\ out' = "run") \/ Abstract!Abort
    BY <1>2, <2>1, Steps
  <2>3. ~Abstract!Abort
    BY <1>1, SeenNow DEF Abstract!Abort, Abstract!Run, Abstract!Err
  <2>. QED BY <2>2, <2>3
<1>9. AbsActs' = Picture(stack, ac, l) /\ AbsOut' = Abstract!Run
  BY <1>3, <1>8, SeenNext
<1>10. PICK u : u = Edge(stack, acts, out)
  OBVIOUS
<1>11. Picture(stack, ac, l) = Abstract!WithOps(Picture(stack, acts, u), Ops(b, stack, l))
  <2>1. /\ Len(acts) # 0 /\ Agree(stack, stack, Floor(acts[Len(acts)])) /\ Len(ac) = Len(acts)
        /\ \A i \in 1 .. Len(acts) : i # Len(acts) => ac[i] = acts[i]
        /\ Alike(acts[Len(acts)], ac[Len(acts)])
    BY <1>3, <1>4, <1>6, <1>7
  <2>2. Picture(stack, ac, l) =
          Abstract!WithOps(Picture(stack, acts, u), Ops(ac[Len(acts)], stack, l))
    BY <1>6, <2>1, PictureSet
  <2>. QED BY <1>3, <2>2
<1>12. Ops(b, stack, l) = <<>>
  <2>1. SubSeq(stack, l + 1, l) = <<>>
    BY <1>3, <1>6, NoPart
  <2>. QED BY <1>4, <2>1 DEF Ops
<1>13. AbsActs # <<>> /\ Abstract!Top.kind = Top.kind /\ AbsOut = Abstract!Err
  BY <1>1, TopSeen, SeenNow
<1>. QED BY <1>1, <1>9, <1>10, <1>11, <1>12, <1>13 DEF Abstract!Catch, AbsActs

LEMMA LeaveSeen == ASSUME IInv, Leave PROVE Abstract!Leave
<1>1. acts # <<>> /\ out = "err"
  BY DEF Leave
<1>2. PICK f, t, n, ac, k, u :
        /\ f = Top.frame /\ t = (IF Top.kind = "new" THEN stack ELSE Cut(stack, f))
        /\ n = Len(acts) /\ ac = Below /\ k = n - 1 /\ u = Edge(stack, acts, out)
  OBVIOUS
<1>3. /\ f \in Nat /\ f <= Len(stack) /\ f <= f /\ stack \in Seq(Values) /\ n \in Nat /\ n \in 1 .. n
      /\ acts \in Seq(Acts) /\ Stands(stack, acts) /\ Len(stack) \in Nat /\ Top = acts[n]
      /\ Agree(stack, stack, f)
  BY <1>1, <1>2, TopFacts, SameStack DEF IInv
<1>4. Agree(stack, Cut(stack, f), f) /\ Cut(stack, f) \in Seq(Values) /\ Len(Cut(stack, f)) = f
  BY <1>3, CutFacts
<1>5. /\ t \in Seq(Values) /\ Agree(stack, t, f) /\ Len(t) \in Nat /\ Len(t) <= Len(stack)
      /\ f <= Len(t)
  <2>1. CASE Top.kind = "new"
    <3>1. t = stack
      BY <1>2, <2>1
    <3>2. PICK l : l = Len(stack) /\ l <= l
      BY <1>3
    <3>. QED BY <1>3, <3>1, <3>2
  <2>2. CASE Top.kind # "new"
    BY <1>2, <1>3, <1>4, <2>2
  <2>. QED BY <2>1, <2>2
<1>6. stack' = t /\ acts' = ac /\ out' = "err"
  <2>1. out \in {"ok", "err"} /\ Becomes(t, ac, "err")
    BY <1>1, <1>2 DEF Leave
  <2>2. (stack' = t /\ acts' = ac /\ out' = "err") \/ Abstract!Abort
    BY <1>5, <2>1, Steps
  <2>3. ~Abstract!Abort
    BY <1>1, SeenNow DEF Abstract!Abort, Abstract!Run, Abstract!Err
  <2>. QED BY <2>2, <2>3
<1>7. AbsOut' = Abstract!Err /\ AbsOut = Abstract!Err
  BY <1>1, <1>6, SeenNext, SeenNow
<1>8. Stands(stack, ac) /\ \A i \in 1 .. Len(ac) : Floor(ac[i]) <= f
  BY <1>1, <1>2, <1>3, StandsPopped DEF Below
<1>9. k \in Nat /\ Len(ac) = k /\ ac \in Seq(Acts)
  <2>1. k \in Nat /\ k <= Len(acts)
    <3>1. k = n - 1
      BY <1>2
    <3>. QED BY <1>2, <1>3, <3>1
  <2>2. ac = Cut(acts, k)
    BY <1>2 DEF Below
  <2>. QED BY <1>3, <2>1, <2>2, CutFacts
<1>10. Abstract!Below = Picture(stack, ac, f)
  <2>1. SubSeq(Picture(stack, acts, u), 1, Len(Picture(stack, acts, u)) - 1) =
          Picture(stack, Cut(acts, Len(acts) - 1), acts[Len(acts)].frame)
    BY <1>1, <1>3, PicturePopped
  <2>. QED BY <1>2, <1>3, <2>1 DEF Below, Abstract!Below, AbsActs
<1>11. AbsActs # <<>> /\ Len(AbsActs) = n
  BY <1>1, <1>2, TopSeen
<1>12. CASE k = 0
  <2>1. n = 1
    <3>1. k = n - 1
      BY <1>2
    <3>. QED BY <1>3, <1>12, <3>1
  <2>2. AbsActs' = <<>>
    <3>1. ac = <<>>
      BY <1>9, <1>12, SeqFacts
    <3>2. acts' = <<>>
      BY <1>6, <3>1
    <3>3. Len(acts') = 0
      BY <3>2
    <3>. QED BY <3>3 DEF AbsActs, Picture
  <2>. QED BY <1>7, <1>11, <2>1, <2>2 DEF Abstract!Leave
<1>13. CASE k # 0
  <2>1. n # 1
    BY <1>2, <1>3, <1>13
  <2>2. PICK b, g : b = ac[k] /\ g = Floor(b)
    OBVIOUS
  <2>3. k \in 1 .. k /\ ac # <<>>
    BY <1>9, <1>13, SeqFacts
  <2>4. b \in Acts /\ Placed(b) /\ g \in Nat /\ g <= f
    BY <1>8, <1>9, <2>2, <2>3, Placing DEF Stands
  <2>5. Agree(stack, t, g)
    BY <1>3, <1>5, <2>4, AgreeLess
  <2>6. AbsActs' = Picture(t, ac, g)
    BY <1>6, <1>9, <2>2, <2>3, SeenNext
  <2>7. Picture(t, ac, g) = Abstract!WithOps(Picture(stack, ac, f), Ops(b, t, g))
    <3>1. /\ Len(ac) # 0 /\ Agree(stack, t, Floor(ac[Len(ac)])) /\ Len(ac) = Len(ac)
          /\ \A i \in 1 .. Len(ac) : i # Len(ac) => ac[i] = ac[i]
          /\ Alike(ac[Len(ac)], ac[Len(ac)])
      BY <1>9, <1>13, <2>2, <2>5 DEF Alike
    <3>2. Picture(t, ac, g) = Abstract!WithOps(Picture(stack, ac, f), Ops(ac[Len(ac)], t, g))
      BY <1>5, <1>8, <3>1, PictureSet
    <3>. QED BY <1>9, <2>2, <3>2
  <2>8. Ops(b, t, g) = <<>>
    <3>1. g <= Len(t) /\ g <= g
      <4>1. PICK l : l = Len(t)
        OBVIOUS
      <4>. QED BY <1>3, <1>5, <2>4, <4>1
    <3>2. Ops(b, t, Floor(b)) = <<>>
      BY <1>5, <2>2, <2>4, <3>1, OpsFacts
    <3>. QED BY <2>2, <3>2
  <2>9. AbsActs' = Abstract!WithOps(Abstract!Below, <<>>)
    BY <1>10, <2>6, <2>7, <2>8
  <2>. QED BY <1>7, <1>11, <2>1, <2>9 DEF Abstract!Leave
<1>. QED BY <1>12, <1>13
-----------------------------------------------------------------------------
(* Calls                                                                   *)
Passing(st, frame) == SubSeq(st, frame + 3, Len(st))

LEMMA PassingFacts ==
  ASSUME NEW st, NEW ac, NEW frame, NEW argc, Ready(st, ac, frame, argc)
  PROVE  /\ Passing(st, frame) \in Seq(Values) /\ Len(Passing(st, frame)) = argc
         /\ \A i \in 1 .. argc : Passing(st, frame)[i] = st[frame + 2 + i]
<1>1. PICK k, l, p : k = frame + 2 /\ l = Len(st) /\ p = Passing(st, frame)
  OBVIOUS
<1>2. frame \in Nat /\ argc \in Nat /\ l \in Nat /\ k + argc = l /\ st \in Seq(Values)
  BY <1>1, ReadyFacts
<1>3. k \in Nat /\ k <= l /\ l <= l /\ l - k = argc /\ k + 1 = frame + 3
  <2>1. k = frame + 2
    BY <1>1
  <2>. QED BY <1>2, <2>1
<1>4. p = SubSeq(st, k + 1, l)
  BY <1>1, <1>3 DEF Passing
<1>5. p \in Seq(Values) /\ Len(p) = l - k /\ \A i \in 1 .. l - k : p[i] = st[k + i]
  <2>1. l <= Len(st)
    BY <1>1, <1>3
  <2>. QED BY <1>2, <1>3, <1>4, <2>1, PartFacts
<1>. QED BY <1>1, <1>3, <1>5

(* The error of a call that cannot be made                                 *)
LEMMA FailedSeen ==
  ASSUME IInv, out = "run", NEW st, NEW ac, NEW frame, NEW argc, Ready(st, ac, frame, argc),
         ac # <<>>, Becomes(st, ac, "err")
  PROVE  \/ Abstract!Abort
         \/ AbsActs' = Abstract!WithOps(Picture(st, ac, frame), <<>>) /\ AbsOut' = Abstract!Err
<1>1. PICK n, a, g : n = Len(ac) /\ a = ac[n] /\ g = Floor(a)
  OBVIOUS
<1>2. /\ Stands(st, ac) /\ frame \in Nat /\ Len(st) \in Nat /\ frame <= Len(st) /\ st \in Seq(Values)
      /\ \A i \in 1 .. n : Floor(ac[i]) <= frame
  BY <1>1, ReadyFacts DEF Ready
<1>3. n \in 1 .. n /\ n # 0 /\ n \in Nat
  BY <1>1, <1>2, SeqFacts DEF Stands
<1>4. a \in Acts /\ Placed(a) /\ g \in Nat /\ g <= frame
  BY <1>1, <1>2, <1>3, Placing DEF Stands
<1>5. g <= Len(st) /\ g <= g
  <2>1. PICK l : l = Len(st)
    OBVIOUS
  <2>. QED BY <1>2, <1>4, <2>1
<1>6. (stack' = st /\ acts' = ac /\ out' = "err") \/ Abstract!Abort
  BY <1>2, RunSteps
<1>. SUFFICES ASSUME stack' = st, acts' = ac, out' = "err"
              PROVE  /\ AbsActs' = Abstract!WithOps(Picture(st, ac, frame), <<>>)
                     /\ AbsOut' = Abstract!Err
  BY <1>6
<1>7. AbsActs' = Picture(st, ac, g) /\ AbsOut' = Abstract!Err
  BY <1>1, SeenNext
<1>8. Agree(st, st, g)
  BY <1>4, <1>5 DEF Agree
<1>9. Picture(st, ac, g) = Abstract!WithOps(Picture(st, ac, frame), Ops(a, st, g))
  <2>1. /\ Len(ac) # 0 /\ Agree(st, st, Floor(ac[Len(ac)])) /\ Len(ac) = Len(ac)
        /\ \A i \in 1 .. Len(ac) : i # Len(ac) => ac[i] = ac[i]
        /\ Alike(ac[Len(ac)], ac[Len(ac)])
    BY <1>1, <1>3, <1>8 DEF Alike
  <2>2. Picture(st, ac, g) = Abstract!WithOps(Picture(st, ac, frame), Ops(ac[Len(ac)], st, g))
    BY <1>2, <2>1, PictureSet
  <2>. QED BY <1>1, <2>2
<1>10. Ops(a, st, g) = <<>>
  <2>1. Ops(a, st, Floor(a)) = <<>>
    BY <1>1, <1>2, <1>4, <1>5, OpsFacts
  <2>. QED BY <1>1, <2>1
<1>. QED BY <1>7, <1>9, <1>10

(* The activation of a callee                                              *)
LEMMA PushSeen ==
  ASSUME IInv, out = "run", NEW st, NEW ac, NEW frame, NEW argc, Ready(st, ac, frame, argc),
         NEW t \in Seq(Values), Agree(st, t, frame), NEW a \in Acts, a.frame = frame,
         NEW b, Grown(ac, a, b), Becomes(t, b, "run")
  PROVE  \/ Abstract!Abort
         \/ /\ AbsActs' = Append(Picture(st, ac, frame), Show(a, t, Len(t)))
            /\ AbsOut' = Abstract!Run
<1>1. Len(t) \in Nat /\ frame \in Nat
  BY SeqFacts, ReadyFacts
<1>2. (stack' = t /\ acts' = b /\ out' = "run") \/ Abstract!Abort
  BY <1>1, RunSteps
<1>. SUFFICES ASSUME stack' = t, acts' = b, out' = "run"
              PROVE  /\ AbsActs' = Append(Picture(st, ac, frame), Show(a, t, Len(t)))
                     /\ AbsOut' = Abstract!Run
  BY <1>2
<1>3. AbsActs' = Picture(t, b, Len(t)) /\ AbsOut' = Abstract!Run
  BY SeenNext
<1>4. Stands(st, ac) /\ \A i \in 1 .. Len(ac) : Floor(ac[i]) <= frame
  BY DEF Ready
<1>5. Picture(st, ac, frame) = Picture(t, ac, frame)
  BY <1>1, <1>4, PictureKept
<1>6. Picture(t, b, Len(t)) = Append(Picture(t, ac, a.frame), Show(a, t, Len(t)))
  <2>1. ac \in Seq(Acts)
    BY <1>4 DEF Stands
  <2>. QED BY <2>1, PicturePushed
<1>. QED BY <1>3, <1>5, <1>6

(* The arguments of a function that is entered                             *)
LEMMA ArgumentsSeen ==
  ASSUME NEW st, NEW ac, NEW frame, NEW argc, Ready(st, ac, frame, argc),
         NEW fn \in Functions, NEW t, t = Completed(st, fn, frame, argc)
  PROVE  SubSeq(t, frame + 3, frame + 2 + (argc + Missing(fn, argc))) =
           Abstract!Arguments(fn, Passing(st, frame))
<1>1. PICK k, l, p, m, h, n, r, c :
        /\ k = frame + 2 /\ l = Len(st) /\ p = Params[fn] /\ m = Missing(fn, argc) /\ h = argc + m
        /\ n = Locals[fn] /\ c = Passing(st, frame) /\ r = SubSeq(t, k + 1, k + h)
  OBVIOUS
<1>2. frame \in Nat /\ argc \in Nat /\ l \in Nat /\ k + argc = l
  BY <1>1, ReadyFacts
<1>3. /\ t \in Seq(Values) /\ m \in Nat /\ n \in Nat /\ Len(t) = l + m + n
      /\ \A i \in frame + 2 .. l : t[i] = st[i]
      /\ \A i \in l + 1 .. l + m : t[i] = Undefined
  <2>1. /\ t \in Seq(Values) /\ Missing(fn, argc) \in Nat /\ Locals[fn] \in Nat
        /\ Len(t) = Len(st) + Missing(fn, argc) + Locals[fn]
    BY CompletedFacts
  <2>2. \A i \in frame + 2 .. Len(st) : t[i] = st[i]
    BY CompletedFacts
  <2>3. \A i \in Len(st) + 1 .. Len(st) + Missing(fn, argc) : t[i] = Undefined
    BY CompletedFacts
  <2>. QED BY <1>1, <2>1, <2>2, <2>3
<1>4. p \in Nat /\ m = IF argc < p THEN p - argc ELSE 0
  BY <1>1, SameAssumption DEF Abstract!FunctionsAssumption, Missing
<1>5. k = frame + 2 /\ h = argc + m
  BY <1>1
<1>6. /\ k \in Nat /\ h \in Nat /\ k + h \in Nat /\ k <= k + h /\ k + h <= l + m + n
      /\ k + 1 = frame + 3 /\ k + h - k = h
  BY <1>2, <1>3, <1>5
<1>7. r \in Seq(Values) /\ Len(r) = h /\ \A i \in 1 .. h : r[i] = t[k + i]
  <2>1. PICK e : e = k + h
    OBVIOUS
  <2>2. t \in Seq(Values) /\ k \in Nat /\ e \in Nat /\ k <= e /\ e <= Len(t) /\ e - k = h
    BY <1>3, <1>6, <2>1
  <2>3. r = SubSeq(t, k + 1, e)
    BY <1>1, <2>1
  <2>4. r \in Seq(Values) /\ Len(r) = e - k /\ \A i \in 1 .. e - k : r[i] = t[k + i]
    BY <2>2, <2>3, PartFacts
  <2>. QED BY <2>2, <2>4
<1>8. c \in Seq(Values) /\ Len(c) = argc /\ \A i \in 1 .. argc : c[i] = st[k + i]
  BY <1>1, PassingFacts
<1>9. ASSUME NEW i \in 1 .. argc
      PROVE  r[i] = c[i]
  <2>1. i \in 1 .. h /\ k + i \in frame + 2 .. l
    BY <1>2, <1>3, <1>5
  <2>2. r[i] = t[k + i] /\ t[k + i] = st[k + i]
    BY <1>3, <1>7, <2>1
  <2>. QED BY <1>8, <2>2
<1>10. r = Abstract!Arguments(fn, c)
  <2>1. CASE argc < p
    <3>1. h = p /\ m = p - argc
      BY <1>2, <1>4, <1>5, <2>1
    <3>2. Abstract!Arguments(fn, c) = [i \in 1 .. p |-> IF i <= argc THEN c[i] ELSE Undefined]
      BY <1>1, <1>8, <2>1 DEF Abstract!Arguments, Abstract!Padded
    <3>3. ASSUME NEW i \in 1 .. p
          PROVE  r[i] = IF i <= argc THEN c[i] ELSE Undefined
      <4>1. CASE i <= argc
        <5>1. i \in 1 .. argc
          BY <1>2, <4>1
        <5>. QED BY <1>9, <4>1, <5>1
      <4>2. CASE ~(i <= argc)
        <5>1. k + i \in l + 1 .. l + m /\ i \in 1 .. h
          <6>1. k \in Nat /\ h = p /\ m = p - argc
            BY <1>6, <3>1
          <6>. QED BY <1>2, <1>4, <4>2, <6>1
        <5>. QED BY <1>3, <1>7, <4>2, <5>1
      <4>. QED BY <4>1, <4>2
    <3>4. r = [i \in 1 .. p |-> r[i]]
      <4>1. r \in [1 .. p -> Values]
        BY <1>7, <3>1, LenProperties
      <4>. QED BY <4>1
    <3>. QED BY <3>2, <3>3, <3>4
  <2>2. CASE ~(argc < p)
    <3>1. h = argc
      BY <1>2, <1>4, <1>5, <2>2
    <3>2. Len(r) = Len(c) /\ \A i \in 1 .. Len(r) : r[i] = c[i]
      BY <1>7, <1>8, <1>9, <3>1
    <3>3. r = c
      BY <1>7, <1>8, <3>2, SeqEqual
    <3>. QED BY <1>1, <1>8, <2>2, <3>3 DEF Abstract!Arguments
  <2>. QED BY <2>1, <2>2
<1>11. k + 1 = frame + 3 /\ k + h = frame + 2 + (argc + m)
  BY <1>5, <1>6
<1>. QED BY <1>1, <1>10, <1>11

LEMMA CallSeen ==
  ASSUME IInv, out = "run", NEW st, NEW ac, NEW frame, NEW argc, NEW construct,
         Ready(st, ac, frame, argc), ac # <<>>, Call(st, ac, frame, argc, construct)
  PROVE  \/ Abstract!Abort
         \/ Abstract!Called(Picture(st, ac, frame), st[frame + 2], st[frame + 1],
                            Passing(st, frame), construct)
<1>. DEFINE fn == st[frame + 2]
            this == st[frame + 1]
<1>1. /\ frame \in Nat /\ argc \in Nat /\ Len(st) \in Nat /\ frame + 2 + argc = Len(st)
      /\ frame + 2 \in 1 .. Len(st) /\ frame <= Len(st) /\ st \in Seq(Values)
  BY ReadyFacts
<1>2. Functions \subseteq Values
  BY DEF Values
<1>3. CASE fn \in Functions /\ (construct => fn \in Constructors) /\ Kind[fn] = "ir"
  <2>1. PICK t, a, b : /\ t = Completed(st, fn, frame, argc)
                       /\ a = Activation("ir", fn, frame, argc, Len(t)) /\ Grown(ac, a, b)
    BY DEF Grown
  <2>2. Becomes(t, b, "run")
    BY <1>3, <2>1 DEF Call, Entered, Completed, Grown
  <2>3. /\ t \in Seq(Values) /\ Agree(st, t, frame)
        /\ t[frame + 1] = IF fn \notin Strict /\ this = Undefined THEN Global ELSE this
    BY <1>3, <2>1, CompletedFacts
  <2>4. t[frame + 2] = fn
    <3>1. \A i \in frame + 2 .. Len(st) : t[i] = st[i]
      BY <1>3, <2>1, CompletedFacts
    <3>2. frame + 2 \in frame + 2 .. Len(st)
      BY <1>1
    <3>. QED BY <3>1, <3>2
  <2>5. /\ a \in Acts /\ a.frame = frame /\ a.kind = "ir" /\ a.base + a.junk = Len(t)
        /\ a.fn = fn /\ a.argc = argc /\ Len(t) \in Nat
    <3>1. Len(t) \in Nat
      BY <2>3, SeqFacts
    <3>. QED BY <1>1, <1>2, <1>3, <2>1, <3>1 DEF Activation, Acts, Kinds
  <2>6. \/ Abstract!Abort
        \/ AbsActs' = Append(Picture(st, ac, frame), Show(a, t, Len(t))) /\ AbsOut' = Abstract!Run
    BY <2>1, <2>2, <2>3, <2>5, PushSeen
  <2>7. Ops(a, t, Len(t)) = <<>>
    <3>1. PICK l : l = Len(t)
      OBVIOUS
    <3>2. l \in Nat /\ l <= Len(t)
      BY <2>5, <3>1
    <3>3. SubSeq(t, l + 1, l) = <<>>
      BY <2>3, <3>2, NoPart
    <3>. QED BY <2>5, <3>1, <3>3 DEF Ops
  <2>8. SubSeq(t, frame + 3, frame + 2 + Held(a)) = Abstract!Arguments(fn, Passing(st, frame))
    <3>1. Held(a) = argc + Missing(fn, argc)
      BY <2>5 DEF Held
    <3>2. SubSeq(t, frame + 3, frame + 2 + (argc + Missing(fn, argc))) =
            Abstract!Arguments(fn, Passing(st, frame))
      BY <1>3, <2>1, ArgumentsSeen
    <3>. QED BY <3>1, <3>2
  <2>9. PICK r, h, e : /\ r = Abstract!Arguments(fn, Passing(st, frame)) /\ e = Show(a, t, Len(t))
                       /\ h = IF fn \notin Strict /\ this = Undefined THEN Global ELSE this
    OBVIOUS
  <2>10. e = [kind |-> "ir", fn |-> fn, this |-> h, args |-> r, ops |-> <<>>]
    BY <2>3, <2>4, <2>5, <2>7, <2>8, <2>9 DEF Show
  <2>11. Abstract!Entered(fn, this, Passing(st, frame)) =
           [kind |-> "ir", fn |-> fn, this |-> h, args |-> r, ops |-> <<>>]
    BY <1>3, <2>9 DEF Abstract!Entered, Abstract!Activation
  <2>12. e = Abstract!Entered(fn, this, Passing(st, frame))
    BY <2>10, <2>11
  <2>. QED BY <1>3, <2>6, <2>9, <2>12 DEF Abstract!Called
<1>4. CASE fn \in Functions /\ (construct => fn \in Constructors) /\ Kind[fn] # "ir"
  <2>1. PICK a, b : a = Activation(Kind[fn], fn, frame, argc, Len(st)) /\ Grown(ac, a, b)
    BY DEF Grown
  <2>2. Becomes(st, b, "run")
    BY <1>4, <2>1 DEF Call, Grown
  <2>3. Kind[fn] \in {"native", "bound"}
    BY <1>4, SameAssumption DEF Abstract!FunctionsAssumption
  <2>4. Agree(st, st, frame)
    BY <1>1 DEF Agree
  <2>5. /\ a \in Acts /\ a.frame = frame /\ a.kind = Kind[fn] /\ a.fn = fn /\ a.argc = argc
    BY <1>1, <1>2, <1>4, <2>1, <2>3 DEF Activation, Acts, Kinds
  <2>6. \/ Abstract!Abort
        \/ AbsActs' = Append(Picture(st, ac, frame), Show(a, st, Len(st))) /\ AbsOut' = Abstract!Run
    BY <1>1, <2>1, <2>2, <2>4, <2>5, PushSeen
  <2>7. SubSeq(st, frame + 3, frame + 2 + Held(a)) = Passing(st, frame)
    BY <1>1, <1>4, <2>5 DEF Held, Passing
  <2>8. Ops(a, st, Len(st)) = <<>>
    BY <1>4, <2>5 DEF Ops
  <2>9. PICK r, e, k : r = Passing(st, frame) /\ e = Show(a, st, Len(st)) /\ k = Kind[fn]
    OBVIOUS
  <2>10. e = [kind |-> k, fn |-> fn, this |-> this, args |-> r, ops |-> <<>>]
    BY <2>3, <2>5, <2>7, <2>8, <2>9 DEF Show
  <2>11. Abstract!Entered(fn, this, r) =
           [kind |-> k, fn |-> fn, this |-> this, args |-> r, ops |-> <<>>]
    BY <1>4, <2>9 DEF Abstract!Entered, Abstract!Activation
  <2>12. e = Abstract!Entered(fn, this, r)
    BY <2>10, <2>11
  <2>. QED BY <1>4, <2>6, <2>9, <2>12 DEF Abstract!Called
<1>5. CASE ~(fn \in Functions /\ (construct => fn \in Constructors))
  <2>1. Becomes(st, ac, "err")
    BY <1>5 DEF Call
  <2>2. \/ Abstract!Abort
        \/ AbsActs' = Abstract!WithOps(Picture(st, ac, frame), <<>>) /\ AbsOut' = Abstract!Err
    BY <2>1, FailedSeen
  <2>. QED BY <1>5, <2>2 DEF Abstract!Called
<1>. QED BY <1>3, <1>4, <1>5

LEMMA NewGrown ==
  ASSUME NEW st, NEW ac, NEW frame, NEW argc, Ready(st, ac, frame, argc),
         ac # <<>> => ac[Len(ac)].kind # "new",
         NEW t, Changed(st, frame + 1, Fresh, t),
         NEW b, Grown(ac, Activation("new", st[frame + 2], frame, argc, Len(st)), b)
  PROVE  /\ Ready(t, b, frame, argc) /\ Agree(st, t, frame) /\ b # <<>>
         /\ \A i \in frame + 2 .. Len(st) : t[i] = st[i]
<1>. DEFINE a == Activation("new", st[frame + 2], frame, argc, Len(st))
            u == [st EXCEPT ![frame + 1] = Fresh]
            c == Append(ac, a)
<1>1. /\ Ready(u, c, frame, argc) /\ Agree(st, u, frame)
      /\ \A i \in frame + 2 .. Len(st) : u[i] = st[i]
  BY NewReady
<1>2. t = u /\ b = c
  BY DEF Changed, Grown
<1>. HIDE DEF a, u, c
<1>3. /\ Ready(t, b, frame, argc) /\ Agree(st, t, frame)
      /\ \A i \in frame + 2 .. Len(st) : t[i] = st[i]
  BY <1>1, <1>2
<1>4. b # <<>>
  <2>1. b \in Seq(Acts) /\ ac \in Seq(Acts)
    BY <1>3 DEF Ready, Stands
  <2>2. b = Append(ac, a)
    BY <1>2 DEF c
  <2>. QED BY <2>1, <2>2
<1>. QED BY <1>3, <1>4

LEMMA ConstructSeen ==
  ASSUME IInv, out = "run", NEW st, NEW ac, NEW frame, NEW argc,
         Ready(st, ac, frame, argc), ac # <<>>, ac[Len(ac)].kind # "new",
         Construct(st, ac, frame, argc)
  PROVE  \/ Abstract!Abort
         \/ Abstract!Constructed(Picture(st, ac, frame), st[frame + 2], st[frame + 1],
                                 Passing(st, frame))
<1>. DEFINE fn == st[frame + 2]
            this == st[frame + 1]
<1>1. /\ frame \in Nat /\ argc \in Nat /\ Len(st) \in Nat /\ frame + 2 + argc = Len(st)
      /\ frame + 2 \in 1 .. Len(st) /\ frame <= Len(st) /\ st \in Seq(Values)
      /\ fn \in Values
  BY ReadyFacts
<1>2. CASE fn \in Functions /\ Kind[fn] = "bound"
  <2>1. PICK a, b : a = Activation("boundnew", fn, frame, argc, Len(st)) /\ Grown(ac, a, b)
    BY DEF Grown
  <2>2. Becomes(st, b, "run")
    BY <1>2, <2>1 DEF Construct, Grown
  <2>3. Agree(st, st, frame)
    BY <1>1 DEF Agree
  <2>4. a \in Acts /\ a.frame = frame /\ a.kind = "boundnew" /\ a.fn = fn /\ a.argc = argc
    BY <1>1, <2>1 DEF Activation, Acts, Kinds
  <2>5. \/ Abstract!Abort
        \/ AbsActs' = Append(Picture(st, ac, frame), Show(a, st, Len(st))) /\ AbsOut' = Abstract!Run
    BY <1>1, <2>1, <2>2, <2>3, <2>4, PushSeen
  <2>6. SubSeq(st, frame + 3, frame + 2 + Held(a)) = Passing(st, frame)
    BY <1>1, <2>4 DEF Held, Passing
  <2>7. Ops(a, st, Len(st)) = <<>>
    BY <2>4 DEF Ops
  <2>8. PICK r, e : r = Passing(st, frame) /\ e = Show(a, st, Len(st))
    OBVIOUS
  <2>9. e = [kind |-> "boundnew", fn |-> fn, this |-> this, args |-> r, ops |-> <<>>]
    BY <2>4, <2>6, <2>7, <2>8 DEF Show
  <2>10. e = Abstract!Activation("boundnew", fn, this, r)
    BY <2>9 DEF Abstract!Activation
  <2>. QED BY <1>2, <2>5, <2>8, <2>10 DEF Abstract!Constructed
<1>3. CASE ~(fn \in Functions /\ Kind[fn] = "bound")
  <2>1. PICK a, t : /\ a = Activation("new", fn, frame, argc, Len(st))
                    /\ t = [st EXCEPT ![frame + 1] = Fresh]
    OBVIOUS
  <2>2. Becomes(st, ac, "err") \/ Call(t, Append(ac, a), frame, argc, TRUE)
    BY <1>3, <2>1 DEF Construct
  <2>3. CASE Becomes(st, ac, "err")
    <3>1. \/ Abstract!Abort
          \/ AbsActs' = Abstract!WithOps(Picture(st, ac, frame), <<>>) /\ AbsOut' = Abstract!Err
      BY <2>3, FailedSeen
    <3>. QED BY <1>3, <3>1 DEF Abstract!Constructed
  <2>4. CASE Call(t, Append(ac, a), frame, argc, TRUE)
    <3>1. PICK b : b = Append(ac, a)
      OBVIOUS
    <3>2. /\ Ready(t, b, frame, argc) /\ t \in Seq(Values) /\ Agree(st, t, frame)
          /\ t[frame + 1] = Fresh /\ b # <<>>
          /\ \A i \in frame + 2 .. Len(st) : t[i] = st[i]
      <4>1. Grown(ac, a, b) /\ Changed(st, frame + 1, Fresh, t)
        BY <2>1, <3>1 DEF Grown, Changed
      <4>2. Grown(ac, Activation("new", st[frame + 2], frame, argc, Len(st)), b)
        BY <2>1, <4>1
      <4>3. ac # <<>> => ac[Len(ac)].kind # "new"
        OBVIOUS
      <4>4. Ready(t, b, frame, argc) /\ b # <<>>
        BY <4>1, <4>2, <4>3, NewGrown
      <4>5. /\ t \in Seq(Values) /\ t[frame + 1] = Fresh
            /\ \A j \in 1 .. Len(st) : j # frame + 1 => t[j] = st[j]
        <5>1. st \in Seq(Values) /\ frame + 1 \in 1 .. Len(st) /\ Fresh \in Values
          BY ReadyFacts DEF Values
        <5>. QED BY <4>1, <5>1, ChangeFacts
      <4>6. PICK n : n = Len(st)
        OBVIOUS
      <4>7. /\ \A i \in frame + 2 .. n : i \in 1 .. n /\ i # frame + 1
            /\ \A i \in 1 .. frame : i \in 1 .. n /\ i # frame + 1
        BY <1>1, <4>6
      <4>8. /\ \A i \in 1 .. frame : t[i] = st[i]
            /\ \A i \in frame + 2 .. Len(st) : t[i] = st[i]
        BY <4>5, <4>6, <4>7
      <4>9. Agree(st, t, frame)
        <5>1. Len(t) = Len(st)
          <6>1. st \in Seq(Values) /\ frame + 1 \in 1 .. Len(st) /\ Fresh \in Values
            BY ReadyFacts DEF Values
          <6>. QED BY <4>1, <6>1, ChangeFacts
        <5>. QED BY <1>1, <4>8, <5>1 DEF Agree
      <4>. QED BY <4>4, <4>5, <4>8, <4>9
    <3>3. \A i \in frame + 2 .. Len(st) : t[i] = st[i]
      BY <3>2
    <3>4. t[frame + 2] = fn
      <4>1. frame + 2 \in frame + 2 .. Len(st)
        BY <1>1
      <4>. QED BY <3>3, <4>1
    <3>5. Call(t, b, frame, argc, TRUE)
      BY <2>4, <3>1
    <3>6. \/ Abstract!Abort
          \/ Abstract!Called(Picture(t, b, frame), t[frame + 2], t[frame + 1],
                             Passing(t, frame), TRUE)
      BY <3>2, <3>5, CallSeen
    <3>7. Passing(t, frame) = Passing(st, frame)
      <4>1. PICK p, q : p = Passing(t, frame) /\ q = Passing(st, frame)
        OBVIOUS
      <4>2. p \in Seq(Values) /\ Len(p) = argc /\ \A i \in 1 .. argc : p[i] = t[frame + 2 + i]
        BY <3>2, <4>1, PassingFacts
      <4>3. q \in Seq(Values) /\ Len(q) = argc /\ \A i \in 1 .. argc : q[i] = st[frame + 2 + i]
        BY <4>1, PassingFacts
      <4>4. \A i \in 1 .. argc : frame + 2 + i \in frame + 2 .. Len(st)
        BY <1>1
      <4>5. \A i \in 1 .. argc : p[i] = q[i]
        BY <3>3, <4>2, <4>3, <4>4
      <4>6. p = q
        BY <4>2, <4>3, <4>5, SeqEqual
      <4>. QED BY <4>1, <4>6
    <3>8. /\ a \in Acts /\ a.frame = frame /\ a.kind = "new" /\ a.fn = fn
      BY <1>1, <2>1 DEF Activation, Acts, Kinds
    <3>9. Picture(t, b, frame) = Append(Picture(t, ac, frame), Show(a, t, frame))
      <4>1. ac \in Seq(Acts) /\ Grown(ac, a, b)
        BY <3>1 DEF Ready, Stands, Grown
      <4>2. Picture(t, b, frame) = Append(Picture(t, ac, a.frame), Show(a, t, frame))
        BY <3>8, <4>1, PicturePushed
      <4>. QED BY <3>8, <4>2
    <3>10. Picture(st, ac, frame) = Picture(t, ac, frame)
      <4>1. Stands(st, ac) /\ \A i \in 1 .. Len(ac) : Floor(ac[i]) <= frame
        BY DEF Ready
      <4>. QED BY <1>1, <3>2, <4>1, PictureKept
    <3>11. Show(a, t, frame) = Abstract!Activation("new", fn, Undefined, <<>>)
      BY <3>8 DEF Show, Abstract!Activation
    <3>12. \/ Abstract!Abort
           \/ Abstract!Called(Append(Picture(st, ac, frame),
                                     Abstract!Activation("new", fn, Undefined, <<>>)),
                              fn, Fresh, Passing(st, frame), TRUE)
      BY <3>2, <3>4, <3>6, <3>7, <3>9, <3>10, <3>11
    <3>. QED BY <1>3, <3>12 DEF Abstract!Constructed
  <2>. QED BY <2>2, <2>3, <2>4
<1>. QED BY <1>2, <1>3

LEMMA CallOpSeen == ASSUME IInv, CallOp PROVE Abstract!CallOp \/ Abstract!Abort
<1>1. acts # <<>> /\ Top.kind = "ir" /\ out = "run"
  BY DEF CallOp, InCode
<1>2. PICK n \in 0 .. Operands - 2, construct \in Modes :
        IF construct THEN Construct(stack, acts, Len(stack) - n - 2, n)
        ELSE Call(stack, acts, Len(stack) - n - 2, n, FALSE)
  BY DEF CallOp
<1>3. PICK f, l, g, p, k, z, m :
        /\ f = Len(stack) - n - 2 /\ l = Len(stack) /\ g = Floor(Top) /\ p = SubSeq(stack, g + 1, l)
        /\ m = l - g /\ k = m - n - 2 /\ z = 0
  OBVIOUS
<1>4. Ready(stack, acts, f, n) /\ g <= f /\ n \in Nat
  BY <1>1, <1>3, OperandsReady
<1>5. /\ Abstract!InCode /\ Abstract!Top.ops = p /\ p \in Seq(Values) /\ Len(p) = m /\ Operands = m
      /\ g \in Nat /\ l \in Nat /\ g <= l
  BY <1>1, <1>3, CodeSeen
<1>6. /\ stack \in Seq(Values) /\ Top \in Acts /\ Placed(Top) /\ Agree(stack, stack, Floor(Top))
      /\ Top = acts[Len(acts)]
  BY <1>1, TopFacts, SameStack
<1>7. /\ f \in Nat /\ f = g + k /\ k \in Nat /\ k + 2 <= m /\ f + 2 <= l /\ g + m = l /\ f <= l
      /\ l <= l /\ m \in Nat /\ z \in Nat /\ z <= k /\ g + z + 1 = g + 1 /\ z + 1 = 1
  <2>1. f = l - n - 2 /\ m = l - g /\ k = m - n - 2 /\ z = 0 /\ n <= m - 2
    BY <1>2, <1>3, <1>4, <1>5
  <2>. QED BY <1>4, <1>5, <2>1
<1>8. \A x \in 1 .. m : p[x] = stack[g + x]
  <2>1. l <= Len(stack) /\ l - g = m
    BY <1>3, <1>7
  <2>2. \A x \in 1 .. l - g : p[x] = stack[g + x]
    <3>1. stack \in Seq(Values) /\ g \in Nat /\ l \in Nat /\ g <= l /\ l <= Len(stack)
      BY <1>5, <1>6, <2>1
    <3>2. \A x \in 1 .. l - g : SubSeq(stack, g + 1, l)[x] = stack[g + x]
      BY <3>1, PartFacts
    <3>. QED BY <1>3, <3>2
  <2>. QED BY <2>1, <2>2
<1>9. p[k + 1] = stack[f + 1] /\ p[k + 2] = stack[f + 2]
  <2>1. k + 1 \in 1 .. m /\ k + 2 \in 1 .. m /\ g + (k + 1) = f + 1 /\ g + (k + 2) = f + 2
    BY <1>5, <1>7
  <2>. QED BY <1>8, <2>1
<1>10. SubSeq(p, k + 3, m) = Passing(stack, f)
  <2>1. PICK i : i = k + 2
    OBVIOUS
  <2>2. /\ i \in Nat /\ i <= m /\ i + 1 = k + 3 /\ g + i + 1 = f + 3 /\ g + m = l /\ g + m <= l
        /\ l <= Len(stack)
    <3>1. i = k + 2
      BY <2>1
    <3>2. l <= Len(stack)
      BY <1>3, <1>7
    <3>. QED BY <1>5, <1>7, <3>1, <3>2
  <2>3. SubSeq(SubSeq(stack, g + 1, l), i + 1, m) = SubSeq(stack, g + i + 1, g + m)
    <3>1. g \in Nat /\ l \in Nat /\ m \in Nat /\ g <= l /\ stack \in Seq(Values)
      BY <1>5, <1>6, <1>7
    <3>. QED BY <2>2, <3>1, PartPart
  <2>. QED BY <1>3, <2>2, <2>3 DEF Passing
<1>11. SubSeq(p, 1, k) = SubSeq(stack, g + 1, f)
  <2>1. SubSeq(SubSeq(stack, g + 1, l), z + 1, k) = SubSeq(stack, g + z + 1, g + k)
    <3>1. /\ stack \in Seq(Values) /\ g \in Nat /\ l \in Nat /\ z \in Nat /\ k \in Nat
          /\ g <= l /\ l <= Len(stack) /\ z <= k /\ g + k <= l
      BY <1>3, <1>5, <1>6, <1>7
    <3>. QED BY <3>1, PartPart
  <2>. QED BY <1>3, <1>7, <2>1
<1>12. Picture(stack, acts, f) = Abstract!WithOps(AbsActs, SubSeq(p, 1, k))
  <2>1. Picture(stack, acts, f) = Abstract!WithOps(AbsActs, Ops(Top, stack, f))
    BY <1>1, <1>6, TopChanged
  <2>2. Ops(Top, stack, f) = SubSeq(stack, g + 1, f)
    <3>1. Floor(Top) <= f /\ f <= Len(stack) /\ f \in Nat
      BY <1>3, <1>4, <1>7
    <3>. QED BY <1>1, <1>3, <1>6, <3>1, OpsFacts
  <2>. QED BY <1>11, <2>1, <2>2
<1>13. acts[Len(acts)].kind # "new"
  BY <1>1, <1>6
<1>14. \/ Abstract!Abort
       \/ IF construct
          THEN Abstract!Constructed(Picture(stack, acts, f), stack[f + 2], stack[f + 1],
                                    Passing(stack, f))
          ELSE Abstract!Called(Picture(stack, acts, f), stack[f + 2], stack[f + 1],
                               Passing(stack, f), FALSE)
  <2>1. CASE construct
    <3>1. Construct(stack, acts, f, n)
      BY <1>2, <1>3, <2>1
    <3>. QED BY <1>1, <1>4, <1>13, <2>1, <3>1, ConstructSeen
  <2>2. CASE ~construct
    <3>1. Call(stack, acts, f, n, FALSE)
      BY <1>2, <1>3, <2>2
    <3>. QED BY <1>1, <1>4, <2>2, <3>1, CallSeen
  <2>. QED BY <2>1, <2>2
<1>15. Len(Abstract!Top.ops) = m /\ n \in 0 .. m - 2 /\ k = m - n - 2
  BY <1>2, <1>3, <1>5
<1>16. \/ Abstract!Abort
       \/ IF construct
          THEN Abstract!Constructed(Abstract!WithOps(AbsActs, SubSeq(p, 1, k)), p[k + 2], p[k + 1],
                                    SubSeq(p, k + 3, m))
          ELSE Abstract!Called(Abstract!WithOps(AbsActs, SubSeq(p, 1, k)), p[k + 2], p[k + 1],
                               SubSeq(p, k + 3, m), FALSE)
  BY <1>9, <1>10, <1>12, <1>14
<1>17. ASSUME ~Abstract!Abort
       PROVE  Abstract!CallOp
  <2>1. LET q == Abstract!Top.ops
            k2 == Len(q) - n - 2
        IN IF construct
           THEN Abstract!Constructed(Abstract!WithOps(AbsActs, SubSeq(q, 1, k2)), q[k2 + 2],
                                     q[k2 + 1], SubSeq(q, k2 + 3, Len(q)))
           ELSE Abstract!Called(Abstract!WithOps(AbsActs, SubSeq(q, 1, k2)), q[k2 + 2],
                                q[k2 + 1], SubSeq(q, k2 + 3, Len(q)), FALSE)
    BY <1>5, <1>15, <1>16, <1>17
  <2>2. n \in 0 .. Len(Abstract!Top.ops) - 2
    BY <1>15
  <2>. QED BY <1>5, <2>1, <2>2 DEF Abstract!CallOp
<1>. QED BY <1>17

(* Native code and bound functions                                         *)
LEMMA PushedSeen ==
  ASSUME IInv, acts # <<>>, out = "run", NEW fn \in Values, NEW this \in Values,
         NEW args \in Seq(Values), NEW t, t = Pushed(fn, this, args)
  PROVE  /\ Call(t, acts, Len(stack), Len(args), FALSE) =>
              Abstract!Abort \/ Abstract!Called(AbsActs, fn, this, args, FALSE)
         /\ Construct(t, acts, Len(stack), Len(args)) =>
              Abstract!Abort \/ Abstract!Constructed(AbsActs, fn, this, args)
<1>1. PICK f, c : f = Len(stack) /\ c = Len(args)
  OBVIOUS
<1>2. /\ Ready(t, acts, f, c) /\ Agree(stack, t, f) /\ t[f + 1] = this /\ t[f + 2] = fn
      /\ \A i \in 1 .. c : t[f + 2 + i] = args[i]
  BY <1>1, PushedReady
<1>3. /\ acts[Len(acts)].kind # "new" /\ f \in Nat /\ t \in Seq(Values) /\ Stands(stack, acts)
  BY <1>1, <1>2, ReadyFacts DEF IInv, Topped
<1>4. Passing(t, f) = args
  <2>1. PICK p : p = Passing(t, f)
    OBVIOUS
  <2>2. p \in Seq(Values) /\ Len(p) = c /\ \A i \in 1 .. c : p[i] = t[f + 2 + i]
    BY <1>2, <2>1, PassingFacts
  <2>3. Len(p) = Len(args) /\ \A i \in 1 .. Len(p) : p[i] = args[i]
    BY <1>1, <1>2, <2>2
  <2>4. p = args
    BY <2>2, <2>3, SeqEqual
  <2>. QED BY <2>1, <2>4
<1>5. Picture(t, acts, f) = AbsActs
  <2>1. \A i \in 1 .. Len(acts) : Floor(acts[i]) <= f
    BY <1>2 DEF Ready
  <2>2. Picture(stack, acts, f) = Picture(t, acts, f)
    BY <1>2, <1>3, <2>1, PictureKept
  <2>3. AbsActs = Picture(stack, acts, f)
    BY <1>1, SeenNow
  <2>. QED BY <2>2, <2>3
<1>6. ASSUME Call(t, acts, f, c, FALSE)
      PROVE  Abstract!Abort \/ Abstract!Called(AbsActs, fn, this, args, FALSE)
  <2>1. \/ Abstract!Abort
        \/ Abstract!Called(Picture(t, acts, f), t[f + 2], t[f + 1], Passing(t, f), FALSE)
    BY <1>2, <1>6, CallSeen
  <2>. QED BY <1>2, <1>4, <1>5, <2>1
<1>7. ASSUME Construct(t, acts, f, c)
      PROVE  Abstract!Abort \/ Abstract!Constructed(AbsActs, fn, this, args)
  <2>1. \/ Abstract!Abort
        \/ Abstract!Constructed(Picture(t, acts, f), t[f + 2], t[f + 1], Passing(t, f))
    BY <1>2, <1>3, <1>7, ConstructSeen
  <2>. QED BY <1>2, <1>4, <1>5, <2>1
<1>. QED BY <1>1, <1>6, <1>7

LEMMA NativeCallsSeen ==
  ASSUME IInv, NativeCalls PROVE Abstract!NativeCalls \/ Abstract!Abort
<1>1. acts # <<>> /\ out = "run" /\ Top.kind = "native"
  BY DEF NativeCalls, Waiting
<1>2. PICK fn \in Loads, p \in Passed :
        \/ FALSE \in Modes /\ Call(Pushed(fn, p.this, p.args), acts, Len(stack), Len(p.args), FALSE)
        \/ TRUE \in Modes /\ Construct(Pushed(fn, Undefined, p.args), acts, Len(stack), Len(p.args))
  BY DEF NativeCalls
<1>3. fn \in Values /\ p.this \in Values /\ p.args \in Seq(Values) /\ Undefined \in Values
  BY SameAssumption DEF Abstract!FunctionsAssumption, Values, Abstract!Values
<1>4. \/ Abstract!Abort
      \/ FALSE \in Modes /\ Abstract!Called(AbsActs, fn, p.this, p.args, FALSE)
      \/ TRUE \in Modes /\ Abstract!Constructed(AbsActs, fn, Undefined, p.args)
  <2>1. CASE /\ FALSE \in Modes
             /\ Call(Pushed(fn, p.this, p.args), acts, Len(stack), Len(p.args), FALSE)
    BY <1>1, <1>3, <2>1, PushedSeen
  <2>2. CASE /\ TRUE \in Modes
             /\ Construct(Pushed(fn, Undefined, p.args), acts, Len(stack), Len(p.args))
    BY <1>1, <1>3, <2>2, PushedSeen
  <2>. QED BY <1>2, <2>1, <2>2
<1>5. AbsActs # <<>> /\ Abstract!Top.kind = "native" /\ AbsOut = Abstract!Run
  BY <1>1, TopSeen, SeenNow
<1>. QED BY <1>4, <1>5 DEF Abstract!NativeCalls

LEMMA BindSeen == ASSUME IInv, Bind PROVE Abstract!Bind \/ Abstract!Abort
<1>1. acts # <<>> /\ out = "run" /\ Top.kind \in {"bound", "boundnew"}
  BY DEF Bind, Waiting
<1>2. PICK fn, this, args : fn = Target[Top.fn].fn /\ this = Target[Top.fn].this /\ args = BoundArgs
  OBVIOUS
<1>3. /\ Top.kind = "bound" => Call(Pushed(fn, this, args), acts, Len(stack), Len(args), FALSE)
      /\ Top.kind # "bound" => Construct(Pushed(fn, Undefined, args), acts, Len(stack), Len(args))
  BY <1>2 DEF Bind, BoundArgs
<1>4. fn \in Values /\ this \in Values /\ args \in Seq(Values) /\ Undefined \in Values
  BY <1>1, <1>2, BoundFacts
<1>5. \/ Abstract!Abort
      \/ IF Top.kind = "bound" THEN Abstract!Called(AbsActs, fn, this, args, FALSE)
         ELSE Abstract!Constructed(AbsActs, fn, Undefined, args)
  <2>1. CASE Top.kind = "bound"
    BY <1>1, <1>3, <1>4, <2>1, PushedSeen
  <2>2. CASE Top.kind # "bound"
    BY <1>1, <1>3, <1>4, <2>2, PushedSeen
  <2>. QED BY <2>1, <2>2
<1>6. /\ AbsActs # <<>> /\ Abstract!Top.kind = Top.kind /\ AbsOut = Abstract!Run
      /\ Abstract!Top.fn = Top.fn
      /\ Abstract!Top.args = SubSeq(stack, Top.frame + 3, Top.frame + 2 + Held(Top))
  BY <1>1, TopSeen, SeenNow
<1>7. Held(Top) = Top.argc
  BY <1>1 DEF Held
<1>8. args = Target[Abstract!Top.fn].args \o Abstract!Top.args
  BY <1>2, <1>6, <1>7 DEF BoundArgs
<1>. QED BY <1>1, <1>2, <1>5, <1>6, <1>8 DEF Abstract!Bind

-----------------------------------------------------------------------------

LEMMA InitSeen == ASSUME Init PROVE Abstract!Init
<1>1. /\ First \in Seq(Values) /\ First[1] = Global /\ First[2] = Main
      /\ Params[Main] \in Nat /\ Locals[Main] \in Nat /\ Main \in Functions /\ Kind[Main] = "ir"
      /\ Len(First) = 2 + (Params[Main] + Locals[Main])
      /\ \A i \in 1 .. Params[Main] : First[2 + i] = Undefined
  BY FirstFacts
<1>2. PICK a, l, p, w, t : /\ a = Activation("ir", Main, 0, 0, Len(First)) /\ l = Len(First)
                           /\ p = Params[Main] /\ w = 2 + p /\ t = First
  OBVIOUS
<1>3. stack = t /\ acts = <<a>> /\ out = "run"
  BY <1>2 DEF Init, First
<1>4. /\ a.kind = "ir" /\ a.fn = Main /\ a.frame = 0 /\ a.argc = 0
      /\ a.base = l /\ a.junk = 0
  BY <1>2 DEF Activation
<1>5. l \in Nat /\ p \in Nat /\ w \in Nat /\ w <= l /\ w = 2 + p /\ 2 <= w /\ w - 2 = p
  <2>1. PICK m : m = Locals[Main]
    OBVIOUS
  <2>2. l = 2 + (p + m) /\ p \in Nat /\ m \in Nat /\ w = 2 + p
    BY <1>1, <1>2, <2>1
  <2>. QED BY <2>2
<1>6. Held(a) = p
  <2>1. Held(a) = 0 + Missing(Main, 0) /\ Missing(Main, 0) = IF 0 < p THEN p - 0 ELSE 0
    BY <1>2, <1>4 DEF Held, Missing
  <2>. QED BY <1>5, <2>1
<1>7. PICK r : r = SubSeq(t, 2 + 1, w)
  OBVIOUS
<1>8. r \in Seq(Values) /\ Len(r) = p /\ \A i \in 1 .. p : r[i] = Undefined
  <2>1. PICK k : k = 2
    OBVIOUS
  <2>2. t \in Seq(Values) /\ k \in Nat /\ w \in Nat /\ k <= w /\ w <= Len(t) /\ w - k = p
    BY <1>1, <1>2, <1>5, <2>1
  <2>3. r = SubSeq(t, k + 1, w)
    BY <1>7, <2>1
  <2>4. r \in Seq(Values) /\ Len(r) = w - k /\ \A i \in 1 .. w - k : r[i] = t[k + i]
    BY <2>2, <2>3, PartFacts
  <2>. QED BY <1>1, <1>2, <2>1, <2>2, <2>4
<1>9. r = Abstract!Arguments(Main, <<>>)
  <2>1. PICK z : z = <<>> /\ Len(z) = 0
    OBVIOUS
  <2>2. r = [i \in 1 .. p |-> r[i]]
    <3>1. r \in [1 .. p -> Values]
      BY <1>8, LenProperties
    <3>. QED BY <3>1
  <2>3. CASE 0 < p
    <3>1. Abstract!Arguments(Main, z) = [i \in 1 .. p |-> IF i <= 0 THEN z[i] ELSE Undefined]
      BY <1>2, <2>1, <2>3 DEF Abstract!Arguments, Abstract!Padded
    <3>2. \A i \in 1 .. p : ~(i <= 0)
      OBVIOUS
    <3>3. Abstract!Arguments(Main, z) = [i \in 1 .. p |-> Undefined]
      BY <3>1, <3>2
    <3>. QED BY <1>8, <2>1, <2>2, <3>3
  <2>4. CASE ~(0 < p)
    <3>1. Len(r) = 0
      BY <1>5, <1>8, <2>4
    <3>2. r = <<>>
      BY <1>8, <3>1, SeqFacts
    <3>. QED BY <1>2, <2>1, <2>4, <3>2 DEF Abstract!Arguments
  <2>. QED BY <2>3, <2>4
<1>10. Ops(a, t, l) = <<>>
  <2>1. l <= Len(t)
    BY <1>2, <1>5
  <2>2. SubSeq(t, l + 1, l) = <<>>
    BY <1>1, <1>2, <1>5, <2>1, NoPart
  <2>3. l + 0 + 1 = l + 1
    BY <1>5
  <2>. QED BY <1>4, <2>2, <2>3 DEF Ops
<1>11. Show(a, t, l) = [kind |-> "ir", fn |-> Main, this |-> Global, args |-> r, ops |-> <<>>]
  <2>1. 0 + 3 = 2 + 1 /\ 0 + 2 + p = w /\ 0 + 2 = 2 /\ 0 + 1 = 1
    BY <1>5
  <2>2. t[0 + 2] = Main /\ t[0 + 1] = Global /\ SubSeq(t, 0 + 3, 0 + 2 + p) = r
    BY <1>1, <1>2, <1>7, <2>1
  <2>. QED BY <1>4, <1>6, <1>10, <2>2 DEF Show
<1>12. Abstract!Entered(Main, Global, <<>>) =
         [kind |-> "ir", fn |-> Main, this |-> Global, args |-> r, ops |-> <<>>]
  <2>1. Global # Undefined \/ Global = Undefined
    OBVIOUS
  <2>. QED BY <1>1, <1>9 DEF Abstract!Entered, Abstract!Activation
<1>13. AbsActs = <<Show(a, t, l)>>
  <2>1. AbsActs = Picture(t, <<a>>, l)
    BY <1>2, <1>3, SeenNow
  <2>2. PICK e : e = Show(a, t, l)
    OBVIOUS
  <2>3. Picture(t, <<a>>, l) = [i \in 1 .. 1 |-> e]
    BY <2>2 DEF Picture
  <2>4. [i \in 1 .. 1 |-> e] = <<e>>
    OBVIOUS
  <2>. QED BY <2>1, <2>2, <2>3, <2>4
<1>14. AbsOut = Abstract!Run
  BY <1>3, SeenNow
<1>. QED BY <1>11, <1>12, <1>13, <1>14 DEF Abstract!Init

LEMMA NextSeen ==
  ASSUME IInv, Next
  PROVE  BoundResumes \/ Abstract!Next
BY LoadSeen, DropSeen, SwapSeen, CallOpSeen, BindSeen, ReturnOpSeen, NativeReturnsSeen,
   NativeCallsSeen, CodeResumesSeen, NativeResumesSeen, NewResumesSeen, BoundNewResumesSeen,
   ThrowSeen, CatchSeen, LeaveSeen DEF Next, Abstract!Next

LEMMA SameSeen == ASSUME UNCHANGED vars PROVE UNCHANGED Abstract!vars
BY DEF vars, AbsActs, AbsOut, Edge, Abstract!vars

(* Calls on the one shared stack behave as if every activation had values  *)
(* of its own, for all functions, all values passed and every size of the  *)
(* stack; only the return of a bound function's call does not.             *)
THEOREM CallsAsPromised == Spec => Calling
<1>1. Init => IInv /\ Abstract!Init
  BY InitInv, InitSeen
<1>2. IInv /\ [Next]_vars => IInv'
  BY NextInv, SameInv
<1>3. IInv /\ [Next]_vars => [BoundResumes \/ Abstract!Next]_(Abstract!vars)
  BY NextSeen, SameSeen
<1>. QED BY <1>1, <1>2, <1>3, PTL DEF Spec, Calling
=============================================================================
