---------------------------- MODULE LayoutProofs ----------------------------
(***************************************************************************)
(* What holds of Layout for every text, table and number.                  *)
(*                                                                         *)
(* The functions of Layout are recursive, so their theorems are inductions *)
(* over sequences.  Induction over a set comes from the least member that  *)
(* a well-founded order gives every set, and that a recursive definition   *)
(* has a solution is proved here as well, from the finite runs of it.      *)
(***************************************************************************)
EXTENDS Layout, TLAPS, FiniteSetTheorems, SequenceTheorems, WellFoundedInduction


(***************************************************************************)
(* Induction, in the form the provers can use: a property is the set of    *)
(* the values that have it.                                                *)
(***************************************************************************)
LEMMA NatLeast ==
    ASSUME NEW S, S \subseteq Nat, S # {}
    PROVE \E n \in S : \A m \in S : n <= m
<1> DEFINE R == OpToRel(<, Nat)
<1>1. IsWellFoundedOn(R, Nat)
  BY NatLessThanWellFounded
<1>2. \A m, n \in Nat : <<m, n>> \in R <=> m < n
  BY DEF OpToRel
<1> HIDE DEF R
<1>3. PICK n \in S : \A m \in S : ~ (<<m, n>> \in R)
  BY <1>1, WFMin
<1>4. ASSUME NEW m \in S PROVE n <= m
  <2>1. n \in Nat /\ m \in Nat /\ ~ (<<m, n>> \in R)  BY <1>3
  <2>2. ~ (m < n)  BY <1>2, <2>1
  <2> QED BY <2>1, <2>2
<1> QED BY <1>4

LEMMA NatInductionSet ==
    ASSUME NEW S, 0 \in S, \A n \in Nat : n \in S => n + 1 \in S
    PROVE \A n \in Nat : n \in S
<1> SUFFICES ASSUME Nat \ S # {} PROVE FALSE
  OBVIOUS
<1>1. PICK n \in Nat \ S : \A m \in Nat \ S : n <= m
  BY NatLeast
<1>2. n - 1 \in Nat
  BY <1>1
<1>3. n - 1 \in S /\ n - 1 + 1 = n
  BY <1>1, <1>2
<1> QED BY <1>1, <1>2, <1>3

LEMMA SeqInductionSet ==
    ASSUME NEW S, NEW P, << >> \in P,
           \A s \in Seq(S), e \in S : s \in P => Append(s, e) \in P
    PROVE \A s \in Seq(S) : s \in P
<1> DEFINE N == {n \in Nat : \A s \in Seq(S) : Len(s) = n => s \in P}
<1>1. 0 \in N
  BY EmptySeq
<1>2. ASSUME NEW n \in Nat, n \in N PROVE n + 1 \in N
  <2> SUFFICES ASSUME NEW s \in Seq(S), Len(s) = n + 1 PROVE s \in P
    OBVIOUS
  <2>1. s # << >>
    OBVIOUS
  <2>2. PICK t \in Seq(S), e \in S : s = Append(t, e)
    BY <2>1, SequenceEmptyOrAppend
  <2>3. Len(t) = n
    BY <2>2
  <2> QED BY <1>2, <2>2, <2>3
<1> HIDE DEF N
<1>3. \A n \in Nat : n \in N
  BY <1>1, <1>2, NatInductionSet
<1>4. ASSUME NEW s \in Seq(S) PROVE s \in P
  <2>1. Len(s) \in N
    BY <1>3
  <2> QED BY <2>1 DEF N
<1> QED BY <1>4

(***************************************************************************)
(* A function on sequences may be defined by what it is on the empty one   *)
(* and on a longer one, as the functions of Layout are.                    *)
(***************************************************************************)
Steps(S, T) == [T \X S \X Nat -> T]

Repeats(S, T, base, step, f) ==
    /\ f \in [Seq(S) -> T]
    /\ f[<< >>] = base
    /\ \A s \in Seq(S), e \in S : f[Append(s, e)] = step[<<f[s], e, Len(s)>>]

LEMMA SeqRecursion ==
    ASSUME NEW S, NEW T, NEW base \in T, NEW step \in Steps(S, T)
    PROVE \E f : Repeats(S, T, base, step, f)
<1> USE DEF Steps, Repeats
<1> DEFINE Run(s, g) == /\ g \in [0 .. Len(s) -> T] /\ g[0] = base
                        /\ \A k \in 1 .. Len(s) : g[k] = step[<<g[k - 1], s[k], k - 1>>]
           P == {s \in Seq(S) : \E g : Run(s, g)}
           f == [s \in Seq(S) |-> CHOOSE v : \E g : Run(s, g) /\ v = g[Len(s)]]
<1>0. \A s \in Seq(S) : Len(s) \in Nat /\ \A k \in 1 .. Len(s) : s[k] \in S
  OBVIOUS
<1>1. << >> \in P
  <2> DEFINE g == [k \in 0 .. 0 |-> base]
  <2>1. << >> \in Seq(S) /\ Len(<< >>) = 0
    OBVIOUS
  <2>2. g \in [0 .. 0 -> T] /\ g[0] = base
    OBVIOUS
  <2> HIDE DEF g
  <2>3. Run(<< >>, g)
    BY <2>1, <2>2
  <2> QED BY <2>1, <2>3
<1>2. ASSUME NEW s \in Seq(S), NEW e \in S, s \in P PROVE Append(s, e) \in P
  <2>1. PICK g : Run(s, g)
    BY <1>2
  <2> DEFINE n == Len(s)
             h == [k \in 0 .. n + 1 |-> IF k <= n THEN g[k] ELSE step[<<g[n], e, n>>]]
  <2>2. /\ Append(s, e) \in Seq(S) /\ Len(Append(s, e)) = n + 1
        /\ \A k \in 1 .. n : Append(s, e)[k] = s[k]
        /\ Append(s, e)[n + 1] = e
    OBVIOUS
  <2>3. n \in Nat /\ g \in [0 .. n -> T] /\ g[0] = base
        /\ \A k \in 1 .. n : g[k] = step[<<g[k - 1], s[k], k - 1>>]
    BY <2>1
  <2> HIDE DEF n, Run
  <2>4. g[n] \in T
    BY <2>3
  <2>5. step[<<g[n], e, n>>] \in T
    BY <2>3, <2>4
  <2>6. h \in [0 .. n + 1 -> T]
    <3>1. ASSUME NEW k \in 0 .. n + 1
          PROVE (IF k <= n THEN g[k] ELSE step[<<g[n], e, n>>]) \in T
      <4>1. CASE k <= n
        <5>1. k \in 0 .. n  BY <4>1, <2>3
        <5> QED BY <5>1, <4>1, <2>3
      <4>2. CASE ~ (k <= n)
        BY <4>2, <2>5
      <4> QED BY <4>1, <4>2
    <3> QED BY <3>1
  <2>7. (\A k \in 0 .. n : h[k] = g[k]) /\ h[n + 1] = step[<<g[n], e, n>>] /\ h[0] = base
    BY <2>3
  <2> HIDE DEF h
  <2>8. ASSUME NEW k \in 1 .. n + 1
        PROVE h[k] = step[<<h[k - 1], Append(s, e)[k], k - 1>>]
    <3>1. CASE k \in 1 .. n
      <4>1. h[k] = g[k] /\ h[k - 1] = g[k - 1]
        BY <2>3, <2>7, <3>1
      <4>2. Append(s, e)[k] = s[k] /\ g[k] = step[<<g[k - 1], s[k], k - 1>>]
        BY <2>2, <2>3, <3>1
      <4> QED BY <4>1, <4>2
    <3>2. CASE k = n + 1
      <4>1. h[k - 1] = g[n] /\ k - 1 = n
        BY <2>3, <2>7, <3>2
      <4> QED BY <2>2, <2>7, <3>2, <4>1
    <3>3. k \in 1 .. n \/ k = n + 1
      BY <2>3
    <3> QED BY <3>1, <3>2, <3>3
  <2>9. Run(Append(s, e), h)
    BY <2>2, <2>6, <2>7, <2>8 DEF Run
  <2> QED BY <2>2, <2>9
<1> HIDE DEF P
<1>3. \A s \in Seq(S) : \E g : Run(s, g)
  <2>1. \A s \in Seq(S) : s \in P
    <3> HIDE DEF P
    <3> QED BY <1>1, <1>2, SeqInductionSet
  <2> QED BY <2>1 DEF P
\* Two runs agree as far as the sequences do.
<1>4. ASSUME NEW s \in Seq(S), NEW t \in Seq(S), NEW g, NEW h, Run(s, g), Run(t, h),
             Len(s) <= Len(t), \A k \in 1 .. Len(s) : s[k] = t[k]
      PROVE g[Len(s)] = h[Len(s)]
  <2> DEFINE N == {k \in Nat : k <= Len(s) => g[k] = h[k]}
  <2>1. 0 \in N
    BY <1>4
  <2>2. ASSUME NEW k \in Nat, k \in N PROVE k + 1 \in N
    <3> SUFFICES ASSUME k + 1 <= Len(s) PROVE g[k + 1] = h[k + 1]
      OBVIOUS
    <3>1. k + 1 \in 1 .. Len(s) /\ k + 1 \in 1 .. Len(t) /\ k + 1 - 1 = k
      BY <1>0, <1>4
    <3>2. g[k] = h[k]
      BY <1>0, <2>2
    <3>3. s[k + 1] = t[k + 1]
      BY <1>4, <3>1
    <3>4. /\ \A m \in 1 .. Len(s) : g[m] = step[<<g[m - 1], s[m], m - 1>>]
          /\ \A m \in 1 .. Len(t) : h[m] = step[<<h[m - 1], t[m], m - 1>>]
      BY <1>4
    <3> HIDE DEF Run
    <3>5. g[k + 1] = step[<<g[k], s[k + 1], k>>] /\ h[k + 1] = step[<<h[k], t[k + 1], k>>]
      <4> DEFINE m == k + 1
      <4>1. m - 1 = k /\ m \in 1 .. Len(s) /\ m \in 1 .. Len(t)
        BY <3>1
      <4> HIDE DEF m
      <4>2. g[m] = step[<<g[k], s[m], k>>] /\ h[m] = step[<<h[k], t[m], k>>]
        BY <3>4, <4>1
      <4> QED BY <4>2 DEF m
    <3> QED BY <3>2, <3>3, <3>5
  <2> HIDE DEF N
  <2>3. \A k \in Nat : k \in N
    BY <2>1, <2>2, NatInductionSet
  <2>4. Len(s) \in N
    BY <2>3
  <2> QED BY <2>4 DEF N
<1>5. ASSUME NEW s \in Seq(S), NEW g, Run(s, g) PROVE f[s] = g[Len(s)] /\ f[s] \in T
  <2>1. \E w : \E h : Run(s, h) /\ w = h[Len(s)]
    BY <1>5
  <2>2. f[s] = CHOOSE v : \E h : Run(s, h) /\ v = h[Len(s)]
    OBVIOUS
  <2>3. PICK h : Run(s, h) /\ f[s] = h[Len(s)]
    <3> HIDE DEF Run, f
    <3> QED BY <2>1, <2>2
  <2> HIDE DEF f
  <2>4. g[Len(s)] = h[Len(s)]
    <3> HIDE DEF Run
    <3>1. Len(s) <= Len(s)
      BY <1>0
    <3> QED BY <1>4, <1>5, <2>3, <3>1
  <2>5. g[Len(s)] \in T
    BY <1>0, <1>5
  <2> QED BY <2>3, <2>4, <2>5
<1>6. f \in [Seq(S) -> T]
  <2>1. ASSUME NEW s \in Seq(S) PROVE f[s] \in T
    <3> HIDE DEF f, Run
    <3> QED BY <1>3, <1>5
  <2> HIDE DEF Run
  <2> QED BY <2>1
<1> HIDE DEF f
<1>7. f[<< >>] = base
  <2>0. << >> \in Seq(S) /\ Len(<< >>) = 0
    OBVIOUS
  <2>1. PICK g : Run(<< >>, g)
    <3> HIDE DEF Run
    <3> QED BY <1>3, <2>0
  <2>2. g[0] = base
    BY <2>1
  <2> HIDE DEF Run
  <2>3. f[<< >>] = g[Len(<< >>)]
    BY <1>5, <2>0, <2>1
  <2> QED BY <2>0, <2>2, <2>3
<1>8. ASSUME NEW s \in Seq(S), NEW e \in S PROVE f[Append(s, e)] = step[<<f[s], e, Len(s)>>]
  <2>1. /\ Append(s, e) \in Seq(S) /\ Len(Append(s, e)) = Len(s) + 1
        /\ \A k \in 1 .. Len(s) : Append(s, e)[k] = s[k]
        /\ Append(s, e)[Len(s) + 1] = e
    OBVIOUS
  <2>2. PICK g : Run(s, g)
    BY <1>3
  <2>3. PICK h : Run(Append(s, e), h)
    BY <1>3, <2>1
  <2>4. g[Len(s)] = h[Len(s)]
    <3>1. Len(s) <= Len(Append(s, e))
      BY <1>0, <2>1
    <3> HIDE DEF Run
    <3> QED BY <1>4, <2>1, <2>2, <2>3, <3>1
  <2>5. f[s] = g[Len(s)] /\ f[Append(s, e)] = h[Len(s) + 1]
    <3> HIDE DEF Run
    <3> QED BY <1>5, <2>1, <2>2, <2>3
  <2>6. h[Len(s) + 1] = step[<<h[Len(s)], e, Len(s)>>]
    <3> DEFINE m == Len(s) + 1
    <3>1. \A k \in 1 .. Len(Append(s, e)) :
            h[k] = step[<<h[k - 1], Append(s, e)[k], k - 1>>]
      BY <2>3
    <3>2. m \in 1 .. Len(Append(s, e)) /\ m - 1 = Len(s) /\ Append(s, e)[m] = e
      BY <1>0, <2>1
    <3> HIDE DEF Run, m
    <3>3. h[m] = step[<<h[Len(s)], e, Len(s)>>]
      BY <3>1, <3>2
    <3> QED BY <3>3 DEF m
  <2> QED BY <2>4, <2>5, <2>6
<1> QED BY <1>6, <1>7, <1>8

(***************************************************************************)
(* A recursion that takes the last element off computes what it says.      *)
(***************************************************************************)
LEMMA FrontOfAppend ==
    ASSUME NEW S, NEW s \in Seq(S), NEW e \in S
    PROVE /\ Append(s, e) \in Seq(S) /\ Append(s, e) # << >>
          /\ Front(Append(s, e)) = s /\ Last(Append(s, e)) = e
          /\ Len(Append(s, e)) = Len(s) + 1
  BY DEF Front, Last

LEMMA AppendToFront ==
    ASSUME NEW S, NEW s \in Seq(S), s # << >>
    PROVE /\ Front(s) \in Seq(S) /\ Last(s) \in S /\ Append(Front(s), Last(s)) = s
          /\ Len(s) = Len(Front(s)) + 1 /\ Len(s) - 1 \in Nat
<1>1. PICK t \in Seq(S), e \in S : s = Append(t, e)
  BY SequenceEmptyOrAppend
<1> QED BY <1>1, FrontOfAppend

LEMMA RepeatsFront ==
    ASSUME NEW S, NEW T, NEW base, NEW step, NEW f, Repeats(S, T, base, step, f),
           NEW s \in Seq(S), s # << >>
    PROVE f[s] = step[<<f[Front(s)], Last(s), Len(s) - 1>>]
<1>1. /\ Front(s) \in Seq(S) /\ Last(s) \in S /\ Append(Front(s), Last(s)) = s
      /\ Len(s) = Len(Front(s)) + 1 /\ Len(Front(s)) \in Nat
  BY AppendToFront
<1>2. Len(s) - 1 = Len(Front(s))
  BY <1>1
<1> QED BY <1>1, <1>2 DEF Repeats

\* A function that takes the steps of a recursion has its values in T.
LEMMA SeqFunction ==
    ASSUME NEW S, NEW T, NEW base \in T, NEW step \in Steps(S, T), NEW F,
           F = [s \in Seq(S) |-> F[s]],
           F[<< >>] = base,
           \A s \in Seq(S), e \in S :
              F[s] \in T => F[Append(s, e)] = step[<<F[s], e, Len(s)>>]
    PROVE Repeats(S, T, base, step, F)
<1> DEFINE P == {s \in Seq(S) : F[s] \in T}
<1>1. << >> \in P
  BY EmptySeq
<1>2. ASSUME NEW s \in Seq(S), NEW e \in S, s \in P PROVE Append(s, e) \in P
  <2>1. Append(s, e) \in Seq(S) /\ Len(s) \in Nat
    BY FrontOfAppend
  <2>2. step[<<F[s], e, Len(s)>>] \in T
    BY <1>2, <2>1 DEF Steps
  <2> QED BY <1>2, <2>1, <2>2
<1> HIDE DEF P
<1>3. \A s \in Seq(S) : s \in P
  BY <1>1, <1>2, SeqInductionSet
<1>4. \A s \in Seq(S) : F[s] \in T
  BY <1>3 DEF P
<1>5. F \in [Seq(S) -> T]
  BY <1>4
<1> QED BY <1>4, <1>5 DEF Repeats

\* The functions of Layout: their types, and one equation for each case.
LEMMA LengthOfWords ==
    /\ LengthOf \in [Seq(Nat) -> Nat]
    /\ LengthOf[<< >>] = 0
    /\ \A s \in Seq(Nat), e \in Nat : LengthOf[Append(s, e)] = LengthOf[s] + 1 + e
<1> DEFINE step == [x \in Nat \X Nat \X Nat |-> x[1] + 1 + x[2]]
           Body(f) == [s \in Seq(Nat) |-> IF s = << >> THEN 0 ELSE f[Front(s)] + 1 + Last(s)]
<1>1. step \in Steps(Nat, Nat)
  BY DEF Steps
<1>2. \A x, y, n \in Nat : step[<<x, y, n>>] = x + 1 + y
  OBVIOUS
<1> HIDE DEF step
<1>3. PICK f : Repeats(Nat, Nat, 0, step, f)
  BY <1>1, SeqRecursion
<1>4. f = Body(f)
  <2>1. ASSUME NEW s \in Seq(Nat), s # << >> PROVE f[s] = f[Front(s)] + 1 + Last(s)
    <3>1. f[s] = step[<<f[Front(s)], Last(s), Len(s) - 1>>]
      BY <1>3, <2>1, RepeatsFront
    <3>2. f[Front(s)] \in Nat /\ Last(s) \in Nat /\ Len(s) - 1 \in Nat
      BY <1>3, <2>1, AppendToFront DEF Repeats
    <3> QED BY <1>2, <3>1, <3>2
  <2> QED BY <1>3, <2>1 DEF Repeats
<1>5. LengthOf = Body(LengthOf)
  BY <1>4 DEF LengthOf
<1>6. LengthOf[<< >>] = 0
  BY <1>5, EmptySeq
<1>7. ASSUME NEW s \in Seq(Nat), NEW e \in Nat
      PROVE LengthOf[Append(s, e)] = LengthOf[s] + 1 + e
  <2> DEFINE t == Append(s, e)
  <2>1. t \in Seq(Nat) /\ t # << >> /\ Front(t) = s /\ Last(t) = e
    BY FrontOfAppend
  <2> HIDE DEF t
  <2>2. LengthOf[t] = LengthOf[s] + 1 + e
    BY <1>5, <2>1
  <2> QED BY <2>2 DEF t
<1>8. LengthOf = [s \in Seq(Nat) |-> LengthOf[s]]
  BY <1>5
<1> HIDE DEF Body
<1>9. Repeats(Nat, Nat, 0, step, LengthOf)
  <2>1. ASSUME NEW s \in Seq(Nat), NEW e \in Nat, LengthOf[s] \in Nat
        PROVE LengthOf[Append(s, e)] = step[<<LengthOf[s], e, Len(s)>>]
    <3>1. Len(s) \in Nat
      OBVIOUS
    <3>2. step[<<LengthOf[s], e, Len(s)>>] = LengthOf[s] + 1 + e
      BY <1>2, <2>1, <3>1
    <3> QED BY <1>7, <3>2
  <2> DEFINE T == Nat
  <2>2. 0 \in T /\ step \in Steps(Nat, T)
    BY <1>1
  <2>3. \A s \in Seq(Nat), e \in Nat :
          LengthOf[s] \in T => LengthOf[Append(s, e)] = step[<<LengthOf[s], e, Len(s)>>]
    BY <2>1
  <2> HIDE DEF T
  <2>4. Repeats(Nat, T, 0, step, LengthOf)
    BY <1>6, <1>8, <2>2, <2>3, SeqFunction
  <2> QED BY <2>4 DEF T
<1> QED BY <1>6, <1>7, <1>9 DEF Repeats

LEMMA WordsOfText ==
    /\ Words \in [Seq(Nat) -> Seq(Nat)]
    /\ Words[<< >>] = << >>
    /\ \A s \in Seq(Nat), e \in Nat :
          Words[Append(s, e)] = IF e = 0 THEN Words[s] ELSE Append(Words[s], e)
<1> DEFINE T == Seq(Nat)
           step == [x \in T \X Nat \X Nat |-> IF x[2] = 0 THEN x[1] ELSE Append(x[1], x[2])]
           Body(f) == [s \in Seq(Nat) |->
                         IF s = << >> THEN << >>
                         ELSE IF Last(s) = 0 THEN f[Front(s)]
                         ELSE Append(f[Front(s)], Last(s))]
<1>1. step \in Steps(Nat, T)
  BY DEF Steps
<1>2. \A x \in T, y, n \in Nat : step[<<x, y, n>>] = IF y = 0 THEN x ELSE Append(x, y)
  OBVIOUS
<1>0. << >> \in T
  OBVIOUS
<1> HIDE DEF step
<1>3. PICK f : Repeats(Nat, T, << >>, step, f)
  BY <1>0, <1>1, SeqRecursion
<1>4. f = Body(f)
  <2>1. ASSUME NEW s \in Seq(Nat), s # << >>
        PROVE f[s] = IF Last(s) = 0 THEN f[Front(s)] ELSE Append(f[Front(s)], Last(s))
    <3>1. f[s] = step[<<f[Front(s)], Last(s), Len(s) - 1>>]
      BY <1>3, <2>1, RepeatsFront
    <3>2. f[Front(s)] \in T /\ Last(s) \in Nat /\ Len(s) - 1 \in Nat
      BY <1>3, <2>1, AppendToFront DEF Repeats
    <3> QED BY <1>2, <3>1, <3>2
  <2> QED BY <1>3, <2>1 DEF Repeats
<1>5. Words = Body(Words)
  BY <1>4 DEF Words
<1>6. Words[<< >>] = << >>
  BY <1>5, EmptySeq
<1>7. ASSUME NEW s \in Seq(Nat), NEW e \in Nat
      PROVE Words[Append(s, e)] = IF e = 0 THEN Words[s] ELSE Append(Words[s], e)
  <2> DEFINE t == Append(s, e)
  <2>1. t \in Seq(Nat) /\ t # << >> /\ Front(t) = s /\ Last(t) = e
    BY FrontOfAppend
  <2> HIDE DEF t
  <2>2. Words[t] = IF e = 0 THEN Words[s] ELSE Append(Words[s], e)
    BY <1>5, <2>1
  <2> QED BY <2>2 DEF t
<1>8. Words = [s \in Seq(Nat) |-> Words[s]]
  BY <1>5
<1> HIDE DEF Body, T
<1>9. Repeats(Nat, T, << >>, step, Words)
  <2>1. ASSUME NEW s \in Seq(Nat), NEW e \in Nat, Words[s] \in T
        PROVE Words[Append(s, e)] = step[<<Words[s], e, Len(s)>>]
    BY <1>2, <1>7, <2>1
  <2> QED BY <1>0, <1>1, <1>6, <1>8, <2>1, SeqFunction
<1> QED BY <1>6, <1>7, <1>9 DEF Repeats, T

(***************************************************************************)
(* Least and greatest members.                                             *)
(***************************************************************************)
LEMMA MinMember ==
    ASSUME NEW S, S \subseteq Nat, S # {}
    PROVE Min(S) \in S /\ \A y \in S : Min(S) <= y
<1>1. PICK n \in S : \A m \in S : n <= m
  BY NatLeast
<1> QED BY <1>1 DEF Min

LEMMA MaxMember ==
    ASSUME NEW S, S \subseteq Nat, S # {}, NEW b \in Nat, \A x \in S : x <= b
    PROVE Max(S) \in S /\ \A y \in S : y <= Max(S)
<1> DEFINE D == {b - x : x \in S}
<1>1. PICK d \in D : \A m \in D : d <= m
  <2>1. \A x \in S : b - x \in Nat
    OBVIOUS
  <2>2. D \subseteq Nat /\ D # {}
    BY <2>1
  <2> HIDE DEF D
  <2> QED BY <2>2, NatLeast
<1>2. PICK x \in S : d = b - x
  BY <1>1
<1>3. \A y \in S : x >= y
  BY <1>1, <1>2
<1> QED BY <1>2, <1>3 DEF Max

(***************************************************************************)
(* Blanks at the ends of a text.                                           *)
(***************************************************************************)
LEMMA TrimmedEnds ==
    ASSUME NEW s \in Seq(Nat)
    PROVE \/ Trimmed(s) = << >> /\ \A k \in 1 .. Len(s) : s[k] = 0
          \/ \E a, b \in 1 .. Len(s) :
                /\ a <= b /\ Trimmed(s) = SubSeq(s, a, b)
                /\ s[a] > 0
                /\ \A k \in 1 .. Len(s) : k < a \/ k > b => s[k] = 0
<1> DEFINE full == {k \in 1 .. Len(s) : s[k] > 0}
<1>0. Len(s) \in Nat /\ \A k \in 1 .. Len(s) : s[k] \in Nat
  OBVIOUS
<1>1. CASE full = {}
  <2>1. \A k \in 1 .. Len(s) : s[k] = 0
    BY <1>0, <1>1
  <2> QED BY <1>1, <2>1 DEF Trimmed
<1>2. CASE full # {}
  <2>1. full \subseteq Nat /\ \A k \in full : k <= Len(s) /\ k \in 1 .. Len(s) /\ s[k] > 0
    OBVIOUS
  <2>2. Trimmed(s) = SubSeq(s, Min(full), Max(full))
    BY <1>2 DEF Trimmed
  <2>3. \A k \in 1 .. Len(s) : k \notin full => s[k] = 0
    BY <1>0
  <2> HIDE DEF full
  <2>4. Min(full) \in full /\ \A y \in full : Min(full) <= y
    BY <1>2, <2>1, MinMember
  <2>5. Max(full) \in full /\ \A y \in full : y <= Max(full)
    BY <1>0, <1>2, <2>1, MaxMember
  <2> DEFINE a == Min(full)
             b == Max(full)
  <2>6. a \in 1 .. Len(s) /\ b \in 1 .. Len(s) /\ a <= b /\ s[a] > 0
    BY <2>1, <2>4, <2>5
  <2>7. ASSUME NEW k \in 1 .. Len(s), k < a \/ k > b PROVE s[k] = 0
    <3>1. k \notin full
      BY <2>1, <2>4, <2>5, <2>6, <2>7
    <3> QED BY <2>3, <3>1
  <2> HIDE DEF a, b
  <2> QED BY <2>2, <2>6, <2>7 DEF a, b
<1> QED BY <1>1, <1>2

LEMMA TrimmedText ==
    ASSUME NEW s \in Seq(Nat)
    PROVE Trimmed(s) \in Seq(Nat) /\ Len(Trimmed(s)) <= Len(s)
<1>1. CASE Trimmed(s) = << >>
  BY <1>1
<1>2. CASE \E a, b \in 1 .. Len(s) : a <= b /\ Trimmed(s) = SubSeq(s, a, b)
  <2>1. PICK a, b \in 1 .. Len(s) : a <= b /\ Trimmed(s) = SubSeq(s, a, b)
    BY <1>2
  <2>2. a \in Int /\ b \in Int /\ \A i \in a .. b : s[i] \in Nat
    OBVIOUS
  <2>3. SubSeq(s, a, b) \in Seq(Nat) /\ Len(SubSeq(s, a, b)) = b - a + 1
    BY <2>1, <2>2, SubSeqProperties
  <2> QED BY <2>1, <2>3
<1> QED BY <1>1, <1>2, TrimmedEnds

(***************************************************************************)
(* The lines a text is cut into.                                           *)
(***************************************************************************)
LEMMA ExtendedLine ==
    ASSUME NEW ls \in Seq(Seq(Nat)) \ {<< >>}, NEW e \in Nat
    PROVE /\ [ls EXCEPT ![Len(ls)] = Append(@, e)] = Append(Front(ls), Append(Last(ls), e))
          /\ Append(Front(ls), Append(Last(ls), e)) \in Seq(Seq(Nat)) \ {<< >>}
          /\ Front(ls) \in Seq(Seq(Nat)) /\ Last(ls) \in Seq(Nat)
          /\ ls = Append(Front(ls), Last(ls))
<1> DEFINE front == Front(ls)
           line == Append(Last(ls), e)
           new == [ls EXCEPT ![Len(ls)] = Append(@, e)]
           S == Seq(Nat)
<1>1. /\ front \in Seq(S) /\ Last(ls) \in S /\ ls = Append(front, Last(ls))
      /\ Len(ls) = Len(front) + 1 /\ Len(front) \in Nat
  <2>1. ls \in Seq(S) /\ ls # << >>
    OBVIOUS
  <2> HIDE DEF S
  <2>2. /\ Front(ls) \in Seq(S) /\ Last(ls) \in S /\ Append(Front(ls), Last(ls)) = ls
        /\ Len(ls) = Len(Front(ls)) + 1
    BY <2>1, AppendToFront
  <2> QED BY <2>2
<1>2. line \in S /\ ls[Len(ls)] = Last(ls)
  BY <1>1 DEF Last
<1>3. new = [ls EXCEPT ![Len(ls)] = line]
  BY <1>2
<1> HIDE DEF S, line, front
<1>4. ls \in Seq(S) /\ Len(ls) \in 1 .. Len(ls)
  BY <1>1 DEF S
<1>5. new \in Seq(S) /\ Len(new) = Len(ls)
      /\ \A j \in 1 .. Len(ls) : new[j] = IF j = Len(ls) THEN line ELSE ls[j]
  <2> HIDE DEF new
  <2> QED BY <1>2, <1>3, <1>4, ExceptSeq
<1>6. /\ Append(front, line) \in Seq(S) /\ Append(front, line) # << >>
      /\ Len(Append(front, line)) = Len(ls)
      /\ \A j \in 1 .. Len(ls) : Append(front, line)[j] = IF j = Len(ls) THEN line ELSE front[j]
  BY <1>1, <1>2, AppendProperties
<1>7. \A j \in 1 .. Len(ls) : j # Len(ls) => ls[j] = front[j]
  <2> DEFINE last == Last(ls)
  <2>1. last \in S /\ ls = Append(front, last)
    BY <1>1
  <2> HIDE DEF last
  <2>2. \A j \in 1 .. Len(front) : Append(front, last)[j] = front[j]
    BY <1>1, <2>1, AppendProperties
  <2> QED BY <1>1, <2>1, <2>2
<1>8. new = Append(front, line)
  <2> HIDE DEF new
  <2>1. \A j \in 1 .. Len(new) : new[j] = Append(front, line)[j]
    BY <1>5, <1>6, <1>7
  <2> QED BY <1>5, <1>6, <2>1, SeqEqual
<1> QED BY <1>1, <1>6, <1>8 DEF S, line, front

LEMMA NewLine ==
    ASSUME NEW ls \in Seq(Seq(Nat)), NEW e \in Nat
    PROVE Append(ls, <<e>>) \in Seq(Seq(Nat)) \ {<< >>} /\ <<e>> \in Seq(Nat)
<1> DEFINE S == Seq(Nat)
           line == <<e>>
<1>1. line \in S
  OBVIOUS
<1> HIDE DEF line
<1>2. Append(ls, line) \in Seq(S) /\ Append(ls, line) # << >>
  <2>1. ls \in Seq(S)
    OBVIOUS
  <2> HIDE DEF S
  <2> QED BY <1>1, <2>1
<1> QED BY <1>1, <1>2 DEF line

LEMMA AddWordLines ==
    ASSUME NEW maxWidth \in Nat
    PROVE \A ls \in Seq(Seq(Nat)) \ {<< >>}, e \in Nat :
             AddWord(ls, e, maxWidth) \in Seq(Seq(Nat)) \ {<< >>}
<1> SUFFICES ASSUME NEW ls \in Seq(Seq(Nat)) \ {<< >>}, NEW e \in Nat
             PROVE AddWord(ls, e, maxWidth) \in Seq(Seq(Nat)) \ {<< >>}
  OBVIOUS
<1>1. [ls EXCEPT ![Len(ls)] = Append(@, e)] \in Seq(Seq(Nat)) \ {<< >>}
  BY ExtendedLine
<1>2. Append(ls, <<e>>) \in Seq(Seq(Nat)) \ {<< >>}
  BY NewLine
<1>3. \/ AddWord(ls, e, maxWidth) = [ls EXCEPT ![Len(ls)] = Append(@, e)]
      \/ AddWord(ls, e, maxWidth) = Append(ls, <<e>>)
  BY DEF AddWord
<1> QED BY <1>1, <1>2, <1>3

LEMMA BreakBeforeLines ==
    ASSUME NEW size \in Nat
    PROVE \A ls \in Seq(Seq(Nat)) \ {<< >>}, e \in Nat :
             BreakBefore(ls, e, size) \in Seq(Seq(Nat)) \ {<< >>}
<1> SUFFICES ASSUME NEW ls \in Seq(Seq(Nat)) \ {<< >>}, NEW e \in Nat
             PROVE BreakBefore(ls, e, size) \in Seq(Seq(Nat)) \ {<< >>}
  OBVIOUS
<1>1. [ls EXCEPT ![Len(ls)] = Append(@, e)] \in Seq(Seq(Nat)) \ {<< >>}
  BY ExtendedLine
<1>2. Append(ls, <<e>>) \in Seq(Seq(Nat)) \ {<< >>}
  BY NewLine
<1>3. \/ BreakBefore(ls, e, size) = [ls EXCEPT ![Len(ls)] = Append(@, e)]
      \/ BreakBefore(ls, e, size) = Append(ls, <<e>>)
  BY DEF BreakBefore
<1> QED BY <1>1, <1>2, <1>3

LEMMA WordsOfLines ==
    /\ WordsOf \in [Seq(Seq(Nat)) -> Seq(Nat)]
    /\ WordsOf[<< >>] = << >>
    /\ \A s \in Seq(Seq(Nat)), e \in Seq(Nat) : WordsOf[Append(s, e)] = WordsOf[s] \o Words[e]
<1> DEFINE S == Seq(Nat)
           T == Seq(Nat)
           step == [x \in T \X S \X Nat |-> x[1] \o Words[x[2]]]
           Body(f) == [s \in Seq(S) |->
                         IF s = << >> THEN << >>
                         ELSE f[Front(s)] \o Words[Last(s)]]
<1>1. << >> \in T
  OBVIOUS
<1>2. \A x \in T, y \in S : (x \o Words[y]) \in T
  BY WordsOfText
<1>3. step \in Steps(S, T)
  <2> HIDE DEF S, T
  <2> QED BY <1>2 DEF Steps
<1>4. \A x \in T, y \in S, n \in Nat : step[<<x, y, n>>] = x \o Words[y]
  <2> HIDE DEF S, T
  <2> QED OBVIOUS
<1> HIDE DEF step
<1>5. PICK f : Repeats(S, T, << >>, step, f)
  <2> HIDE DEF S, T
  <2> QED BY <1>1, <1>3, SeqRecursion
<1>6. f = Body(f)
  <2> HIDE DEF S, T
  <2>1. ASSUME NEW s \in Seq(S), s # << >>
        PROVE f[s] = f[Front(s)] \o Words[Last(s)]
    <3>1. f[s] = step[<<f[Front(s)], Last(s), Len(s) - 1>>]
      BY <1>5, <2>1, RepeatsFront
    <3>2. f[Front(s)] \in T /\ Last(s) \in S /\ Len(s) - 1 \in Nat
      BY <1>5, <2>1, AppendToFront DEF Repeats
    <3> QED BY <1>4, <3>1, <3>2
  <2> QED BY <1>5, <2>1 DEF Repeats
<1>7. WordsOf = Body(WordsOf)
  BY <1>6 DEF WordsOf
<1>8. WordsOf[<< >>] = << >>
  <2> HIDE DEF S, T
  <2> QED BY <1>7, EmptySeq
<1>9. ASSUME NEW s \in Seq(S), NEW e \in S
      PROVE WordsOf[Append(s, e)] = WordsOf[s] \o Words[e]
  <2> DEFINE t == Append(s, e)
  <2> HIDE DEF S, T
  <2>1. t \in Seq(S) /\ t # << >> /\ Front(t) = s /\ Last(t) = e
    BY FrontOfAppend
  <2> HIDE DEF t
  <2>2. WordsOf[t] = WordsOf[s] \o Words[e]
    BY <1>7, <2>1
  <2> QED BY <2>2 DEF t
<1>10. WordsOf = [s \in Seq(S) |-> WordsOf[s]]
  BY <1>7
<1> HIDE DEF Body, T, S
<1>11. ASSUME NEW s \in Seq(S), NEW e \in S, WordsOf[s] \in T
       PROVE WordsOf[Append(s, e)] = step[<<WordsOf[s], e, Len(s)>>]
  <2>1. step[<<WordsOf[s], e, Len(s)>>] = WordsOf[s] \o Words[e]
    <3>1. Len(s) \in Nat
      OBVIOUS
    <3> QED BY <1>4, <1>11, <3>1
  <2> QED BY <1>9, <2>1
<1>12. Repeats(S, T, << >>, step, WordsOf)
  BY <1>1, <1>3, <1>8, <1>10, <1>11, SeqFunction
<1> QED BY <1>8, <1>9, <1>12 DEF Repeats, S, T

LEMMA KeptLines ==
    /\ Kept \in [Seq(Seq(Nat)) -> Seq(Seq(Nat))]
    /\ Kept[<< >>] = << >>
    /\ \A s \in Seq(Seq(Nat)), e \in Seq(Nat) :
          Kept[Append(s, e)] =
            IF Trimmed(e) = << >> THEN Kept[s] ELSE Append(Kept[s], Trimmed(e))
<1> DEFINE S == Seq(Nat)
           T == Seq(Seq(Nat))
           step == [x \in T \X S \X Nat |->
                   IF Trimmed(x[2]) = << >> THEN x[1]
                   ELSE Append(x[1], Trimmed(x[2]))]
           Body(f) == [s \in Seq(S) |->
                         IF s = << >> THEN << >>
                         ELSE IF Trimmed(Last(s)) = << >> THEN f[Front(s)]
                              ELSE Append(f[Front(s)], Trimmed(Last(s)))]
<1>1. << >> \in T
  OBVIOUS
<1>2. \A x \in T, y \in S : (
        IF Trimmed(y) = << >> THEN x
        ELSE Append(x, Trimmed(y))) \in T
  BY TrimmedText
<1>3. step \in Steps(S, T)
  <2> HIDE DEF S, T
  <2> QED BY <1>2 DEF Steps
<1>4. \A x \in T, y \in S, n \in Nat : step[<<x, y, n>>] =
        IF Trimmed(y) = << >> THEN x
        ELSE Append(x, Trimmed(y))
  <2> HIDE DEF S, T
  <2> QED OBVIOUS
<1> HIDE DEF step
<1>5. PICK f : Repeats(S, T, << >>, step, f)
  <2> HIDE DEF S, T
  <2> QED BY <1>1, <1>3, SeqRecursion
<1>6. f = Body(f)
  <2> HIDE DEF S, T
  <2>1. ASSUME NEW s \in Seq(S), s # << >>
        PROVE f[s] =
                IF Trimmed(Last(s)) = << >> THEN f[Front(s)]
                ELSE Append(f[Front(s)], Trimmed(Last(s)))
    <3>1. f[s] = step[<<f[Front(s)], Last(s), Len(s) - 1>>]
      BY <1>5, <2>1, RepeatsFront
    <3>2. f[Front(s)] \in T /\ Last(s) \in S /\ Len(s) - 1 \in Nat
      BY <1>5, <2>1, AppendToFront DEF Repeats
    <3> QED BY <1>4, <3>1, <3>2
  <2> QED BY <1>5, <2>1 DEF Repeats
<1>7. Kept = Body(Kept)
  BY <1>6 DEF Kept
<1>8. Kept[<< >>] = << >>
  <2> HIDE DEF S, T
  <2> QED BY <1>7, EmptySeq
<1>9. ASSUME NEW s \in Seq(S), NEW e \in S
      PROVE Kept[Append(s, e)] =
              IF Trimmed(e) = << >> THEN Kept[s]
              ELSE Append(Kept[s], Trimmed(e))
  <2> DEFINE t == Append(s, e)
  <2> HIDE DEF S, T
  <2>1. t \in Seq(S) /\ t # << >> /\ Front(t) = s /\ Last(t) = e
    BY FrontOfAppend
  <2> HIDE DEF t
  <2>2. Kept[t] = IF Trimmed(e) = << >> THEN Kept[s] ELSE Append(Kept[s], Trimmed(e))
    BY <1>7, <2>1
  <2> QED BY <2>2 DEF t
<1>10. Kept = [s \in Seq(S) |-> Kept[s]]
  BY <1>7
<1> HIDE DEF Body, T, S
<1>11. ASSUME NEW s \in Seq(S), NEW e \in S, Kept[s] \in T
       PROVE Kept[Append(s, e)] = step[<<Kept[s], e, Len(s)>>]
  <2>1. step[<<Kept[s], e, Len(s)>>] =
          IF Trimmed(e) = << >> THEN Kept[s]
          ELSE Append(Kept[s], Trimmed(e))
    <3>1. Len(s) \in Nat
      OBVIOUS
    <3> QED BY <1>4, <1>11, <3>1
  <2> QED BY <1>9, <2>1
<1>12. Repeats(S, T, << >>, step, Kept)
  BY <1>1, <1>3, <1>8, <1>10, <1>11, SeqFunction
<1> QED BY <1>8, <1>9, <1>12 DEF Repeats, S, T

LEMMA LinesOfText ==
    ASSUME NEW maxWidth \in Nat
    PROVE
      /\ LinesOf(<< >>, maxWidth) = << << >> >>
      /\ \A s \in Seq(Nat) : LinesOf(s, maxWidth) \in Seq(Seq(Nat)) \ {<< >>}
      /\ \A s \in Seq(Nat), e \in Nat :
            LinesOf(Append(s, e), maxWidth) = AddWord(LinesOf(s, maxWidth), e, maxWidth)
<1> DEFINE S == Nat
           T == Seq(Seq(Nat)) \ {<< >>}
           step == [x \in T \X S \X Nat |-> AddWord(x[1], x[2], maxWidth)]
           Body(f) == [s \in Seq(S) |->
                         IF s = << >> THEN << << >> >>
                         ELSE AddWord(f[Front(s)], Last(s), maxWidth)]
           F == CHOOSE f : f = Body(f)
<1>1. << << >> >> \in T
  OBVIOUS
<1>2. \A x \in T, y \in S : (AddWord(x, y, maxWidth)) \in T
  BY AddWordLines
<1>3. step \in Steps(S, T)
  <2> HIDE DEF S, T
  <2> QED BY <1>2 DEF Steps
<1>4. \A x \in T, y \in S, n \in Nat : step[<<x, y, n>>] = AddWord(x, y, maxWidth)
  <2> HIDE DEF S, T
  <2> QED OBVIOUS
<1> HIDE DEF step
<1>5. PICK f : Repeats(S, T, << << >> >>, step, f)
  <2> HIDE DEF S, T
  <2> QED BY <1>1, <1>3, SeqRecursion
<1>6. f = Body(f)
  <2> HIDE DEF S, T
  <2>1. ASSUME NEW s \in Seq(S), s # << >>
        PROVE f[s] = AddWord(f[Front(s)], Last(s), maxWidth)
    <3>1. f[s] = step[<<f[Front(s)], Last(s), Len(s) - 1>>]
      BY <1>5, <2>1, RepeatsFront
    <3>2. f[Front(s)] \in T /\ Last(s) \in S /\ Len(s) - 1 \in Nat
      BY <1>5, <2>1, AppendToFront DEF Repeats
    <3> QED BY <1>4, <3>1, <3>2
  <2> QED BY <1>5, <2>1 DEF Repeats
<1>7. F = Body(F)
  BY <1>6
<1> HIDE DEF F
<1>8. F[<< >>] = << << >> >>
  <2> HIDE DEF S, T
  <2> QED BY <1>7, EmptySeq
<1>9. ASSUME NEW s \in Seq(S), NEW e \in S
      PROVE F[Append(s, e)] = AddWord(F[s], e, maxWidth)
  <2> DEFINE t == Append(s, e)
  <2> HIDE DEF S, T
  <2>1. t \in Seq(S) /\ t # << >> /\ Front(t) = s /\ Last(t) = e
    BY FrontOfAppend
  <2> HIDE DEF t
  <2>2. F[t] = AddWord(F[s], e, maxWidth)
    BY <1>7, <2>1
  <2> QED BY <2>2 DEF t
<1>10. F = [s \in Seq(S) |-> F[s]]
  BY <1>7
<1> HIDE DEF Body, T, S
<1>11. ASSUME NEW s \in Seq(S), NEW e \in S, F[s] \in T
       PROVE F[Append(s, e)] = step[<<F[s], e, Len(s)>>]
  <2>1. step[<<F[s], e, Len(s)>>] = AddWord(F[s], e, maxWidth)
    <3>1. Len(s) \in Nat
      OBVIOUS
    <3> QED BY <1>4, <1>11, <3>1
  <2> QED BY <1>9, <2>1
<1>12. Repeats(S, T, << << >> >>, step, F)
  BY <1>1, <1>3, <1>8, <1>10, <1>11, SeqFunction
<1>13. \A s : LinesOf(s, maxWidth) = F[s]
  BY DEF LinesOf, F, Body, S
<1> QED BY <1>8, <1>9, <1>12, <1>13, FrontOfAppend DEF Repeats, S, T

LEMMA BrokenText ==
    ASSUME NEW size \in Nat
    PROVE
      /\ Broken(<< >>, size) = << << >> >>
      /\ \A s \in Seq(Nat) : Broken(s, size) \in Seq(Seq(Nat)) \ {<< >>}
      /\ \A s \in Seq(Nat), e \in Nat :
            Broken(Append(s, e), size) = BreakBefore(Broken(s, size), e, size)
<1> DEFINE S == Nat
           T == Seq(Seq(Nat)) \ {<< >>}
           step == [x \in T \X S \X Nat |-> BreakBefore(x[1], x[2], size)]
           Body(f) == [s \in Seq(S) |->
                         IF s = << >> THEN << << >> >>
                         ELSE BreakBefore(f[Front(s)], Last(s), size)]
           F == CHOOSE f : f = Body(f)
<1>1. << << >> >> \in T
  OBVIOUS
<1>2. \A x \in T, y \in S : (BreakBefore(x, y, size)) \in T
  BY BreakBeforeLines
<1>3. step \in Steps(S, T)
  <2> HIDE DEF S, T
  <2> QED BY <1>2 DEF Steps
<1>4. \A x \in T, y \in S, n \in Nat : step[<<x, y, n>>] = BreakBefore(x, y, size)
  <2> HIDE DEF S, T
  <2> QED OBVIOUS
<1> HIDE DEF step
<1>5. PICK f : Repeats(S, T, << << >> >>, step, f)
  <2> HIDE DEF S, T
  <2> QED BY <1>1, <1>3, SeqRecursion
<1>6. f = Body(f)
  <2> HIDE DEF S, T
  <2>1. ASSUME NEW s \in Seq(S), s # << >>
        PROVE f[s] = BreakBefore(f[Front(s)], Last(s), size)
    <3>1. f[s] = step[<<f[Front(s)], Last(s), Len(s) - 1>>]
      BY <1>5, <2>1, RepeatsFront
    <3>2. f[Front(s)] \in T /\ Last(s) \in S /\ Len(s) - 1 \in Nat
      BY <1>5, <2>1, AppendToFront DEF Repeats
    <3> QED BY <1>4, <3>1, <3>2
  <2> QED BY <1>5, <2>1 DEF Repeats
<1>7. F = Body(F)
  BY <1>6
<1> HIDE DEF F
<1>8. F[<< >>] = << << >> >>
  <2> HIDE DEF S, T
  <2> QED BY <1>7, EmptySeq
<1>9. ASSUME NEW s \in Seq(S), NEW e \in S
      PROVE F[Append(s, e)] = BreakBefore(F[s], e, size)
  <2> DEFINE t == Append(s, e)
  <2> HIDE DEF S, T
  <2>1. t \in Seq(S) /\ t # << >> /\ Front(t) = s /\ Last(t) = e
    BY FrontOfAppend
  <2> HIDE DEF t
  <2>2. F[t] = BreakBefore(F[s], e, size)
    BY <1>7, <2>1
  <2> QED BY <2>2 DEF t
<1>10. F = [s \in Seq(S) |-> F[s]]
  BY <1>7
<1> HIDE DEF Body, T, S
<1>11. ASSUME NEW s \in Seq(S), NEW e \in S, F[s] \in T
       PROVE F[Append(s, e)] = step[<<F[s], e, Len(s)>>]
  <2>1. step[<<F[s], e, Len(s)>>] = BreakBefore(F[s], e, size)
    <3>1. Len(s) \in Nat
      OBVIOUS
    <3> QED BY <1>4, <1>11, <3>1
  <2> QED BY <1>9, <2>1
<1>12. Repeats(S, T, << << >> >>, step, F)
  BY <1>1, <1>3, <1>8, <1>10, <1>11, SeqFunction
<1>13. \A s : Broken(s, size) = F[s]
  BY DEF Broken, F, Body, S
<1> QED BY <1>8, <1>9, <1>12, <1>13, FrontOfAppend DEF Repeats, S, T

(***************************************************************************)
(* The words and the length of two texts in a row.                         *)
(***************************************************************************)
LEMMA ConcatAppend ==
    ASSUME NEW S, NEW s \in Seq(S), NEW t \in Seq(S), NEW e \in S
    PROVE s \o Append(t, e) = Append(s \o t, e)
<1>1. Append(t, e) = t \o <<e>> /\ <<e>> \in Seq(S)
  BY AppendIsConcat
<1>2. s \o t \in Seq(S)
  BY ConcatProperties
<1>3. Append(s \o t, e) = (s \o t) \o <<e>>
  BY <1>2, AppendIsConcat
<1>4. s \o (t \o <<e>>) = (s \o t) \o <<e>>
  <2> DEFINE u == <<e>>
  <2>1. u \in Seq(S)
    BY <1>1
  <2> HIDE DEF u
  <2>2. s \o (t \o u) = (s \o t) \o u
    BY <2>1, ConcatAssociative
  <2> QED BY <2>2 DEF u
<1> QED BY <1>1, <1>3, <1>4

LEMMA WordsOfConcat ==
    ASSUME NEW s \in Seq(Nat)
    PROVE \A t \in Seq(Nat) : Words[s \o t] = Words[s] \o Words[t]
<1> DEFINE P == {t \in Seq(Nat) : Words[s \o t] = Words[s] \o Words[t]}
<1>1. << >> \in P
  <2>1. << >> \in Seq(Nat) /\ Words[s] \in Seq(Nat)
    BY WordsOfText
  <2>2. s \o << >> = s /\ Words[s] \o << >> = Words[s]
    BY <2>1, ConcatEmptySeq
  <2> QED BY <2>1, <2>2, WordsOfText
<1>2. ASSUME NEW t \in Seq(Nat), NEW e \in Nat, t \in P PROVE Append(t, e) \in P
  <2>1. Words[s \o t] = Words[s] \o Words[t]
    BY <1>2
  <2>2. s \o t \in Seq(Nat) /\ Words[s] \in Seq(Nat) /\ Words[t] \in Seq(Nat)
    BY ConcatProperties, WordsOfText
  <2>3. s \o Append(t, e) = Append(s \o t, e)
    BY ConcatAppend
  <2>4. Words[Append(s \o t, e)] = IF e = 0 THEN Words[s \o t] ELSE Append(Words[s \o t], e)
    BY <2>2, WordsOfText
  <2>5. Words[Append(t, e)] = IF e = 0 THEN Words[t] ELSE Append(Words[t], e)
    BY WordsOfText
  <2>6. Words[s] \o Append(Words[t], e) = Append(Words[s] \o Words[t], e)
    <3> DEFINE u == Words[s]
               v == Words[t]
    <3>1. u \in Seq(Nat) /\ v \in Seq(Nat)
      BY <2>2
    <3> HIDE DEF u, v
    <3>2. u \o Append(v, e) = Append(u \o v, e)
      BY <3>1, ConcatAppend
    <3> QED BY <3>2 DEF u, v
  <2>7. Append(t, e) \in Seq(Nat)
    BY FrontOfAppend
  <2>8. Words[s \o Append(t, e)] = Words[s] \o Words[Append(t, e)]
    BY <2>1, <2>3, <2>4, <2>5, <2>6
  <2> QED BY <2>7, <2>8
<1> HIDE DEF P
<1>3. \A t \in Seq(Nat) : t \in P
  BY <1>1, <1>2, SeqInductionSet
<1> QED BY <1>3 DEF P

LEMMA LengthOfConcat ==
    ASSUME NEW s \in Seq(Nat)
    PROVE \A t \in Seq(Nat) : LengthOf[s \o t] = LengthOf[s] + LengthOf[t]
<1> DEFINE P == {t \in Seq(Nat) : LengthOf[s \o t] = LengthOf[s] + LengthOf[t]}
<1>1. << >> \in P
  <2>1. << >> \in Seq(Nat) /\ LengthOf[s] \in Nat
    BY LengthOfWords
  <2>2. s \o << >> = s
    BY ConcatEmptySeq
  <2> QED BY <2>1, <2>2, LengthOfWords
<1>2. ASSUME NEW t \in Seq(Nat), NEW e \in Nat, t \in P PROVE Append(t, e) \in P
  <2>1. LengthOf[s \o t] = LengthOf[s] + LengthOf[t]
    BY <1>2
  <2>2. s \o t \in Seq(Nat) /\ LengthOf[s] \in Nat /\ LengthOf[t] \in Nat
    BY ConcatProperties, LengthOfWords
  <2>3. s \o Append(t, e) = Append(s \o t, e)
    BY ConcatAppend
  <2>4. LengthOf[Append(s \o t, e)] = LengthOf[s \o t] + 1 + e
    BY <2>2, LengthOfWords
  <2>5. LengthOf[Append(t, e)] = LengthOf[t] + 1 + e
    BY LengthOfWords
  <2>6. Append(t, e) \in Seq(Nat)
    BY FrontOfAppend
  <2>7. LengthOf[s \o Append(t, e)] = LengthOf[s] + LengthOf[Append(t, e)]
    BY <2>1, <2>2, <2>3, <2>4, <2>5
  <2> QED BY <2>6, <2>7
<1> HIDE DEF P
<1>3. \A t \in Seq(Nat) : t \in P
  BY <1>1, <1>2, SeqInductionSet
<1> QED BY <1>3 DEF P

LEMMA BlankText ==
    \A s \in Seq(Nat) : (\A k \in 1 .. Len(s) : s[k] = 0) => Words[s] = << >>
<1> DEFINE P == {s \in Seq(Nat) : (\A k \in 1 .. Len(s) : s[k] = 0) => Words[s] = << >>}
<1>1. << >> \in P
  BY WordsOfText
<1>2. ASSUME NEW s \in Seq(Nat), NEW e \in Nat, s \in P PROVE Append(s, e) \in P
  <2> DEFINE t == Append(s, e)
  <2>1. /\ t \in Seq(Nat) /\ Len(t) = Len(s) + 1 /\ t[Len(s) + 1] = e
        /\ \A k \in 1 .. Len(s) : t[k] = s[k]
    BY AppendProperties
  <2>2. Words[t] = IF e = 0 THEN Words[s] ELSE Append(Words[s], e)
    BY WordsOfText
  <2>3. Len(s) \in Nat
    OBVIOUS
  <2> HIDE DEF t
  <2>4. ASSUME \A k \in 1 .. Len(t) : t[k] = 0 PROVE Words[t] = << >>
    <3>1. e = 0
      BY <2>1, <2>3, <2>4
    <3>2. \A k \in 1 .. Len(s) : s[k] = 0
      BY <2>1, <2>3, <2>4
    <3> QED BY <1>2, <2>2, <3>1, <3>2
  <2>5. t \in P
    BY <2>1, <2>4
  <2> QED BY <2>5 DEF t
<1> HIDE DEF P
<1>3. \A s \in Seq(Nat) : s \in P
  BY <1>1, <1>2, SeqInductionSet
<1> QED BY <1>3 DEF P

\* strings.TrimSpace takes no word away, and no blank comes to a text.
LEMMA TrimmedWords ==
    ASSUME NEW s \in Seq(Nat)
    PROVE Words[Trimmed(s)] = Words[s] /\ LengthOf[Trimmed(s)] <= LengthOf[s]
<1>1. CASE Trimmed(s) = << >> /\ \A k \in 1 .. Len(s) : s[k] = 0
  <2>1. Words[s] = << >>
    BY <1>1, BlankText
  <2>2. LengthOf[s] \in Nat
    BY LengthOfWords
  <2> QED BY <1>1, <2>1, <2>2, WordsOfText, LengthOfWords
<1>2. CASE \E a, b \in 1 .. Len(s) :
              /\ a <= b /\ Trimmed(s) = SubSeq(s, a, b)
              /\ s[a] > 0
              /\ \A k \in 1 .. Len(s) : k < a \/ k > b => s[k] = 0
  <2>1. PICK a, b \in 1 .. Len(s) :
              /\ a <= b /\ Trimmed(s) = SubSeq(s, a, b)
              /\ \A k \in 1 .. Len(s) : k < a \/ k > b => s[k] = 0
    BY <1>2
  <2> DEFINE n == Len(s)
             left == SubSeq(s, 1, a - 1)
             mid == SubSeq(s, a, b)
             right == SubSeq(s, b + 1, n)
  <2>2. n \in Nat /\ a \in 1 .. n /\ b \in a .. n /\ \A k \in 1 .. n : s[k] \in Nat
    BY <2>1
  <2>3. /\ left \in Seq(Nat) /\ Len(left) = a - 1
        /\ \A k \in 1 .. a - 1 : left[k] = 0
    <3>1. 1 \in Int /\ a - 1 \in Int /\ \A k \in 1 .. a - 1 : s[k] \in Nat
      BY <2>2
    <3>2. left \in Seq(Nat) /\ Len(left) = (IF 1 <= a - 1 THEN a - 1 - 1 + 1 ELSE 0)
          /\ \A k \in 1 .. a - 1 - 1 + 1 : left[k] = s[1 + k - 1]
      BY <3>1, SubSeqProperties
    <3>3. ASSUME NEW k \in 1 .. a - 1 PROVE left[k] = 0
      <4>1. k \in 1 .. n /\ k < a /\ 1 + k - 1 = k /\ k \in 1 .. a - 1 - 1 + 1
        BY <2>2
      <4>2. s[k] = 0
        BY <2>1, <4>1
      <4>3. left[k] = s[1 + k - 1]
        BY <3>2, <4>1
      <4> QED BY <4>1, <4>2, <4>3
    <3>4. Len(left) = a - 1
      BY <2>2, <3>2
    <3> QED BY <3>2, <3>3, <3>4
  <2>4. /\ right \in Seq(Nat) /\ Len(right) = n - b
        /\ \A k \in 1 .. n - b : right[k] = 0
    <3>1. b + 1 \in Int /\ n \in Int /\ \A k \in b + 1 .. n : s[k] \in Nat
      BY <2>2
    <3>2. right \in Seq(Nat) /\ Len(right) = (IF b + 1 <= n THEN n - (b + 1) + 1 ELSE 0)
          /\ \A k \in 1 .. n - (b + 1) + 1 : right[k] = s[b + 1 + k - 1]
      BY <3>1, SubSeqProperties
    <3>3. ASSUME NEW k \in 1 .. n - b PROVE right[k] = 0
      <4>1. b + k \in 1 .. n /\ b + k > b /\ b + 1 + k - 1 = b + k
        BY <2>2
      <4>2. s[b + k] = 0
        BY <2>1, <4>1
      <4> QED BY <2>2, <3>2, <4>1, <4>2
    <3>4. Len(right) = n - b
      BY <2>2, <3>2
    <3> QED BY <3>2, <3>3, <3>4
  <2>5. mid \in Seq(Nat)
    BY <2>2, SubSeqProperties
  <2>6. (left \o mid) \o right = s
    <3>1. 1 \in 1 .. n + 1 /\ a - 1 \in 0 .. n /\ b \in a - 1 .. n /\ a - 1 + 1 = a
      BY <2>2
    <3>2. left \o mid = SubSeq(s, 1, b)
      <4>1. SubSeq(s, 1, a - 1) \o SubSeq(s, a - 1 + 1, b) = SubSeq(s, 1, b)
        BY <3>1, ConcatAdjacentSubSeq
      <4> QED BY <3>1, <4>1
    <3>3. SubSeq(s, 1, b) \o SubSeq(s, b + 1, n) = SubSeq(s, 1, n)
      BY <2>2, <3>1, ConcatAdjacentSubSeq
    <3>4. SubSeq(s, 1, n) = s
      BY SubSeqFull
    <3> QED BY <3>2, <3>3, <3>4
  <2> HIDE DEF left, mid, right, n
  <2>7. Words[left] = << >> /\ Words[right] = << >>
    BY <2>3, <2>4, BlankText
  <2>8. left \o mid \in Seq(Nat) /\ Words[mid] \in Seq(Nat)
    BY <2>3, <2>5, ConcatProperties, WordsOfText
  <2>9. Words[s] = (Words[left] \o Words[mid]) \o Words[right]
    <3>1. Words[left \o mid] = Words[left] \o Words[mid]
      BY <2>3, <2>5, WordsOfConcat
    <3> DEFINE u == left \o mid
    <3>2. u \in Seq(Nat) /\ u \o right = s
      BY <2>6, <2>8
    <3> HIDE DEF u
    <3>3. Words[u \o right] = Words[u] \o Words[right]
      BY <2>4, <3>2, WordsOfConcat
    <3> QED BY <3>1, <3>2, <3>3 DEF u
  <2>10. << >> \o Words[mid] = Words[mid] /\ Words[mid] \o << >> = Words[mid]
    BY <2>8, ConcatEmptySeq
  <2>11. LengthOf[s] = LengthOf[left] + LengthOf[mid] + LengthOf[right]
    BY <2>3, <2>4, <2>5, <2>6, <2>8, LengthOfConcat
  <2>12. LengthOf[left] \in Nat /\ LengthOf[mid] \in Nat /\ LengthOf[right] \in Nat
    BY <2>3, <2>4, <2>5, LengthOfWords
  <2> QED BY <2>1, <2>7, <2>9, <2>10, <2>11, <2>12 DEF mid
<1> QED BY <1>1, <1>2, TrimmedEnds

(***************************************************************************)
(* No cut takes a word away: a word is added to the last line or to a new  *)
(* one.                                                                    *)
(***************************************************************************)
Added(words, word) == IF word = 0 THEN words ELSE Append(words, word)

LEMMA WordAdded ==
    ASSUME NEW ls \in Seq(Seq(Nat)) \ {<< >>}, NEW e \in Nat
    PROVE /\ WordsOf[[ls EXCEPT ![Len(ls)] = Append(@, e)]] = Added(WordsOf[ls], e)
          /\ WordsOf[Append(ls, <<e>>)] = Added(WordsOf[ls], e)
<1>1. /\ [ls EXCEPT ![Len(ls)] = Append(@, e)] = Append(Front(ls), Append(Last(ls), e))
      /\ Front(ls) \in Seq(Seq(Nat)) /\ Last(ls) \in Seq(Nat)
      /\ ls = Append(Front(ls), Last(ls))
  BY ExtendedLine
<1> DEFINE front == WordsOf[Front(ls)]
           last == Words[Last(ls)]
           all == WordsOf[ls]
<1>2. front \in Seq(Nat) /\ last \in Seq(Nat) /\ all \in Seq(Nat)
  BY <1>1, WordsOfLines, WordsOfText
<1>3. all = front \o last
  BY <1>1, WordsOfLines
<1>4. Append(Last(ls), e) \in Seq(Nat) /\ Words[Append(Last(ls), e)] = Added(last, e)
  BY <1>1, WordsOfText, FrontOfAppend DEF Added
<1>5. WordsOf[Append(Front(ls), Append(Last(ls), e))] = front \o Added(last, e)
  BY <1>1, <1>4, WordsOfLines
<1>6. <<e>> = Append(<< >>, e) /\ << >> \in Seq(Nat) /\ <<e>> \in Seq(Nat)
  OBVIOUS
<1>7. Words[<<e>>] = Added(<< >>, e)
  BY <1>6, WordsOfText DEF Added
<1>8. WordsOf[Append(ls, <<e>>)] = all \o Added(<< >>, e)
  BY <1>6, <1>7, WordsOfLines
<1> HIDE DEF front, last, all
<1>9. front \o Added(last, e) = Added(all, e)
  <2>1. front \o Append(last, e) = Append(front \o last, e)
    BY <1>2, ConcatAppend
  <2> QED BY <1>3, <2>1 DEF Added
<1>10. all \o Added(<< >>, e) = Added(all, e)
  <2>1. all \o << >> = all
    BY <1>2, ConcatEmptySeq
  <2>2. all \o Append(<< >>, e) = Append(all \o << >>, e)
    BY <1>2, <1>6, ConcatAppend
  <2> QED BY <2>1, <2>2 DEF Added
<1> QED BY <1>1, <1>5, <1>8, <1>9, <1>10 DEF all

LEMMA NoLine ==
    /\ << << >> >> \in Seq(Seq(Nat)) /\ << << >> >> = Append(<< >>, << >>)
    /\ << >> \in Seq(Seq(Nat)) /\ << >> \in Seq(Nat)
    /\ WordsOf[<< << >> >>] = << >>
<1>1. << << >> >> \in Seq(Seq(Nat)) /\ << << >> >> = Append(<< >>, << >>)
      /\ << >> \in Seq(Seq(Nat)) /\ << >> \in Seq(Nat)
  OBVIOUS
<1>2. WordsOf[Append(<< >>, << >>)] = WordsOf[<< >>] \o Words[<< >>]
  BY <1>1, WordsOfLines
<1>3. << >> \o << >> = << >>
  BY <1>1, ConcatEmptySeq
<1> QED BY <1>1, <1>2, <1>3, WordsOfLines, WordsOfText

LEMMA LinesKeepWords ==
    ASSUME NEW maxWidth \in Nat
    PROVE \A s \in Seq(Nat) : WordsOf[LinesOf(s, maxWidth)] = Words[s]
<1> DEFINE P == {s \in Seq(Nat) : WordsOf[LinesOf(s, maxWidth)] = Words[s]}
<1>1. << >> \in P
  BY LinesOfText, NoLine, WordsOfText
<1>2. ASSUME NEW s \in Seq(Nat), NEW e \in Nat, s \in P PROVE Append(s, e) \in P
  <2> DEFINE ls == LinesOf(s, maxWidth)
  <2>1. ls \in Seq(Seq(Nat)) \ {<< >>} /\ WordsOf[ls] = Words[s]
    BY <1>2, LinesOfText
  <2>2. LinesOf(Append(s, e), maxWidth) = AddWord(ls, e, maxWidth)
    BY LinesOfText
  <2> HIDE DEF ls
  <2>3. \/ AddWord(ls, e, maxWidth) = [ls EXCEPT ![Len(ls)] = Append(@, e)]
        \/ AddWord(ls, e, maxWidth) = Append(ls, <<e>>)
    BY DEF AddWord
  <2>4. WordsOf[AddWord(ls, e, maxWidth)] = Added(Words[s], e)
    BY <2>1, <2>3, WordAdded
  <2>5. Words[Append(s, e)] = Added(Words[s], e) /\ Append(s, e) \in Seq(Nat)
    BY WordsOfText, FrontOfAppend DEF Added
  <2> QED BY <2>2, <2>4, <2>5
<1> HIDE DEF P
<1>3. \A s \in Seq(Nat) : s \in P
  BY <1>1, <1>2, SeqInductionSet
<1> QED BY <1>3 DEF P

LEMMA BrokenKeepsWords ==
    ASSUME NEW size \in Nat
    PROVE \A s \in Seq(Nat) : WordsOf[Broken(s, size)] = Words[s]
<1> DEFINE P == {s \in Seq(Nat) : WordsOf[Broken(s, size)] = Words[s]}
<1>1. << >> \in P
  BY BrokenText, NoLine, WordsOfText
<1>2. ASSUME NEW s \in Seq(Nat), NEW e \in Nat, s \in P PROVE Append(s, e) \in P
  <2> DEFINE ls == Broken(s, size)
  <2>1. ls \in Seq(Seq(Nat)) \ {<< >>} /\ WordsOf[ls] = Words[s]
    BY <1>2, BrokenText
  <2>2. Broken(Append(s, e), size) = BreakBefore(ls, e, size)
    BY BrokenText
  <2> HIDE DEF ls
  <2>3. \/ BreakBefore(ls, e, size) = [ls EXCEPT ![Len(ls)] = Append(@, e)]
        \/ BreakBefore(ls, e, size) = Append(ls, <<e>>)
    BY DEF BreakBefore
  <2>4. WordsOf[BreakBefore(ls, e, size)] = Added(Words[s], e)
    BY <2>1, <2>3, WordAdded
  <2>5. Words[Append(s, e)] = Added(Words[s], e) /\ Append(s, e) \in Seq(Nat)
    BY WordsOfText, FrontOfAppend DEF Added
  <2> QED BY <2>2, <2>4, <2>5
<1> HIDE DEF P
<1>3. \A s \in Seq(Nat) : s \in P
  BY <1>1, <1>2, SeqInductionSet
<1> QED BY <1>3 DEF P

LEMMA KeptKeepsWords ==
    \A ls \in Seq(Seq(Nat)) : WordsOf[Kept[ls]] = WordsOf[ls]
<1> DEFINE S == Seq(Nat)
           P == {ls \in Seq(S) : WordsOf[Kept[ls]] = WordsOf[ls]}
<1>1. << >> \in P
  BY KeptLines, NoLine
<1>2. ASSUME NEW ls \in Seq(S), NEW e \in S, ls \in P PROVE Append(ls, e) \in P
  <2>1. WordsOf[Append(ls, e)] = WordsOf[ls] \o Words[e]
    BY WordsOfLines
  <2>2. /\ WordsOf[ls] \in Seq(Nat) /\ Kept[ls] \in Seq(S) /\ Trimmed(e) \in S
        /\ Words[Trimmed(e)] = Words[e]
    BY WordsOfLines, KeptLines, TrimmedText, TrimmedWords
  <2>3. CASE Trimmed(e) = << >>
    <3>1. Kept[Append(ls, e)] = Kept[ls] /\ Words[e] = << >>
      BY <2>2, <2>3, KeptLines, WordsOfText
    <3>2. WordsOf[ls] \o << >> = WordsOf[ls]
      BY <2>2, ConcatEmptySeq
    <3> QED BY <1>2, <2>1, <3>1, <3>2, FrontOfAppend
  <2>4. CASE Trimmed(e) # << >>
    <3>1. Kept[Append(ls, e)] = Append(Kept[ls], Trimmed(e))
      BY <2>4, KeptLines
    <3>2. WordsOf[Append(Kept[ls], Trimmed(e))] = WordsOf[Kept[ls]] \o Words[Trimmed(e)]
      BY <2>2, WordsOfLines
    <3> QED BY <1>2, <2>1, <2>2, <3>1, <3>2, FrontOfAppend
  <2> QED BY <2>3, <2>4
<1> HIDE DEF P
<1>3. \A ls \in Seq(S) : ls \in P
  <2> HIDE DEF S
  <2> QED BY <1>1, <1>2, SeqInductionSet
<1> QED BY <1>3 DEF P

LEMMA OneLine ==
    ASSUME NEW s \in Seq(Nat)
    PROVE <<s>> \in Seq(Seq(Nat)) /\ WordsOf[<<s>>] = Words[s]
<1>1. <<s>> \in Seq(Seq(Nat)) /\ <<s>> = Append(<< >>, s)
  OBVIOUS
<1>2. WordsOf[Append(<< >>, s)] = << >> \o Words[s]
  BY WordsOfLines, NoLine
<1>3. Words[s] \in Seq(Nat)
  BY WordsOfText
<1>4. << >> \o Words[s] = Words[s]
  BY <1>3, ConcatEmptySeq
<1> QED BY <1>1, <1>2, <1>4

LEMMA SplitLineKeepsWords ==
    ASSUME NEW text \in Seq(Nat), NEW maxWidth \in Nat
    PROVE /\ SplitLine(text, maxWidth) \in Seq(Seq(Nat))
          /\ WordsOf[SplitLine(text, maxWidth)] = Words[text]
<1>1. LinesOf(text, maxWidth) \in Seq(Seq(Nat))
  BY LinesOfText
<1>2. Kept[LinesOf(text, maxWidth)] \in Seq(Seq(Nat))
  BY <1>1, KeptLines
<1>3. WordsOf[Kept[LinesOf(text, maxWidth)]] = Words[text]
  BY <1>1, KeptKeepsWords, LinesKeepWords
<1> QED BY <1>2, <1>3, OneLine DEF SplitLine

(***************************************************************************)
(* The greatest of a row of numbers.                                       *)
(***************************************************************************)
LEMMA BoundedRow ==
    ASSUME NEW n \in Nat, NEW h \in [1 .. n -> Nat]
    PROVE \E b \in Nat : \A k \in 1 .. n : h[k] <= b
<1> DEFINE P == {m \in Nat : m <= n => \E b \in Nat : \A k \in 1 .. m : h[k] <= b}
<1>1. 0 \in P
  OBVIOUS
<1>2. ASSUME NEW m \in Nat, m \in P PROVE m + 1 \in P
  <2> SUFFICES ASSUME m + 1 <= n PROVE \E b \in Nat : \A k \in 1 .. m + 1 : h[k] <= b
    OBVIOUS
  <2>1. PICK b \in Nat : \A k \in 1 .. m : h[k] <= b
    BY <1>2
  <2>2. h[m + 1] \in Nat /\ \A k \in 1 .. m : h[k] \in Nat
    OBVIOUS
  <2>3. \A k \in 1 .. m + 1 : h[k] <= b + h[m + 1]
    BY <2>1, <2>2
  <2>4. b + h[m + 1] \in Nat
    BY <2>2
  <2> QED BY <2>3, <2>4
<1> HIDE DEF P
<1>3. n \in P
  BY <1>1, <1>2, NatInductionSet
<1> QED BY <1>3 DEF P

LEMMA MaxOfRow ==
    ASSUME NEW n \in Nat, NEW h \in [1 .. n -> Nat], NEW x \in Nat
    PROVE LET S == {h[k] : k \in 1 .. n} \cup {x}
          IN  Max(S) \in Nat /\ x <= Max(S) /\ \A k \in 1 .. n : h[k] <= Max(S)
<1> DEFINE S == {h[k] : k \in 1 .. n} \cup {x}
<1>1. PICK b \in Nat : \A k \in 1 .. n : h[k] <= b
  BY BoundedRow
<1>2. S \subseteq Nat /\ S # {} /\ x \in S /\ \A k \in 1 .. n : h[k] \in S
  OBVIOUS
<1>3. \A y \in S : y <= b + x
  BY <1>1
<1> HIDE DEF S
<1>4. b + x \in Nat
  OBVIOUS
<1>5. Max(S) \in S /\ \A y \in S : y <= Max(S)
  BY <1>2, <1>3, <1>4, MaxMember
<1> QED BY <1>2, <1>5 DEF S

LEMMA WidthOfLine ==
    ASSUME NEW line \in Seq(Nat)
    PROVE /\ WidthOf(line) \in Nat
          /\ line # << >> => WidthOf(line) = LengthOf[line] - 1
          /\ LengthOf[line] \in Nat
<1>1. CASE line = << >>
  BY <1>1, LengthOfWords DEF WidthOf
<1>2. CASE line # << >>
  <2>1. Front(line) \in Seq(Nat) /\ Last(line) \in Nat /\ Append(Front(line), Last(line)) = line
    BY <1>2, AppendToFront
  <2>2. LengthOf[line] = LengthOf[Front(line)] + 1 + Last(line) /\ LengthOf[Front(line)] \in Nat
    BY <2>1, LengthOfWords
  <2> QED BY <1>2, <2>1, <2>2 DEF WidthOf
<1> QED BY <1>1, <1>2

(***************************************************************************)
(* The cells of a table, and its measures.                                 *)
(***************************************************************************)
Rows == [Columns -> Texts]
Measure == PageWidth \div Len(Cols)

LEMMA PageFits ==
    Len(Cols) \in Nat \ {0} /\ Measure \in Nat \ {0} /\ PageWidth \in Nat
<1>1. Len(Cols) \in Nat \ {0}
  BY ColumnsAssumption
<1>2. PageWidth \in Nat /\ PageWidth >= Len(Cols)
  BY PageAssumption
<1> DEFINE n == Len(Cols)
<1> HIDE DEF n
<1>3. n \in Nat \ {0} /\ PageWidth \in Nat /\ PageWidth >= n => PageWidth \div n \in Nat \ {0}
  OBVIOUS
<1> QED BY <1>1, <1>2, <1>3 DEF Measure, n

LEMMA DataOfCell ==
    ASSUME NEW row \in Rows, NEW col \in Columns, NEW maxWidth \in Nat
    PROVE /\ row[col] \in Seq(Nat)
          /\ Data(row, col, maxWidth) \in Seq(Seq(Nat))
          /\ WordsOf[Data(row, col, maxWidth)] = Words[row[col]]
<1>1. row[col] \in Seq(Nat)
  BY TextsAssumption DEF Rows
<1> QED BY <1>1, OneLine, SplitLineKeepsWords DEF Data

LEMMA FieldWidthOfCell ==
    ASSUME NEW row \in Rows, NEW col \in Columns, NEW maxWidth \in Nat
    PROVE /\ FieldWidth(row, col, maxWidth) \in Nat
          /\ \A k \in 1 .. Len(Data(row, col, maxWidth)) :
                WidthOf(Data(row, col, maxWidth)[k]) <= FieldWidth(row, col, maxWidth)
<1> DEFINE data == Data(row, col, maxWidth)
           n == Len(data)
           h == [k \in 1 .. n |-> WidthOf(data[k])]
           S == {h[k] : k \in 1 .. n} \cup {0}
<1>1. data \in Seq(Seq(Nat))
  BY DataOfCell
<1>2. FieldWidth(row, col, maxWidth) = Max({0} \cup {WidthOf(data[k]) : k \in DOMAIN data})
  BY DEF FieldWidth
<1> HIDE DEF data
<1>3. n \in Nat /\ DOMAIN data = 1 .. n /\ \A k \in 1 .. n : data[k] \in Seq(Nat)
  BY <1>1
<1>4. \A k \in 1 .. n : WidthOf(data[k]) \in Nat
  BY <1>3, WidthOfLine
<1>5. {0} \cup {WidthOf(data[k]) : k \in DOMAIN data} = S
  BY <1>3
<1>6. h \in [1 .. n -> Nat] /\ \A k \in 1 .. n : h[k] = WidthOf(data[k])
  BY <1>4
<1> HIDE DEF n, h
<1>7. Max(S) \in Nat /\ 0 <= Max(S) /\ \A k \in 1 .. n : h[k] <= Max(S)
  BY <1>3, <1>6, MaxOfRow
<1> HIDE DEF S
<1> QED BY <1>2, <1>5, <1>6, <1>7 DEF data, n

Table == table \in Seq(Rows)

LEMMA WidthOfColumn ==
    ASSUME Table, NEW col \in Columns
    PROVE /\ Widths[col] \in Nat \ {0}
          /\ Titles[col] <= Widths[col]
          /\ \A k \in 1 .. Len(table) : FieldWidth(table[k], col, Measure) <= Widths[col]
<1> DEFINE n == Len(table)
           h == [k \in 1 .. n |-> FieldWidth(table[k], col, Measure)]
           x == Titles[col]
           S == {h[k] : k \in 1 .. n} \cup {x}
<1>1. n \in Nat /\ DOMAIN table = 1 .. n /\ \A k \in 1 .. n : table[k] \in Rows
  BY DEF Table
<1>2. x \in Nat
  BY ColumnsAssumption
<1>3. \A k \in 1 .. n : FieldWidth(table[k], col, Measure) \in Nat
  BY <1>1, PageFits, FieldWidthOfCell
<1>4. Widths[col] = Max({FieldWidth(table[k], col, Measure) : k \in DOMAIN table} \cup {x}) + 2
  BY DEF Widths, ColWidth, Measure
<1>5. {FieldWidth(table[k], col, Measure) : k \in DOMAIN table} \cup {x} = S
  BY <1>1
<1>6. h \in [1 .. n -> Nat] /\ \A k \in 1 .. n : h[k] = FieldWidth(table[k], col, Measure)
  BY <1>3
<1> HIDE DEF n, h, x
<1>7. Max(S) \in Nat /\ x <= Max(S) /\ \A k \in 1 .. n : h[k] <= Max(S)
  BY <1>1, <1>2, <1>6, MaxOfRow
<1> HIDE DEF S
<1>8. Widths[col] = Max(S) + 2
  BY <1>4, <1>5
<1>9. \A k \in 1 .. n : h[k] \in Nat /\ h[k] <= Widths[col]
  BY <1>6, <1>7, <1>8
<1> QED BY <1>2, <1>6, <1>7, <1>8, <1>9 DEF n, x

LEMMA RowHeightOfCells ==
    ASSUME NEW row \in Rows, NEW widths \in [Columns -> Nat], NEW col \in Columns
    PROVE /\ RowHeight(row, widths) \in Nat
          /\ Len(Data(row, col, widths[col])) <= RowHeight(row, widths)
<1> DEFINE n == Len(Cols)
           h == [k \in 1 .. n |-> FieldHeight(row, Cols[k], widths[Cols[k]])]
           S == {h[k] : k \in 1 .. n} \cup {h[1]}
<1>1. n \in Nat \ {0} /\ Columns = {Cols[k] : k \in 1 .. n}
  BY PageFits DEF Columns
<1>2. \A c \in Columns : FieldHeight(row, c, widths[c]) \in Nat
  BY DataOfCell DEF FieldHeight
<1>3. h \in [1 .. n -> Nat]
  BY <1>1, <1>2
<1>4. {FieldHeight(row, c, widths[c]) : c \in Columns} = S
  <2> DEFINE H(c) == FieldHeight(row, c, widths[c])
  <2>1. \A k \in 1 .. n : h[k] = H(Cols[k]) /\ Cols[k] \in Columns
    BY <1>1
  <2>2. 1 \in 1 .. n /\ \A c \in Columns : \E k \in 1 .. n : c = Cols[k]
    BY <1>1
  <2> HIDE DEF H, n, h
  <2>3. {H(c) : c \in Columns} = S
    BY <2>1, <2>2
  <2> QED BY <2>3 DEF H
<1>5. RowHeight(row, widths) = Max(S)
  BY <1>4 DEF RowHeight
<1>6. PICK k \in 1 .. n : col = Cols[k]
  BY <1>1
<1>7. h[k] = Len(Data(row, col, widths[col]))
  BY <1>6 DEF FieldHeight
<1> HIDE DEF n, h
<1>8. h[1] \in Nat
  BY <1>1, <1>3
<1>9. Max(S) \in Nat /\ \A j \in 1 .. n : h[j] <= Max(S)
  BY <1>1, <1>3, <1>8, MaxOfRow
<1> QED BY <1>5, <1>7, <1>9

(***************************************************************************)
(* A cell is drawn with empty lines below its end: they hold no word.      *)
(***************************************************************************)
Padded(data, n) == [l \in 1 .. n |-> IF l <= Len(data) THEN data[l] ELSE << >>]

LEMMA PaddedWords ==
    ASSUME NEW data \in Seq(Seq(Nat)), NEW height \in Nat, Len(data) <= height
    PROVE WordsOf[Padded(data, height)] = WordsOf[data]
<1> DEFINE size == Len(data)
           Pad(m) == Padded(data, size + m)
           P == {m \in Nat : Pad(m) \in Seq(Seq(Nat)) /\ WordsOf[Pad(m)] = WordsOf[data]}
<1>0. size \in Nat /\ \A l \in 1 .. size : data[l] \in Seq(Nat)
  OBVIOUS
<1>1. 0 \in P
  <2>1. Padded(data, size) = data
    <3>1. data = [l \in 1 .. size |-> data[l]]
      OBVIOUS
    <3> HIDE DEF size
    <3>2. [l \in 1 .. size |-> data[l]] = [l \in 1 .. size |-> IF l <= size THEN data[l] ELSE << >>]
      BY <1>0
    <3> QED BY <3>1, <3>2 DEF Padded, size
  <2>2. size + 0 = size
    BY <1>0
  <2> QED BY <2>1, <2>2
<1>2. ASSUME NEW m \in Nat, m \in P PROVE m + 1 \in P
  <2> DEFINE S == Seq(Nat)
             n == size + m
             old == [l \in 1 .. n |-> IF l <= size THEN data[l] ELSE << >>]
             new == [l \in 1 .. n + 1 |-> IF l <= size THEN data[l] ELSE << >>]
  <2>1. Pad(m) = old /\ Pad(m + 1) = new
    BY <1>0 DEF Padded
  <2>2. old \in Seq(S) /\ n \in Nat /\ << >> \in S
    BY <1>0, <1>2, <2>1
  <2>3. \A l \in 1 .. size : data[l] \in S
    BY <1>0
  <2>4. ~ (n + 1 <= size)
    BY <1>0
  <2> HIDE DEF S, n, size
  <2>5. Len(old) = n
    BY <2>2
  <2>6. new = Append(old, << >>)
    <3>1. new \in Seq(S) /\ Len(new) = n + 1
      BY <2>2, <2>3
    <3>2. Append(old, << >>) \in Seq(S) /\ Len(Append(old, << >>)) = n + 1
          /\ Append(old, << >>)[n + 1] = << >>
          /\ \A l \in 1 .. n : Append(old, << >>)[l] = old[l]
      BY <2>2, <2>5, AppendProperties
    <3>3. ASSUME NEW l \in 1 .. n + 1 PROVE new[l] = Append(old, << >>)[l]
      <4>1. CASE l = n + 1
        BY <2>2, <2>4, <3>2, <4>1
      <4>2. CASE l \in 1 .. n
        BY <2>2, <3>2, <4>2
      <4> QED BY <2>2, <4>1, <4>2
    <3> HIDE DEF new, old
    <3> QED BY <3>1, <3>2, <3>3, SeqEqual
  <2> HIDE DEF old, new
  <2>7. WordsOf[Append(old, << >>)] = WordsOf[old] \o Words[<< >>]
    BY <2>2, WordsOfLines DEF S
  <2>8. WordsOf[old] \in Seq(Nat) /\ Words[<< >>] = << >>
    BY <2>2, WordsOfLines, WordsOfText DEF S
  <2>9. WordsOf[old] \o << >> = WordsOf[old]
    BY <2>8, ConcatEmptySeq
  <2>10. Append(old, << >>) \in Seq(S)
    BY <2>2, AppendProperties
  <2>11. WordsOf[Pad(m)] = WordsOf[data]
    BY <1>2
  <2> HIDE DEF Pad
  <2>12. WordsOf[Pad(m + 1)] = WordsOf[data]
    BY <2>1, <2>6, <2>7, <2>8, <2>9, <2>11
  <2>13. Pad(m + 1) \in Seq(Seq(Nat))
    BY <2>1, <2>6, <2>10 DEF S
  <2> QED BY <2>12, <2>13
<1> HIDE DEF P, Pad, size
<1>3. \A m \in Nat : m \in P
  BY <1>1, <1>2, NatInductionSet
<1>4. height - size \in Nat /\ size + (height - size) = height
  BY <1>0 DEF size
<1>5. height - size \in P
  BY <1>3, <1>4
<1> QED BY <1>4, <1>5 DEF P, Pad

LEMMA TableTyped ==
    /\ Init => Table
    /\ Table /\ [Next]_vars => Table'
<1>1. Init => Table
  BY DEF Init, Table
<1>2. ASSUME Table, [Next]_vars PROVE Table'
  <2>1. CASE AddRow
    BY <1>2, <2>1 DEF AddRow, Table, Rows
  <2>2. CASE BeginFormat \/ FormatDigit \/ UNCHANGED vars
    BY <1>2, <2>2 DEF BeginFormat, FormatDigit, vars, Table
  <2> QED BY <1>2, <2>1, <2>2 DEF Next
<1> QED BY <1>1, <1>2

LEMMA WidthsTyped ==
    ASSUME Table
    PROVE Widths \in [Columns -> Nat]
<1>1. \A col \in Columns : Widths[col] \in Nat
  BY WidthOfColumn
<1>2. Widths = [col \in Columns |-> Widths[col]]
  BY DEF Widths
<1> QED BY <1>1, <1>2

\* The lines of a column of a drawn row are those of the cell, and empty ones.
LEMMA DrawnCell ==
    ASSUME Table, NEW k \in 1 .. Len(table), NEW col \in Columns
    PROVE LET row == table[k]
              data == Data(row, col, Widths[col])
              height == RowHeight(row, Widths)
          IN  /\ row \in Rows /\ data \in Seq(Seq(Nat))
              /\ DOMAIN DrawTable = 1 .. Len(table)
              /\ height \in Nat /\ Len(data) <= height
              /\ DOMAIN DrawTable[k] = 1 .. height
              /\ \A l \in 1 .. height :
                    DrawTable[k][l][col] = IF l <= Len(data) THEN data[l] ELSE << >>
<1> DEFINE widths == Widths
           row == table[k]
           data == [c \in Columns |-> Data(row, c, widths[c])]
           height == RowHeight(row, widths)
<1>1. row \in Rows /\ DOMAIN table = 1 .. Len(table)
  BY DEF Table
<1>2. DrawTable[k] = DrawRow(row, widths) /\ DOMAIN DrawTable = 1 .. Len(table)
  BY <1>1 DEF DrawTable
<1>3. DrawRow(row, widths) =
        [l \in 1 .. height |->
           [c \in Columns |-> IF l <= Len(data[c]) THEN data[c][l] ELSE << >>]]
  BY DEF DrawRow
<1>4. widths \in [Columns -> Nat]
  BY WidthsTyped
<1> HIDE DEF widths, row
<1>5. data[col] = Data(row, col, widths[col]) /\ data[col] \in Seq(Seq(Nat))
  BY <1>1, <1>4, DataOfCell
<1>6. height \in Nat /\ Len(data[col]) <= height
  BY <1>1, <1>4, <1>5, RowHeightOfCells
<1> HIDE DEF data, height
<1> QED BY <1>1, <1>2, <1>3, <1>5, <1>6 DEF height, row, widths

LEMMA NothingLost ==
    Table => NothingIsLost
<1> SUFFICES ASSUME Table, NEW k \in DOMAIN table, NEW col \in Columns
             PROVE WordsOf[[l \in DOMAIN DrawTable[k] |-> DrawTable[k][l][col]]] =
                   Words[table[k][col]]
  BY DEF NothingIsLost
<1> DEFINE row == table[k]
           data == Data(row, col, Widths[col])
           height == RowHeight(row, Widths)
           drawn == DrawTable[k]
<1>1. k \in 1 .. Len(table)
  BY DEF Table
<1>2. /\ row \in Rows /\ data \in Seq(Seq(Nat))
      /\ height \in Nat /\ Len(data) <= height
      /\ DOMAIN drawn = 1 .. height
      /\ \A l \in 1 .. height : drawn[l][col] = IF l <= Len(data) THEN data[l] ELSE << >>
  BY <1>1, DrawnCell
<1>3. WordsOf[data] = Words[row[col]]
  BY <1>2, WidthsTyped, DataOfCell
<1> HIDE DEF row, data, height, drawn
<1>4. [l \in DOMAIN drawn |-> drawn[l][col]] = Padded(data, height)
  BY <1>2 DEF Padded
<1>5. WordsOf[Padded(data, height)] = WordsOf[data]
  BY <1>2, PaddedWords
<1> QED BY <1>3, <1>4, <1>5 DEF drawn, row

\* A drawn table shows every word of every cell, in its order: splitLine loses no
\* word where it cuts and drops lines, and RowHeight leaves room for every line of
\* the highest cell, whatever the widths of the columns come to.
THEOREM NothingLostInTables == Spec => []NothingIsLost
BY TableTyped, NothingLost, PTL DEF Spec

(***************************************************************************)
(* How wide the lines are.                                                 *)
(***************************************************************************)
Fits(line, bound) == LengthOf[line] <= bound \/ Len(line) = 1

LinesFit(ls, bound) == \A l \in 1 .. Len(ls) : Fits(ls[l], bound)

\* A word is added where there is room, or to a line of its own.
LEMMA AddedFits ==
    ASSUME NEW ls \in Seq(Seq(Nat)) \ {<< >>}, NEW e \in Nat, NEW bound \in Nat,
           LinesFit(ls, bound)
    PROVE /\ LinesFit(Append(ls, <<e>>), bound)
          /\ Last(ls) = << >> \/ LengthOf[Last(ls)] + 1 + e <= bound =>
                LinesFit([ls EXCEPT ![Len(ls)] = Append(@, e)], bound)
<1> DEFINE S == Seq(Nat)
           n == Len(ls)
<1>1. /\ [ls EXCEPT ![Len(ls)] = Append(@, e)] = Append(Front(ls), Append(Last(ls), e))
      /\ Front(ls) \in Seq(S) /\ Last(ls) \in S /\ ls = Append(Front(ls), Last(ls))
  BY ExtendedLine
<1>2. ls \in Seq(S) /\ <<e>> \in S /\ Append(Last(ls), e) \in S
  BY <1>1, FrontOfAppend
<1>3. Len(<<e>>) = 1
  OBVIOUS
<1>4. Fits(<<e>>, bound)
  BY <1>3 DEF Fits
<1>5. ASSUME NEW ms \in Seq(S), NEW line \in S, LinesFit(ms, bound), Fits(line, bound)
      PROVE LinesFit(Append(ms, line), bound)
  <2>1. /\ Len(Append(ms, line)) = Len(ms) + 1 /\ Len(ms) \in Nat
        /\ \A l \in 1 .. Len(ms) : Append(ms, line)[l] = ms[l]
        /\ Append(ms, line)[Len(ms) + 1] = line
    BY AppendProperties
  <2>2. ASSUME NEW l \in 1 .. Len(ms) + 1 PROVE Fits(Append(ms, line)[l], bound)
    <3>1. CASE l = Len(ms) + 1
      BY <1>5, <2>1, <3>1
    <3>2. CASE l \in 1 .. Len(ms)
      BY <1>5, <2>1, <3>2 DEF LinesFit
    <3> QED BY <2>1, <3>1, <3>2
  <2> QED BY <2>1, <2>2 DEF LinesFit
<1>6. LinesFit(Front(ls), bound)
  <2> DEFINE front == Front(ls)
             last == Last(ls)
  <2>1. front \in Seq(S) /\ last \in S /\ ls = Append(front, last)
    BY <1>1
  <2> HIDE DEF front, last, S
  <2>2. Len(ls) = Len(front) + 1 /\ Len(front) \in Nat
        /\ \A l \in 1 .. Len(front) : ls[l] = front[l]
    BY <2>1, AppendProperties
  <2>3. LinesFit(front, bound)
    BY <2>2 DEF LinesFit
  <2> QED BY <2>3 DEF front
<1>7. ASSUME Last(ls) = << >> \/ LengthOf[Last(ls)] + 1 + e <= bound
      PROVE Fits(Append(Last(ls), e), bound)
  <2>1. CASE Last(ls) = << >>
    <3>1. Append(Last(ls), e) = <<e>>
      BY <2>1
    <3> QED BY <1>4, <3>1
  <2>2. CASE LengthOf[Last(ls)] + 1 + e <= bound
    <3>1. LengthOf[Append(Last(ls), e)] = LengthOf[Last(ls)] + 1 + e
      BY <1>1, LengthOfWords
    <3> QED BY <2>2, <3>1 DEF Fits
  <2> QED BY <1>7, <2>1, <2>2
<1> HIDE DEF S
<1>8. LinesFit(Append(ls, <<e>>), bound)
  BY <1>2, <1>4, <1>5
<1>9. ASSUME Last(ls) = << >> \/ LengthOf[Last(ls)] + 1 + e <= bound
      PROVE LinesFit([ls EXCEPT ![Len(ls)] = Append(@, e)], bound)
  <2>1. LinesFit(Append(Front(ls), Append(Last(ls), e)), bound)
    BY <1>1, <1>2, <1>5, <1>6, <1>7, <1>9
  <2> QED BY <1>1, <2>1
<1> QED BY <1>8, <1>9

LEMMA NoLineFits ==
    ASSUME NEW bound \in Nat
    PROVE LinesFit(<< << >> >>, bound) /\ Last(<< << >> >>) = << >>
<1>1. Fits(<< >>, bound)
  BY LengthOfWords DEF Fits
<1>2. Len(<< << >> >>) = 1 /\ << << >> >>[1] = << >>
  OBVIOUS
<1> QED BY <1>1, <1>2 DEF LinesFit, Last

LEMMA LinesOfFit ==
    ASSUME NEW maxWidth \in Nat
    PROVE \A s \in Seq(Nat) : LinesFit(LinesOf(s, maxWidth), maxWidth)
<1> DEFINE P == {s \in Seq(Nat) : LinesFit(LinesOf(s, maxWidth), maxWidth)}
<1>1. << >> \in P
  <2>1. LinesOf(<< >>, maxWidth) = << << >> >>
    BY LinesOfText
  <2>2. LinesFit(<< << >> >>, maxWidth)
    BY NoLineFits
  <2> QED BY <2>1, <2>2
<1>2. ASSUME NEW s \in Seq(Nat), NEW e \in Nat, s \in P PROVE Append(s, e) \in P
  <2> DEFINE ls == LinesOf(s, maxWidth)
  <2>1. ls \in Seq(Seq(Nat)) \ {<< >>} /\ LinesFit(ls, maxWidth)
    BY <1>2, LinesOfText
  <2>2. LinesOf(Append(s, e), maxWidth) = AddWord(ls, e, maxWidth)
    BY LinesOfText
  <2> HIDE DEF ls
  <2>3. LengthOf[Last(ls)] \in Nat
    BY <2>1, ExtendedLine, LengthOfWords
  <2>4. LinesFit(AddWord(ls, e, maxWidth), maxWidth)
    <3>1. CASE LengthOf[Last(ls)] + e >= maxWidth
      BY <2>1, <3>1, AddedFits DEF AddWord
    <3>2. CASE ~ (LengthOf[Last(ls)] + e >= maxWidth)
      <4>1. LengthOf[Last(ls)] + 1 + e <= maxWidth
        BY <2>3, <3>2
      <4> QED BY <2>1, <3>2, <4>1, AddedFits DEF AddWord
    <3> QED BY <3>1, <3>2
  <2> QED BY <2>2, <2>4, FrontOfAppend
<1> HIDE DEF P
<1>3. \A s \in Seq(Nat) : s \in P
  BY <1>1, <1>2, SeqInductionSet
<1> QED BY <1>3 DEF P

LEMMA BrokenFit ==
    ASSUME NEW size \in Nat
    PROVE \A s \in Seq(Nat) : LinesFit(Broken(s, size), size + 1)
<1> DEFINE P == {s \in Seq(Nat) : LinesFit(Broken(s, size), size + 1)}
<1>1. << >> \in P
  <2>1. Broken(<< >>, size) = << << >> >>
    BY BrokenText
  <2>2. LinesFit(<< << >> >>, size + 1)
    BY NoLineFits
  <2> QED BY <2>1, <2>2
<1>2. ASSUME NEW s \in Seq(Nat), NEW e \in Nat, s \in P PROVE Append(s, e) \in P
  <2> DEFINE ls == Broken(s, size)
             bound == size + 1
  <2>1. ls \in Seq(Seq(Nat)) \ {<< >>} /\ LinesFit(ls, bound)
    BY <1>2, BrokenText
  <2>2. Broken(Append(s, e), size) = BreakBefore(ls, e, size)
    BY BrokenText
  <2>0. bound \in Nat
    OBVIOUS
  <2> HIDE DEF ls
  <2>3. LengthOf[Last(ls)] \in Nat
    BY <2>1, ExtendedLine, LengthOfWords
  <2>4. LinesFit(BreakBefore(ls, e, size), bound)
    <3>1. CASE ls = << << >> >> \/ LengthOf[Last(ls)] + e <= size
      <4>1. Last(ls) = << >> \/ LengthOf[Last(ls)] + 1 + e <= bound
        <5>1. CASE ls = << << >> >>
          BY <2>0, <5>1, NoLineFits
        <5>2. CASE LengthOf[Last(ls)] + e <= size
          BY <2>3, <5>2
        <5> QED BY <3>1, <5>1, <5>2
      <4> HIDE DEF bound
      <4>2. LinesFit([ls EXCEPT ![Len(ls)] = Append(@, e)], bound)
        BY <2>0, <2>1, <4>1, AddedFits
      <4> QED BY <3>1, <4>2 DEF BreakBefore
    <3>2. CASE ~ (ls = << << >> >> \/ LengthOf[Last(ls)] + e <= size)
      <4> HIDE DEF bound
      <4> QED BY <2>0, <2>1, <3>2, AddedFits DEF BreakBefore
    <3> QED BY <3>1, <3>2
  <2> QED BY <2>2, <2>4, FrontOfAppend
<1> HIDE DEF P
<1>3. \A s \in Seq(Nat) : s \in P
  BY <1>1, <1>2, SeqInductionSet
<1> QED BY <1>3 DEF P

\* What TrimSpace leaves of a line that fits.
LEMMA TrimmedFits ==
    ASSUME NEW line \in Seq(Nat), NEW bound \in Nat, Fits(line, bound),
           Trimmed(line) # << >>
    PROVE Fits(Trimmed(line), bound)
<1>1. /\ Trimmed(line) \in Seq(Nat) /\ Len(Trimmed(line)) <= Len(line)
      /\ LengthOf[Trimmed(line)] <= LengthOf[line]
  BY TrimmedText, TrimmedWords
<1>2. LengthOf[Trimmed(line)] \in Nat /\ LengthOf[line] \in Nat
  BY <1>1, LengthOfWords
<1>3. Len(Trimmed(line)) \in Nat \ {0} /\ Len(line) \in Nat
  BY <1>1
<1> QED BY <1>1, <1>2, <1>3 DEF Fits

\* A broken line, as it is shown.
LEMMA BrokenLine ==
    ASSUME NEW line \in Seq(Nat), NEW size \in Nat, Fits(line, size + 1)
    PROVE WidthOf(Trimmed(line)) <= size \/ Len(Trimmed(line)) = 1
<1>1. CASE Trimmed(line) = << >>
  BY <1>1 DEF WidthOf
<1>2. CASE Trimmed(line) # << >>
  <2>1. Trimmed(line) \in Seq(Nat) /\ size + 1 \in Nat
    BY TrimmedText
  <2>2. Fits(Trimmed(line), size + 1)
    BY <1>2, <2>1, TrimmedFits
  <2>3. WidthOf(Trimmed(line)) = LengthOf[Trimmed(line)] - 1 /\ LengthOf[Trimmed(line)] \in Nat
    BY <1>2, <2>1, WidthOfLine
  <2> QED BY <2>2, <2>3 DEF Fits
<1> QED BY <1>1, <1>2

\* Each line trimmed, they hold the same words.
LEMMA EachTrimmed ==
    \A ls \in Seq(Seq(Nat)) :
       /\ [k \in 1 .. Len(ls) |-> Trimmed(ls[k])] \in Seq(Seq(Nat))
       /\ WordsOf[[k \in 1 .. Len(ls) |-> Trimmed(ls[k])]] = WordsOf[ls]
<1> DEFINE S == Seq(Nat)
           Trim(ls) == [k \in 1 .. Len(ls) |-> Trimmed(ls[k])]
           P == {ls \in Seq(S) : Trim(ls) \in Seq(S) /\ WordsOf[Trim(ls)] = WordsOf[ls]}
<1>1. << >> \in P
  <2>1. Trim(<< >>) = << >> /\ << >> \in Seq(S)
    OBVIOUS
  <2> QED BY <2>1
<1>2. ASSUME NEW ls \in Seq(S), NEW e \in S, ls \in P PROVE Append(ls, e) \in P
  <2> DEFINE n == Len(ls)
             longer == Append(ls, e)
             old == Trim(ls)
             t == Trimmed(e)
  <2>1. /\ longer \in Seq(S) /\ Len(longer) = n + 1 /\ n \in Nat /\ longer[n + 1] = e
        /\ \A k \in 1 .. n : longer[k] = ls[k]
    BY AppendProperties
  <2>2. t \in S /\ Words[t] = Words[e] /\ Words[e] \in Seq(Nat)
    BY TrimmedText, TrimmedWords, WordsOfText
  <2>3. old \in Seq(S) /\ WordsOf[old] = WordsOf[ls] /\ Len(old) = n
        /\ \A k \in 1 .. n : old[k] = Trimmed(ls[k])
    BY <1>2
  <2>4. Trim(longer) = [k \in 1 .. n + 1 |-> Trimmed(longer[k])]
    BY <2>1
  <2> HIDE DEF S, n, longer, old, t, Trim, P
  <2>5. /\ Append(old, t) \in Seq(S) /\ Len(Append(old, t)) = n + 1
        /\ Append(old, t)[n + 1] = t
        /\ \A k \in 1 .. n : Append(old, t)[k] = old[k]
    BY <2>1, <2>2, <2>3, AppendProperties
  <2>6. Trim(longer) = Append(old, t)
    <3>1. ASSUME NEW k \in 1 .. n + 1 PROVE Trimmed(longer[k]) = Append(old, t)[k]
      <4>1. CASE k = n + 1
        BY <2>1, <2>5, <4>1 DEF t
      <4>2. CASE k \in 1 .. n
        BY <2>1, <2>3, <2>5, <4>2
      <4>3. n \in Nat
        BY <2>1
      <4>4. k = n + 1 \/ k \in 1 .. n
        BY <4>3
      <4> QED BY <4>1, <4>2, <4>4
    <3>2. Append(old, t) = [k \in 1 .. n + 1 |-> Append(old, t)[k]]
      <4> DEFINE u == Append(old, t)
      <4>1. u \in Seq(S) /\ Len(u) = n + 1
        BY <2>5
      <4> HIDE DEF u
      <4>2. u = [k \in 1 .. Len(u) |-> u[k]]
        BY <4>1
      <4>3. u = [k \in 1 .. n + 1 |-> u[k]]
        BY <4>1, <4>2
      <4> QED BY <4>3 DEF u
    <3> QED BY <2>4, <3>1, <3>2
  <2>7. WordsOf[Append(old, t)] = WordsOf[old] \o Words[t]
    BY <2>2, <2>3, WordsOfLines DEF S
  <2>8. WordsOf[longer] = WordsOf[ls] \o Words[e]
    BY WordsOfLines DEF S, longer
  <2>9. Trim(longer) \in Seq(S) /\ WordsOf[Trim(longer)] = WordsOf[longer]
    BY <2>2, <2>3, <2>5, <2>6, <2>7, <2>8
  <2>10. longer \in P
    BY <2>1, <2>9 DEF P
  <2> QED BY <2>10 DEF longer
<1> HIDE DEF P
<1>3. \A ls \in Seq(S) : ls \in P
  <2> HIDE DEF S
  <2> QED BY <1>1, <1>2, SeqInductionSet
<1> QED BY <1>3 DEF P

LEMMA LinebreakFits ==
    ASSUME NEW text \in Seq(Nat), NEW size \in Nat
    PROVE LET lines == Linebreak(text, size)
          IN  /\ WordsOf[lines] = Words[text]
              /\ \A l \in DOMAIN lines : WidthOf(lines[l]) <= size \/ Len(lines[l]) = 1
<1> DEFINE lines == Linebreak(text, size)
           broken == Broken(text, size)
<1>1. CASE size >= WidthOf(text)
  <2>1. lines = <<text>>
    BY <1>1 DEF Linebreak
  <2>2. WidthOf(text) \in Nat
    BY WidthOfLine
  <2>3. WordsOf[<<text>>] = Words[text]
    BY OneLine
  <2>4. DOMAIN <<text>> = 1 .. 1 /\ <<text>>[1] = text
    OBVIOUS
  <2>5. WidthOf(text) <= size
    BY <1>1, <2>2
  <2> HIDE DEF lines
  <2> QED BY <2>1, <2>3, <2>4, <2>5 DEF lines
<1>2. CASE ~ (size >= WidthOf(text))
  <2>1. broken \in Seq(Seq(Nat)) /\ LinesFit(broken, size + 1) /\ WordsOf[broken] = Words[text]
    BY BrokenText, BrokenFit, BrokenKeepsWords
  <2>2. lines = [k \in 1 .. Len(broken) |-> Trimmed(broken[k])]
    BY <1>2, <2>1 DEF Linebreak
  <2>3. \A k \in 1 .. Len(broken) : broken[k] \in Seq(Nat) /\ Fits(broken[k], size + 1)
    BY <2>1 DEF LinesFit
  <2> HIDE DEF lines, broken
  <2>4. WordsOf[lines] = Words[text]
    BY <2>1, <2>2, EachTrimmed
  <2>5. \A k \in 1 .. Len(broken) :
           WidthOf(Trimmed(broken[k])) <= size \/ Len(Trimmed(broken[k])) = 1
    BY <2>3, BrokenLine
  <2>6. \A l \in DOMAIN lines : WidthOf(lines[l]) <= size \/ Len(lines[l]) = 1
    BY <2>2, <2>5
  <2> QED BY <2>4, <2>6 DEF lines
<1> QED BY <1>1, <1>2

\* linebreak returns every word in its order, on lines no wider than the size
\* unless they are one word, for every text and every size.
THEOREM LinesBreakWell == Spec => []BrokenLinesFit
<1>1. Table => BrokenLinesFit
  <2> SUFFICES ASSUME Table, table # <<>>, NEW col \in Columns, NEW size \in 1 .. PageWidth
               PROVE LET lines == Linebreak(Last(table)[col], size)
                     IN  /\ WordsOf[lines] = Words[Last(table)[col]]
                         /\ \A l \in DOMAIN lines :
                               WidthOf(lines[l]) <= size \/ Len(lines[l]) = 1
    BY DEF BrokenLinesFit
  <2>1. Last(table) \in Rows
    BY AppendToFront DEF Table
  <2>2. Last(table)[col] \in Seq(Nat) /\ size \in Nat
    BY <2>1, TextsAssumption, PageFits DEF Rows
  <2> QED BY <2>2, LinebreakFits
<1> QED BY <1>1, TableTyped, PTL DEF Spec

(***************************************************************************)
(* Which words a text and its lines have.                                  *)
(***************************************************************************)
Has(s, e) == \E k \in 1 .. Len(s) : s[k] = e

LEMMA HasAppend ==
    ASSUME NEW S, NEW s \in Seq(S), NEW d \in S, NEW e
    PROVE Has(Append(s, d), e) <=> Has(s, e) \/ d = e
<1>1. /\ Len(Append(s, d)) = Len(s) + 1 /\ Len(s) \in Nat /\ Append(s, d)[Len(s) + 1] = d
      /\ \A k \in 1 .. Len(s) : Append(s, d)[k] = s[k]
  BY AppendProperties
<1> DEFINE t == Append(s, d)
           n == Len(s)
<1>2. Len(t) = n + 1 /\ n \in Nat /\ t[n + 1] = d /\ \A k \in 1 .. n : t[k] = s[k]
  BY <1>1
<1>3. Has(s, e) <=> \E k \in 1 .. n : s[k] = e
  BY DEF Has
<1> HIDE DEF t, n
<1>4. Has(t, e) <=> \E k \in 1 .. n + 1 : t[k] = e
  BY <1>2 DEF Has
<1>5. ASSUME NEW k \in 1 .. n + 1, t[k] = e PROVE Has(s, e) \/ d = e
  <2>1. CASE k = n + 1
    BY <1>2, <1>5, <2>1
  <2>2. CASE k \in 1 .. n
    BY <1>2, <1>3, <1>5, <2>2
  <2>3. k = n + 1 \/ k \in 1 .. n
    BY <1>2
  <2> QED BY <2>1, <2>2, <2>3
<1>6. ASSUME NEW k \in 1 .. n, s[k] = e PROVE Has(t, e)
  <2>1. k \in 1 .. n + 1 /\ t[k] = e
    BY <1>2, <1>6
  <2> QED BY <1>4, <2>1
<1>7. n + 1 \in 1 .. n + 1
  BY <1>2
<1> QED BY <1>2, <1>3, <1>4, <1>5, <1>6, <1>7 DEF t

LEMMA HasConcat ==
    ASSUME NEW S, NEW s \in Seq(S), NEW t \in Seq(S), NEW e
    PROVE Has(s \o t, e) => Has(s, e) \/ Has(t, e)
<1> SUFFICES ASSUME NEW k \in 1 .. Len(s \o t), (s \o t)[k] = e
             PROVE Has(s, e) \/ Has(t, e)
  BY DEF Has
<1>1. /\ Len(s \o t) = Len(s) + Len(t) /\ Len(s) \in Nat /\ Len(t) \in Nat
      /\ (s \o t)[k] = IF k <= Len(s) THEN s[k] ELSE t[k - Len(s)]
  BY ConcatProperties
<1>2. CASE k <= Len(s)
  BY <1>1, <1>2 DEF Has
<1>3. CASE ~ (k <= Len(s))
  <2>1. k - Len(s) \in 1 .. Len(t) /\ t[k - Len(s)] = e
    BY <1>1, <1>3
  <2> QED BY <2>1 DEF Has
<1> QED BY <1>2, <1>3

LEMMA HasConcatBack ==
    ASSUME NEW S, NEW s \in Seq(S), NEW t \in Seq(S), NEW e
    PROVE Has(s, e) \/ Has(t, e) => Has(s \o t, e)
<1>1. /\ Len(s \o t) = Len(s) + Len(t) /\ Len(s) \in Nat /\ Len(t) \in Nat
      /\ \A i \in 1 .. Len(s) + Len(t) :
            (s \o t)[i] = IF i <= Len(s) THEN s[i] ELSE t[i - Len(s)]
  BY ConcatProperties
<1>2. ASSUME NEW k \in 1 .. Len(s), s[k] = e PROVE Has(s \o t, e)
  <2>1. k \in 1 .. Len(s) + Len(t) /\ (s \o t)[k] = e
    BY <1>1, <1>2
  <2> QED BY <1>1, <2>1 DEF Has
<1>3. ASSUME NEW k \in 1 .. Len(t), t[k] = e PROVE Has(s \o t, e)
  <2> DEFINE i == Len(s) + k
  <2>1. i \in 1 .. Len(s) + Len(t) /\ ~ (i <= Len(s)) /\ i - Len(s) = k
    BY <1>1
  <2> HIDE DEF i
  <2>2. (s \o t)[i] = e
    BY <1>1, <1>3, <2>1
  <2> QED BY <1>1, <2>1, <2>2 DEF Has
<1> QED BY <1>2, <1>3 DEF Has

\* A word that is seen is in the text, and the text is longer than it.
LEMMA WordsFit ==
    ASSUME NEW e \in Nat
    PROVE \A s \in Seq(Nat) : Has(Words[s], e) => Has(s, e) /\ LengthOf[s] >= 1 + e
<1> DEFINE P == {s \in Seq(Nat) : /\ Has(Words[s], e) => Has(s, e)
                                  /\ Has(s, e) => LengthOf[s] >= 1 + e}
<1>1. << >> \in P
  BY WordsOfText DEF Has
<1>2. ASSUME NEW s \in Seq(Nat), NEW d \in Nat, s \in P PROVE Append(s, d) \in P
  <2>1. /\ Words[Append(s, d)] = IF d = 0 THEN Words[s] ELSE Append(Words[s], d)
        /\ Words[s] \in Seq(Nat)
        /\ LengthOf[Append(s, d)] = LengthOf[s] + 1 + d /\ LengthOf[s] \in Nat
    BY WordsOfText, LengthOfWords
  <2>2. Has(Append(s, d), e) <=> Has(s, e) \/ d = e
    BY HasAppend
  <2>3. Has(Append(Words[s], d), e) <=> Has(Words[s], e) \/ d = e
    BY <2>1, HasAppend
  <2>4. /\ Has(Words[s], e) => Has(s, e)
        /\ Has(s, e) => LengthOf[s] >= 1 + e
    BY <1>2
  <2>5. Append(s, d) \in Seq(Nat)
    BY FrontOfAppend
  <2>6. Has(Words[Append(s, d)], e) => Has(Append(s, d), e)
    BY <2>1, <2>2, <2>3, <2>4
  <2>7. Has(Append(s, d), e) => LengthOf[Append(s, d)] >= 1 + e
    BY <2>1, <2>2, <2>4
  <2> QED BY <2>5, <2>6, <2>7
<1> HIDE DEF P
<1>3. \A s \in Seq(Nat) : s \in P
  BY <1>1, <1>2, SeqInductionSet
<1> QED BY <1>3 DEF P

\* The lines have the words of each of them.
LEMMA LinesHave ==
    ASSUME NEW e
    PROVE \A ls \in Seq(Seq(Nat)) :
             Has(WordsOf[ls], e) <=> \E k \in 1 .. Len(ls) : Has(Words[ls[k]], e)
<1> DEFINE S == Seq(Nat)
           Some(ls) == \E k \in 1 .. Len(ls) : Has(Words[ls[k]], e)
           P == {ls \in Seq(S) : Has(WordsOf[ls], e) <=> Some(ls)}
<1>1. << >> \in P
  BY WordsOfLines DEF Has
<1>2. ASSUME NEW ls \in Seq(S), NEW line \in S, ls \in P PROVE Append(ls, line) \in P
  <2> DEFINE new == Append(ls, line)
             n == Len(ls)
  <2>1. WordsOf[new] = WordsOf[ls] \o Words[line]
        /\ WordsOf[ls] \in Seq(Nat) /\ Words[line] \in Seq(Nat)
    BY WordsOfLines, WordsOfText
  <2>2. Has(WordsOf[new], e) <=> Has(WordsOf[ls], e) \/ Has(Words[line], e)
    BY <2>1, HasConcat, HasConcatBack
  <2>3. /\ new \in Seq(S) /\ Len(new) = n + 1 /\ n \in Nat /\ new[n + 1] = line
        /\ \A k \in 1 .. n : new[k] = ls[k]
    BY AppendProperties
  <2>4. Some(ls) <=> \E k \in 1 .. n : Has(Words[ls[k]], e)
    OBVIOUS
  <2> HIDE DEF new, n
  <2>5. Some(new) <=> \E k \in 1 .. n + 1 : Has(Words[new[k]], e)
    BY <2>3
  <2>6. Has(WordsOf[ls], e) <=> Some(ls)
    BY <1>2
  <2> HIDE DEF Some, S
  <2>7. Some(new) <=> Some(ls) \/ Has(Words[line], e)
    <3>1. ASSUME NEW k \in 1 .. n + 1, Has(Words[new[k]], e)
          PROVE Some(ls) \/ Has(Words[line], e)
      <4>1. k = n + 1 \/ k \in 1 .. n
        BY <2>3
      <4> QED BY <2>3, <2>4, <3>1, <4>1
    <3>2. ASSUME NEW k \in 1 .. n, Has(Words[ls[k]], e) PROVE Some(new)
      <4>1. k \in 1 .. n + 1 /\ new[k] = ls[k]
        BY <2>3
      <4> QED BY <2>5, <3>2, <4>1
    <3>3. n + 1 \in 1 .. n + 1
      BY <2>3
    <3> QED BY <2>3, <2>4, <2>5, <3>1, <3>2, <3>3
  <2>8. new \in P
    BY <2>2, <2>3, <2>6, <2>7
  <2> QED BY <2>8 DEF new
<1> HIDE DEF P
<1>3. \A ls \in Seq(S) : ls \in P
  <2> HIDE DEF S
  <2> QED BY <1>1, <1>2, SeqInductionSet
<1> QED BY <1>3 DEF P

\* What splitLine returns: lines with something on them, as wide as they may be
\* or of one word.
LEMMA KeptFit ==
    ASSUME NEW bound \in Nat
    PROVE \A ls \in Seq(Seq(Nat)) :
             LinesFit(ls, bound) =>
                /\ LinesFit(Kept[ls], bound)
                /\ \A k \in 1 .. Len(Kept[ls]) : Kept[ls][k] # << >>
<1> DEFINE S == Seq(Nat)
           Good(ls) == LinesFit(ls, bound) /\ \A k \in 1 .. Len(ls) : ls[k] # << >>
           P == {ls \in Seq(S) : LinesFit(ls, bound) => Good(Kept[ls])}
<1>1. << >> \in P
  BY KeptLines DEF LinesFit
<1>2. ASSUME NEW ls \in Seq(S), NEW line \in S, ls \in P PROVE Append(ls, line) \in P
  <2> DEFINE new == Append(ls, line)
             n == Len(ls)
             t == Trimmed(line)
             kept == Kept[ls]
  <2>1. /\ new \in Seq(S) /\ Len(new) = n + 1 /\ n \in Nat /\ new[n + 1] = line
        /\ \A k \in 1 .. n : new[k] = ls[k]
    BY AppendProperties
  <2>2. kept \in Seq(S) /\ t \in S
    BY KeptLines, TrimmedText
  <2>3. Kept[new] = IF t = << >> THEN kept ELSE Append(kept, t)
    BY KeptLines
  <2>4. LinesFit(ls, bound) => Good(kept)
    BY <1>2
  <2>5. LinesFit(ls, bound) <=> \A k \in 1 .. n : Fits(ls[k], bound)
    BY DEF LinesFit
  <2> HIDE DEF new, n
  <2>6. ASSUME LinesFit(new, bound) PROVE LinesFit(ls, bound) /\ Fits(line, bound)
    <3>1. \A k \in 1 .. n + 1 : Fits(new[k], bound)
      BY <2>1, <2>6 DEF LinesFit
    <3>2. n + 1 \in 1 .. n + 1 /\ \A k \in 1 .. n : k \in 1 .. n + 1
      BY <2>1
    <3> QED BY <2>1, <2>5, <3>1, <3>2
  <2>7. ASSUME LinesFit(new, bound) PROVE Good(Kept[new])
    <3>1. Good(kept)
      BY <2>4, <2>6, <2>7
    <3>2. CASE t = << >>
      BY <2>3, <3>1, <3>2
    <3>3. CASE t # << >>
      <4>1. Fits(t, bound)
        BY <2>6, <2>7, <3>3, TrimmedFits
      <4>2. /\ Len(Append(kept, t)) = Len(kept) + 1 /\ Len(kept) \in Nat
            /\ Append(kept, t)[Len(kept) + 1] = t
            /\ \A k \in 1 .. Len(kept) : Append(kept, t)[k] = kept[k]
        <5> HIDE DEF S, kept, t
        <5> QED BY <2>2, AppendProperties
      <4> DEFINE longer == Append(kept, t)
                 m == Len(kept)
      <4>3. Len(longer) = m + 1 /\ m \in Nat /\ longer[m + 1] = t
            /\ \A k \in 1 .. m : longer[k] = kept[k]
        BY <4>2
      <4>4. \A k \in 1 .. m : Fits(kept[k], bound) /\ kept[k] # << >>
        BY <3>1 DEF LinesFit
      <4> HIDE DEF longer, m, t, kept
      <4>5. ASSUME NEW k \in 1 .. m + 1 PROVE Fits(longer[k], bound) /\ longer[k] # << >>
        <5>1. k = m + 1 \/ k \in 1 .. m
          BY <4>3
        <5> QED BY <3>3, <4>1, <4>3, <4>4, <5>1
      <4>6. Good(longer)
        BY <4>3, <4>5 DEF LinesFit
      <4> QED BY <2>3, <3>3, <4>6 DEF longer
    <3> QED BY <3>2, <3>3
  <2>8. new \in P
    BY <2>1, <2>7
  <2> QED BY <2>8 DEF new
<1> HIDE DEF P
<1>3. \A ls \in Seq(S) : ls \in P
  <2> HIDE DEF S
  <2> QED BY <1>1, <1>2, SeqInductionSet
<1> QED BY <1>3 DEF P

LEMMA SingleSeq ==
    ASSUME NEW S, NEW s \in Seq(S), Len(s) = 1
    PROVE s[1] \in S /\ s = Append(<< >>, s[1])
<1>1. s # << >>
  BY EmptySeq
<1>2. PICK t \in Seq(S), d \in S : s = Append(t, d)
  BY <1>1, SequenceEmptyOrAppend
<1>3. Len(s) = Len(t) + 1 /\ s[Len(t) + 1] = d /\ Len(t) \in Nat
  BY <1>2, AppendProperties
<1>4. Len(t) = 0
  <2> DEFINE n == Len(t)
  <2>1. n \in Nat /\ n + 1 = 1
    BY <1>3
  <2> HIDE DEF n
  <2>2. n = 0
    BY <2>1
  <2> QED BY <2>2 DEF n
<1>6. s[1] = d
  <2>1. s[0 + 1] = d
    BY <1>3, <1>4
  <2> QED BY <2>1
<1>5. t = << >>
  BY <1>4, EmptySeq
<1> QED BY <1>2, <1>5, <1>6

\* A line of one word is as long as the word, with the blank before it.
LEMMA OneWord ==
    ASSUME NEW line \in Seq(Nat), Len(line) = 1
    PROVE /\ line[1] \in Nat
          /\ LengthOf[line] = 1 + line[1]
          /\ line[1] # 0 => Has(Words[line], line[1])
<1> DEFINE e == line[1]
           none == << >>
<1>1. none \in Seq(Nat)
  OBVIOUS
<1>2. e \in Nat /\ line = Append(none, e)
  BY SingleSeq
<1>3. LengthOf[none] = 0 /\ Words[none] = none
  BY WordsOfText, LengthOfWords
<1> HIDE DEF e, none
<1>4. LengthOf[Append(none, e)] = LengthOf[none] + 1 + e
  BY <1>1, <1>2, LengthOfWords
<1>5. LengthOf[line] = 1 + e
  BY <1>2, <1>3, <1>4
<1>6. ASSUME e # 0 PROVE Has(Words[line], e)
  <2>1. Words[Append(none, e)] = Append(none, e)
    BY <1>1, <1>2, <1>3, <1>6, WordsOfText
  <2>2. Has(Append(none, e), e)
    BY <1>1, <1>2, HasAppend
  <2> QED BY <1>2, <2>1, <2>2
<1> QED BY <1>2, <1>5, <1>6 DEF e

\* A drawn line is no wider than its column, if the column was measured with the
\* cell: what does not fit is one word, and the lines that were measured have it.
LEMMA CellFits ==
    ASSUME NEW row \in Rows, NEW col \in Columns, NEW width \in Nat \ {0},
           FieldWidth(row, col, Measure) <= width,
           NEW l \in 1 .. Len(Data(row, col, width))
    PROVE WidthOf(Data(row, col, width)[l]) <= width
<1> DEFINE text == row[col]
           data == Data(row, col, width)
           measured == Data(row, col, Measure)
           line == data[l]
<1>1. /\ text \in Seq(Nat) /\ data \in Seq(Seq(Nat)) /\ WordsOf[data] = Words[text]
      /\ measured \in Seq(Seq(Nat)) /\ WordsOf[measured] = Words[text]
  BY DataOfCell, PageFits
<1>2. /\ FieldWidth(row, col, Measure) \in Nat
      /\ \A k \in 1 .. Len(measured) : WidthOf(measured[k]) <= FieldWidth(row, col, Measure)
  BY PageFits, FieldWidthOfCell
<1>3. line \in Seq(Nat) /\ WidthOf(line) \in Nat
  BY <1>1, WidthOfLine
<1>4. CASE col \in Unsplit
  <2>1. data = <<text>> /\ measured = <<text>>
    BY <1>4 DEF Data
  <2>2. line = text /\ WidthOf(text) <= FieldWidth(row, col, Measure)
    <3>1. l \in 1 .. 1 /\ <<text>>[1] = text /\ Len(<<text>>) = 1
      BY <2>1
    <3> HIDE DEF text
    <3> QED BY <1>2, <2>1, <3>1
  <2> QED BY <1>2, <1>3, <2>2
<1>5. CASE col \notin Unsplit
  <2>1. data = Kept[LinesOf(text, width)]
    BY <1>5 DEF Data, SplitLine
  <2>2. LinesOf(text, width) \in Seq(Seq(Nat)) /\ LinesFit(LinesOf(text, width), width)
    BY <1>1, LinesOfText, LinesOfFit
  <2>3. Fits(line, width) /\ line # << >>
    BY <2>1, <2>2, KeptFit DEF LinesFit
  <2>4. WidthOf(line) = LengthOf[line] - 1 /\ LengthOf[line] \in Nat
    BY <1>3, <2>3, WidthOfLine
  <2>5. CASE LengthOf[line] <= width
    BY <2>4, <2>5
  <2>6. CASE Len(line) = 1
    <3> DEFINE e == line[1]
    <3>1. e \in Nat /\ LengthOf[line] = 1 + e /\ (e # 0 => Has(Words[line], e))
      BY <1>3, <2>6, OneWord
    <3>2. WidthOf(line) = e
      BY <2>4, <3>1
    <3>3. e # 0 => Has(WordsOf[data], e)
      BY <1>1, <3>1, LinesHave
    <3> HIDE DEF e
    <3>4. CASE e = 0
      BY <3>2, <3>4
    <3>5. CASE e # 0
      <4>1. PICK k \in 1 .. Len(measured) : Has(Words[measured[k]], e)
        BY <1>1, <3>3, <3>5, LinesHave
      <4> DEFINE other == measured[k]
      <4>2. other \in Seq(Nat) /\ WidthOf(other) <= FieldWidth(row, col, Measure)
        BY <1>1, <1>2
      <4>3. Has(Words[other], e)
        BY <4>1
      <4> HIDE DEF other
      <4>4. LengthOf[other] >= 1 + e /\ Has(other, e)
        BY <3>1, <4>2, <4>3, WordsFit
      <4>5. other # << >>
        BY <4>4 DEF Has
      <4>6. WidthOf(other) = LengthOf[other] - 1 /\ LengthOf[other] \in Nat
        BY <4>2, <4>5, WidthOfLine
      <4>7. e <= width
        BY <1>2, <3>1, <4>2, <4>4, <4>6
      <4> QED BY <3>2, <4>7
    <3> QED BY <3>4, <3>5
  <2> QED BY <2>3, <2>5, <2>6 DEF Fits
<1> QED BY <1>4, <1>5

\* No title and no line of a drawn table is wider than its column, though the
\* columns are measured (ColWidth, FieldSize) with lines that splitLine cuts at the
\* width of the page and not at that of the column: a line that is wider than
\* where it was cut is one word, and the column was measured with that word in it.
THEOREM CellsFitTheirColumns == Spec => []CellsFit
<1>1. Table => CellsFit
  <2> SUFFICES ASSUME Table, NEW col \in Columns
               PROVE /\ Titles[col] <= Widths[col]
                     /\ \A k \in DOMAIN DrawTable : \A l \in DOMAIN DrawTable[k] :
                           WidthOf(DrawTable[k][l][col]) <= Widths[col]
    BY DEF CellsFit
  <2>1. /\ Widths[col] \in Nat \ {0} /\ Titles[col] <= Widths[col]
        /\ \A k \in 1 .. Len(table) : FieldWidth(table[k], col, Measure) <= Widths[col]
    BY WidthOfColumn
  <2>2. DOMAIN DrawTable = 1 .. Len(table)
    BY DEF DrawTable, Table
  <2>3. ASSUME NEW k \in 1 .. Len(table), NEW l \in DOMAIN DrawTable[k]
        PROVE WidthOf(DrawTable[k][l][col]) <= Widths[col]
    <3> DEFINE data == Data(table[k], col, Widths[col])
    <3>1. /\ table[k] \in Rows /\ data \in Seq(Seq(Nat))
          /\ DOMAIN DrawTable[k] = 1 .. RowHeight(table[k], Widths)
          /\ RowHeight(table[k], Widths) \in Nat
          /\ \A i \in 1 .. RowHeight(table[k], Widths) :
                DrawTable[k][i][col] = IF i <= Len(data) THEN data[i] ELSE << >>
      BY DrawnCell
    <3>2. CASE l <= Len(data)
      <4>1. l \in 1 .. Len(data) /\ DrawTable[k][l][col] = data[l]
        BY <3>1, <3>2
      <4> QED BY <2>1, <3>1, <4>1, CellFits
    <3>3. CASE ~ (l <= Len(data))
      <4>1. DrawTable[k][l][col] = << >>
        BY <3>1, <3>3
      <4> QED BY <2>1, <4>1 DEF WidthOf
    <3> QED BY <3>2, <3>3
  <2> QED BY <2>1, <2>2, <2>3
<1> QED BY <1>1, TableTyped, PTL DEF Spec

(***************************************************************************)
(* The list of a row.                                                      *)
(***************************************************************************)
Item == [star : BOOLEAN, dash : BOOLEAN, text : Texts]

\* A cell is one item, which begins with a dash.
LEMMA OneItem ==
    ASSUME NEW row \in Rows, NEW col \in Columns, NEW first \in BOOLEAN
    PROVE Items(row, col, first) = <<[star |-> first, dash |-> TRUE, text |-> row[col]]>>
<1> DEFINE item == [star |-> first, dash |-> TRUE, text |-> row[col]]
<1>1. Data(row, col, 0) = <<row[col]>>
  BY DEF Data, SplitLine
<1>2. Items(row, col, first) =
        [l \in 1 .. 1 |-> [star |-> first /\ l = 1, dash |-> l = 1, text |-> <<row[col]>>[l]]]
  BY <1>1 DEF Items
<1>3. ASSUME NEW l \in 1 .. 1
      PROVE [star |-> first /\ l = 1, dash |-> l = 1, text |-> <<row[col]>>[l]] = item
  <2>1. l = 1 /\ <<row[col]>>[1] = row[col]
    OBVIOUS
  <2>2. (first /\ l = 1) = first /\ (l = 1) = TRUE
    BY <2>1
  <2> QED BY <2>1, <2>2
<1>4. item = [star |-> first, dash |-> TRUE, text |-> row[col]]
  OBVIOUS
<1> HIDE DEF item
<1>5. Items(row, col, first) = [l \in 1 .. 1 |-> item]
  BY <1>2, <1>3
<1>6. [l \in 1 .. 1 |-> item] = <<item>>
  OBVIOUS
<1> QED BY <1>4, <1>5, <1>6

\* A cell adds one item to the list.
LEMMA CellOfList ==
    ASSUME NEW row \in Rows
    PROVE \A list \in Seq(Item), col \in Columns, first \in BOOLEAN :
             \E item \in Item : /\ item.star = first /\ item.dash = TRUE
                                /\ list \o Items(row, col, first) = Append(list, item)
<1> SUFFICES ASSUME NEW list \in Seq(Item), NEW col \in Columns, NEW first \in BOOLEAN
             PROVE \E item \in Item : /\ item.star = first /\ item.dash = TRUE
                                      /\ list \o Items(row, col, first) = Append(list, item)
  OBVIOUS
<1> DEFINE item == [star |-> first, dash |-> TRUE, text |-> row[col]]
<1>1. row[col] \in Texts
  BY DEF Rows
<1>2. item \in Item /\ item.star = first /\ item.dash = TRUE
  BY <1>1 DEF Item
<1>3. Items(row, col, first) = <<item>>
  BY OneItem
<1> HIDE DEF item
<1>4. Append(list, item) = list \o <<item>>
  BY <1>2, AppendIsConcat
<1> QED BY <1>2, <1>3, <1>4

\* The list of a row, a cell at a time.
ListStep(row, x) == x[1] \o Items(row, x[2], x[3] = 0)
ListSteps(row) == [x \in Seq(Item) \X Columns \X Nat |-> ListStep(row, x)]

LEMMA ListStepTyped ==
    ASSUME NEW row \in Rows, NEW list \in Seq(Item), NEW col \in Columns, NEW n \in Nat
    PROVE /\ ListSteps(row)[<<list, col, n>>] = list \o Items(row, col, n = 0)
          /\ list \o Items(row, col, n = 0) \in Seq(Item)
<1>1. (n = 0) \in BOOLEAN
  OBVIOUS
<1> DEFINE first == (n = 0)
<1> HIDE DEF first
<1>2. PICK item \in Item : list \o Items(row, col, first) = Append(list, item)
  BY <1>1, CellOfList DEF first
<1>3. Append(list, item) \in Seq(Item)
  OBVIOUS
<1>4. list \o Items(row, col, n = 0) \in Seq(Item)
  BY <1>2, <1>3 DEF first
<1>5. ListSteps(row)[<<list, col, n>>] = list \o Items(row, col, n = 0)
  <2> DEFINE T == Seq(Item)
  <2> HIDE DEF T
  <2>1. ListSteps(row) = [x \in T \X Columns \X Nat |-> ListStep(row, x)]
    BY DEF ListSteps, T
  <2>2. list \in T
    BY DEF T
  <2> DEFINE x == <<list, col, n>>
  <2>3. x \in T \X Columns \X Nat /\ x[1] = list /\ x[2] = col /\ x[3] = n
    BY <2>2
  <2> HIDE DEF x
  <2>4. ListSteps(row)[x] = ListStep(row, x)
    BY <2>1, <2>3
  <2> QED BY <2>3, <2>4 DEF ListStep, x
<1> QED BY <1>4, <1>5

LEMMA ListOfRow ==
    ASSUME NEW row \in Rows
    PROVE \E list : /\ Repeats(Columns, Seq(Item), << >>, ListSteps(row), list)
                    /\ DrawList(row) = list[Cols]
<1> DEFINE S == Columns
           T == Seq(Item)
           step == ListSteps(row)
           Body(f) == [s \in Seq(S) |->
                         IF s = << >> THEN << >>
                         ELSE f[Front(s)] \o Items(row, Last(s), Len(s) = 1)]
           F == CHOOSE f : f = Body(f)
<1>1. << >> \in T
  OBVIOUS
<1>2. \A x \in T, y \in S, n \in Nat :
         step[<<x, y, n>>] = x \o Items(row, y, n = 0) /\ x \o Items(row, y, n = 0) \in T
  BY ListStepTyped
<1>3. step \in Steps(S, T)
  <2>1. ASSUME NEW x \in T \X S \X Nat PROVE ListStep(row, x) \in T
    <3>1. x[1] \in T /\ x[2] \in S /\ x[3] \in Nat
      OBVIOUS
    <3> QED BY <3>1, ListStepTyped DEF ListStep
  <2>2. step = [x \in T \X S \X Nat |-> ListStep(row, x)]
    BY DEF ListSteps
  <2> HIDE DEF step, S, T
  <2> QED BY <2>1, <2>2 DEF Steps
<1> HIDE DEF step
<1>4. PICK f : Repeats(S, T, << >>, step, f)
  <2> HIDE DEF S, T
  <2> QED BY <1>1, <1>3, SeqRecursion
<1>5. f = Body(f)
  <2> HIDE DEF S, T
  <2>1. ASSUME NEW s \in Seq(S), s # << >>
        PROVE f[s] = f[Front(s)] \o Items(row, Last(s), Len(s) = 1)
    <3>1. f[s] = step[<<f[Front(s)], Last(s), Len(s) - 1>>]
      BY <1>4, <2>1, RepeatsFront
    <3>2. f[Front(s)] \in T /\ Last(s) \in S /\ Len(s) - 1 \in Nat
      BY <1>4, <2>1, AppendToFront DEF Repeats
    <3>3. f[s] = f[Front(s)] \o Items(row, Last(s), Len(s) - 1 = 0)
      BY <1>2, <3>1, <3>2
    <3>4. (Len(s) - 1 = 0) = (Len(s) = 1)
      BY <2>1
    <3> QED BY <3>3, <3>4
  <2> QED BY <1>4, <2>1 DEF Repeats
<1>6. F = Body(F)
  BY <1>5
<1> HIDE DEF F
<1>7. F[<< >>] = << >>
  <2> HIDE DEF S, T
  <2> QED BY <1>6, EmptySeq
<1>8. ASSUME NEW s \in Seq(S), NEW e \in S
      PROVE F[Append(s, e)] = F[s] \o Items(row, e, Len(s) = 0)
  <2> DEFINE t == Append(s, e)
  <2> HIDE DEF S, T
  <2>1. t \in Seq(S) /\ t # << >> /\ Front(t) = s /\ Last(t) = e /\ Len(t) = Len(s) + 1
    BY FrontOfAppend
  <2> HIDE DEF t
  <2>2. F[t] = F[s] \o Items(row, e, Len(t) = 1)
    BY <1>6, <2>1
  <2>3. (Len(t) = 1) = (Len(s) = 0)
    <3>1. Len(s) \in Nat
      OBVIOUS
    <3> QED BY <2>1, <3>1
  <2> QED BY <2>2, <2>3 DEF t
<1>9. F = [s \in Seq(S) |-> F[s]]
  BY <1>6
<1>10. DrawList(row) = F[Cols]
  BY DEF DrawList, F, Body, S
<1> HIDE DEF Body, T, S
<1>11. ASSUME NEW s \in Seq(S), NEW e \in S, F[s] \in T
       PROVE F[Append(s, e)] = step[<<F[s], e, Len(s)>>]
  <2>1. step[<<F[s], e, Len(s)>>] = F[s] \o Items(row, e, Len(s) = 0)
    <3>1. Len(s) \in Nat
      OBVIOUS
    <3> QED BY <1>2, <1>11, <3>1
  <2> QED BY <1>8, <2>1
<1>12. Repeats(S, T, << >>, step, F)
  BY <1>1, <1>3, <1>7, <1>9, <1>11, SeqFunction
<1> QED BY <1>10, <1>12 DEF step, S, T

\* The list has an item for every cell, the first of them with a star.
Uniform(list, n) ==
    /\ list \in Seq(Item) /\ Len(list) = n
    /\ \A l \in 1 .. n : list[l].dash = TRUE /\ list[l].star = (l = 1)

LEMMA UniformGrows ==
    ASSUME NEW n \in Nat, NEW list, Uniform(list, n), NEW item \in Item,
           item.dash = TRUE, item.star = (n = 0)
    PROVE Uniform(Append(list, item), n + 1)
<1>1. /\ Append(list, item) \in Seq(Item) /\ Len(Append(list, item)) = n + 1
      /\ \A l \in 1 .. n : Append(list, item)[l] = list[l]
      /\ Append(list, item)[n + 1] = item
  BY AppendProperties DEF Uniform
<1> DEFINE new == Append(list, item)
<1> HIDE DEF new
<1>2. ASSUME NEW l \in 1 .. n + 1
      PROVE new[l].dash = TRUE /\ new[l].star = (l = 1)
  <2>1. CASE l = n + 1
    <3>1. new[l] = item
      BY <1>1, <2>1 DEF new
    <3>2. (n = 0) = (l = 1)
      BY <2>1
    <3> QED BY <3>1, <3>2
  <2>2. CASE l \in 1 .. n
    BY <1>1, <2>2 DEF new, Uniform
  <2>3. l = n + 1 \/ l \in 1 .. n
    OBVIOUS
  <2> QED BY <2>1, <2>2, <2>3
<1> QED BY <1>1, <1>2 DEF new, Uniform

LEMMA UniformList ==
    ASSUME NEW row \in Rows
    PROVE Uniform(DrawList(row), Len(Cols))
<1>1. PICK list : /\ Repeats(Columns, Seq(Item), << >>, ListSteps(row), list)
                  /\ DrawList(row) = list[Cols]
  BY ListOfRow
<1> DEFINE P == {s \in Seq(Columns) : Uniform(list[s], Len(s))}
<1>2. << >> \in P
  <2>1. list[<< >>] = << >>
    BY <1>1 DEF Repeats
  <2>2. << >> \in Seq(Item) /\ << >> \in Seq(Columns) /\ Len(<< >>) = 0
    OBVIOUS
  <2>3. Uniform(<< >>, 0)
    BY <2>2 DEF Uniform
  <2> QED BY <2>1, <2>2, <2>3
<1>3. ASSUME NEW s \in Seq(Columns), NEW e \in Columns, s \in P PROVE Append(s, e) \in P
  <2>1. Append(s, e) \in Seq(Columns) /\ Len(Append(s, e)) = Len(s) + 1 /\ Len(s) \in Nat
    OBVIOUS
  <2>2. Uniform(list[s], Len(s))
    BY <1>3
  <2>3. list[s] \in Seq(Item)
    BY <2>2 DEF Uniform
  <2>4. list[Append(s, e)] = ListSteps(row)[<<list[s], e, Len(s)>>]
    BY <1>1 DEF Repeats
  <2> DEFINE first == (Len(s) = 0)
  <2>5. first \in BOOLEAN
    OBVIOUS
  <2>6. list[Append(s, e)] = list[s] \o Items(row, e, first)
    BY <2>1, <2>3, <2>4, ListStepTyped
  <2> HIDE DEF first, P
  <2>7. PICK item \in Item : /\ item.star = first /\ item.dash = TRUE
                             /\ list[s] \o Items(row, e, first) = Append(list[s], item)
    BY <2>3, <2>5, CellOfList
  <2>8. item.star = (Len(s) = 0)
    BY <2>7 DEF first
  <2>9. Uniform(Append(list[s], item), Len(s) + 1)
    BY <2>1, <2>2, <2>7, <2>8, UniformGrows
  <2> QED BY <2>1, <2>6, <2>7, <2>9 DEF P
<1> HIDE DEF P
<1>4. Cols \in P
  BY <1>2, <1>3, SeqInductionSet, ColumnsAssumption
<1> QED BY <1>1, <1>4 DEF P

\* The list that DrawTableList writes of the titles or of a row has one star, at its
\* first item, and as many dashes as there are columns: an empty cell is an item as
\* well.
THEOREM ListsAreUniform == Spec => []ListIsUniform
<1>1. Table => ListIsUniform
  <2> SUFFICES ASSUME Table, NEW k \in DOMAIN DrawTableList
               PROVE LET list == DrawTableList[k]
                     IN  /\ {l \in DOMAIN list : list[l].star} = {1}
                         /\ Cardinality({l \in DOMAIN list : list[l].dash}) = Len(Cols)
    BY DEF ListIsUniform
  <2> DEFINE list == DrawTableList[k]
             n == Len(Cols)
  <2>1. /\ k \in 1 .. Len(table) + 1
        /\ list = IF k = 1 THEN HeaderList ELSE DrawList(table[k - 1])
    BY DEF Table, DrawTableList
  <2>2. n \in Nat \ {0}
    BY PageFits
  <2> HIDE DEF list
  <2>3. DOMAIN list = 1 .. n /\ \A l \in 1 .. n : list[l].dash = TRUE /\ list[l].star = (l = 1)
    <3>1. CASE k = 1
      <4>1. DOMAIN Cols = 1 .. n
        BY ColumnsAssumption
      <4> QED BY <2>1, <3>1, <4>1 DEF HeaderList
    <3>2. CASE k # 1
      <4>1. table[k - 1] \in Rows /\ list = DrawList(table[k - 1])
        BY <2>1, <3>2 DEF Table
      <4>2. Uniform(list, n)
        BY <4>1, UniformList
      <4> QED BY <2>2, <4>2 DEF Uniform
    <3> QED BY <3>1, <3>2
  <2> HIDE DEF n
  <2>4. 1 \in 1 .. n
    BY <2>2
  <2>5. {l \in DOMAIN list : list[l].star} = {1}
    <3>1. \A l \in DOMAIN list : list[l].star <=> l = 1
      BY <2>3
    <3>2. 1 \in DOMAIN list
      BY <2>3, <2>4
    <3> QED BY <3>1, <3>2
  <2>6. {l \in DOMAIN list : list[l].dash} = 1 .. n
    <3>1. \A l \in DOMAIN list : list[l].dash
      BY <2>3
    <3> QED BY <2>3, <3>1
  <2>7. Cardinality(1 .. n) = n
    <3>1. n >= 1 /\ n - 1 + 1 = n
      BY <2>2
    <3> QED BY <2>2, <3>1, FS_Interval
  <2> QED BY <2>5, <2>6, <2>7 DEF list, n
<1> QED BY <1>1, TableTyped, PTL DEF Spec

(***************************************************************************)
(* The grouped numbers.                                                    *)
(***************************************************************************)
LEMMA Dividing ==
    ASSUME NEW g \in Nat, NEW n \in Nat \ {0}, NEW k \in 0 .. n - 1
    PROVE (g * n + k) \div n = g /\ (g * n + k) % n = k
  OBVIOUS

LEMMA AtMostQuotient ==
    ASSUME NEW g \in Nat, NEW n \in Nat \ {0}, NEW a \in Nat, g * n <= a
    PROVE g <= a \div n
  OBVIOUS

\* What stands right places from the end of a number.
Glyph(digits, size, right) ==
    IF right % (size + 1) = size THEN Mark ELSE digits - (right - right \div (size + 1))

Signs(of) == IF of.negative THEN 1 ELSE 0
LastPlace(of, size) == Signs(of) + of.digits + (of.digits - 1) \div size

\* All that follows a place of a number is written.
Filled(of, size, out, from) ==
    \A p \in from .. LastPlace(of, size) : out[p] = Glyph(of.digits, size, LastPlace(of, size) - p)

\* FormatInt at work: `full` groups are written, and k digits of the next.
Written(of, size, i, j, k, full) ==
    /\ of.digits - i = full * size + k
    /\ LastPlace(of, size) - j = full * (size + 1) + k

Formatting(n) ==
    /\ n \in [of : Numbers, size : Nat \ {0}, out : Seq(Int), i : Nat, j : Int, k : Nat,
             done : BOOLEAN]
    /\ n.i \in 1 .. n.of.digits /\ n.k \in 0 .. n.size - 1
    /\ Len(n.out) = LastPlace(n.of, n.size)
    /\ n.of.negative => n.out[1] = Minus
    /\ \E full \in Nat : Written(n.of, n.size, n.i, n.j, n.k, full)
    /\ Filled(n.of, n.size, n.out, n.j + 1)
    /\ n.done => n.i = 1 /\ Filled(n.of, n.size, n.out, n.j)

NumbersGrow == number # <<>> => Formatting(number)

LEMMA OfNumber ==
    ASSUME NEW of \in Numbers
    PROVE of.digits \in Nat \ {0} /\ of.negative \in BOOLEAN /\ of.size \in Int
  BY NumbersAssumption

\* Where the next digit goes, and that there is room before it.
LEMMA Place ==
    ASSUME NEW n, Formatting(n), NEW full \in Nat, Written(n.of, n.size, n.i, n.j, n.k, full)
    PROVE LET last == LastPlace(n.of, n.size)
          IN  /\ last \in Nat /\ Signs(n.of) \in 0 .. 1 /\ n.of.digits \in Nat \ {0}
              /\ n.j \in Signs(n.of) + 1 .. last
              /\ n.i = 1 => n.j = Signs(n.of) + 1
              /\ n.i > 1 /\ n.k + 1 = n.size => n.j - 1 \in Signs(n.of) + 1 .. last
              /\ Glyph(n.of.digits, n.size, last - n.j) = n.i
              /\ n.k + 1 = n.size => Glyph(n.of.digits, n.size, last - (n.j - 1)) = Mark
<1> DEFINE size == n.size
           digits == n.of.digits
           last == LastPlace(n.of, n.size)
           sign == Signs(n.of)
           commas == (digits - 1) \div size
           i == n.i
           j == n.j
           k == n.k
<1>1. /\ size \in Nat \ {0} /\ digits \in Nat \ {0} /\ n.of.negative \in BOOLEAN
      /\ i \in 1 .. digits /\ k \in 0 .. size - 1 /\ j \in Int
  BY OfNumber DEF Formatting
<1>2. sign \in 0 .. 1 /\ last = sign + digits + commas
  BY <1>1 DEF Signs, LastPlace
<1>3. digits - i = full * size + k /\ last - j = full * (size + 1) + k
  BY DEF Written
<1>4. Glyph(digits, size, last - j) =
        IF (last - j) % (size + 1) = size THEN Mark
        ELSE digits - (last - j - (last - j) \div (size + 1))
  BY DEF Glyph
<1>5. Glyph(digits, size, last - (j - 1)) =
        IF (last - (j - 1)) % (size + 1) = size THEN Mark
        ELSE digits - (last - (j - 1) - (last - (j - 1)) \div (size + 1))
  BY DEF Glyph
<1> HIDE DEF size, digits, last, sign, commas, i, j, k
<1>6. commas \in Nat
  BY <1>1 DEF commas
<1>7. full * size \in Nat /\ full * (size + 1) = full * size + full
  BY <1>1
<1>8. full <= commas
  <2>1. full * size <= digits - 1
    BY <1>1, <1>3, <1>7
  <2> QED BY <2>1, <1>1, AtMostQuotient DEF commas
<1>9. last \in Nat /\ j \in sign + 1 .. last
  BY <1>1, <1>2, <1>3, <1>6, <1>7, <1>8
<1>10. i = 1 => j = sign + 1
  <2> SUFFICES ASSUME i = 1 PROVE j = sign + 1
    OBVIOUS
  <2>1. digits - 1 = full * size + k
    BY <1>3
  <2>2. commas = full
    BY <2>1, <1>1, Dividing DEF commas
  <2> QED BY <2>1, <2>2, <1>1, <1>2, <1>3, <1>7
<1>11. i > 1 /\ k + 1 = size => j - 1 \in sign + 1 .. last
  <2> SUFFICES ASSUME i > 1, k + 1 = size PROVE j - 1 \in sign + 1 .. last
    OBVIOUS
  <2>1. (full + 1) * size = full * size + size
    BY <1>1
  <2>2. (full + 1) * size <= digits - 1
    BY <2>1, <1>1, <1>3, <1>7
  <2>3. full + 1 <= commas
    BY <2>2, <1>1, AtMostQuotient DEF commas
  <2> QED BY <2>3, <1>1, <1>2, <1>3, <1>6, <1>7, <1>9
<1>12. Glyph(digits, size, last - j) = i
  <2>1. (last - j) \div (size + 1) = full /\ (last - j) % (size + 1) = k
    <3> DEFINE group == size + 1
    <3>1. group \in Nat \ {0} /\ k \in 0 .. group - 1
      BY <1>1
    <3>2. last - j = full * group + k
      BY <1>3
    <3> HIDE DEF group
    <3>3. (full * group + k) \div group = full /\ (full * group + k) % group = k
      BY <3>1, Dividing
    <3>4. (last - j) \div group = full /\ (last - j) % group = k
      BY <3>2, <3>3
    <3> QED BY <3>4 DEF group
  <2>2. k # size
    BY <1>1
  <2>3. Glyph(digits, size, last - j) = digits - (last - j - full)
    BY <1>4, <2>1, <2>2
  <2>4. last - j - full = full * size + k
    BY <1>1, <1>3, <1>7, <1>9
  <2> QED BY <1>1, <1>3, <1>7, <2>3, <2>4
<1>13. k + 1 = size => Glyph(digits, size, last - (j - 1)) = Mark
  <2> SUFFICES ASSUME k + 1 = size PROVE Glyph(digits, size, last - (j - 1)) = Mark
    OBVIOUS
  <2>1. last - (j - 1) = full * (size + 1) + size
    BY <1>1, <1>3, <1>7, <1>9
  <2>2. (last - (j - 1)) % (size + 1) = size
    <3>1. size + 1 \in Nat \ {0} /\ size \in 0 .. size + 1 - 1
      BY <1>1
    <3> QED BY <2>1, <3>1, Dividing
  <2> QED BY <2>2, <1>5
<1> QED
  BY <1>1, <1>2, <1>9, <1>10, <1>11, <1>12, <1>13
     DEF size, digits, last, sign, i, j, k

LEMMA BeginFormatting ==
    ASSUME BeginFormat
    PROVE Formatting(number')
<1>1. PICK of \in Numbers :
        LET size == IF of.size < 1 THEN 3 ELSE of.size
            sign == IF of.negative THEN <<Minus>> ELSE <<>>
            rest == [k \in 1 .. of.digits + NumOfCommas(of.digits, size) |-> Unset]
        IN  number' = [of |-> of, size |-> size, out |-> sign \o rest, i |-> of.digits,
                       j |-> Len(sign \o rest), k |-> 0, done |-> FALSE]
  BY DEF BeginFormat
<1> DEFINE size == IF of.size < 1 THEN 3 ELSE of.size
           sign == IF of.negative THEN <<Minus>> ELSE <<>>
           commas == (of.digits - 1) \div size
           rest == [k \in 1 .. of.digits + commas |-> Unset]
           out == sign \o rest
<1>2. of.digits \in Nat \ {0} /\ of.negative \in BOOLEAN /\ of.size \in Int
  BY OfNumber
<1>3. size \in Nat \ {0}
  BY <1>2
<1>4. number' = [of |-> of, size |-> size, out |-> out, i |-> of.digits,
                 j |-> Len(out), k |-> 0, done |-> FALSE]
  BY <1>1 DEF NumOfCommas
<1> HIDE DEF size
<1>5. commas \in Nat
  BY <1>2, <1>3
<1>6. /\ rest \in Seq(Int) /\ Len(rest) = of.digits + commas
  <2> DEFINE n == of.digits + commas
  <2>1. n \in Nat
    BY <1>2, <1>5
  <2> HIDE DEF n
  <2>2. [k \in 1 .. n |-> 0] \in Seq(Int) /\ Len([k \in 1 .. n |-> 0]) = n
    BY <2>1
  <2> QED BY <2>2 DEF n, Unset
<1>7. sign \in Seq(Int) /\ Len(sign) = Signs(of) /\ (of.negative => sign[1] = Minus)
  BY <1>2 DEF Minus, Signs
<1>8. /\ out \in Seq(Int) /\ Len(out) = Signs(of) + of.digits + commas
      /\ of.negative => out[1] = Minus
  <2> HIDE DEF sign, rest, commas
  <2>1. out \in Seq(Int) /\ Len(out) = Len(sign) + Len(rest)
    BY <1>6, <1>7, ConcatProperties
  <2>2. of.negative => out[1] = Minus
    <3> SUFFICES ASSUME of.negative PROVE out[1] = Minus
      OBVIOUS
    <3>1. Len(sign) = 1
      BY <1>7 DEF Signs
    <3>2. 1 \in 1 .. Len(sign) + Len(rest) /\ 1 <= Len(sign)
      BY <1>2, <1>5, <1>6, <3>1
    <3>3. out[1] = sign[1]
      BY <1>6, <1>7, <3>2, ConcatProperties
    <3> QED BY <1>7, <3>3
  <2> QED BY <1>2, <1>5, <1>6, <1>7, <2>1, <2>2
<1> HIDE DEF out
<1>9. LastPlace(of, size) = Len(out) /\ Len(out) \in Nat
  BY <1>2, <1>5, <1>8 DEF LastPlace, Signs
<1> HIDE DEF commas
<1>10. Written(of, size, of.digits, Len(out), 0, 0)
  BY <1>2, <1>3, <1>9 DEF Written
<1>11. Filled(of, size, out, Len(out) + 1)
  BY <1>9 DEF Filled
<1> QED
  BY <1>2, <1>3, <1>4, <1>8, <1>9, <1>10, <1>11 DEF Formatting

LEMMA FormattingOf ==
    ASSUME NEW of \in Numbers, NEW size \in Nat \ {0}, NEW out \in Seq(Int),
           NEW i \in 1 .. of.digits, NEW j \in Int, NEW k \in 0 .. size - 1,
           NEW done \in BOOLEAN,
           Len(out) = LastPlace(of, size), of.negative => out[1] = Minus,
           \E full \in Nat : Written(of, size, i, j, k, full),
           Filled(of, size, out, j + 1),
           done => i = 1 /\ Filled(of, size, out, j)
    PROVE Formatting([of |-> of, size |-> size, out |-> out, i |-> i, j |-> j, k |-> k,
                      done |-> done])
<1> DEFINE n == [of |-> of, size |-> size, out |-> out, i |-> i, j |-> j, k |-> k,
                 done |-> done]
<1>1. n \in [of : Numbers, size : Nat \ {0}, out : Seq(Int), i : Nat, j : Int, k : Nat,
             done : BOOLEAN]
  BY OfNumber
<1>2. /\ n.of = of /\ n.size = size /\ n.out = out /\ n.i = i /\ n.j = j /\ n.k = k
      /\ n.done = done
  OBVIOUS
<1> HIDE DEF n
<1>3. Formatting(n)
  BY <1>1, <1>2 DEF Formatting
<1> QED BY <1>3 DEF n

LEMMA FormatStep ==
    ASSUME FormatDigit, NumbersGrow
    PROVE Formatting(number')
<1>1. Formatting(number) /\ number # <<>> /\ ~ number.done
  BY DEF FormatDigit, NumbersGrow
<1> DEFINE of == number.of
           size == number.size
           digits == of.digits
           last == LastPlace(of, size)
           sign == Signs(of)
           i == number.i
           j == number.j
           k == number.k
           old == number.out
           out == [old EXCEPT ![j] = i]
<1>2. PICK full \in Nat : Written(number.of, number.size, number.i, number.j, number.k, full)
  BY <1>1 DEF Formatting
<1>3. /\ last \in Nat /\ sign \in 0 .. 1 /\ digits \in Nat \ {0}
      /\ j \in sign + 1 .. last
      /\ i > 1 /\ k + 1 = size => j - 1 \in sign + 1 .. last
      /\ Glyph(digits, size, last - j) = i
      /\ k + 1 = size => Glyph(digits, size, last - (j - 1)) = Mark
  BY <1>1, <1>2, Place
<1>4. /\ of \in Numbers /\ size \in Nat \ {0} /\ digits = of.digits
      /\ i \in 1 .. digits /\ k \in 0 .. size - 1
      /\ old \in Seq(Int) /\ Len(old) = last
      /\ of.negative => old[1] = Minus
      /\ \A p \in j + 1 .. last : old[p] = Glyph(digits, size, last - p)
  BY <1>1 DEF Formatting, Filled
<1>5. digits - i = full * size + k /\ last - j = full * (size + 1) + k
  BY <1>2 DEF Written
<1>6. of.negative => sign = 1
  BY DEF Signs
<1>7. number = [of |-> of, size |-> size, out |-> old, i |-> i, j |-> j, k |-> k,
                done |-> FALSE]
  BY <1>1 DEF Formatting
<1>8. number' =
        IF i = 1
        THEN [of |-> of, size |-> size, out |-> out, i |-> i, j |-> j, k |-> k, done |-> TRUE]
        ELSE IF k + 1 = size
        THEN [of |-> of, size |-> size, out |-> [out EXCEPT ![j - 1] = Mark],
              i |-> i - 1, j |-> j - 2, k |-> 0, done |-> FALSE]
        ELSE [of |-> of, size |-> size, out |-> out, i |-> i - 1, j |-> j - 1, k |-> k + 1,
              done |-> FALSE]
  <2>1. number' =
             IF i = 1 THEN [number EXCEPT !.out = out, !.done = TRUE]
             ELSE IF k + 1 = size
             THEN [number EXCEPT !.out = [out EXCEPT ![j - 1] = Mark],
                                 !.i = @ - 1, !.j = @ - 2, !.k = 0]
             ELSE [number EXCEPT !.out = out, !.i = @ - 1, !.j = @ - 1, !.k = @ + 1]
    BY DEF FormatDigit
  <2> DEFINE marked == [out EXCEPT ![j - 1] = Mark]
             Fields == [of : Numbers, size : Nat \ {0}, out : Seq(Int), i : Int, j : Int,
                        k : Int, done : BOOLEAN]
  <2>2. number \in Fields /\ marked \in Seq(Int) /\ out \in Seq(Int) /\ number.done = FALSE
    <3>1. i \in Int /\ j \in 1 .. Len(old)
      BY <1>1, <1>3, <1>4 DEF Formatting
    <3>2. out \in Seq(Int)
      <4> HIDE DEF old, i, j
      <4> QED BY <1>4, <3>1
    <3>3. marked \in Seq(Int)
      <4> DEFINE n == Len(out)
      <4>1. out \in [1 .. n -> Int] /\ n \in Nat
        BY <3>2
      <4>0. Mark \in Int /\ j - 1 \in Int
        BY <3>1 DEF Mark
      <4> HIDE DEF out, n, j
      <4>2. marked \in [1 .. n -> Int]
        BY <4>0, <4>1
      <4> QED BY <4>1, <4>2
    <3> QED BY <1>1, <3>2, <3>3 DEF Formatting
  <2>3. ASSUME NEW o \in Seq(Int)
        PROVE /\ [number EXCEPT !.out = o, !.done = TRUE] =
                   [of |-> of, size |-> size, out |-> o, i |-> i, j |-> j, k |-> k, done |-> TRUE]
              /\ [number EXCEPT !.out = o, !.i = @ - 1, !.j = @ - 2, !.k = 0] =
                   [of |-> of, size |-> size, out |-> o, i |-> i - 1, j |-> j - 2, k |-> 0,
                    done |-> FALSE]
              /\ [number EXCEPT !.out = o, !.i = @ - 1, !.j = @ - 1, !.k = @ + 1] =
                   [of |-> of, size |-> size, out |-> o, i |-> i - 1, j |-> j - 1, k |-> k + 1,
                    done |-> FALSE]
    <3> DEFINE final == [number EXCEPT !.out = o, !.done = TRUE]
               mark == [number EXCEPT !.out = o, !.i = @ - 1, !.j = @ - 2, !.k = 0]
               digit == [number EXCEPT !.out = o, !.i = @ - 1, !.j = @ - 1, !.k = @ + 1]
    <3>1. /\ final \in Fields /\ final.of = of /\ final.size = size /\ final.out = o
          /\ final.i = i /\ final.j = j /\ final.k = k /\ final.done = TRUE
      BY <2>2
    <3>2. /\ mark \in Fields /\ mark.of = of /\ mark.size = size /\ mark.out = o
          /\ mark.i = i - 1 /\ mark.j = j - 2 /\ mark.k = 0 /\ mark.done = FALSE
      <4>1. number \in Fields /\ number.done = FALSE
        BY <2>2
      <4>2. mark \in Fields
        <5> DEFINE a == i - 1
                   b == j - 2
                   c == 0
        <5>1. a \in Int /\ b \in Int /\ c \in Int
          BY <4>1
        <5>2. mark = [number EXCEPT !.out = o, !.i = a, !.j = b, !.k = c]
          BY <4>1
        <5> HIDE DEF a, b, c, mark
        <5> QED BY <4>1, <5>1, <5>2
      <4>3. mark.of = of /\ mark.size = size /\ mark.out = o /\ mark.k = 0 /\ mark.done = FALSE
        BY <4>1
      <4>4. mark.i = i - 1 /\ mark.j = j - 2
        BY <4>1
      <4> QED BY <4>2, <4>3, <4>4
    <3>3. /\ digit \in Fields /\ digit.of = of /\ digit.size = size /\ digit.out = o
          /\ digit.i = i - 1 /\ digit.j = j - 1 /\ digit.k = k + 1 /\ digit.done = FALSE
      <4>1. number \in Fields /\ number.done = FALSE
        BY <2>2
      <4>2. digit \in Fields
        <5> DEFINE a == i - 1
                   b == j - 1
                   c == k + 1
        <5>1. a \in Int /\ b \in Int /\ c \in Int
          BY <4>1
        <5>2. digit = [number EXCEPT !.out = o, !.i = a, !.j = b, !.k = c]
          BY <4>1
        <5> HIDE DEF a, b, c, digit
        <5> QED BY <4>1, <5>1, <5>2
      <4>3. digit.of = of /\ digit.size = size /\ digit.out = o /\ digit.done = FALSE
        BY <4>1
      <4>4. digit.i = i - 1 /\ digit.j = j - 1 /\ digit.k = k + 1
        BY <4>1
      <4> QED BY <4>2, <4>3, <4>4
    <3> HIDE DEF final, mark, digit, of, size, i, j, k
    <3>4. final = [of |-> of, size |-> size, out |-> o, i |-> i, j |-> j, k |-> k, done |-> TRUE]
      BY <3>1
    <3>5. mark = [of |-> of, size |-> size, out |-> o, i |-> i - 1, j |-> j - 2, k |-> 0,
                  done |-> FALSE]
      BY <3>2
    <3>6. digit = [of |-> of, size |-> size, out |-> o, i |-> i - 1, j |-> j - 1, k |-> k + 1,
                   done |-> FALSE]
      BY <3>3
    <3> QED BY <3>4, <3>5, <3>6 DEF final, mark, digit
  <2> HIDE DEF marked, out
  <2> QED BY <2>1, <2>2, <2>3 DEF marked
<1>9. digits = of.digits /\ last = LastPlace(of, size)
  OBVIOUS
<1> HIDE DEF of, size, digits, last, sign, i, j, k, old
<1>10. /\ out \in Seq(Int) /\ Len(out) = last
       /\ out[j] = i
       /\ \A p \in 1 .. last : p # j => out[p] = old[p]
  <2>1. j \in 1 .. Len(old) /\ i \in Int
    BY <1>3, <1>4
  <2> QED BY <1>4, <2>1, ExceptSeq
<1> HIDE DEF out
<1>11. of.negative => out[1] = Minus \/ j = 1
  BY <1>3, <1>4, <1>10
<1>12. of.negative => out[1] = Minus
  BY <1>3, <1>6, <1>11
<1>13. \A p \in j .. last : out[p] = Glyph(digits, size, last - p)
  <2> SUFFICES ASSUME NEW p \in j .. last PROVE out[p] = Glyph(digits, size, last - p)
    OBVIOUS
  <2>1. CASE p = j
    BY <1>3, <1>10, <2>1
  <2>2. CASE p \in j + 1 .. last
    BY <1>3, <1>4, <1>10, <2>2
  <2> QED BY <1>3, <2>1, <2>2
<1>14. full * size \in Nat /\ full * (size + 1) \in Nat
  BY <1>4
<1>15. Filled(of, size, out, j) /\ Len(out) = LastPlace(of, size)
  BY <1>9, <1>10, <1>13 DEF Filled
<1>16. CASE i = 1
  <2>1. Written(of, size, i, j, k, full) /\ Filled(of, size, out, j + 1)
    BY <1>3, <1>5, <1>9, <1>15 DEF Written, Filled
  <2>2. Formatting([of |-> of, size |-> size, out |-> out, i |-> i, j |-> j, k |-> k,
                    done |-> TRUE])
    <3>1. j \in Int /\ i \in 1 .. of.digits
      BY <1>3, <1>4, <1>9
    <3> QED BY <1>4, <1>10, <1>12, <1>15, <1>16, <2>1, <3>1, FormattingOf
  <2> QED BY <1>8, <1>16, <2>2
<1>17. CASE i # 1 /\ k + 1 = size
  <2> DEFINE marked == [out EXCEPT ![j - 1] = Mark]
  <2>1. j - 1 \in sign + 1 .. last /\ i > 1
    BY <1>3, <1>4, <1>17
  <2>2. /\ marked \in Seq(Int) /\ Len(marked) = LastPlace(of, size)
        /\ marked[j - 1] = Mark
        /\ \A p \in 1 .. last : p # j - 1 => marked[p] = out[p]
    <3>1. j - 1 \in 1 .. Len(out) /\ Mark \in Int
      BY <1>3, <1>10, <2>1 DEF Mark
    <3> QED BY <1>9, <1>10, <3>1, ExceptSeq
  <2>3. number' = [of |-> of, size |-> size, out |-> marked, i |-> i - 1, j |-> j - 2,
                   k |-> 0, done |-> FALSE]
    BY <1>8, <1>17
  <2> HIDE DEF marked
  <2>4. Written(of, size, i - 1, j - 2, 0, full + 1)
    <3>1. (full + 1) * size = full * size + size
      BY <1>4
    <3>2. (full + 1) * (size + 1) = full * (size + 1) + size + 1
      BY <1>4
    <3>3. digits - (i - 1) = (full + 1) * size + 0
      BY <1>3, <1>4, <1>5, <1>14, <1>17, <3>1
    <3>4. last - (j - 2) = (full + 1) * (size + 1) + 0
      BY <1>3, <1>4, <1>5, <1>14, <1>17, <3>2
    <3> QED BY <1>9, <3>3, <3>4 DEF Written
  <2>5. of.negative => marked[1] = Minus
    <3>1. of.negative => j - 1 # 1 /\ 1 \in 1 .. last
      BY <1>3, <1>6, <2>1
    <3> QED BY <1>12, <2>2, <3>1
  <2>6. ASSUME NEW p \in j - 2 + 1 .. last
        PROVE marked[p] = Glyph(digits, size, last - p)
    <3>1. CASE p = j - 1
      BY <1>3, <1>17, <2>2, <3>1
    <3>2. CASE p \in j .. last
      BY <1>3, <1>13, <2>2, <3>2
    <3> QED BY <1>3, <3>1, <3>2
  <2>7. Filled(of, size, marked, j - 2 + 1)
    BY <1>9, <2>6 DEF Filled
  <2>8. i - 1 \in 1 .. of.digits /\ j - 2 \in Int /\ 0 \in 0 .. size - 1 /\ full + 1 \in Nat
    BY <1>3, <1>4, <1>9, <2>1
  <2>9. Formatting([of |-> of, size |-> size, out |-> marked, i |-> i - 1, j |-> j - 2,
                    k |-> 0, done |-> FALSE])
    BY <1>4, <2>2, <2>4, <2>5, <2>7, <2>8, FormattingOf
  <2> QED BY <2>3, <2>9
<1>18. CASE i # 1 /\ k + 1 # size
  <2>1. number' = [of |-> of, size |-> size, out |-> out, i |-> i - 1, j |-> j - 1,
                   k |-> k + 1, done |-> FALSE]
    BY <1>8, <1>18
  <2>2. digits - (i - 1) = full * size + (k + 1)
    BY <1>3, <1>4, <1>5, <1>14
  <2>3. last - (j - 1) = full * (size + 1) + (k + 1)
    BY <1>3, <1>4, <1>5, <1>14
  <2>4. Written(of, size, i - 1, j - 1, k + 1, full)
    BY <1>9, <2>2, <2>3 DEF Written
  <2>5. i - 1 \in 1 .. of.digits /\ j - 1 \in Int /\ k + 1 \in 0 .. size - 1
    BY <1>3, <1>4, <1>9, <1>18
  <2>6. Filled(of, size, out, j - 1 + 1)
    <3>1. j - 1 + 1 = j
      BY <1>3
    <3> QED BY <1>15, <3>1
  <2>7. Formatting([of |-> of, size |-> size, out |-> out, i |-> i - 1, j |-> j - 1,
                    k |-> k + 1, done |-> FALSE])
    BY <1>4, <1>10, <1>12, <1>15, <2>4, <2>5, <2>6, FormattingOf
  <2> QED BY <2>1, <2>7
<1> QED BY <1>16, <1>17, <1>18

LEMMA NumbersInductive ==
    NumbersGrow /\ [Next]_vars => NumbersGrow'
<1> SUFFICES ASSUME NumbersGrow, [Next]_vars PROVE NumbersGrow'
  OBVIOUS
<1>1. CASE AddRow
  BY <1>1 DEF AddRow, NumbersGrow, Formatting
<1>2. CASE BeginFormat
  BY <1>2, BeginFormatting DEF NumbersGrow
<1>3. CASE FormatDigit
  BY <1>3, FormatStep DEF NumbersGrow
<1>4. CASE UNCHANGED vars
  BY <1>4 DEF vars, NumbersGrow, Formatting
<1> QED BY <1>1, <1>2, <1>3, <1>4 DEF Next

LEMMA GroupedWhenDone ==
    NumbersGrow => NumbersAreGrouped
<1> SUFFICES ASSUME Formatting(number), number.done PROVE NumbersAreGrouped
  BY DEF NumbersGrow, NumbersAreGrouped
<1> DEFINE of == number.of
           size == number.size
           digits == of.digits
           sign == IF of.negative THEN 1 ELSE 0
           last == Len(number.out)
<1>1. PICK full \in Nat : Written(number.of, number.size, number.i, number.j, number.k, full)
  BY DEF Formatting
<1>2. last = LastPlace(of, size) /\ sign = Signs(of) /\ number.i = 1
  BY DEF Formatting, Signs
<1>3. /\ last \in Nat /\ sign \in 0 .. 1 /\ digits \in Nat \ {0}
      /\ number.j = sign + 1 /\ sign + 1 \in 1 .. last
      /\ Glyph(digits, size, last - number.j) = 1
  BY <1>1, <1>2, Place
<1>4. last = sign + digits + (digits - 1) \div size
  BY <1>2 DEF LastPlace
<1>5. sign = 1 => number.out[1] = Minus
  BY DEF Formatting
<1>6. \A p \in number.j .. last : number.out[p] = Glyph(digits, size, last - p)
  BY <1>2 DEF Formatting, Filled
<1>7. number.out[sign + 1] = 1
  <2> HIDE DEF sign, last, digits, size
  <2> QED BY <1>3, <1>6
<1>8. ASSUME NEW right \in 0 .. last - sign - 1
      PROVE number.out[last - right] =
              IF right % (size + 1) = size THEN Mark
              ELSE digits - (right - right \div (size + 1))
  <2> HIDE DEF sign, last
  <2>1. last - right \in number.j .. last /\ last - (last - right) = right
    BY <1>3
  <2>2. number.out[last - right] = Glyph(digits, size, right)
    BY <1>6, <2>1
  <2> QED BY <2>2 DEF Glyph
<1> QED BY <1>4, <1>5, <1>7, <1>8 DEF NumbersAreGrouped

\* FormatInt writes every digit in its place, a mark between two groups counted from
\* the right and the sign in front, for any number of digits and any size of a group:
\* the marks it counts before the loop are as many as the loop comes to write.
THEOREM NumbersCorrect == Spec => []NumbersAreGrouped
<1>1. Init => NumbersGrow
  BY DEF Init, NumbersGrow
<1> QED BY <1>1, NumbersInductive, GroupedWhenDone, PTL DEF Spec
=============================================================================
