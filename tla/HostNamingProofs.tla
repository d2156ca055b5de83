-------------------------- MODULE HostNamingProofs --------------------------
(***************************************************************************)
(* Proofs about HostNaming, for names of any length and any limit, hash    *)
(* length, hash size, offset and prime, those of the code included.        *)
(***************************************************************************)
EXTENDS HostNaming, SequenceTheorems, WellFoundedInduction, TLAPS

-----------------------------------------------------------------------------
(***************************************************************************)
(* Loops                                                                   *)
(***************************************************************************)

\* The induction the loops below need: a set of numbers that is not empty has a
\* least one.
LEMMA LeastNumber ==
  ASSUME NEW T, T \subseteq Nat, T # {}
  PROVE  \E n \in T : \A m \in T : n <= m
<1> DEFINE R == {p \in Nat \X Nat : p[1] < p[2]}
<1>1. IsWellFoundedOn(R, Nat)
  BY NatLessThanWellFounded DEF OpToRel
<1> HIDE DEF R
<1>2. PICK n \in T : \A m \in T : ~(<<m, n>> \in R)
  BY <1>1, WFMin
<1>3. \A x, y \in Nat : <<y, x>> \in R <=> y < x
  BY DEF R
<1>4. \A m \in T : n <= m
  <2>1. TAKE m \in T
  <2>2. m \in Nat /\ n \in Nat /\ ~(m < n)
    BY <1>2, <1>3, Zenon
  <2> QED
    BY <2>2
<1> QED
  BY <1>4

\* Induction up to n, on the set of the numbers that have the property.
LEMMA UpTo ==
  ASSUME NEW n \in Nat, NEW G, 0 \in G, \A i \in 0..n : i \in G /\ i < n => i + 1 \in G
  PROVE  \A i \in 0..n : i \in G
<1> DEFINE B == {i \in 0..n : i \notin G}
<1>1. SUFFICES ASSUME B # {} PROVE FALSE
  OBVIOUS
<1>2. PICK b \in B : \A m \in B : b <= m
  <2>1. B \subseteq Nat
    OBVIOUS
  <2> HIDE DEF B
  <2> QED
    BY <1>1, <2>1, LeastNumber
<1>3. b \in 0..n /\ b \notin G /\ b # 0
  BY <1>2
<1>4. b - 1 \in 0..n /\ b - 1 < n
  BY <1>3
<1>5. b - 1 \in G
  BY <1>2, <1>3, <1>4
<1>6. (b - 1) + 1 \in G
  BY <1>4, <1>5
<1> QED
  BY <1>3, <1>6

\* Round i makes F[<<x, i>>] of x, and g[i] is what the loop has after it.
IsRound(F, n, S) == \A x \in S, i \in 1..n : F[<<x, i>>] \in S
IsLoop(g, F, n, S, b) ==
  /\ g = [i \in 0..n |-> g[i]] /\ \A i \in 0..n : g[i] \in S
  /\ g[0] = b /\ \A i \in 1..n : g[i] = F[<<g[i - 1], i>>]

\* A loop of n rounds over values of S.
LEMMA Rounds ==
  ASSUME NEW n \in Nat, NEW S, NEW b \in S, NEW F, IsRound(F, n, S)
  PROVE  \E g : IsLoop(g, F, n, S, b)
<1> USE DEF IsRound
<1> DEFINE Done(k, g) == /\ g \in [0..k -> S] /\ g[0] = b
                         /\ \A i \in 1..k : g[i] = F[<<g[i - 1], i>>]
           G == {k \in 0..n : \E g : Done(k, g)}
<1>1. 0 \in G
  <2> DEFINE g == [i \in 0..0 |-> b]
  <2>1. Done(0, g)
    OBVIOUS
  <2> HIDE DEF Done, g
  <2> QED
    BY <2>1
<1>2. ASSUME NEW k \in 0..n, k \in G, k < n PROVE k + 1 \in G
  <2>1. PICK g : Done(k, g)
    BY <1>2
  <2>2. k + 1 \in 1..n /\ k \in 0..k /\ g[k] \in S
    BY <1>2, <2>1
  <2> DEFINE v == F[<<g[k], k + 1>>]
             h == [i \in 0..(k + 1) |-> IF i <= k THEN g[i] ELSE v]
  <2>3. v \in S
    BY <2>2
  <2> HIDE DEF v
  <2>4. h \in [0..(k + 1) -> S] /\ h[0] = b
    BY <1>2, <2>1, <2>3
  <2>5. \A i \in 0..k : h[i] = g[i]
    BY <1>2
  <2>6. h[k + 1] = v
    BY <1>2
  <2> HIDE DEF h
  <2>7. \A i \in 1..(k + 1) : h[i] = F[<<h[i - 1], i>>]
    <3>1. TAKE i \in 1..(k + 1)
    <3>2. CASE i \in 1..k
      <4>1. i \in 0..k /\ i - 1 \in 0..k
        BY <1>2, <3>2
      <4>2. h[i] = g[i] /\ h[i - 1] = g[i - 1]
        BY <2>5, <4>1
      <4>3. g[i] = F[<<g[i - 1], i>>]
        BY <2>1, <3>2
      <4> QED
        BY <4>2, <4>3, Zenon
    <3>3. CASE i = k + 1
      <4>1. i - 1 = k /\ h[k] = g[k]
        BY <1>2, <2>2, <2>5, <3>3
      <4>2. h[i - 1] = g[k]
        BY <4>1, Zenon
      <4> QED
        BY <2>6, <3>3, <4>2 DEF v
    <3> QED
      BY <1>2, <3>2, <3>3
  <2>8. Done(k + 1, h)
    BY <2>4, <2>7
  <2>9. k + 1 \in 0..n
    BY <1>2
  <2> HIDE DEF Done
  <2> QED
    BY <2>8, <2>9
<1>3. \A k \in 0..n : k \in G
  <2> HIDE DEF G
  <2> QED
    BY <1>1, <1>2, UpTo
<1>4. \E g : Done(n, g)
  <2> HIDE DEF Done, G
  <2>1. n \in 0..n
    OBVIOUS
  <2>2. n \in G
    BY <1>3, <2>1, Zenon
  <2> QED
    BY <2>2, Zenon DEF G
<1> QED
  BY <1>4 DEF IsLoop

\* Every round leaves a value of S.
LEMMA RoundsTyped ==
  ASSUME NEW n \in Nat, NEW S, NEW g, g[0] \in S,
         \A i \in 1..n : g[i - 1] \in S => g[i] \in S
  PROVE  \A i \in 0..n : g[i] \in S
<1> DEFINE G == {i \in 0..n : g[i] \in S}
<1>1. 0 \in G
  OBVIOUS
<1>2. ASSUME NEW i \in 0..n, i \in G, i < n PROVE i + 1 \in G
  <2>1. i + 1 \in 1..n /\ i + 1 \in 0..n /\ (i + 1) - 1 = i /\ g[i] \in S
    BY <1>2
  <2> QED
    BY <2>1
<1>3. \A i \in 0..n : i \in G
  <2> HIDE DEF G
  <2> QED
    BY <1>1, <1>2, UpTo
<1> QED
  BY <1>3
-----------------------------------------------------------------------------
(***************************************************************************)
(* SanitizeName                                                            *)
(***************************************************************************)
Alphabet == {"a", "x", "0", "A", "-", "."}
Safe == {"a", "x", "0", "-"}
NoDouble(s) == \A i \in 1..Len(s) - 1 : ~(s[i] = Dash /\ s[i + 1] = Dash)
Neat == {s \in Seq(Safe) : NoDouble(s)}

\* A round of the loop writes a letter, a digit, or a dash after none.
LEMMA WriteRuneNeat ==
  ASSUME NEW out \in Neat, NEW r \in Alphabet
  PROVE  WriteRune(out, r) \in Neat
<1> DEFINE c == Lower(r)
<1>1. out \in Seq(Safe) /\ NoDouble(out) /\ Len(out) \in Nat
  BY LenProperties DEF Neat
<1>2. IsLetterOrDigit(c) => c \in Safe /\ c # Dash
  BY DEF IsLetterOrDigit, Safe, Dash
<1>3. Dash \in Safe
  BY DEF Dash, Safe
<1>4. ASSUME NEW x \in Safe, x # Dash \/ out = <<>> \/ Last(out) # Dash PROVE Append(out, x) \in Neat
  <2> DEFINE t == Append(out, x)
  <2>1. /\ t \in Seq(Safe) /\ Len(t) = Len(out) + 1
        /\ \A i \in 1..Len(out) : t[i] = out[i]
        /\ t[Len(out) + 1] = x
    BY <1>1, AppendProperties
  <2> HIDE DEF t
  <2>2. NoDouble(t)
    <3>1. SUFFICES ASSUME NEW i \in 1..Len(t) - 1 PROVE ~(t[i] = Dash /\ t[i + 1] = Dash)
      BY DEF NoDouble
    <3>2. i \in 1..Len(out) /\ t[i] = out[i]
      BY <1>1, <2>1
    <3>3. CASE i < Len(out)
      <4>1. i \in 1..Len(out) - 1 /\ i + 1 \in 1..Len(out)
        BY <1>1, <3>2, <3>3
      <4> QED
        BY <1>1, <2>1, <3>2, <4>1 DEF NoDouble
    <3>4. CASE i = Len(out)
      <4>1. out # <<>>
        BY <3>2, <3>4, EmptySeq
      <4>2. t[i + 1] = x /\ out[i] = Last(out)
        BY <2>1, <3>4 DEF Last
      <4> QED
        BY <1>4, <3>2, <4>1, <4>2
    <3> QED
      BY <1>1, <3>2, <3>3, <3>4
  <2> QED
    BY <2>1, <2>2 DEF Neat, t
<1> HIDE DEF c
<1>5. WriteRune(out, r) = IF IsLetterOrDigit(c) THEN Append(out, c)
                          ELSE IF out # <<>> /\ Last(out) = Dash THEN out ELSE Append(out, Dash)
  BY DEF WriteRune, c
<1> QED
  BY <1>2, <1>3, <1>4, <1>5

\* The loop, round by round.
LEMMA WrittenByRounds ==
  ASSUME NEW s \in Seq(Alphabet)
  PROVE  \E g : /\ g[0] = <<>> /\ \A i \in 1..Len(s) : g[i] = WriteRune(g[i - 1], s[i])
                /\ \A i \in 0..Len(s) : g[i] \in Neat
                /\ Written(s) = g[Len(s)]
<1> DEFINE n == Len(s)
           P(out) == out = [i \in 0..n |-> IF i = 0 THEN <<>> ELSE WriteRune(out[i - 1], s[i])]
           F == [p \in Neat \X (1..n) |-> WriteRune(p[1], s[p[2]])]
           w == CHOOSE out : P(out)
<1>0. n \in Nat /\ \A i \in 1..n : s[i] \in Alphabet
  BY LenProperties, ElementOfSeq
<1>1. <<>> \in Neat
  BY EmptySeq DEF Neat, NoDouble
<1>2. \A x \in Neat, i \in 1..n : WriteRune(x, s[i]) \in Neat
  BY <1>0, WriteRuneNeat
<1>3. \A x \in Neat, i \in 1..n : F[<<x, i>>] = WriteRune(x, s[i])
  OBVIOUS
<1> HIDE DEF F
<1>4. PICK g : /\ g = [i \in 0..n |-> g[i]] /\ \A i \in 0..n : g[i] \in Neat
               /\ g[0] = <<>> /\ \A i \in 1..n : g[i] = F[<<g[i - 1], i>>]
  <2> DEFINE b == <<>>
  <2>1. n \in Nat /\ b \in Neat /\ IsRound(F, n, Neat)
    BY <1>0, <1>1, <1>2, <1>3 DEF IsRound
  <2> HIDE DEF b, n
  <2>2. \E g : IsLoop(g, F, n, Neat, b)
    BY <2>1, Rounds
  <2> QED
    BY <2>2 DEF b, IsLoop
<1>5. P(g)
  <2>1. \A i \in 0..n : g[i] = IF i = 0 THEN <<>> ELSE WriteRune(g[i - 1], s[i])
    <3>1. TAKE i \in 0..n
    <3>2. CASE i = 0
      BY <1>4, <3>2
    <3>3. CASE i # 0
      <4>1. i \in 1..n /\ i - 1 \in 0..n
        BY <1>0, <3>3
      <4>2. g[i - 1] \in Neat
        BY <1>4, <4>1
      <4> QED
        BY <1>3, <1>4, <3>3, <4>1, <4>2
    <3> QED
      BY <3>2, <3>3
  <2>2. g = [i \in 0..n |-> g[i]]
    BY <1>4
  <2> QED
    BY <2>1, <2>2
<1>6. P(w)
  <2> HIDE DEF P
  <2> QED
    BY <1>5
<1>7. Written(s) = w[n]
  BY DEF Written
<1> HIDE DEF w
<1>8. w[0] = <<>> /\ \A i \in 1..n : w[i] = WriteRune(w[i - 1], s[i])
  <2>1. \A i \in 0..n : w[i] = IF i = 0 THEN <<>> ELSE WriteRune(w[i - 1], s[i])
    BY <1>6
  <2>2. 0 \in 0..n /\ \A i \in 1..n : i \in 0..n /\ i # 0
    BY <1>0
  <2> QED
    BY <2>1, <2>2
<1>9. \A i \in 0..n : w[i] \in Neat
  <2>1. \A i \in 1..n : w[i - 1] \in Neat => w[i] \in Neat
    BY <1>0, <1>8, WriteRuneNeat
  <2> HIDE DEF n
  <2> QED
    BY <1>0, <1>1, <1>8, <2>1, RoundsTyped
<1> QED
  BY <1>7, <1>8, <1>9

\* A string that is neat already is written as it is.
LEMMA WrittenNeat ==
  ASSUME NEW s \in Neat
  PROVE  Written(s) = s
<1>0. s \in Seq(Safe) /\ NoDouble(s) /\ Len(s) \in Nat /\ s \in Seq(Alphabet)
  <2>1. Safe \subseteq Alphabet
    BY DEF Safe, Alphabet
  <2> QED
    BY <2>1, SeqMonotonic, LenProperties DEF Neat
<1>1. PICK g : /\ g[0] = <<>> /\ \A i \in 1..Len(s) : g[i] = WriteRune(g[i - 1], s[i])
               /\ \A i \in 0..Len(s) : g[i] \in Neat
               /\ Written(s) = g[Len(s)]
  BY <1>0, WrittenByRounds
<1> DEFINE n == Len(s)
           G == {i \in 0..n : Len(g[i]) = i /\ \A k \in 1..i : g[i][k] = s[k]}
<1>2. 0 \in G
  BY <1>0, <1>1, EmptySeq
<1>3. ASSUME NEW i \in 0..n, i \in G, i < n PROVE i + 1 \in G
  <2> DEFINE o == g[i]
             c == s[i + 1]
  <2>1. i + 1 \in 1..n /\ i + 1 \in 0..n /\ (i + 1) - 1 = i
    BY <1>0, <1>3
  <2>2. o \in Seq(Safe) /\ Len(o) = i /\ \A k \in 1..i : o[k] = s[k]
    BY <1>1, <1>3 DEF Neat
  <2>3. g[i + 1] = WriteRune(o, c)
    BY <1>1, <2>1
  <2>4. c \in Safe
    BY <1>0, <2>1, ElementOfSeq
  <2>5. Lower(c) = c /\ (IsLetterOrDigit(c) <=> c # Dash)
    BY <2>4 DEF Lower, Safe, IsLetterOrDigit, Dash
  <2> HIDE DEF o, c
  <2>6. c = Dash => ~(o # <<>> /\ Last(o) = Dash)
    <3>1. SUFFICES ASSUME c = Dash, o # <<>>, Last(o) = Dash PROVE FALSE
      OBVIOUS
    <3>2. i # 0
      BY <2>2, <3>1, EmptySeq
    <3>3. i \in 1..n - 1 /\ i \in 1..i
      BY <1>0, <1>3, <3>2
    <3>4. s[i] = Dash
      BY <2>2, <3>1, <3>3 DEF Last
    <3> QED
      BY <1>0, <3>1, <3>3, <3>4 DEF NoDouble, c
  <2>7. WriteRune(o, c) = Append(o, c)
    BY <2>5, <2>6 DEF WriteRune
  <2>8. /\ Len(Append(o, c)) = i + 1
        /\ \A k \in 1..i : Append(o, c)[k] = o[k]
        /\ Append(o, c)[i + 1] = c
    BY <2>2, <2>4, AppendProperties
  <2>9. \A k \in 1..(i + 1) : Append(o, c)[k] = s[k]
    <3>1. TAKE k \in 1..(i + 1)
    <3>2. k \in 1..i \/ k = i + 1
      BY <1>3
    <3> QED
      BY <2>2, <2>8, <3>2 DEF c
  <2> QED
    BY <2>1, <2>3, <2>7, <2>8, <2>9
<1>4. n \in 0..n /\ \A i \in 0..n : i \in G
  <2>1. n \in 0..n
    BY <1>0
  <2> HIDE DEF G, n
  <2> QED
    BY <1>0, <1>2, <1>3, <2>1, UpTo
<1>5. g[n] \in Seq(Safe) /\ Len(g[n]) = n /\ \A k \in 1..n : g[n][k] = s[k]
  <2>1. n \in G /\ g[n] \in Neat
    BY <1>1, <1>4
  <2> QED
    BY <2>1 DEF Neat
<1>6. g[n] = s
  BY <1>0, <1>5, SeqEqual
<1> QED
  BY <1>1, <1>6

FirstKept(s) == SelectInSeq(s, LAMBDA c : c # Dash)
LastKept(s) == SelectLastInSeq(s, LAMBDA c : c # Dash)

\* What Trim keeps is between the first and the last character that is no dash.
LEMMA KeptEnds ==
  ASSUME NEW S, NEW s \in Seq(S), ~AllDashes(s)
  PROVE  /\ FirstKept(s) \in 1..Len(s) /\ s[FirstKept(s)] # Dash
         /\ LastKept(s) \in 1..Len(s) /\ s[LastKept(s)] # Dash
         /\ FirstKept(s) <= LastKept(s)
         /\ \A i \in 1..Len(s) : s[i] # Dash => FirstKept(s) <= i /\ i <= LastKept(s)
<1> DEFINE n == Len(s)
           I == {i \in 1..n : s[i] # Dash}
<1>0. n \in Nat /\ I \subseteq Nat /\ I # {}
  BY LenProperties DEF AllDashes
<1>1. \E i \in I : \A j \in I : i <= j
  <2> HIDE DEF I
  <2> QED
    BY <1>0, LeastNumber
<1>2. \E i \in I : \A j \in I : i >= j
  <2> DEFINE T == {n - i : i \in I}
  <2>1. T \subseteq Nat /\ T # {}
    BY <1>0
  <2>2. PICK t \in T : \A u \in T : t <= u
    <3> HIDE DEF T
    <3> QED
      BY <2>1, LeastNumber
  <2>3. PICK i \in I : t = n - i
    OBVIOUS
  <2>4. \A j \in I : n - i <= n - j
    BY <2>2, <2>3
  <2>5. \A j \in I : i >= j
    BY <1>0, <2>4
  <2> QED
    BY <2>5
<1>3. FirstKept(s) = Min(I) /\ LastKept(s) = Max(I)
  BY <1>0 DEF FirstKept, LastKept, SelectInSeq, SelectLastInSeq
<1>4. Min(I) \in I /\ \A j \in I : Min(I) <= j
  BY <1>1 DEF Min
<1>5. Max(I) \in I /\ \A j \in I : Max(I) >= j
  BY <1>2 DEF Max
<1>6. \A j \in I : j <= Max(I)
  BY <1>0, <1>5
<1> QED
  BY <1>3, <1>4, <1>5, <1>6

\* TrimRight cuts dashes only, and leaves a string that starts with something else.
LEMMA TrimRightKeeps ==
  ASSUME NEW S, NEW s \in Seq(S), Len(s) >= 1, s[1] # Dash
  PROVE  /\ TrimRight(s) \in Seq(S) /\ 1 <= Len(TrimRight(s)) /\ Len(TrimRight(s)) <= Len(s)
         /\ TrimRight(s)[1] = s[1]
<1> DEFINE l == LastKept(s)
<1>0. Len(s) \in Nat /\ \A i \in 1..Len(s) : s[i] \in S
  BY LenProperties, ElementOfSeq
<1>1. 1 \in 1..Len(s) /\ ~AllDashes(s)
  BY <1>0 DEF AllDashes
<1>2. l \in 1..Len(s)
  BY <1>1, KeptEnds
<1>3. TrimRight(s) = SubSeq(s, 1, l)
  BY <1>1 DEF TrimRight, LastKept
<1> HIDE DEF l
<1>4. /\ SubSeq(s, 1, l) \in Seq(S) /\ Len(SubSeq(s, 1, l)) = l
      /\ \A i \in 1..l : SubSeq(s, 1, l)[i] = s[i]
  <2>1. \A i \in 1..l : s[i] \in S
    BY <1>0, <1>2
  <2>2. /\ SubSeq(s, 1, l) \in Seq(S)
        /\ Len(SubSeq(s, 1, l)) = IF 1 <= l THEN l - 1 + 1 ELSE 0
        /\ \A i \in 1..l - 1 + 1 : SubSeq(s, 1, l)[i] = s[1 + i - 1]
    BY <1>0, <1>2, <2>1, SubSeqProperties
  <2> QED
    BY <1>0, <1>2, <2>2
<1>5. 1 \in 1..l /\ 1 <= l /\ l <= Len(s)
  BY <1>0, <1>2
<1> QED
  BY <1>3, <1>4, <1>5

\* What Trim keeps.
LEMMA TrimKeeps ==
  ASSUME NEW S, NEW s \in Seq(S), ~AllDashes(s)
  PROVE  /\ Trim(s) \in Seq(S)
         /\ Len(Trim(s)) = LastKept(s) - FirstKept(s) + 1
         /\ \A i \in 1..Len(Trim(s)) : Trim(s)[i] = s[FirstKept(s) + i - 1]
<1> DEFINE f == FirstKept(s)
           l == LastKept(s)
           r == SubSeq(s, 1, l)
<1>0. Len(s) \in Nat /\ \A i \in 1..Len(s) : s[i] \in S
  BY LenProperties, ElementOfSeq
<1>1. f \in 1..Len(s) /\ l \in 1..Len(s) /\ f <= l
  BY KeptEnds
<1>2. TrimRight(s) = r /\ Trim(s) = SubSeq(TrimRight(s), f, Len(TrimRight(s)))
  BY DEF TrimRight, Trim, FirstKept, LastKept
<1> HIDE DEF f, l
<1>3. r \in Seq(S) /\ Len(r) = l /\ \A i \in 1..l : r[i] = s[i] /\ r[i] \in S
  <2>1. \A i \in 1..l : s[i] \in S
    BY <1>0, <1>1
  <2>2. /\ r \in Seq(S) /\ Len(r) = IF 1 <= l THEN l - 1 + 1 ELSE 0
        /\ \A i \in 1..l - 1 + 1 : r[i] = s[1 + i - 1]
    BY <1>0, <1>1, <2>1, SubSeqProperties
  <2>3. Len(r) = l /\ \A i \in 1..l : r[i] = s[i]
    BY <1>0, <1>1, <2>2
  <2> QED
    BY <2>1, <2>2, <2>3
<1> HIDE DEF r
<1>4. Trim(s) = SubSeq(r, f, l)
  BY <1>2, <1>3
<1>5. \A i \in f..l : r[i] \in S
  BY <1>0, <1>1, <1>3
<1>6. /\ SubSeq(r, f, l) \in Seq(S)
      /\ Len(SubSeq(r, f, l)) = IF f <= l THEN l - f + 1 ELSE 0
      /\ \A i \in 1..l - f + 1 : SubSeq(r, f, l)[i] = r[f + i - 1]
  BY <1>0, <1>1, <1>5, SubSeqProperties
<1>7. \A i \in 1..l - f + 1 : r[f + i - 1] = s[f + i - 1]
  <2>1. \A i \in 1..l - f + 1 : f + i - 1 \in 1..l
    BY <1>0, <1>1
  <2> QED
    BY <1>3, <2>1
<1>8. Len(Trim(s)) = l - f + 1
  BY <1>1, <1>4, <1>6
<1>9. \A i \in 1..Len(Trim(s)) : Trim(s)[i] = s[f + i - 1]
  BY <1>4, <1>6, <1>7, <1>8
<1> QED
  BY <1>4, <1>6, <1>8, <1>9 DEF f, l

\* A string SanitizeName may return: safe characters, no two dashes in a row, none at
\* the ends.
Tidy(s) == s \in Neat /\ Len(s) >= 1 /\ s[1] # Dash /\ s[Len(s)] # Dash

\* SanitizeName makes any input tidy.
LEMMA SanitizeTidies ==
  ASSUME NEW s \in Seq(Alphabet)
  PROVE  Tidy(SanitizeName(s))
<1> DEFINE w == Written(s)
           t == Trim(w)
           f == FirstKept(w)
           l == LastKept(w)
<1>0. w \in Neat
  <2>1. PICK g : (\A i \in 0..Len(s) : g[i] \in Neat) /\ w = g[Len(s)]
    BY WrittenByRounds
  <2>2. Len(s) \in 0..Len(s)
    BY LenProperties
  <2> QED
    BY <2>1, <2>2
<1>1. SanitizeName(s) = IF t = <<>> THEN <<"x">> ELSE t
  BY DEF SanitizeName
<1> HIDE DEF w
<1>2. w \in Seq(Safe) /\ NoDouble(w) /\ Len(w) \in Nat
  BY <1>0, LenProperties DEF Neat
<1>3. Tidy(<<"x">>)
  BY DEF Tidy, Neat, Safe, NoDouble, Dash
<1>4. CASE AllDashes(w)
  BY <1>1, <1>3, <1>4 DEF Trim
<1>5. CASE ~AllDashes(w)
  <2>1. f \in 1..Len(w) /\ l \in 1..Len(w) /\ f <= l /\ w[f] # Dash /\ w[l] # Dash
    BY <1>2, <1>5, KeptEnds
  <2>2. /\ t \in Seq(Safe) /\ Len(t) = l - f + 1
        /\ \A i \in 1..Len(t) : t[i] = w[f + i - 1]
    BY <1>2, <1>5, TrimKeeps
  <2> HIDE DEF t, f, l
  <2>3. Len(t) >= 1 /\ Len(t) \in Nat /\ f + 1 - 1 = f /\ f + Len(t) - 1 = l
    BY <1>2, <2>1, <2>2
  <2>4. t[1] # Dash /\ t[Len(t)] # Dash
    <3>1. 1 \in 1..Len(t) /\ Len(t) \in 1..Len(t)
      BY <2>3
    <3> QED
      BY <2>1, <2>2, <2>3, <3>1
  <2>5. NoDouble(t)
    <3>1. SUFFICES ASSUME NEW i \in 1..Len(t) - 1 PROVE ~(t[i] = Dash /\ t[i + 1] = Dash)
      BY DEF NoDouble
    <3>2. i \in 1..Len(t) /\ i + 1 \in 1..Len(t)
      BY <2>3
    <3>3. t[i] = w[f + i - 1] /\ t[i + 1] = w[f + (i + 1) - 1]
      BY <2>2, <3>2
    <3>4. f + i - 1 \in 1..Len(w) - 1 /\ f + (i + 1) - 1 = (f + i - 1) + 1
      BY <1>2, <2>1, <2>2, <2>3
    <3> QED
      BY <1>2, <3>3, <3>4 DEF NoDouble
  <2>6. t # <<>>
    BY <2>3, EmptySeq
  <2> QED
    BY <1>1, <2>2, <2>3, <2>4, <2>5, <2>6 DEF Tidy, Neat
<1> QED
  BY <1>4, <1>5

\* SanitizeName leaves a tidy string as it is.
LEMMA SanitizeIdle ==
  ASSUME NEW s, Tidy(s)
  PROVE  SanitizeName(s) = s
<1>1. s \in Neat /\ s \in Seq(Safe) /\ Len(s) \in Nat /\ Len(s) >= 1 /\ Written(s) = s
  BY WrittenNeat, LenProperties DEF Tidy, Neat
<1>2. 1 \in 1..Len(s) /\ Len(s) \in 1..Len(s) /\ s[1] # Dash /\ s[Len(s)] # Dash
  BY <1>1 DEF Tidy
<1>3. ~AllDashes(s)
  BY <1>2 DEF AllDashes
<1> DEFINE f == FirstKept(s)
           l == LastKept(s)
           t == Trim(s)
<1>4. f \in 1..Len(s) /\ l \in 1..Len(s) /\ f <= 1 /\ Len(s) <= l
  BY <1>1, <1>2, <1>3, KeptEnds
<1>5. t \in Seq(Safe) /\ Len(t) = l - f + 1 /\ \A i \in 1..Len(t) : t[i] = s[f + i - 1]
  BY <1>1, <1>3, TrimKeeps
<1> HIDE DEF f, l, t
<1>6. f = 1 /\ l = Len(s)
  BY <1>1, <1>4
<1>7. Len(t) = Len(s) /\ \A i \in 1..Len(t) : f + i - 1 = i
  BY <1>1, <1>5, <1>6
<1>8. \A i \in 1..Len(t) : t[i] = s[i]
  BY <1>5, <1>7
<1>9. t = s
  BY <1>1, <1>5, <1>7, <1>8, SeqEqual
<1>10. s # <<>>
  BY <1>1, EmptySeq
<1> QED
  BY <1>1, <1>9, <1>10 DEF SanitizeName, t

-----------------------------------------------------------------------------
(***************************************************************************)
(* fnv32                                                                   *)
(***************************************************************************)

\* The hash stays within its width.
LEMMA HashedInRange ==
  ASSUME NEW s \in Seq(Safe)
  PROVE  Hashed(s) \in 0..HashSize - 1
<1> DEFINE n == Len(s)
           H == 0..HashSize - 1
           R(h, i) == (BitXor(h, Code[s[i]]) * Prime) % HashSize
           P(g) == g = [i \in 0..n |-> IF i = 0 THEN Offset ELSE R(g[i - 1], i)]
           F == [p \in H \X (1..n) |-> R(p[1], p[2])]
           w == CHOOSE g : P(g)
<1>0. n \in Nat /\ \A i \in 1..n : s[i] \in Safe
  BY LenProperties, ElementOfSeq
<1>1. Offset \in H
  BY NamingAssumption
<1>2. \A h \in H, i \in 1..n : R(h, i) \in H
  <2>1. TAKE h \in H, i \in 1..n
  <2>2. s[i] \in DOMAIN Code
    BY <1>0 DEF Safe, Code
  <2> DEFINE x == BitXor(h, Code[s[i]])
  <2>3. x \in Nat
    BY <2>2, NamingAssumption
  <2> HIDE DEF x
  <2>4. x * Prime \in Nat /\ HashSize \in Nat \ {0}
    BY <2>3, NamingAssumption
  <2>5. \A m \in Nat : m % HashSize \in 0..HashSize - 1
    BY <2>4
  <2>6. (x * Prime) % HashSize \in 0..HashSize - 1
    BY <2>4, <2>5
  <2> QED
    BY <2>6 DEF x
<1> HIDE DEF R
<1>3. \A h \in H, i \in 1..n : F[<<h, i>>] = R(h, i)
  OBVIOUS
<1> HIDE DEF F
<1>4. \E g : IsLoop(g, F, n, H, Offset)
  <2>1. IsRound(F, n, H)
    BY <1>2, <1>3 DEF IsRound
  <2> HIDE DEF n, H
  <2> QED
    BY <1>0, <1>1, <2>1, Rounds
<1>5. PICK g : IsLoop(g, F, n, H, Offset)
  BY <1>4
<1>6. P(g)
  <2>0. /\ g = [i \in 0..n |-> g[i]] /\ \A i \in 0..n : g[i] \in H
        /\ g[0] = Offset /\ \A i \in 1..n : g[i] = F[<<g[i - 1], i>>]
    BY <1>5 DEF IsLoop
  <2> HIDE DEF H
  <2>1. \A i \in 0..n : g[i] = IF i = 0 THEN Offset ELSE R(g[i - 1], i)
    <3>1. TAKE i \in 0..n
    <3>2. CASE i = 0
      BY <2>0, <3>2
    <3>3. CASE i # 0
      <4>1. i \in 1..n /\ i - 1 \in 0..n
        BY <1>0, <3>3
      <4>2. g[i - 1] \in H
        BY <2>0, <4>1
      <4> QED
        BY <1>3, <2>0, <3>3, <4>1, <4>2
    <3> QED
      BY <3>2, <3>3
  <2> QED
    BY <2>0, <2>1
<1>7. P(w)
  <2> HIDE DEF P
  <2> QED
    BY <1>6
<1>8. Hashed(s) = w[n]
  BY DEF Hashed, R
<1> HIDE DEF w
<1>9. w[0] = Offset /\ \A i \in 1..n : w[i] = R(w[i - 1], i)
  <2>1. \A i \in 0..n : w[i] = IF i = 0 THEN Offset ELSE R(w[i - 1], i)
    BY <1>7
  <2>2. 0 \in 0..n /\ \A i \in 1..n : i \in 0..n /\ i # 0
    BY <1>0
  <2> QED
    BY <2>1, <2>2
<1>10. \A i \in 0..n : w[i] \in H
  <2>1. \A i \in 1..n : w[i - 1] \in H => w[i] \in H
    BY <1>2, <1>9
  <2> HIDE DEF n, H
  <2> QED
    BY <1>0, <1>1, <1>9, <2>1, RoundsTyped
<1>11. n \in 0..n
  BY <1>0
<1> QED
  BY <1>8, <1>10, <1>11

HexDigits == {"0", "1", "2", "3", "4", "5", "6", "7", "8", "9", "a", "b", "c", "d", "e", "f"}

\* The hash is written in HashLen hexadecimal digits.
LEMMA HashDigits ==
  ASSUME NEW s \in Seq(Safe)
  PROVE  fnv32(s) \in Seq(HexDigits) /\ Len(fnv32(s)) = HashLen
<1> DEFINE n == HashLen
           b == Hashed(s)
           P(g) == g = [i \in 0..n |-> IF i = 0 THEN b ELSE g[i - 1] \div 16]
           F == [p \in Nat \X (1..n) |-> p[1] \div 16]
           w == CHOOSE g : P(g)
<1>0. n \in Nat /\ n >= 1 /\ b \in Nat
  BY HashedInRange, NamingAssumption
<1> HIDE DEF b
<1>1. \A x \in Nat : x \div 16 \in Nat
  OBVIOUS
<1>2. \A x \in Nat, i \in 1..n : F[<<x, i>>] = x \div 16
  OBVIOUS
<1> HIDE DEF F
<1>3. PICK g : IsLoop(g, F, n, Nat, b)
  <2>1. IsRound(F, n, Nat)
    BY <1>1, <1>2 DEF IsRound
  <2> QED
    BY <1>0, <2>1, Rounds
<1>4. P(g)
  <2>0. /\ g = [i \in 0..n |-> g[i]] /\ \A i \in 0..n : g[i] \in Nat
        /\ g[0] = b /\ \A i \in 1..n : g[i] = F[<<g[i - 1], i>>]
    BY <1>3 DEF IsLoop
  <2>1. \A i \in 0..n : g[i] = IF i = 0 THEN b ELSE g[i - 1] \div 16
    <3>1. TAKE i \in 0..n
    <3>2. CASE i = 0
      BY <2>0, <3>2
    <3>3. CASE i # 0
      <4>1. i \in 1..n /\ i - 1 \in 0..n
        BY <1>0, <3>3
      <4>2. g[i - 1] \in Nat
        BY <2>0, <4>1
      <4> QED
        BY <1>2, <2>0, <3>3, <4>1, <4>2
    <3> QED
      BY <3>2, <3>3
  <2> QED
    BY <2>0, <2>1
<1>5. P(w)
  <2> HIDE DEF P
  <2> QED
    BY <1>4
<1>6. fnv32(s) = [k \in 1..n |-> HexDigit[(w[n - k] % 16) + 1]]
  BY DEF fnv32, b
<1> HIDE DEF w
<1>7. w[0] = b /\ \A i \in 1..n : w[i] = w[i - 1] \div 16
  <2>1. \A i \in 0..n : w[i] = IF i = 0 THEN b ELSE w[i - 1] \div 16
    BY <1>5
  <2>2. 0 \in 0..n /\ \A i \in 1..n : i \in 0..n /\ i # 0
    BY <1>0
  <2> QED
    BY <2>1, <2>2
<1>8. \A i \in 0..n : w[i] \in Nat
  <2>1. \A i \in 1..n : w[i - 1] \in Nat => w[i] \in Nat
    BY <1>1, <1>7
  <2> QED
    BY <1>0, <1>7, <2>1, RoundsTyped
<1>9. \A d \in 0..15 : HexDigit[d + 1] \in HexDigits
  BY DEF HexDigit, HexDigits
<1>10. \A k \in 1..n : HexDigit[(w[n - k] % 16) + 1] \in HexDigits
  <2>1. TAKE k \in 1..n
  <2>2. n - k \in 0..n
    BY <1>0
  <2>3. w[n - k] \in Nat
    BY <1>8, <2>2
  <2>4. w[n - k] % 16 \in 0..15
    <3>1. \A m \in Nat : m % 16 \in 0..15
      OBVIOUS
    <3> QED
      BY <2>3, <3>1, Zenon
  <2> QED
    BY <1>9, <2>4
<1>11. fnv32(s) \in [1..n -> HexDigits]
  BY <1>6, <1>10
<1> HIDE DEF n
<1>12. fnv32(s) \in Seq(HexDigits) /\ Len(fnv32(s)) = n
  BY <1>0, <1>11
<1> QED
  BY <1>12 DEF n

-----------------------------------------------------------------------------
(***************************************************************************)
(* HostName is a label                                                     *)
(***************************************************************************)
Sep == <<Dash, "x", Dash>>

IsJoin(c, a, b, S) ==
  /\ c \in Seq(S) /\ Len(c) = Len(a) + Len(b)
  /\ \A i \in 1..Len(a) : c[i] = a[i]
  /\ \A i \in 1..Len(b) : c[Len(a) + i] = b[i]

\* A concatenation, part by part.
LEMMA Joined ==
  ASSUME NEW S, NEW a \in Seq(S), NEW b \in Seq(S)
  PROVE  IsJoin(a \o b, a, b, S)
<1> DEFINE c == a \o b
<1>0. Len(a) \in Nat /\ Len(b) \in Nat
  BY LenProperties
<1>1. /\ c \in Seq(S) /\ Len(c) = Len(a) + Len(b)
      /\ \A i \in 1..Len(a) + Len(b) : c[i] = IF i <= Len(a) THEN a[i] ELSE b[i - Len(a)]
  BY ConcatProperties
<1> HIDE DEF c
<1>2. \A i \in 1..Len(a) : c[i] = a[i]
  BY <1>0, <1>1
<1>3. \A i \in 1..Len(b) : c[Len(a) + i] = b[i]
  <2>1. TAKE i \in 1..Len(b)
  <2>2. /\ Len(a) + i \in 1..Len(a) + Len(b) /\ ~(Len(a) + i <= Len(a))
        /\ (Len(a) + i) - Len(a) = i
    BY <1>0
  <2>3. c[Len(a) + i] = b[(Len(a) + i) - Len(a)]
    BY <1>1, <2>2, Zenon
  <2> QED
    BY <2>2, <2>3, Zenon
<1>4. IsJoin(c, a, b, S)
  BY <1>1, <1>2, <1>3 DEF IsJoin
<1> QED
  BY <1>4 DEF c

\* Two strings with the separator between them: what c consists of.
IsPair(c, a, b, S) ==
  /\ c \in Seq(S) /\ Len(c) = Len(a) + Len(b) + 3
  /\ \A i \in 1..Len(a) : c[i] = a[i]
  /\ c[Len(a) + 1] = Dash /\ c[Len(a) + 2] = "x" /\ c[Len(a) + 3] = Dash
  /\ \A i \in 1..Len(b) : c[Len(a) + 3 + i] = b[i]

\* A string of the base: the separator between two others.
LEMMA Paired ==
  ASSUME NEW S, NEW a \in Seq(S), NEW b \in Seq(S), {Dash, "x"} \subseteq S
  PROVE  IsPair(a \o Sep \o b, a, b, S)
<1> DEFINE p == a \o Sep
           c == p \o b
<1>0. Len(a) \in Nat /\ Len(b) \in Nat
  BY LenProperties
<1>1. Sep \in Seq(S) /\ Len(Sep) = 3 /\ Sep[1] = Dash /\ Sep[2] = "x" /\ Sep[3] = Dash
  BY DEF Sep
<1> HIDE DEF Sep
<1>2. /\ p \in Seq(S) /\ Len(p) = Len(a) + 3
      /\ \A i \in 1..Len(a) : p[i] = a[i]
      /\ \A i \in 1..3 : p[Len(a) + i] = Sep[i]
  <2>1. IsJoin(p, a, Sep, S)
    BY <1>1, Joined, Zenon
  <2> HIDE DEF p
  <2> QED
    BY <1>1, <2>1 DEF IsJoin
<1> HIDE DEF p
<1>3. /\ c \in Seq(S) /\ Len(c) = Len(p) + Len(b)
      /\ \A i \in 1..Len(p) : c[i] = p[i]
      /\ \A i \in 1..Len(b) : c[Len(p) + i] = b[i]
  <2>1. IsJoin(c, p, b, S)
    BY <1>2, Joined, Zenon
  <2> HIDE DEF c
  <2> QED
    BY <2>1 DEF IsJoin
<1> HIDE DEF c
<1>4. \A i \in 1..Len(a) : c[i] = a[i]
  <2>1. \A i \in 1..Len(a) : i \in 1..Len(p)
    BY <1>0, <1>2
  <2> QED
    BY <1>2, <1>3, <2>1, Zenon
<1>5. c[Len(a) + 1] = Dash /\ c[Len(a) + 2] = "x" /\ c[Len(a) + 3] = Dash
  <2>1. \A i \in 1..3 : Len(a) + i \in 1..Len(p)
    BY <1>0, <1>2
  <2>2. \A i \in 1..3 : c[Len(a) + i] = Sep[i]
    BY <1>2, <1>3, <2>1, Zenon
  <2> QED
    BY <1>1, <2>2
<1>6. \A i \in 1..Len(b) : c[Len(a) + 3 + i] = b[i]
  BY <1>2, <1>3
<1>7. Len(c) = Len(a) + Len(b) + 3
  BY <1>0, <1>2, <1>3
<1>8. IsPair(c, a, b, S)
  BY <1>3, <1>4, <1>5, <1>6, <1>7 DEF IsPair
<1> QED
  BY <1>8 DEF c, p

NameAndNs(n, v) == n \o Sep \o v

\* The string HostName starts from: a pair of a pair.
LEMMA BasePaired ==
  ASSUME NEW S, NEW n \in Seq(S), NEW v \in Seq(S), NEW t \in Seq(S), {Dash, "x"} \subseteq S
  PROVE  /\ IsPair(NameAndNs(n, v), n, v, S)
         /\ IsPair(Base(n, v, t), NameAndNs(n, v), t, S)
         /\ Len(Base(n, v, t)) = Len(n) + Len(v) + Len(t) + 6
<1> DEFINE f == NameAndNs(n, v)
<1>0. Len(n) \in Nat /\ Len(v) \in Nat /\ Len(t) \in Nat
  BY LenProperties
<1>1. IsPair(f, n, v, S)
  BY Paired, Zenon DEF NameAndNs
<1>2. Base(n, v, t) = f \o Sep \o t
  BY DEF Base, Sep, NameAndNs
<1> HIDE DEF f
<1>3. f \in Seq(S) /\ Len(f) = Len(n) + Len(v) + 3
  BY <1>1 DEF IsPair
<1>4. IsPair(f \o Sep \o t, f, t, S)
  BY <1>3, Paired, Zenon
<1>5. IsPair(Base(n, v, t), f, t, S)
  BY <1>2, <1>4, Zenon
<1>6. Len(Base(n, v, t)) = Len(f) + Len(t) + 3
  BY <1>5 DEF IsPair
<1>7. Len(Base(n, v, t)) = Len(n) + Len(v) + Len(t) + 6
  BY <1>0, <1>3, <1>6
<1> QED
  BY <1>1, <1>5, <1>7 DEF f

\* A name within the limit is its sanitised base, and a label.
LEMMA TidyIsLabel ==
  ASSUME NEW s, Tidy(s), Len(s) <= MaxLen
  PROVE  IsLabel(s)
<1>1. s \in Seq(Safe) /\ Len(s) \in Nat /\ Len(s) >= 1 /\ s[1] # Dash /\ s[Len(s)] # Dash
  BY LenProperties DEF Tidy, Neat
<1>2. \A i \in 1..Len(s) : s[i] # "." /\ s[i] # "A"
  <2>1. \A i \in 1..Len(s) : s[i] \in Safe
    BY <1>1, ElementOfSeq
  <2>2. \A c \in Safe : c # "." /\ c # "A"
    BY DEF Safe
  <2> QED
    BY <2>1, <2>2
<1>3. s # <<>>
  BY <1>1, EmptySeq
<1>4. Head(s) = s[1] /\ Last(s) = s[Len(s)]
  BY <1>1, <1>3, HeadTailProperties DEF Last
<1> QED
  BY <1>1, <1>2, <1>3, <1>4 DEF IsLabel

\* A name beyond the limit is cut, and a label: the hash fits after the dash, and what
\* is left of the name starts as it did.
LEMMA TruncateIsLabel ==
  ASSUME NEW s, Tidy(s), Len(s) > MaxLen
  PROVE  IsLabel(Truncate(s, fnv32(s)))
<1> DEFINE h == fnv32(s)
           k == MaxLen - HashLen - 1
           c == SubSeq(s, 1, k)
           r == TrimRight(c)
           A == Safe \cup HexDigits
           q == r \o <<Dash>>
           o == q \o h
<1>0. s \in Seq(Safe) /\ Len(s) \in Nat /\ s[1] # Dash
  BY LenProperties DEF Tidy, Neat
<1>1. h \in Seq(HexDigits) /\ Len(h) = HashLen
  BY <1>0, HashDigits
<1>2. HashLen \in Nat /\ HashLen >= 1 /\ k \in Nat /\ k >= 1 /\ k <= Len(s) /\ MaxLen \in Nat
  BY <1>0, NamingAssumption
<1>3. Truncate(s, h) = o
  <2>1. MaxLen - Len(h) - 1 = k
    BY <1>1
  <2> QED
    BY <2>1, Zenon DEF Truncate
<1> HIDE DEF h, k
<1>4. c \in Seq(Safe) /\ Len(c) = k /\ c[1] = s[1]
  <2>1. \A i \in 1..k : s[i] \in Safe
    <3>1. \A i \in 1..k : i \in 1..Len(s)
      BY <1>0, <1>2
    <3> QED
      BY <1>0, <3>1, ElementOfSeq
  <2>2. /\ c \in Seq(Safe) /\ Len(c) = IF 1 <= k THEN k - 1 + 1 ELSE 0
        /\ \A i \in 1..k - 1 + 1 : c[i] = s[1 + i - 1]
    BY <1>2, <2>1, SubSeqProperties
  <2> HIDE DEF c
  <2>3. 1 \in 1..k - 1 + 1 /\ 1 + 1 - 1 = 1
    BY <1>2
  <2> QED
    BY <1>2, <2>2, <2>3
<1> HIDE DEF c
<1>5. r \in Seq(Safe) /\ 1 <= Len(r) /\ Len(r) <= k /\ r[1] # Dash
  BY <1>0, <1>2, <1>4, TrimRightKeeps
<1> HIDE DEF r
<1>6. Len(r) \in Nat /\ r \in Seq(A) /\ h \in Seq(A)
  BY <1>1, <1>5, SeqMonotonic, LenProperties
<1>7. <<Dash>> \in Seq(A) /\ Len(<<Dash>>) = 1
  BY DEF Safe, Dash
<1>8. q \in Seq(A) /\ Len(q) = Len(r) + 1 /\ q[1] = r[1]
  <2>1. IsJoin(q, r, <<Dash>>, A)
    BY <1>6, <1>7, Joined, Zenon
  <2> HIDE DEF q, A
  <2>2. 1 \in 1..Len(r)
    BY <1>5, <1>6
  <2> QED
    BY <1>7, <2>1, <2>2 DEF IsJoin
<1>9. o \in Seq(A) /\ Len(o) = Len(q) + Len(h) /\ o[1] = q[1] /\ o[Len(q) + Len(h)] = h[Len(h)]
  <2>1. IsJoin(o, q, h, A)
    BY <1>6, <1>8, Joined, Zenon
  <2> HIDE DEF q, o, A
  <2>2. 1 \in 1..Len(q) /\ Len(h) \in 1..Len(h)
    BY <1>1, <1>2, <1>6, <1>8
  <2> QED
    BY <2>1, <2>2 DEF IsJoin
<1> HIDE DEF q, o
<1>10. Len(o) \in Nat /\ Len(o) >= 1 /\ Len(o) <= MaxLen
  BY <1>1, <1>2, <1>5, <1>6, <1>8, <1>9 DEF k
<1>11. h[Len(h)] # Dash
  <2>1. Len(h) \in 1..Len(h)
    BY <1>1, <1>2
  <2>2. h[Len(h)] \in HexDigits
    BY <1>1, <2>1, ElementOfSeq
  <2> QED
    BY <2>2 DEF HexDigits, Dash
<1>12. \A i \in 1..Len(o) : o[i] # "." /\ o[i] # "A"
  <2>1. \A i \in 1..Len(o) : o[i] \in A
    BY <1>9, ElementOfSeq
  <2>2. \A x \in A : x # "." /\ x # "A"
    BY DEF Safe, HexDigits
  <2> QED
    BY <2>1, <2>2
<1> HIDE DEF A
<1>13. o # <<>>
  BY <1>9, <1>10, EmptySeq
<1>14. Head(o) = o[1] /\ Last(o) = o[Len(o)]
  BY <1>9, <1>13, HeadTailProperties DEF Last
<1>15. o[1] # Dash /\ o[Len(o)] # Dash
  BY <1>5, <1>8, <1>9, <1>11
<1> QED
  BY <1>3, <1>10, <1>12, <1>13, <1>14, <1>15 DEF IsLabel, h

\* The host name of any reference is a label.
LEMMA HostNameLabel ==
  ASSUME NEW n \in Seq(Alphabet), NEW v \in Seq(Alphabet), NEW t \in Seq(Alphabet)
  PROVE  IsLabel(HostName(n, v, t))
<1> DEFINE b == Base(n, v, t)
           s == SanitizeName(b)
<1>1. b \in Seq(Alphabet)
  <2>1. {Dash, "x"} \subseteq Alphabet
    BY DEF Dash, Alphabet
  <2> HIDE DEF Alphabet
  <2> QED
    BY <2>1, BasePaired DEF IsPair
<1>2. HostName(n, v, t) = IF Len(s) <= MaxLen THEN s ELSE Truncate(s, fnv32(s))
  BY DEF HostName
<1> HIDE DEF b
<1>3. Tidy(s)
  BY <1>1, SanitizeTidies
<1> HIDE DEF s
<1>4. Len(s) \in Nat /\ MaxLen \in Nat
  BY <1>3, NamingAssumption, LenProperties DEF Tidy, Neat
<1> QED
  BY <1>2, <1>3, <1>4, TidyIsLabel, TruncateIsLabel

\* The three inputs are strings of the alphabet.
Inputs == name \in Seq(Chars) /\ ns \in Seq(Chars) /\ tenant \in Seq(Chars)

\* A reference grows by a character at a time.
LEMMA InputsHold == Spec => []Inputs
<1>1. Init => Inputs
  BY EmptySeq DEF Init, Inputs
<1>2. Inputs /\ [Next]_vars => Inputs'
  <2>1. SUFFICES ASSUME Inputs, [Next]_vars PROVE Inputs'
    OBVIOUS
  <2>2. CASE TypeName
    BY <2>1, <2>2, AppendProperties DEF Inputs, TypeName
  <2>3. CASE TypeNamespace
    BY <2>1, <2>3, AppendProperties DEF Inputs, TypeNamespace
  <2>4. CASE TypeTenant
    BY <2>1, <2>4, AppendProperties DEF Inputs, TypeTenant
  <2>5. CASE UNCHANGED vars
    BY <2>1, <2>5 DEF Inputs, vars
  <2> QED
    BY <2>1, <2>2, <2>3, <2>4, <2>5 DEF Next
<1> QED
  BY <1>1, <1>2, PTL DEF Spec

\* Strings of Chars are strings of the alphabet.
LEMMA InputsInAlphabet ==
  ASSUME NEW s \in Seq(Chars)
  PROVE  s \in Seq(Alphabet)
<1>1. Chars \subseteq Alphabet
  BY NamingAssumption DEF Alphabet
<1> QED
  BY <1>1, SeqMonotonic

\* Whatever the name, the namespace and the tenant, HostName returns a DNS label that
\* fits the limit, cut and hashed or not.
THEOREM HostNamesAreLabels == Spec => []HostNameIsLabel
<1>1. Inputs => HostNameIsLabel
  BY InputsInAlphabet, HostNameLabel DEF Inputs, HostNameIsLabel
<1> QED
  BY <1>1, InputsHold, PTL

-----------------------------------------------------------------------------
(***************************************************************************)
(* HostName tells plain references apart                                   *)
(***************************************************************************)

\* The separator between two tidy strings makes a tidy string.
LEMMA PairTidy ==
  ASSUME NEW a, NEW b, NEW c, Tidy(a), Tidy(b), IsPair(c, a, b, Safe)
  PROVE  Tidy(c)
<1> DEFINE m == Len(a)
           k == Len(b)
<1>0. m \in Nat /\ k \in Nat /\ m >= 1 /\ k >= 1
  BY LenProperties DEF Tidy, Neat
<1>1. /\ c \in Seq(Safe) /\ Len(c) = m + k + 3
      /\ \A i \in 1..m : c[i] = a[i]
      /\ c[m + 1] = Dash /\ c[m + 2] = "x" /\ c[m + 3] = Dash
      /\ \A i \in 1..k : c[m + 3 + i] = b[i]
  BY DEF IsPair
<1>2. /\ NoDouble(a) /\ a[1] # Dash /\ a[m] # Dash
      /\ NoDouble(b) /\ b[1] # Dash /\ b[k] # Dash
  BY DEF Tidy, Neat
<1>3. "x" # Dash
  BY DEF Dash
<1>4. \A i \in 1..m - 1 : ~(a[i] = Dash /\ a[i + 1] = Dash)
  BY <1>2 DEF NoDouble
<1>5. \A i \in 1..k - 1 : ~(b[i] = Dash /\ b[i + 1] = Dash)
  BY <1>2 DEF NoDouble
<1> HIDE DEF m, k
<1>6. c[m] # Dash
  <2>1. m \in 1..m
    BY <1>0
  <2> QED
    BY <1>1, <1>2, <2>1
<1>7. c[m + 4] # Dash /\ c[m + k + 3] # Dash /\ c[1] # Dash
  <2>1. 1 \in 1..k /\ k \in 1..k /\ 1 \in 1..m
    BY <1>0
  <2>2. c[m + 3 + 1] = b[1] /\ c[m + 3 + k] = b[k] /\ c[1] = a[1]
    BY <1>1, <2>1
  <2>3. m + 3 + 1 = m + 4 /\ m + 3 + k = m + k + 3
    BY <1>0
  <2> QED
    BY <1>2, <2>2, <2>3, Zenon
<1>8. ASSUME NEW i \in 1..(m + k + 2) PROVE ~(c[i] = Dash /\ c[i + 1] = Dash)
  <2>1. CASE i \in 1..m - 1
    <3>1. i \in 1..m /\ i + 1 \in 1..m
      BY <1>0, <2>1
    <3> QED
      BY <1>1, <1>4, <2>1, <3>1, Zenon
  <2>2. CASE i = m
    BY <1>6, <2>2
  <2>3. CASE i = m + 1 \/ i = m + 2
    <3>1. (m + 1) + 1 = m + 2
      BY <1>0
    <3> QED
      BY <1>1, <1>3, <2>3, <3>1, Zenon
  <2>4. CASE i = m + 3
    <3>1. i + 1 = m + 4
      BY <1>0, <2>4
    <3> QED
      BY <1>7, <3>1, Zenon
  <2>5. CASE i > m + 3
    <3> DEFINE j == i - m - 3
    <3>1. j \in 1..k - 1 /\ j \in 1..k /\ j + 1 \in 1..k /\ m + 3 + j = i /\ m + 3 + (j + 1) = i + 1
      BY <1>0, <2>5
    <3> HIDE DEF j
    <3>2. c[m + 3 + j] = b[j] /\ c[m + 3 + (j + 1)] = b[j + 1]
      BY <1>1, <3>1, Zenon
    <3> QED
      BY <1>5, <3>1, <3>2, Zenon
  <2> QED
    BY <1>0, <2>1, <2>2, <2>3, <2>4, <2>5
<1>9. NoDouble(c) /\ Len(c) >= 1 /\ c[Len(c)] # Dash
  <2>1. Len(c) - 1 = m + k + 2 /\ Len(c) >= 1
    BY <1>0, <1>1
  <2> QED
    BY <1>1, <1>7, <1>8, <2>1 DEF NoDouble
<1> QED
  BY <1>1, <1>7, <1>9 DEF Tidy, Neat

\* A segment "x" of s, at i.
XAt(s, i) ==
  /\ i \in 1..Len(s) /\ s[i] = "x"
  /\ i = 1 \/ s[i - 1] = Dash
  /\ i = Len(s) \/ s[i + 1] = Dash

\* The segments "x" of a pair are those of its parts and that of the separator.
LEMMA PairSegments ==
  ASSUME NEW S, NEW a \in Seq(S), NEW b \in Seq(S), NEW c, IsPair(c, a, b, S),
         NEW i \in Nat
  PROVE  XAt(c, i) <=> XAt(a, i) \/ i = Len(a) + 2 \/ XAt(b, i - Len(a) - 3)
<1> DEFINE m == Len(a)
           k == Len(b)
<1>0. m \in Nat /\ k \in Nat
  BY LenProperties
<1>1. /\ Len(c) = m + k + 3
      /\ \A j \in 1..m : c[j] = a[j]
      /\ c[m + 1] = Dash /\ c[m + 2] = "x" /\ c[m + 3] = Dash
      /\ \A j \in 1..k : c[m + 3 + j] = b[j]
  BY DEF IsPair
<1>2. "x" # Dash
  BY DEF Dash
<1>3. CASE i <= m
  <2>1. XAt(c, i) <=> XAt(a, i)
    <3>1. CASE i = 0
      BY <1>0, <1>1, <3>1 DEF XAt
    <3>2. CASE i # 0
      <4> HIDE DEF m, k
      <4>1. i \in 1..m /\ i \in 1..Len(c) /\ i # Len(c)
        BY <1>0, <1>1, <1>3, <3>2
      <4>2. c[i] = a[i]
        BY <1>1, <4>1
      <4>3. i # 1 => c[i - 1] = a[i - 1]
        <5>1. i # 1 => i - 1 \in 1..m
          BY <1>0, <4>1
        <5> QED
          BY <1>1, <5>1
      <4>4. c[i + 1] = Dash <=> i = m \/ a[i + 1] = Dash
        <5>1. CASE i = m
          BY <1>1, <5>1
        <5>2. CASE i # m
          <6>1. i + 1 \in 1..m
            BY <1>0, <4>1, <5>2
          <6> QED
            BY <1>1, <5>2, <6>1
        <5> QED
          BY <5>1, <5>2
      <4> QED
        BY <4>1, <4>2, <4>3, <4>4 DEF XAt, m
    <3> QED
      BY <3>1, <3>2
  <2>2. ~XAt(b, i - m - 3) /\ i # m + 2
    BY <1>0, <1>3 DEF XAt
  <2> QED
    BY <2>1, <2>2
<1>4. CASE i = m + 1 \/ i = m + 3
  <2>1. ~XAt(a, i) /\ ~XAt(b, i - m - 3) /\ i # m + 2
    BY <1>0, <1>4 DEF XAt
  <2>2. ~XAt(c, i)
    BY <1>1, <1>2, <1>4 DEF XAt
  <2> QED
    BY <2>1, <2>2
<1>5. CASE i = m + 2
  <2> HIDE DEF m, k
  <2>1. i \in 1..Len(c) /\ i - 1 = m + 1 /\ i + 1 = m + 3
    BY <1>0, <1>1, <1>5
  <2>2. XAt(c, i)
    BY <1>1, <1>5, <2>1 DEF XAt
  <2> QED
    BY <1>5, <2>2 DEF m
<1>6. CASE i > m + 3
  <2> DEFINE j == i - m - 3
  <2>1. ~XAt(a, i) /\ i # m + 2
    BY <1>0, <1>6 DEF XAt
  <2>2. XAt(c, i) <=> XAt(b, j)
    <3> HIDE DEF m, k
    <3>1. /\ j \in Nat /\ j >= 1 /\ i = m + 3 + j /\ i - 1 = m + 3 + (j - 1)
          /\ i + 1 = m + 3 + (j + 1) /\ i # 1
      BY <1>0, <1>6
    <3> HIDE DEF j
    <3>2. (i \in 1..Len(c) <=> j \in 1..k) /\ (i = Len(c) <=> j = k)
      BY <1>0, <1>1, <3>1
    <3>3. CASE j \notin 1..k
      BY <3>2, <3>3 DEF XAt, k
    <3>4. CASE j \in 1..k
      <4>1. c[i] = b[j]
        BY <1>1, <3>1, <3>4
      <4>2. c[i - 1] = Dash <=> j = 1 \/ b[j - 1] = Dash
        <5>1. CASE j = 1
          <6>1. i - 1 = m + 3
            BY <1>0, <3>1, <5>1
          <6> QED
            BY <1>1, <5>1, <6>1
        <5>2. CASE j # 1
          <6>1. j - 1 \in 1..k
            BY <1>0, <3>4, <5>2
          <6>2. c[m + 3 + (j - 1)] = b[j - 1]
            BY <1>1, <6>1, Zenon
          <6> QED
            BY <3>1, <5>2, <6>2, Zenon
        <5> QED
          BY <5>1, <5>2
      <4>3. j # k => c[i + 1] = b[j + 1]
        <5>1. j # k => j + 1 \in 1..k
          BY <1>0, <3>4
        <5>2. j # k => c[m + 3 + (j + 1)] = b[j + 1]
          BY <1>1, <5>1, Zenon
        <5> QED
          BY <3>1, <5>2, Zenon
      <4> QED
        BY <3>1, <3>2, <3>4, <4>1, <4>2, <4>3 DEF XAt, k
    <3> QED
      BY <3>3, <3>4
  <2> QED
    BY <2>1, <2>2
<1> QED
  BY <1>0, <1>3, <1>4, <1>5, <1>6

\* A pair whose first part has a known length has known parts.
LEMMA PairParts ==
  ASSUME NEW S, NEW a \in Seq(S), NEW b \in Seq(S), NEW p \in Seq(S), NEW q \in Seq(S),
         NEW c, IsPair(c, a, b, S), IsPair(c, p, q, S), Len(a) = Len(p)
  PROVE  a = p /\ b = q
<1>0. Len(a) \in Nat /\ Len(b) \in Nat /\ Len(q) \in Nat
  BY LenProperties
<1>1. Len(b) = Len(q)
  BY <1>0 DEF IsPair
<1>2. \A i \in 1..Len(a) : a[i] = p[i]
  BY DEF IsPair
<1>3. \A i \in 1..Len(b) : b[i] = q[i]
  BY <1>1 DEF IsPair
<1> QED
  BY <1>1, <1>2, <1>3, SeqEqual

\* A plain string is one SanitizeName may return, without a segment "x".
LEMMA PlainIsTidy ==
  ASSUME NEW s \in Seq(Alphabet), Plain(s)
  PROVE  Tidy(s) /\ s \in Seq(Safe) /\ \A i : ~XAt(s, i)
<1>1. Tidy(s)
  <2>1. SanitizeName(s) = s
    BY DEF Plain, Clean
  <2>2. Tidy(SanitizeName(s))
    BY SanitizeTidies
  <2> QED
    BY <2>1, <2>2, Zenon
<1>2. s \in Seq(Safe)
  BY <1>1 DEF Tidy, Neat
<1>3. \A i : ~XAt(s, i)
  BY DEF Plain, HasXSegment, XAt
<1> QED
  BY <1>1, <1>2, <1>3

\* The base of tidy parts needs no sanitising.
LEMMA BaseTidy ==
  ASSUME NEW n, NEW v, NEW t, Tidy(n), Tidy(v), Tidy(t)
  PROVE  Tidy(Base(n, v, t)) /\ SanitizeName(Base(n, v, t)) = Base(n, v, t)
<1>1. n \in Seq(Safe) /\ v \in Seq(Safe) /\ t \in Seq(Safe) /\ {Dash, "x"} \subseteq Safe
  BY DEF Tidy, Neat, Safe, Dash
<1>2. IsPair(NameAndNs(n, v), n, v, Safe) /\ IsPair(Base(n, v, t), NameAndNs(n, v), t, Safe)
  BY <1>1, BasePaired
<1>3. Tidy(NameAndNs(n, v))
  BY <1>2, PairTidy
<1>4. Tidy(Base(n, v, t))
  BY <1>2, <1>3, PairTidy
<1> QED
  BY <1>4, SanitizeIdle

\* The host name of plain parts is their base when it fits.
LEMMA HostNameIsBase ==
  ASSUME NEW n, NEW v, NEW t, Tidy(n), Tidy(v), Tidy(t), Len(Base(n, v, t)) <= MaxLen
  PROVE  HostName(n, v, t) = Base(n, v, t)
<1>1. SanitizeName(Base(n, v, t)) = Base(n, v, t)
  BY BaseTidy
<1> QED
  BY <1>1 DEF HostName

\* The only segments "x" of a base of plain parts are those of the two separators.
LEMMA BaseSegments ==
  ASSUME NEW n \in Seq(Safe), NEW v \in Seq(Safe), NEW t \in Seq(Safe),
         \A i : ~XAt(n, i) /\ ~XAt(v, i) /\ ~XAt(t, i)
  PROVE  \A i \in Nat : XAt(Base(n, v, t), i) <=> i = Len(n) + 2 \/ i = Len(n) + Len(v) + 5
<1>0. {Dash, "x"} \subseteq Safe /\ Len(n) \in Nat /\ Len(v) \in Nat
  BY LenProperties DEF Safe, Dash
<1> DEFINE f == NameAndNs(n, v)
           b == Base(n, v, t)
<1>1. IsPair(f, n, v, Safe) /\ IsPair(b, f, t, Safe)
  BY <1>0, BasePaired
<1> HIDE DEF f, b
<1>2. f \in Seq(Safe) /\ Len(f) = Len(n) + Len(v) + 3
  BY <1>1 DEF IsPair
<1>3. \A i \in Nat : XAt(f, i) <=> i = Len(n) + 2
  BY <1>1, PairSegments
<1>4. \A i \in Nat : XAt(b, i) <=> XAt(f, i) \/ i = Len(f) + 2
  <2>1. TAKE i \in Nat
  <2>2. XAt(b, i) <=> XAt(f, i) \/ i = Len(f) + 2 \/ XAt(t, i - Len(f) - 3)
    BY <1>1, <1>2, PairSegments
  <2>3. ~XAt(t, i - Len(f) - 3)
    BY Zenon
  <2> QED
    BY <2>2, <2>3
<1>5. Len(f) + 2 = Len(n) + Len(v) + 5
  BY <1>0, <1>2
<1> QED
  BY <1>3, <1>4, <1>5 DEF b

\* A base can be taken apart in one way into plain parts.
LEMMA BaseTellsApart ==
  ASSUME NEW n \in Seq(Alphabet), NEW v \in Seq(Alphabet), NEW t \in Seq(Alphabet),
         NEW m \in Seq(Alphabet), NEW w \in Seq(Alphabet), NEW u \in Seq(Alphabet),
         Plain(n), Plain(v), Plain(t), Plain(m), Plain(w), Plain(u),
         Base(n, v, t) = Base(m, w, u)
  PROVE  n = m /\ v = w /\ t = u
<1> DEFINE b == Base(n, v, t)
<1>1. /\ n \in Seq(Safe) /\ v \in Seq(Safe) /\ t \in Seq(Safe)
      /\ m \in Seq(Safe) /\ w \in Seq(Safe) /\ u \in Seq(Safe)
      /\ \A i : ~XAt(n, i) /\ ~XAt(v, i) /\ ~XAt(t, i)
      /\ \A i : ~XAt(m, i) /\ ~XAt(w, i) /\ ~XAt(u, i)
  BY PlainIsTidy
<1>2. Len(n) \in Nat /\ Len(v) \in Nat /\ Len(m) \in Nat /\ Len(w) \in Nat
  BY <1>1, LenProperties
<1>3. \A i \in Nat : XAt(b, i) <=> i = Len(n) + 2 \/ i = Len(n) + Len(v) + 5
  BY <1>1, BaseSegments
<1>4. \A i \in Nat : XAt(b, i) <=> i = Len(m) + 2 \/ i = Len(m) + Len(w) + 5
  <2>1. \A i \in Nat : XAt(Base(m, w, u), i) <=> i = Len(m) + 2 \/ i = Len(m) + Len(w) + 5
    BY <1>1, BaseSegments
  <2> QED
    BY <2>1, Zenon
<1>5. \A i \in Nat : i = Len(n) + 2 \/ i = Len(n) + Len(v) + 5
                       <=> i = Len(m) + 2 \/ i = Len(m) + Len(w) + 5
  BY <1>3, <1>4, Zenon
<1>6. Len(n) = Len(m) /\ Len(n) + Len(v) = Len(m) + Len(w)
  <2> DEFINE a == Len(n)
             k == Len(v)
             c == Len(m)
             l == Len(w)
  <2>1. a \in Nat /\ k \in Nat /\ c \in Nat /\ l \in Nat
    BY <1>2
  <2>2. \A i \in Nat : i = a + 2 \/ i = a + k + 5 <=> i = c + 2 \/ i = c + l + 5
    BY <1>5
  <2> HIDE DEF a, k, c, l
  <2>3. a + 2 \in Nat /\ c + 2 \in Nat /\ a + k + 5 \in Nat
    BY <2>1
  <2>4. /\ a + 2 = c + 2 \/ a + 2 = c + l + 5
        /\ c + 2 = a + 2 \/ c + 2 = a + k + 5
        /\ a + k + 5 = c + 2 \/ a + k + 5 = c + l + 5
    BY <2>2, <2>3, Zenon
  <2>5. a = c /\ a + k = c + l
    BY <2>1, <2>4
  <2> QED
    BY <2>5 DEF a, k, c, l
<1>7. {Dash, "x"} \subseteq Safe
  BY DEF Safe, Dash
<1> DEFINE f == NameAndNs(n, v)
           g == NameAndNs(m, w)
<1>8. IsPair(f, n, v, Safe) /\ IsPair(b, f, t, Safe)
  BY <1>1, <1>7, BasePaired
<1>9. IsPair(g, m, w, Safe) /\ IsPair(b, g, u, Safe)
  <2>1. IsPair(g, m, w, Safe) /\ IsPair(Base(m, w, u), g, u, Safe)
    BY <1>1, <1>7, BasePaired
  <2> QED
    BY <2>1, Zenon
<1> HIDE DEF f, g, b
<1>10. f \in Seq(Safe) /\ g \in Seq(Safe) /\ Len(f) = Len(g)
  <2>1. /\ f \in Seq(Safe) /\ g \in Seq(Safe)
        /\ Len(f) = Len(n) + Len(v) + 3 /\ Len(g) = Len(m) + Len(w) + 3
    BY <1>8, <1>9 DEF IsPair
  <2> QED
    BY <1>2, <1>6, <2>1
<1>11. f = g /\ t = u
  BY <1>1, <1>8, <1>9, <1>10, PairParts
<1>12. IsPair(f, m, w, Safe)
  BY <1>9, <1>11, Zenon
<1> QED
  BY <1>1, <1>6, <1>8, <1>11, <1>12, PairParts

\* Two references to plain names, namespaces and tenants whose bases fit the limit have
\* the same host name only if they are the same reference (HostName).
THEOREM HostNameTellsApart ==
  ASSUME NEW n \in Seq(Alphabet), NEW v \in Seq(Alphabet), NEW t \in Seq(Alphabet),
         NEW m \in Seq(Alphabet), NEW w \in Seq(Alphabet), NEW u \in Seq(Alphabet),
         Plain(n), Plain(v), Plain(t), Plain(m), Plain(w), Plain(u),
         Len(Base(n, v, t)) <= MaxLen, Len(Base(m, w, u)) <= MaxLen,
         HostName(n, v, t) = HostName(m, w, u)
  PROVE  n = m /\ v = w /\ t = u
<1>1. HostName(n, v, t) = Base(n, v, t) /\ HostName(m, w, u) = Base(m, w, u)
  BY PlainIsTidy, HostNameIsBase
<1>2. Base(n, v, t) = Base(m, w, u)
  BY <1>1, Zenon
<1> QED
  BY <1>2, BaseTellsApart

\* The separator has three characters.
LEMMA SepLenIs3 == SepLen = 3
<1> DEFINE e == <<>>
           k == Len(Base(e, e, e))
<1>1. e \in Seq(Safe) /\ Len(e) = 0 /\ {Dash, "x"} \subseteq Safe
  BY EmptySeq DEF Safe, Dash
<1>2. SepLen = k \div 2
  BY DEF SepLen
<1> HIDE DEF e
<1>3. k = Len(e) + Len(e) + Len(e) + 6
  <2>1. \A a, b, c \in Seq(Safe) : Len(Base(a, b, c)) = Len(a) + Len(b) + Len(c) + 6
    BY <1>1, BasePaired
  <2> QED
    BY <1>1, <2>1
<1> HIDE DEF k
<1>4. k = 6
  BY <1>1, <1>3
<1> QED
  BY <1>2, <1>4

\* A part of a string of safe characters that is not empty.
LEMMA PartOf ==
  ASSUME NEW h \in Seq(Safe), NEW i \in Nat, NEW j \in Nat, i >= 1, j <= Len(h),
         SubSeq(h, i, j) # <<>>
  PROVE  SubSeq(h, i, j) \in Seq(Safe) /\ i <= j /\ Len(SubSeq(h, i, j)) = j - i + 1
<1> DEFINE s == SubSeq(h, i, j)
<1>0. Len(h) \in Nat
  BY LenProperties
<1>1. \A k \in i..j : h[k] \in Safe
  <2>1. \A k \in i..j : k \in 1..Len(h)
    BY <1>0
  <2> QED
    BY <2>1, ElementOfSeq
<1>2. s \in Seq(Safe) /\ Len(s) = IF i <= j THEN j - i + 1 ELSE 0
  BY <1>1, SubSeqProperties
<1> HIDE DEF s
<1>3. s # <<>>
  BY DEF s
<1>4. Len(s) # 0
  BY <1>2, <1>3, EmptySeq
<1> QED
  BY <1>2, <1>4 DEF s

\* However the host name of a plain reference is split at two separators, a plain
\* reference with that host name is that reference.
LEMMA SourcesTellApart ==
  ASSUME NEW n \in Seq(Alphabet), NEW v \in Seq(Alphabet), NEW t \in Seq(Alphabet),
         Plain(n), Plain(v), Plain(t), Len(Base(n, v, t)) <= MaxLen,
         NEW r \in Sources(HostName(n, v, t)), Plain(r[1]), Plain(r[2]), Plain(r[3])
  PROVE  r = <<n, v, t>>
<1> DEFINE h == HostName(n, v, t)
<1>1. h = Base(n, v, t) /\ Tidy(h)
  BY PlainIsTidy, HostNameIsBase, BaseTidy
<1>2. PICK i \in 0..Len(h), j \in 0..Len(h) :
        r = <<SubSeq(h, 1, i), SubSeq(h, i + SepLen + 1, j), SubSeq(h, j + SepLen + 1, Len(h))>>
  BY DEF Sources
<1>3. HostName(r[1], r[2], r[3]) = h
  BY DEF Sources
<1> HIDE DEF h
<1>4. h \in Seq(Safe) /\ Len(h) \in Nat /\ Len(h) <= MaxLen
  BY <1>1, LenProperties DEF Tidy, Neat
<1> DEFINE m == SubSeq(h, 1, i)
           w == SubSeq(h, i + 4, j)
           u == SubSeq(h, j + 4, Len(h))
<1>5. r = <<m, w, u>>
  <2>1. i + SepLen + 1 = i + 4 /\ j + SepLen + 1 = j + 4
    BY <1>4, SepLenIs3
  <2> QED
    BY <1>2, <2>1, Zenon
<1>6. m # <<>> /\ w # <<>> /\ u # <<>> /\ Plain(m) /\ Plain(w) /\ Plain(u)
  <2> HIDE DEF m, w, u
  <2>1. r[1] = m /\ r[2] = w /\ r[3] = u
    BY <1>5
  <2>2. Plain(m) /\ Plain(w) /\ Plain(u)
    BY <2>1, Zenon
  <2> QED
    BY <2>2 DEF Plain, Clean
<1>7. m \in Seq(Safe) /\ w \in Seq(Safe) /\ u \in Seq(Safe)
  BY <1>4, <1>6, PartOf
<1>8. /\ Len(m) = i - 1 + 1 /\ i + 4 <= j /\ Len(w) = j - (i + 4) + 1
      /\ j + 4 <= Len(h) /\ Len(u) = Len(h) - (j + 4) + 1
  BY <1>4, <1>6, PartOf
<1> HIDE DEF m, w, u
<1>9. Len(Base(m, w, u)) <= MaxLen
  <2>1. {Dash, "x"} \subseteq Safe
    BY DEF Safe, Dash
  <2>2. Len(Base(m, w, u)) = Len(m) + Len(w) + Len(u) + 6
    BY <1>7, <2>1, BasePaired
  <2>3. Len(m) + Len(w) + Len(u) + 6 = Len(h)
    BY <1>4, <1>8
  <2> QED
    BY <1>4, <2>2, <2>3
<1>10. m \in Seq(Alphabet) /\ w \in Seq(Alphabet) /\ u \in Seq(Alphabet)
  <2>1. Safe \subseteq Alphabet
    BY DEF Safe, Alphabet
  <2> QED
    BY <1>7, <2>1, SeqMonotonic
<1>11. HostName(m, w, u) = HostName(n, v, t)
  <2>1. r[1] = m /\ r[2] = w /\ r[3] = u
    BY <1>5
  <2> QED
    BY <1>3, <2>1, Zenon DEF h
<1>12. n = m /\ v = w /\ t = u
  BY <1>6, <1>9, <1>10, <1>11, HostNameTellsApart
<1> QED
  BY <1>5, <1>12

\* A sequence that agrees with another from position k on is a piece of it.
LEMMA PieceOf ==
  ASSUME NEW S, NEW h \in Seq(S), NEW a \in Seq(S), NEW k \in Nat, k + Len(a) <= Len(h),
         \A p \in 1..Len(a) : h[k + p] = a[p]
  PROVE  SubSeq(h, k + 1, k + Len(a)) = a
<1> DEFINE l == Len(a)
           s == SubSeq(h, k + 1, k + l)
<1>0. Len(h) \in Nat /\ l \in Nat
  BY LenProperties
<1>1. \A i \in (k + 1)..(k + l) : h[i] \in S
  <2>1. \A i \in (k + 1)..(k + l) : i \in 1..Len(h)
    BY <1>0
  <2> QED
    BY <2>1, ElementOfSeq
<1>2. /\ s \in Seq(S) /\ Len(s) = IF k + 1 <= k + l THEN (k + l) - (k + 1) + 1 ELSE 0
      /\ \A i \in 1..(k + l) - (k + 1) + 1 : s[i] = h[k + 1 + i - 1]
  BY <1>0, <1>1, SubSeqProperties
<1> HIDE DEF s
<1>3. Len(s) = l
  BY <1>0, <1>2
<1>4. \A p \in 1..l : s[p] = a[p]
  <2>1. TAKE p \in 1..l
  <2>2. p \in 1..(k + l) - (k + 1) + 1 /\ k + 1 + p - 1 = k + p
    BY <1>0
  <2> QED
    BY <1>2, <2>2
<1>5. s = a
  BY <1>2, <1>3, <1>4, SeqEqual
<1> QED
  BY <1>5 DEF s

\* No clean reference within the limit is missing from the sources of its host name.
LEMMA UncutIsSource ==
  ASSUME NEW n \in Seq(Alphabet), NEW v \in Seq(Alphabet), NEW t \in Seq(Alphabet),
         Clean(n), Clean(v), Clean(t), Len(Base(n, v, t)) <= MaxLen
  PROVE  <<n, v, t>> \in Sources(HostName(n, v, t))
<1>0. Tidy(n) /\ Tidy(v) /\ Tidy(t)
  <2>1. SanitizeName(n) = n /\ SanitizeName(v) = v /\ SanitizeName(t) = t
    BY DEF Clean
  <2>2. Tidy(SanitizeName(n)) /\ Tidy(SanitizeName(v)) /\ Tidy(SanitizeName(t))
    BY SanitizeTidies
  <2> QED
    BY <2>1, <2>2, Zenon
<1> DEFINE h == HostName(n, v, t)
           f == NameAndNs(n, v)
           i == Len(n)
           j == Len(f)
<1>1. h = Base(n, v, t)
  BY <1>0, HostNameIsBase
<1>2. n \in Seq(Safe) /\ v \in Seq(Safe) /\ t \in Seq(Safe) /\ {Dash, "x"} \subseteq Safe
  BY <1>0 DEF Tidy, Neat, Safe, Dash
<1>3. IsPair(f, n, v, Safe) /\ IsPair(h, f, t, Safe)
  BY <1>1, <1>2, BasePaired, Zenon
<1> HIDE DEF h, f
<1>4. /\ i \in Nat /\ j = i + Len(v) + 3 /\ Len(h) = j + Len(t) + 3
      /\ Len(v) \in Nat /\ Len(t) \in Nat /\ h \in Seq(Safe) /\ j \in Nat
  BY <1>2, <1>3, LenProperties DEF IsPair
<1>5. SubSeq(h, 1, i) = n
  <2>1. \A p \in 1..i : h[0 + p] = n[p]
    <3>1. TAKE p \in 1..i
    <3>2. p \in 1..Len(f) /\ 0 + p = p
      BY <1>4
    <3> QED
      BY <1>3, <3>2 DEF IsPair
  <2>2. SubSeq(h, 0 + 1, 0 + i) = n
    BY <1>2, <1>4, <2>1, PieceOf
  <2> QED
    BY <1>4, <2>2
<1>6. SubSeq(h, i + 4, j) = v
  <2>1. \A p \in 1..Len(v) : h[i + 3 + p] = v[p]
    <3>1. TAKE p \in 1..Len(v)
    <3>2. i + 3 + p \in 1..Len(f)
      BY <1>4
    <3>3. h[i + 3 + p] = f[i + 3 + p]
      BY <1>3, <3>2 DEF IsPair
    <3> QED
      BY <1>3, <3>3 DEF IsPair
  <2> DEFINE k == i + 3
  <2>2. k \in Nat /\ k + Len(v) = j /\ k + 1 = i + 4 /\ k + Len(v) <= Len(h)
    BY <1>4
  <2>3. \A p \in 1..Len(v) : h[k + p] = v[p]
    BY <2>1
  <2> HIDE DEF k
  <2>4. SubSeq(h, k + 1, k + Len(v)) = v
    BY <1>2, <1>4, <2>2, <2>3, PieceOf
  <2> QED
    BY <2>2, <2>4
<1>7. SubSeq(h, j + 4, Len(h)) = t
  <2> DEFINE k == j + 3
  <2>1. k \in Nat /\ k + Len(t) = Len(h) /\ k + 1 = j + 4 /\ k + Len(t) <= Len(h)
    BY <1>4
  <2>2. \A p \in 1..Len(t) : h[k + p] = t[p]
    BY <1>3 DEF IsPair
  <2> HIDE DEF k
  <2>3. SubSeq(h, k + 1, k + Len(t)) = t
    BY <1>2, <1>4, <2>1, <2>2, PieceOf
  <2> QED
    BY <2>1, <2>3
<1>8. i \in 0..Len(h) /\ j \in 0..Len(h)
  BY <1>4
<1>9. i + SepLen + 1 = i + 4 /\ j + SepLen + 1 = j + 4
  BY <1>4, SepLenIs3
<1>10. <<n, v, t>> = <<SubSeq(h, 1, i), SubSeq(h, i + SepLen + 1, j), SubSeq(h, j + SepLen + 1, Len(h))>>
  BY <1>5, <1>6, <1>7, <1>9, Zenon
<1>11. HostName(n, v, t) = h
  BY DEF h
<1>12. <<n, v, t>> \in Sources(h)
  <2> DEFINE Split(a, b) == <<SubSeq(h, 1, a), SubSeq(h, a + SepLen + 1, b),
                              SubSeq(h, b + SepLen + 1, Len(h))>>
             T == {Split(a, b) : a \in 0..Len(h), b \in 0..Len(h)}
             r == <<n, v, t>>
  <2>1. r[1] = n /\ r[2] = v /\ r[3] = t
    OBVIOUS
  <2>2. HostName(r[1], r[2], r[3]) = h
    BY <1>11, <2>1, Zenon
  <2>3. r = Split(i, j)
    BY <1>10
  <2>4. Sources(h) = {q \in T : HostName(q[1], q[2], q[3]) = h}
    BY DEF Sources
  <2> HIDE DEF r, Split
  <2>5. r \in T
    BY <1>8, <2>3
  <2> HIDE DEF T
  <2>6. r \in Sources(h)
    BY <2>2, <2>4, <2>5, Zenon
  <2> QED
    BY <2>6 DEF r
<1> QED
  BY <1>11, <1>12, Zenon

\* Two objects whose names, namespaces and tenants are labels without a segment "x", both
\* within the limit, never share a host name, whatever the limit and the lengths of the
\* inputs.  What is cut and hashed may still have the name of either.
THEOREM PlainNamesAreToldApart == Spec => []InjectiveOnPlainNames
<1>1. Inputs => InjectiveOnPlainNames
  <2>1. SUFFICES ASSUME Inputs, Plain(name), Plain(ns), Plain(tenant), Uncut,
                        NEW r \in Sources(HostName(name, ns, tenant)),
                        Plain(r[1]), Plain(r[2]), Plain(r[3])
                 PROVE  r = <<name, ns, tenant>>
    BY DEF InjectiveOnPlainNames
  <2>2. name \in Seq(Alphabet) /\ ns \in Seq(Alphabet) /\ tenant \in Seq(Alphabet)
    BY <2>1, InputsInAlphabet DEF Inputs
  <2> QED
    BY <2>1, <2>2, SourcesTellApart DEF Uncut
<1> QED
  BY <1>1, InputsHold, PTL

-----------------------------------------------------------------------------
(***************************************************************************)
(* SanitizeName keeps the letters and digits                               *)
(***************************************************************************)

\* The loop of SanitizeName on s, round by round.
IsRun(g, s) ==
  /\ g[0] = <<>> /\ \A i \in 1..Len(s) : g[i] = WriteRune(g[i - 1], s[i])
  /\ \A i \in 0..Len(s) : g[i] \in Neat

Prefixed(a, b) == Len(a) <= Len(b) /\ \A p \in 1..Len(a) : b[p] = a[p]

\* What a round appends: the character in lower case if it is a letter or a digit,
\* otherwise a dash if there is none at the end.
LEMMA WriteRuneAppends ==
  ASSUME NEW a \in Neat, NEW r \in Alphabet
  PROVE  LET b == WriteRune(a, r) IN
         /\ Prefixed(a, b)
         /\ Kept(r) => /\ Len(b) = Len(a) + 1 /\ b[Len(b)] = Lower(r) /\ Lower(r) # Dash
         /\ ~Kept(r) => /\ Len(b) >= 1 /\ b[Len(b)] = Dash
                        /\ Len(b) = IF Len(a) >= 1 /\ a[Len(a)] = Dash THEN Len(a) ELSE Len(a) + 1
<1> DEFINE c == Lower(r)
           b == WriteRune(a, r)
<1>1. a \in Seq(Safe) /\ Len(a) \in Nat
  BY LenProperties DEF Neat
<1>2. Dash \in Safe /\ (Kept(r) => c \in Safe /\ c # Dash)
  BY DEF Kept, IsLetterOrDigit, Safe, Dash
<1>3. \A x \in Safe : /\ Prefixed(a, Append(a, x)) /\ Len(Append(a, x)) = Len(a) + 1
                      /\ Append(a, x)[Len(a) + 1] = x
  BY <1>1, AppendProperties DEF Prefixed
<1>4. a # <<>> <=> Len(a) >= 1
  BY <1>1, EmptySeq
<1>5. a # <<>> => Last(a) = a[Len(a)]
  BY DEF Last
<1>6. b = IF Kept(r) THEN Append(a, c)
          ELSE IF a # <<>> /\ Last(a) = Dash THEN a ELSE Append(a, Dash)
  BY DEF WriteRune, Kept
<1> HIDE DEF b, c
<1>7. CASE Kept(r)
  <2>1. b = Append(a, c) /\ Len(b) = Len(a) + 1
    BY <1>2, <1>3, <1>6, <1>7
  <2>2. Prefixed(a, b) /\ b[Len(b)] = c /\ c # Dash
    BY <1>2, <1>3, <1>7, <2>1
  <2> QED
    BY <1>7, <2>1, <2>2 DEF b, c
<1>8. CASE ~Kept(r) /\ Len(a) >= 1 /\ a[Len(a)] = Dash
  <2>1. b = a
    BY <1>4, <1>5, <1>6, <1>8
  <2>2. Prefixed(a, a)
    BY <1>1 DEF Prefixed
  <2> QED
    BY <1>8, <2>1, <2>2 DEF b
<1>9. CASE ~Kept(r) /\ ~(Len(a) >= 1 /\ a[Len(a)] = Dash)
  <2>1. b = Append(a, Dash)
    BY <1>4, <1>5, <1>6, <1>9
  <2>2. Len(b) = Len(a) + 1 /\ Len(b) >= 1 /\ Prefixed(a, b) /\ b[Len(b)] = Dash
    BY <1>1, <1>2, <1>3, <2>1
  <2> QED
    BY <1>9, <2>2 DEF b
<1> QED
  BY <1>7, <1>8, <1>9

\* The same of a run.
LEMMA RunStep ==
  ASSUME NEW s \in Seq(Alphabet), NEW g, IsRun(g, s), NEW i \in 1..Len(s)
  PROVE  /\ i - 1 \in 0..Len(s) /\ i \in 0..Len(s)
         /\ Len(g[i - 1]) \in Nat /\ Len(g[i]) \in Nat /\ Prefixed(g[i - 1], g[i])
         /\ i \in Keeps(s) => /\ Len(g[i]) = Len(g[i - 1]) + 1 /\ g[i][Len(g[i])] = Lower(s[i])
                              /\ Lower(s[i]) # Dash
         /\ i \notin Keeps(s) =>
              /\ Len(g[i]) >= 1 /\ g[i][Len(g[i])] = Dash
              /\ Len(g[i]) = IF Len(g[i - 1]) >= 1 /\ g[i - 1][Len(g[i - 1])] = Dash
                             THEN Len(g[i - 1]) ELSE Len(g[i - 1]) + 1
<1>1. Len(s) \in Nat /\ s[i] \in Alphabet
  BY LenProperties, ElementOfSeq
<1>2. i - 1 \in 0..Len(s) /\ i \in 0..Len(s)
  BY <1>1
<1>3. g[i - 1] \in Neat /\ g[i] \in Neat /\ g[i] = WriteRune(g[i - 1], s[i])
  BY <1>2 DEF IsRun
<1>4. i \in Keeps(s) <=> Kept(s[i])
  BY DEF Keeps
<1> DEFINE a == g[i - 1]
           b == g[i]
           r == s[i]
<1>5. Len(a) \in Nat /\ Len(b) \in Nat
  BY <1>3, LenProperties DEF Neat
<1>6. /\ Prefixed(a, b)
      /\ Kept(r) => /\ Len(b) = Len(a) + 1 /\ b[Len(b)] = Lower(r) /\ Lower(r) # Dash
      /\ ~Kept(r) => /\ Len(b) >= 1 /\ b[Len(b)] = Dash
                     /\ Len(b) = IF Len(a) >= 1 /\ a[Len(a)] = Dash THEN Len(a) ELSE Len(a) + 1
  <2>1. a \in Neat /\ r \in Alphabet /\ b = WriteRune(a, r)
    BY <1>1, <1>3
  <2> HIDE DEF a, b, r
  <2> QED
    BY <2>1, WriteRuneAppends
<1> QED
  BY <1>2, <1>4, <1>5, <1>6

\* What is written stays.
LEMMA RunKeeps ==
  ASSUME NEW s \in Seq(Alphabet), NEW g, IsRun(g, s), NEW k \in 0..Len(s), NEW i \in 0..k
  PROVE  Len(g[i]) \in Nat /\ Len(g[k]) \in Nat /\ Prefixed(g[i], g[k])
<1> DEFINE n == Len(s)
           G == {j \in 0..n : \A m \in 0..j : Prefixed(g[m], g[j])}
<1>0. n \in Nat /\ \A j \in 0..n : Len(g[j]) \in Nat
  <2>1. \A j \in 0..n : g[j] \in Seq(Safe)
    BY DEF IsRun, Neat
  <2> QED
    BY <2>1, LenProperties
<1>1. \A j \in 0..n : Prefixed(g[j], g[j])
  BY <1>0 DEF Prefixed
<1>2. 0 \in G
  BY <1>0, <1>1
<1>3. ASSUME NEW j \in 0..n, j \in G, j < n PROVE j + 1 \in G
  <2>1. j + 1 \in 1..n /\ j + 1 \in 0..n /\ (j + 1) - 1 = j
    BY <1>0, <1>3
  <2>2. Prefixed(g[j], g[j + 1])
    BY <2>1, RunStep
  <2>3. ASSUME NEW m \in 0..j PROVE Prefixed(g[m], g[j + 1])
    <3>1. m \in 0..n /\ Prefixed(g[m], g[j])
      BY <1>0, <1>3, <2>3
    <3>2. Len(g[m]) \in Nat /\ Len(g[j]) \in Nat /\ Len(g[j + 1]) \in Nat
      BY <1>0, <2>1, <3>1
    <3>3. \A p \in 1..Len(g[m]) : p \in 1..Len(g[j])
      BY <3>1, <3>2 DEF Prefixed
    <3> QED
      BY <2>2, <3>1, <3>2, <3>3 DEF Prefixed
  <2>4. \A m \in 0..(j + 1) : m \in 0..j \/ m = j + 1
    BY <1>0, <1>3
  <2>5. Prefixed(g[j + 1], g[j + 1])
    BY <1>1, <2>1
  <2> QED
    BY <2>1, <2>3, <2>4, <2>5
<1>4. \A j \in 0..n : j \in G
  <2> HIDE DEF G, n
  <2> QED
    BY <1>0, <1>2, <1>3, UpTo
<1>5. i \in 0..n
  BY <1>0
<1> QED
  BY <1>0, <1>4, <1>5

\* A character that is no dash was written for a letter or a digit.
LEMMA RunOnto ==
  ASSUME NEW s \in Seq(Alphabet), NEW g, IsRun(g, s)
  PROVE  \A i \in 0..Len(s) : \A p \in 1..Len(g[i]) :
           g[i][p] # Dash => \E j \in Keeps(s) : Len(g[j]) = p
<1> DEFINE n == Len(s)
           G == {i \in 0..n : \A p \in 1..Len(g[i]) :
                                g[i][p] # Dash => \E j \in Keeps(s) : Len(g[j]) = p}
<1>0. n \in Nat
  BY LenProperties
<1>1. 0 \in G
  <2>1. Len(g[0]) = 0
    BY EmptySeq DEF IsRun
  <2> QED
    BY <1>0, <2>1
<1>2. ASSUME NEW i \in 0..n, i \in G, i < n PROVE i + 1 \in G
  <2>1. i + 1 \in 1..n /\ i + 1 \in 0..n /\ (i + 1) - 1 = i
    BY <1>0, <1>2
  <2> DEFINE a == g[i]
             b == g[i + 1]
             k == i + 1
  <2>2. /\ Len(a) \in Nat /\ Len(b) \in Nat /\ Prefixed(a, b)
        /\ k \in Keeps(s) => Len(b) = Len(a) + 1
        /\ k \notin Keeps(s) => /\ Len(b) >= 1 /\ b[Len(b)] = Dash
                                /\ Len(b) = Len(a) \/ Len(b) = Len(a) + 1
    BY <2>1, RunStep
  <2>3. ASSUME NEW p \in 1..Len(b), b[p] # Dash PROVE \E j \in Keeps(s) : Len(g[j]) = p
    <3>1. CASE p \in 1..Len(a)
      <4>1. a[p] # Dash
        BY <2>2, <2>3, <3>1 DEF Prefixed
      <4> QED
        BY <1>2, <3>1, <4>1
    <3>2. CASE p \notin 1..Len(a)
      <4>1. p = Len(b)
        BY <2>2, <2>3, <3>2
      <4>2. k \in Keeps(s)
        BY <2>2, <2>3, <4>1
      <4> QED
        BY <4>1, <4>2
    <3> QED
      BY <3>1, <3>2
  <2> QED
    BY <2>1, <2>3
<1>3. \A i \in 0..n : i \in G
  <2> HIDE DEF G, n
  <2> QED
    BY <1>0, <1>1, <1>2, UpTo
<1> QED
  BY <1>3

\* Between two letters or digits there is one dash if anything stood between them.
LEMMA RunGap ==
  ASSUME NEW s \in Seq(Alphabet), NEW g, IsRun(g, s), NEW j \in Keeps(s), NEW m \in Keeps(s),
         Neighbours(Keeps(s), j, m)
  PROVE  Len(g[m]) = IF m = j + 1 THEN Len(g[j]) + 1 ELSE Len(g[j]) + 2
<1> DEFINE n == Len(s)
           l == Len(g[j])
           k == m - j - 1
           G == {d \in 0..k : d > 0 => Len(g[j + d]) = l + 1 /\ g[j + d][l + 1] = Dash}
<1>0. /\ n \in Nat /\ j \in 1..n /\ m \in 1..n /\ k \in Nat /\ j < m
      /\ \A i \in Keeps(s) : ~(j < i /\ i < m)
  BY LenProperties DEF Keeps, Neighbours
<1>1. l \in Nat /\ l >= 1 /\ g[j][l] # Dash
  BY <1>0, RunStep
<1>2. 0 \in G
  BY <1>0
<1>3. ASSUME NEW d \in 0..k, d \in G, d < k PROVE d + 1 \in G
  <2> DEFINE i == j + (d + 1)
  <2>1. i \in 1..n /\ i \notin Keeps(s) /\ i - 1 = j + d /\ d + 1 \in 0..k
    BY <1>0, <1>3
  <2> HIDE DEF i
  <2>2. /\ Len(g[i]) >= 1 /\ g[i][Len(g[i])] = Dash
        /\ Len(g[i]) = IF Len(g[j + d]) >= 1 /\ g[j + d][Len(g[j + d])] = Dash
                       THEN Len(g[j + d]) ELSE Len(g[j + d]) + 1
    BY <2>1, RunStep
  <2>3. Len(g[i]) = l + 1
    <3>1. CASE d = 0
      <4>1. j + d = j
        BY <1>0, <3>1
      <4> QED
        BY <1>1, <2>2, <4>1
    <3>2. CASE d > 0
      <4>1. Len(g[j + d]) = l + 1 /\ g[j + d][l + 1] = Dash
        BY <1>3, <3>2
      <4> QED
        BY <1>1, <2>2, <4>1
    <3> QED
      BY <1>3, <3>1, <3>2
  <2> QED
    BY <2>1, <2>2, <2>3 DEF i
<1>4. \A d \in 0..k : d \in G
  <2> HIDE DEF G, k
  <2> QED
    BY <1>0, <1>2, <1>3, UpTo
<1>5. Len(g[m]) = Len(g[m - 1]) + 1
  BY <1>0, RunStep
<1>6. CASE m = j + 1
  <2>1. m - 1 = j
    BY <1>0, <1>6
  <2> QED
    BY <1>5, <1>6, <2>1
<1>7. CASE m # j + 1
  <2>1. k \in 0..k /\ k > 0 /\ j + k = m - 1
    BY <1>0, <1>7
  <2>2. Len(g[m - 1]) = l + 1
    BY <1>4, <2>1
  <2> QED
    BY <1>1, <1>5, <1>7, <2>2
<1> QED
  BY <1>6, <1>7

\* w has the letters and digits of s in lower case and in order, that of i at pos[i],
\* and no other character but dashes.
IsPlaced(w, pos, s) ==
  /\ w \in Seq(Safe)
  /\ \A i \in Keeps(s) : /\ pos[i] \in 1..Len(w) /\ w[pos[i]] = Lower(s[i])
                          /\ w[pos[i]] # Dash
  /\ \A p \in 1..Len(w) : w[p] # Dash => \E i \in Keeps(s) : pos[i] = p
  /\ \A i, m \in Keeps(s) : i < m => pos[i] < pos[m]
  /\ \A i, m \in Keeps(s) : Neighbours(Keeps(s), i, m) =>
                              pos[m] = IF m = i + 1 THEN pos[i] + 1 ELSE pos[i] + 2

\* The loop places them.
LEMMA WrittenPlaces ==
  ASSUME NEW s \in Seq(Alphabet)
  PROVE  \E pos : IsPlaced(Written(s), pos, s)
<1>1. PICK g : IsRun(g, s) /\ Written(s) = g[Len(s)]
  BY WrittenByRounds DEF IsRun
<1> DEFINE n == Len(s)
           w == g[n]
           pos == [i \in 0..n |-> Len(g[i])]
<1>2. n \in Nat /\ n \in 0..n /\ \A i \in Keeps(s) : i \in 1..n /\ i \in 0..n /\ i - 1 \in 0..n
  BY LenProperties DEF Keeps
<1>3. w \in Seq(Safe)
  BY <1>1, <1>2 DEF IsRun, Neat
<1>4. ASSUME NEW i \in Keeps(s)
      PROVE  pos[i] \in 1..Len(w) /\ w[pos[i]] = Lower(s[i]) /\ w[pos[i]] # Dash
  <2>1. /\ Len(g[i - 1]) \in Nat /\ Len(g[i]) = Len(g[i - 1]) + 1
        /\ g[i][Len(g[i])] = Lower(s[i]) /\ Lower(s[i]) # Dash
    BY <1>1, <1>2, RunStep
  <2>2. Len(g[i]) \in Nat /\ Len(g[n]) \in Nat /\ Prefixed(g[i], g[n])
    BY <1>1, <1>2, RunKeeps
  <2> DEFINE a == g[i]
             l == Len(a)
  <2>3. l \in Nat /\ l >= 1 /\ l <= Len(w) /\ Len(w) \in Nat /\ w[l] = a[l]
    BY <2>1, <2>2 DEF Prefixed
  <2>4. pos[i] = l
    BY <1>2
  <2>5. l \in 1..Len(w)
    BY <2>3
  <2> QED
    BY <2>1, <2>3, <2>4, <2>5
<1>5. \A p \in 1..Len(w) : w[p] # Dash => \E i \in Keeps(s) : pos[i] = p
  <2>1. \A p \in 1..Len(w) : w[p] # Dash => \E i \in Keeps(s) : Len(g[i]) = p
    BY <1>1, <1>2, RunOnto
  <2> QED
    BY <1>2, <2>1
<1>6. ASSUME NEW i \in Keeps(s), NEW m \in Keeps(s), i < m PROVE pos[i] < pos[m]
  <2>1. Len(g[m - 1]) \in Nat /\ Len(g[m]) = Len(g[m - 1]) + 1
    BY <1>1, <1>2, RunStep
  <2>2. i \in 0..(m - 1) /\ m - 1 \in 0..n
    BY <1>2, <1>6
  <2>3. Len(g[i]) \in Nat /\ Prefixed(g[i], g[m - 1])
    BY <1>1, <2>2, RunKeeps
  <2>4. Len(g[i]) < Len(g[m])
    BY <2>1, <2>3 DEF Prefixed
  <2> QED
    BY <1>2, <2>4
<1>7. ASSUME NEW i \in Keeps(s), NEW m \in Keeps(s), Neighbours(Keeps(s), i, m)
      PROVE  pos[m] = IF m = i + 1 THEN pos[i] + 1 ELSE pos[i] + 2
  <2>1. Len(g[m]) = IF m = i + 1 THEN Len(g[i]) + 1 ELSE Len(g[i]) + 2
    BY <1>1, <1>7, RunGap
  <2> QED
    BY <1>2, <2>1
<1>8. IsPlaced(w, pos, s)
  <2> HIDE DEF pos, w
  <2> QED
    BY <1>3, <1>4, <1>5, <1>6, <1>7 DEF IsPlaced
<1> QED
  BY <1>1, <1>8

\* Trim only moves them.
LEMMA TrimPlaces ==
  ASSUME NEW s \in Seq(Alphabet), NEW w, NEW pos, IsPlaced(w, pos, s), ~AllDashes(w)
  PROVE  IsPlaced(Trim(w), [i \in Keeps(s) |-> pos[i] - FirstKept(w) + 1], s)
<1> DEFINE t == Trim(w)
           f == FirstKept(w)
           l == LastKept(w)
           at == [i \in Keeps(s) |-> pos[i] - f + 1]
<1>1. /\ w \in Seq(Safe) /\ Len(w) \in Nat
      /\ \A i \in Keeps(s) : /\ pos[i] \in 1..Len(w) /\ w[pos[i]] = Lower(s[i])
                              /\ w[pos[i]] # Dash
      /\ \A p \in 1..Len(w) : w[p] # Dash => \E i \in Keeps(s) : pos[i] = p
      /\ \A i, m \in Keeps(s) : i < m => pos[i] < pos[m]
      /\ \A i, m \in Keeps(s) : Neighbours(Keeps(s), i, m) =>
                                  pos[m] = IF m = i + 1 THEN pos[i] + 1 ELSE pos[i] + 2
  BY LenProperties DEF IsPlaced
<1>2. /\ f \in 1..Len(w) /\ l \in 1..Len(w) /\ f <= l
      /\ \A i \in 1..Len(w) : w[i] # Dash => f <= i /\ i <= l
  BY <1>1, KeptEnds
<1>3. /\ t \in Seq(Safe) /\ Len(t) = l - f + 1
      /\ \A i \in 1..Len(t) : t[i] = w[f + i - 1]
  BY <1>1, TrimKeeps
<1>4. \A i \in Keeps(s) : at[i] = pos[i] - f + 1
  OBVIOUS
<1> HIDE DEF t, f, l, at
<1>5. ASSUME NEW i \in Keeps(s)
      PROVE  at[i] \in 1..Len(t) /\ t[at[i]] = Lower(s[i]) /\ t[at[i]] # Dash
  <2>1. pos[i] \in 1..Len(w) /\ w[pos[i]] = Lower(s[i]) /\ w[pos[i]] # Dash
    BY <1>1
  <2>2. f <= pos[i] /\ pos[i] <= l
    BY <1>2, <2>1
  <2>3. at[i] \in 1..Len(t) /\ f + at[i] - 1 = pos[i]
    BY <1>2, <1>3, <1>4, <2>1, <2>2
  <2>4. t[at[i]] = w[f + at[i] - 1]
    BY <1>3, <2>3
  <2> QED
    BY <2>1, <2>3, <2>4
<1>6. ASSUME NEW p \in 1..Len(t), t[p] # Dash PROVE \E i \in Keeps(s) : at[i] = p
  <2>1. f + p - 1 \in 1..Len(w) /\ t[p] = w[f + p - 1]
    BY <1>1, <1>2, <1>3
  <2>2. PICK i \in Keeps(s) : pos[i] = f + p - 1
    BY <1>1, <1>6, <2>1
  <2>3. at[i] = p
    BY <1>2, <1>4, <2>2
  <2> QED
    BY <2>3
<1>7. ASSUME NEW i \in Keeps(s), NEW m \in Keeps(s), i < m PROVE at[i] < at[m]
  <2>1. pos[i] \in 1..Len(w) /\ pos[m] \in 1..Len(w) /\ pos[i] < pos[m]
    BY <1>1, <1>7
  <2> QED
    BY <1>2, <1>4, <2>1
<1>8. ASSUME NEW i \in Keeps(s), NEW m \in Keeps(s), Neighbours(Keeps(s), i, m)
      PROVE  at[m] = IF m = i + 1 THEN at[i] + 1 ELSE at[i] + 2
  <2>1. /\ pos[i] \in 1..Len(w) /\ pos[m] \in 1..Len(w)
        /\ pos[m] = IF m = i + 1 THEN pos[i] + 1 ELSE pos[i] + 2
    BY <1>1, <1>8
  <2>2. at[i] = pos[i] - f + 1 /\ at[m] = pos[m] - f + 1 /\ f \in Nat
    BY <1>2, <1>4
  <2>3. pos[i] \in Nat /\ pos[m] \in Nat
    BY <2>1
  <2>4. CASE m = i + 1
    BY <2>1, <2>2, <2>3, <2>4
  <2>5. CASE m # i + 1
    BY <2>1, <2>2, <2>3, <2>5
  <2> QED
    BY <2>4, <2>5
<1>9. IsPlaced(t, at, s)
  BY <1>3, <1>5, <1>6, <1>7, <1>8 DEF IsPlaced
<1> QED
  BY <1>9 DEF t, at, f

\* SanitizeName means what it should.
LEMMA SanitizeNameSanitizes ==
  ASSUME NEW s \in Seq(Alphabet)
  PROVE  Sanitizes(s, SanitizeName(s))
<1> DEFINE w == Written(s)
           out == SanitizeName(s)
<1>1. PICK pos : IsPlaced(w, pos, s)
  BY WrittenPlaces
<1>2. /\ w \in Seq(Safe) /\ Len(w) \in Nat
      /\ \A i \in Keeps(s) : pos[i] \in 1..Len(w) /\ w[pos[i]] # Dash
      /\ \A p \in 1..Len(w) : w[p] # Dash => \E i \in Keeps(s) : pos[i] = p
  BY <1>1, LenProperties DEF IsPlaced
<1>3. out = IF Trim(w) = <<>> THEN <<"x">> ELSE Trim(w)
  BY DEF SanitizeName
<1>4. Tidy(out)
  BY SanitizeTidies
<1> HIDE DEF w, out
<1>5. AllDashes(w) <=> Keeps(s) = {}
  BY <1>2 DEF AllDashes
<1>6. CASE Keeps(s) = {}
  <2>1. Trim(w) = <<>>
    BY <1>5, <1>6 DEF Trim
  <2> QED
    BY <1>3, <1>6, <2>1 DEF Sanitizes, out
<1>7. CASE Keeps(s) # {}
  <2> DEFINE at == [i \in Keeps(s) |-> pos[i] - FirstKept(w) + 1]
  <2>1. IsPlaced(Trim(w), at, s)
    BY <1>1, <1>5, <1>7, TrimPlaces
  <2>2. Trim(w) # <<>>
    <3>1. PICK i \in Keeps(s) : TRUE
      BY <1>7
    <3>2. at[i] \in 1..Len(Trim(w))
      BY <2>1, <3>1 DEF IsPlaced
    <3>3. Len(<<>>) = 0
      BY EmptySeq
    <3> QED
      BY <3>2, <3>3
  <2>3. IsPlaced(out, at, s)
    BY <1>3, <2>1, <2>2
  <2>4. at = [i \in Keeps(s) |-> at[i]]
    OBVIOUS
  <2> HIDE DEF at
  <2>5. /\ out \in Seq(Safe) /\ Len(out) \in Nat
        /\ \A i \in Keeps(s) : /\ at[i] \in 1..Len(out) /\ out[at[i]] = Lower(s[i])
                                /\ out[at[i]] # Dash
        /\ \A p \in 1..Len(out) : out[p] # Dash => \E i \in Keeps(s) : at[i] = p
        /\ \A i, m \in Keeps(s) : i < m => at[i] < at[m]
        /\ \A i, m \in Keeps(s) : Neighbours(Keeps(s), i, m) =>
                                    at[m] = IF m = i + 1 THEN at[i] + 1 ELSE at[i] + 2
    BY <2>3, LenProperties DEF IsPlaced
  <2>6. \A p \in 1..Len(out) : p \in Keeps(out) <=> out[p] # Dash
    <3>1. \A c \in Safe : Kept(c) <=> c # Dash
      BY DEF Kept, Lower, IsLetterOrDigit, Safe, Dash
    <3>2. \A p \in 1..Len(out) : out[p] \in Safe
      BY <2>5, ElementOfSeq
    <3> QED
      BY <3>1, <3>2 DEF Keeps
  <2>7. at \in [Keeps(s) -> Keeps(out)]
    BY <2>4, <2>5, <2>6
  <2>8. {1, Len(out)} \subseteq Keeps(out)
    <3>1. Len(out) >= 1 /\ out[1] # Dash /\ out[Len(out)] # Dash
      BY <1>4 DEF Tidy
    <3>2. 1 \in 1..Len(out) /\ Len(out) \in 1..Len(out)
      BY <2>5, <3>1
    <3> QED
      BY <2>6, <3>1, <3>2
  <2>9. \A p \in Keeps(out) : \E i \in Keeps(s) : at[i] = p
    <3>1. \A p \in Keeps(out) : p \in 1..Len(out)
      BY DEF Keeps
    <3> QED
      BY <2>5, <2>6, <3>1
  <2>10. Sanitizes(s, out)
    BY <1>7, <2>5, <2>7, <2>8, <2>9 DEF Sanitizes
  <2> QED
    BY <2>10 DEF out
<1> QED
  BY <1>6, <1>7

\* Whatever the name, SanitizeName keeps its letters and digits, in lower case and in
\* order, and puts one dash where anything else stood between two of them.
THEOREM NamesAreSanitized == Spec => []SanitizeMeaning
<1>1. Inputs => SanitizeMeaning
  BY InputsInAlphabet, SanitizeNameSanitizes DEF Inputs, SanitizeMeaning
<1> QED
  BY <1>1, InputsHold, PTL
=============================================================================
