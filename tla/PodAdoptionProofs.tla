-------------------------- MODULE PodAdoptionProofs --------------------------
(***************************************************************************)
(* Proofs about PodAdoption, for any Pods: lists of any length, names and  *)
(* tolerations given twice, any number of edits.                           *)
(***************************************************************************)
EXTENDS PodAdoption, SequenceTheorems, WellFoundedInduction, TLAPS

\* The induction the loops below need: a set of numbers that is not empty has a
\* least one.
LEMMA LeastNumber ==
  ASSUME NEW T, T \subseteq Nat, T # {}
  PROVE  \E n \in T : \A m \in T : n <= m
<1> DEFINE R == {p \in Nat \X Nat : p[1] < p[2]}
<1>1. IsWellFoundedOn(R, Nat)
  BY NatLessThanWellFounded DEF OpToRel
<1> HIDE DEF R
<1>2. PICK n \in T : \A m \in T : ~(<<m, n>> \in R)
  BY <1>1, WFMin
<1>3. \A x, y \in Nat : <<y, x>> \in R <=> y < x
  BY DEF R
<1>4. \A m \in T : n <= m
  <2>1. TAKE m \in T
  <2>2. m \in Nat /\ n \in Nat /\ ~(m < n)
    BY <1>2, <1>3, Zenon
  <2> QED
    BY <2>2
<1> QED
  BY <1>4

\* Induction up to n, on the set of the numbers that have the property.
LEMMA UpTo ==
  ASSUME NEW n \in Nat, NEW G, 0 \in G, \A i \in 0..n : i \in G /\ i < n => i + 1 \in G
  PROVE  \A i \in 0..n : i \in G
<1> DEFINE B == {i \in 0..n : i \notin G}
<1>1. SUFFICES ASSUME B # {} PROVE FALSE
  OBVIOUS
<1>2. PICK b \in B : \A m \in B : b <= m
  <2>1. B \subseteq Nat
    OBVIOUS
  <2> HIDE DEF B
  <2> QED
    BY <1>1, <2>1, LeastNumber
<1>3. b \in 0..n /\ b \notin G /\ b # 0
  BY <1>2
<1>4. b - 1 \in 0..n /\ b - 1 < n
  BY <1>3
<1>5. b - 1 \in G
  BY <1>2, <1>3, <1>4
<1>6. (b - 1) + 1 \in G
  BY <1>4, <1>5
<1> QED
  BY <1>3, <1>6
-----------------------------------------------------------------------------
(***************************************************************************)
(* mergeTolerations                                                        *)
(***************************************************************************)

\* The list after i rounds of the loop.
Loop(out, existing, desired) ==
  out = [i \in 0..Len(desired) |->
           IF i = 0 THEN existing
           ELSE IF desired[i] \in ToSet(existing) THEN out[i - 1]
           ELSE Append(out[i - 1], desired[i])]

\* The loop is well defined.
LEMMA LoopExists ==
  ASSUME NEW S, NEW e \in Seq(S), NEW d \in Seq(S)
  PROVE  \E out : Loop(out, e, d)
<1> DEFINE N == Len(d)
           Rounds(k, f) ==
             f = [i \in 0..k |-> IF i = 0 THEN e
                                 ELSE IF d[i] \in ToSet(e) THEN f[i - 1]
                                 ELSE Append(f[i - 1], d[i])]
           G == {k \in 0..N : \E f : Rounds(k, f)}
<1>0. N \in Nat
  BY LenProperties
<1>1. 0 \in G
  <2> DEFINE f == [i \in 0..0 |-> e]
  <2>1. Rounds(0, f)
    OBVIOUS
  <2>2. 0 \in 0..N
    BY <1>0
  <2> HIDE DEF Rounds, f, N
  <2> QED
    BY <2>1, <2>2
<1>2. ASSUME NEW k \in 0..N, k \in G, k < N PROVE k + 1 \in G
  <2>1. PICK f : Rounds(k, f)
    BY <1>2
  <2> DEFINE g == [i \in 0..(k + 1) |->
                     IF i <= k THEN f[i]
                     ELSE IF d[k + 1] \in ToSet(e) THEN f[k] ELSE Append(f[k], d[k + 1])]
  <2>2. \A i \in 0..(k + 1) : i # 0 => g[i - 1] = f[i - 1]
    BY <1>0, <1>2
  <2>3. \A i \in 0..(k + 1) :
          g[i] = IF i = 0 THEN e
                 ELSE IF d[i] \in ToSet(e) THEN g[i - 1]
                 ELSE Append(g[i - 1], d[i])
    <3>1. TAKE i \in 0..(k + 1)
    <3>2. CASE i <= k
      <4>1. i \in 0..k /\ g[i] = f[i]
        BY <3>2
      <4>2. f[i] = IF i = 0 THEN e ELSE IF d[i] \in ToSet(e) THEN f[i - 1] ELSE Append(f[i - 1], d[i])
        BY <2>1, <4>1
      <4> QED
        BY <2>2, <4>1, <4>2
    <3>3. CASE i = k + 1
      <4>1. i # 0 /\ i - 1 = k
        BY <1>2, <3>3
      <4>2. g[i] = IF d[k + 1] \in ToSet(e) THEN f[k] ELSE Append(f[k], d[k + 1])
        BY <1>2, <3>3
      <4> QED
        BY <2>2, <3>3, <4>1, <4>2
    <3> QED
      BY <1>2, <3>2, <3>3
  <2>4. Rounds(k + 1, g)
    <3>1. g = [i \in 0..(k + 1) |-> g[i]]
      OBVIOUS
    <3> HIDE DEF g
    <3> QED
      BY <2>3, <3>1
  <2> HIDE DEF g, Rounds
  <2> QED
    BY <1>0, <1>2, <2>4
<1>3. \A k \in 0..N : k \in G
  <2> HIDE DEF G, N
  <2> QED
    BY <1>0, <1>1, <1>2, UpTo
<1>4. \E f : Rounds(N, f)
  <2> HIDE DEF Rounds, N, G
  <2>1. N \in 0..N
    BY <1>0
  <2>2. N \in G
    BY <1>3, <2>1, Zenon
  <2> QED
    BY <2>2, Zenon DEF G
<1> QED
  BY <1>4 DEF Loop

\* What the loop has after each round: the existing list first, a sequence, and
\* everything of desired that it has passed.
LEMMA LoopKeeps ==
  ASSUME NEW S, NEW e \in Seq(S), NEW d \in Seq(S), NEW out, Loop(out, e, d)
  PROVE  \A i \in 0..Len(d) :
           /\ out[i] \in Seq(S) /\ Len(e) <= Len(out[i])
           /\ \A k \in 1..Len(e) : out[i][k] = e[k]
           /\ \A j \in 1..i : \E k \in 1..Len(out[i]) : out[i][k] = d[j]
<1> DEFINE N == Len(d)
           Good(s, i) ==
             /\ s \in Seq(S) /\ Len(e) <= Len(s)
             /\ \A k \in 1..Len(e) : s[k] = e[k]
             /\ \A j \in 1..i : \E k \in 1..Len(s) : s[k] = d[j]
           G == {i \in 0..N : Good(out[i], i)}
<1>0. N \in Nat /\ Len(e) \in Nat /\ DOMAIN e = 1..Len(e)
  BY LenProperties
<1>1. out[0] = e
  BY <1>0 DEF Loop
<1>2. \A i \in 0..N : i < N =>
        out[i + 1] = IF d[i + 1] \in ToSet(e) THEN out[i] ELSE Append(out[i], d[i + 1])
  <2>1. TAKE i \in 0..N
  <2>2. HAVE i < N
  <2>3. i + 1 \in 0..N /\ i + 1 # 0 /\ (i + 1) - 1 = i
    BY <1>0, <2>2
  <2>4. out[i + 1] = IF i + 1 = 0 THEN e
                     ELSE IF d[i + 1] \in ToSet(e) THEN out[(i + 1) - 1]
                     ELSE Append(out[(i + 1) - 1], d[i + 1])
    BY <2>3 DEF Loop
  <2> QED
    BY <2>3, <2>4
<1>3. 0 \in G
  BY <1>0, <1>1
<1>4. ASSUME NEW i \in 0..N, i \in G, i < N PROVE i + 1 \in G
  <2> DEFINE s == out[i]
  <2>1. /\ s \in Seq(S) /\ Len(e) <= Len(s)
        /\ \A k \in 1..Len(e) : s[k] = e[k]
        /\ \A j \in 1..i : \E k \in 1..Len(s) : s[k] = d[j]
    BY <1>4
  <2> HIDE DEF s
  <2>2. i + 1 \in 0..N /\ i + 1 \in 1..N /\ Len(s) \in Nat
    BY <1>0, <1>4, <2>1, LenProperties
  <2>3. d[i + 1] \in S
    BY <2>2, ElementOfSeq
  <2>4. CASE d[i + 1] \in ToSet(e)
    <3>1. out[i + 1] = s
      BY <1>2, <1>4, <2>4 DEF s
    <3>2. PICK k \in 1..Len(e) : e[k] = d[i + 1]
      BY <1>0, <2>4 DEF ToSet
    <3>3. k \in 1..Len(s) /\ s[k] = d[i + 1]
      BY <1>0, <2>1, <2>2, <3>2
    <3>4. \A j \in 1..(i + 1) : \E m \in 1..Len(s) : s[m] = d[j]
      <4>1. TAKE j \in 1..(i + 1)
      <4>2. j \in 1..i \/ j = i + 1
        BY <1>0, <1>4
      <4> QED
        BY <2>1, <3>3, <4>2
    <3>5. Good(s, i + 1)
      BY <2>1, <3>4
    <3> HIDE DEF Good
    <3> QED
      BY <2>2, <3>1, <3>5
  <2>5. CASE d[i + 1] \notin ToSet(e)
    <3> DEFINE t == Append(s, d[i + 1])
    <3>1. out[i + 1] = t
      BY <1>2, <1>4, <2>5 DEF s
    <3>2. /\ t \in Seq(S) /\ Len(t) = Len(s) + 1
          /\ \A k \in 1..Len(s) : t[k] = s[k]
          /\ t[Len(s) + 1] = d[i + 1]
      BY <2>1, <2>3, AppendProperties
    <3> HIDE DEF t
    <3>3. /\ Len(e) <= Len(t)
          /\ \A k \in 1..Len(e) : k \in 1..Len(s)
          /\ \A k \in 1..Len(s) : k \in 1..Len(t)
          /\ Len(s) + 1 \in 1..Len(t)
      BY <1>0, <2>1, <2>2, <3>2
    <3>4. \A k \in 1..Len(e) : t[k] = e[k]
      BY <2>1, <3>2, <3>3
    <3>5. \A j \in 1..(i + 1) : \E m \in 1..Len(t) : t[m] = d[j]
      <4>1. TAKE j \in 1..(i + 1)
      <4>2. CASE j \in 1..i
        <5>1. PICK m \in 1..Len(s) : s[m] = d[j]
          BY <2>1, <4>2
        <5> QED
          BY <3>2, <3>3, <5>1
      <4>3. CASE j = i + 1
        BY <3>2, <3>3, <4>3
      <4> QED
        BY <1>0, <1>4, <4>2, <4>3
    <3>6. Good(t, i + 1)
      BY <3>2, <3>3, <3>4, <3>5
    <3> HIDE DEF Good
    <3> QED
      BY <2>2, <3>1, <3>6
  <2> QED
    BY <2>4, <2>5
<1>5. \A i \in 0..N : i \in G
  <2> HIDE DEF G, N
  <2> QED
    BY <1>0, <1>3, <1>4, UpTo
<1> QED
  BY <1>5

\* A list that has all of desired already is left as it is.
LEMMA LoopIdle ==
  ASSUME NEW S, NEW e \in Seq(S), NEW d \in Seq(S), NEW out, Loop(out, e, d),
         \A j \in 1..Len(d) : d[j] \in ToSet(e)
  PROVE  out[Len(d)] = e
<1> DEFINE N == Len(d)
           G == {i \in 0..N : out[i] = e}
<1>0. N \in Nat
  BY LenProperties
<1>1. 0 \in G
  BY <1>0 DEF Loop
<1>2. ASSUME NEW i \in 0..N, i \in G, i < N PROVE i + 1 \in G
  <2>1. i + 1 \in 0..N /\ i + 1 \in 1..N /\ i + 1 # 0 /\ (i + 1) - 1 = i
    BY <1>0, <1>2
  <2>2. out[i + 1] = IF i + 1 = 0 THEN e
                     ELSE IF d[i + 1] \in ToSet(e) THEN out[(i + 1) - 1]
                     ELSE Append(out[(i + 1) - 1], d[i + 1])
    BY <2>1 DEF Loop
  <2>3. d[i + 1] \in ToSet(e)
    BY <2>1
  <2> QED
    BY <1>2, <2>1, <2>2, <2>3
<1>3. \A i \in 0..N : i \in G
  <2> HIDE DEF G, N
  <2> QED
    BY <1>0, <1>1, <1>2, UpTo
<1> QED
  BY <1>0, <1>3

\* mergeTolerations is the end of the loop.
LEMMA MergeIsLoop ==
  ASSUME NEW S, NEW e \in Seq(S), NEW d \in Seq(S)
  PROVE  \E out : Loop(out, e, d) /\ mergeTolerations(e, d) = out[Len(d)]
<1> DEFINE F == CHOOSE out : Loop(out, e, d)
<1>1. Loop(F, e, d)
  BY LoopExists, Zenon
<1>2. mergeTolerations(e, d) = F[Len(d)]
  BY DEF mergeTolerations, Loop
<1> QED
  BY <1>1, <1>2

\* The merged list has both lists, and the existing one as it was.
LEMMA MergeHasBoth ==
  ASSUME NEW S, NEW e \in Seq(S), NEW d \in Seq(S)
  PROVE  /\ mergeTolerations(e, d) \in Seq(S)
         /\ ToSet(e) \subseteq ToSet(mergeTolerations(e, d))
         /\ \A j \in 1..Len(d) : d[j] \in ToSet(mergeTolerations(e, d))
<1>0. Len(d) \in Nat /\ Len(e) \in Nat /\ DOMAIN e = 1..Len(e)
  BY LenProperties
<1>1. PICK out : Loop(out, e, d) /\ mergeTolerations(e, d) = out[Len(d)]
  BY MergeIsLoop
<1> DEFINE m == out[Len(d)]
<1>2. Len(d) \in 0..Len(d)
  BY <1>0
<1>3. /\ m \in Seq(S) /\ Len(e) <= Len(m)
      /\ \A k \in 1..Len(e) : m[k] = e[k]
      /\ \A j \in 1..Len(d) : \E k \in 1..Len(m) : m[k] = d[j]
  BY <1>1, <1>2, LoopKeeps
<1> HIDE DEF m
<1>4. DOMAIN m = 1..Len(m) /\ Len(m) \in Nat
  BY <1>3, LenProperties
<1>5. ToSet(e) \subseteq ToSet(m)
  <2>1. \A k \in DOMAIN e : k \in DOMAIN m /\ m[k] = e[k]
    BY <1>0, <1>3, <1>4
  <2> QED
    BY <2>1, Zenon DEF ToSet
<1>6. \A j \in 1..Len(d) : d[j] \in ToSet(m)
  BY <1>3, <1>4, Zenon DEF ToSet
<1> QED
  BY <1>1, <1>3, <1>5, <1>6 DEF m

\* Merging a second time adds nothing.
LEMMA MergeSettles ==
  ASSUME NEW S, NEW e \in Seq(S), NEW d \in Seq(S)
  PROVE  mergeTolerations(mergeTolerations(e, d), d) = mergeTolerations(e, d)
<1> DEFINE m == mergeTolerations(e, d)
<1>1. m \in Seq(S) /\ \A j \in 1..Len(d) : d[j] \in ToSet(m)
  BY MergeHasBoth
<1> HIDE DEF m
<1>2. PICK out : Loop(out, m, d) /\ mergeTolerations(m, d) = out[Len(d)]
  BY <1>1, MergeIsLoop
<1>3. out[Len(d)] = m
  BY <1>1, <1>2, LoopIdle
<1> QED
  BY <1>2, <1>3 DEF m
-----------------------------------------------------------------------------
(***************************************************************************)
(* overlayContainerImages                                                  *)
(***************************************************************************)

\* The image of the container of a name, if there is one.
ImageOf(name, desired) == (CHOOSE c \in ToSet(desired) : c.name = name).image

\* The overlay changes images only, and a second one nothing.
LEMMA OverlaySettles ==
  ASSUME NEW e \in Containers, NEW d \in Containers
  PROVE  /\ overlayContainerImages(e, d) \in Containers
         /\ SameButImages(e, overlayContainerImages(e, d))
         /\ overlayContainerImages(overlayContainerImages(e, d), d) = overlayContainerImages(e, d)
<1> DEFINE C == [name : STRING, image : STRING, spec : STRING]
           o == overlayContainerImages(e, d)
           Named(n) == \E j \in DOMAIN d : d[j].name = n
<1>0. /\ e \in Seq(C) /\ d \in Seq(C) /\ Len(e) \in Nat
      /\ DOMAIN e = 1..Len(e) /\ DOMAIN d = 1..Len(d)
  BY LenProperties DEF Containers
<1>1. \A i \in DOMAIN e : e[i] \in C
  BY <1>0, ElementOfSeq
<1>2. \A j \in DOMAIN d : d[j] \in C
  BY <1>0, ElementOfSeq
<1>3. ASSUME NEW n, Named(n) PROVE ImageOf(n, d) \in STRING
  <2>1. \E c \in ToSet(d) : c.name = n
    BY <1>3, Zenon DEF ToSet
  <2>2. (CHOOSE c \in ToSet(d) : c.name = n) \in ToSet(d)
    BY <2>1
  <2>3. \A c \in ToSet(d) : c \in C
    BY <1>2, Zenon DEF ToSet
  <2> QED
    BY <2>2, <2>3 DEF ImageOf
<1>4. o = [i \in DOMAIN e |-> IF Named(e[i].name)
                              THEN [e[i] EXCEPT !.image = ImageOf(e[i].name, d)] ELSE e[i]]
  BY DEF overlayContainerImages, ImageOf
<1>5. \A i \in DOMAIN e :
        /\ o[i] \in C /\ o[i].name = e[i].name /\ o[i].spec = e[i].spec
        /\ Named(e[i].name) => o[i].image = ImageOf(e[i].name, d)
  <2>1. TAKE i \in DOMAIN e
  <2>2. o[i] = IF Named(e[i].name) THEN [e[i] EXCEPT !.image = ImageOf(e[i].name, d)] ELSE e[i]
    BY <1>4
  <2>3. CASE Named(e[i].name)
    <3> DEFINE v == ImageOf(e[i].name, d)
    <3>1. v \in STRING
      BY <1>3, <2>3
    <3>2. o[i] = [e[i] EXCEPT !.image = v] /\ e[i] \in C
      BY <1>1, <2>2, <2>3
    <3> HIDE DEF v, o, Named
    <3> QED
      BY <3>1, <3>2 DEF v
  <2>4. CASE ~Named(e[i].name)
    BY <1>1, <2>2, <2>4
  <2> QED
    BY <2>3, <2>4
<1>6. o \in Seq(C) /\ DOMAIN o = DOMAIN e /\ Len(o) = Len(e)
  <2>1. DOMAIN o = 1..Len(e) /\ o = [i \in 1..Len(e) |-> o[i]]
    BY <1>0, <1>4
  <2>2. \A i \in 1..Len(e) : o[i] \in C
    BY <1>0, <1>5
  <2> HIDE DEF o, C
  <2> QED
    BY <1>0, <2>1, <2>2
<1>7. SameButImages(e, o)
  BY <1>5, <1>6 DEF SameButImages
<1>8. overlayContainerImages(o, d) = o
  <2>1. overlayContainerImages(o, d)
        = [i \in DOMAIN o |-> IF Named(o[i].name)
                              THEN [o[i] EXCEPT !.image = ImageOf(o[i].name, d)] ELSE o[i]]
    BY DEF overlayContainerImages, ImageOf
  <2>2. \A i \in DOMAIN o :
          (IF Named(o[i].name) THEN [o[i] EXCEPT !.image = ImageOf(o[i].name, d)] ELSE o[i]) = o[i]
    <3>1. TAKE i \in DOMAIN o
    <3>2. CASE Named(o[i].name)
      <4>1. o[i] \in C /\ o[i].image = ImageOf(o[i].name, d)
        BY <1>5, <1>6, <3>2
      <4> HIDE DEF o, Named
      <4> QED
        BY <4>1, <3>2
    <3> QED
      BY <3>2
  <2>3. o = [i \in DOMAIN o |-> o[i]]
    BY <1>4
  <2> HIDE DEF o, Named
  <2> QED
    BY <2>1, <2>2, <2>3
<1> QED
  BY <1>6, <1>7, <1>8 DEF Containers

-----------------------------------------------------------------------------
(***************************************************************************)
(* The theorems                                                            *)
(***************************************************************************)

PodTypeOK == tenant \in PodSpecs /\ host \in PodSpecs

\* What adoptPodImmutableFields makes of two Pods, whatever they are.
LEMMA AdoptionIsSound ==
  ASSUME NEW e \in PodSpecs, NEW d \in PodSpecs
  PROVE  /\ adoptPodImmutableFields(e, d) \in PodSpecs
         /\ LegalButDeadline(e, adoptPodImmutableFields(e, d))
         /\ adoptPodImmutableFields(adoptPodImmutableFields(e, d), d) = adoptPodImmutableFields(e, d)
<1> DEFINE c == overlayContainerImages(e.containers, d.containers)
           i == overlayContainerImages(e.initContainers, d.initContainers)
           l == IF d.deadline # 0 THEN d.deadline ELSE e.deadline
           t == mergeTolerations(e.tolerations, d.tolerations)
           a == adoptPodImmutableFields(e, d)
<1>1. /\ e.containers \in Containers /\ e.initContainers \in Containers
      /\ d.containers \in Containers /\ d.initContainers \in Containers
      /\ e.tolerations \in Seq(STRING) /\ d.tolerations \in Seq(STRING)
      /\ e.deadline \in Nat /\ d.deadline \in Nat /\ e.node \in {"", "node"}
  BY DEF PodSpecs
<1>2. /\ c \in Containers /\ SameButImages(e.containers, c)
      /\ overlayContainerImages(c, d.containers) = c
  BY <1>1, OverlaySettles
<1>3. /\ i \in Containers /\ SameButImages(e.initContainers, i)
      /\ overlayContainerImages(i, d.initContainers) = i
  BY <1>1, OverlaySettles
<1>4. /\ t \in Seq(STRING) /\ ToSet(e.tolerations) \subseteq ToSet(t)
      /\ mergeTolerations(t, d.tolerations) = t
  BY <1>1, MergeHasBoth, MergeSettles
<1>5. l \in Nat /\ (IF d.deadline # 0 THEN d.deadline ELSE l) = l
  BY <1>1
<1>6. a = [e EXCEPT !.containers = c, !.initContainers = i, !.deadline = l, !.tolerations = t]
  BY DEF adoptPodImmutableFields
<1>7. adoptPodImmutableFields(a, d)
      = [a EXCEPT !.containers = overlayContainerImages(a.containers, d.containers),
                  !.initContainers = overlayContainerImages(a.initContainers, d.initContainers),
                  !.deadline = IF d.deadline # 0 THEN d.deadline ELSE a.deadline,
                  !.tolerations = mergeTolerations(a.tolerations, d.tolerations)]
  BY DEF adoptPodImmutableFields
<1> HIDE DEF c, i, l, t, a
<1>8. /\ a \in PodSpecs /\ a.node = e.node
      /\ a.containers = c /\ a.initContainers = i /\ a.deadline = l /\ a.tolerations = t
  BY <1>2, <1>3, <1>4, <1>5, <1>6 DEF PodSpecs
<1>9. LegalButDeadline(e, a)
  BY <1>2, <1>3, <1>4, <1>8 DEF LegalButDeadline
<1>10. adoptPodImmutableFields(a, d) = a
  <2>1. adoptPodImmutableFields(a, d)
        = [a EXCEPT !.containers = c, !.initContainers = i, !.deadline = l, !.tolerations = t]
    BY <1>2, <1>3, <1>4, <1>5, <1>7, <1>8
  <2> QED
    BY <1>8, <2>1 DEF PodSpecs
<1> QED
  BY <1>8, <1>9, <1>10 DEF a

\* The host's Pod stays a Pod.
LEMMA PodTypeAlways == Spec => []PodTypeOK
<1>1. Init => PodTypeOK
  <2>1. NoPod \in PodSpecs
    <3>1. <<>> \in Containers /\ <<>> \in Seq(STRING)
      BY EmptySeq DEF Containers
    <3> QED
      BY <3>1 DEF NoPod, Pod, PodSpecs
  <2> QED
    BY <2>1, PodAssumption DEF Init, PodTypeOK
<1>2. PodTypeOK /\ [Next]_vars => PodTypeOK'
  <2> SUFFICES ASSUME PodTypeOK, [Next]_vars PROVE PodTypeOK'
    OBVIOUS
  <2>1. CASE Push
    <3>1. tenant' \in PodSpecs
      BY <2>1 DEF Push, PodTypeOK
    <3>2. [tenant EXCEPT !.tolerations = Append(@, HostDefault)] \in PodSpecs
      <4>1. tenant \in PodSpecs /\ tenant.tolerations \in Seq(STRING)
        BY DEF PodTypeOK, PodSpecs
      <4>2. Append(tenant.tolerations, HostDefault) \in Seq(STRING)
        BY <4>1, PodAssumption, AppendProperties
      <4> QED
        BY <4>1, <4>2 DEF PodSpecs
    <3>3. adoptPodImmutableFields(host, tenant) \in PodSpecs
      BY AdoptionIsSound DEF PodTypeOK
    <3> QED
      BY <2>1, <3>1, <3>2, <3>3 DEF Push, PodTypeOK
  <2>2. CASE Schedule
    BY <2>2 DEF Schedule, PodTypeOK, PodSpecs
  <2>3. CASE \E p \in Pods : UpdatePod(p) \/ RecreatePod(p)
    BY <2>3, PodAssumption DEF UpdatePod, RecreatePod, Op, PodTypeOK
  <2>4. CASE UNCHANGED vars
    BY <2>4 DEF vars, PodTypeOK
  <2> QED
    BY <2>1, <2>2, <2>3, <2>4 DEF Next
<1> QED
  BY <1>1, <1>2, PTL DEF Spec

\* Whatever containers, images and tolerations the tenant's Pod has and has had, the
\* update adoptPodImmutableFields makes of the host's Pod changes no field the host
\* forbids to change; the deadline is the exception (podadoption_deadline.cfg).
THEOREM FixedFieldsAreKept == Spec => []UpdateKeepsFixedFields
<1>1. PodTypeOK => UpdateKeepsFixedFields
  BY AdoptionIsSound DEF PodTypeOK, UpdateKeepsFixedFields, Updated
<1> QED
  BY <1>1, PodTypeAlways, PTL

\* A pass over a Pod that a pass has just updated finds nothing to add: merging the
\* tolerations and overlaying the images are idempotent.
THEOREM UpdatesSettle == Spec => []UpdateSettles
<1>1. PodTypeOK => UpdateSettles
  BY AdoptionIsSound DEF PodTypeOK, UpdateSettles, Updated
<1> QED
  BY <1>1, PodTypeAlways, PTL
=============================================================================
