-------------------------- MODULE DecisionLogProofs --------------------------
(***************************************************************************)
(* Proofs about DecisionLog, for any number of resources, any values of    *)
(* explain.retain and any bounds, whether the informer lags or not.        *)
(***************************************************************************)
EXTENDS DecisionLog, SequenceTheorems, TLAPS

-----------------------------------------------------------------------------
(***************************************************************************)
(* The window recordSyncDecisions keeps                                    *)
(***************************************************************************)

\* What IsSuffix of SequencesExt means, entry by entry.
LEMMA SuffixByEntries ==
  ASSUME NEW S, NEW s \in Seq(S), NEW t \in Seq(S), Len(t) <= Len(s),
         \A i \in 1..Len(t) : t[i] = s[Len(s) - Len(t) + i]
  PROVE  IsSuffix(t, s)
<1> DEFINE m == Len(t)
           n == Len(s)
           rt == Reverse(t)
           rs == Reverse(s)
<1>0. m \in Nat /\ n \in Nat /\ t \in [1..m -> S] /\ s \in [1..n -> S]
  BY LenProperties
<1>1. rt \in Seq(S) /\ Len(rt) = m /\ \A i \in 1..m : rt[i] = t[(m - i) + 1]
  BY <1>0 DEF Reverse
<1>2. rs \in Seq(S) /\ Len(rs) = n /\ \A i \in 1..n : rs[i] = s[(n - i) + 1]
  BY <1>0 DEF Reverse
<1>3. \A i \in 1..m : rt[i] = rs[i]
  <2>1. TAKE i \in 1..m
  <2>2. (m - i) + 1 \in 1..m /\ n - m + ((m - i) + 1) = (n - i) + 1 /\ i \in 1..n
    BY <1>0
  <2> QED
    BY <1>1, <1>2, <2>2
<1>4. \A i \in 1..m : rt[i] \in S /\ rs[i] \in S
  BY <1>0, <1>1, <1>2, <1>3, ElementOfSeq
<1>5. /\ SubSeq(rt, 1, m) \in Seq(S) /\ Len(SubSeq(rt, 1, m)) = m
      /\ \A i \in 1..m : SubSeq(rt, 1, m)[i] = rt[i]
  BY <1>0, <1>4, SubSeqProperties
<1>6. /\ SubSeq(rs, 1, m) \in Seq(S) /\ Len(SubSeq(rs, 1, m)) = m
      /\ \A i \in 1..m : SubSeq(rs, 1, m)[i] = rs[i]
  BY <1>0, <1>4, SubSeqProperties
<1>7. SubSeq(rt, 1, m) = SubSeq(rs, 1, m)
  BY <1>3, <1>5, <1>6, SeqEqual
<1> QED
  BY <1>0, <1>1, <1>2, <1>7 DEF IsSuffix, IsPrefix

\* Trimmed keeps the last entries, as many as n allows.
LEMMA TrimmedIsWindow ==
  ASSUME NEW S, NEW s \in Seq(S), NEW n \in Nat
  PROVE  /\ Trimmed(s, n) \in Seq(S)
         /\ Len(Trimmed(s, n)) = IF Len(s) < n THEN Len(s) ELSE n
         /\ \A i \in 1..Len(Trimmed(s, n)) :
               Trimmed(s, n)[i] = s[Len(s) - Len(Trimmed(s, n)) + i]
<1>0. Len(s) \in Nat /\ s \in [1..Len(s) -> S]
  BY LenProperties
<1>1. CASE Len(s) > n
  <2> DEFINE t == SubSeq(s, Len(s) - n + 1, Len(s))
  <2>1. \A i \in Len(s) - n + 1 .. Len(s) : s[i] \in S
    BY <1>0, <1>1
  <2>2. /\ t \in Seq(S)
        /\ Len(t) = IF Len(s) - n + 1 <= Len(s) THEN Len(s) - (Len(s) - n + 1) + 1 ELSE 0
        /\ \A i \in 1 .. Len(s) - (Len(s) - n + 1) + 1 : t[i] = s[Len(s) - n + 1 + i - 1]
    BY <1>0, <2>1, SubSeqProperties
  <2>3. Len(t) = n /\ \A i \in 1..n : t[i] = s[Len(s) - n + i]
    BY <1>0, <2>2
  <2>4. Trimmed(s, n) = t
    BY <1>0, <1>1 DEF Trimmed
  <2>5. Len(t) = (IF Len(s) < n THEN Len(s) ELSE n)
    BY <1>0, <1>1, <2>3
  <2>6. \A i \in 1..Len(t) : t[i] = s[Len(s) - Len(t) + i]
    BY <2>3
  <2> QED
    BY <2>2, <2>4, <2>5, <2>6, Zenon
<1>2. CASE ~(Len(s) > n)
  <2>1. Trimmed(s, n) = s
    BY <1>2 DEF Trimmed
  <2>2. Len(s) = (IF Len(s) < n THEN Len(s) ELSE n)
    <3>1. CASE Len(s) < n
      BY <3>1
    <3>2. CASE Len(s) = n
      BY <3>2
    <3>3. Len(s) < n \/ Len(s) = n
      <4>1. \A k \in Nat : ~(k > n) => k < n \/ k = n
        OBVIOUS
      <4> QED
        BY <1>0, <1>2, <4>1, Zenon
    <3> QED
      BY <3>1, <3>2, <3>3, Zenon
  <2>3. \A i \in 1..Len(s) : s[i] = s[Len(s) - Len(s) + i]
    <3>1. \A i \in 1..Len(s) : Len(s) - Len(s) + i = i
      BY <1>0
    <3> QED
      BY <3>1, Zenon
  <2> QED
    BY <2>1, <2>2, <2>3, Zenon
<1> QED
  BY <1>1, <1>2

\* The window is a suffix.
LEMMA TrimmedIsSuffix ==
  ASSUME NEW S, NEW s \in Seq(S), NEW n \in Nat
  PROVE  IsSuffix(Trimmed(s, n), s)
<1>1. Len(s) \in Nat
  BY LenProperties
<1> QED
  BY <1>1, TrimmedIsWindow, SuffixByEntries

\* An ascending log stays so when its oldest entries are evicted.
LEMMA TrimmedAscends ==
  ASSUME NEW s \in Seq(Nat), NEW n \in Nat, Ascending(s)
  PROVE  Ascending(Trimmed(s, n))
<1> DEFINE t == Trimmed(s, n)
<1>1. Len(s) \in Nat /\ DOMAIN s = 1..Len(s)
  BY LenProperties
<1>2. /\ t \in Seq(Nat) /\ Len(t) = IF Len(s) < n THEN Len(s) ELSE n
      /\ \A i \in 1..Len(t) : t[i] = s[Len(s) - Len(t) + i]
  BY TrimmedIsWindow
<1>3. DOMAIN t = 1..Len(t)
  BY <1>2, LenProperties
<1> HIDE DEF t
<1>4. SUFFICES ASSUME NEW i \in 1..Len(t), NEW j \in 1..Len(t), i < j
               PROVE  t[i] < t[j]
  BY <1>3 DEF Ascending, t
<1>5. /\ Len(s) - Len(t) + i \in DOMAIN s /\ Len(s) - Len(t) + j \in DOMAIN s
      /\ Len(s) - Len(t) + i < Len(s) - Len(t) + j
  <2>1. Len(t) \in Nat /\ Len(t) <= Len(s)
    BY <1>1, <1>2
  <2>2. i \in Int /\ j \in Int /\ 1 <= i /\ i <= Len(t) /\ 1 <= j /\ j <= Len(t)
    BY <2>1
  <2>3. Len(s) - Len(t) + i \in 1..Len(s) /\ Len(s) - Len(t) + j \in 1..Len(s)
    BY <1>1, <2>1, <2>2
  <2> QED
    BY <1>1, <1>4, <2>1, <2>2, <2>3
<1> QED
  BY <1>2, <1>4, <1>5 DEF Ascending

\* The next decision is the newest.
LEMMA AppendAscends ==
  ASSUME NEW m \in Nat, NEW s \in Seq(1..m), NEW b \in Seq(1..m), Ascending(s \o b)
  PROVE  Ascending(s \o Append(b, m + 1))
<1> DEFINE a == s \o b
           z == s \o Append(b, m + 1)
<1>1. s \in Seq(1..(m + 1)) /\ b \in Seq(1..(m + 1)) /\ m + 1 \in 1..(m + 1)
  <2>1. 1..m \subseteq 1..(m + 1)
    OBVIOUS
  <2> QED
    BY <2>1, SeqMonotonic
<1>2. /\ Append(b, m + 1) \in Seq(1..(m + 1)) /\ Len(Append(b, m + 1)) = Len(b) + 1
      /\ \A i \in 1..Len(b) : Append(b, m + 1)[i] = b[i]
      /\ Append(b, m + 1)[Len(b) + 1] = m + 1
  BY <1>1, AppendProperties
<1>3. Len(s) \in Nat /\ Len(b) \in Nat
  BY LenProperties
<1>4. /\ a \in Seq(1..m) /\ Len(a) = Len(s) + Len(b)
      /\ \A i \in 1..Len(s) + Len(b) : a[i] = IF i <= Len(s) THEN s[i] ELSE b[i - Len(s)]
  BY ConcatProperties
<1>5. /\ z \in Seq(1..(m + 1)) /\ Len(z) = Len(s) + (Len(b) + 1)
      /\ \A i \in 1..Len(s) + (Len(b) + 1) :
           z[i] = IF i <= Len(s) THEN s[i] ELSE Append(b, m + 1)[i - Len(s)]
  BY <1>1, <1>2, ConcatProperties
<1>6. DOMAIN a = 1..Len(a) /\ DOMAIN z = 1..Len(z) /\ \A i \in 1..Len(a) : a[i] \in 1..m
  BY <1>4, <1>5, LenProperties, ElementOfSeq
<1>7. \A i \in 1..Len(a) : z[i] = a[i]
  BY <1>2, <1>3, <1>4, <1>5
<1>8. z[Len(a) + 1] = m + 1 /\ Len(z) = Len(a) + 1
  BY <1>2, <1>3, <1>4, <1>5
<1>9. Ascending(a) /\ Len(a) \in Nat
  BY <1>3, <1>4
<1> HIDE DEF a, z
<1>10. Ascending(z)
  <2>1. SUFFICES ASSUME NEW i \in 1..Len(z), NEW j \in 1..Len(z), i < j
                 PROVE  z[i] < z[j]
    BY <1>6 DEF Ascending
  <2>2. i \in 1..Len(a)
    BY <1>8, <1>9, <2>1
  <2>3. CASE j \in 1..Len(a)
    BY <1>6, <1>7, <1>9, <2>1, <2>2, <2>3 DEF Ascending
  <2>4. CASE j = Len(a) + 1
    BY <1>6, <1>7, <1>8, <2>2, <2>4
  <2>5. j \in 1..Len(a) \/ j = Len(a) + 1
    BY <1>8, <1>9
  <2> QED
    BY <2>3, <2>4, <2>5
<1> QED
  BY <1>10 DEF z

\* The decisions of a pass that are not stored leave the log in order.
LEMMA DropAscends ==
  ASSUME NEW s \in Seq(Nat), NEW b \in Seq(Nat), Ascending(s \o b)
  PROVE  Ascending(s \o <<>>)
<1>1. s \o <<>> = s
  BY ConcatEmptySeq
<1>2. DOMAIN s = 1..Len(s) /\ Len(s) \in Nat /\ Len(b) \in Nat
  BY LenProperties
<1>3. /\ s \o b \in Seq(Nat) /\ Len(s \o b) = Len(s) + Len(b)
      /\ \A i \in 1..Len(s) + Len(b) : (s \o b)[i] = IF i <= Len(s) THEN s[i] ELSE b[i - Len(s)]
  BY ConcatProperties
<1>4. DOMAIN (s \o b) = 1..Len(s) + Len(b)
  BY <1>3, LenProperties
<1>5. \A i \in 1..Len(s) : i \in DOMAIN (s \o b) /\ (s \o b)[i] = s[i]
  BY <1>2, <1>3, <1>4
<1>6. \A i, j \in DOMAIN s : i < j => s[i] < s[j]
  BY <1>2, <1>5 DEF Ascending
<1> QED
  BY <1>1, <1>6 DEF Ascending

-----------------------------------------------------------------------------
(***************************************************************************)
(* The invariant: what the worker holds is newer than what is stored, and  *)
(* was published if the policy it works from records at all.               *)
(***************************************************************************)

Held ==
  /\ pc \in {"idle", "pass", "store", "write"}
  /\ pc = "idle" => batch = <<>>
  /\ pc # "idle" => res >= 1
  /\ pc \in {"store", "write"} => copy.record
  /\ copy.record => ToSet(batch) \subseteq events

LogInv == made \in Nat /\ TypeOK /\ LogIsHistory /\ Held

\* ToSet of SequencesExt, entry by entry.
LEMMA ToSetByEntries ==
  ASSUME NEW S, NEW E, NEW s \in Seq(S)
  PROVE  ToSet(s) \subseteq E <=> \A i \in 1..Len(s) : s[i] \in E
<1>1. DOMAIN s = 1..Len(s)
  BY LenProperties
<1> QED
  BY <1>1, Zenon DEF ToSet

\* The end of the pass over a resource: nothing is held any more.
LEMMA NextResourceHolds ==
  ASSUME LogInv, NextResource, pc # "idle",
         UNCHANGED <<policy, seen, events, made>>,
         stored'.entries \in Seq(1..made), ~stored'.there => stored'.entries = <<>>,
         Ascending(stored'.entries), ToSet(stored'.entries) \subseteq events
  PROVE  LogInv'
<1>1. batch' = <<>> /\ base' = NoObject /\ copy' = copy
  BY DEF NextResource
<1>2. <<>> \in Seq(1..made) /\ Len(<<>>) = 0
  BY EmptySeq
<1>3. TypeOK'
  <2>1. res' \in 0..Resources
    BY DecisionLogAssumption DEF NextResource, LogInv, TypeOK
  <2>2. policy' \in Policies /\ copy' \in Policies /\ events' \subseteq 1..made' /\ batch' \in Seq(1..made')
    BY <1>1, <1>2 DEF LogInv, TypeOK
  <2>3. \A o \in {stored', seen', base'} : o.entries \in Seq(1..made') /\ (~o.there => o.entries = <<>>)
    <3>1. base'.entries = <<>>
      BY <1>1 DEF NoObject, SyncDecision
    <3>2. seen.entries \in Seq(1..made) /\ (~seen.there => seen.entries = <<>>)
      BY DEF LogInv, TypeOK
    <3> QED
      BY <1>2, <3>1, <3>2
  <2> QED
    BY <2>1, <2>2, <2>3 DEF TypeOK
<1>4. LogIsHistory'
  <2>1. stored'.entries \o <<>> = stored'.entries
    BY ConcatEmptySeq
  <2> QED
    BY <1>1, <2>1 DEF LogIsHistory
<1>5. Held'
  <2>1. ToSet(batch') \subseteq events'
    <3>1. \A i \in 1..Len(<<>>) : (<<>>)[i] \in events
      BY <1>2
    <3>2. ToSet(<<>>) \subseteq events
      BY <1>2, <3>1, ToSetByEntries, Zenon
    <3> QED
      BY <1>1, <3>2
  <2>2. pc' \in {"idle", "pass"} /\ (pc' # "idle" => res' >= 1)
    BY DecisionLogAssumption DEF NextResource, LogInv, TypeOK
  <2> QED
    BY <1>1, <2>1, <2>2 DEF Held
<1> QED
  BY <1>3, <1>4, <1>5 DEF LogInv

\* The log itself, without what the worker holds.
LEMMA StoredInOrder ==
  ASSUME LogInv
  PROVE  /\ stored.entries \in Seq(1..made) /\ stored.entries \in Seq(Nat)
         /\ batch \in Seq(1..made) /\ batch \in Seq(Nat)
         /\ Ascending(stored.entries)
<1>1. stored.entries \in Seq(1..made) /\ batch \in Seq(1..made) /\ 1..made \subseteq Nat
  BY DEF LogInv, TypeOK
<1>2. stored.entries \in Seq(Nat) /\ batch \in Seq(Nat)
  BY <1>1, SeqMonotonic
<1>3. Ascending(stored.entries \o <<>>) /\ stored.entries \o <<>> = stored.entries
  BY <1>2, DropAscends, ConcatEmptySeq DEF LogInv, LogIsHistory
<1> QED
  BY <1>1, <1>2, <1>3

\* A write from the stored object: the new log is the window over old and new.
LEMMA WrittenLog ==
  ASSUME LogInv, copy.record, NEW t, t = Trimmed(stored.entries \o batch, copy.retain)
  PROVE  /\ t \in Seq(1..made) /\ Ascending(t) /\ ToSet(t) \subseteq events
         /\ IsSuffix(t, stored.entries \o batch)
         /\ Len(t) = IF Len(stored.entries \o batch) < copy.retain
                     THEN Len(stored.entries \o batch) ELSE copy.retain
<1> DEFINE s == stored.entries
           all == stored.entries \o batch
<1>1. copy.retain \in Nat
  BY DecisionLogAssumption DEF LogInv, TypeOK, Policies
<1>2. /\ s \in Seq(1..made) /\ batch \in Seq(1..made)
      /\ s \in Seq(Nat) /\ batch \in Seq(Nat)
  BY StoredInOrder
<1>3. /\ all \in Seq(1..made) /\ Len(all) = Len(s) + Len(batch) /\ all \in Seq(Nat)
      /\ \A i \in 1..Len(s) + Len(batch) : all[i] = IF i <= Len(s) THEN s[i] ELSE batch[i - Len(s)]
  BY <1>2, ConcatProperties
<1>4. Len(s) \in Nat /\ Len(batch) \in Nat
  BY <1>2, LenProperties
<1>5. \A i \in 1..Len(all) : all[i] \in events
  <2>1. \A i \in 1..Len(s) : s[i] \in events
    BY <1>2, ToSetByEntries DEF LogInv, LogIsHistory
  <2>2. \A i \in 1..Len(batch) : batch[i] \in events
    BY <1>2, ToSetByEntries DEF LogInv, Held
  <2> HIDE DEF s, all
  <2>3. TAKE i \in 1..Len(all)
  <2>4. CASE i <= Len(s)
    <3>1. i \in 1..Len(s) /\ all[i] = s[i]
      BY <1>3, <1>4, <2>4
    <3> QED
      BY <2>1, <3>1
  <2>5. CASE ~(i <= Len(s))
    <3>1. i - Len(s) \in 1..Len(batch) /\ all[i] = batch[i - Len(s)]
      BY <1>3, <1>4, <2>5
    <3> QED
      BY <2>2, <3>1
  <2> QED
    BY <2>4, <2>5
<1>6. Ascending(all)
  BY DEF LogInv, LogIsHistory
<1> HIDE DEF s, all
<1>7. t = Trimmed(all, copy.retain)
  BY DEF all
<1>8. /\ t \in Seq(1..made)
      /\ Len(t) = IF Len(all) < copy.retain THEN Len(all) ELSE copy.retain
      /\ \A i \in 1..Len(t) : t[i] = all[Len(all) - Len(t) + i]
  <2> DEFINE u == Trimmed(all, copy.retain)
  <2>1. all \in Seq(1..made)
    BY <1>3
  <2>2. /\ u \in Seq(1..made)
        /\ Len(u) = IF Len(all) < copy.retain THEN Len(all) ELSE copy.retain
        /\ \A i \in 1..Len(u) : u[i] = all[Len(all) - Len(u) + i]
    BY <1>1, <2>1, TrimmedIsWindow, Zenon
  <2> QED
    BY <1>7, <2>2, Zenon
<1>9. Ascending(t) /\ IsSuffix(t, all)
  BY <1>1, <1>3, <1>6, <1>7, TrimmedAscends, TrimmedIsSuffix
<1>10. \A i \in 1..Len(t) : t[i] \in events
  <2>1. Len(all) \in Nat
    BY <1>3, <1>4
  <2>2. Len(t) \in Nat /\ Len(t) <= Len(all)
    BY <1>1, <1>8, <2>1
  <2>3. \A i \in 1..Len(t) : Len(all) - Len(t) + i \in 1..Len(all)
    BY <2>1, <2>2
  <2> QED
    BY <1>5, <1>8, <2>3
<1>11. ToSet(t) \subseteq events
  <2>1. t \in Seq(1..made)
    BY <1>8
  <2>2. \A u \in Seq(1..made) : ToSet(u) \subseteq events <=> \A i \in 1..Len(u) : u[i] \in events
    BY ToSetByEntries
  <2> QED
    BY <1>10, <2>1, <2>2
<1> QED
  BY <1>8, <1>9, <1>11 DEF all

-----------------------------------------------------------------------------
(***************************************************************************)
(* The invariant holds                                                     *)
(***************************************************************************)

\* Before the first reconcile nothing is stored, held or published.
LEMMA LogInvInit == Init => LogInv
<1>1. <<>> \in Seq(1..0) /\ Len(<<>>) = 0 /\ <<>> \o <<>> = <<>>
  BY EmptySeq, ConcatEmptySeq
<1>2. DOMAIN <<>> = {} /\ ToSet(<<>>) = {} /\ Ascending(<<>>)
  <2>1. DOMAIN <<>> = {}
    BY <1>1, LenProperties
  <2> QED
    BY <2>1, Zenon DEF ToSet, Ascending
<1>3. SUFFICES ASSUME Init PROVE LogInv
  OBVIOUS
<1>4. /\ stored.entries = <<>> /\ seen.entries = <<>> /\ base.entries = <<>>
      /\ made = 0 /\ batch = <<>> /\ pc = "idle" /\ events = {}
  BY <1>3 DEF Init, NoObject, SyncDecision
<1>5. TypeOK
  <2>1. \A o \in {stored, seen, base} : o.entries \in Seq(1..made) /\ (~o.there => o.entries = <<>>)
    BY <1>1, <1>4
  <2> QED
    BY <1>1, <1>3, <1>4, <2>1, DecisionLogAssumption DEF TypeOK, Init
<1>6. LogIsHistory
  BY <1>1, <1>2, <1>4 DEF LogIsHistory
<1>7. Held
  BY <1>2, <1>4 DEF Held
<1> QED
  BY <1>4, <1>5, <1>6, <1>7 DEF LogInv

\* A decision is the newest, and published at once if the policy records.
LEMMA DecideStep == LogInv /\ Decide => LogInv'
<1> SUFFICES ASSUME LogInv, Decide PROVE LogInv'
  OBVIOUS
<1>1. /\ made' = made + 1 /\ batch' = Append(batch, made + 1)
      /\ events' = IF copy.record THEN events \union {made + 1} ELSE events
      /\ UNCHANGED <<policy, stored, seen, pc, copy, res, base>>
      /\ pc = "pass"
  BY DEF Decide, Published
<1>2. made \in Nat /\ 1..made \subseteq 1..(made + 1) /\ made + 1 \in 1..(made + 1)
  BY DEF LogInv
<1>3. \A u \in Seq(1..made) : u \in Seq(1..(made + 1))
  BY <1>2, SeqMonotonic
<1>4. /\ stored.entries \in Seq(1..made) /\ batch \in Seq(1..made)
      /\ seen.entries \in Seq(1..made) /\ base.entries \in Seq(1..made)
      /\ batch \in Seq(1..(made + 1))
  BY <1>3 DEF LogInv, TypeOK
<1>5. /\ Append(batch, made + 1) \in Seq(1..(made + 1))
      /\ Len(Append(batch, made + 1)) = Len(batch) + 1
      /\ \A i \in 1..Len(batch) : Append(batch, made + 1)[i] = batch[i]
      /\ Append(batch, made + 1)[Len(batch) + 1] = made + 1
  BY <1>2, <1>4, AppendProperties
<1>6. TypeOK'
  <2>1. \A o \in {stored, seen, base} : o.entries \in Seq(1..(made + 1)) /\ (~o.there => o.entries = <<>>)
    BY <1>3 DEF LogInv, TypeOK
  <2>2. events' \subseteq 1..(made + 1)
    BY <1>1, <1>2 DEF LogInv, TypeOK
  <2>3. policy \in Policies /\ copy \in Policies /\ res \in 0..Resources
    BY DEF LogInv, TypeOK
  <2> QED
    BY <1>1, <1>5, <2>1, <2>2, <2>3 DEF TypeOK
<1>7. LogIsHistory'
  <2>1. Ascending(stored.entries \o Append(batch, made + 1))
    BY <1>2, <1>4, AppendAscends DEF LogInv, LogIsHistory
  <2>2. ToSet(stored.entries) \subseteq events /\ events \subseteq events'
    BY <1>1 DEF LogInv, LogIsHistory
  <2> QED
    BY <1>1, <2>1, <2>2 DEF LogIsHistory
<1>8. Held'
  <2>1. ASSUME copy.record PROVE ToSet(batch') \subseteq events'
    <3>1. \A i \in 1..Len(batch) : batch[i] \in events
      BY <1>4, <2>1, ToSetByEntries DEF LogInv, Held
    <3>2. Len(batch) \in Nat
      BY <1>4, LenProperties
    <3>3. \A i \in 1..Len(batch) + 1 : Append(batch, made + 1)[i] \in events \union {made + 1}
      <4>1. TAKE i \in 1..Len(batch) + 1
      <4>2. i \in 1..Len(batch) \/ i = Len(batch) + 1
        BY <3>2
      <4> QED
        BY <1>5, <3>1, <4>2
    <3>4. ToSet(Append(batch, made + 1)) \subseteq events \union {made + 1}
      <4> DEFINE E == events \union {made + 1}
                 D == 1..(made + 1)
      <4> HIDE DEF E, D
      <4>1. \A u \in Seq(D) : ToSet(u) \subseteq E <=> \A i \in 1..Len(u) : u[i] \in E
        BY ToSetByEntries
      <4>2. \A i \in 1..Len(Append(batch, made + 1)) : Append(batch, made + 1)[i] \in E
        BY <1>5, <3>3 DEF E
      <4>3. ToSet(Append(batch, made + 1)) \subseteq E
        BY <1>5, <4>1, <4>2 DEF D
      <4> QED
        BY <4>3 DEF E
    <3> QED
      BY <1>1, <2>1, <3>4
  <2> QED
    BY <1>1, <2>1 DEF Held, LogInv
<1> QED
  BY <1>1, <1>2, <1>6, <1>7, <1>8 DEF LogInv

\* Every step keeps the invariant.
LEMMA LogInvStep == LogInv /\ [Next]_vars => LogInv'
<1> SUFFICES ASSUME LogInv, [Next]_vars PROVE LogInv'
  OBVIOUS
<1>0. /\ stored.entries \in Seq(1..made) /\ Ascending(stored.entries)
      /\ (~stored.there => stored.entries = <<>>) /\ ToSet(stored.entries) \subseteq events
  BY StoredInOrder DEF LogInv, TypeOK, LogIsHistory
<1>1. CASE Begin
  <2>1. policy \in Policies /\ 1 \in 0..Resources /\ batch = <<>> /\ ToSet(batch) \subseteq events
    <3>1. <<>> \in Seq(1..made) /\ Len(<<>>) = 0
      BY EmptySeq
    <3>2. \A i \in 1..Len(<<>>) : (<<>>)[i] \in events
      BY <3>1
    <3>3. ToSet(<<>>) \subseteq events
      BY <3>1, <3>2, ToSetByEntries, Zenon
    <3> QED
      BY <1>1, <3>3, DecisionLogAssumption DEF Begin, LogInv, TypeOK, Held
  <2>2. TypeOK'
    BY <1>1, <2>1 DEF Begin, LogInv, TypeOK
  <2>3. LogIsHistory'
    BY <1>1 DEF Begin, LogInv, LogIsHistory
  <2>4. Held'
    BY <1>1, <2>1 DEF Begin, Held
  <2> QED
    BY <1>1, <2>2, <2>3, <2>4 DEF Begin, LogInv
<1>2. CASE Decide
  BY <1>2, DecideStep
<1>3. CASE EndPass
  <2>1. CASE NextResource
    BY <1>0, <1>3, <2>1, NextResourceHolds DEF EndPass
  <2>2. CASE ~Skips /\ pc' = "store" /\ UNCHANGED <<workVars, faults>>
    <3>1. TypeOK'
      BY <1>3, <2>2 DEF EndPass, workVars, LogInv, TypeOK
    <3>2. LogIsHistory'
      BY <1>3, <2>2 DEF EndPass, workVars, LogInv, LogIsHistory
    <3>3. Held'
      BY <1>3, <2>2 DEF EndPass, workVars, Skips, LogInv, Held
    <3> QED
      BY <1>3, <3>1, <3>2, <3>3 DEF EndPass, LogInv
  <2> QED
    BY <1>3, <2>1, <2>2 DEF EndPass
<1>4. CASE OpenStore
  <2>1. CASE Read.there /\ base' = Read /\ pc' = "write" /\ UNCHANGED <<stored, copy, res, batch>>
    <3>1. TypeOK'
      BY <1>4, <2>1 DEF OpenStore, Read, LogInv, TypeOK
    <3>2. LogIsHistory'
      BY <1>4, <2>1 DEF OpenStore, LogInv, LogIsHistory
    <3>3. Held'
      BY <1>4, <2>1 DEF OpenStore, LogInv, Held
    <3> QED
      BY <1>4, <3>1, <3>2, <3>3 DEF OpenStore, LogInv
  <2>2. CASE /\ ~stored.there /\ stored' = SyncDecision(TRUE, <<>>) /\ base' = stored'
             /\ pc' = "write" /\ UNCHANGED <<copy, res, batch>>
    <3>0. stored'.entries = <<>> /\ stored'.there /\ stored.entries = <<>> /\ base' = stored'
      BY <1>0, <2>2 DEF SyncDecision
    <3>1. TypeOK'
      <4>1. \A o \in {stored', seen', base'} : o.entries \in Seq(1..made) /\ (~o.there => o.entries = <<>>)
        BY <1>0, <1>4, <3>0 DEF OpenStore, LogInv, TypeOK
      <4> QED
        BY <1>4, <2>2, <4>1 DEF OpenStore, LogInv, TypeOK
    <3>2. LogIsHistory'
      BY <1>4, <2>2, <3>0 DEF OpenStore, LogInv, LogIsHistory
    <3>3. Held'
      BY <1>4, <2>2 DEF OpenStore, LogInv, Held
    <3> QED
      BY <1>4, <3>1, <3>2, <3>3 DEF OpenStore, LogInv
  <2>3. CASE NextResource /\ UNCHANGED stored
    BY <1>0, <1>4, <2>3, NextResourceHolds DEF OpenStore
  <2> QED
    BY <1>4, <2>1, <2>2, <2>3 DEF OpenStore
<1>5. CASE WriteStore
  <2>1. copy.record /\ NextResource /\ pc # "idle" /\ UNCHANGED <<policy, seen, events, made>>
    BY <1>5 DEF WriteStore, LogInv, Held
  <2>2. CASE base = stored
    <3> DEFINE t == Trimmed(stored.entries \o batch, copy.retain)
    <3>1. stored'.entries = t /\ stored'.there
      BY <1>5, <2>2 DEF WriteStore, Appended, SyncDecision
    <3>2. t \in Seq(1..made) /\ Ascending(t) /\ ToSet(t) \subseteq events
      BY <2>1, WrittenLog
    <3> HIDE DEF t
    <3> QED
      BY <2>1, <3>1, <3>2, NextResourceHolds
  <2>3. CASE base # stored
    <3>1. stored' = stored
      BY <1>5, <2>3 DEF WriteStore
    <3> QED
      BY <1>0, <2>1, <3>1, NextResourceHolds
  <2> QED
    BY <2>2, <2>3
<1>6. CASE CallFails
  <2>1. NextResource /\ pc # "idle" /\ UNCHANGED <<policy, stored, seen, events, made>>
    BY <1>6 DEF CallFails
  <2> QED
    BY <1>0, <2>1, NextResourceHolds
<1>7. CASE Restart
  <2>0. /\ pc' = "idle" /\ res' = 0 /\ base' = NoObject /\ batch' = <<>>
        /\ (seen' = stored \/ seen' = seen)
        /\ UNCHANGED <<policy, stored, events, made, copy>>
    BY <1>7 DEF Restart
  <2>1. <<>> \in Seq(1..made) /\ Len(<<>>) = 0 /\ stored.entries \o <<>> = stored.entries
    BY <1>0, EmptySeq, ConcatEmptySeq
  <2>2. TypeOK'
    <3>1. base'.entries = <<>>
      BY <2>0 DEF NoObject, SyncDecision
    <3>2. seen'.entries \in Seq(1..made) /\ (~seen'.there => seen'.entries = <<>>)
      BY <2>0 DEF LogInv, TypeOK
    <3>3. \A o \in {stored', seen', base'} : o.entries \in Seq(1..made) /\ (~o.there => o.entries = <<>>)
      BY <1>0, <2>0, <2>1, <3>1, <3>2
    <3> QED
      BY <2>0, <2>1, <3>3, DecisionLogAssumption DEF LogInv, TypeOK
  <2>3. LogIsHistory'
    BY <1>0, <2>0, <2>1 DEF LogIsHistory
  <2>4. Held'
    <3>1. \A i \in 1..Len(<<>>) : (<<>>)[i] \in events
      BY <2>1
    <3>2. ToSet(<<>>) \subseteq events
      BY <2>1, <3>1, ToSetByEntries, Zenon
    <3> QED
      BY <2>0, <3>2 DEF Held
  <2> QED
    BY <2>0, <2>2, <2>3, <2>4 DEF LogInv
<1>8. CASE See
  <2>1. TypeOK'
    BY <1>8 DEF See, workVars, LogInv, TypeOK
  <2>2. LogIsHistory' /\ Held'
    BY <1>8 DEF See, workVars, LogInv, LogIsHistory, Held
  <2> QED
    BY <1>8, <2>1, <2>2 DEF See, LogInv
<1>9. CASE \E p \in Policies : EditPolicy(p)
  <2>1. TypeOK'
    BY <1>9 DEF EditPolicy, workVars, LogInv, TypeOK
  <2>2. LogIsHistory' /\ Held'
    BY <1>9 DEF EditPolicy, workVars, LogInv, LogIsHistory, Held
  <2> QED
    BY <1>9, <2>1, <2>2 DEF EditPolicy, LogInv
<1>10. CASE UNCHANGED vars
  BY <1>10 DEF vars, workVars, LogInv, TypeOK, LogIsHistory, Held
<1> QED
  BY <1>1, <1>2, <1>3, <1>4, <1>5, <1>6, <1>7, <1>8, <1>9, <1>10 DEF Next, Worker

\* The stored log changes only by a write from the object that is stored, and that
\* write keeps a window over what was stored and what the pass decided.
LEMMA WindowStep ==
  ASSUME LogInv, [Next]_vars, stored'.entries # stored.entries
  PROVE  /\ IsSuffix(stored'.entries, stored.entries \o batch)
         /\ Len(stored'.entries) = IF Len(stored.entries \o batch) < copy.retain
                                   THEN Len(stored.entries \o batch) ELSE copy.retain
<1>1. WriteStore
  <2>1. CASE OpenStore
    <3>1. ~stored.there /\ stored' = SyncDecision(TRUE, <<>>)
      BY <2>1 DEF OpenStore
    <3>2. stored.entries = <<>> /\ stored'.entries = <<>>
      BY <3>1 DEF SyncDecision, LogInv, TypeOK
    <3> QED
      BY <3>2
  <2> QED
    BY <2>1 DEF Next, Worker, vars, Begin, Decide, EndPass, CallFails, Restart, See, EditPolicy
<1>2. base = stored /\ copy.record
  BY <1>1 DEF WriteStore, LogInv, Held
<1>3. stored'.entries = Trimmed(stored.entries \o batch, copy.retain)
  BY <1>1, <1>2 DEF WriteStore, Appended, SyncDecision
<1> QED
  BY <1>2, <1>3, WrittenLog
-----------------------------------------------------------------------------
(***************************************************************************)
(* The theorems                                                            *)
(***************************************************************************)

\* The reachable states satisfy the invariant.
LEMMA LogInvAlways == Spec => []LogInv
<1>1. Init /\ [][Next]_vars => []LogInv
  BY LogInvInit, LogInvStep, PTL
<1> QED
  BY <1>1, PTL DEF Spec

\* The stored log, the informer's copy and the worker's hold decisions that were
\* made, and the loop of runSync stays within the policy's resources.
THEOREM LogTypeCorrect == Spec => []TypeOK
<1>1. LogInv => TypeOK
  BY DEF LogInv
<1> QED
  BY <1>1, LogInvAlways, PTL

\* Whatever retain is, however many resources the policy declares and however the
\* informer lags, calls fail and the manager restarts, recordSyncDecisions leaves a
\* log that tells published decisions in the order they were made, none twice.
THEOREM LogTellsHistory == Spec => []LogIsHistory
<1>1. LogInv => LogIsHistory
  BY DEF LogInv
<1> QED
  BY <1>1, LogInvAlways, PTL

\* Every change of the stored log is a slide of the window: the newest of what was
\* stored and what the pass decided, as many as retain allows.
THEOREM WindowAlwaysSlides == Spec => WindowSlides
<1>1. LogInv /\ [Next]_vars
      => [stored'.entries # stored.entries
          => LET all == stored.entries \o batch
             IN  /\ IsSuffix(stored'.entries, all)
                 /\ Len(stored'.entries) = IF Len(all) < copy.retain THEN Len(all) ELSE copy.retain]_vars
  BY WindowStep
<1> QED
  BY <1>1, LogInvAlways, PTL DEF Spec, WindowSlides
=============================================================================
