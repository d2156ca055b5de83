----------------------------- MODULE HostNaming -----------------------------
(***************************************************************************)
(* internal/syncplan/plan.go: the deterministic host name of a tenant      *)
(* object.  A string is a sequence of characters over a small alphabet     *)
(* that has a letter, the letter the separator "-x-" is made of, an upper  *)
(* case letter, a digit, the dash, and "." for every character that is not *)
(* a letter, a digit or a dash (leading and trailing spaces included: they *)
(* become dashes at the ends, which are trimmed).  The 63 characters, the  *)
(* 32 bits and the 8 digits of the code are MaxLen, HashSize and HashLen.  *)
(*                                                                         *)
(* The module has a state only so that TLC enumerates inputs: a reference  *)
(* to an object grows one character at a time.                             *)
(***************************************************************************)
EXTENDS Integers, Sequences, SequencesExt

CONSTANTS
  Chars,      \* characters of the inputs
  MaxInput,   \* bound on the total length of the three inputs
  MaxLen,     \* maxDNSLabelLength
  HashLen,    \* hexadecimal digits of the hash
  HashSize,   \* how many values it has
  Offset, Prime, \* its offset and prime
  BitXor(_, _)   \* the operator ^ of Go

VARIABLES name, ns, tenant
vars == <<name, ns, tenant>>

Dash == "-"
Lower(c) == IF c = "A" THEN "a" ELSE c
IsLetterOrDigit(c) == c \in {"a", "x", "0"}
Code == [c \in {"a", "x", "0", "-"} |->
           CASE c = "a" -> 1 [] c = "x" -> 8 [] c = "0" -> 0 [] c = "-" -> 13]
HexDigit == <<"0", "1", "2", "3", "4", "5", "6", "7", "8", "9",
              "a", "b", "c", "d", "e", "f">>

ASSUME NamingAssumption ==
  /\ Chars \subseteq {"a", "x", "0", "A", "-", "."}
  /\ HashLen \in Nat \ {0} /\ MaxLen \in Nat /\ MaxLen > HashLen + 1
  /\ HashSize \in Nat \ {0} /\ Offset \in 0..HashSize - 1 /\ Prime \in Nat
  /\ \A h \in 0..HashSize - 1, c \in DOMAIN Code : BitXor(h, Code[c]) \in Nat
-----------------------------------------------------------------------------
AllDashes(s) == \A i \in 1..Len(s) : s[i] = Dash

TrimRight(s) ==
  IF AllDashes(s) THEN <<>>
  ELSE SubSeq(s, 1, SelectLastInSeq(s, LAMBDA c : c # Dash))
Trim(s) ==
  IF AllDashes(s) THEN <<>>
  ELSE SubSeq(TrimRight(s), SelectInSeq(s, LAMBDA c : c # Dash), Len(TrimRight(s)))

\* Mutant of one round of the loop: an invalid character is dropped.
WriteRune_Drop(out, r) ==
  LET c == Lower(r)
  IN  IF IsLetterOrDigit(c) THEN Append(out, c)
      ELSE IF c # Dash \/ (out # <<>> /\ Last(out) = Dash) THEN out
      ELSE Append(out, Dash)

\* One round of SanitizeName's loop: a letter or digit is kept, anything else
\* becomes a dash unless the last character written is one (lastDash).
WriteRune(out, r) ==
  LET c == Lower(r)
  IN  IF IsLetterOrDigit(c) THEN Append(out, c)
      ELSE IF out # <<>> /\ Last(out) = Dash THEN out
      ELSE Append(out, Dash)

\* The loop.
Written(s) ==
  LET out[i \in 0..Len(s)] == IF i = 0 THEN <<>> ELSE WriteRune(out[i - 1], s[i])
  IN  out[Len(s)]

SanitizeName(s) == LET out == Trim(Written(s)) IN IF out = <<>> THEN <<"x">> ELSE out

\* FNV-1a: the loop, and the digits of the hash.
Hashed(s) ==
  LET hash[i \in 0..Len(s)] ==
        IF i = 0 THEN Offset ELSE (BitXor(hash[i - 1], Code[s[i]]) * Prime) % HashSize
  IN  hash[Len(s)]

fnv32(s) ==
  LET rest[i \in 0..HashLen] == IF i = 0 THEN Hashed(s) ELSE rest[i - 1] \div 16
  IN  [k \in 1..HashLen |-> HexDigit[(rest[HashLen - k] % 16) + 1]]

\* Mutant: a shorter separator.
Base_PlainDash(n, v, t) == n \o <<Dash>> \o v \o <<Dash>> \o t

Base(n, v, t) == n \o <<Dash, "x", Dash>> \o v \o <<Dash, "x", Dash>> \o t

\* Mutant: room is left for the hash, but not for the dash before it.
Truncate_NoDash(safe, hash) ==
  TrimRight(SubSeq(safe, 1, MaxLen - Len(hash))) \o <<Dash>> \o hash

Truncate(safe, hash) ==
  TrimRight(SubSeq(safe, 1, MaxLen - Len(hash) - 1)) \o <<Dash>> \o hash

HostName(n, v, t) ==
  LET safe == SanitizeName(Base(n, v, t))
  IN  IF Len(safe) <= MaxLen THEN safe ELSE Truncate(safe, fnv32(safe))
-----------------------------------------------------------------------------
Init == name = <<>> /\ ns = <<>> /\ tenant = <<>>

Room == Len(name) + Len(ns) + Len(tenant) < MaxInput
TypeName == Room /\ \E c \in Chars : name' = Append(name, c) /\ UNCHANGED <<ns, tenant>>
TypeNamespace == Room /\ \E c \in Chars : ns' = Append(ns, c) /\ UNCHANGED <<name, tenant>>
TypeTenant == Room /\ \E c \in Chars : tenant' = Append(tenant, c) /\ UNCHANGED <<name, ns>>
Next == TypeName \/ TypeNamespace \/ TypeTenant
Spec == Init /\ [][Next]_vars
-----------------------------------------------------------------------------
IsLabel(s) ==
  /\ s # <<>> /\ Len(s) <= MaxLen
  /\ Head(s) # Dash /\ Last(s) # Dash
  /\ \A i \in 1..Len(s) : s[i] # "." /\ s[i] # "A"

\* Whatever the inputs, the host name is a DNS-1123 label no longer than the
\* limit, also when it is cut and hashed (HostName).
HostNameIsLabel == IsLabel(HostName(name, ns, tenant))

Kept(c) == IsLetterOrDigit(Lower(c))
Keeps(s) == {i \in 1..Len(s) : Kept(s[i])}
Neighbours(K, i, m) == i < m /\ ~\E j \in K : i < j /\ j < m

\* Reference meaning of SanitizeName: out has the letters and digits of s, in
\* lower case and in order (at says where), from its first to its last character;
\* two neighbours among them stay neighbours exactly if nothing stood between
\* them, and one dash is between any others.
Sanitizes(s, out) ==
  IF Keeps(s) = {} THEN out = <<"x">>
  ELSE \E at \in [Keeps(s) -> Keeps(out)] :
         /\ \A p \in Keeps(out) : \E i \in Keeps(s) : at[i] = p
         /\ {1, Len(out)} \subseteq Keeps(out)
         /\ \A i \in Keeps(s) : out[at[i]] = Lower(s[i])
         /\ \A i, m \in Keeps(s) :
              /\ i < m => at[i] < at[m]
              /\ Neighbours(Keeps(s), i, m) =>
                   at[m] = IF m = i + 1 THEN at[i] + 1 ELSE at[i] + 2

SanitizeMeaning == Sanitizes(name, SanitizeName(name))

Clean(s) == s # <<>> /\ SanitizeName(s) = s
HasXSegment(s) ==
  \E i \in 1..Len(s) : /\ s[i] = "x"
                       /\ i = 1 \/ s[i - 1] = Dash
                       /\ i = Len(s) \/ s[i + 1] = Dash

Plain(s) == Clean(s) /\ ~HasXSegment(s)

SepLen == Len(Base(<<>>, <<>>, <<>>)) \div 2
Uncut == Len(Base(name, ns, tenant)) <= MaxLen

\* The references to clean strings within the limit that have the host name h: that name
\* is their Base, so each is what two separators, wherever they are, leave of h (proved
\* as UncutIsSource).  A longer reference is not among them, though it may be cut to h:
\* what is cut to <n>-x-<v>-x-<prefix>-<hash> has the name of (n, v, <prefix>-<hash>).
Sources(h) ==
  {r \in {<<SubSeq(h, 1, i), SubSeq(h, i + SepLen + 1, j), SubSeq(h, j + SepLen + 1, Len(h))>> :
            i \in 0..Len(h), j \in 0..Len(h)} :
     HostName(r[1], r[2], r[3]) = h}

\* Where the name is unambiguous: two objects whose names, namespaces and
\* tenants are valid labels without a segment "x", both within the limit, never
\* share a host name (HostName).
InjectiveOnPlainNames ==
  Plain(name) /\ Plain(ns) /\ Plain(tenant) /\ Uncut =>
    \A r \in Sources(HostName(name, ns, tenant)) :
      Plain(r[1]) /\ Plain(r[2]) /\ Plain(r[3]) => r = <<name, ns, tenant>>

\* "For inputs within the 63-char DNS-1123 limit the mapping is injective"
\* (comment of HostName): two objects of one tenant with valid names never share
\* an uncut host name.
InjectiveWithinLimit ==
  Clean(name) /\ Clean(ns) /\ Clean(tenant) /\ Uncut =>
    \A r \in Sources(HostName(name, ns, tenant)) :
      Clean(r[1]) /\ Clean(r[2]) /\ r[3] = tenant => r = <<name, ns, tenant>>
=============================================================================
