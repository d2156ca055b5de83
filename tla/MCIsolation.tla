----------------------------- MODULE MCIsolation -----------------------------
(* Instances of Isolation for TLC. *)
EXTENDS Isolation

Levels == {ProfileForLevel(l) : l \in {"baseline", "restricted", "sandboxed"}}
Relaxed == [ProfileForLevel("baseline") EXCEPT !.requests = FALSE]
AllProfiles == Levels \union {Relaxed}
WithoutClass == {[ProfileForLevel("baseline") EXCEPT !.class = Omitted]}

OnePod == {"p"}
TwoPods == {"p", "q"}
AllRestricted == [p \in Pods |-> "restricted"]
NoOwnClass == [p \in Pods |-> ""]
\* Both kinds of tenant Pods: the one names a class no profile requires.
MixedClasses == [p \in Pods |-> IF p = "p" THEN "gvisor" ELSE ""]
MixedLevels == [p \in Pods |-> IF p = "p" THEN "restricted" ELSE "baseline"]
=============================================================================
