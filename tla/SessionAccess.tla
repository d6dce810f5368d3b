---------------------------- MODULE SessionAccess ----------------------------
(***************************************************************************)
(* What the Session operation gate promises: at any moment the Session is  *)
(* used either by any number of ordinary operations or by one exclusive    *)
(* user (an interrupting handoff, or the deletion run) alone.              *)
(***************************************************************************)
EXTENDS Naturals

CONSTANTS Operations, ExclusiveUsers

VARIABLE working   \* who is using the Session

Init == working = {}

Admit(c) ==
  /\ c \notin working
  /\ IF c \in Operations THEN working \subseteq Operations ELSE working = {}
  /\ working' = working \cup {c}

Leave(c) ==
  /\ c \in working
  /\ working' = working \ {c}

Next == \E c \in Operations \cup ExclusiveUsers : Admit(c) \/ Leave(c)

Spec == Init /\ [][Next]_working

=============================================================================
