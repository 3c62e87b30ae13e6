------------------------------ MODULE AlertBook ------------------------------
(***************************************************************************)
(* What the alert table promises its writers.  A writer reports a set of   *)
(* conditions; every one of them that it is not told to give up is covered *)
(* by an unresolved alert at some moment of its request, a new one only    *)
(* when no alert with the same scope is unresolved.                        *)
(*                                                                         *)
(* Strict tells whether a resolved alert stays resolved.                   *)
(***************************************************************************)
CONSTANTS Id, Scope, Writer, Covers(_, _), Strict

VARIABLES open,      \* the unresolved alerts
          waiting    \* conditions each writer has not been answered for

vars == <<open, waiting>>

Entry == [id: Id, scope: Scope]

Init == open = {} /\ waiting = [w \in Writer |-> {}]

Arrive(w, R) ==
    /\ waiting[w] = {}
    /\ waiting' = [waiting EXCEPT ![w] = R]
    /\ UNCHANGED open

\* The new entries have scopes of the conditions, which no other entry has.
Report(w, R) ==
    /\ R \subseteq waiting[w]
    /\ open \subseteq open'
    /\ \A e \in open' \ open : e \in Entry /\ e.scope \in R
    /\ \A e \in open' \ open, f \in open' : e.scope = f.scope => e = f
    /\ \A r \in R : \E e \in open' : Covers(e.scope, r)
    /\ waiting' = [waiting EXCEPT ![w] = @ \ R]

GiveUp(w) ==
    /\ waiting' = [waiting EXCEPT ![w] = {}]
    /\ UNCHANGED open

Close(S) ==
    /\ open' = open \ S
    /\ UNCHANGED waiting

Revive(e) ==
    /\ ~Strict
    /\ \A f \in open : f.scope # e.scope
    /\ open' = open \cup {e}
    /\ UNCHANGED waiting

Next ==
    \/ \E w \in Writer :
         \/ GiveUp(w)
         \/ \E R \in SUBSET Scope : Arrive(w, R) \/ Report(w, R)
    \/ \E S \in SUBSET open : Close(S)
    \/ \E e \in Entry : Revive(e)

Spec == Init /\ [][Next]_vars
=============================================================================
