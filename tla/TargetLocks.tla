----------------------------- MODULE TargetLocks -----------------------------
(***************************************************************************)
(* What target locks are to the rest of the server: one relation between   *)
(* the ships in space.  Locks are begun between ships of one solar system, *)
(* within the limit of the one that locks; they complete only after they   *)
(* were begun; they end because the locker gives them up, or because a     *)
(* ship breaks all locks it is in, at both ends.  Nobody else loses any,   *)
(* but for ships that had no other target and break theirs as well         *)
(* (eve-server/system/TargetManager.h).                                    *)
(***************************************************************************)
EXTENDS Naturals, FiniteSets

CONSTANTS Entities, Systems,
          NoSystem,    \* not in space
          MaxTargets

VARIABLES place,       \* the solar system each entity is in
          locks        \* what x's lock on t is: "none", "begun" or "done"

vars == <<place, locks>>

TargetsOf(x) == {t \in Entities : locks[x][t] # "none"}

\* No lock with a member of C, at either end.
Without(C) ==
    [x \in Entities |-> [t \in Entities |->
       IF x \in C \/ t \in C THEN "none" ELSE locks[x][t]]]

Init ==
    /\ place = [e \in Entities |-> NoSystem]
    /\ locks = [x \in Entities |-> [t \in Entities |-> "none"]]

MayLock(x, t) ==
    /\ locks[x][t] = "none"
    /\ Cardinality(TargetsOf(x)) < MaxTargets

\* x begins to lock t, and t perhaps x.
Begin(x, t) ==
    /\ x # t
    /\ place[x] # NoSystem /\ place[x] = place[t]
    /\ UNCHANGED place
    /\ MayLock(x, t)
    /\ \/ locks' = [locks EXCEPT ![x][t] = "begun"]
       \/ /\ MayLock(t, x)
          /\ locks' = [locks EXCEPT ![x][t] = "begun", ![t][x] = "begun"]

\* Some locks that were begun are done.
Complete ==
    /\ UNCHANGED place
    /\ \A x, t \in Entities :
         locks'[x][t] = locks[x][t] \/ (locks[x][t] = "begun" /\ locks'[x][t] = "done")

\* x gives up some of its targets.
Cancel(x) ==
    /\ UNCHANGED place
    /\ \A y \in Entities \ {x} : locks'[y] = locks[y]
    /\ \A t \in Entities : locks'[x][t] \in {locks[x][t], "none"}

\* A ship breaks all locks, its own and those on it, where it is or as it
\* leaves space.  Some of those that had locked it and nothing else do so too.
Break(e) ==
    /\ place[e] # NoSystem
    /\ place' \in {place, [place EXCEPT ![e] = NoSystem]}
    /\ \E S \in SUBSET {n \in Entities : TargetsOf(n) = {e}} :
         locks' = Without({e} \cup S)

\* A ship that comes into space is in no lock.  One that goes to another
\* system has no targets, but may be a target.
Enter(e, s) ==
    /\ place[e] = NoSystem
    /\ place' = [place EXCEPT ![e] = s]
    /\ locks = Without({e})
    /\ UNCHANGED locks

Cross(e, s) ==
    /\ place[e] # NoSystem
    /\ place' = [place EXCEPT ![e] = s]
    /\ TargetsOf(e) = {}
    /\ UNCHANGED locks

Next ==
    \/ \E e \in Entities, s \in Systems : Enter(e, s) \/ Cross(e, s)
    \/ Complete
    \/ \E e \in Entities : Cancel(e) \/ Break(e)
    \/ \E x, t \in Entities : Begin(x, t)

Spec == Init /\ [][Next]_vars
=============================================================================
