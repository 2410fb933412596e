---------------------------- MODULE CheckRunLife -----------------------------
(***************************************************************************)
(* What the syncer promises about check runs, seen from GitHub             *)
(* (controller.go:16-18): a check run shows, at any time, a state its      *)
(* workflow really was in, perhaps an old one; and when the workflow is    *)
(* started over it moves to a check run that nobody has reported on.       *)
(* There is no cache, no queue and no annotation here.  CheckRunSync       *)
(* implements this specification.                                          *)
(***************************************************************************)
EXTENDS Naturals, Sequences

VARIABLES
    current,    \* the check run the workflow is reported on now
    facts,      \* <<c, view>>: while reported on c, the workflow deserved view
    shown       \* the view GitHub shows of each check run, by id

lifeVars == <<current, facts, shown>>

View(status, conclusion) == [status |-> status, conclusion |-> conclusion]
Queued == View("queued", "none")

Views == {Queued, View("in_progress", "none")}
           \cup {View("completed", c) : c \in {"success", "failure", "cancelled"}}

\* A new workflow has a queued check run; a resubmitted one still has the
\* check run of the run it was copied from.
LifeInit ==
    /\ current = 1
    /\ facts = {}
    /\ shown \in {<<Queued>>, <<View("completed", "failure")>>}

\* The workflow changes: nothing, one or two views become true of it.
Happen ==
    /\ \E vs \in SUBSET Views : facts' = facts \cup ({current} \X vs)
    /\ UNCHANGED <<current, shown>>

\* A check run is created in advance.
Open ==
    /\ shown' = Append(shown, Queued)
    /\ UNCHANGED <<current, facts>>

\* The workflow was started over: it moves to a check run without a past.
Move ==
    /\ current' \in DOMAIN shown
    /\ shown[current'] = Queued
    /\ \A f \in facts : f[1] # current'
    /\ \E vs \in SUBSET Views : facts' = facts \cup ({current'} \X vs)
    /\ UNCHANGED shown

\* GitHub is told something that was true.
Show ==
    /\ \E f \in facts : shown' = [shown EXCEPT ![f[1]] = f[2]]
    /\ UNCHANGED <<current, facts>>

LifeNext == Happen \/ Open \/ Move \/ Show

LifeSpec == LifeInit /\ [][LifeNext]_lifeVars
=============================================================================
