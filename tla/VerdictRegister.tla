--------------------------- MODULE VerdictRegister --------------------------
(***************************************************************************)
(* What editing verdicts with optimistic locking promises: each identity   *)
(* is an atomic register with a history, and an editor writes only over    *)
(* the row it is looking at.  Requests, sessions, conflicts and retries    *)
(* are not seen here.                                                      *)
(***************************************************************************)
EXTENDS Naturals, Sequences

CONSTANTS Identities, Editors, VerdictValues, None

VARIABLES
    register,   \* the row of each identity
    history,    \* the writes to it, oldest first
    view        \* what each editor is looking at

NotViewing == [id |-> None, row |-> None]

Init ==
    /\ register = [i \in Identities |-> [verdict |-> "unmarked", by |-> None, version |-> 1]]
    /\ history = [i \in Identities |-> <<>>]
    /\ view = [p \in Editors |-> NotViewing]

\* An editor looks at an identity.
Look(p) ==
    /\ \E i \in Identities : view' = [view EXCEPT ![p] = [id |-> i, row |-> register[i]]]
    /\ UNCHANGED <<register, history>>

\* An editor replaces the row it is looking at.  Its view is the old row.
Write(p) ==
    LET i == view[p].id IN
    /\ i \in Identities
    /\ view[p].row = register[i]
    /\ \E v \in VerdictValues :
        /\ register' = [register EXCEPT
              ![i] = [verdict |-> v, by |-> p, version |-> @.version + 1]]
        /\ history' = [history EXCEPT
              ![i] = Append(@, [old |-> register[i].verdict, new |-> v, by |-> p])]
    /\ UNCHANGED view

Next == \E p \in Editors : Look(p) \/ Write(p)

Spec == Init /\ [][Next]_<<register, history, view>>
=============================================================================
