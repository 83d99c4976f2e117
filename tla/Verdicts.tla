------------------------------ MODULE Verdicts ------------------------------
(***************************************************************************)
(* The verdict writer (server/swb_server/verdicts.py), as operators on     *)
(* rows.  Every path that changes a verdict - PATCH, AI analysis, carried  *)
(* on upload, reset - goes through write_verdict, which updates the        *)
(* snapshot on a FindingIdentity row and appends one VerdictEvent.         *)
(*                                                                         *)
(* The ORM session between the row and the handler is part of the model: a *)
(* handler works on the object it loaded (mem), and a flush sends an       *)
(* UPDATE, by primary key, of the columns whose value differs from the     *)
(* loaded one.  A column the handler did not change keeps what some other  *)
(* transaction stored there in the meantime.                               *)
(*                                                                         *)
(* A rationale and the provider/model/prompt columns are represented by    *)
(* the request that wrote them: the properties only ask whose they are.    *)
(* needs_reconfirm is False on every path and is left out.                 *)
(***************************************************************************)
EXTENDS Naturals, Sequences

CONSTANTS
    Marks,      \* the verdict values other than "unmarked"
    Writers,    \* the requests that write verdicts
    None        \* SQL NULL

VerdictValues == Marks \cup {"unmarked"}
Sources == {"human", "ai", "carried", "reset"}

Snapshot ==
    [verdict   : VerdictValues,
     source    : {"human", "ai", "reset", None},
     rationale : Writers \cup {None},
     attrs     : Writers \cup {None},
     version   : Nat \ {0}]

VerdictEvent ==
    [source : Sources, by : Writers, old : VerdictValues, new : VerdictValues]

\* A FindingIdentity row as ingest inserts it.
\* With a bug: the version column has no default of 1.
FreshIdentityUnversioned ==
    [verdict |-> "unmarked", source |-> None, rationale |-> None,
     attrs |-> None, version |-> 0]
FreshIdentity ==
    [verdict |-> "unmarked", source |-> None, rationale |-> None,
     attrs |-> None, version |-> 1]

IsMarked(row) == row.verdict # "unmarked"
HumanMarked(row) == row.source = "human" /\ IsMarked(row)

-----------------------------------------------------------------------------
(* write_verdict on the loaded object: the new snapshot and the event.     *)

\* The object after write_verdict's assignments; version is the one the
\* caller's branch computes (CAS or unconditional).
\* With a bug: carrying a verdict to a new scan makes it nobody's decision.
AssignedCarried(mem, verdict, source, rationale, by, version) ==
    [verdict |-> verdict, source |-> IF source = "carried" THEN None ELSE source,
     rationale |-> rationale, attrs |-> mem.attrs, version |-> version]
Assigned(mem, verdict, source, rationale, by, version) ==
    [verdict   |-> verdict,
     source    |-> IF source = "carried" THEN mem.source ELSE source,
     rationale |-> rationale,
     attrs     |-> CASE source = "ai"    -> by
                     [] source = "reset" -> None
                     [] OTHER            -> mem.attrs,
     version   |-> version]

\* The event of a write.  With a bug: made after the object was assigned to.
EventOfAssigned(mem, verdict, source, by) ==
    [source |-> source, by |-> by, old |-> verdict, new |-> verdict]
EventOf(mem, verdict, source, by) ==
    [source |-> source, by |-> by, old |-> mem.verdict, new |-> verdict]

\* One column of an ORM flush: sent only when the object changed it.
Column(stored, loaded, assigned) ==
    IF assigned = loaded THEN stored ELSE assigned

Flush(row, mem, obj) ==
    [verdict   |-> Column(row.verdict,   mem.verdict,   obj.verdict),
     source    |-> Column(row.source,    mem.source,    obj.source),
     rationale |-> Column(row.rationale, mem.rationale, obj.rationale),
     attrs     |-> Column(row.attrs,     mem.attrs,     obj.attrs),
     version   |-> Column(row.version,   mem.version,   obj.version)]

\* write_verdict without expected_version: the version goes up from the
\* loaded one, whatever the row holds now.
\* With a bug: the version is raised twice.
SystemWriteTwice(row, mem, verdict, source, rationale, by) ==
    Flush(row, mem, Assigned(mem, verdict, source, rationale, by, mem.version + 2))
SystemWrite(row, mem, verdict, source, rationale, by) ==
    Flush(row, mem, Assigned(mem, verdict, source, rationale, by, mem.version + 1))

\* write_verdict with expected_version: the conditional UPDATE of the version
\* comes first and finds the row only at the expected version.
\* With a bug: the version is not compared; or it is raised by the conditional
\* UPDATE and again by the assignments.
CasAlwaysMatches(row, expected) == TRUE
CasMatches(row, expected) == row.version = expected

CasWriteTwice(row, mem, verdict, rationale, by, expected) ==
    [Flush(row, mem, Assigned(mem, verdict, "human", rationale, by, expected + 2))
        EXCEPT !.version = expected + 2]
CasWrite(row, mem, verdict, rationale, by, expected) ==
    [Flush(row, mem, Assigned(mem, verdict, "human", rationale, by, expected + 1))
        EXCEPT !.version = expected + 1]
=============================================================================
