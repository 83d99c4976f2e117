------------------------------ MODULE AuditLog ------------------------------
(***************************************************************************)
(* What the journal of verdicts promises whoever writes: verdict_events    *)
(* only grows while its identity exists, and the verdict on the row of an  *)
(* identity is the one the events lead to.  Requests, sessions and stale   *)
(* objects are not seen here; one step of the system may write several     *)
(* identities, since a reset, an upload and a deletion do.                 *)
(***************************************************************************)
EXTENDS Naturals, Sequences, TLAPS

CONSTANTS
    Identities, VerdictValues,
    Events      \* what verdict_events may hold: at least an old and a new verdict

VARIABLES
    row,    \* verdict and version of each identity
    log     \* the events of each identity, oldest first

Row == [verdict : VerdictValues, version : Nat]

\* An identity without a row, and one just inserted.
Absent == [verdict |-> "unmarked", version |-> 0]
Fresh == [verdict |-> "unmarked", version |-> 1]

\* An event decides when it says that the verdict changed.
Decides(e) == e.old # e.new

Init ==
    /\ row \in [Identities -> {Absent, Fresh}]
    /\ log = [i \in Identities |-> <<>>]

Insert(i) ==
    /\ row[i] = Absent /\ log[i] = <<>>
    /\ row'[i] = Fresh /\ log'[i] = <<>>

\* One event, and the verdict it says, if it says one.  The version is at most
\* the number of writes; it may fall behind, or back.
Write(i) ==
    /\ row[i] # Absent
    /\ \E e \in Events :
        /\ log'[i] = Append(log[i], e)
        /\ row'[i].verdict = IF Decides(e) THEN e.new ELSE row[i].verdict
    /\ row'[i].version \in 1..(1 + Len(log'[i]))

\* The identity goes, and its events with it.
Forget(i) == row'[i] = Absent /\ log'[i] = <<>>

Keep(i) == row'[i] = row[i] /\ log'[i] = log[i]

Next ==
    /\ row' \in [Identities -> Row]
    /\ log' \in [Identities -> Seq(Events)]
    /\ \A i \in Identities : Insert(i) \/ Write(i) \/ Forget(i) \/ Keep(i)

Spec == Init /\ [][Next]_<<row, log>>

-----------------------------------------------------------------------------
\* The verdict a sequence of events leads to: what the last one that decides
\* says, "unmarked" when none does.
LeadsTo(events, v) ==
    \/ v = "unmarked" /\ \A n \in DOMAIN events : ~Decides(events[n])
    \/ \E n \in DOMAIN events :
        /\ Decides(events[n]) /\ events[n].new = v
        /\ \A m \in DOMAIN events : m > n => ~Decides(events[m])

\* Every row can be explained from its events alone.
Explained ==
    \A i \in Identities :
        /\ LeadsTo(log[i], row[i].verdict)
        /\ row[i].version <= 1 + Len(log[i])

-----------------------------------------------------------------------------
\* One event more leads to what it says, if it decides, and to the same verdict
\* as before if it does not.
LEMMA AppendLeadsTo ==
    ASSUME NEW events \in Seq(Events), NEW e \in Events, NEW v, LeadsTo(events, v)
    PROVE  LeadsTo(Append(events, e), IF Decides(e) THEN e.new ELSE v)
<1> DEFINE n == Len(events)
           after == Append(events, e)
<1>1. /\ n \in Nat /\ DOMAIN events = 1..n /\ DOMAIN after = 1..(n + 1)
      /\ after[n + 1] = e /\ \A k \in 1..n : after[k] = events[k]
  OBVIOUS
<1> HIDE DEF n, after
<1>2. CASE Decides(e)
  <2>1. \A m \in 1..(n + 1) : ~(m > n + 1)
    BY <1>1
  <2> QED BY <1>1, <1>2, <2>1 DEF LeadsTo, after
<1>3. CASE ~Decides(e)
  <2>1. CASE v = "unmarked" /\ \A k \in DOMAIN events : ~Decides(events[k])
    <3>1. \A k \in 1..(n + 1) : ~Decides(after[k])
      BY <1>1, <1>3, <2>1
    <3> QED BY <1>1, <1>3, <2>1, <3>1 DEF LeadsTo, after
  <2>2. ASSUME NEW k \in DOMAIN events, Decides(events[k]), events[k].new = v,
               \A m \in DOMAIN events : m > k => ~Decides(events[m])
        PROVE  LeadsTo(after, v)
    <3>1. \A m \in 1..(n + 1) : m > k => ~Decides(after[m])
      BY <1>1, <1>3, <2>2
    <3>2. k \in 1..(n + 1) /\ Decides(after[k]) /\ after[k].new = v
      BY <1>1, <2>2
    <3> QED BY <1>1, <3>1, <3>2 DEF LeadsTo
  <2> QED BY <1>3, <2>1, <2>2 DEF LeadsTo, after
<1> QED BY <1>2, <1>3

\* Whoever keeps the log can explain each row from its events alone: by what the
\* last deciding one says, and without more versions than writes.
THEOREM LogExplains == Spec => []Explained
<1> DEFINE Sequences == \A i \in Identities : log[i] \in Seq(Events)
           Good(i) == LeadsTo(log[i], row[i].verdict) /\ row[i].version <= 1 + Len(log[i])
<1>1. Init => Sequences /\ Explained
  <2> SUFFICES ASSUME Init, NEW i \in Identities
               PROVE  log[i] \in Seq(Events) /\ Good(i)
    BY DEF Explained
  <2>1. log[i] = <<>> /\ (row[i] = Absent \/ row[i] = Fresh)
    BY DEF Init
  <2> QED BY <2>1 DEF LeadsTo, Absent, Fresh
<1>2. Sequences /\ Explained /\ [Next]_<<row, log>> => Sequences' /\ Explained'
  <2> SUFFICES ASSUME Sequences, Explained, Next, NEW i \in Identities
               PROVE  /\ log'[i] \in Seq(Events)
                      /\ LeadsTo(log'[i], row'[i].verdict)
                      /\ row'[i].version <= 1 + Len(log'[i])
    BY DEF Explained, LeadsTo
  <2>1. log[i] \in Seq(Events) /\ log'[i] \in Seq(Events) /\ Good(i)
    BY DEF Next, Explained
  <2>2. CASE Insert(i) \/ Forget(i)
    <3>1. log'[i] = <<>> /\ (row'[i] = Absent \/ row'[i] = Fresh)
      BY <2>2 DEF Insert, Forget
    <3> QED BY <2>1, <3>1 DEF LeadsTo, Absent, Fresh
  <2>3. CASE Write(i)
    <3>1. PICK e \in Events :
            /\ log'[i] = Append(log[i], e)
            /\ row'[i].verdict = IF Decides(e) THEN e.new ELSE row[i].verdict
      BY <2>3 DEF Write
    <3>2. LeadsTo(log'[i], row'[i].verdict)
      BY <2>1, <3>1, AppendLeadsTo
    <3>3. row'[i].version \in 1..(1 + Len(log'[i])) /\ Len(log'[i]) \in Nat
      BY <2>1, <2>3 DEF Write
    <3> QED BY <2>1, <3>2, <3>3
  <2>4. CASE Keep(i)
    BY <2>1, <2>4 DEF Keep
  <2> QED BY <2>2, <2>3, <2>4 DEF Next
<1> QED BY <1>1, <1>2, PTL DEF Spec
=============================================================================
