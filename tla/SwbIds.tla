------------------------------- MODULE SwbIds -------------------------------
(***************************************************************************)
(* The identity of a finding (cli/swb_cli/fingerprints.py): the level and  *)
(* the material of its hash, and the number that tells findings with equal *)
(* material apart.                                                         *)
(*                                                                         *)
(* A result is a record.  Its uri, tool, rule and message stand for what   *)
(* the code compares and orders: the resolved and normalised uri, the      *)
(* lower-cased tool, the sha256 of the message; uri and message are        *)
(* numbers because the code sorts by them.  A line of source is its text   *)
(* after the collapse of white space, "" when it is blank.  A hash is the  *)
(* material it is taken of: different materials are taken to hash          *)
(* differently.                                                            *)
(***************************************************************************)
EXTENDS Integers, Sequences, FiniteSets

CONSTANTS
    None,
    MaxWindow       \* _MAX_WINDOW_LINES

Smaller(a, b) == IF a < b THEN a ELSE b

-----------------------------------------------------------------------------
(* The material of one finding.                                            *)

\* What "\n".join makes of lines: none and a single blank one are the same.
Joined(lines) == IF lines = <<"">> THEN <<>> ELSE lines

\* The window of the content fingerprint: lines start..end, at most MaxWindow
\* of them, as far as the file goes.  (The padded window of the context
\* fingerprint is for diagnostics and part of no identity.)
NormalizeWindow(lines, start, end) ==
    LET last == IF end # None /\ end >= start THEN end ELSE start
        to   == Smaller(Len(lines), Smaller(last, start + MaxWindow - 1))
    IN  Joined(SubSeq(lines, start, to))

\* content_hash.  With a bug: the line number is part of the material.
ContentWithLine(r, lines) ==
    <<"content", r.tool, r.rule, r.uri, r.start, NormalizeWindow(lines, r.start, r.end)>>
ContentHash(r, lines) ==
    <<"content", r.tool, r.rule, r.uri, NormalizeWindow(lines, r.start, r.end)>>

\* fingerprints win over partialFingerprints.
ToolFingerprint(r) == IF r.fingerprints # None THEN r.fingerprints ELSE r.partial

\* build_fingerprints: the level; lines is None when the source is unreadable.
Level(r, lines) ==
    CASE ToolFingerprint(r) # None                  -> "tool"
      [] ToolFingerprint(r) = None /\ lines # None  -> "content"
      [] ToolFingerprint(r) = None /\ lines = None  -> "legacy"

\* _base_hash.
BaseHash(r, lines) ==
    CASE Level(r, lines) = "tool"    -> <<"tool", r.tool, r.rule, ToolFingerprint(r)>>
      [] Level(r, lines) = "content" -> ContentHash(r, lines)
      [] Level(r, lines) = "legacy"  -> <<"legacy", r.tool, r.rule, r.uri, r.start>>

\* IdentitySource: what numbering sees of a result.
IdentitySource(r, lines) ==
    [level |-> Level(r, lines), base |-> BaseHash(r, lines), uri |-> r.uri,
     line |-> r.start, column |-> r.column, message |-> r.message]

-----------------------------------------------------------------------------
(* assign_swb_ids.                                                         *)

SortKey(item) ==
    <<item.uri, item.line, IF item.column = None THEN 0 ELSE item.column, item.message>>

KeyLess(k, l) ==
    \/ k[1] < l[1]
    \/ k[1] = l[1] /\ k[2] < l[2]
    \/ k[1] = l[1] /\ k[2] = l[2] /\ k[3] < l[3]
    \/ k[1] = l[1] /\ k[2] = l[2] /\ k[3] = l[3] /\ k[4] < l[4]

\* i comes before j in the sorted group: by the key, and in file order when the
\* keys are equal, for the sort is stable.  With a bug: always in file order.
PrecedesInFile(items, i, j) == i < j
Precedes(items, i, j) ==
    \/ KeyLess(SortKey(items[i]), SortKey(items[j]))
    \/ SortKey(items[i]) = SortKey(items[j]) /\ i < j

\* The findings with the level and the base hash of i.
\* With a bug: with its level.
GroupOfLevel(items, i) == {j \in DOMAIN items : items[j].level = items[i].level}
Group(items, i) ==
    {j \in DOMAIN items : items[j].level = items[i].level /\ items[j].base = items[i].base}

\* The number of i in its group.  With a bug: findings with equal keys are
\* numbered alike.
OccurrenceOfKey(items, i) ==
    Cardinality({j \in Group(items, i) : KeyLess(SortKey(items[j]), SortKey(items[i]))})
Occurrence(items, i) ==
    Cardinality({j \in Group(items, i) : Precedes(items, j, i)})

\* sw2:<level>:<base hash>:<occurrence>, for every finding of a file.
AssignSwbIds(items) ==
    [i \in DOMAIN items |->
        [level |-> items[i].level, base |-> items[i].base,
         occurrence |-> Occurrence(items, i)]]
=============================================================================
