------------------------------ MODULE Migrations ------------------------------
(* Which migrations a release will apply: pending() of                       *)
(* app/services/migration_service.py, walked one revision at a time.         *)
(*                                                                           *)
(* The wheel's history is any graph over Revisions, each with the set of     *)
(* revisions its file names as parents: one root, several, branches, merges  *)
(* and cycles.  Revisions are numbered in the order the wheel lists them.    *)
(* _parse reads the parent from a quoted name; the tuple of a merge does not *)
(* match, and reads like the None of a root.                                 *)
EXTENDS Integers, FiniteSets, SequencesExt

CONSTANTS Revisions,   \* the revisions of the wheel, numbers in listed order
          MaxParents,  \* a bound on the parents of one revision
          Root,        \* Python's None: no parent, and an empty database
          Newer        \* a revision of the database that the wheel lacks

ASSUME RevisionsAssumption ==
  /\ Revisions \subseteq Nat /\ IsFiniteSet(Revisions)
  /\ Root \notin Revisions /\ Newer \notin Revisions /\ Root # Newer

VARIABLES parents,     \* [Revisions -> SUBSET Revisions]: the files of the wheel
          current,     \* the server's alembic_version
          cursor,      \* the walk's cursor
          ordered,     \* the migrations found so far (`seen` is its range)
          verdict      \* "checking", "walking", "done", "ahead", "cycle"

walkVars == <<parents, current, cursor, ordered, verdict>>

(* _parse: the one parent a file names, or None.                             *)
DownRevision(r) ==
  IF \E p \in parents[r] : parents[r] = {p}
  THEN CHOOSE p \in parents[r] : parents[r] = {p} ELSE Root

(* by_down: the children of each revision, of which setdefault keeps the     *)
(* first the wheel lists.                                                    *)
Children(d) == {r \in Revisions : DownRevision(r) = d}
ByDown(d) == CHOOSE r \in Children(d) : \A s \in Children(d) : r <= s

Seen == ToSet(ordered)

WalkTypeOK ==
  /\ parents \in [Revisions -> SUBSET Revisions]
  /\ current \in Revisions \cup {Root, Newer}
  /\ cursor \in Revisions \cup {Root, Newer}
  /\ ordered \in Seq(Revisions) /\ IsInjective(ordered)
  /\ verdict \in {"checking", "walking", "done", "ahead", "cycle"}

WalkInit ==
  /\ parents \in [Revisions -> {P \in SUBSET Revisions : Cardinality(P) <= MaxParents}]
  /\ current \in Revisions \cup {Root, Newer}
  /\ cursor = current
  /\ ordered = <<>>
  /\ verdict = "checking"

(* The server's revision must be one of the wheel's, unless it has none.     *)
Check ==
  /\ verdict = "checking"
  /\ verdict' = IF current \in Revisions \cup {Root} THEN "walking" ELSE "ahead"
  /\ UNCHANGED <<parents, current, cursor, ordered>>

(* Fault: the database's own revision is taken as pending too.              *)
WalkInclusive ==
  /\ verdict = "walking" /\ Children(cursor) # {} /\ ByDown(cursor) \notin Seen
  /\ ordered' = IF ordered = <<>> /\ current # Root
                THEN <<current, ByDown(cursor)>> ELSE Append(ordered, ByDown(cursor))
  /\ cursor' = ByDown(cursor)
  /\ UNCHANGED <<parents, current, verdict>>

(* Fault: no revision is remembered as seen.                                 *)
WalkUnseen ==
  /\ verdict = "walking" /\ Children(cursor) # {}
  /\ ordered' = Append(ordered, ByDown(cursor))
  /\ cursor' = ByDown(cursor)
  /\ UNCHANGED <<parents, current, verdict>>

(* One turn of the loop that reaches a revision not seen before.             *)
Walk ==
  /\ verdict = "walking" /\ Children(cursor) # {} /\ ByDown(cursor) \notin Seen
  /\ ordered' = Append(ordered, ByDown(cursor))
  /\ cursor' = ByDown(cursor)
  /\ UNCHANGED <<parents, current, verdict>>

(* Fault: the revision is skipped and nothing is raised.                     *)
CycleSkipped ==
  /\ verdict = "walking" /\ Children(cursor) # {} /\ ByDown(cursor) \in Seen
  /\ UNCHANGED walkVars

(* One that reaches a revision seen before: the history is refused.         *)
Cycle ==
  /\ verdict = "walking" /\ Children(cursor) # {} /\ ByDown(cursor) \in Seen
  /\ verdict' = "cycle"
  /\ UNCHANGED <<parents, current, cursor, ordered>>

Return ==
  /\ verdict = "walking" /\ Children(cursor) = {}
  /\ verdict' = "done"
  /\ UNCHANGED <<parents, current, cursor, ordered>>

WalkNext == Check \/ Walk \/ Cycle \/ Return

(* pending() runs to its end in one call.                                    *)
WalkSpec == WalkInit /\ [][WalkNext]_walkVars /\ WF_walkVars(WalkNext)

-----------------------------------------------------------------------------
(* What Alembic will do, said of the whole graph.                            *)

ClosedUnder(S) == \A r \in S : parents[r] \subseteq S

(* The ancestors of r, with r: in every set that has r and its own parents.  *)
Ancestors(r) ==
  {a \in Revisions : \A S \in SUBSET Revisions : r \in S /\ ClosedUnder(S) => a \in S}

(* No set of revisions each of which has a parent in it.                     *)
Acyclic ==
  \A S \in (SUBSET Revisions) \ {{}} : \E r \in S : parents[r] \cap S = {}

Linear ==
  /\ Acyclic
  /\ \A r, s \in Revisions : parents[r] = parents[s] => r = s
  /\ \A r \in Revisions : \A p, q \in parents[r] : p = q

Unapplied == IF current = Root THEN Revisions ELSE Revisions \ Ancestors(current)

(* In a history without a cycle the walk raises no alarm and lists nothing   *)
(* that is applied already; in a linear one it lists everything that is not, *)
(* each after its parent (line 69: "The migrations that will run, in the     *)
(* order Alembic will run them").                                            *)
PendingIsUnapplied ==
  /\ Acyclic => verdict # "cycle" /\ Seen \subseteq Unapplied
  /\ Linear /\ verdict = "done" =>
       /\ Seen = Unapplied
       /\ \A i, j \in DOMAIN ordered : ordered[i] \in parents[ordered[j]] => i < j

(* "A malformed wheel should stop the deployment rather than spin" (line 95): *)
(* whatever the files say, the walk ends.                                    *)
WalkEnds == <>(verdict \in {"done", "ahead", "cycle"})

=============================================================================
