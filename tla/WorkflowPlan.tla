---------------------------- MODULE WorkflowPlan ----------------------------
(***************************************************************************)
(* Workflow manifests and their schedule (cmd_workflow.go,                 *)
(* workflow_schedule.go, workflow_lease.go), as operators: what a write    *)
(* declaration covers, when two of them overlap, which manifests are       *)
(* accepted, and which steps share the next wave.                          *)
(*                                                                         *)
(* A path is a sequence of names.  A write declaration is a repo-relative  *)
(* pattern of one of the forms the code tells apart: "file" names one path *)
(* or a whole directory, "children" ends in one star after a slash, "tree" *)
(* in two, and "names" in a star inside a name: the last element of its    *)
(* stem stands for every name that begins with it.  The stem is the text   *)
(* in front of the first wildcard.                                         *)
(***************************************************************************)
EXTENDS Naturals, Sequences, SequencesExt

CONSTANTS
  N,       \* the number of steps, in authored order 1..N
  Paths,   \* the files of the repository
  Begins   \* pairs of names of which the first begins the second

ASSUME NAssumption == N \in Nat \ {0}

Steps == 1..N

(* A parsed manifest over the given write declarations.  An absent field   *)
(* is an empty set.                                                        *)
Manifest(WriteSets) ==
  [parallel : BOOLEAN, deps : [Steps -> SUBSET Steps],
   writes : [Steps -> WriteSets]]

-----------------------------------------------------------------------------
(* Patterns.                                                               *)

(* A name that begins the last element of the path, in the same directory. *)
NameMatches(stem, path) ==
  /\ stem # <<>> /\ Len(stem) = Len(path)
  /\ Front(stem) = Front(path)
  /\ <<Last(stem), Last(path)>> \in Begins

(* What the lease of a worker lets it write (doublestar.Match). *)
Matches(p, path) ==
  \/ p.form = "file" /\ path = p.stem
  \/ p.form = "children" /\ Len(path) = Len(p.stem) + 1 /\ IsPrefix(p.stem, path)
  \/ p.form = "tree" /\ IsPrefix(p.stem, path)
  \/ p.form = "names" /\ NameMatches(p.stem, path)
LeaseAllows(writes, path) == \E p \in writes : Matches(p, path)

(* What the check after a wave accepts: everything at or below a stem that *)
(* is not empty, and what the pattern matches.                             *)
Covers(writes, path) ==
  \E p \in writes : (p.stem # <<>> /\ IsPrefix(p.stem, path)) \/ Matches(p, path)

(* Mutant: only equal stems overlap. *)
WritesOverlapSame(a, b) == \E x \in a, y \in b : x.stem = y.stem
(* Two declarations overlap when one stem lies at or below the other; a    *)
(* pattern without a stem overlaps everything.                             *)
workflowWritesOverlap(a, b) ==
  \E x \in a, y \in b : IsPrefix(x.stem, y.stem) \/ IsPrefix(y.stem, x.stem)

-----------------------------------------------------------------------------
(* Manifests and waves.                                                    *)

(* A dependency names an earlier step; a parallel step declares writes.    *)
Valid(m) ==
  /\ \A s \in Steps : m.deps[s] \subseteq 1..(s - 1)
  /\ m.parallel => \A s \in Steps : m.writes[s] # {}

(* Mutant: a step of the same wave satisfies a dependency. *)
NextBatchSameWave(m, done) ==
  LET Picked[i \in 0..N] ==
        IF i = 0 THEN {}
        ELSE LET batch == Picked[i - 1] IN
             IF /\ i \notin done
                /\ m.deps[i] \subseteq done \cup batch
                /\ \A j \in batch : ~workflowWritesOverlap(m.writes[i], m.writes[j])
             THEN batch \cup {i} ELSE batch
  IN Picked[N]
(* The next wave after the steps of done: in authored order every ready    *)
(* step that overlaps no member so far; one step at a time unless the      *)
(* manifest is parallel.  It is empty when nothing is ready.               *)
NextBatch(m, done) ==
  LET Picked[i \in 0..N] ==
        IF i = 0 THEN {}
        ELSE LET batch == Picked[i - 1] IN
             IF /\ i \notin done
                /\ IF m.parallel
                   THEN /\ m.deps[i] \subseteq done
                        /\ \A j \in batch : ~workflowWritesOverlap(m.writes[i], m.writes[j])
                   ELSE batch = {}
             THEN batch \cup {i} ELSE batch
  IN Picked[N]
=============================================================================
