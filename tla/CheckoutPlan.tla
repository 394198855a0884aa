---------------------------- MODULE CheckoutPlan ----------------------------
(***************************************************************************)
(* Planning and staging of one raw checkout.  A plan is filled either from *)
(* flattened paths (add_raw) or by walking the trees of a commit           *)
(* (plan_commit); materialize_raw then creates it, entry by entry, in an   *)
(* empty staging directory.                                                *)
(*                                                                         *)
(* A byte is a number: 0 is NUL, Dot and Slash are the two bytes a Git     *)
(* name may not freely hold, and larger numbers are ordinary bytes.  A     *)
(* name is a sequence of bytes, a path a sequence of names.                *)
(***************************************************************************)
EXTENDS Naturals, Sequences, SequencesExt

CONSTANTS RawPath,           \* the byte strings offered to add_raw
          Mode,              \* the mode fields of tree entries
          TreeId, Trees,     \* the tree objects, and their possible contents
          MaxEntries, MaxComponents, MaxComponentBytes, MaxPathBytes

VARIABLES trees,     \* the trees plan_commit read: tree object -> its parsed entries
          policy,    \* GitlinkPolicy
          entries,   \* CheckoutPlanBuilder.entries: path -> mode
          offered,   \* the byte strings add_raw accepted
          pc, error,
          stage      \* the staging directory: path -> what is there

vars == <<trees, policy, entries, offered, pc, error, stage>>

Nul == 0
Dot == 1
Slash == 2

Directory == "040000"
Supported == {"100644", "100755", "120000", "160000"}
Root == CHOOSE t \in TreeId : TRUE

Empty == [p \in {} |-> "none"]
Bind(f, p, v) == [q \in DOMAIN f \cup {p} |-> IF q = p THEN v ELSE f[q]]

-----------------------------------------------------------------------------
(* Names and paths *)

NameOk(name) ==
  /\ name # <<>>
  /\ Nul \notin ToSet(name)
  /\ Slash \notin ToSet(name)
  /\ name \notin {<<Dot>>, <<Dot, Dot>>}
  /\ Len(name) <= MaxComponentBytes

\* Fault: empty components are dropped, as shells do.
SplitTrimming(raw) ==
  LET cut == SetToSortSeq({0, Len(raw) + 1} \cup {i \in 1 .. Len(raw) : raw[i] = Slash}, <)
  IN  SelectSeq([k \in 1 .. Len(cut) - 1 |-> SubSeq(raw, cut[k] + 1, cut[k + 1] - 1)],
                LAMBDA piece : piece # <<>>)

\* The pieces of a byte string between its slashes.
Split(raw) ==
  LET cut == SetToSortSeq({0, Len(raw) + 1} \cup {i \in 1 .. Len(raw) : raw[i] = Slash}, <)
  IN  [k \in 1 .. Len(cut) - 1 |-> SubSeq(raw, cut[k] + 1, cut[k + 1] - 1)]

ParseOk(raw) ==
  /\ raw # <<>>
  /\ raw[1] # Slash
  /\ Len(raw) <= MaxPathBytes
  /\ Len(Split(raw)) <= MaxComponents
  /\ \A k \in 1 .. Len(Split(raw)) : NameOk(Split(raw)[k])

\* RelativePath::as_bytes.
AsBytes(path) == FoldLeft(LAMBDA bytes, name : bytes \o <<Slash>> \o name, path[1], Tail(path))

EncodedLen(path) ==
  FoldLeft(LAMBDA length, name : length + Len(name), Len(path) - 1, path)

ShapeOk(path) ==
  /\ path # <<>>
  /\ \A k \in 1 .. Len(path) : Len(path[k]) <= MaxComponentBytes
  /\ Len(path) <= MaxComponents
  /\ EncodedLen(path) <= MaxPathBytes

ParentPaths(path) == {SubSeq(path, 1, k) : k \in 1 .. Len(path) - 1}

IsAncestorOf(path, other) == IsStrictPrefix(path, other)

\* The order of vectors: the first difference decides, a prefix comes first.
LexLess(s, t, less(_, _)) ==
  \/ IsStrictPrefix(s, t)
  \/ \E k \in 1 .. Len(s) : /\ k <= Len(t)
                            /\ SubSeq(s, 1, k - 1) = SubSeq(t, 1, k - 1)
                            /\ less(s[k], t[k])
NameLess(m, n) == LexLess(m, n, <)
PathLess(p, q) == LexLess(p, q, NameLess)

-----------------------------------------------------------------------------
(* The plan builder *)

\* Fault: the parents of a path are not looked up.
AcceptsIgnoringAncestors(es, path) ==
  /\ ShapeOk(path)
  /\ path \notin DOMAIN es
  /\ Cardinality(DOMAIN es) + 1 <= MaxEntries
  /\ ~\E existing \in DOMAIN es : IsAncestorOf(path, existing)

\* Fault: entries below a path are not looked for.
AcceptsIgnoringDescendants(es, path) ==
  /\ ShapeOk(path)
  /\ path \notin DOMAIN es
  /\ Cardinality(DOMAIN es) + 1 <= MaxEntries
  /\ ParentPaths(path) \cap DOMAIN es = {}

\* The checks of CheckoutPlanBuilder::add, on the entries es added so far.
Accepts(es, path) ==
  /\ ShapeOk(path)
  /\ path \notin DOMAIN es
  /\ Cardinality(DOMAIN es) + 1 <= MaxEntries
  /\ ParentPaths(path) \cap DOMAIN es = {}
  /\ ~\E existing \in DOMAIN es : IsAncestorOf(path, existing)

\* Walking a tree object (a directory entry below it, then the tree itself); b is the builder, with ok FALSE once a step failed.
RECURSIVE ExpandTree(_, _, _, _)
ExpandEntry(b, e, parent, active) ==
  LET path == Append(parent, e.name)
  IN  IF e.mode = Directory
        THEN IF NameOk(e.name) /\ ShapeOk(path)
               THEN ExpandTree(b, e.oid, path, active)
               ELSE [b EXCEPT !.ok = FALSE]
        ELSE IF NameOk(e.name) /\ e.mode \in Supported /\ Accepts(b.entries, path)
               THEN [b EXCEPT !.entries = Bind(@, path, e.mode)]
               ELSE [b EXCEPT !.ok = FALSE]

\* Fault: a tree met again below itself is skipped, not refused.
ExpandTreeRevisiting(b, tree, parent, active) ==
  IF tree \in active
    THEN b
    ELSE IF tree \notin TreeId
      THEN [b EXCEPT !.ok = FALSE]
      ELSE FoldLeft(LAMBDA acc, e : IF acc.ok THEN ExpandEntry(acc, e, parent, active \cup {tree})
                                              ELSE acc,
                    b, b.trees[tree])

ExpandTree(b, tree, parent, active) ==
  IF tree \in active \/ tree \notin TreeId
    THEN [b EXCEPT !.ok = FALSE]
    ELSE FoldLeft(LAMBDA acc, e : IF acc.ok THEN ExpandEntry(acc, e, parent, active \cup {tree})
                                            ELSE acc,
                  b, b.trees[tree])

-----------------------------------------------------------------------------
(* Planning *)

\* A staging directory that an earlier attempt gave up.
Leftover == Bind(Empty, <<<<Slash + 1>>>>, "100644")

Init ==
  /\ trees = [t \in TreeId |-> <<>>]
  /\ policy \in {"reject", "empty_directory"}
  /\ entries = Empty
  /\ offered = {}
  /\ pc = "building"
  /\ error = "none"
  /\ stage \in {Empty, Leftover}

\* A flattened path that fails leaves the builder as it was.
AddRaw(raw, mode) ==
  /\ pc = "building"
  /\ ParseOk(raw)
  /\ mode \in Supported
  /\ Accepts(entries, Split(raw))
  /\ entries' = Bind(entries, Split(raw), mode)
  /\ offered' = offered \cup {raw}
  /\ UNCHANGED <<trees, policy, pc, error, stage>>

\* The commit's tree is read from the cold store and walked.
PlanCommit(ts) ==
  LET b == ExpandTree([ok |-> TRUE, entries |-> Empty, trees |-> ts], Root, <<>>, {})
  IN  /\ pc = "building"
      /\ offered = {}
      /\ pc' = IF b.ok THEN "planned" ELSE "refused"
      /\ trees' = ts
      /\ entries' = IF b.ok THEN b.entries ELSE Empty
      /\ UNCHANGED <<policy, offered, error, stage>>

Finish ==
  /\ pc = "building"
  /\ offered # {}
  /\ pc' = "planned"
  /\ UNCHANGED <<trees, policy, entries, offered, error, stage>>

\* The directories of a finished plan, and the order everything is created in.
Directories == UNION {ParentPaths(p) : p \in DOMAIN entries}
SortedPaths(S) == SetToSortSeq(S, PathLess)
Order == SortedPaths(Directories) \o SortedPaths(DOMAIN entries)

-----------------------------------------------------------------------------
(* Staging *)

Stop(why) == pc' = "failed" /\ error' = why /\ UNCHANGED stage

\* An fd-relative creation: every parent is an existing directory, and nothing
\* has the name yet.
CreateAt(path, kind) ==
  IF /\ \A p \in ParentPaths(path) : p \in DOMAIN stage /\ stage[p] = "directory"
     /\ path \notin DOMAIN stage
    THEN stage' = Bind(stage, path, kind) /\ UNCHANGED <<pc, error>>
    ELSE Stop("filesystem")

\* The staging directory must be empty.
Begin ==
  /\ pc = "planned"
  /\ IF stage = Empty THEN pc' = "staging" /\ UNCHANGED <<error, stage>> ELSE Stop("stage")
  /\ UNCHANGED <<trees, policy, entries, offered>>

\* The next path of the order is created: a directory, a clone of a cached blob
\* with its mode, a symlink, or for a gitlink what the policy says.
CreateNext ==
  LET path == Order[Cardinality(DOMAIN stage) + 1]
      mode == IF path \in DOMAIN entries THEN entries[path] ELSE Directory
  IN  /\ pc = "staging"
      /\ Cardinality(DOMAIN stage) < Len(Order)
      /\ CASE mode = "160000" /\ policy = "reject" -> Stop("gitlink")
           [] mode \in {Directory, "160000"} -> CreateAt(path, "directory")
           [] mode \in {"100644", "100755", "120000"} -> CreateAt(path, mode)
      /\ UNCHANGED <<trees, policy, entries, offered>>

\* The blob cannot be resolved, hydrated or cloned, or a symlink's target holds a
\* NUL byte.
SourceFails ==
  /\ pc = "staging"
  /\ Cardinality(DOMAIN stage) \in Len(SortedPaths(Directories)) .. Len(Order) - 1
  /\ entries[Order[Cardinality(DOMAIN stage) + 1]] # "160000"
  /\ Stop("source")
  /\ UNCHANGED <<trees, policy, entries, offered>>

Staged ==
  /\ pc = "staging"
  /\ Cardinality(DOMAIN stage) = Len(Order)
  /\ pc' = "staged"
  /\ UNCHANGED <<trees, policy, entries, offered, error, stage>>

Next ==
  \/ \E raw \in RawPath, mode \in Mode : AddRaw(raw, mode)
  \/ \E ts \in Trees : PlanCommit(ts)
  \/ Finish \/ Begin
  \/ CreateNext \/ SourceFails \/ Staged

Spec == Init /\ [][Next]_vars

-----------------------------------------------------------------------------
(* The counts a workspace manifest records for a plan *)

CountMode(mode) == Cardinality({p \in DOMAIN entries : entries[p] = mode})

\* Fault: executable files are not counted as clones.
FromPlanIgnoringExecutables ==
  [directories |-> Cardinality(Directories),
   regular |-> CountMode("100644"), executable |-> CountMode("100755"),
   symlinks |-> CountMode("120000"), gitlinks |-> CountMode("160000"),
   reflinked |-> CountMode("100644"), copied |-> 0]

FromPlan ==
  [directories |-> Cardinality(Directories),
   regular |-> CountMode("100644"), executable |-> CountMode("100755"),
   symlinks |-> CountMode("120000"), gitlinks |-> CountMode("160000"),
   reflinked |-> CountMode("100644") + CountMode("100755"), copied |-> 0]

ManifestValid(m) ==
  /\ m.copied <= m.regular + m.executable
  /\ m.reflinked <= m.regular + m.executable
  /\ m.copied + m.reflinked = m.regular + m.executable

-----------------------------------------------------------------------------
(* Properties *)

Occurs(kind) == Cardinality({p \in DOMAIN stage : stage[p] = kind})

\* Every variable has its type.
TypeOK ==
  /\ trees \in Trees \cup {[t \in TreeId |-> <<>>]}
  /\ policy \in {"reject", "empty_directory"}
  /\ \A p \in DOMAIN entries : entries[p] \in Supported
  /\ offered \subseteq RawPath
  /\ pc \in {"building", "planned", "refused", "staging", "staged", "failed"}
  /\ error \in {"none", "stage", "gitlink", "source", "filesystem"}
  /\ \A p \in DOMAIN stage : stage[p] \in Supported \cup {"directory"}

\* Whatever order paths are added in, no planned entry lies below another one,
\* and the limits of CheckoutLimits hold for the plan as a whole.
PlanIsTree ==
  /\ \A p, q \in DOMAIN entries : ~IsStrictPrefix(p, q)
  /\ Cardinality(DOMAIN entries) <= MaxEntries
  /\ \A p \in DOMAIN entries : Len(p) <= MaxComponents /\ Len(AsBytes(p)) <= MaxPathBytes

\* Parsing is undone by as_bytes: a plan filled from flattened paths holds exactly
\* the paths it was given, and no component can leave the staging directory.
ParseFaithful ==
  offered # {} =>
    /\ {AsBytes(p) : p \in DOMAIN entries} = offered
    /\ \A p \in DOMAIN entries : \A k \in 1 .. Len(p) :
         /\ p[k] \notin {<<>>, <<Dot>>, <<Dot, Dot>>}
         /\ ToSet(p[k]) \cap {Nul, Slash} = {}

\* The branches of the commit's tree: sequences of <<tree, entry number>> from the
\* root, each step through a directory entry.
Branches(n) ==
  {w \in [1 .. n -> {<<t, i>> : t \in TreeId, i \in 1 .. 2}] :
     /\ w[1][1] = Root
     /\ \A k \in 1 .. n : w[k][2] <= Len(trees[w[k][1]])
     /\ \A k \in 1 .. n - 1 : LET e == trees[w[k][1]][w[k][2]]
                              IN  e.mode = Directory /\ e.oid = w[k + 1][1]}
AllBranches == UNION {Branches(n) : n \in 1 .. MaxComponents + 1}
Tip(w) == trees[w[Len(w)][1]][w[Len(w)][2]]
PathOf(w) == [k \in 1 .. Len(w) |-> trees[w[k][1]][w[k][2]].name]

\* What makes a tree impossible to check out, without regard to how it is walked.
Plannable ==
  LET leaves == {w \in AllBranches : Tip(w).mode # Directory}
  IN  /\ \A w \in AllBranches : NameOk(Tip(w).name) /\ ShapeOk(PathOf(w))
      /\ \A w \in AllBranches : Tip(w).mode \in Supported \cup {Directory}
      /\ \A w \in AllBranches : Tip(w).mode = Directory => Tip(w).oid \in TreeId
      /\ \A v, w \in leaves : v # w => ~IsPrefix(PathOf(v), PathOf(w))
      /\ Cardinality(leaves) <= MaxEntries

\* plan_commit refuses exactly the trees that cannot be checked out (cyclic ones
\* among them), and otherwise plans every leaf of the tree with its mode.
TreePlanned ==
  /\ pc = "refused" => ~Plannable
  /\ pc \in {"planned", "staging", "staged"} /\ offered = {} =>
       /\ Plannable
       /\ {<<p, entries[p]>> : p \in DOMAIN entries}
            = {<<PathOf(w), Tip(w).mode>> : w \in {v \in AllBranches : Tip(v).mode # Directory}}

\* A plan can be created as it stands: no mkdirat, openat or symlinkat of a plan
\* ever meets a missing parent, a parent that is no directory, or a name taken.
Creatable == error # "filesystem"

\* A staged workspace holds what its manifest counts, every regular or executable
\* file being a clone.
CountsMatchStage ==
  pc = "staged" =>
    /\ ManifestValid(FromPlan)
    /\ Occurs("100644") + Occurs("100755") = FromPlan.reflinked
    /\ Occurs("120000") = FromPlan.symlinks
    /\ Occurs("directory") = FromPlan.directories + FromPlan.gitlinks
=============================================================================
