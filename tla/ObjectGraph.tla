---------------------------- MODULE ObjectGraph ----------------------------
(***************************************************************************)
(* The two walks over the Git object graph (reflink-forest-git): the one   *)
(* that reads a local repository for an import, and the one that marks the *)
(* live records of the cold store for a collection.  Both find the objects *)
(* an object names with referenced_oids.                                   *)
(*                                                                         *)
(* The hash has no collisions here: an object ID stands for its content,   *)
(* so a repository's aliases are the set of objects it has an alias for.   *)
(* An object is its kind and its lines: [key, oid] for a header line of a  *)
(* commit or a tag, whose oid is None when it does not parse, and for an   *)
(* entry of a tree, whose key is its mode.                                 *)
(***************************************************************************)
EXTENDS Integers, SequencesExt

CONSTANTS
  Repo,              \* repositories
  Object,            \* objects, by their ID
  None,              \* no object
  MaxSnapshotRoots,  \* MarkLimits
  MaxReferences,
  MaxObjects,
  Retained,          \* the lists of references jobs and boot metadata may retain
  MaxGen,            \* bound: collections, plus one
  MaxLost,           \* bound: changes of a repository
  MaxImports         \* bound: imports

VARIABLES
  data,        \* [Object -> object]: what the IDs are the hashes of
  odb,         \* [Repo -> SUBSET Object]: objects a repository holds
  refs,        \* [Repo -> Seq(Object)]: targets of its branches and tags, by name
  alias,       \* [Repo -> SUBSET Object]: OID aliases of the catalog
  location,    \* [Object -> 0 .. MaxGen]: generation of the record, 0 if none
  generation,  \* current generation
  ready,       \* [Repo -> Seq(Seq(Object))]: refs of the Ready snapshots
  pc, repo, snapshot, pending, seen, fetched, queued, marked, retained,
  outcome,     \* why the last walk stopped, and at which object
  lost, imports

catalog == <<alias, location, generation, ready>>
walk == <<snapshot, pending, seen, fetched, queued, marked, retained>>
vars == <<data, odb, refs, catalog, pc, repo, walk, outcome, lost, imports>>

-----------------------------------------------------------------------------
\* referenced_oids: {} when the object is malformed, else the one sequence of
\* the IDs it names.
Keyed(lines, key) == SelectSeq(lines, LAMBDA l : l.key = key)
Oids(lines) == [i \in DOMAIN lines |-> lines[i].oid]
ObjectHeader(lines) ==
  LET blanks == {i \in DOMAIN lines : lines[i].key = "blank"}
  IN IF blanks = {} THEN lines ELSE SubSeq(lines, 1, (CHOOSE i \in blanks : \A j \in blanks : i <= j) - 1)

ParseCommitReferences(o) ==
  LET h == ObjectHeader(o.lines)
      named == Oids(Keyed(h, "tree")) \o Oids(Keyed(h, "parent"))
  IN IF Len(Keyed(h, "tree")) = 1 /\ None \notin Range(named) THEN {named} ELSE {}

ParseTagReferences(o) ==
  LET target == Oids(Keyed(ObjectHeader(o.lines), "object"))
  IN IF Len(target) = 1 /\ None \notin Range(target) THEN {target} ELSE {}

\* Fault: the entries of a tree that are trees are not followed.
ParseTreeFilesOnly(o) ==
  IF \A i \in DOMAIN o.lines : o.lines[i].key \in {"40000", "100644", "100755", "120000", "160000"}
  THEN {Oids(SelectSeq(o.lines, LAMBDA l : l.key # "40000"))} ELSE {}

ParseTreeReferences(o) ==
  IF \A i \in DOMAIN o.lines : o.lines[i].key \in {"40000", "100644", "100755", "120000", "160000"}
  THEN {Oids(o.lines)} ELSE {}

ReferencedOids(o) ==
  CASE o.kind = "blob" -> {<<>>}
    [] o.kind = "commit" -> ParseCommitReferences(o)
    [] o.kind = "tag" -> ParseTagReferences(o)
    [] o.kind = "tree" -> ParseTreeReferences(o)

-----------------------------------------------------------------------------
\* Every variable has its type.
TypeOK ==
  /\ DOMAIN data = Object
  /\ odb \in [Repo -> SUBSET Object]
  /\ refs \in [Repo -> Seq(Object)]
  /\ alias \in [Repo -> SUBSET Object]
  /\ location \in [Object -> 0 .. MaxGen] /\ generation \in 1 .. MaxGen
  /\ ready \in [Repo -> Seq(Seq(Object))]
  /\ pc \in {"idle", "read", "store", "mark", "marked"} /\ repo \in Repo
  /\ Range(snapshot) \cup Range(fetched) \cup marked \subseteq Object
  /\ Range(pending) \cup seen \cup retained \subseteq Repo \X Object
  /\ queued \in 0 .. MaxReferences
  /\ lost \in 0 .. MaxLost /\ imports \in 0 .. MaxImports

Idle ==
  /\ pc = "idle" /\ snapshot = <<>> /\ pending = <<>> /\ seen = {} /\ fetched = <<>>
  /\ queued = 0 /\ marked = {} /\ retained = {}

\* What the variables of a walk are after it.
Ended(why, o) ==
  /\ pc' = "idle" /\ pending' = <<>> /\ seen' = {} /\ fetched' = <<>>
  /\ queued' = 0 /\ marked' = {}
  /\ outcome' = <<why, o>>

Init ==
  /\ alias = [r \in Repo |-> {}] /\ location = [o \in Object |-> 0] /\ generation = 1
  /\ ready = [r \in Repo |-> <<>>]
  /\ Idle /\ repo = (CHOOSE r \in Repo : TRUE) /\ outcome = <<"none", None>>
  /\ lost = 0 /\ imports = 0

-----------------------------------------------------------------------------
\* The owner of a repository moves its first ref, and Git prunes an object, in
\* the middle of an import: at other times it is another repository.
MoveRef(r, o) ==
  /\ pc = "read" /\ r = repo /\ lost < MaxLost /\ o \in odb[r] /\ refs[r] # <<>> /\ refs[r][1] # o
  /\ refs' = [refs EXCEPT ![r][1] = o]
  /\ lost' = lost + 1
  /\ UNCHANGED <<data, odb, catalog, pc, repo, walk, outcome, imports>>

Prune(r, o) ==
  /\ pc = "read" /\ r = repo /\ lost < MaxLost /\ o \in odb[r]
  /\ odb' = [odb EXCEPT ![r] = @ \ {o}]
  /\ lost' = lost + 1
  /\ UNCHANGED <<data, refs, catalog, pc, repo, walk, outcome, imports>>

-----------------------------------------------------------------------------
\* import_local_refs: the refs are captured ...
SnapshotLocalRefs(r) ==
  /\ pc = "idle" /\ imports < MaxImports
  /\ pc' = "read" /\ repo' = r
  /\ snapshot' = refs[r]
  /\ pending' = [i \in DOMAIN refs[r] |-> <<r, refs[r][i]>>]
  /\ imports' = imports + 1
  /\ outcome' = <<"none", None>>
  /\ retained' = {}
  /\ UNCHANGED <<data, odb, refs, catalog, seen, fetched, queued, marked, lost>>

\* ... reachable_objects reads what they reach, an object at a time ...
Seen ==
  /\ pc = "read" /\ pending # <<>> /\ Head(pending) \in seen
  /\ pending' = Tail(pending)
  /\ UNCHANGED <<data, odb, refs, catalog, pc, repo, snapshot, seen, fetched, queued, marked, retained, outcome, lost, imports>>

ReadObject ==
  /\ pc = "read" /\ pending # <<>> /\ Head(pending) \notin seen
  /\ LET o == Head(pending)[2]
     IN /\ o \in odb[repo]
        /\ \E children \in ReferencedOids(data[o]) :
             pending' = Tail(pending) \o [i \in DOMAIN children |-> <<repo, children[i]>>]
        /\ seen' = seen \cup {Head(pending)}
        /\ fetched' = Append(fetched, o)
  /\ UNCHANGED <<data, odb, refs, catalog, pc, repo, snapshot, queued, marked, retained, outcome, lost, imports>>

ReadFails ==
  /\ pc = "read" /\ pending # <<>> /\ Head(pending) \notin seen
  /\ LET o == Head(pending)[2]
     IN \/ o \notin odb[repo] /\ Ended("missing object", o)
        \/ o \in odb[repo] /\ ReferencedOids(data[o]) = {} /\ Ended("malformed object", o)
  /\ UNCHANGED <<data, odb, refs, catalog, repo, snapshot, retained, lost, imports>>

ReadAll ==
  /\ pc = "read" /\ pending = <<>>
  /\ pc' = "store"
  /\ UNCHANGED <<data, odb, refs, catalog, repo, walk, outcome, lost, imports>>

\* ... and each is appended, or found in the catalog, and aliased, until the
\* disk is full or all are.

\* Fault: an object that is found in the catalog is left as it is.
AppendUnlessFound ==
  /\ pc = "store" /\ fetched # <<>>
  /\ LET o == Head(fetched)
     IN IF location[o] = 0
        THEN /\ location' = [location EXCEPT ![o] = generation]
             /\ alias' = [alias EXCEPT ![repo] = @ \cup {o}]
        ELSE UNCHANGED <<location, alias>>
  /\ fetched' = Tail(fetched)
  /\ UNCHANGED <<data, odb, refs, generation, ready, pc, repo, snapshot, pending, seen, queued, marked, retained, outcome, lost, imports>>

AppendAndIndex ==
  /\ pc = "store" /\ fetched # <<>>
  /\ LET o == Head(fetched)
     IN /\ location' = [location EXCEPT ![o] = IF @ = 0 THEN generation ELSE @]
        /\ alias' = [alias EXCEPT ![repo] = @ \cup {o}]
  /\ fetched' = Tail(fetched)
  /\ UNCHANGED <<data, odb, refs, generation, ready, pc, repo, snapshot, pending, seen, queued, marked, retained, outcome, lost, imports>>

StoreFails ==
  /\ pc = "store" /\ fetched # <<>>
  /\ Ended("store", None)
  /\ UNCHANGED <<data, odb, refs, catalog, repo, snapshot, retained, lost, imports>>

\* publish_snapshot_manifest, with the captured refs (see SnapshotPublication).
PublishSnapshot ==
  /\ pc = "store" /\ fetched = <<>>
  /\ ready' = [ready EXCEPT ![repo] = Append(@, snapshot)]
  /\ Ended("published", None)
  /\ UNCHANGED <<data, odb, refs, alias, location, generation, repo, snapshot, retained, lost, imports>>

-----------------------------------------------------------------------------
\* completed_mark_set: the refs of every Ready snapshot and the retained
\* objects are queued, one by one, an object that two of them name twice ...
SnapshotRoots == UNION {{<<r, n>> : n \in DOMAIN ready[r]} : r \in Repo}
ManifestRefs(root) == LET targets == ready[root[1]][root[2]] IN [i \in DOMAIN targets |-> <<root[1], targets[i]>>]

\* Fault: only snapshots are taken for roots.
RootsOfSnapshots(kept) == FoldSet(LAMBDA root, queue : queue \o ManifestRefs(root), <<>>, SnapshotRoots)

Roots(kept) == FoldSet(LAMBDA root, queue : queue \o ManifestRefs(root), <<>>, SnapshotRoots) \o kept

QueueRoots(kept) ==
  /\ pc = "idle"
  /\ LET queue == Roots(kept)
     IN IF Cardinality(SnapshotRoots) > MaxSnapshotRoots
        THEN Ended("too many roots", None)
        ELSE IF Len(queue) > MaxReferences
        THEN Ended("too many references", None)
        ELSE /\ pc' = "mark" /\ pending' = queue /\ queued' = Len(queue)
             /\ outcome' = <<"none", None>>
             /\ UNCHANGED <<seen, fetched, marked>>
  /\ retained' = Range(kept)
  /\ snapshot' = <<>>
  /\ UNCHANGED <<data, odb, refs, catalog, repo, lost, imports>>

\* ... and every reference that was not visited is resolved, and verified; the
\* object is marked, and what it names is queued unless the content was marked
\* before.
MarkVisited ==
  /\ pc = "mark" /\ pending # <<>> /\ Head(pending) \in seen
  /\ pending' = Tail(pending)
  /\ UNCHANGED <<data, odb, refs, catalog, pc, repo, snapshot, seen, fetched, queued, marked, retained, outcome, lost, imports>>

MarkReference ==
  /\ pc = "mark" /\ pending # <<>> /\ Head(pending) \notin seen
  /\ LET r == Head(pending)[1]
         o == Head(pending)[2]
         children == ReferencedOids(data[o])
     IN CASE o \notin alias[r] -> Ended("missing alias", o)
          [] o \in alias[r] /\ location[o] = 0 -> Ended("missing location", o)
          [] o \in alias[r] /\ location[o] \notin {0, generation} -> Ended("outside current generation", o)
          [] OTHER ->
               IF o \in marked
               THEN /\ pending' = Tail(pending) /\ seen' = seen \cup {Head(pending)}
                    /\ UNCHANGED <<pc, fetched, queued, marked, outcome>>
               ELSE IF Cardinality(marked) >= MaxObjects THEN Ended("too many objects", o)
               ELSE IF children = {} THEN Ended("invalid object", o)
               ELSE \E names \in children :
                      IF queued + Len(names) > MaxReferences THEN Ended("too many references", o)
                      ELSE /\ pending' = Tail(pending) \o [i \in DOMAIN names |-> <<r, names[i]>>]
                           /\ seen' = seen \cup {Head(pending)}
                           /\ queued' = queued + Len(names)
                           /\ marked' = marked \cup {o}
                           /\ UNCHANGED <<pc, fetched, outcome>>
  /\ UNCHANGED <<data, odb, refs, catalog, repo, snapshot, retained, lost, imports>>

\* The record cannot be read, or is not the one its location names.
MarkFails ==
  /\ pc = "mark" /\ pending # <<>> /\ Head(pending) \notin seen
  /\ LET r == Head(pending)[1]
         o == Head(pending)[2]
     IN o \in alias[r] /\ location[o] = generation
  /\ Ended("read", None)
  /\ UNCHANGED <<data, odb, refs, catalog, repo, snapshot, retained, lost, imports>>

MarkAll ==
  /\ pc = "mark" /\ pending = <<>>
  /\ pc' = "marked"
  /\ UNCHANGED <<data, odb, refs, catalog, repo, walk, outcome, lost, imports>>

\* compact_completed_mark_set: the marked records, and no others, move to the
\* next generation.
Compact ==
  /\ pc = "marked" /\ generation < MaxGen
  /\ location' = [o \in Object |-> IF o \in marked THEN generation + 1 ELSE location[o]]
  /\ generation' = generation + 1
  /\ Ended("compacted", None)
  /\ UNCHANGED <<data, odb, refs, alias, ready, repo, snapshot, retained, lost, imports>>

Next ==
  \/ \E r \in Repo : SnapshotLocalRefs(r) \/ \E o \in Object : MoveRef(r, o) \/ Prune(r, o)
  \/ Seen \/ ReadObject \/ ReadFails \/ ReadAll \/ AppendAndIndex \/ StoreFails \/ PublishSnapshot
  \/ \E kept \in Retained : (\A k \in Range(kept) : k[2] \in alias[k[1]]) /\ QueueRoots(kept)
  \/ MarkVisited \/ MarkReference \/ MarkFails \/ MarkAll \/ Compact

Spec == Init /\ [][Next]_vars

-----------------------------------------------------------------------------
\* What Git needs of a repository for one object: the trees and parents of a
\* commit, the target of a tag, the entries of a tree that are no gitlinks.
Needs(o) == {l.oid : l \in {l \in Range(ObjectHeader(data[o].lines)) :
  l.key \in {"tree", "parent", "object", "40000", "100644", "100755", "120000"}}} \ {None}
Names(o) == {l.oid : l \in Range(data[o].lines)} \ {None}

\* All objects that can be reached from some, along one or the other relation.
Within(edges, roots) ==
  LET reach[n \in 0 .. Cardinality(Object)] ==
        IF n = 0 THEN roots ELSE LET near == reach[n - 1] IN near \cup UNION {edges[o] : o \in near}
  IN reach[Cardinality(Object)]
Needed(roots) == Within([o \in Object |-> Needs(o)], roots)
Named(roots) == Within([o \in Object |-> Names(o)], roots)

ReadyRefs(r) == UNION {Range(s) : s \in Range(ready[r])}

\* A Ready snapshot is complete: all objects its refs need, however the
\* repository changed during the import and whatever other imports stored
\* before, have an alias in its repository and a record.
SnapshotsComplete == \A r \in Repo : \A o \in Needed(ReadyRefs(r)) : o \in alias[r] /\ location[o] # 0

\* A mark set that is handed to the compaction holds every object that the
\* Ready snapshots and the retained references need in any repository, though
\* the walk skips references and contents it met before, and none that
\* nothing live names.
MarkSetExact == pc = "marked" =>
  LET roots == UNION {ReadyRefs(r) : r \in Repo} \cup {k[2] : k \in retained}
  IN Needed(roots) \subseteq marked /\ marked \subseteq Named(roots)

\* The import and the mark walk agree on what an object names: no mark is
\* given up because an object of a published snapshot has no alias, no record
\* or does not parse, unless an object outside of them is retained.
PublishedMarkable ==
  (\A k \in retained : k[2] \in Named(ReadyRefs(k[1]))) =>
    outcome[1] \notin {"missing alias", "missing location", "invalid object"}

\* An import is given up for a missing object only if the refs need that object
\* of the repository: the commit of a submodule is recorded, not looked up.
GitlinksExternal == outcome[1] = "missing object" => outcome[2] \in Needed(Range(snapshot))
=============================================================================
