----------------------------- MODULE CloneProbe -----------------------------
(***************************************************************************)
(* The startup probe of the clone domain: a file of the cache is cloned    *)
(* into the staging area, the clone is changed, and the source must not    *)
(* have changed.  The filesystem may refuse to clone, or clone without     *)
(* isolating the two files.  Probes of several processes run at once, and  *)
(* the names of two probes may coincide, for they are made of the time.    *)
(***************************************************************************)
EXTENDS Integers

CONSTANTS Prober,     \* the processes that probe
          Nonce,      \* the times at which a probe may begin
          MaxProbeFaults,  \* errors of a system call
          NoInode

VARIABLES domain,     \* what the filesystem does with a clone
          name,     \* directory -> nonce -> the inode of the probe's file
          content,  \* inode -> what the file holds
          stuck,    \* the names whose removal failed, as (directory, nonce) pairs
          shares,   \* the pairs of inodes that a clone left with one content
          probeStep, nonce, source, target, result, probeFaults
probeVars == <<domain, stuck, name, content, shares, probeStep, nonce, source, target, result, probeFaults>>

Dir == {"cache", "staging"}
Inode == Prober \X Dir
Bytes == {"empty", "source", "changed"}
ProbeSteps == {"start", "createSource", "writeSource", "createTarget", "clone", "readTarget", "openTarget", "writeTarget",
          "readSource", "removeSource", "removeTarget", "sync", "done"}

ProbeInit ==
  /\ domain \in {"isolates", "aliases", "refuses"}
  /\ name = [d \in Dir |-> [n \in Nonce |-> NoInode]]
  /\ content = [i \in Inode |-> "empty"]
  /\ stuck = {} /\ shares = {}
  /\ probeStep = [p \in Prober |-> "start"]
  /\ nonce \in [Prober -> Nonce]
  /\ source = [p \in Prober |-> NoInode]
  /\ target = [p \in Prober |-> NoInode]
  /\ result = [p \in Prober |-> "none"]
  /\ probeFaults = 0

ProbeGoto(p, step) == probeStep' = [probeStep EXCEPT ![p] = step]
\* The closure's error, after which the files are removed all the same
Errs(p) == ProbeGoto(p, "removeSource") /\ result' = [result EXCEPT ![p] = "error"]

Written(i, b) == [j \in Inode |-> IF j = i \/ {i, j} \in shares THEN b ELSE content[j]]

BeginProbe(p) ==
  /\ probeStep[p] = "start"
  /\ ProbeGoto(p, "createSource")
  /\ UNCHANGED <<domain, stuck, name, content, shares, nonce, source, target, result, probeFaults>>

\* create_new: an existing name is an error.
CreateProbeFile(p, d, step, next) ==
  /\ probeStep[p] = step
  /\ IF name[d][nonce[p]] # NoInode
       THEN Errs(p) /\ UNCHANGED <<name, source, target>>
       ELSE /\ name' = [name EXCEPT ![d][nonce[p]] = <<p, d>>]
            /\ ProbeGoto(p, next)
            /\ source' = IF d = "cache" THEN [source EXCEPT ![p] = <<p, d>>] ELSE source
            /\ target' = IF d = "staging" THEN [target EXCEPT ![p] = <<p, d>>] ELSE target
            /\ UNCHANGED result
  /\ UNCHANGED <<domain, stuck, content, shares, nonce, probeFaults>>
CreateSource(p) == CreateProbeFile(p, "cache", "createSource", "writeSource")
CreateTarget(p) == CreateProbeFile(p, "staging", "createTarget", "clone")

WriteSource(p) ==
  /\ probeStep[p] = "writeSource"
  /\ content' = Written(source[p], "source")
  /\ ProbeGoto(p, "createTarget")
  /\ UNCHANGED <<domain, stuck, name, shares, nonce, source, target, result, probeFaults>>

\* FICLONE on the open descriptors
Clone(p) ==
  /\ probeStep[p] = "clone"
  /\ IF domain = "refuses"
       THEN Errs(p) /\ UNCHANGED <<content, shares>>
       ELSE /\ content' = [content EXCEPT ![target[p]] = content[source[p]]]
            /\ shares' = IF domain = "aliases" THEN shares \cup {{source[p], target[p]}} ELSE shares
            /\ ProbeGoto(p, "readTarget") /\ UNCHANGED result
  /\ UNCHANGED <<domain, stuck, name, nonce, source, target, probeFaults>>

\* fs::read opens the name again; another file, or none, may have it.
ReadAgain(p, d, step, next) ==
  LET i == name[d][nonce[p]] IN
  /\ probeStep[p] = step
  /\ IF i = NoInode \/ content[i] # "source"
       THEN Errs(p)
       ELSE ProbeGoto(p, next) /\ result' = [result EXCEPT ![p] = IF next = "removeSource" THEN "isolated" ELSE "none"]
  /\ UNCHANGED <<domain, stuck, name, content, shares, nonce, source, target, probeFaults>>
ReadTarget(p) == ReadAgain(p, "staging", "readTarget", "openTarget")

\* Fault: the clone is read again in the place of the source.
ReadSourceOfClone(p) ==
  /\ probeStep[p] = "readSource"
  /\ IF name["staging"][nonce[p]] = NoInode
       THEN Errs(p)
       ELSE ProbeGoto(p, "removeSource") /\ result' = [result EXCEPT ![p] = "isolated"]
  /\ UNCHANGED <<domain, stuck, name, content, shares, nonce, source, target, probeFaults>>
ReadSource(p) == ReadAgain(p, "cache", "readSource", "removeSource")

OpenTarget(p) ==
  /\ probeStep[p] = "openTarget"
  /\ target' = [target EXCEPT ![p] = name["staging"][nonce[p]]]
  /\ IF name["staging"][nonce[p]] = NoInode THEN Errs(p) ELSE ProbeGoto(p, "writeTarget") /\ UNCHANGED result
  /\ UNCHANGED <<domain, stuck, name, content, shares, nonce, source, probeFaults>>

WriteTarget(p) ==
  /\ probeStep[p] = "writeTarget"
  /\ content' = Written(target[p], "changed")
  /\ ProbeGoto(p, "readSource")
  /\ UNCHANGED <<domain, stuck, name, shares, nonce, source, target, result, probeFaults>>

\* Both names are removed, whoever created them.  An error of a removal is
\* dropped: the file stays, and the result is returned all the same.
RemoveProbeFile(p, d, step, next) ==
  /\ probeStep[p] = step
  /\ \/ /\ name' = [name EXCEPT ![d][nonce[p]] = NoInode]
        /\ stuck' = stuck \ {<<d, nonce[p]>>} /\ UNCHANGED probeFaults
     \/ /\ name[d][nonce[p]] # NoInode
        /\ probeFaults < MaxProbeFaults /\ probeFaults' = probeFaults + 1
        /\ stuck' = stuck \cup {<<d, nonce[p]>>} /\ UNCHANGED name
  /\ ProbeGoto(p, next)
  /\ UNCHANGED <<domain, content, shares, nonce, source, target, result>>

\* Fault: a probe that failed returns at once.
RemoveSourceSucceeded(p) ==
  /\ probeStep[p] = "removeSource"
  /\ IF result[p] = "error" THEN ProbeGoto(p, "done") /\ UNCHANGED name
       ELSE ProbeGoto(p, "removeTarget") /\ name' = [name EXCEPT !["cache"][nonce[p]] = NoInode]
  /\ UNCHANGED <<domain, stuck, content, shares, nonce, source, target, result, probeFaults>>
RemoveSource(p) == RemoveProbeFile(p, "cache", "removeSource", "removeTarget")
RemoveTarget(p) == RemoveProbeFile(p, "staging", "removeTarget", "sync")

ProbeReturn(p) ==
  /\ probeStep[p] = "sync"
  /\ ProbeGoto(p, "done")
  /\ UNCHANGED <<domain, stuck, name, content, shares, nonce, source, target, result, probeFaults>>
SyncFails(p) ==
  /\ probeStep[p] = "sync"
  /\ probeFaults < MaxProbeFaults /\ probeFaults' = probeFaults + 1
  /\ ProbeGoto(p, "done") /\ result' = [result EXCEPT ![p] = "error"]
  /\ UNCHANGED <<domain, stuck, name, content, shares, nonce, source, target>>

\* A system call of the closure fails.
CallFails(p) ==
  /\ probeStep[p] \notin {"start", "removeSource", "removeTarget", "sync", "done"}
  /\ probeFaults < MaxProbeFaults /\ probeFaults' = probeFaults + 1
  /\ Errs(p)
  /\ UNCHANGED <<domain, stuck, name, content, shares, nonce, source, target>>

Step(p) ==
  \/ BeginProbe(p) \/ CreateSource(p) \/ WriteSource(p) \/ CreateTarget(p) \/ Clone(p) \/ ReadTarget(p)
  \/ OpenTarget(p) \/ WriteTarget(p) \/ ReadSource(p) \/ RemoveSource(p) \/ RemoveTarget(p) \/ ProbeReturn(p) \/ SyncFails(p)
  \/ CallFails(p)
ProbeNext == \E p \in Prober : Step(p)
ProbeSpec == ProbeInit /\ [][ProbeNext]_probeVars

-----------------------------------------------------------------------------
\* Every variable has its type.
ProbeTypeOK ==
  /\ name \in [Dir -> [Nonce -> Inode \cup {NoInode}]]
  /\ content \in [Inode -> Bytes]
  /\ probeStep \in [Prober -> ProbeSteps]
  /\ stuck \subseteq Dir \X Nonce
  /\ result \in [Prober -> {"none", "isolated", "error"}]
  /\ probeFaults \in 0 .. MaxProbeFaults

\* At most one other probe began at the time of p's.
Paired(p) == \A q, r \in Prober \ {p} : nonce[q] = nonce[p] /\ nonce[r] = nonce[p] => q = r

\* A probe that reports an isolated clone ran on a filesystem that isolates
\* clones, also when another probe of the same time removed or replaced its
\* files on the way (probe_clone_domain).  A third of the same time could put
\* a fresh source in the place of a changed one.
ProbeSound == \A p \in Prober : probeStep[p] = "done" /\ result[p] = "isolated" /\ Paired(p) => domain = "isolates"

\* Once every probe has returned, however it ended and whoever created which
\* file, none is left in the cache or in the staging area but under a name
\* whose last removal failed (probe_clone_domain's cleanup, which drops that error).
ProbesClean ==
  (\A p \in Prober : probeStep[p] = "done") =>
    \A d \in Dir, n \in Nonce : name[d][n] # NoInode => <<d, n>> \in stuck

-----------------------------------------------------------------------------
(* The inductive invariant of these properties.                            *)

\* After the clone and until the verdict
Comparing == {"readTarget", "openTarget", "writeTarget", "readSource"}
\* From the creation of the file in a directory to the end of the comparison, ...
Working(d) == Comparing \cup {"clone"} \cup (IF d = "cache" THEN {"writeSource", "createTarget"} ELSE {})
\* ... to its removal, ...
Holding(d) == Working(d) \cup {"removeSource"} \cup (IF d = "staging" THEN {"removeTarget"} ELSE {})
\* ... and after it
Removed(d) == {"sync", "done"} \cup (IF d = "cache" THEN {"removeTarget"} ELSE {})

\* A name leads to the file of a probe of its time that has yet to remove it, or
\* its removal failed.
Owned(d) == \A n \in Nonce :
  name[d][n] # NoInode /\ <<d, n>> \notin stuck => \E q \in Prober : name[d][n] = <<q, d>> /\ nonce[q] = n /\ probeStep[q] \in Holding(d)

\* Only the removals of another probe of the same time take a file's name away, ...
NameTaken(d) == \A p \in Prober : probeStep[p] \in Working(d) =>
  \/ name[d][nonce[p]] = <<p, d>>
  \/ \E r \in Prober \ {p} : nonce[r] = nonce[p] /\ probeStep[r] \in Removed(d)

\* ... and a single other one does not give it to a file of its own after that.
Alone(d) == \A p \in Prober :
  Paired(p) /\ probeStep[p] \in Working(d) => name[d][nonce[p]] \in {<<p, d>>, NoInode}

\* What the open descriptors refer to.
Opened == \A p \in Prober :
  /\ probeStep[p] \in Working("cache") => source[p] = <<p, "cache">>
  /\ probeStep[p] = "clone" => target[p] = <<p, "staging">>
  /\ probeStep[p] = "writeTarget" => target[p] \in Inode /\ (Paired(p) => target[p] = <<p, "staging">>)

\* What a filesystem that does not isolate them does to a source and its clone.
Aliased ==
  /\ \A s \in shares : \E p \in Prober : s = {<<p, "cache">>, <<p, "staging">>}
  /\ \A p \in Prober : probeStep[p] \in Comparing =>
       domain # "refuses" /\ (domain = "aliases" => {<<p, "cache">>, <<p, "staging">>} \in shares)
  /\ \A p \in Prober : Paired(p) /\ domain = "aliases" /\ probeStep[p] = "readSource" => content[<<p, "cache">>] = "changed"

ProbeIInv ==
  /\ ProbeTypeOK /\ nonce \in [Prober -> Nonce] /\ domain \in {"isolates", "aliases", "refuses"}
  /\ source = [p \in Prober |-> source[p]] /\ target = [p \in Prober |-> target[p]]
  /\ \A d \in Dir : Owned(d) /\ NameTaken(d) /\ Alone(d)
  /\ Opened /\ Aliased
  /\ \A p \in Prober : result[p] = "isolated" /\ Paired(p) => domain = "isolates"

\* No probe's file is NoInode, and faults are counted.
ProbeConstants == NoInode \notin Inode /\ MaxProbeFaults \in Nat
ASSUME ProbeAssumption == ProbeConstants

\* A probe reports isolation only where there is isolation, and probes leave
\* nothing behind but what they could not remove.
ProbesSound == ProbeTypeOK /\ ProbeSound /\ ProbesClean
=============================================================================
