-------------------------- MODULE AuthorityDigest --------------------------
(***************************************************************************)
(* The digests a cold checkpoint's descriptor keeps of its authorities:    *)
(* the catalog, a file or a directory, the configuration and the pins.  A  *)
(* digest is taken of a stream of fields, here the stream itself: a fixed- *)
(* width length is one field, a name or a content one field per byte.  The *)
(* tags and the lengths are numbers that names and contents hold as well.  *)
(***************************************************************************)
EXTENDS RecordFormat

CONSTANTS Entry   \* the directory entries that may be authorities

VARIABLES first, second, digest
vars == <<first, second, digest>>

MAGIC == <<7, 7>>
TagF == 1
TagD == 2
TagE == 3

\* An entry e is a file, whose e.size was observed before its e.content was
\* read, a directory of named e.children, or something else, as a symbolic link.

\* The sorted names of a directory
Sorted(names) == SetToSortSeq(names, Before)

\* A file that is not as long as it was said to be is refused.
FileReads(e) == Len(e.content) = e.size

\* Nothing but files and directories is digested.
RECURSIVE Digestible(_)
Digestible(e) ==
  \/ e.type = "file" /\ FileReads(e)
  \/ e.type = "dir" /\ \A n \in DOMAIN e.children : Digestible(e.children[n])

NameStream(n) == <<Len(n)>> \o n

\* Fault: the end of a directory is not marked.
EndStreamNone == <<>>
EndStream == <<TagE>>

FileStream(e) == <<e.size>> \o e.content

RECURSIVE EntriesStream(_)
EntriesStream(children) ==
  LET names == Sorted(DOMAIN children)
      Child(n) == IF children[n].type = "file"
                    THEN <<TagF>> \o NameStream(n) \o FileStream(children[n])
                    ELSE <<TagD>> \o NameStream(n) \o EntriesStream(children[n].children)
  IN Concat([i \in DOMAIN names |-> Child(names[i])]) \o EndStream

DirectoryStream(e) == MAGIC \o EntriesStream(e.children)

\* A file's digest is of its bytes alone, whatever their number.
EntryDigest(e) ==
  IF e.type = "file" THEN {e.content}
  ELSE IF Digestible(e) THEN {DirectoryStream(e)} ELSE {}

-----------------------------------------------------------------------------
\* The digest of the authority that was staged is compared with another's.
Init == first \in Entry /\ second \in Entry /\ digest = "none"

Take ==
  /\ digest = "none"
  /\ digest' = IF EntryDigest(first) = {} THEN "refused"
               ELSE IF EntryDigest(first) = EntryDigest(second) THEN "same" ELSE "other"
  /\ UNCHANGED <<first, second>>

Next == Take
Spec == Init /\ [][Next]_vars

-----------------------------------------------------------------------------
\* Two authorities with the same digest are the same to the last byte, name
\* and empty directory, unless one is a file that begins as the stream of a
\* directory does: a length before every name and content, and the mark at the
\* end of each directory, keep what belongs to an entry from being read as its
\* sibling (hash_authoritative_directory_entries).
DigestInjective ==
  digest = "same" =>
    \/ first = second
    \/ first.type = "file" /\ second.type = "file" /\ first.content = second.content
    \/ /\ first.type # second.type
       /\ LET e == IF first.type = "file" THEN first ELSE second
          IN Len(e.content) >= 2 /\ SubSeq(e.content, 1, 2) = MAGIC
=============================================================================
