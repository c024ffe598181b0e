-------------------------------- MODULE RamFs --------------------------------
(***************************************************************************)
(* Files in memory (ramfs.c): a table of entries, each with its whole path.*)
(* Paths are compared as a whole, and a path that is too long is cut when  *)
(* it is stored, so that it is not found again.                            *)
(***************************************************************************)
EXTENDS Integers, Sequences, FiniteSetsExt

CONSTANTS
  RAMFS_MAX_ENTRIES, RAMFS_FILE_CAP,
  Paths,     \* paths that are used
  Stored,    \* what is stored of each of them: itself, or its first part
  ParentDir,    \* parent_of() of what is stored
  FileBytes,
  FileTexts  \* what is written

\* No path that is used is what another is cut to: its callers would share its
\* entry, or have two of them.
ASSUME RamAssumption ==
  /\ RAMFS_MAX_ENTRIES \in Nat /\ RAMFS_FILE_CAP \in Nat \ {0}
  /\ \A p, q \in Paths : Stored[p] = q => p = q
  /\ FileTexts \subseteq Seq(FileBytes)

VARIABLES
  fs,       \* the entries
  contents  \* history: what a reader of each path that is not cut should find

ramVars == <<fs, contents>>

FsSlots == 0..RAMFS_MAX_ENTRIES - 1
Missing == [is_dir |-> FALSE, there |-> FALSE, data |-> <<>>]
FileOf(data) == [is_dir |-> FALSE, there |-> TRUE, data |-> data]
Folder == [is_dir |-> TRUE, there |-> TRUE, data |-> <<>>]
UnusedEntry == [used |-> FALSE, path |-> "none", file |-> Missing]

RamInit ==
  /\ fs = [i \in FsSlots |-> UnusedEntry]
  /\ contents = [p \in Paths |-> Missing]

\* The first entry with this path, or -1.
find(path) ==
  LET I == {i \in FsSlots : fs[i].used /\ fs[i].path = path} IN IF I = {} THEN -1 ELSE Min(I)

alloc_entry ==
  LET I == {i \in FsSlots : ~fs[i].used} IN IF I = {} THEN -1 ELSE Min(I)

Fits(data) == SubSeq(data, 1, Min({Len(data), RAMFS_FILE_CAP - 1}))

\* An entry for path, with this file or folder.
Enters(i, path, file) ==
  fs' = [fs EXCEPT ![i] = [used |-> TRUE, path |-> Stored[path], file |-> file]]

ramfs_mkdir(path) ==
  /\ find(path) < 0 /\ alloc_entry >= 0
  /\ Enters(alloc_entry, path, Folder)
  /\ contents' = [contents EXCEPT ![path] = Folder]

\* Seeded fault: it is always a new entry.
WritesAnew(path, data) ==
  /\ alloc_entry >= 0
  /\ Enters(alloc_entry, path, FileOf(Fits(data)))
  /\ contents' = [contents EXCEPT ![path] = FileOf(Fits(data))]

\* -1 for a folder and -2 for a full table: nothing changes.
ramfs_write(path, data) ==
  /\ IF find(path) >= 0
     THEN ~fs[find(path)].file.is_dir /\ fs' = [fs EXCEPT ![find(path)].file = FileOf(Fits(data))]
     ELSE alloc_entry >= 0 /\ Enters(alloc_entry, path, FileOf(Fits(data)))
  /\ contents' = [contents EXCEPT ![path] = FileOf(Fits(data))]

\* What does not fit is dropped.
ramfs_append(path, data) ==
  IF find(path) < 0 THEN ramfs_write(path, data)
  ELSE /\ ~fs[find(path)].file.is_dir
       /\ fs' = [fs EXCEPT ![find(path)].file.data = Fits(@ \o data)]
       /\ contents' = [contents EXCEPT ![path].data = Fits(@ \o data)]

\* A folder is removed whether it is empty or not.
ramfs_remove(path) ==
  /\ find(path) >= 0
  /\ fs' = [fs EXCEPT ![find(path)].used = FALSE]
  /\ contents' = [contents EXCEPT ![path] = Missing]

ramfs_read(path) ==
  IF find(path) < 0 THEN Missing ELSE fs[find(path)].file

\* The paths that ramfs_list() shows.
ramfs_list(dir) == {fs[i].path : i \in {j \in FsSlots : fs[j].used /\ ParentDir[fs[j].path] = dir}}

RamNext ==
  \E path \in Paths :
    \/ ramfs_mkdir(path) \/ ramfs_remove(path)
    \/ \E data \in FileTexts : ramfs_write(path, data) \/ ramfs_append(path, data)

RamSpec == RamInit /\ [][RamNext]_ramVars

-----------------------------------------------------------------------------
(* Properties. *)

\* Whatever was written, appended, removed and made again, a path that is not
\* cut reads as it was left, it is listed once in its folder if it is there,
\* and no two entries have it.
ReadsAsItWasLeft ==
  \A p \in Paths :
    Stored[p] = p =>
      /\ ramfs_read(p) = contents[p]
      /\ p \in ramfs_list(ParentDir[p]) <=> contents[p].there
      /\ Cardinality({i \in FsSlots : fs[i].used /\ fs[i].path = p}) <= 1
=============================================================================
