--------------------------- MODULE ProtectedFiles ---------------------------
(***************************************************************************)
(* The files the tamper protection is about, as plugin-tamper's immutable  *)
(* and manifest modules see them.  A disk is a function from paths to      *)
(* files; a file is absent or has a type, some data and its inode flags.   *)
(* A digest stands for the data itself: SHA-256 is taken as injective.     *)
(***************************************************************************)
EXTENDS Naturals, Functions

CONSTANT Length     \* Length[d]: the size in bytes of data d

Absent == [type |-> "absent", data |-> "none", flags |-> {}]
Plain(data) == [type |-> "file", data |-> data, flags |-> {}]
Files == {Absent} \cup [type : {"file", "other"}, data : DOMAIN Length,
                        flags : SUBSET {"immutable", "nodump"}]

Exists(disk, path) == disk[path] # Absent

(***************************************************************************)
(* immutable.rs: the flags word is read, one bit of it changed, and        *)
(* written back only if it differs.  A missing file has no flags to read.  *)
(***************************************************************************)
ApplyImmutable(flags, on) ==
  IF on THEN flags \cup {"immutable"} ELSE flags \ {"immutable"}

SetImmutable(disk, path, on) ==
  IF Exists(disk, path)
  THEN [disk EXCEPT ![path].flags = ApplyImmutable(@, on)]
  ELSE disk

CheckImmutable(disk, path) == "immutable" \in disk[path].flags

\* What the kernel allows: nobody writes or removes a locked file, opening
\* anything but a regular file for writing is refused (O_NOFOLLOW, EISDIR),
\* and so is truncating a file that some process executes.
MayWrite(disk, path, running) ==
  /\ ~CheckImmutable(disk, path)
  /\ disk[path].type \in {"absent", "file"}
  /\ path \notin running
MayRemove(disk, path) == ~CheckImmutable(disk, path)

\* write_root_owned and copy_root_owned truncate and write through one file
\* descriptor: the inode and its flags survive.
Write(disk, path, data) ==
  [disk EXCEPT ![path] = [type |-> "file", data |-> data, flags |-> @.flags]]

(***************************************************************************)
(* manifest.rs: the baseline maps every path to the data it had, and each  *)
(* check compares type, length and then content.                           *)
(***************************************************************************)
Readable(disk, paths) == \A p \in paths : disk[p].type = "file"
FromPaths(disk, paths) == [p \in paths |-> disk[p].data]

VerifyEntry(expected, file) ==
  IF file = Absent THEN "missing"
  ELSE IF file.type # "file" \/ Length[file.data] # Length[expected]
       THEN "size changed"
  ELSE IF file.data # expected THEN "content changed" ELSE "ok"

\* verify: the entries that drifted, each with its verdict.
Verify(baseline, disk) ==
  {<<p, VerifyEntry(baseline[p], disk[p])>> :
     p \in {q \in DOMAIN baseline : VerifyEntry(baseline[q], disk[q]) # "ok"}}
=============================================================================
