----------------------------- MODULE AtomicWrite -----------------------------
(***************************************************************************)
(* write_atomic, system call by system call, on one file that several      *)
(* processes write and others read: a temporary file named after the       *)
(* writer's pid, fsync, chmod, rename.  A process may be killed anywhere,  *)
(* its pid may come back, and its temporary file is then still there.      *)
(*                                                                         *)
(* Files are inodes, because a descriptor and a name may refer to the same *)
(* one.  A content is written in two pieces.  The files live on a tmpfs,   *)
(* so that a power failure takes them all.                                 *)
(***************************************************************************)
EXTENDS Integers, Sequences

CONSTANTS
    Procs,      \* the pids of the writers
    Readers,    \* the processes that read the file
    Values,     \* contents
    Inodes,     \* at least one for each name and each descriptor
    None        \* no inode, no content

ASSUME NoneAssumption == None \notin Inodes \cup Values

VARIABLES
    inode,      \* inode -> its two pieces and its permissions
    path,       \* the inode of the file
    tmp,        \* pid -> the inode of the temporary file, or None
    fd,         \* pid -> the inode it has open for writing, or None
    at,         \* pid -> where its call stands
    pos,        \* pid -> how many pieces it has written
    val,        \* pid -> what it writes
    reader      \* reader -> the inode it has open, the pieces it has read,
                \* and, for the properties, the content when it opened

files == <<inode, path, tmp>>
writeVars == <<files, fd, at, pos, val, reader>>

Both(v) == [k \in 1 .. 2 |-> v]
Blank == [data |-> Both(None), perm |-> "umask"]
File(v) == [data |-> Both(v), perm |-> "mode"]
Closed == [fd |-> None, got |-> <<>>, opened |-> None]

(* The inodes that neither a name nor a descriptor refers to.              *)
Unused == Inodes \ ({path} \cup {tmp[p] : p \in Procs} \cup {fd[p] : p \in Procs}
                      \cup {reader[r].fd : r \in Readers})

WriteInit == /\ path \in Inodes
             /\ \E v \in Values : inode = [i \in Inodes |-> IF i = path THEN File(v) ELSE Blank]
             /\ tmp = [p \in Procs |-> None]
             /\ fd = [p \in Procs |-> None]
             /\ at = [p \in Procs |-> "idle"]
             /\ pos = [p \in Procs |-> 0]
             /\ val \in [Procs -> Values]
             /\ reader = [r \in Readers |-> Closed]

-----------------------------------------------------------------------------
(* The code.                                                               *)

(* ".{file_name}.tmp.{pid}"                                                *)
TmpName(p) == p

Ends(p, result) == /\ at' = [at EXCEPT ![p] = result]
                   /\ fd' = [fd EXCEPT ![p] = None]

Call(p) == /\ at[p] = "idle"
           /\ at' = [at EXCEPT ![p] = "open"]
           /\ \E v \in Values : val' = [val EXCEPT ![p] = v]
           /\ UNCHANGED <<files, fd, pos, reader>>

(* create, truncate: a file that a process with this pid left behind is    *)
(* used again, with the permissions that it has.                           *)
Open(p) ==
    /\ at[p] = "open"
    /\ at' = [at EXCEPT ![p] = "write"]
    /\ pos' = [pos EXCEPT ![p] = 0]
    /\ \E i \in IF tmp[TmpName(p)] = None THEN Unused ELSE {tmp[TmpName(p)]} :
          /\ tmp' = [tmp EXCEPT ![TmpName(p)] = i]
          /\ fd' = [fd EXCEPT ![p] = i]
          /\ inode' = [inode EXCEPT ![i] = IF tmp[TmpName(p)] = None THEN Blank
                                           ELSE [@ EXCEPT !.data = Blank.data]]
    /\ UNCHANGED <<path, val, reader>>

(* One write of write_all.                                                 *)
Write(p) == /\ at[p] = "write"
            /\ pos' = [pos EXCEPT ![p] = @ + 1]
            /\ inode' = [inode EXCEPT ![fd[p]].data[pos[p] + 1] = val[p]]
            /\ at' = [at EXCEPT ![p] = IF pos[p] = 1 THEN "chmod" ELSE "write"]
            /\ UNCHANGED <<path, tmp, fd, val, reader>>

(* Mutant: permissions are left to the creation.                           *)
Chmod_OnlyAtCreation(p) == /\ at[p] = "chmod"
                           /\ Ends(p, "rename")
                           /\ UNCHANGED <<files, pos, val, reader>>

(* fsync, fchmod, and the file is closed.                                  *)
Chmod(p) == /\ at[p] = "chmod"
            /\ inode' = [inode EXCEPT ![fd[p]].perm = "mode"]
            /\ Ends(p, "rename")
            /\ UNCHANGED <<path, tmp, pos, val, reader>>

(* open, write, fsync or fchmod fails: the temporary file stays.           *)
Fails(p) == /\ at[p] \in {"open", "write", "chmod"}
            /\ Ends(p, "err")
            /\ UNCHANGED <<files, pos, val, reader>>

Rename(p) == /\ at[p] = "rename" /\ tmp[TmpName(p)] # None
             /\ path' = tmp[TmpName(p)]
             /\ tmp' = [tmp EXCEPT ![TmpName(p)] = None]
             /\ at' = [at EXCEPT ![p] = "dirsync"]
             /\ UNCHANGED <<inode, fd, pos, val, reader>>

(* The temporary file is removed, unless that fails as well.               *)
RenameFails(p) == /\ at[p] = "rename"
                  /\ \/ tmp' = [tmp EXCEPT ![TmpName(p)] = None]
                     \/ tmp' = tmp
                  /\ Ends(p, "err")
                  /\ UNCHANGED <<inode, path, pos, val, reader>>

(* Mutant: a failure of the last fsync is returned.                        *)
DirSync_Reported(p) == /\ at[p] = "dirsync"
                       /\ at' = [at EXCEPT ![p] = "err"]
                       /\ UNCHANGED <<files, fd, pos, val, reader>>

(* fsync of the directory; its result does not matter.                     *)
DirSync(p) == /\ at[p] = "dirsync"
              /\ at' = [at EXCEPT ![p] = "ok"]
              /\ UNCHANGED <<files, fd, pos, val, reader>>

(* The caller goes on, or is killed during the call.                       *)
Leave(p) == /\ at[p] # "idle"
            /\ Ends(p, "idle")
            /\ UNCHANGED <<files, pos, val, reader>>

-----------------------------------------------------------------------------
(* A reader opens the file and reads it piece by piece.                    *)

ReadOpen(r) == /\ reader[r] = Closed
               /\ reader' = [reader EXCEPT ![r] =
                     [fd |-> path, got |-> <<>>, opened |-> inode[path].data[1]]]
               /\ UNCHANGED <<files, fd, at, pos, val>>

ReadMore(r) == /\ reader[r].fd # None /\ Len(reader[r].got) < 2
               /\ reader' = [reader EXCEPT ![r].got =
                     Append(@, inode[reader[r].fd].data[Len(reader[r].got) + 1])]
               /\ UNCHANGED <<files, fd, at, pos, val>>

ReadClose(r) == /\ Len(reader[r].got) = 2
                /\ reader' = [reader EXCEPT ![r] = Closed]
                /\ UNCHANGED <<files, fd, at, pos, val>>

WriteNext == \/ \E p \in Procs : \/ Call(p) \/ Open(p) \/ Write(p) \/ Chmod(p) \/ Fails(p)
                                 \/ Rename(p) \/ RenameFails(p) \/ DirSync(p) \/ Leave(p)
             \/ \E r \in Readers : ReadOpen(r) \/ ReadMore(r) \/ ReadClose(r)

WriteSpec == WriteInit /\ [][WriteNext]_writeVars

-----------------------------------------------------------------------------
(* Correctness.                                                            *)

(* Whoever opens the file, at any time and however slowly it reads, gets   *)
(* one content whole, the one that was there when it opened; the file is   *)
(* never absent, and never without its permissions (write_atomic).         *)
ReadersSeeWhole ==
    /\ path \in Inodes /\ inode[path].perm = "mode"
    /\ \A r \in Readers : Len(reader[r].got) = 2 =>
          reader[r].opened \in Values /\ \A k \in 1 .. 2 : reader[r].got[k] = reader[r].opened

(* A call that ends with Ok leaves no temporary file of this pid, not even *)
(* one that an earlier process of that pid left ("no temp file left        *)
(* behind").                                                               *)
OkLeavesNoLitter == \A p \in Procs : at[p] \in {"dirsync", "ok"} => tmp[p] = None

(* Where a call stands for its caller.                                     *)
Stage(s) == IF s \in {"open", "write", "chmod", "rename"} THEN "busy"
            ELSE IF s = "dirsync" THEN "committed" ELSE s

abs == INSTANCE Replace WITH target <- inode[path].data[1],
                             call <- [p \in Procs |-> Stage(at[p])]

(* System call by system call, with failures and kills anywhere, a call    *)
(* replaces the content in one step or not at all, and its result says     *)
(* which: what Apply and Boot assume of every file (write_atomic).         *)
ImplementsReplace == abs!Spec

=============================================================================
