----------------------------- MODULE FileProofs ------------------------------
(***************************************************************************)
(* Proofs about the files the tool keeps: how one is replaced, for any     *)
(* writers, readers and contents (AtomicWrite), and what they mean after a *)
(* reboot, for any number of boots and any uptimes (Boot).                 *)
(***************************************************************************)
EXTENDS AtomicWrite, Boot, TLAPS

-----------------------------------------------------------------------------
(* AtomicWrite implements Replace.  What carries the proof is that nobody  *)
(* who can write an inode shares it with the file's name or with a reader. *)

TypeInv ==
    /\ inode \in [Inodes -> [data : [1 .. 2 -> Values \cup {None}], perm : {"umask", "mode"}]]
    /\ path \in Inodes
    /\ tmp \in [Procs -> Inodes \cup {None}] /\ fd \in [Procs -> Inodes \cup {None}]
    /\ at \in [Procs -> {"idle", "open", "write", "chmod", "rename", "dirsync", "ok", "err"}]
    /\ pos \in [Procs -> 0 .. 2] /\ val \in [Procs -> Values]
    /\ reader \in [Readers -> [fd : Inodes \cup {None}, got : Seq(Values \cup {None}),
                               opened : Values \cup {None}]]

(* The file is always one whole content.                                   *)
Published == \E v \in Values : inode[path] = File(v)

(* A temporary file has one name, and what a writer has written is in it.  *)
Private(p) ==
    /\ tmp[p] # path
    /\ \A q \in Procs : tmp[p] = tmp[q] => tmp[p] = None \/ p = q
    /\ at[p] \in {"write", "chmod"} => tmp[p] # None /\ fd[p] = tmp[p]
    /\ at[p] = "write" => pos[p] \in 0 .. 1
    /\ at[p] = "write" /\ pos[p] = 1 => inode[tmp[p]].data[1] = val[p]
    /\ at[p] = "chmod" => inode[tmp[p]].data = Both(val[p])
    /\ at[p] = "rename" => tmp[p] # None /\ inode[tmp[p]] = File(val[p])
    /\ at[p] \in {"dirsync", "ok"} => tmp[p] = None

(* A reader's inode is the content that it opened and nobody's temporary.  *)
Stable(r) ==
    /\ reader[r].fd # None =>
          /\ reader[r].opened \in Values
          /\ inode[reader[r].fd] = File(reader[r].opened)
          /\ \A p \in Procs : tmp[p] # reader[r].fd
    /\ reader[r].fd = None => reader[r].got = <<>>
    /\ \A k \in 1 .. Len(reader[r].got) : reader[r].got[k] = reader[r].opened

WriteInv == /\ TypeInv /\ Published
            /\ \A p \in Procs : Private(p)
            /\ \A r \in Readers : Stable(r)

-----------------------------------------------------------------------------

(* It holds initially.                                                     *)
LEMMA InitWriteInv == WriteInit => WriteInv
  <1> SUFFICES ASSUME WriteInit PROVE WriteInv
    OBVIOUS
  <1> USE NoneAssumption DEF File, Both, Blank, Closed
  <1>1. PICK v \in Values : inode = [i \in Inodes |-> IF i = path THEN File(v) ELSE Blank]
    BY DEF WriteInit
  <1>2. TypeInv
    BY <1>1 DEF WriteInit, TypeInv
  <1>3. Published
    BY <1>1 DEF WriteInit, Published
  <1>4. ASSUME NEW p \in Procs PROVE Private(p)
    BY <1>4 DEF WriteInit, Private
  <1>5. ASSUME NEW r \in Readers PROVE Stable(r)
    BY <1>5 DEF WriteInit, Stable
  <1> QED
    BY <1>2, <1>3, <1>4, <1>5 DEF WriteInv

(* The steps of a writer p that touch neither inodes nor names.            *)
LEMMA QuietStep ==
    ASSUME WriteInv, NEW p \in Procs, Call(p) \/ Fails(p) \/ DirSync(p) \/ Leave(p)
    PROVE  WriteInv'
  <1> USE NoneAssumption
  <1>1. TypeInv'
    BY DEF WriteInv, TypeInv, Call, Fails, DirSync, Leave, Ends, files
  <1>2. Published'
    BY DEF WriteInv, Published, Call, Fails, DirSync, Leave, files
  <1>3. ASSUME NEW q \in Procs PROVE Private(q)'
    BY <1>3 DEF WriteInv, TypeInv, Private, Call, Fails, DirSync, Leave, Ends, files
  <1>4. ASSUME NEW r \in Readers PROVE Stable(r)'
    BY <1>4 DEF WriteInv, Stable, Call, Fails, DirSync, Leave, files
  <1> QED
    BY <1>1, <1>2, <1>3, <1>4 DEF WriteInv

(* A temporary file is made from an unused inode, or the one left by an    *)
(* earlier process of this pid is emptied.                                 *)
LEMMA OpenStep == ASSUME WriteInv, NEW p \in Procs, Open(p) PROVE WriteInv'
  <1> USE NoneAssumption DEF TmpName
  <1>1. PICK i \in Inodes :
           /\ i = tmp[p] \/ (tmp[p] = None /\ i \in Unused)
           /\ tmp' = [tmp EXCEPT ![p] = i]
           /\ fd' = [fd EXCEPT ![p] = i]
           /\ inode' = [inode EXCEPT ![i] = IF tmp[p] = None THEN Blank
                                            ELSE [@ EXCEPT !.data = Blank.data]]
    BY DEF WriteInv, TypeInv, Open, Unused
  <1>2. /\ at' = [at EXCEPT ![p] = "write"] /\ pos' = [pos EXCEPT ![p] = 0]
        /\ UNCHANGED <<path, val, reader>>
    BY DEF Open
  <1>3. /\ i # path
        /\ \A q \in Procs : q # p => tmp[q] # i
        /\ \A r \in Readers : reader[r].fd # i
    BY <1>1 DEF WriteInv, TypeInv, Private, Stable, Unused
  <1>4. inode' \in [Inodes -> [data : [1 .. 2 -> Values \cup {None}], perm : {"umask", "mode"}]]
    BY <1>1 DEF WriteInv, TypeInv, Blank, Both
  <1>5. \A j \in Inodes : j # i => inode'[j] = inode[j]
    BY <1>1 DEF WriteInv, TypeInv
  <1>6. TypeInv'
    BY <1>1, <1>2, <1>4 DEF WriteInv, TypeInv
  <1>7. Published'
    BY <1>2, <1>3, <1>5 DEF WriteInv, TypeInv, Published
  <1>8. ASSUME NEW q \in Procs PROVE Private(q)'
    BY <1>1, <1>2, <1>3, <1>5, <1>8 DEF WriteInv, TypeInv, Private
  <1>9. ASSUME NEW r \in Readers PROVE Stable(r)'
    BY <1>1, <1>2, <1>3, <1>5, <1>9 DEF WriteInv, TypeInv, Stable
  <1> QED
    BY <1>6, <1>7, <1>8, <1>9 DEF WriteInv

(* Writing and chmod change the writer's own temporary file only.          *)
LEMMA WriteStep == ASSUME WriteInv, NEW p \in Procs, Write(p) \/ Chmod(p) PROVE WriteInv'
  <1> USE NoneAssumption
  <1>1. tmp[p] \in Inodes /\ fd[p] = tmp[p] /\ tmp[p] # path
    BY DEF WriteInv, TypeInv, Private, Write, Chmod
  <1>2. \A j \in Inodes : j # tmp[p] => inode'[j] = inode[j]
    BY <1>1 DEF WriteInv, TypeInv, Write, Chmod
  <1>3. UNCHANGED <<path, tmp, val, reader>>
    BY DEF Write, Chmod
  <1>4. TypeInv'
    <2>1. CASE Write(p)
      <3>1. pos[p] \in 0 .. 1 /\ val[p] \in Values
        BY <2>1 DEF WriteInv, TypeInv, Private, Write
      <3>2. inode' \in [Inodes -> [data : [1 .. 2 -> Values \cup {None}], perm : {"umask", "mode"}]]
        BY <1>1, <2>1, <3>1 DEF WriteInv, TypeInv, Write
      <3> QED
        BY <1>3, <2>1, <3>1, <3>2 DEF WriteInv, TypeInv, Write
    <2>2. CASE Chmod(p)
      <3>1. inode' \in [Inodes -> [data : [1 .. 2 -> Values \cup {None}], perm : {"umask", "mode"}]]
        BY <1>1, <2>2 DEF WriteInv, TypeInv, Chmod
      <3> QED
        BY <1>3, <2>2, <3>1 DEF WriteInv, TypeInv, Chmod, Ends
    <2> QED
      BY <2>1, <2>2
  <1>5. Published'
    BY <1>1, <1>2, <1>3 DEF WriteInv, TypeInv, Published
  <1>6. Private(p)'
    <2>1. CASE Write(p)
      <3>1. pos[p] \in 0 .. 1 /\ (pos[p] = 1 => inode[tmp[p]].data[1] = val[p])
        BY <2>1 DEF WriteInv, Private, Write
      <3>2. inode'[tmp[p]].data = [inode[tmp[p]].data EXCEPT ![pos[p] + 1] = val[p]]
        BY <1>1, <2>1 DEF WriteInv, TypeInv, Write
      <3>3. inode[tmp[p]].data \in [1 .. 2 -> Values \cup {None}]
        BY <1>1 DEF WriteInv, TypeInv
      <3>4. pos[p] = 0 => inode'[tmp[p]].data[1] = val[p]
        BY <3>2, <3>3
      <3>5. pos[p] = 1 => inode'[tmp[p]].data = Both(val[p])
        BY <3>1, <3>2, <3>3 DEF Both
      <3> QED
        BY <1>1, <1>3, <2>1, <3>1, <3>4, <3>5 DEF WriteInv, TypeInv, Private, Write
    <2>2. CASE Chmod(p)
      <3>1. inode'[tmp[p]] = File(val[p])
        BY <1>1, <2>2 DEF WriteInv, TypeInv, Private, Chmod, File
      <3> QED
        BY <1>1, <1>3, <2>2, <3>1 DEF WriteInv, TypeInv, Private, Chmod, Ends
    <2> QED
      BY <2>1, <2>2
  <1>7. ASSUME NEW q \in Procs, q # p PROVE Private(q)'
    <2>1. tmp[q] # tmp[p]
      BY <1>1, <1>7 DEF WriteInv, Private
    <2>2. at'[q] = at[q] /\ fd'[q] = fd[q] /\ pos'[q] = pos[q]
      BY <1>7 DEF WriteInv, TypeInv, Write, Chmod, Ends
    <2>3. tmp[q] # None => inode'[tmp[q]] = inode[tmp[q]]
      BY <1>2, <2>1 DEF WriteInv, TypeInv
    <2> QED
      BY <1>3, <2>2, <2>3 DEF WriteInv, Private
  <1>8. ASSUME NEW r \in Readers PROVE Stable(r)'
    BY <1>2, <1>3, <1>8 DEF WriteInv, TypeInv, Stable
  <1> QED
    BY <1>4, <1>5, <1>6, <1>7, <1>8 DEF WriteInv

(* A rename moves a whole content to the file's name.                      *)
LEMMA RenameStep == ASSUME WriteInv, NEW p \in Procs, Rename(p) \/ RenameFails(p) PROVE WriteInv'
  <1> USE NoneAssumption DEF TmpName
  <1>1. tmp[p] \in Inodes /\ inode[tmp[p]] = File(val[p]) /\ val[p] \in Values
    BY DEF WriteInv, TypeInv, Private, Rename, RenameFails
  <1>2. TypeInv'
    BY <1>1 DEF WriteInv, TypeInv, Rename, RenameFails, Ends
  <1>3. Published'
    BY <1>1 DEF WriteInv, Published, Rename, RenameFails
  <1>4. ASSUME NEW q \in Procs PROVE Private(q)'
    BY <1>1, <1>4 DEF WriteInv, TypeInv, Private, Rename, RenameFails, Ends
  <1>5. ASSUME NEW r \in Readers PROVE Stable(r)'
    BY <1>1, <1>5 DEF WriteInv, TypeInv, Stable, Rename, RenameFails
  <1> QED
    BY <1>2, <1>3, <1>4, <1>5 DEF WriteInv

(* Readers change themselves only.                                         *)
LEMMA ReadStep ==
    ASSUME WriteInv, NEW s \in Readers, ReadOpen(s) \/ ReadMore(s) \/ ReadClose(s)
    PROVE  WriteInv'
  <1> USE NoneAssumption
  <1>1. UNCHANGED <<files, fd, at, pos, val>>
    BY DEF ReadOpen, ReadMore, ReadClose
  <1>2. Published' /\ \A q \in Procs : Private(q)'
    BY <1>1 DEF WriteInv, Published, Private, files
  <1>3. ASSUME NEW r \in Readers, r # s PROVE Stable(r)'
    BY <1>1, <1>3 DEF WriteInv, TypeInv, Stable, ReadOpen, ReadMore, ReadClose, files
  <1>4. CASE ReadOpen(s)
    <2>1. PICK v \in Values : inode[path] = File(v)
      BY DEF WriteInv, Published
    <2>2. inode[path].data[1] = v
      BY <2>1 DEF File, Both
    <2>3. reader' = [reader EXCEPT ![s] = [fd |-> path, got |-> <<>>, opened |-> v]]
      BY <1>4, <2>2 DEF ReadOpen
    <2>4. TypeInv'
      BY <1>1, <2>3 DEF WriteInv, TypeInv, files
    <2>5. Stable(s)'
      BY <1>1, <2>1, <2>3 DEF WriteInv, TypeInv, Private, Stable, files
    <2> QED
      BY <1>2, <1>3, <2>4, <2>5 DEF WriteInv
  <1>5. CASE ReadMore(s)
    <2> DEFINE k == Len(reader[s].got) + 1
    <2>1. k \in 1 .. 2 /\ reader[s].fd \in Inodes /\ reader[s].got \in Seq(Values \cup {None})
      BY <1>5 DEF WriteInv, TypeInv, ReadMore
    <2>2. inode[reader[s].fd] = File(reader[s].opened) /\ reader[s].opened \in Values
      BY <2>1 DEF WriteInv, Stable
    <2>3. inode[reader[s].fd].data[k] = reader[s].opened
      BY <2>1, <2>2 DEF File, Both
    <2>4. reader[s] \in [fd : Inodes \cup {None}, got : Seq(Values \cup {None}),
                         opened : Values \cup {None}]
      BY DEF WriteInv, TypeInv
    <2>5. reader' = [reader EXCEPT ![s].got = Append(reader[s].got, inode[reader[s].fd].data[k])]
      BY <1>5 DEF ReadMore
    <2>6. reader' = [reader EXCEPT ![s] = [fd |-> reader[s].fd,
                        got |-> Append(reader[s].got, reader[s].opened), opened |-> reader[s].opened]]
      <3> DEFINE x == Append(reader[s].got, reader[s].opened)
      <3>1. [reader[s] EXCEPT !.got = x] = [fd |-> reader[s].fd, got |-> x,
                                            opened |-> reader[s].opened]
        <4> HIDE DEF x
        <4> QED
          BY <2>4
      <3>2. reader' = [reader EXCEPT ![s] = [reader[s] EXCEPT !.got = x]]
        BY <2>3, <2>5, Zenon
      <3> QED
        BY <3>1, <3>2, Zenon
    <2>7. Append(reader[s].got, reader[s].opened) \in Seq(Values \cup {None})
      BY <2>1, <2>2
    <2>8. TypeInv'
      BY <1>1, <2>4, <2>6, <2>7 DEF WriteInv, TypeInv, files
    <2>9. Stable(s)'
      <3>1. reader'[s] = [fd |-> reader[s].fd, got |-> Append(reader[s].got, reader[s].opened),
                          opened |-> reader[s].opened]
        BY <2>6 DEF WriteInv, TypeInv
      <3>2. \A m \in 1 .. Len(reader[s].got) : reader[s].got[m] = reader[s].opened
        BY DEF WriteInv, Stable
      <3>3. \A m \in 1 .. Len(Append(reader[s].got, reader[s].opened)) :
               Append(reader[s].got, reader[s].opened)[m] = reader[s].opened
        BY <2>1, <3>2
      <3> QED
        BY <1>1, <2>1, <3>1, <3>3 DEF WriteInv, Stable, files
    <2> QED
      BY <1>2, <1>3, <2>8, <2>9 DEF WriteInv
  <1>6. CASE ReadClose(s)
    <2>1. TypeInv'
      BY <1>1, <1>6 DEF WriteInv, TypeInv, ReadClose, Closed, files
    <2>2. Stable(s)'
      BY <1>1, <1>6 DEF WriteInv, TypeInv, Stable, ReadClose, Closed, files
    <2> QED
      BY <1>2, <1>3, <2>1, <2>2 DEF WriteInv
  <1> QED
    BY <1>4, <1>5, <1>6

(* WriteInv is inductive.                                                  *)
LEMMA WriteInvThm == WriteSpec => []WriteInv
  <1>1. WriteInv /\ UNCHANGED writeVars => WriteInv'
    BY DEF WriteInv, TypeInv, Published, Private, Stable, writeVars, files
  <1>2. WriteInv /\ [WriteNext]_writeVars => WriteInv'
    BY QuietStep, OpenStep, WriteStep, RenameStep, ReadStep, <1>1 DEF WriteNext
  <1> QED
    BY InitWriteInv, <1>2, PTL DEF WriteSpec

-----------------------------------------------------------------------------

(* Every reader gets one content whole, with its permissions, whatever the *)
(* writers do meanwhile (write_atomic).                                    *)
THEOREM ReadersSeeWholeThm == WriteSpec => []ReadersSeeWhole
  <1>1. ASSUME WriteInv, NEW r \in Readers, Len(reader[r].got) = 2
        PROVE  reader[r].opened \in Values /\ \A k \in 1 .. 2 : reader[r].got[k] = reader[r].opened
    BY <1>1 DEF WriteInv, TypeInv, Stable
  <1>2. WriteInv => path \in Inodes /\ inode[path].perm = "mode"
    BY DEF WriteInv, TypeInv, Published, File
  <1>3. WriteInv => ReadersSeeWhole
    BY <1>1, <1>2 DEF ReadersSeeWhole
  <1> QED
    BY WriteInvThm, <1>3, PTL

(* A call that succeeds leaves no temporary file of its pid (write_atomic).*)
THEOREM OkLeavesNoLitterThm == WriteSpec => []OkLeavesNoLitter
  <1>1. WriteInv => OkLeavesNoLitter
    BY DEF WriteInv, Private, OkLeavesNoLitter
  <1> QED
    BY WriteInvThm, <1>1, PTL

(* Under the mapping every system call is a step of Replace or none: the   *)
(* rename commits, whatever comes before it is invisible, and the result   *)
(* of a call tells whether it committed (write_atomic).                    *)
THEOREM WriteRefinement == WriteSpec => ImplementsReplace
  <1> DEFINE Target == inode[path].data[1]
             Calls == [p \in Procs |-> Stage(at[p])]
  <1> USE NoneAssumption
  <1>1. ASSUME WriteInit PROVE abs!Init
    <2>1. Target \in Values
      BY <1>1 DEF WriteInit, File, Both
    <2>2. Calls = [p \in Procs |-> "idle"]
      BY <1>1 DEF WriteInit, Stage
    <2> QED
      BY <1>1, <2>1, <2>2 DEF WriteInit, abs!Init
  <1>2. ASSUME WriteInv, [WriteNext]_writeVars PROVE [abs!Next]_(abs!vars)
    <2>0. TypeInv /\ \A p \in Procs : Private(p)
      BY <1>2 DEF WriteInv
    <2>1. ASSUME NEW p \in Procs, NEW s, at' = [at EXCEPT ![p] = s]
          PROVE  Calls' = [Calls EXCEPT ![p] = Stage(s)]
      <3>1. \A q \in Procs : at'[q] = IF q = p THEN s ELSE at[q]
        BY <2>0, <2>1 DEF TypeInv
      <3>2. \A q \in Procs : Stage(at'[q]) = IF q = p THEN Stage(s) ELSE Stage(at[q])
        BY <3>1, Zenon
      <3> QED
        BY <3>2
    <2>2. ASSUME NEW p \in Procs, Call(p) PROVE abs!Begin(p)
      <3>1. Target' = Target /\ Calls[p] = "idle"
        BY <2>2 DEF Call, files, Stage
      <3>2. Calls' = [Calls EXCEPT ![p] = "busy"]
        BY <2>1, <2>2 DEF Call, Stage
      <3> QED
        BY <2>2, <3>1, <3>2 DEF Call, abs!Begin, abs!Sets
    <2>3. ASSUME NEW p \in Procs, Open(p) \/ Write(p) \/ Chmod(p) PROVE UNCHANGED abs!vars
      <3>1. inode'[path] = inode[path] /\ path' = path /\ val' = val
        <4>1. CASE Open(p)
          <5>1. PICK i \in Inodes : i # path /\ inode' = [inode EXCEPT ![i] =
                    IF tmp[p] = None THEN Blank ELSE [@ EXCEPT !.data = Blank.data]]
            <6>1. Unused \subseteq Inodes \ {path}
              BY DEF Unused
            <6>2. tmp[p] # None => tmp[p] \in Inodes \ {path}
              BY <2>0 DEF TypeInv, Private
            <6> QED
              BY <4>1, <6>1, <6>2 DEF Open, TmpName
          <5> QED
            BY <2>0, <4>1, <5>1 DEF Open, TypeInv
        <4>2. CASE Write(p) \/ Chmod(p)
          <5>1. fd[p] \in Inodes /\ fd[p] # path
            BY <2>0, <4>2 DEF TypeInv, Private, Write, Chmod
          <5> QED
            BY <2>0, <4>2, <5>1 DEF TypeInv, Write, Chmod
        <4> QED
          BY <2>3, <4>1, <4>2
      <3>2. PICK s \in {"write", "chmod", "rename"} : at' = [at EXCEPT ![p] = s]
        BY <2>3 DEF Open, Write, Chmod, Ends
      <3>3. Stage(s) = "busy" /\ Calls[p] = "busy"
        BY <2>3, <3>2 DEF Open, Write, Chmod, Stage
      <3>4. Calls' = Calls
        BY <2>1, <3>2, <3>3
      <3>5. Target' = Target
        BY <3>1
      <3> QED
        BY <3>1, <3>4, <3>5 DEF abs!vars
    <2>4. ASSUME NEW p \in Procs, Rename(p) PROVE abs!Commit(p)
      <3>1. inode[tmp[p]] = File(val[p])
        BY <2>0, <2>4 DEF Rename, Private
      <3>2. Target' = val[p] /\ val' = val
        BY <2>4, <3>1 DEF Rename, TmpName, File, Both
      <3>3. Calls[p] = "busy" /\ Calls' = [Calls EXCEPT ![p] = "committed"]
        BY <2>1, <2>4 DEF Rename, Stage
      <3> QED
        BY <3>2, <3>3 DEF abs!Commit, abs!Sets
    <2>5. ASSUME NEW p \in Procs, Fails(p) \/ RenameFails(p) PROVE abs!ReturnErr(p)
      <3>1. Target' = Target /\ val' = val
        BY <2>5 DEF Fails, RenameFails, files
      <3>2. Calls[p] = "busy" /\ Calls' = [Calls EXCEPT ![p] = "err"]
        BY <2>1, <2>5 DEF Fails, RenameFails, Ends, Stage
      <3> QED
        BY <3>1, <3>2 DEF abs!ReturnErr, abs!Sets
    <2>6. ASSUME NEW p \in Procs, DirSync(p) PROVE abs!ReturnOk(p)
      <3>1. Target' = Target /\ val' = val
        BY <2>6 DEF DirSync, files
      <3>2. Calls[p] = "committed" /\ Calls' = [Calls EXCEPT ![p] = "ok"]
        BY <2>1, <2>6 DEF DirSync, Stage
      <3> QED
        BY <3>1, <3>2 DEF abs!ReturnOk, abs!Sets
    <2>7. ASSUME NEW p \in Procs, Leave(p) PROVE abs!Leave(p)
      <3>1. Target' = Target /\ val' = val
        BY <2>7 DEF Leave, files
      <3>2. Calls[p] # "idle" /\ Calls' = [Calls EXCEPT ![p] = "idle"]
        BY <2>1, <2>7 DEF Leave, Ends, Stage
      <3> QED
        BY <3>1, <3>2 DEF abs!Leave, abs!Sets
    <2>8. CASE UNCHANGED <<files, fd, at, pos, val>>
      BY <2>8 DEF abs!vars, files
    <2>9. ASSUME NEW r \in Readers, ReadOpen(r) \/ ReadMore(r) \/ ReadClose(r)
          PROVE  UNCHANGED <<files, fd, at, pos, val>>
      BY <2>9 DEF ReadOpen, ReadMore, ReadClose
    <2> QED
      BY <1>2, <2>2, <2>3, <2>4, <2>5, <2>6, <2>7, <2>8, <2>9 DEF WriteNext, writeVars, abs!Next
  <1> QED
    BY <1>1, <1>2, WriteInvThm, PTL DEF WriteSpec, ImplementsReplace, abs!Spec


-----------------------------------------------------------------------------
(* Boot.                                                                   *)

(* The setup the code is written for: answers.json does not outlive a      *)
(* boot (status.json may), and the boot id can be read.                    *)
HandledSetup == "answers" \notin Survives /\ ~IdFails

(* The answers file is of this boot.                                       *)
AnswersHere == answers.gen # 0 => answers.boot = boot /\ answers.gen <= uptime

(* The status file names the boot that wrote it, and what it says of the   *)
(* present boot is in the past.                                            *)
StatusHere == /\ status.boot_id = status.boot
              /\ status.boot <= boot
              /\ status.boot = boot => status.applied <= uptime /\ status.last_fresh <= uptime

(* What a run knows between its first reading and its status.              *)
JobHere == pc # "idle" =>
    /\ job.boot_id = boot
    /\ job.now <= uptime
    /\ job.prev.boot \in {0, boot}
    /\ job.prev.applied <= uptime /\ job.prev.last_fresh <= uptime
    /\ job.answers.gen # 0 => /\ job.answers.boot = boot
                              /\ job.answers.gen \in (job.now - MaxAge) .. job.now

IInv == TypeOK /\ started <= uptime /\ AnswersHere /\ StatusHere /\ JobHere

-----------------------------------------------------------------------------

(* Missing files and jobs are values of their type.                        *)
LEMMA NullsTyped ==
    NoAnswers \in Answers /\ NoStatus \in Status /\ NoJob \in Job /\ 0 \in Time /\ 0 \in Boots
<1>1. 0 \in Time /\ 0 \in Boots
  BY BoundsAssumption DEF Time, Boots
<1>2. NoAnswers \in Answers /\ NoStatus \in Status
  BY <1>1 DEF NoAnswers, Answers, NoStatus, Status
<1> QED BY <1>1, <1>2 DEF NoJob, Job

(* So is what a run takes from a file.                                     *)
LEMMA LoadTyped ==
    ASSUME NEW s \in Status, NEW a \in Answers, NEW id, NEW now, NEW m
    PROVE  load(s, id) \in Status /\ load_answers(a, now, m) \in Answers
BY NullsTyped DEF load, load_answers

(* Every step keeps the types.                                             *)
LEMMA NextType ==
    ASSUME TypeOK, [Next]_vars
    PROVE  TypeOK'
<1> USE NullsTyped, BoundsAssumption
<1>0. uptime \in Time /\ boot \in Boots
  BY DEF TypeOK, Time, Boots
<1>1. CASE ResolveStart
  BY <1>0, <1>1 DEF ResolveStart, TypeOK
<1>2. CASE ResolveWrite
  BY <1>0, <1>2 DEF ResolveWrite, TypeOK, Answers
<1>3. CASE Read
  <2>1. PICK id \in boot_id :
           job' = [now |-> uptime, boot_id |-> id, prev |-> load(status, id), ok |-> FALSE,
                   answers |-> load_answers(answers, uptime, load(status, id).applied)]
    BY <1>3 DEF Read
  <2>2. id \in Boots
    BY <1>0 DEF boot_id
  <2>3. job' \in Job
    BY <1>0, <2>1, <2>2, LoadTyped DEF Job, TypeOK
  <2> QED BY <1>3, <2>3 DEF Read, TypeOK
<1>4. CASE Install
  <2>1. chain' \in Answers
    BY <1>4 DEF Install, Landed, TypeOK, Job
  <2>2. job' \in Job
    BY <1>4 DEF Install, TypeOK, Job
  <2> QED BY <1>4, <2>1, <2>2 DEF Install, TypeOK
<1>5. CASE InstallFails
  <2>1. chain' \in Answers
    BY <1>5 DEF InstallFails, Landed, TypeOK, Job
  <2> QED BY <1>5, <2>1 DEF InstallFails, TypeOK
<1>6. CASE Publish
  <2>1. ASSUME NEW t \in Time PROVE Report(t) \in Status
    BY <1>0, <2>1 DEF Report, Status, TypeOK, Job, Answers
  <2>2. job.now \in Time
    BY DEF TypeOK, Job
  <2>3. status' \in Status
    BY <1>0, <1>6, <2>1, <2>2 DEF Publish, TypeOK
  <2> QED BY <1>6, <2>3 DEF Publish, TypeOK
<1>7. CASE Tick
  BY <1>7 DEF Tick, TypeOK
<1>8. CASE Reboot
  BY <1>8 DEF Reboot, TypeOK
<1>9. CASE UNCHANGED vars
  BY <1>9 DEF vars, TypeOK
<1> QED BY <1>1, <1>2, <1>3, <1>4, <1>5, <1>6, <1>7, <1>8, <1>9 DEF Next

(* IInv holds initially.                                                   *)
LEMMA InitIInv == Init => IInv
<1> SUFFICES ASSUME Init PROVE IInv
  OBVIOUS
<1>1. TypeOK
  BY NullsTyped, BoundsAssumption DEF Init, TypeOK
<1> QED BY <1>1 DEF Init, IInv, AnswersHere, StatusHere, JobHere, NoAnswers, NoStatus

(* Every step keeps it in the setup the code is written for.               *)
LEMMA NextIInv ==
    ASSUME HandledSetup, IInv, [Next]_vars
    PROVE  IInv'
<1>0. TypeOK /\ TypeOK'
  BY NextType DEF IInv
<1>n. /\ boot \in Int /\ uptime \in Int /\ started \in Int /\ uptime >= 1 /\ boot >= 1
      /\ MaxAge \in Nat
      /\ answers.gen \in Nat /\ answers.boot \in Int
      /\ status.applied \in Int /\ status.last_fresh \in Int /\ status.boot \in Int
      /\ job.now \in Int /\ job.prev.applied \in Int /\ job.prev.last_fresh \in Int
      /\ job.answers.gen \in Int
  BY <1>0, BoundsAssumption DEF TypeOK, Time, Boots, Answers, Status, Job
<1>1. CASE ResolveStart
  BY <1>0, <1>n, <1>1 DEF ResolveStart, IInv, AnswersHere, StatusHere, JobHere
<1>2. CASE ResolveWrite
  BY <1>0, <1>n, <1>2 DEF ResolveWrite, IInv, AnswersHere, StatusHere, JobHere
<1>3. CASE Read
  <2>1. boot_id = {boot}
    BY DEF boot_id, HandledSetup
  <2> DEFINE prev == load(status, boot)
  <2>2. job' = [now |-> uptime, boot_id |-> boot, prev |-> prev, ok |-> FALSE,
                answers |-> load_answers(answers, uptime, prev.applied)]
    BY <1>3, <2>1 DEF Read
  <2>3. UNCHANGED <<boot, uptime, started, answers, status, chain>>
    BY <1>3 DEF Read
  <2>4. prev.boot \in {0, boot} /\ prev.applied <= uptime /\ prev.last_fresh <= uptime
    BY <1>n DEF load, NoStatus, IInv, StatusHere
  <2>5. load_answers(answers, uptime, prev.applied).gen # 0 =>
           /\ load_answers(answers, uptime, prev.applied).boot = boot
           /\ load_answers(answers, uptime, prev.applied).gen \in (uptime - MaxAge) .. uptime
    <3> HIDE DEF prev
    <3> QED BY <1>n DEF load_answers, NoAnswers, IInv, AnswersHere
  <2> HIDE DEF prev
  <2>6. JobHere'
    BY <1>n, <2>2, <2>3, <2>4, <2>5 DEF JobHere
  <2> QED BY <1>0, <2>3, <2>6 DEF IInv, AnswersHere, StatusHere
<1>4. CASE Install
  <2>1. /\ pc = "install"
        /\ job'.now = job.now /\ job'.boot_id = job.boot_id
        /\ job'.prev = job.prev /\ job'.answers = job.answers
    BY <1>0, <1>4 DEF Install, TypeOK, Job
  <2> QED BY <1>0, <1>4, <2>1 DEF Install, IInv, AnswersHere, StatusHere, JobHere
<1>5. CASE InstallFails
  BY <1>0, <1>5 DEF InstallFails, IInv, AnswersHere, StatusHere, JobHere
<1>6. CASE Publish
  <2>1. UNCHANGED <<boot, uptime, started, answers>> /\ pc = "report" /\ pc' = "idle"
    BY <1>6 DEF Publish
  <2>2. ASSUME NEW t \in {job.now, uptime}, status' = Report(t)
        PROVE  StatusHere'
    BY <1>n, <2>1, <2>2 DEF Report, StatusHere, IInv, JobHere
  <2>3. ASSUME status' = status PROVE StatusHere'
    BY <2>1, <2>3 DEF StatusHere, IInv
  <2>4. StatusHere'
    BY <1>6, <2>2, <2>3 DEF Publish
  <2> QED BY <1>0, <2>1, <2>4 DEF IInv, AnswersHere, JobHere
<1>7. CASE Tick
  <2>1. uptime' = uptime + 1 /\ UNCHANGED <<boot, started, answers, status, pc, job>>
    BY <1>7 DEF Tick
  <2>2. AnswersHere' /\ StatusHere' /\ started' <= uptime'
    BY <1>n, <2>1 DEF IInv, AnswersHere, StatusHere
  <2>3. JobHere'
    BY <1>n, <2>1 DEF IInv, JobHere
  <2> QED BY <1>0, <2>2, <2>3 DEF IInv
<1>8. CASE Reboot
  <2>1. boot' = boot + 1 /\ uptime' = 1 /\ started' = 0 /\ pc' = "idle"
    BY <1>8 DEF Reboot
  <2>2. AnswersHere'
    BY <1>8 DEF Reboot, HandledSetup, AnswersHere, NoAnswers
  <2>3. StatusHere'
    BY <1>8, <1>n, <2>1 DEF Reboot, StatusHere, NoStatus, IInv
  <2> QED BY <1>0, <2>1, <2>2, <2>3 DEF IInv, JobHere
<1>9. CASE UNCHANGED vars
  BY <1>0, <1>9 DEF vars, IInv, AnswersHere, StatusHere, JobHere
<1> QED BY <1>1, <1>2, <1>3, <1>4, <1>5, <1>6, <1>7, <1>8, <1>9 DEF Next

(* IInv is an invariant there.                                             *)
LEMMA Inductive ==
    ASSUME HandledSetup
    PROVE  Spec => []IInv
<1>1. IInv /\ [Next]_vars => IInv'
  BY NextIInv
<1> QED BY <1>1, InitIInv, PTL DEF Spec

-----------------------------------------------------------------------------
(* The theorems.                                                           *)

(* Every variable keeps its type, whatever survives a reboot.              *)
THEOREM TypeCorrect == Spec => []TypeOK
<1>1. Init => TypeOK
  BY InitIInv DEF IInv
<1>2. TypeOK /\ [Next]_vars => TypeOK'
  BY NextType
<1> QED BY <1>1, <1>2, PTL DEF Spec

(* A run carries forward nothing from an earlier boot, even if status.json *)
(* outlives it.                                                            *)
THEOREM PrevIsOfThisBootThm ==
    ASSUME HandledSetup
    PROVE  Spec => []PrevIsOfThisBoot
<1>1. IInv => PrevIsOfThisBoot
  BY DEF IInv, JobHere, PrevIsOfThisBoot
<1> QED BY <1>1, Inductive, PTL

(* Times in a status of this boot are never in the future.                 *)
THEOREM StatusInThePastThm ==
    ASSUME HandledSetup
    PROVE  Spec => []StatusInThePast
<1>1. IInv => StatusInThePast
  BY DEF IInv, StatusHere, StatusInThePast
<1> QED BY <1>1, Inductive, PTL

(* Only answers of this boot, and of the last MaxAge ticks, are installed. *)
THEOREM InstalledIsCurrentThm ==
    ASSUME HandledSetup
    PROVE  Spec => InstalledIsCurrent
<1> DEFINE Current == chain' # chain /\ chain' # NoAnswers =>
                         chain'.boot = boot /\ chain'.gen \in (job.now - MaxAge) .. job.now
<1>1. IInv /\ [Next]_vars => [Current]_vars
  <2> SUFFICES ASSUME IInv, Next, chain' # chain, chain' # NoAnswers
               PROVE  chain'.boot = boot /\ chain'.gen \in (job.now - MaxAge) .. job.now
    OBVIOUS
  <2>1. Install \/ InstallFails
    BY DEF Next, ResolveStart, ResolveWrite, Read, Publish, Tick, Reboot
  <2>2. chain' = job.answers /\ job.answers.gen # 0 /\ pc # "idle"
    BY <2>1 DEF Install, InstallFails, Landed
  <2> QED BY <2>2 DEF IInv, JobHere
<1> QED BY <1>1, Inductive, PTL DEF Spec, InstalledIsCurrent


=============================================================================
