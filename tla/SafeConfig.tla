----------------------------- MODULE SafeConfig -----------------------------
(***************************************************************************)
(* safe-config-tool: processes that read and write parameters of one        *)
(* configuration file with flock, a backup, a temporary file and rename.    *)
(*                                                                         *)
(* A file is an inode with a sequence of lines; the names "conf", "tmp" and *)
(* "bak" point to inodes.  A line is a parameter with its value, or what is *)
(* left of one; lines have equal length, so a write replaces whole lines.   *)
(***************************************************************************)
EXTENDS Naturals, Sequences, SequencesExt, FiniteSets

CONSTANTS Writer, Reader,  \* runs of the tool
          UpdateOf,        \* the line [param, value] that each writer sets
          InitLines,       \* the file at the start
          BUFFER_LINES,    \* how many whole lines fit in the buffer of BUFFER_SIZE bytes
          Inode,           \* a finite set of numbers
          MaxCrash,        \* bound: power losses
          MaxFail,         \* bound: system calls that fail or write less
          NULL

Process == Writer \cup Reader
Torn == [param |-> "", value |-> 0]   \* the beginning of a line
Line == Range(UpdateOf) \cup Range(InitLines) \cup {Torn}
Name == {"conf", "tmp", "bak"}

VARIABLES
  name,     \* the directory
  disk,     \* the directories that may be on the disk: no step synchronises it
  content,  \* the lines of each inode
  dirty,    \* the inodes with data that is not on the disk
  lock,     \* the processes that hold a lock on each inode
  pc,       \* where each process is
  fd,       \* the inode it opened as the configuration file
  tmp_fd,   \* the inode it opened as the temporary file
  buf,      \* what it read
  pos,      \* the lines it has dealt with, which is the offset of tmp_fd
  success,  \* the writers that returned 0
  versions, \* the contents that complete writes produce
  mishap,   \* what has happened: see Mishap
  crashes, fails

\* Two writers ran at the same time; one opened a temporary file that was there
\* already; one met a file that is longer than its buffer; one wrote only a part
\* of a line; power was lost and took a rename back.
Mishap == {"overlap", "reused", "cut", "short", "undone"}

directory == <<name, disk>>
memory == <<fd, tmp_fd, buf, pos>>
vars == <<directory, content, dirty, lock, pc, memory, success, versions, mishap,
          crashes, fails>>

TypeOK ==
  /\ disk \subseteq [Name -> Inode \cup {NULL}] /\ name \in disk
  /\ \A d \in disk : d["conf"] # NULL
  /\ content \in [Inode -> Seq(Line)]
  /\ dirty \subseteq Inode
  /\ lock \in [Inode -> SUBSET Process]
  /\ \A i \in Inode : lock[i] \subseteq Reader \/ Cardinality(lock[i]) = 1
  /\ pc \in [Process -> {"idle", "lock", "backup", "read", "tmp", "write", "sync",
                         "rename", "unlink", "close", "exit"}]
  /\ fd \in [Process -> Inode \cup {NULL}] /\ tmp_fd \in [Process -> Inode \cup {NULL}]
  /\ buf \in [Process -> Seq(Line)]
  /\ pos \in [Process -> Nat]
  /\ success \subseteq Writer
  /\ mishap \subseteq Mishap
  /\ crashes \in 0..MaxCrash /\ fails \in 0..MaxFail

Init ==
  LET first == CHOOSE i \in Inode : \A j \in Inode : i <= j IN
  /\ name = [n \in Name |-> IF n = "conf" THEN first ELSE NULL] /\ disk = {name}
  /\ content = [i \in Inode |-> IF i = first THEN InitLines ELSE <<>>]
  /\ dirty = {}
  /\ lock = [i \in Inode |-> {}]
  /\ pc = [p \in Process |-> "idle"]
  /\ fd = [p \in Process |-> NULL] /\ tmp_fd = [p \in Process |-> NULL]
  /\ buf = [p \in Process |-> <<>>]
  /\ pos = [p \in Process |-> 0]
  /\ success = {} /\ versions = {InitLines}
  /\ mishap = {}
  /\ crashes = 0 /\ fails = 0

Goto(p, l) == pc' = [pc EXCEPT ![p] = l]

\* A step changes the directory, for now only in memory.
SetNames(d) == name' = d /\ disk' = disk \cup {d}

Happens(what, if) == mishap' = IF if THEN mishap \cup {what} ELSE mishap

\* Processes end: their memory is gone, descriptors are closed and locks released.
End(S) ==
  /\ pc' = [p \in Process |-> IF p \in S THEN "exit" ELSE pc[p]]
  /\ fd' = [p \in Process |-> IF p \in S THEN NULL ELSE fd[p]]
  /\ tmp_fd' = [p \in Process |-> IF p \in S THEN NULL ELSE tmp_fd[p]]
  /\ buf' = [p \in Process |-> IF p \in S THEN <<>> ELSE buf[p]]
  /\ pos' = [p \in Process |-> IF p \in S THEN 0 ELSE pos[p]]
  /\ lock' = [i \in Inode |-> lock[i] \ S]

\* open() with O_CREAT and without O_TRUNC: the inode of the name, or a new one.
OpenCreate(n) ==
  IF name[n] # NULL THEN name[n]
  ELSE CHOOSE i \in Inode : /\ \A d \in disk : i \notin Range(d)
                            /\ \A p \in Process : i \notin {fd[p], tmp_fd[p]}

\* The lines after a write of new from the first line on.
Overlay(new, old) == new \o SubSeq(old, Len(new) + 1, Len(old))

\* The loop over the lines of write_param_config: every line of the parameter
\* is replaced, or a line is added at the end.
Apply(lines, u) ==
  LET Set(l) == IF l.param = u.param THEN u ELSE l
  IN  IF \E i \in DOMAIN lines : lines[i].param = u.param
        THEN [i \in DOMAIN lines |-> Set(lines[i])]
        ELSE Append(lines, u)

\* read() into the buffer: of a longer file it has the beginning, up to the
\* middle of a line, and nothing reads the rest.
InBuffer(lines) ==
  IF Len(lines) <= BUFFER_LINES THEN lines
  ELSE SubSeq(lines, 1, BUFFER_LINES) \o <<Torn>>
-----------------------------------------------------------------------------
Open(p) ==
  /\ pc[p] = "idle"
  /\ Happens("overlap", p \in Writer /\ \E q \in Writer : pc[q] \notin {"idle", "exit"})
  /\ fd' = [fd EXCEPT ![p] = name["conf"]]
  /\ Goto(p, "lock")
  /\ UNCHANGED <<directory, content, dirty, lock, tmp_fd, buf, pos, success, versions, crashes, fails>>

\* LOCK_EX | LOCK_NB of a writer, LOCK_SH | LOCK_NB of a reader; the tool ends
\* when the lock is held.
Flock(p) ==
  /\ pc[p] = "lock"
  /\ IF lock[fd[p]] \cap (IF p \in Writer THEN Process ELSE Writer) = {}
       THEN /\ lock' = [lock EXCEPT ![fd[p]] = @ \cup {p}]
            /\ Goto(p, IF p \in Writer THEN "backup" ELSE "read")
            /\ UNCHANGED memory
       ELSE End({p})
  /\ UNCHANGED <<mishap, directory, content, dirty, success, versions, crashes, fails>>

\* back_up_file()
BackUpFile(w) ==
  /\ pc[w] = "backup"
  /\ LET b == OpenCreate("bak")
         old == IF name["bak"] = NULL THEN <<>> ELSE content[b]
     IN  /\ content' = [content EXCEPT ![b] = Overlay(content[fd[w]], old)]
         /\ SetNames([name EXCEPT !["bak"] = b])
         /\ dirty' = dirty \cup {b}
  /\ Goto(w, "read")
  /\ UNCHANGED <<mishap, lock, memory, success, versions, crashes, fails>>

\* read(); an empty file ends the tool.  A reader then looks its parameter up.
ReadFile(p) ==
  /\ pc[p] = "read"
  /\ Happens("cut", p \in Writer /\ Len(content[fd[p]]) > BUFFER_LINES)
  /\ IF content[fd[p]] = <<>>
       THEN End({p})
       ELSE /\ buf' = [buf EXCEPT ![p] = InBuffer(content[fd[p]])]
            /\ Goto(p, IF p \in Writer THEN "tmp" ELSE "close")
            /\ UNCHANGED <<lock, fd, tmp_fd, pos>>
  /\ UNCHANGED <<directory, content, dirty, success, versions, crashes, fails>>

\* The temporary file is opened, without O_TRUNC or O_EXCL.
OpenTmp(w) ==
  /\ pc[w] = "tmp"
  /\ LET t == OpenCreate("tmp")
     IN  /\ tmp_fd' = [tmp_fd EXCEPT ![w] = t]
         /\ content' = [content EXCEPT ![t] = IF name["tmp"] = NULL THEN <<>> ELSE @]
         /\ Happens("reused", name["tmp"] # NULL)
         /\ SetNames([name EXCEPT !["tmp"] = t])
  /\ Goto(w, "write")
  /\ UNCHANGED <<dirty, lock, fd, buf, pos, success, versions, crashes, fails>>

\* The lines a writer is to write, and whether the last one is added (found = 0).
Out(w) == Apply(buf[w], UpdateOf[w])
Adds(w) == Len(Out(w)) > Len(buf[w]) /\ pos[w] = Len(buf[w])

\* Mutant: the lines that are not changed are not copied.
WriteOwnLine(w) ==
  /\ pc[w] = "write" /\ pos[w] < Len(Out(w))
  /\ content' = IF Out(w)[pos[w] + 1] # UpdateOf[w] THEN content
                ELSE [content EXCEPT ![tmp_fd[w]] = Append(@, UpdateOf[w])]
  /\ pos' = [pos EXCEPT ![w] = @ + 1]
  /\ UNCHANGED <<mishap, directory, dirty, lock, pc, fd, tmp_fd, buf, success, versions, crashes, fails>>

\* The line at position i of the lines is replaced, or added.
Put(lines, i, l) == SubSeq(lines, 1, i - 1) \o <<l>> \o SubSeq(lines, i + 1, Len(lines))

Fail == fails < MaxFail /\ fails' = fails + 1

\* write() of the next line at the offset of tmp_fd.  One that writes less than
\* the line counts as a success, and the loop goes on.
WriteLine(w) ==
  /\ pc[w] = "write" /\ pos[w] < Len(Out(w))
  /\ \E l \in {Out(w)[pos[w] + 1], Torn} :
       /\ content' = [content EXCEPT ![tmp_fd[w]] = Put(@, pos[w] + 1, l)]
       /\ IF l = Out(w)[pos[w] + 1] THEN UNCHANGED <<mishap, fails>>
          ELSE Fail /\ Happens("short", TRUE)
  /\ dirty' = dirty \cup {tmp_fd[w]}
  /\ pos' = [pos EXCEPT ![w] = @ + 1]
  /\ UNCHANGED <<directory, lock, pc, fd, tmp_fd, buf, success, versions, crashes>>

\* A write() fails and the tool ends.  Only the write of an unchanged line's
\* text unlinks the temporary file; the writes of the changed line and of a
\* line's end do not.
WriteFail(w) ==
  /\ pc[w] = "write" /\ pos[w] < Len(Out(w)) /\ ~Adds(w) /\ Fail
  /\ LET changed == Out(w)[pos[w] + 1] = UpdateOf[w]
     IN  \E unlinked \in IF changed THEN {FALSE} ELSE BOOLEAN :
           SetNames([name EXCEPT !["tmp"] = IF unlinked THEN NULL ELSE @])
  /\ End({w})
  /\ UNCHANGED <<mishap, content, dirty, success, versions, crashes>>

\* The write of an added line fails, which is only reported.
AppendFail(w) ==
  /\ pc[w] = "write" /\ Adds(w) /\ Fail
  /\ pos' = [pos EXCEPT ![w] = @ + 1]
  /\ UNCHANGED <<mishap, directory, content, dirty, lock, pc, fd, tmp_fd, buf, success, versions, crashes>>


\* fsync()
Fsync(w) ==
  /\ pc[w] = "write" /\ pos[w] = Len(Out(w))
  /\ dirty' = dirty \ {tmp_fd[w]}
  /\ Goto(w, "rename")
  /\ UNCHANGED <<mishap, directory, content, lock, memory, success, versions, crashes, fails>>

FsyncFail(w) ==
  /\ pc[w] = "write" /\ pos[w] = Len(Out(w)) /\ Fail
  /\ SetNames([name EXCEPT !["tmp"] = NULL])
  /\ End({w})
  /\ UNCHANGED <<mishap, content, dirty, success, versions, crashes>>

\* safe_write_file(): a rename of a name that is gone fails with ENOENT, which
\* counts as success.
SafeWriteFile(w) ==
  /\ pc[w] = "rename"
  /\ SetNames(IF name["tmp"] = NULL THEN name
              ELSE [name EXCEPT !["conf"] = name["tmp"], !["tmp"] = NULL])
  /\ versions' = versions \cup {Apply(InBuffer(v), UpdateOf[w]) : v \in versions}
  /\ Goto(w, "unlink")
  /\ UNCHANGED <<mishap, content, dirty, lock, fd, tmp_fd, buf, pos, success, crashes, fails>>

\* rename() fails: EACCES and EBUSY end the tool, other errors count as success.
RenameFail(w) ==
  /\ pc[w] = "rename" /\ Fail
  /\ \/ End({w})
     \/ Goto(w, "unlink") /\ UNCHANGED <<lock, memory>>
  /\ UNCHANGED <<mishap, directory, content, dirty, success, versions, crashes>>

\* unlink(back_up_path)
UnlinkBackup(w) ==
  /\ pc[w] = "unlink"
  /\ SetNames([name EXCEPT !["bak"] = NULL])
  /\ Goto(w, "close")
  /\ UNCHANGED <<mishap, content, dirty, lock, memory, success, versions, crashes, fails>>

\* LOCK_UN and close()
Close(p) ==
  /\ pc[p] = "close"
  /\ End({p})
  /\ success' = IF p \in Writer THEN success \cup {p} ELSE success
  /\ UNCHANGED <<mishap, directory, content, dirty, versions, crashes, fails>>

\* Power is lost: every process ends, of the changes of the directory, which is
\* never synchronised, the first ones are on the disk, and so is any prefix of
\* data that was not synchronised.  A file without a name is gone.
PowerLoss ==
  /\ crashes < MaxCrash /\ crashes' = crashes + 1
  /\ End({p \in Process : pc[p] # "idle"})
  /\ name' \in disk /\ disk' = {name'}
  /\ \E cut \in [dirty \cap Range(name') -> 0 .. BUFFER_LINES + 2] :
       content' = [i \in Inode |-> CASE i \notin Range(name') -> <<>>
                                     [] i \in DOMAIN cut /\ cut[i] < Len(content[i]) ->
                                          SubSeq(content[i], 1, cut[i])
                                     [] OTHER -> content[i]]
  /\ dirty' = {}
  /\ Happens("undone", name'["conf"] # name["conf"])
  /\ UNCHANGED <<success, versions, fails>>

WriteParamConfig(w) ==
  \/ BackUpFile(w) \/ OpenTmp(w) \/ WriteLine(w) \/ WriteFail(w) \/ AppendFail(w)
  \/ Fsync(w) \/ FsyncFail(w) \/ SafeWriteFile(w) \/ RenameFail(w) \/ UnlinkBackup(w)

Ended == (\A p \in Process : pc[p] = "exit") /\ UNCHANGED vars

Step(p) ==
  \/ Open(p) \/ Flock(p) \/ ReadFile(p) \/ Close(p)
  \/ p \in Writer /\ WriteParamConfig(p)

Next == (\E p \in Process : Step(p)) \/ PowerLoss \/ Ended

Spec == Init /\ [][Next]_vars
-----------------------------------------------------------------------------
Active(w) == pc[w] \notin {"idle", "exit"}
Config == content[name["conf"]]


(***************************************************************************)
(* Once no writer runs, the parameter of every writer that returned 0 has   *)
(* its value (each writer has its own), also after a power loss that leaves  *)
(* the file's name as it was, if no call failed, no file was longer than the *)
(* buffer and writers did not overlap: one that opened the file before       *)
(* another's rename locks, and reads, a file that is gone.                   *)
(***************************************************************************)
WritesApplied ==
  (\A w \in Writer : ~Active(w)) /\ mishap = {} /\ fails = 0
    => \A w \in success : \E i \in DOMAIN Config : Config[i] = UpdateOf[w]

(***************************************************************************)
(* README, "Atomic Overwrite": the file "is guaranteed to remain **100**%    *)
(* intact".  A write that is alone replaces a file that is longer than its   *)
(* buffer by one without the end.                                            *)
(***************************************************************************)
Intact ==
  [][crashes' = crashes /\ mishap' \subseteq {"cut"} =>
       {Config[i].param : i \in DOMAIN Config} \subseteq {Config'[i].param : i \in DOMAIN Config'}]_vars

(***************************************************************************)
(* README, "Write Failures": "If an error occurs while writing data to the  *)
(* .tmp file (e.g., storage full), the temporary file is immediately        *)
(* deleted".                                                                *)
(***************************************************************************)
TmpDeleted ==
  [][\A w \in Writer : pc[w] = "write" /\ pc'[w] = "exit" => name'["tmp"] = NULL]_vars
=============================================================================
