---------------------------- MODULE KeystoreFile ----------------------------
(***************************************************************************)
(* The keystore on disk, daemon/src/keystore/mod.rs: `save` writes a       *)
(* temporary file named after the process id, then renames it over the     *)
(* keystore; `load` reads and decrypts the keystore.                       *)
(*                                                                         *)
(* Names and files are kept apart, because a save holds a file open while  *)
(* another save of the same process opens, truncates or renames the same   *)
(* name.  Savers are tasks; PidOf says which process a task runs in.       *)
(***************************************************************************)
EXTENDS Naturals, FiniteSets

CONSTANTS
    Saver,     \* tasks that call keystore::save
    Pid,       \* processes
    PidOf,     \* the process of each task
    Contents,  \* keystore values
    Inode,     \* files on the volume
    NoInode,   \* a name that names no file
    Missing,   \* load finds no keystore
    Empty,     \* a file just created or truncated
    Unreadable,\* a file that does not decrypt: partial or mixed
    NoData     \* no save in progress

ASSUME SaverAssumption == PidOf \in [Saver -> Pid]
ASSUME FileAssumption  == /\ NoInode \notin Inode
                          /\ Missing \notin Contents
                          /\ Empty \notin Contents
                          /\ Unreadable \notin Contents
                          /\ NoData \notin Contents
                          /\ Missing \notin {Empty, Unreadable}

VARIABLES
    path,      \* the file keystore.bin names
    tmp,       \* the file keystore.bin.tmp.<pid> names, for each pid
    file,      \* what each file holds
    step,      \* where each task is in save
    fd,        \* the file each task has open
    pending,   \* the contents each task is saving
    outcome    \* what the last save of each task returned

fileVars == <<path, tmp, file, step, fd, pending, outcome>>

FileInit ==
    /\ tmp = [p \in Pid |-> NoInode]
    /\ \/ path = NoInode /\ file = [i \in Inode |-> Empty]
       \/ \E i \in Inode, c \in Contents :
            path = i /\ file = [j \in Inode |-> IF j = i THEN c ELSE Empty]
    /\ step = [s \in Saver |-> "idle"]
    /\ fd = [s \in Saver |-> NoInode]
    /\ pending = [s \in Saver |-> NoData]
    /\ outcome = [s \in Saver |-> "none"]

InUse == {path} \cup {tmp[p] : p \in Pid} \cup {fd[s] : s \in Saver}

(* load: NotFound, a decrypted value, or an error. *)
Load == IF path = NoInode THEN Missing ELSE file[path]

-----------------------------------------------------------------------------
(* The save ends with an Ok or an error. *)
Return(s, result) ==
    /\ step' = [step EXCEPT ![s] = "idle"]
    /\ fd' = [fd EXCEPT ![s] = NoInode]
    /\ pending' = [pending EXCEPT ![s] = NoData]
    /\ outcome' = [outcome EXCEPT ![s] = result]

SaveCall(s, c) ==
    /\ step[s] = "idle"
    /\ step' = [step EXCEPT ![s] = "create"]
    /\ pending' = [pending EXCEPT ![s] = c]
    /\ outcome' = [outcome EXCEPT ![s] = "none"]
    /\ UNCHANGED <<path, tmp, file, fd>>

(* Encoding or encryption fails, or the temporary file cannot be opened. *)
SaveOpenFails(s) ==
    /\ step[s] = "create"
    /\ Return(s, "err")
    /\ UNCHANGED <<path, tmp, file>>

\* Writing the keystore in place, without a temporary file.
TmpFile_InPlace(s) == IF path = NoInode THEN tmp[PidOf[s]] ELSE path

TmpFile(s) == tmp[PidOf[s]]

(* fs::write opens the name with create and truncate: a new file, or the    *)
(* one a failed, crashed or concurrent save left under that name.           *)
SaveCreate(s) ==
    /\ step[s] = "create"
    /\ \E i \in IF TmpFile(s) = NoInode THEN Inode \ InUse ELSE {TmpFile(s)} :
         /\ tmp' = [tmp EXCEPT ![PidOf[s]] = i]
         /\ file' = [file EXCEPT ![i] = Empty]
         /\ fd' = [fd EXCEPT ![s] = i]
    /\ step' = [step EXCEPT ![s] = "write"]
    /\ UNCHANGED <<path, pending, outcome>>

(* ... and writes from offset 0.  Over bytes another save wrote since the   *)
(* truncation the result is whole or a mixture, depending on the lengths.   *)
SaveWrite(s) ==
    /\ step[s] = "write"
    /\ \E v \in IF file[fd[s]] = Empty THEN {pending[s]}
                ELSE {pending[s], Unreadable} :
         file' = [file EXCEPT ![fd[s]] = v]
    /\ step' = [step EXCEPT ![s] = "rename"]
    /\ UNCHANGED <<path, tmp, fd, pending, outcome>>

\* The error of the write is dropped and the save goes on.
SaveWriteFails_Ignored(s) ==
    /\ step[s] = "write"
    /\ file' = [file EXCEPT ![fd[s]] = Unreadable]
    /\ step' = [step EXCEPT ![s] = "rename"]
    /\ UNCHANGED <<path, tmp, fd, pending, outcome>>

(* The write stops short; the temporary file stays behind. *)
SaveWriteFails(s) ==
    /\ step[s] = "write"
    /\ file' = [file EXCEPT ![fd[s]] = Unreadable]
    /\ Return(s, "err")
    /\ UNCHANGED <<path, tmp>>

(* The temporary file becomes the keystore; the file it replaces is gone    *)
(* (a task that still has it open writes where nobody reads).               *)
SaveRename(s) ==
    /\ step[s] = "rename"
    /\ tmp[PidOf[s]] # NoInode
    /\ path' = tmp[PidOf[s]]
    /\ tmp' = [tmp EXCEPT ![PidOf[s]] = NoInode]
    /\ file' = [i \in Inode |-> IF i = path THEN Empty ELSE file[i]]
    /\ Return(s, "ok")

\* The error of the rename is dropped and the save reports Ok.
SaveRenameFails_Ignored(s) ==
    /\ step[s] = "rename"
    /\ Return(s, "ok")
    /\ UNCHANGED <<path, tmp, file>>

(* The rename is refused, or the name is gone (NotFound). *)
SaveRenameFails(s) ==
    /\ step[s] = "rename"
    /\ Return(s, "err")
    /\ UNCHANGED <<path, tmp, file>>

(* The caller has looked at the result. *)
Consume(s) ==
    /\ outcome' = [outcome EXCEPT ![s] = "none"]
    /\ UNCHANGED <<path, tmp, file, step, fd, pending>>

(* The process dies; files stay as they are.  A later process may get the   *)
(* same pid and find the temporary file.                                    *)
Exit(p) ==
    LET gone(s) == PidOf[s] = p IN
    /\ step' = [s \in Saver |-> IF gone(s) THEN "idle" ELSE step[s]]
    /\ fd' = [s \in Saver |-> IF gone(s) THEN NoInode ELSE fd[s]]
    /\ pending' = [s \in Saver |-> IF gone(s) THEN NoData ELSE pending[s]]
    /\ outcome' = [s \in Saver |-> IF gone(s) THEN "none" ELSE outcome[s]]
    /\ UNCHANGED <<path, tmp, file>>

SaveStep(s) == \/ SaveOpenFails(s) \/ SaveCreate(s) \/ SaveWrite(s)
               \/ SaveWriteFails(s) \/ SaveRename(s) \/ SaveRenameFails(s)

FileNext ==
    \/ \E s \in Saver : SaveStep(s) \/ Consume(s) \/ \E c \in Contents : SaveCall(s, c)
    \/ \E p \in Pid : Exit(p)

FileSpec == FileInit /\ [][FileNext]_fileVars

-----------------------------------------------------------------------------
(* The types of the variables, and what a task holds at each step of save.  *)
FileTypeOK ==
    /\ path \in Inode \cup {NoInode}
    /\ tmp \in [Pid -> Inode \cup {NoInode}]
    /\ file \in [Inode -> Contents \cup {Empty, Unreadable}]
    /\ step \in [Saver -> {"idle", "create", "write", "rename"}]
    /\ fd \in [Saver -> Inode \cup {NoInode}]
    /\ pending \in [Saver -> Contents \cup {NoData}]
    /\ outcome \in [Saver -> {"none", "ok", "err"}]
    /\ \A s \in Saver : /\ pending[s] # NoData <=> step[s] # "idle"
                        /\ fd[s] # NoInode <=> step[s] \in {"write", "rename"}

(* A process runs at most one save at a time: true of `pair` and of the     *)
(* admin subcommands, not of a listener with several connections.           *)
OneSaverPerProcess ==
    \A s, t \in Saver : PidOf[s] = PidOf[t] => s = t

(* The keystore can always be loaded: whenever a process dies and whatever  *)
(* fails, load finds either no file or a whole one.                         *)
AlwaysLoadable == Load \in Contents \cup {Missing}

(* save and load together behave as an atomic register.                     *)
Abstract == INSTANCE AtomicStore WITH value <- Load
ImplementsStore == Abstract!StoreSpec

(* The inductive invariant of one saver per process: the temporary file of  *)
(* a process is its own, distinct from the keystore, and whole once its     *)
(* save has come to the rename.                                             *)
OwnTmp ==
    /\ \A p \in Pid : tmp[p] # NoInode => tmp[p] # path
    /\ \A p, q \in Pid : p # q /\ tmp[p] # NoInode => tmp[p] # tmp[q]
    /\ \A s \in Saver : step[s] \in {"write", "rename"} => fd[s] = tmp[PidOf[s]]

WholeBeforeRename ==
    \A s \in Saver :
        /\ step[s] = "write" => file[fd[s]] = Empty
        /\ step[s] = "rename" => file[fd[s]] = pending[s]

FileInv == FileTypeOK /\ OwnTmp /\ WholeBeforeRename /\ AlwaysLoadable
=============================================================================
