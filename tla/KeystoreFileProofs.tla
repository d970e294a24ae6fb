------------------------- MODULE KeystoreFileProofs -------------------------
(***************************************************************************)
(* Proofs about keystore::save and keystore::load for any number of        *)
(* processes, each of which runs one save at a time.                       *)
(***************************************************************************)
EXTENDS KeystoreFile, TLAPS

(* The initial file system satisfies the invariant. *)
LEMMA FileInitInv == FileInit => FileInv
  <1> SUFFICES ASSUME FileInit PROVE FileInv
    OBVIOUS
  <1>1. FileTypeOK
    BY FileAssumption DEF FileInit, FileTypeOK
  <1>2. OwnTmp
    BY SaverAssumption DEF FileInit, OwnTmp
  <1>3. WholeBeforeRename
    BY DEF FileInit, WholeBeforeRename
  <1>4. AlwaysLoadable
    BY FileAssumption DEF FileInit, AlwaysLoadable, Load
  <1> QED BY <1>1, <1>2, <1>3, <1>4 DEF FileInv

(* Every step keeps the types. *)
LEMMA FileTypeStep ==
    ASSUME FileTypeOK, [FileNext]_fileVars
    PROVE  FileTypeOK'
  <1> USE SaverAssumption, FileAssumption
  <1>1. ASSUME NEW s \in Saver, NEW c \in Contents, SaveCall(s, c) PROVE FileTypeOK'
    BY <1>1 DEF SaveCall, FileTypeOK
  <1>2. ASSUME NEW s \in Saver, SaveOpenFails(s) PROVE FileTypeOK'
    BY <1>2 DEF SaveOpenFails, Return, FileTypeOK
  <1>3. ASSUME NEW s \in Saver, SaveCreate(s) PROVE FileTypeOK'
    BY <1>3 DEF SaveCreate, TmpFile, FileTypeOK
  <1>4. ASSUME NEW s \in Saver, SaveWrite(s) PROVE FileTypeOK'
    BY <1>4 DEF SaveWrite, FileTypeOK
  <1>5. ASSUME NEW s \in Saver, SaveWriteFails(s) PROVE FileTypeOK'
    BY <1>5 DEF SaveWriteFails, Return, FileTypeOK
  <1>6. ASSUME NEW s \in Saver, SaveRename(s) PROVE FileTypeOK'
    BY <1>6 DEF SaveRename, Return, FileTypeOK
  <1>7. ASSUME NEW s \in Saver, SaveRenameFails(s) PROVE FileTypeOK'
    BY <1>7 DEF SaveRenameFails, Return, FileTypeOK
  <1>8. ASSUME NEW s \in Saver, Consume(s) PROVE FileTypeOK'
    BY <1>8 DEF Consume, FileTypeOK
  <1>9. ASSUME NEW p \in Pid, Exit(p) PROVE FileTypeOK'
    BY <1>9 DEF Exit, FileTypeOK
  <1>10. CASE UNCHANGED fileVars
    BY <1>10 DEF fileVars, FileTypeOK
  <1> QED
    BY <1>1, <1>2, <1>3, <1>4, <1>5, <1>6, <1>7, <1>8, <1>9, <1>10
    DEF FileNext, SaveStep

(* With one save at a time per process, every step of a save keeps the      *)
(* temporary file of each process its own, whole when it is renamed, and    *)
(* the keystore loadable.                                                   *)
LEMMA FileInvStep ==
    ASSUME OneSaverPerProcess, FileInv, [FileNext]_fileVars
    PROVE  FileInv'
  <1> USE SaverAssumption, FileAssumption
  <1> DEFINE Rest == OwnTmp /\ WholeBeforeRename /\ AlwaysLoadable
  <1>0. FileTypeOK'
    BY FileTypeStep DEF FileInv
  <1>1. ASSUME NEW s \in Saver, NEW c \in Contents, SaveCall(s, c) PROVE Rest'
    BY <1>1 DEF SaveCall, FileInv, FileTypeOK, OwnTmp, WholeBeforeRename,
                AlwaysLoadable, Load
  <1>2. ASSUME NEW s \in Saver, SaveOpenFails(s) PROVE Rest'
    BY <1>2 DEF SaveOpenFails, Return, FileInv, FileTypeOK, OwnTmp, WholeBeforeRename,
                AlwaysLoadable, Load
  <1>3. ASSUME NEW s \in Saver, SaveCreate(s) PROVE Rest'
    <2>1. PICK i \in IF TmpFile(s) = NoInode THEN Inode \ InUse ELSE {TmpFile(s)} :
            /\ tmp' = [tmp EXCEPT ![PidOf[s]] = i]
            /\ file' = [file EXCEPT ![i] = Empty]
            /\ fd' = [fd EXCEPT ![s] = i]
      BY <1>3 DEF SaveCreate
    <2>2. /\ step[s] = "create"
          /\ step' = [step EXCEPT ![s] = "write"]
          /\ UNCHANGED <<path, pending, outcome>>
      BY <1>3 DEF SaveCreate
    <2>3. /\ i \in Inode
          /\ i # path
          /\ \A p \in Pid : p # PidOf[s] => tmp[p] # i
          /\ \A t \in Saver : t # s => fd[t] # i
      <3>1. CASE TmpFile(s) = NoInode
        BY <2>1, <3>1 DEF InUse
      <3>2. CASE TmpFile(s) # NoInode
        <4>1. i = tmp[PidOf[s]]
          BY <2>1, <3>2 DEF TmpFile
        <4>2. ASSUME NEW t \in Saver, t # s PROVE fd[t] # i
          <5>1. PidOf[t] # PidOf[s]
            BY <4>2 DEF OneSaverPerProcess
          <5> QED BY <4>1, <4>2, <5>1, <3>2 DEF FileInv, FileTypeOK, OwnTmp, TmpFile
        <4> QED BY <4>1, <4>2, <3>2 DEF FileInv, FileTypeOK, OwnTmp, TmpFile
      <3> QED BY <3>1, <3>2
    <2>4. OwnTmp'
      BY <2>1, <2>2, <2>3 DEF FileInv, FileTypeOK, OwnTmp, OneSaverPerProcess
    <2>5. WholeBeforeRename'
      BY <2>1, <2>2, <2>3 DEF FileInv, FileTypeOK, WholeBeforeRename
    <2>6. AlwaysLoadable'
      BY <2>1, <2>2, <2>3 DEF FileInv, FileTypeOK, AlwaysLoadable, Load
    <2> QED BY <2>4, <2>5, <2>6
  <1>4. ASSUME NEW s \in Saver, SaveWrite(s) PROVE Rest'
    <2>1. /\ step[s] = "write"
          /\ file' = [file EXCEPT ![fd[s]] = pending[s]]
          /\ step' = [step EXCEPT ![s] = "rename"]
          /\ UNCHANGED <<path, tmp, fd, pending, outcome>>
      BY <1>4 DEF SaveWrite, FileInv, WholeBeforeRename
    <2>2. /\ fd[s] # path
          /\ fd[s] \in Inode
          /\ \A t \in Saver : t # s => fd[t] # fd[s]
      BY <2>1 DEF FileInv, FileTypeOK, OwnTmp, OneSaverPerProcess
    <2> QED
      BY <2>1, <2>2 DEF FileInv, FileTypeOK, OwnTmp, WholeBeforeRename, AlwaysLoadable, Load
  <1>5. ASSUME NEW s \in Saver, SaveWriteFails(s) PROVE Rest'
    <2>1. /\ fd[s] # path
          /\ fd[s] \in Inode
          /\ \A t \in Saver : t # s => fd[t] # fd[s]
      BY <1>5 DEF SaveWriteFails, FileInv, FileTypeOK, OwnTmp, OneSaverPerProcess
    <2> QED
      BY <1>5, <2>1 DEF SaveWriteFails, Return, FileInv, FileTypeOK, OwnTmp,
                        WholeBeforeRename, AlwaysLoadable, Load
  <1>6. ASSUME NEW s \in Saver, SaveRename(s) PROVE Rest'
    <2>1. /\ step[s] = "rename"
          /\ path' = tmp[PidOf[s]]
          /\ tmp' = [tmp EXCEPT ![PidOf[s]] = NoInode]
          /\ file' = [i \in Inode |-> IF i = path THEN Empty ELSE file[i]]
          /\ step' = [step EXCEPT ![s] = "idle"]
          /\ fd' = [fd EXCEPT ![s] = NoInode]
          /\ pending' = [pending EXCEPT ![s] = NoData]
      BY <1>6 DEF SaveRename, Return
    <2>2. /\ tmp[PidOf[s]] \in Inode
          /\ tmp[PidOf[s]] # path
          /\ file[tmp[PidOf[s]]] \in Contents
      BY <2>1 DEF FileInv, FileTypeOK, OwnTmp, WholeBeforeRename
    <2>3. OwnTmp'
      BY <2>1, <2>2 DEF FileInv, FileTypeOK, OwnTmp, OneSaverPerProcess
    <2>4. WholeBeforeRename'
      BY <2>1, <2>2 DEF FileInv, FileTypeOK, OwnTmp, WholeBeforeRename
    <2>5. AlwaysLoadable'
      BY <2>1, <2>2 DEF AlwaysLoadable, Load
    <2> QED BY <2>3, <2>4, <2>5
  <1>7. ASSUME NEW s \in Saver, SaveRenameFails(s) PROVE Rest'
    BY <1>7 DEF SaveRenameFails, Return, FileInv, FileTypeOK, OwnTmp, WholeBeforeRename,
                AlwaysLoadable, Load
  <1>8. ASSUME NEW s \in Saver, Consume(s) PROVE Rest'
    BY <1>8 DEF Consume, FileInv, FileTypeOK, OwnTmp, WholeBeforeRename,
                AlwaysLoadable, Load
  <1>9. ASSUME NEW p \in Pid, Exit(p) PROVE Rest'
    BY <1>9 DEF Exit, FileInv, FileTypeOK, OwnTmp, WholeBeforeRename, AlwaysLoadable, Load
  <1>10. ASSUME UNCHANGED fileVars PROVE Rest'
    <2>1. OwnTmp' /\ WholeBeforeRename'
      BY <1>10 DEF fileVars, FileInv, OwnTmp, WholeBeforeRename
    <2>2. AlwaysLoadable'
      BY <1>10 DEF fileVars, FileInv, AlwaysLoadable, Load
    <2> QED BY <2>1, <2>2
  <1> HIDE DEF Rest
  <1>11. Rest'
    BY <1>1, <1>2, <1>3, <1>4, <1>5, <1>6, <1>7, <1>8, <1>9, <1>10
    DEF FileNext, SaveStep
  <1> QED BY <1>0, <1>11 DEF FileInv, Rest

(* The invariant holds throughout. *)
THEOREM FileCorrect ==
    ASSUME OneSaverPerProcess
    PROVE  FileSpec => []FileInv
  <1>1. FileInit => FileInv
    BY FileInitInv
  <1>2. FileInv /\ [FileNext]_fileVars => FileInv'
    BY FileInvStep
  <1> QED BY <1>1, <1>2, PTL DEF FileSpec

(* As long as no process runs two saves at once, keystore::load always      *)
(* finds no keystore or a whole one, whatever fails and whenever a process  *)
(* dies: the "Atomic write" of keystore::save.                              *)
THEOREM KeystoreAlwaysLoadable ==
    ASSUME OneSaverPerProcess
    PROVE  FileSpec => []AlwaysLoadable
  <1>1. FileInv => AlwaysLoadable
    BY DEF FileInv
  <1> QED BY <1>1, FileCorrect, PTL

(* Every step of a save is a step of the atomic store, or none of its       *)
(* business: only the rename changes what load returns, and it changes it   *)
(* to exactly what was to be saved.                                         *)
LEMMA StoreStep ==
    ASSUME OneSaverPerProcess, FileInv, [FileNext]_fileVars
    PROVE  [Abstract!StoreNext]_(Abstract!storeVars)
  <1> USE SaverAssumption, FileAssumption
  <1> DEFINE Goal == [Abstract!StoreNext]_(Abstract!storeVars)
  <1>1. ASSUME NEW s \in Saver, NEW c \in Contents, SaveCall(s, c) PROVE Goal
    <2>1. Abstract!Call(s, c)
      BY <1>1 DEF SaveCall, Abstract!Call, Load, FileInv, FileTypeOK
    <2> QED BY <2>1 DEF Abstract!StoreNext
  <1>2. ASSUME NEW s \in Saver, SaveOpenFails(s) PROVE Goal
    <2>1. Abstract!Fail(s)
      BY <1>2 DEF SaveOpenFails, Return, Abstract!Fail, Load, FileInv, FileTypeOK
    <2> QED BY <2>1 DEF Abstract!StoreNext
  <1>3. ASSUME NEW s \in Saver, SaveCreate(s) PROVE Goal
    <2>1. PICK i \in IF TmpFile(s) = NoInode THEN Inode \ InUse ELSE {TmpFile(s)} :
            file' = [file EXCEPT ![i] = Empty]
      BY <1>3 DEF SaveCreate
    <2>2. i # path
      BY <2>1 DEF InUse, TmpFile, FileInv, FileTypeOK, OwnTmp
    <2>3. Load' = Load
      BY <1>3, <2>1, <2>2 DEF SaveCreate, Load, FileInv, FileTypeOK
    <2> QED BY <1>3, <2>3 DEF SaveCreate, Abstract!storeVars
  <1>4. ASSUME NEW s \in Saver, SaveWrite(s) PROVE Goal
    <2>1. fd[s] # path
      BY <1>4 DEF SaveWrite, FileInv, FileTypeOK, OwnTmp
    <2>2. Load' = Load
      BY <1>4, <2>1 DEF SaveWrite, Load, FileInv, FileTypeOK
    <2> QED BY <1>4, <2>2 DEF SaveWrite, Abstract!storeVars
  <1>5. ASSUME NEW s \in Saver, SaveWriteFails(s) PROVE Goal
    <2>1. fd[s] # path
      BY <1>5 DEF SaveWriteFails, FileInv, FileTypeOK, OwnTmp
    <2>2. Load' = Load
      BY <1>5, <2>1 DEF SaveWriteFails, Load, FileInv, FileTypeOK
    <2>3. Abstract!Fail(s)
      BY <1>5, <2>2 DEF SaveWriteFails, Return, Abstract!Fail, FileInv, FileTypeOK
    <2> QED BY <2>3 DEF Abstract!StoreNext
  <1>6. ASSUME NEW s \in Saver, SaveRename(s) PROVE Goal
    <2>1. tmp[PidOf[s]] \in Inode /\ tmp[PidOf[s]] # path
      BY <1>6 DEF SaveRename, FileInv, FileTypeOK, OwnTmp
    <2>2. file[tmp[PidOf[s]]] = pending[s]
      BY <1>6 DEF SaveRename, FileInv, OwnTmp, WholeBeforeRename
    <2>3. Load' = pending[s]
      BY <1>6, <2>1, <2>2 DEF SaveRename, Load
    <2>4. Abstract!Commit(s)
      BY <1>6, <2>3 DEF SaveRename, Return, Abstract!Commit, FileInv, FileTypeOK
    <2> QED BY <2>4 DEF Abstract!StoreNext
  <1>7. ASSUME NEW s \in Saver, SaveRenameFails(s) PROVE Goal
    <2>1. Abstract!Fail(s)
      BY <1>7 DEF SaveRenameFails, Return, Abstract!Fail, Load, FileInv, FileTypeOK
    <2> QED BY <2>1 DEF Abstract!StoreNext
  <1>8. ASSUME NEW s \in Saver, Consume(s) PROVE Goal
    <2>1. Abstract!Consume(s)
      BY <1>8 DEF Consume, Abstract!Consume, Load
    <2> QED BY <2>1 DEF Abstract!StoreNext
  <1>9. ASSUME NEW p \in Pid, Exit(p) PROVE Goal
    <2>1. Abstract!Crash(p)
      BY <1>9 DEF Exit, Abstract!Crash, Load
    <2> QED BY <2>1 DEF Abstract!StoreNext
  <1>10. ASSUME UNCHANGED fileVars PROVE Goal
    BY <1>10 DEF fileVars, Abstract!storeVars, Load
  <1> HIDE DEF Goal
  <1>11. Goal
    BY <1>1, <1>2, <1>3, <1>4, <1>5, <1>6, <1>7, <1>8, <1>9, <1>10
    DEF FileNext, SaveStep
  <1> QED BY <1>11 DEF Goal

(* keystore::save and keystore::load implement an atomic register, for any  *)
(* number of processes, as long as none of them runs two saves at once.     *)
THEOREM SaveIsAtomic ==
    ASSUME OneSaverPerProcess
    PROVE  FileSpec => ImplementsStore
  <1>1. FileInit => Abstract!StoreInit
    BY FileAssumption DEF FileInit, Abstract!StoreInit, Load
  <1>2. FileInv /\ [FileNext]_fileVars => [Abstract!StoreNext]_(Abstract!storeVars)
    BY StoreStep
  <1> QED BY <1>1, <1>2, FileCorrect, PTL DEF FileSpec, ImplementsStore, Abstract!StoreSpec
=============================================================================
