---------------------------- MODULE AtomicStore ----------------------------
(***************************************************************************)
(* What keystore::save and keystore::load promise their callers ("Atomic   *)
(* write ... Preserves the previous keystore on partial-write crash"): the *)
(* keystore is one value.  A save replaces it in one step and reports Ok,  *)
(* or leaves it alone and reports an error; a crash of the saving process  *)
(* leaves it alone, whenever it comes.                                     *)
(***************************************************************************)
CONSTANTS
    Saver,     \* tasks that call save
    Pid,       \* processes
    PidOf,     \* the process of each task
    Contents,  \* values of the keystore
    Missing,   \* no keystore yet
    NoData     \* no save in progress

VARIABLES
    value,     \* what a load returns
    pending,   \* the argument of each save in progress
    outcome    \* what the last save of each task returned

storeVars == <<value, pending, outcome>>

StoreInit ==
    /\ value \in Contents \cup {Missing}
    /\ pending = [s \in Saver |-> NoData]
    /\ outcome = [s \in Saver |-> "none"]

Call(s, c) ==
    /\ pending[s] = NoData
    /\ pending' = [pending EXCEPT ![s] = c]
    /\ outcome' = [outcome EXCEPT ![s] = "none"]
    /\ UNCHANGED value

Commit(s) ==
    /\ pending[s] # NoData
    /\ value' = pending[s]
    /\ pending' = [pending EXCEPT ![s] = NoData]
    /\ outcome' = [outcome EXCEPT ![s] = "ok"]

Fail(s) ==
    /\ pending[s] # NoData
    /\ pending' = [pending EXCEPT ![s] = NoData]
    /\ outcome' = [outcome EXCEPT ![s] = "err"]
    /\ UNCHANGED value

Consume(s) ==
    /\ outcome' = [outcome EXCEPT ![s] = "none"]
    /\ UNCHANGED <<value, pending>>

Crash(p) ==
    /\ pending' = [s \in Saver |-> IF PidOf[s] = p THEN NoData ELSE pending[s]]
    /\ outcome' = [s \in Saver |-> IF PidOf[s] = p THEN "none" ELSE outcome[s]]
    /\ UNCHANGED value

StoreNext ==
    \/ \E s \in Saver :
          Commit(s) \/ Fail(s) \/ Consume(s) \/ \E c \in Contents : Call(s, c)
    \/ \E p \in Pid : Crash(p)

StoreSpec == StoreInit /\ [][StoreNext]_storeVars
=============================================================================
