----------------------------- MODULE StoreOpen -----------------------------
(***************************************************************************)
(* Opening the store (internal/store/store.go, internal/store/             *)
(* migrations.go): the watcher, a cycle and a command open the database    *)
(* together, some of them of an older release, and each migrates it step   *)
(* by step.  A step is one immediate transaction with its bookkeeping, so  *)
(* a process that dies inside one leaves nothing.                          *)
(***************************************************************************)
EXTENDS Integers

CONSTANTS
    Proc,           \* processes
    Release,        \* the schema version each process's build expects
    MaxSchema       \* the newest schema of any release

ASSUME SchemaAssumption == MaxSchema \in Nat \ {0} /\ Release \in [Proc -> 1..MaxSchema]

VARIABLES
    user_version,   \* of the database; 0 before it is initialised
    applied,        \* how often each step has run on it
    handle,         \* of each process
    current         \* the version a process that is migrating has come to

storeVars == <<user_version, applied, handle, current>>

StoreTypeOK ==
    /\ user_version \in 0..MaxSchema /\ applied \in [1..MaxSchema -> Nat]
    /\ handle \in [Proc -> {"closed", "migrating", "open"}] /\ current \in [Proc -> 0..MaxSchema]

\* A database some older release has initialised, or none.
StoreInit ==
    /\ \E v \in {0, 1} : user_version = v /\ applied = [s \in 1..MaxSchema |-> IF s <= v THEN 1 ELSE 0]
    /\ handle = [p \in Proc |-> "closed"] /\ current = [p \in Proc |-> 0]

Newer(p) == user_version > Release[p]

\* migrate has come to version v.
Reach(p, v) ==
    /\ current' = [current EXCEPT ![p] = v]
    /\ handle' = [handle EXCEPT ![p] = IF v = Release[p] THEN "open" ELSE "migrating"]

\* The version is read before any lock, and a newer one refused.
Open(p) ==
    /\ handle[p] = "closed" /\ ~Newer(p) /\ Reach(p, user_version)
    /\ UNCHANGED <<user_version, applied>>

\* The version is read again under the write lock; a step that has been applied is skipped.
Mut_Pending(step) == TRUE
Pending(step) == user_version < step
applyMigration(p) ==
    LET step == current[p] + 1 IN
    /\ handle[p] = "migrating" /\ Reach(p, step)
    /\ IF Pending(step)
       THEN applied' = [applied EXCEPT ![step] = @ + 1] /\ user_version' = step
       ELSE UNCHANGED <<applied, user_version>>
Close(p) ==
    /\ handle' = [handle EXCEPT ![p] = "closed"] /\ current' = [current EXCEPT ![p] = 0]
    /\ UNCHANGED <<user_version, applied>>

\* Every step has run exactly once, in order, and a process works on a database that has the
\* schema of its release, whoever migrated it (migrations.go:388-393, 423-430).
SchemaIsWhole ==
    /\ \A s \in 1..MaxSchema : applied[s] = IF s <= user_version THEN 1 ELSE 0
    /\ \A p \in Proc : handle[p] = "open" => user_version >= Release[p]

=============================================================================
