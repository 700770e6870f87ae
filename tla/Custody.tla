------------------------------ MODULE Custody ------------------------------
(***************************************************************************)
(* What the cleanup engine promises about other people's objects.          *)
(*                                                                         *)
(* A receipt is opened once, for a path no other open receipt claims; it   *)
(* takes one object into custody at a time; it is closed only when it      *)
(* holds nothing, so nothing in quarantine is ever forgotten; and what it  *)
(* holds is destroyed only after it was held for the retention window.     *)
(* Objects nobody holds belong to their owner, who may do anything.        *)
(***************************************************************************)
EXTENDS Integers

CONSTANTS Receipt, Obj, NoObj, Path(_), Retention

VARIABLES status,   \* "new", "open" or "closed", per receipt
          held,     \* the object in the custody of a receipt
          since,    \* when it was taken, -1 when nothing is held
          alive,    \* the objects that exist
          clock

custody == <<status, held, since, alive, clock>>

Held == {held[r] : r \in Receipt} \ {NoObj}

Init ==
    /\ status = [r \in Receipt |-> "new"]
    /\ held = [r \in Receipt |-> NoObj]
    /\ since = [r \in Receipt |-> -1]
    /\ alive = {} /\ clock = 0

Open(r) ==
    /\ status[r] = "new" /\ held[r] = NoObj
    /\ \A q \in Receipt : status[q] = "open" => Path(q) # Path(r)
    /\ status' = [status EXCEPT ![r] = "open"]
    /\ UNCHANGED <<held, since, alive, clock>>

Close(r) ==
    /\ status[r] = "open" /\ held[r] = NoObj
    /\ status' = [status EXCEPT ![r] = "closed"]
    /\ UNCHANGED <<held, since, alive, clock>>

Take(r, o) ==
    /\ status[r] = "open" /\ held[r] = NoObj
    /\ o \in alive \ Held
    /\ held' = [held EXCEPT ![r] = o]
    /\ since' = [since EXCEPT ![r] = clock]
    /\ UNCHANGED <<status, alive, clock>>

\* Given back by a restore, or taken out of quarantine by the owner; an object nobody holds
\* may give way to it.
Release(r) ==
    /\ held[r] # NoObj
    /\ held' = [held EXCEPT ![r] = NoObj]
    /\ since' = [since EXCEPT ![r] = -1]
    /\ alive' = alive \/ \E o \in Obj \ Held : alive' = alive \ {o}
    /\ UNCHANGED <<status, clock>>

Destroy(r) ==
    /\ status[r] = "open" /\ held[r] # NoObj
    /\ clock >= since[r] + Retention
    /\ held' = [held EXCEPT ![r] = NoObj]
    /\ since' = [since EXCEPT ![r] = -1]
    /\ alive' = alive \ {held[r]}
    /\ UNCHANGED <<status, clock>>

\* The owner creates objects, and removes those that are not in custody.
Own ==
    /\ \E o \in Obj : alive' = alive \cup {o} \/ (o \notin Held /\ alive' = alive \ {o})
    /\ UNCHANGED <<status, held, since, clock>>

Pass ==
    /\ clock' = clock + 1
    /\ UNCHANGED <<status, held, since, alive>>

Next ==
    \/ \E r \in Receipt : Open(r) \/ Close(r) \/ Release(r) \/ Destroy(r)
    \/ \E r \in Receipt, o \in Obj : Take(r, o)
    \/ Own \/ Pass

Spec == Init /\ [][Next]_custody

-----------------------------------------------------------------------------
(* What an owner may expect of it: consequences of the contract.  *)

\* Two open receipts never claim one path, an object is in one custody only and exists
\* while it is, and a receipt that is not open has nothing.
OneClaim      == \A r, q \in Receipt : status[r] = "open" /\ status[q] = "open" /\ Path(r) = Path(q) => r = q
OneCustodian  == \A r, q \in Receipt : held[r] = held[q] /\ held[r] # NoObj => r = q
HeldExists    == \A r \in Receipt : held[r] # NoObj => held[r] \in alive
ClosedIsEmpty == \A r \in Receipt : status[r] # "open" => held[r] = NoObj
Custodian     == OneClaim /\ OneCustodian /\ HeldExists /\ ClosedIsEmpty

CustodyTypeOK ==
    /\ status \in [Receipt -> {"new", "open", "closed"}]
    /\ held \in [Receipt -> Obj \cup {NoObj}] /\ since \in [Receipt -> {-1} \cup Nat]
    /\ alive \subseteq Obj /\ clock \in Nat

\* An object in custody ceases to exist only when its receipt has had it for the retention
\* window, which does not begin anew while it is held; a closed receipt stays closed.
OutlivesWindow ==
    [][/\ \A r \in Receipt : held[r] # NoObj /\ held[r] \notin alive'
            => status[r] = "open" /\ clock >= since[r] + Retention
       /\ \A r \in Receipt : held[r] # NoObj /\ held'[r] = held[r] => since'[r] = since[r]
       /\ \A r \in Receipt : status[r] = "closed" => status'[r] = "closed"]_custody

=============================================================================
