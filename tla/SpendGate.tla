----------------------------- MODULE SpendGate -----------------------------
(***************************************************************************)
(* What the daily advisory promises about outbound requests.               *)
(*                                                                         *)
(* Each UTC day has at most one session; it opens on that day and, once    *)
(* closed (by its end or its death), never opens again.  Only the open     *)
(* session of the current day spends, and never beyond the daily cap.      *)
(***************************************************************************)
EXTENDS Integers

CONSTANTS Day, Dim, Cap

VARIABLES today, session, spent

gate == <<today, session, spent>>

Init ==
    /\ today = 1
    /\ session = [d \in Day |-> "none"]
    /\ spent = [d \in Day |-> [k \in Dim |-> 0]]

Open ==
    /\ session[today] = "none"
    /\ session' = [session EXCEPT ![today] = "open"]
    /\ UNCHANGED <<today, spent>>

Close ==
    /\ \E d \in Day : session[d] = "open" /\ session' = [session EXCEPT ![d] = "closed"]
    /\ UNCHANGED <<today, spent>>

Spend ==
    /\ session[today] = "open"
    /\ spent'[today] # spent[today] /\ spent'[today] \in [Dim -> Nat]
    /\ \A k \in Dim : spent[today][k] <= spent'[today][k] /\ spent'[today][k] <= Cap[k]
    /\ spent' = [spent EXCEPT ![today] = spent'[today]]
    /\ UNCHANGED <<today, session>>

Midnight == today' = today + 1 /\ UNCHANGED <<session, spent>>

Next == Open \/ Close \/ Spend \/ Midnight

Spec == Init /\ [][Next]_gate

-----------------------------------------------------------------------------
(* What a payer may expect of it: consequences of the promise.  *)

\* No day spends beyond the cap, whatever was sent; a day without a session has spent
\* nothing, and no session is opened ahead of its day.
WithinCap       == \A d \in Day, k \in Dim : spent[d][k] <= Cap[k]
SpentBySession  == \A d \in Day : session[d] = "none" => \A k \in Dim : spent[d][k] = 0
NothingIsAhead  == \A d \in Day : d > today => session[d] = "none"
Gated           == WithinCap /\ SpentBySession /\ NothingIsAhead

GateTypeOK ==
    /\ today \in Nat \ {0}
    /\ session \in [Day -> {"none", "open", "closed"}]
    /\ spent \in [Day -> [Dim -> Nat]]

\* What was spent is never unspent; a day that is over, or whose session is closed, spends
\* nothing more; and a day that had its session gets no other.
SpentIsFinal ==
    [][/\ \A d \in Day, k \in Dim : spent[d][k] <= spent'[d][k]
       /\ \A d \in Day : d < today \/ session[d] = "closed" => spent'[d] = spent[d]
       /\ \A d \in Day : session[d] = "closed" => session'[d] = "closed"
       /\ \A d \in Day : session[d] = "none" /\ session'[d] # "none" => d = today]_gate

=============================================================================
