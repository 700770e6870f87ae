----------------------- MODULE CategoryArchivesProofs -----------------------
(***************************************************************************)
(* What CategoryArchives promises for every set of paths, policies, cycles *)
(* and restorers, every waiting time and every bound.                      *)
(***************************************************************************)
EXTENDS CategoryArchives, FiniteSetTheorems, TLAPS

-----------------------------------------------------------------------------
(* The greatest of a bounded set of numbers, which BroughtBack takes. *)

\* A set of naturals with a bound has a greatest element: without one, x |-> x + 1 would
\* send the numbers below its elements into themselves without 0.
LEMMA GreatestExists ==
    ASSUME NEW n \in Nat, NEW S \in SUBSET (0..n), S # {}
    PROVE  \E x \in S : \A y \in S : x >= y
<1> DEFINE T == {x \in 0..n : \E y \in S : x <= y}
           f == [x \in T |-> x + 1]
<1> SUFFICES ASSUME \A x \in S : \E y \in S : x < y
             PROVE  FALSE
  <2>1. \A x, y \in S : x >= y \/ x < y
    OBVIOUS
  <2> QED
    BY <2>1
<1>1. IsFiniteSet(0..n)
  BY FS_Interval
<1>2. IsFiniteSet(T)
  BY <1>1, FS_Subset
<1>3. 0 \in T
  <2>1. PICK y \in S : TRUE
    OBVIOUS
  <2>2. y \in 0..n /\ 0 <= y /\ 0 \in 0..n
    BY <2>1
  <2> QED
    BY <2>2
<1>4. f \in [T -> T \ {0}]
  <2> SUFFICES ASSUME NEW x \in T PROVE x + 1 \in T \ {0}
    OBVIOUS
  <2>1. PICK y \in S : x <= y
    OBVIOUS
  <2>2. PICK z \in S : y < z
    OBVIOUS
  <2> QED
    BY <2>1, <2>2
<1>5. IsFiniteSet(T \ {0}) /\ Cardinality(T \ {0}) < Cardinality(T)
  <2> HIDE DEF T
  <2>1. IsFiniteSet(T \ {0}) /\ Cardinality(T \ {0}) = Cardinality(T) - 1
    BY <1>2, <1>3, FS_RemoveElement
  <2>2. Cardinality(T) \in Nat
    BY <1>2, FS_CardinalityType
  <2> QED
    BY <2>1, <2>2
<1>6. \A x, y \in T : x # y => f[x] # f[y]
  OBVIOUS
<1> HIDE DEF T, f
<1>7. \E x, y \in T : x # y /\ f[x] = f[y]
  BY <1>2, <1>4, <1>5, FS_PigeonHole
<1> QED
  BY <1>6, <1>7

\* What Max returns on such a set.
LEMMA MaxIsGreatest ==
    ASSUME NEW n \in Nat, NEW S \in SUBSET (0..n), S # {}
    PROVE  Max(S) \in S /\ \A y \in S : Max(S) >= y
BY GreatestExists DEF Max

\* The same of a set with 0 and a return in it.
LEMMA MaxOfReturns ==
    ASSUME NEW n \in Nat, NEW u \in 0..n, NEW D \in SUBSET (0..n)
    PROVE  LET m == Max({0, u} \cup D) IN
           m \in 0..n /\ m \in {0, u} \cup D /\ u <= m /\ \A i \in D : i <= m
<1> DEFINE S == {0, u} \cup D
<1>1. S \in SUBSET (0..n) /\ S # {} /\ u \in S /\ D \subseteq S
  OBVIOUS
<1> HIDE DEF S
<1>2. Max(S) \in S /\ \A y \in S : Max(S) >= y
  BY <1>1, MaxIsGreatest
<1> QED
  BY <1>1, <1>2 DEF S

-----------------------------------------------------------------------------
(* Types.  Four facts about the steps are needed to keep them: what exists has contents,   *)
(* what the owner does is counted, a restorer has a receipt, and a move that is being      *)
(* finished has its tree in quarantine.                                                    *)

Pendings  == [path : Path, kind : {"keep", "release"}, newest : 0..MaxClock, until : 0..MaxClock + 1]

Archiving == {"copy", "recheck", "publish", "manifest", "record"}
Restoring == {"lock", "withdraw", "extract"}

HasContents ==
    /\ \A x \in Path : tree[x].made # 0 \/ tree[x] = NoTree
    /\ \A x \in Path : away[x].made # 0 \/ away[x] = NotAway
    /\ \A p \in Proc : pc[p] \in Archiving => item[p].tree.made # 0
Counted ==
    /\ made <= Cardinality(Path) + events
    /\ said + (IF pending = {} THEN 0 ELSE 1) <= events
HasReceipt ==
    \A p \in Proc : /\ pc[p] \in Restoring => item[p].receipt \in DOMAIN archives
                    /\ auth[p] \subseteq DOMAIN archives

Finishing == \A p \in Proc : pc[p] = "finish" => away[item[p].path] # NotAway

TypeInv == TypeOK /\ HasContents /\ Counted /\ HasReceipt /\ Finishing

\* The bounds of an instance are numbers.
LEMMA Bounds ==
    /\ Cardinality(Path) \in Nat /\ MaxMade \in Nat /\ MaxReplies \in Nat
    /\ MaxClock \in Nat /\ MaxEvents \in Nat /\ MaxArchives \in Nat /\ MaxItems \in Nat
    /\ MaxMade = Cardinality(Path) + MaxEvents /\ MaxReplies = MaxEvents
BY CategoryAssumption, FS_CardinalityType DEF MaxMade, MaxReplies

\* What a step starts from when nothing is there.
LEMMA Nothing ==
    /\ AnyPath \in Path /\ NoTree \in Trees /\ NotAway \in Away /\ NoReply \in Replies
    /\ NoItem \in Items /\ NoPolicy \in PolicyFile \cup {NoPolicy}
    /\ NoTree.made = 0 /\ NotAway.made = 0 /\ NoItem.tree = NoTree
<1>1. AnyPath \in Path
  BY CategoryAssumption DEF AnyPath
<1> QED
  BY <1>1, Bounds DEF NoTree, NotAway, NoReply, NoItem, Trees, Away, Replies, Items

\* A row of a tree in quarantine that changes its state at this time.
LEMMA RowChanges ==
    ASSUME away \in [Path -> Away], NEW x \in Path, NEW c \in 0..MaxClock,
           NEW s \in {"prepared", "quarantined", "investigate"},
           away' = [away EXCEPT ![x].state = s, ![x].at = c]
    PROVE  /\ away' \in [Path -> Away]
           /\ away'[x].made = away[x].made /\ away'[x].back = away[x].back /\ away'[x].at = c
           /\ \A y \in Path : y # x => away'[y] = away[y]
<1> DEFINE r == away[x]
           q == [r EXCEPT !.state = s, !.at = c]
<1>1. r \in Away
  OBVIOUS
<1>2. away' = [away EXCEPT ![x] = q]
  OBVIOUS
<1> HIDE DEF r
<1>3. q \in Away /\ q.made = r.made /\ q.back = r.back /\ q.at = c
  BY <1>1 DEF Away
<1> HIDE DEF q
<1> QED
  BY <1>2, <1>3 DEF r

\* What resuming a move does to its row.
LEMMA ResumeChanges ==
    ASSUME NEW x \in Path, Resume(x)
    PROVE  /\ away[x] # NotAway /\ UNCHANGED <<clock, tree, undone>>
           /\ \E s \in {"quarantined", "investigate"} :
                 away' = [away EXCEPT ![x].state = s, ![x].at = clock]
<1>1. away[x].state = "prepared"
  BY DEF Resume
<1>2. Reconciled(x) \subseteq {"quarantined", "investigate"}
  <2>1. CASE Present(x)
    BY <1>1, <2>1 DEF Reconciled
  <2>2. CASE ~Present(x)
    BY <1>1, <2>2 DEF Reconciled
  <2> QED
    BY <2>1, <2>2
<1>3. away[x] # NotAway
  BY <1>1 DEF NotAway
<1>4. PICK s \in Reconciled(x) : away' = [away EXCEPT ![x].state = s, ![x].at = clock]
  BY DEF Resume
<1>5. UNCHANGED <<clock, tree, undone>>
  BY DEF Resume
<1> QED
  BY <1>2, <1>3, <1>4, <1>5

\* The archives are numbered from 1, and no more than their bound.
LEMMA ArchivesAre ==
    ASSUME TypeOK
    PROVE  /\ DOMAIN archives = 1..Len(archives) /\ Len(archives) \in 0..MaxArchives
           /\ \A i \in DOMAIN archives : archives[i] \in Archive
<1>1. archives \in Seq(Archive) /\ Len(archives) <= MaxArchives
  BY DEF TypeOK
<1> QED
  BY <1>1, Bounds

\* Where an owner's last return lies.
LEMMA BackIsBounded ==
    ASSUME TypeOK, NEW x \in Path
    PROVE  /\ BroughtBack(x) \in 0..MaxArchives /\ undone[x] <= BroughtBack(x)
           /\ \A i \in DOMAIN archives :
                 archives[i].path = x /\ archives[i].withdrawn => i <= BroughtBack(x)
           /\ BroughtBack(x) \in {0, undone[x]} \cup
                 {i \in DOMAIN archives : archives[i].path = x /\ archives[i].withdrawn}
<1> DEFINE D == {i \in DOMAIN archives : archives[i].path = x /\ archives[i].withdrawn}
<1>1. DOMAIN archives = 1..Len(archives) /\ Len(archives) \in 0..MaxArchives
  BY ArchivesAre
<1>2. undone[x] \in 0..MaxArchives
  BY DEF TypeOK
<1>3. D \in SUBSET (0..MaxArchives) /\ MaxArchives \in Nat
  BY <1>1, Bounds
<1>4. BroughtBack(x) = Max({0, undone[x]} \cup D)
  BY DEF BroughtBack
<1>5. \A i \in DOMAIN archives : archives[i].path = x /\ archives[i].withdrawn => i \in D
  OBVIOUS
<1> HIDE DEF D
<1>6. /\ BroughtBack(x) \in 0..MaxArchives /\ undone[x] <= BroughtBack(x)
      /\ \A i \in D : i <= BroughtBack(x)
      /\ BroughtBack(x) \in {0, undone[x]} \cup D
  BY <1>2, <1>3, <1>4, MaxOfReturns
<1> QED
  BY <1>5, <1>6 DEF D

\* The same after a step.
LEMMA BackStaysBounded ==
    ASSUME TypeOK', NEW x \in Path
    PROVE  /\ BroughtBack(x)' \in 0..MaxArchives /\ undone'[x] <= BroughtBack(x)'
           /\ \A i \in DOMAIN archives' :
                 archives'[i].path = x /\ archives'[i].withdrawn => i <= BroughtBack(x)'
<1> DEFINE D == {i \in DOMAIN archives' : archives'[i].path = x /\ archives'[i].withdrawn}
<1>1. DOMAIN archives' = 1..Len(archives') /\ Len(archives') \in 0..MaxArchives
  <2>1. archives' \in Seq(Archive) /\ Len(archives') <= MaxArchives
    BY DEF TypeOK
  <2> QED
    BY <2>1, Bounds
<1>2. undone'[x] \in 0..MaxArchives
  BY DEF TypeOK
<1>3. D \in SUBSET (0..MaxArchives) /\ MaxArchives \in Nat
  BY <1>1, Bounds
<1>4. BroughtBack(x)' = Max({0, undone'[x]} \cup D)
  BY DEF BroughtBack
<1>5. \A i \in DOMAIN archives' : archives'[i].path = x /\ archives'[i].withdrawn => i \in D
  OBVIOUS
<1> HIDE DEF D
<1>6. ASSUME NEW u \in 0..MaxArchives, u = undone'[x]
      PROVE  LET m == Max({0, u} \cup D) IN
             m \in 0..MaxArchives /\ u <= m /\ \A i \in D : i <= m
  BY <1>3, MaxOfReturns
<1> QED
  BY <1>2, <1>4, <1>5, <1>6

\* Whatever Next does, one owner, one cycle, one restorer or a death does it.
OwnerStep ==
    \/ Tick \/ EditPolicy \/ RecordReply
    \/ \E x \in Path : Write(x) \/ Remove(x) \/ Use(x) \/ ObserveReply(x) \/ Resume(x) \/ Undo(x)

\* One process at most takes a step.
LEMMA WhoActs ==
    ASSUME [Next]_vars
    PROVE  \/ OwnerStep \/ UNCHANGED vars
           \/ \E p \in Proc : \/ ArchiveStep(p) \/ CycleStep(p) \/ RestoreStep(p) \/ Dies(p)
BY DEF Next, OwnerStep, Proc

\* The trees at their paths and in quarantine.
LEMMA TreesTyped ==
    ASSUME TypeInv, [Next]_vars
    PROVE  /\ tree' \in [Path -> Trees] /\ away' \in [Path -> Away]
           /\ undone' \in [Path -> 0..MaxArchives]
           /\ \A x \in Path : tree'[x].made # 0 \/ tree'[x] = NoTree
           /\ \A x \in Path : away'[x].made # 0 \/ away'[x] = NotAway
<1> DEFINE Goal ==
        /\ tree' \in [Path -> Trees] /\ away' \in [Path -> Away]
        /\ undone' \in [Path -> 0..MaxArchives]
        /\ \A x \in Path : tree'[x].made # 0 \/ tree'[x] = NoTree
        /\ \A x \in Path : away'[x].made # 0 \/ away'[x] = NotAway
<1> USE Bounds, Nothing
<1>0. /\ tree \in [Path -> Trees] /\ away \in [Path -> Away]
      /\ undone \in [Path -> 0..MaxArchives]
      /\ \A x \in Path : tree[x].made # 0 \/ tree[x] = NoTree
      /\ \A x \in Path : away[x].made # 0 \/ away[x] = NotAway
  BY DEF TypeInv, TypeOK, HasContents, Away
<1>1. CASE UNCHANGED <<tree, away, undone>>
  BY <1>0, <1>1
<1>2. ASSUME NEW x \in Path, Write(x)
      PROVE  Goal
  <2>1. PICK t \in 0..clock : tree' = [tree EXCEPT ![x] = [made |-> made + 1, newest |-> t]]
    BY <1>2 DEF Write
  <2>0. /\ clock \in 0..MaxClock /\ made \in 0..MaxMade /\ events \in 0..MaxEvents
        /\ made <= Cardinality(Path) + events
    BY DEF TypeInv, TypeOK, Counted
  <2>2. clock \in 0..MaxClock /\ made + 1 \in 1..MaxMade
    BY <1>2, <2>0 DEF Write, Happens
  <2>3. [made |-> made + 1, newest |-> t] \in Trees /\ made + 1 # 0
    BY <2>2 DEF Trees
  <2>4. UNCHANGED <<away, undone>>
    BY <1>2 DEF Write, store
  <2> QED
    BY <1>0, <2>1, <2>3, <2>4
<1>3. ASSUME NEW x \in Path, Remove(x)
      PROVE  Goal
  BY <1>0, <1>3 DEF Remove, store
<1>4. ASSUME NEW x \in Path, Undo(x)
      PROVE  Goal
  <2>1. [made |-> away[x].made, newest |-> away[x].newest] \in Trees /\ away[x].made # 0
    BY <1>0, <1>4 DEF Undo, Away, Trees
  <2>2. Len(archives) \in 0..MaxArchives
    BY ArchivesAre DEF TypeInv
  <2> QED
    BY <1>0, <1>4, <2>1, <2>2 DEF Undo
<1>5. ASSUME NEW p \in Proc, Move(p)
      PROVE  Goal
  <2> DEFINE x == item[p].path
             b == BroughtBack(x)
  <2>1. x \in Path /\ clock \in 0..MaxClock
    BY DEF TypeInv, TypeOK, Items
  <2>2. b \in 0..MaxArchives
    BY <2>1, BackIsBounded DEF TypeInv
  <2>3. CASE Present(x)
    <3> DEFINE a == [made |-> tree[x].made, newest |-> tree[x].newest, at |-> clock, back |-> b,
                     state |-> "prepared"]
    <3>1. away' = [away EXCEPT ![x] = a] /\ tree' = [tree EXCEPT ![x] = NoTree] /\ undone' = undone
      BY <1>5, <2>3 DEF Move
    <3>2. a \in Away /\ a.made # 0
      BY <1>0, <2>1, <2>2, <2>3 DEF Present, Away, Trees
    <3> HIDE DEF a
    <3> QED
      BY <1>0, <2>1, <3>1, <3>2
  <2>4. CASE ~Present(x)
    BY <1>0, <1>5, <2>4 DEF Move
  <2> QED
    BY <2>3, <2>4
<1>6. ASSUME NEW p \in Proc, Expire(p)
      PROVE  Goal
  <2>1. PICK i \in auth[p] : away' = [away EXCEPT ![archives[i].path] = NotAway]
    BY <1>6 DEF Expire
  <2>2. UNCHANGED <<tree, undone>>
    BY <1>6 DEF Expire, owner
  <2> QED
    BY <1>0, <2>1, <2>2
<1>7. ASSUME NEW p \in Proc, Extract(p)
      PROVE  Goal
  <2> DEFINE i == item[p].receipt
  <2>1. i \in DOMAIN archives
    BY <1>7 DEF Extract, At, TypeInv, HasReceipt, Restoring
  <2>2. archives[i] \in Archive
    BY <2>1, ArchivesAre DEF TypeInv
  <2>3. [made |-> archives[i].made, newest |-> archives[i].newest] \in Trees
        /\ archives[i].made # 0 /\ archives[i].path \in Path
    BY <2>2 DEF Archive, Trees
  <2> QED
    BY <1>0, <1>7, <2>3 DEF Extract, store
<1>c. clock \in 0..MaxClock
  BY DEF TypeInv, TypeOK
<1>10. ASSUME NEW p \in Proc, FinishMove(p)
       PROVE  Goal
  <2> DEFINE x == item[p].path
  <2>1. x \in Path /\ away[x].made # 0
    <3>1. x \in Path /\ pc[p] = "finish"
      BY <1>10 DEF FinishMove, At, TypeInv, TypeOK, Items
    <3> QED
      BY <1>0, <3>1 DEF TypeInv, Finishing
  <2>2. UNCHANGED <<tree, undone>>
    BY <1>10 DEF FinishMove, owner
  <2>3. CASE away' = [away EXCEPT ![x].state = "quarantined", ![x].at = clock]
    <3> HIDE DEF x
    <3>1. /\ away' \in [Path -> Away] /\ away'[x].made = away[x].made
          /\ \A y \in Path : y # x => away'[y] = away[y]
      BY <1>0, <1>c, <2>1, <2>3, RowChanges
    <3> QED
      BY <1>0, <2>1, <2>2, <3>1
  <2> QED
    BY <1>0, <1>10, <2>2, <2>3 DEF FinishMove
<1>11. ASSUME NEW x \in Path, Resume(x)
       PROVE  Goal
  <2>1. /\ away[x] # NotAway /\ UNCHANGED <<tree, undone>>
        /\ \E s \in {"quarantined", "investigate"} : away' = [away EXCEPT ![x].state = s, ![x].at = clock]
    BY <1>11, ResumeChanges
  <2>2. PICK s \in {"quarantined", "investigate"} : away' = [away EXCEPT ![x].state = s, ![x].at = clock]
    BY <2>1
  <2>3. /\ away' \in [Path -> Away] /\ away'[x].made = away[x].made
        /\ \A y \in Path : y # x => away'[y] = away[y]
    BY <1>0, <1>c, <2>2, RowChanges
  <2> QED
    BY <1>0, <2>1, <2>3
<1>8. CASE OwnerStep \/ UNCHANGED vars
  BY <1>1, <1>2, <1>3, <1>4, <1>8, <1>11 DEF OwnerStep, Tick, EditPolicy, RecordReply, Use, ObserveReply,
     owner, store, vars
<1>9. ASSUME NEW p \in Proc, ArchiveStep(p) \/ CycleStep(p) \/ RestoreStep(p) \/ Dies(p)
      PROVE  Goal
  BY <1>1, <1>5, <1>6, <1>7, <1>9, <1>10 DEF ArchiveStep, CycleStep, RestoreStep, Start, ReadReplies, Observe,
     Inspect, RunEnds, Fails, Copy, Recheck, Publish, Manifest, Record, Load, TakesLock, Revalidate,
     Applied, CycleEnds, FindReceipt, RestoreLocks, Withdraw, Dies, owner, store
<1> QED
  BY <1>8, <1>9, WhoActs

\* Archives are only added to, and what they say of the copy stands.
Grows ==
    /\ Len(archives) <= Len(archives') /\ DOMAIN archives \subseteq DOMAIN archives'
    /\ \A i \in DOMAIN archives :
          /\ archives'[i].path = archives[i].path /\ archives'[i].made = archives[i].made
          /\ archives'[i].newest = archives[i].newest
          /\ archives[i].complete => archives'[i].complete
          /\ archives[i].recorded => archives'[i].recorded
          /\ archives[i].withdrawn => archives'[i].withdrawn

\* No step takes an archive back.
LEMMA ArchivesGrow ==
    ASSUME TypeInv, [Next]_vars
    PROVE  /\ archives' \in Seq(Archive) /\ Len(archives') <= MaxArchives /\ Grows
<1> DEFINE Goal == archives' \in Seq(Archive) /\ Len(archives') <= MaxArchives /\ Grows
<1> USE Bounds
<1>0. /\ archives \in Seq(Archive) /\ DOMAIN archives = 1..Len(archives)
      /\ Len(archives) \in 0..MaxArchives /\ Len(archives) <= MaxArchives
      /\ \A i \in DOMAIN archives : archives[i] \in Archive
  BY ArchivesAre DEF TypeInv, TypeOK
<1>1. CASE UNCHANGED archives
  BY <1>0, <1>1 DEF Grows
<1>2. ASSUME NEW p \in Proc, Publish(p)
      PROVE  Goal
  <2> DEFINE a == [path |-> item[p].path, made |-> item[p].tree.made, newest |-> item[p].tree.newest,
                   created |-> clock, release |-> item[p].release,
                   complete |-> FALSE, recorded |-> FALSE, withdrawn |-> FALSE]
  <2>1. /\ item[p] \in Items /\ clock \in 0..MaxClock
        /\ item[p].tree.made # 0
    BY <1>2 DEF Publish, At, TypeInv, TypeOK, HasContents, Archiving
  <2>2. a \in Archive
    BY <2>1 DEF Items, Trees, Archive
  <2>3. archives' = Append(archives, a) /\ Len(archives) < MaxArchives
    BY <1>2 DEF Publish
  <2> HIDE DEF a
  <2> QED
    BY <1>0, <2>2, <2>3 DEF Grows
<1>3. ASSUME NEW p \in Proc, Manifest(p) \/ Record(p) \/ Withdraw(p)
      PROVE  Goal
  <2>1. PICK n : \/ archives' = [archives EXCEPT ![n].complete = TRUE]
                 \/ archives' = [archives EXCEPT ![n].recorded = TRUE]
                 \/ archives' = [archives EXCEPT ![n].withdrawn = TRUE]
    BY <1>3 DEF Manifest, Record, Withdraw
  <2>3. DOMAIN archives' = DOMAIN archives
        /\ \A i \in DOMAIN archives :
              archives'[i] \in {archives[i], [archives[i] EXCEPT !.complete = TRUE],
                                [archives[i] EXCEPT !.recorded = TRUE],
                                [archives[i] EXCEPT !.withdrawn = TRUE]}
    BY <1>0, <2>1
  <2>4. \A i \in DOMAIN archives :
          /\ archives'[i] \in Archive
          /\ archives'[i].path = archives[i].path /\ archives'[i].made = archives[i].made
          /\ archives'[i].newest = archives[i].newest
          /\ archives[i].complete => archives'[i].complete
          /\ archives[i].recorded => archives'[i].recorded
          /\ archives[i].withdrawn => archives'[i].withdrawn
    <3> DEFINE After(a, b) ==
            /\ b \in Archive /\ b.path = a.path /\ b.made = a.made /\ b.newest = a.newest
            /\ (a.complete => b.complete) /\ (a.recorded => b.recorded)
            /\ (a.withdrawn => b.withdrawn)
    <3>1. \A a \in Archive : After(a, [a EXCEPT !.complete = TRUE])
      BY DEF Archive
    <3>2. \A a \in Archive : After(a, [a EXCEPT !.recorded = TRUE])
      BY DEF Archive
    <3>3. \A a \in Archive : After(a, [a EXCEPT !.withdrawn = TRUE])
      BY DEF Archive
    <3>4. \A a \in Archive : After(a, a)
      OBVIOUS
    <3> HIDE DEF After
    <3>5. \A i \in DOMAIN archives : After(archives[i], archives'[i])
      BY <1>0, <2>3, <3>1, <3>2, <3>3, <3>4
    <3> QED
      BY <3>5 DEF After
  <2>5. archives' \in Seq(Archive) /\ Len(archives') = Len(archives)
    <3>1. archives' \in [1..Len(archives) -> Archive] /\ Len(archives) \in Nat
      BY <1>0, <2>1, <2>3, <2>4
    <3> QED
      BY <3>1
  <2> QED
    BY <1>0, <2>3, <2>4, <2>5 DEF Grows
<1>8. CASE OwnerStep \/ UNCHANGED vars
  BY <1>1, <1>8 DEF OwnerStep, Tick, EditPolicy, RecordReply, Write, Remove, Use, ObserveReply, Resume, Undo,
     store, vars
<1>9. ASSUME NEW p \in Proc, ArchiveStep(p) \/ CycleStep(p) \/ RestoreStep(p) \/ Dies(p)
      PROVE  Goal
  BY <1>1, <1>2, <1>3, <1>9 DEF ArchiveStep, CycleStep, RestoreStep, Start, ReadReplies, Observe,
     Inspect, RunEnds, Fails, Copy, Recheck, Load, TakesLock, Revalidate, Move, FinishMove, Expire,
     Applied, CycleEnds, FindReceipt, RestoreLocks, Extract, Dies, store
<1> QED
  BY <1>8, <1>9, WhoActs

\* The clock, the policy file, the replies and the counters behind their bounds.
LEMMA OwnerTyped ==
    ASSUME TypeInv, [Next]_vars
    PROVE  /\ clock' \in 0..MaxClock /\ made' \in 0..MaxMade /\ used' \subseteq Path
           /\ events' \in 0..MaxEvents /\ policy' \in PolicyFile
           /\ replies' \in [Path -> Replies] /\ said' \in 0..MaxReplies /\ pending' \subseteq Pendings
           /\ Counted'
<1> DEFINE Goal ==
        /\ clock' \in 0..MaxClock /\ made' \in 0..MaxMade /\ used' \subseteq Path
        /\ events' \in 0..MaxEvents /\ policy' \in PolicyFile
        /\ replies' \in [Path -> Replies] /\ said' \in 0..MaxReplies /\ pending' \subseteq Pendings
        /\ made' <= Cardinality(Path) + events'
        /\ said' + (IF pending' = {} THEN 0 ELSE 1) <= events'
<1> SUFFICES Goal
  BY DEF Counted
<1> USE Bounds
<1>0. /\ clock \in 0..MaxClock /\ made \in 0..MaxMade /\ used \subseteq Path
      /\ events \in 0..MaxEvents /\ policy \in PolicyFile
      /\ replies \in [Path -> Replies] /\ said \in 0..MaxReplies /\ pending \subseteq Pendings
      /\ made <= Cardinality(Path) + events
      /\ said + (IF pending = {} THEN 0 ELSE 1) <= events
  BY DEF TypeInv, TypeOK, Counted, Pendings
<1>1. CASE UNCHANGED <<clock, made, used, policy, replies, said, pending>>
           /\ (events' = events \/ Happens)
  BY <1>0, <1>1 DEF Happens
<1>2. CASE Tick
  BY <1>0, <1>2 DEF Tick, store
<1>3. CASE EditPolicy
  BY <1>0, <1>3 DEF EditPolicy, Happens, store
<1>4. CASE RecordReply
  <2>1. PICK r \in pending :
            /\ said' = said + 1
            /\ replies' = [replies EXCEPT ![r.path] = [kind |-> r.kind, seq |-> said + 1,
                                                      newest |-> r.newest, until |-> r.until]]
    BY <1>4 DEF RecordReply
  <2>2. pending' = {} /\ UNCHANGED <<clock, made, used, policy, events>>
    BY <1>4 DEF RecordReply, owner
  <2>3. said + 1 <= events /\ said + 1 \in 0..MaxReplies
    BY <1>0, <2>1
  <2>4. r \in Pendings
    BY <1>0
  <2>5. [kind |-> r.kind, seq |-> said + 1, newest |-> r.newest, until |-> r.until] \in Replies
    BY <2>3, <2>4 DEF Pendings, Replies
  <2>6. replies' \in [Path -> Replies]
    BY <1>0, <2>1, <2>5
  <2>7. UNCHANGED <<clock, made, used, policy, events>> /\ said' = said + 1 /\ pending' = {}
    BY <2>1, <2>2
  <2> QED
    BY <1>0, <2>3, <2>6, <2>7
<1>5. ASSUME NEW x \in Path, Write(x)
      PROVE  Goal
  BY <1>0, <1>5 DEF Write, Happens, store
<1>6. ASSUME NEW x \in Path, Use(x)
      PROVE  Goal
  BY <1>0, <1>6 DEF Use, Happens, store
<1>7. ASSUME NEW x \in Path, ObserveReply(x)
      PROVE  Goal
  <2>1. PICK k \in {"keep", "release"}, u \in {0, clock + 1} :
            pending' = {[path |-> x, kind |-> k, newest |-> tree[x].newest, until |-> u]}
    BY <1>7 DEF ObserveReply
  <2>2. tree[x] \in Trees
    BY DEF TypeInv, TypeOK
  <2>3. [path |-> x, kind |-> k, newest |-> tree[x].newest, until |-> u] \in Pendings
    BY <1>0, <2>2 DEF Trees, Pendings
  <2>4. /\ UNCHANGED <<clock, made, used, policy, replies, said>>
        /\ pending = {} /\ events < MaxEvents /\ events' = events + 1
    BY <1>7 DEF ObserveReply, Happens, store
  <2>5. pending' # {} /\ pending' \subseteq Pendings
    BY <2>1, <2>3
  <2>6. said \in Nat /\ said <= events
    BY <1>0, <2>4
  <2> QED
    BY <1>0, <2>4, <2>5, <2>6
<1>8. CASE OwnerStep \/ UNCHANGED vars
  BY <1>1, <1>2, <1>3, <1>4, <1>5, <1>6, <1>7, <1>8 DEF OwnerStep, Remove, Resume, Undo, owner, store, vars
<1>9. ASSUME NEW p \in Proc, ArchiveStep(p) \/ CycleStep(p) \/ RestoreStep(p) \/ Dies(p)
      PROVE  Goal
  BY <1>1, <1>9 DEF ArchiveStep, CycleStep, RestoreStep, Start, ReadReplies, Observe,
     Inspect, RunEnds, Fails, Copy, Recheck, Publish, Manifest, Record, Load, TakesLock, Revalidate,
     Move, FinishMove, Expire, Applied, CycleEnds, FindReceipt, RestoreLocks, Withdraw, Extract, Dies, owner, store
<1> QED
  BY <1>8, <1>9, WhoActs

\* Only the holder of apply.lock is at a step that needs it.
LEMMA LockTyped ==
    ASSUME TypeInv, [Next]_vars
    PROVE  /\ lock' \in Proc \cup {NoProc} /\ pc' \in [Proc -> Steps]
           /\ \A p \in Proc : lock' = p <=> pc'[p] \in Locked
<1> DEFINE Goal ==
        /\ lock' \in Proc \cup {NoProc} /\ pc' \in [Proc -> Steps]
        /\ \A p \in Proc : lock' = p <=> pc'[p] \in Locked
<1> SUFFICES Goal
  OBVIOUS
<1> USE CategoryAssumption
<1>0. /\ lock \in Proc \cup {NoProc} /\ pc \in [Proc -> Steps]
      /\ \A p \in Proc : lock = p <=> pc[p] \in Locked
  BY DEF TypeInv, TypeOK
<1>1. CASE UNCHANGED <<lock, pc>>
  BY <1>0, <1>1
<1> DEFINE Stays(p, l) == pc' = [pc EXCEPT ![p] = l] /\ UNCHANGED lock
           Takes(p, l) == lock = NoProc /\ lock' = p /\ pc' = [pc EXCEPT ![p] = l]
           Leaves(p, l) == lock' = (IF lock = p THEN NoProc ELSE lock) /\ pc' = [pc EXCEPT ![p] = l]
<1>2. ASSUME NEW p \in Proc, NEW l \in Steps, Stays(p, l), pc[p] \in Locked <=> l \in Locked
      PROVE  Goal
  BY <1>0, <1>2
<1>3. ASSUME NEW p \in Proc, NEW l \in Locked, Takes(p, l)
      PROVE  Goal
  BY <1>0, <1>3 DEF Steps
<1>4. ASSUME NEW p \in Proc, NEW l \in Steps \ Locked, Leaves(p, l)
      PROVE  Goal
  BY <1>0, <1>4
<1>8. CASE OwnerStep \/ UNCHANGED vars
  BY <1>1, <1>8 DEF OwnerStep, Tick, EditPolicy, RecordReply, Write, Remove, Use, ObserveReply, Resume, Undo, vars
<1>9. ASSUME NEW p \in Proc, ArchiveStep(p) \/ CycleStep(p) \/ RestoreStep(p) \/ Dies(p)
      PROVE  Goal
  <2> HIDE DEF Goal
  <2>1. ASSUME Start(p) PROVE Goal
    <3>1. CASE Takes(p, "read")
      BY <1>3, <3>1 DEF Locked
    <3>2. CASE Stays(p, "load")
      BY <1>2, <2>1, <3>2 DEF Start, At, Locked, Steps
    <3> QED
      BY <2>1, <3>1, <3>2 DEF Start, Goto
  <2>2. ASSUME TakesLock(p) PROVE Goal
    BY <1>3, <2>2 DEF TakesLock, Goto, Locked
  <2>3. ASSUME RestoreLocks(p) PROVE Goal
    BY <1>3, <2>3 DEF RestoreLocks, Goto, Locked
  <2>4. ASSUME RunEnds(p) \/ Applied(p) \/ CycleEnds(p) \/ Extract(p) \/ Dies(p) PROVE Goal
    <3>1. \E l \in Steps \ Locked : Leaves(p, l)
      BY <2>4 DEF RunEnds, Applied, CycleEnds, Extract, Dies, Goto, Unlock, Steps, Locked
    <3> QED
      BY <1>4, <3>1
  <2>5. ASSUME \/ ReadReplies(p) \/ Observe(p) \/ Inspect(p) \/ Fails(p) \/ Copy(p) \/ Recheck(p)
               \/ Publish(p) \/ Manifest(p) \/ Record(p) \/ Revalidate(p) \/ Move(p) \/ FinishMove(p) \/ Withdraw(p)
        PROVE  Goal
    <3>1. CASE UNCHANGED <<lock, pc>>
      BY <1>1, <3>1
    <3>2. CASE \E l \in Steps : Stays(p, l) /\ (pc[p] \in Locked <=> l \in Locked)
      BY <1>2, <3>2
    <3> QED
      BY <2>5, <3>1, <3>2 DEF ReadReplies, Observe, Inspect, Fails, Copy, Recheck, Publish, Manifest,
         Record, Revalidate, Move, FinishMove, Withdraw, At, Goto, Steps, Locked
  <2>6. ASSUME Load(p) \/ (\E i \in DOMAIN archives : FindReceipt(p, i)) PROVE Goal
    <3>1. CASE Load(p)
      <4>1. Stays(p, "apply") /\ pc[p] = "load"
        BY <3>1 DEF Load, At, Goto
      <4> QED
        BY <1>2, <4>1 DEF Steps, Locked
    <3>2. ASSUME NEW i \in DOMAIN archives, FindReceipt(p, i) PROVE Goal
      <4>1. Stays(p, "lock") /\ pc[p] = "idle"
        BY <3>2 DEF FindReceipt, At, Goto
      <4> QED
        BY <1>2, <4>1 DEF Steps, Locked
    <3> QED
      BY <2>6, <3>1, <3>2
  <2>7. ASSUME Expire(p) PROVE Goal
    BY <1>1, <2>7 DEF Expire
  <2> QED
    BY <1>9, <2>1, <2>2, <2>3, <2>4, <2>5, <2>6, <2>7 DEF ArchiveStep, CycleStep, RestoreStep
<1> QED
  BY <1>8, <1>9, WhoActs

\* What a process read, chose and derived.
LEMMA RunTyped ==
    ASSUME TypeInv, [Next]_vars
    PROVE  /\ pol' \in [Proc -> PolicyFile \cup {NoPolicy}] /\ told' \in [Proc -> [Path -> Replies]]
           /\ todo' \in [Proc -> SUBSET Items] /\ item' \in [Proc -> Items]
           /\ taken' \in [Proc -> 0..MaxItems]
           /\ auth' \in [Proc -> SUBSET (1..MaxArchives)] /\ began' \in [Proc -> 0..MaxClock]
           /\ copied' \in [Proc -> 0..MaxReplies] /\ heard' \in [Proc -> 0..MaxReplies]
<1> DEFINE Goal ==
        /\ pol' \in [Proc -> PolicyFile \cup {NoPolicy}] /\ told' \in [Proc -> [Path -> Replies]]
        /\ todo' \in [Proc -> SUBSET Items] /\ item' \in [Proc -> Items]
        /\ taken' \in [Proc -> 0..MaxItems]
        /\ auth' \in [Proc -> SUBSET (1..MaxArchives)] /\ began' \in [Proc -> 0..MaxClock]
        /\ copied' \in [Proc -> 0..MaxReplies] /\ heard' \in [Proc -> 0..MaxReplies]
<1> SUFFICES Goal
  OBVIOUS
<1> USE Bounds, Nothing
<1>0. /\ pol \in [Proc -> PolicyFile \cup {NoPolicy}] /\ told \in [Proc -> [Path -> Replies]]
      /\ todo \in [Proc -> SUBSET Items] /\ item \in [Proc -> Items]
      /\ taken \in [Proc -> 0..MaxItems]
      /\ auth \in [Proc -> SUBSET (1..MaxArchives)] /\ began \in [Proc -> 0..MaxClock]
      /\ copied \in [Proc -> 0..MaxReplies] /\ heard \in [Proc -> 0..MaxReplies]
  BY DEF TypeInv, TypeOK
<1>a. /\ clock \in 0..MaxClock /\ tree \in [Path -> Trees] /\ policy \in PolicyFile
      /\ replies \in [Path -> Replies] /\ said \in 0..MaxReplies
  BY DEF TypeInv, TypeOK
<1>b. [x \in Path |-> NoReply] \in [Path -> Replies]
  OBVIOUS
<1>c. ASSUME NEW x \in Path, NEW i \in DOMAIN archives
      PROVE  [NoItem EXCEPT !.path = x, !.receipt = i] \in Items
  <2>1. i \in 0..MaxArchives
    BY ArchivesAre DEF TypeInv
  <2> QED
    BY <2>1 DEF Items, NoItem
<1>1. CASE UNCHANGED locals
  BY <1>0, <1>1 DEF locals
<1>2. ASSUME NEW p \in Proc, Observe(p)
      PROVE  Goal
  <2> DEFINE it(x) == [NoItem EXCEPT !.path = x, !.newest = tree[x].newest,
                             !.release = IF Released(p, x) THEN told[p][x].seq ELSE 0]
  <2>1. ASSUME NEW x \in Path
        PROVE  it(x) \in Items
    <3>1. tree[x].newest \in 0..MaxClock
      BY <1>a DEF Trees
    <3>2. (IF Released(p, x) THEN told[p][x].seq ELSE 0) \in 0..MaxReplies
      BY <1>0 DEF Replies
    <3> QED
      BY <3>1, <3>2 DEF Items, NoItem
  <2>2. todo' = [todo EXCEPT ![p] = {it(x) : x \in {x \in Path : Selectable(p, x)}}]
        /\ UNCHANGED <<pol, told, item, taken, auth, began, copied, heard>>
    BY <1>2 DEF Observe
  <2> HIDE DEF it
  <2>3. {it(x) : x \in {x \in Path : Selectable(p, x)}} \in SUBSET Items
    BY <2>1
  <2> QED
    BY <1>0, <2>2, <2>3
<1>3. ASSUME NEW p \in Proc, Inspect(p)
      PROVE  Goal
  <2>1. PICK i \in todo[p] :
            /\ todo' = [todo EXCEPT ![p] = @ \ {i}] /\ taken' = [taken EXCEPT ![p] = @ + 1]
            /\ \/ item' = [item EXCEPT ![p] = [i EXCEPT !.tree = ScanTree(i.path)]]
               \/ item' = item
    BY <1>3 DEF Inspect
  <2>2. /\ taken[p] < MaxItems
        /\ UNCHANGED <<pol, told, auth, began, copied, heard>>
    BY <1>3 DEF Inspect
  <2>3. [i EXCEPT !.tree = ScanTree(i.path)] \in Items
    <3>1. i \in Items
      BY <1>0
    <3>2. ScanTree(i.path) \in Trees
      BY <1>a, <3>1 DEF Items, ScanTree
    <3> QED
      BY <3>1, <3>2 DEF Items
  <2>4. todo' \in [Proc -> SUBSET Items] /\ taken' \in [Proc -> 0..MaxItems]
    BY <1>0, <2>1, <2>2
  <2>5. item' \in [Proc -> Items]
    BY <1>0, <2>1, <2>3
  <2> QED
    BY <1>0, <2>2, <2>4, <2>5
<1>4. ASSUME NEW p \in Proc, Load(p)
      PROVE  Goal
  <2>1. Authority(pol[p]) \in SUBSET (1..MaxArchives)
    BY ArchivesAre DEF Authority, Active, TypeInv
  <2> QED
    BY <1>0, <1>a, <1>4, <2>1 DEF Load
<1>5. ASSUME NEW p \in Proc, Revalidate(p)
      PROVE  Goal
  <2>1. PICK i \in auth[p] : Present(archives[i].path)
           /\ item' = [item EXCEPT ![p] = [NoItem EXCEPT !.path = archives[i].path, !.receipt = i]]
           /\ Eligible(p, i, tree[archives[i].path])
    BY <1>5 DEF Revalidate
  <2>2. i \in DOMAIN archives
    BY DEF TypeInv, HasReceipt
  <2>3. archives[i].path \in Path
    BY <2>2, ArchivesAre DEF TypeInv, Archive
  <2> QED
    BY <1>0, <1>5, <2>1, <2>2, <2>3, <1>c DEF Revalidate
<1>6. ASSUME NEW p \in Proc, NEW i \in DOMAIN archives, FindReceipt(p, i)
      PROVE  Goal
  <2>1. archives[i].path \in Path
    BY ArchivesAre DEF TypeInv, Archive
  <2> QED
    BY <1>0, <1>6, <1>c, <2>1 DEF FindReceipt
<1>7. ASSUME NEW p \in Proc, Start(p) \/ ReadReplies(p) \/ Copy(p)
      PROVE  Goal
  BY <1>0, <1>a, <1>7 DEF Start, ReadReplies, Copy
<1>8. ASSUME NEW p \in Proc, \/ RunEnds(p) \/ Fails(p) \/ Record(p) \/ Move(p) \/ FinishMove(p)
                             \/ CycleEnds(p) \/ Extract(p) \/ Dies(p)
      PROVE  Goal
  <2>1. CASE RunEnds(p)
    BY <1>0, <1>b, <2>1 DEF RunEnds, ForgetRun
  <2>2. CASE Fails(p) \/ Record(p) \/ Move(p) \/ FinishMove(p)
    <3>1. (item' = item \/ item' = [item EXCEPT ![p] = NoItem]) /\ (copied' = copied \/ copied' = [copied EXCEPT ![p] = 0])
          /\ UNCHANGED <<pol, told, todo, taken, auth, began, heard>>
      <4>1. CASE Fails(p) \/ Record(p)
        BY <4>1 DEF Fails, Record
      <4>2. CASE Move(p)
        BY <4>2 DEF Move
      <4>3. CASE FinishMove(p)
        BY <4>3 DEF FinishMove
      <4> QED
        BY <2>2, <4>1, <4>2, <4>3
    <3>2. item' \in [Proc -> Items]
      BY <1>0, <3>1
    <3>3. copied' \in [Proc -> 0..MaxReplies]
      BY <1>0, <3>1
    <3> QED
      BY <1>0, <3>1, <3>2, <3>3
  <2>3. CASE CycleEnds(p) \/ Extract(p) \/ Dies(p)
    <3>1. Forget(p)
      BY <2>3 DEF CycleEnds, Extract, Dies
    <3> QED
      BY <1>0, <1>b, <3>1 DEF Forget, ForgetRun
  <2> QED
    BY <1>8, <2>1, <2>2, <2>3
<1>9. CASE OwnerStep \/ UNCHANGED vars
  BY <1>1, <1>9 DEF OwnerStep, Tick, EditPolicy, RecordReply, Write, Remove, Use, ObserveReply, Resume, Undo, vars
<1>10. ASSUME NEW p \in Proc, ArchiveStep(p) \/ CycleStep(p) \/ RestoreStep(p) \/ Dies(p)
       PROVE  Goal
  BY <1>1, <1>2, <1>3, <1>4, <1>5, <1>6, <1>7, <1>8, <1>10 DEF ArchiveStep, CycleStep, RestoreStep,
     Recheck, Publish, Manifest, TakesLock, Applied, Expire, RestoreLocks, Withdraw
<1> QED
  BY <1>9, <1>10, WhoActs

\* A process changes nothing of what another has read, chosen or derived.
LEMMA OthersStand ==
    ASSUME TypeInv, NEW p \in Proc, NEW q \in Proc, p # q,
           ArchiveStep(p) \/ CycleStep(p) \/ RestoreStep(p) \/ Dies(p)
    PROVE  /\ item'[q] = item[q] /\ auth'[q] = auth[q] /\ pc'[q] = pc[q]
           /\ began'[q] = began[q] /\ copied'[q] = copied[q] /\ heard'[q] = heard[q]
<1>t. pc \in [Proc -> Steps] /\ item \in [Proc -> Items] /\ auth \in [Proc -> SUBSET (1..MaxArchives)]
      /\ began \in [Proc -> 0..MaxClock]
      /\ copied \in [Proc -> 0..MaxReplies] /\ heard \in [Proc -> 0..MaxReplies]
  BY DEF TypeInv, TypeOK
<1>1. CASE ArchiveStep(p)
  BY <1>t, <1>1 DEF ArchiveStep, Start, ReadReplies, Observe, Inspect, RunEnds, Fails, Copy, Recheck,
     Publish, Manifest, Record, ForgetRun, locals, Goto
<1>2. CASE CycleStep(p)
  BY <1>t, <1>2 DEF CycleStep, Load, TakesLock, Revalidate, Move, FinishMove, Applied, Expire, CycleEnds,
     Forget, ForgetRun, locals, Goto
<1>3. CASE RestoreStep(p) \/ Dies(p)
  BY <1>t, <1>3 DEF RestoreStep, FindReceipt, RestoreLocks, Withdraw, Extract, Dies,
     Forget, ForgetRun, locals, Goto
<1> QED
  BY <1>1, <1>2, <1>3

\* What is being archived has contents, a restorer has a receipt, and a cycle's authority
\* rests on receipts.
LEMMA ItemKnown ==
    ASSUME TypeInv, [Next]_vars
    PROVE  /\ HasReceipt'
           /\ \A p \in Proc : pc'[p] \in Archiving => item'[p].tree.made # 0
<1> DEFINE K(p, i, a, l) == /\ l \in Archiving => i.tree.made # 0
                            /\ l \in Restoring => i.receipt \in DOMAIN archives'
                            /\ a \subseteq DOMAIN archives'
<1> SUFFICES ASSUME NEW q \in Proc
             PROVE  K(q, item'[q], auth'[q], pc'[q])
  BY DEF HasReceipt
<1>0. DOMAIN archives \subseteq DOMAIN archives'
  BY ArchivesGrow DEF Grows
<1>k. \A p \in Proc : K(p, item[p], auth[p], pc[p])
  BY <1>0 DEF TypeInv, HasReceipt, HasContents
<1>t. pc \in [Proc -> Steps] /\ item \in [Proc -> Items] /\ auth \in [Proc -> SUBSET (1..MaxArchives)]
      /\ todo \in [Proc -> SUBSET Items]
  BY DEF TypeInv, TypeOK
<1>1. CASE UNCHANGED <<item, auth, pc>>
  BY <1>k, <1>1
\* Only the process that acts is concerned.
<1>2. ASSUME NEW p \in Proc, p # q, \/ ArchiveStep(p) \/ CycleStep(p) \/ RestoreStep(p) \/ Dies(p)
      PROVE  K(q, item'[q], auth'[q], pc'[q])
  BY <1>k, <1>2, OthersStand
<1>3. CASE Inspect(q)
  <2>1. PICK i \in todo[q] :
            IF Present(i.path) /\ ~Referenced(i.path) /\ Preflight(q, i)
            THEN item' = [item EXCEPT ![q] = [i EXCEPT !.tree = ScanTree(i.path)]] /\ Goto(q, "copy")
            ELSE UNCHANGED <<item, pc>>
    BY <1>3 DEF Inspect
  <2>2. UNCHANGED auth
    BY <1>3 DEF Inspect
  <2>3. CASE Present(i.path) /\ item' = [item EXCEPT ![q] = [i EXCEPT !.tree = ScanTree(i.path)]] /\ Goto(q, "copy")
    <3>1. i \in Items /\ tree[i.path].made # 0
      BY <1>t, <2>3 DEF Present, TypeInv, HasContents, Items
    <3>2. item'[q].tree = tree[i.path] /\ pc'[q] = "copy"
      BY <1>t, <2>3, <3>1 DEF Items, ScanTree, Goto
    <3> QED
      BY <1>k, <2>2, <3>1, <3>2 DEF Restoring
  <2> QED
    BY <1>k, <2>1, <2>2, <2>3
<1>4. CASE Load(q)
  <2>1. Authority(pol[q]) \subseteq DOMAIN archives
    BY DEF Authority, Active
  <2>2. auth'[q] = Authority(pol[q]) /\ item' = item /\ pc'[q] = "apply"
    BY <1>4, <1>t DEF Load, Goto
  <2> QED
    BY <1>0, <2>1, <2>2 DEF Archiving, Restoring
<1>5. ASSUME NEW i \in DOMAIN archives, FindReceipt(q, i)
      PROVE  K(q, item'[q], auth'[q], pc'[q])
  <2>1. item'[q].receipt = i /\ pc'[q] = "lock" /\ auth' = auth
    BY <1>5, <1>t DEF FindReceipt, Goto, NoItem
  <2> QED
    BY <1>0, <1>k, <2>1 DEF Archiving
<1>6. CASE UNCHANGED <<item, auth>> /\ (pc'[q] \in Archiving => pc[q] \in Archiving)
           /\ (pc'[q] \in Restoring => pc[q] \in Restoring)
  BY <1>k, <1>6
<1>7. CASE pc'[q] \notin Archiving \cup Restoring /\ (auth'[q] = auth[q] \/ auth'[q] = {})
  BY <1>k, <1>7
<1>8. CASE OwnerStep \/ UNCHANGED vars
  BY <1>1, <1>8 DEF OwnerStep, Tick, EditPolicy, RecordReply, Write, Remove, Use, ObserveReply, Resume, Undo, locals, vars
<1>9. CASE ArchiveStep(q)
  BY <1>1, <1>3, <1>6, <1>7, <1>9, <1>t DEF ArchiveStep, Start, ReadReplies, Observe, RunEnds, Fails, Copy, Recheck,
     Publish, Manifest, Record, At, Goto, locals, Archiving, Restoring
<1>10. CASE CycleStep(q)
  <2>1. CASE Revalidate(q) \/ Move(q) \/ FinishMove(q) \/ Expire(q) \/ CycleEnds(q)
    BY <1>7, <1>t, <2>1 DEF Revalidate, Move, FinishMove, Expire, CycleEnds, Forget,
       At, Goto, locals, Archiving, Restoring
  <2> QED
    BY <1>4, <1>6, <1>10, <1>t, <2>1 DEF CycleStep, TakesLock, Applied, At, Goto, locals, Archiving, Restoring
<1>11. CASE RestoreStep(q) \/ Dies(q)
  BY <1>5, <1>6, <1>7, <1>11, <1>t DEF RestoreStep, RestoreLocks, Withdraw, Extract, Dies, Forget,
     At, Goto, locals, Archiving, Restoring
<1> QED
  BY <1>2, <1>8, <1>9, <1>10, <1>11, WhoActs

\* Contents are deleted from quarantine.
LEMMA GoneTyped ==
    ASSUME TypeInv, [Next]_vars
    PROVE  gone' \subseteq [path : Path, made : 1..MaxMade]
<1>0. gone \subseteq [path : Path, made : 1..MaxMade]
  BY DEF TypeInv, TypeOK
<1>1. CASE UNCHANGED gone
  BY <1>0, <1>1
<1>2. ASSUME NEW p \in Proc, Expire(p)
      PROVE  gone' \subseteq [path : Path, made : 1..MaxMade]
  <2>1. PICK i \in auth[p] :
           /\ away[archives[i].path].state = "quarantined"
           /\ gone' = gone \cup {[path |-> archives[i].path, made |-> away[archives[i].path].made]}
    BY <1>2 DEF Expire, Expires
  <2>2. i \in DOMAIN archives
    BY DEF TypeInv, HasReceipt
  <2>3. archives[i].path \in Path
    BY <2>2, ArchivesAre DEF TypeInv, Archive
  <2>4. away \in [Path -> Away]
    BY DEF TypeInv, TypeOK, Away
  <2>5. away[archives[i].path].made \in 1..MaxMade
    BY <2>1, <2>3, <2>4, Bounds DEF TypeInv, HasContents, Away, NotAway
  <2> QED
    BY <1>0, <2>1, <2>3, <2>5
<1>8. CASE OwnerStep \/ UNCHANGED vars
  BY <1>1, <1>8 DEF OwnerStep, Tick, EditPolicy, RecordReply, Write, Remove, Use, ObserveReply, Resume, Undo, vars
<1>9. ASSUME NEW p \in Proc, ArchiveStep(p) \/ CycleStep(p) \/ RestoreStep(p) \/ Dies(p)
      PROVE  gone' \subseteq [path : Path, made : 1..MaxMade]
  BY <1>1, <1>2, <1>9 DEF ArchiveStep, CycleStep, RestoreStep, Start, ReadReplies, Observe,
     Inspect, RunEnds, Fails, Copy, Recheck, Publish, Manifest, Record, Load, TakesLock, Revalidate, Move, FinishMove,
     Applied, CycleEnds, FindReceipt, RestoreLocks, Withdraw, Extract, Dies
<1> QED
  BY <1>8, <1>9, WhoActs

\* What a cycle has moved stays in quarantine until it has finished the move: it holds the lock.
LEMMA FinishingStep ==
    ASSUME TypeInv, [Next]_vars
    PROVE  Finishing'
<1> SUFFICES ASSUME NEW q \in Proc, pc'[q] = "finish"
             PROVE  away'[item'[q].path] # NotAway
  BY DEF Finishing
<1>t. /\ pc \in [Proc -> Steps] /\ item \in [Proc -> Items] /\ away \in [Path -> Away]
      /\ item[q].path \in Path /\ \A p \in Proc : lock = p <=> pc[p] \in Locked
  BY DEF TypeInv, TypeOK, Items
<1>1. CASE pc[q] = "finish" /\ item'[q] = item[q]
  <2>0. away[item[q].path] # NotAway /\ lock = q
    BY <1>1, <1>t DEF TypeInv, Finishing, Locked
  <2>1. CASE away' = away
    BY <1>1, <2>0, <2>1
  <2>2. ASSUME NEW x \in Path, Resume(x) \/ Undo(x) PROVE FALSE
    BY <2>0, <2>2, CategoryAssumption DEF Resume, Undo
  <2>3. ASSUME NEW p \in Proc, Expire(p) PROVE FALSE
    <3>1. pc[p] = "expire" /\ p # q
      BY <1>1, <2>3 DEF Expire, At
    <3> QED
      BY <1>t, <2>0, <3>1 DEF Locked
  <2>4. ASSUME NEW p \in Proc, Move(p) \/ FinishMove(p) PROVE p = q /\ FinishMove(q)
    <3>1. pc[p] = "move" \/ pc[p] = "finish"
      BY <2>4 DEF Move, FinishMove, At
    <3>2. p = q
      BY <1>t, <2>0, <3>1 DEF Locked
    <3> QED
      BY <1>1, <2>4, <3>2 DEF Move, At
  <2>5. ~FinishMove(q)
    BY <1>t DEF FinishMove, Goto
  <2>8. CASE OwnerStep \/ UNCHANGED vars
    BY <2>1, <2>2, <2>8 DEF OwnerStep, Tick, EditPolicy, RecordReply, Write, Remove, Use, ObserveReply,
       store, vars
  <2>9. ASSUME NEW p \in Proc, ArchiveStep(p) \/ CycleStep(p) \/ RestoreStep(p) \/ Dies(p)
        PROVE  away' = away
    BY <2>3, <2>4, <2>5, <2>9 DEF ArchiveStep, CycleStep, RestoreStep, Start, ReadReplies, Observe,
       Inspect, RunEnds, Fails, Copy, Recheck, Publish, Manifest, Record, Load, TakesLock, Revalidate,
       Applied, CycleEnds, FindReceipt, RestoreLocks, Withdraw, Extract, Dies, store
  <2> QED
    BY <2>1, <2>8, <2>9, WhoActs
<1>2. CASE Move(q)
  <2> DEFINE x == item[q].path
             a == [made |-> tree[x].made, newest |-> tree[x].newest, at |-> clock,
                   back |-> BroughtBack(x), state |-> "prepared"]
  <2>1. Present(x) /\ item' = item /\ away' = [away EXCEPT ![x] = a]
    BY <1>2, <1>t DEF Move, Goto
  <2>2. a # NotAway
    BY DEF NotAway
  <2> HIDE DEF a
  <2> QED
    BY <1>t, <2>1, <2>2
<1>3. CASE OwnerStep \/ UNCHANGED vars
  BY <1>1, <1>3 DEF OwnerStep, Tick, EditPolicy, RecordReply, Write, Remove, Use, ObserveReply, Resume, Undo,
     locals, vars
<1>4. ASSUME NEW p \in Proc, p # q, ArchiveStep(p) \/ CycleStep(p) \/ RestoreStep(p) \/ Dies(p)
      PROVE  away'[item'[q].path] # NotAway
  BY <1>1, <1>4, OthersStand
<1>5. ~ArchiveStep(q)
  BY <1>t DEF ArchiveStep, Start, ReadReplies, Observe, Inspect, RunEnds, Fails, Copy, Recheck,
     Publish, Manifest, Record, At, Goto
<1>6. CASE CycleStep(q)
  BY <1>t, <1>2, <1>6 DEF CycleStep, Load, TakesLock, Revalidate, FinishMove, Applied, Expire, CycleEnds, At, Goto
<1>7. ~RestoreStep(q) /\ ~Dies(q)
  BY <1>t DEF RestoreStep, FindReceipt, RestoreLocks, Withdraw, Extract, Dies, At, Goto
<1> QED
  BY <1>3, <1>4, <1>5, <1>6, <1>7, WhoActs

\* The invariant behind the types: initially, and from each step to the next.
LEMMA TypeInvStarts == ASSUME Init PROVE TypeInv
<1> USE Bounds, Nothing
<1>1. /\ clock = 0 /\ made = Cardinality(Path) /\ used = {} /\ events = 0
      /\ policy = [active |-> TRUE, keep |-> {}] /\ said = 0 /\ pending = {} /\ gone = {}
      /\ tree \in [Path -> [made : 1..made, newest : {0}]]
      /\ lock = NoProc /\ pc = [p \in Proc |-> "idle"]
  BY DEF Init
<1>2. clock \in 0..MaxClock /\ made \in 0..MaxMade /\ policy \in PolicyFile
  BY <1>1, CategoryAssumption
<1>3. tree \in [Path -> Trees] /\ \A x \in Path : tree[x].made # 0
  BY <1>1 DEF Trees
<1>4. /\ lock \in Proc \cup {NoProc} /\ pc \in [Proc -> Steps]
      /\ \A p \in Proc : lock = p <=> pc[p] \in Locked
  BY <1>1, CategoryAssumption DEF Steps, Locked
<1>5. archives = <<>> /\ archives \in Seq(Archive) /\ Len(archives) <= MaxArchives
  BY DEF Init
<1>6. /\ replies \in [Path -> Replies] /\ undone \in [Path -> 0..MaxArchives]
      /\ away \in [Path -> Away] /\ \A x \in Path : away[x] = NotAway
  BY DEF Init
<1>7. /\ pol \in [Proc -> PolicyFile \cup {NoPolicy}] /\ told \in [Proc -> [Path -> Replies]]
      /\ todo \in [Proc -> SUBSET Items] /\ item \in [Proc -> Items] /\ taken \in [Proc -> 0..MaxItems]
  BY DEF Init
<1>8. /\ auth \in [Proc -> SUBSET (1..MaxArchives)] /\ began \in [Proc -> 0..MaxClock]
      /\ copied \in [Proc -> 0..MaxReplies] /\ heard \in [Proc -> 0..MaxReplies]
      /\ \A p \in Proc : auth[p] = {}
  BY DEF Init
<1>9. TypeOK
  <2>1. /\ used \subseteq Path /\ events \in 0..MaxEvents /\ said \in 0..MaxReplies
        /\ pending \subseteq Pendings /\ gone \subseteq [path : Path, made : 1..MaxMade]
    BY <1>1
  <2> HIDE Bounds, Nothing
  <2> QED
    BY <1>2, <1>3, <1>4, <1>5, <1>6, <1>7, <1>8, <2>1 DEF TypeOK, Away, Pendings
<1>10. HasContents /\ Counted /\ HasReceipt /\ Finishing
  BY <1>1, <1>3, <1>5, <1>6, <1>8 DEF HasContents, Counted, HasReceipt, Finishing, Archiving, Restoring
<1> QED
  BY <1>9, <1>10 DEF TypeInv

\* Each step keeps the types and what they rest on.
LEMMA TypeInvStep == ASSUME TypeInv, [Next]_vars PROVE TypeInv'
<1>1. TypeOK'
  BY OwnerTyped, TreesTyped, ArchivesGrow, LockTyped, RunTyped, GoneTyped DEF TypeOK, Away, Pendings
<1>2. HasContents' /\ Counted' /\ HasReceipt' /\ Finishing'
  BY OwnerTyped, TreesTyped, ItemKnown, FinishingStep DEF HasContents
<1> QED
  BY <1>1, <1>2 DEF TypeInv

\* Every variable keeps its type, and every counter its bound, whatever the owner, the
\* clock, failures and deaths do between two steps of the processes.
THEOREM TypeCorrect == Spec => []TypeOK
<1>1. Init => TypeInv
  BY TypeInvStarts
<1>2. TypeInv /\ [Next]_vars => TypeInv'
  BY TypeInvStep
<1>3. TypeInv => TypeOK
  BY DEF TypeInv
<1> QED
  BY <1>1, <1>2, <1>3, PTL DEF Spec

-----------------------------------------------------------------------------
(* Where authority comes from and how long it lasts. *)

\* A run keeps its authority from Load to its end; it has none before.
LEMMA RunSteps ==
    ASSUME TypeInv, [Next]_vars, NEW q \in Proc
    PROVE  \/ /\ auth'[q] = auth[q] /\ heard'[q] = heard[q] /\ began'[q] = began[q]
              /\ (pc'[q] = "idle" <=> pc[q] = "idle") \/ q \in Restorer
           \/ /\ pc[q] = "idle" /\ auth'[q] = auth[q] /\ heard'[q] = heard[q]
              /\ began'[q] = clock /\ clock' = clock
           \/ Load(q) /\ pc'[q] # "idle"
           \/ pc'[q] = "idle" /\ auth'[q] = {} /\ heard'[q] = 0
<1> DEFINE Goal ==
       \/ /\ auth'[q] = auth[q] /\ heard'[q] = heard[q] /\ began'[q] = began[q]
          /\ (pc'[q] = "idle" <=> pc[q] = "idle") \/ q \in Restorer
       \/ /\ pc[q] = "idle" /\ auth'[q] = auth[q] /\ heard'[q] = heard[q]
          /\ began'[q] = clock /\ clock' = clock
       \/ Load(q) /\ pc'[q] # "idle"
       \/ pc'[q] = "idle" /\ auth'[q] = {} /\ heard'[q] = 0
<1>t. pc \in [Proc -> Steps] /\ item \in [Proc -> Items] /\ auth \in [Proc -> SUBSET (1..MaxArchives)]
      /\ began \in [Proc -> 0..MaxClock] /\ heard \in [Proc -> 0..MaxReplies]
  BY DEF TypeInv, TypeOK
<1>1. CASE OwnerStep \/ UNCHANGED vars
  BY <1>1 DEF OwnerStep, Tick, EditPolicy, RecordReply, Write, Remove, Use, ObserveReply, Resume, Undo, locals, vars
<1>2. ASSUME NEW p \in Proc, p # q, ArchiveStep(p) \/ CycleStep(p) \/ RestoreStep(p) \/ Dies(p)
      PROVE  Goal
  BY <1>2, OthersStand
<1>3. CASE ArchiveStep(q)
  <2>1. CASE Start(q)
    BY <1>t, <2>1 DEF Start, At, owner
  <2>2. CASE UNCHANGED <<auth, heard, began>> /\ pc[q] # "idle" /\ pc'[q] # "idle"
    BY <2>2
  <2> QED
    BY <1>3, <1>t, <2>1, <2>2 DEF ArchiveStep, ReadReplies, Observe, Inspect, RunEnds, Fails, Copy, Recheck,
       Publish, Manifest, Record, At, Goto, locals
<1>4. CASE CycleStep(q)
  <2>1. CASE Load(q)
    BY <1>t, <2>1 DEF Load, Goto
  <2>2. CASE CycleEnds(q)
    BY <1>t, <2>2 DEF CycleEnds, Goto, Forget
  <2>3. CASE UNCHANGED <<auth, heard, began>> /\ pc[q] # "idle" /\ pc'[q] # "idle"
    BY <2>3
  <2> QED
    BY <1>4, <1>t, <2>1, <2>2, <2>3 DEF CycleStep, TakesLock, Revalidate, Move, FinishMove, Applied, Expire,
       At, Goto, locals
<1>5. CASE Dies(q) \/ Extract(q)
  BY <1>t, <1>5 DEF Dies, Extract, Goto, Forget
<1>6. CASE q \in Restorer /\ RestoreStep(q)
  BY <1>t, <1>5, <1>6 DEF RestoreStep, FindReceipt, RestoreLocks, Withdraw, locals
<1> QED
  BY <1>1, <1>2, <1>3, <1>4, <1>5, <1>6, OthersStand DEF Next, OwnerStep, Proc

\* Only an expiring cycle deletes, on its own authority and with apply.lock.
LEMMA ByExpiry ==
    ASSUME TypeInv, [Next]_vars, gone' # gone
    PROVE  \E p \in Cycle : /\ Expire(p) /\ pc[p] = "expire" /\ lock = p
                            /\ \E i \in auth[p] :
                                  LET x == archives[i].path IN
                                  /\ Expires(p, i) /\ i \in DOMAIN archives /\ x \in Path
                                  /\ gone' = gone \cup {[path |-> x, made |-> away[x].made]}
<1>1. ~OwnerStep /\ ~UNCHANGED vars
  BY DEF OwnerStep, Tick, EditPolicy, RecordReply, Write, Remove, Use, ObserveReply, Resume, Undo, vars
<1>2. ASSUME NEW p \in Proc, ArchiveStep(p) \/ RestoreStep(p) \/ Dies(p)
      PROVE  FALSE
  BY <1>2 DEF ArchiveStep, RestoreStep, Start, ReadReplies, Observe,
     Inspect, RunEnds, Fails, Copy, Recheck, Publish, Manifest, Record,
     FindReceipt, RestoreLocks, Withdraw, Extract, Dies
<1>3. PICK p \in Cycle : CycleStep(p)
  BY <1>1, <1>2 DEF Next, OwnerStep, Proc
<1>4. Expire(p) /\ p \in Proc
  BY <1>3 DEF CycleStep, Load, TakesLock, Revalidate, Move, FinishMove, Applied, CycleEnds, Proc
<1>5. pc[p] = "expire" /\ lock = p
  BY <1>4 DEF Expire, At, TypeInv, TypeOK, Locked
<1>6. PICK i \in auth[p] :
         /\ Expires(p, i)
         /\ gone' = gone \cup {[path |-> archives[i].path, made |-> away[archives[i].path].made]}
  BY <1>4 DEF Expire
<1>7. i \in DOMAIN archives
  BY <1>4 DEF TypeInv, HasReceipt
<1>8. archives[i].path \in Path
  BY <1>7, ArchivesAre DEF TypeInv, Archive
<1> QED
  BY <1>4, <1>5, <1>6, <1>7, <1>8

-----------------------------------------------------------------------------
(* Deletion rests on a recorded archive. *)

\* Authority and restores rest on recorded receipts; only a recorded archive is withdrawn.
OnReceipts ==
    /\ \A p \in Proc : /\ \A i \in auth[p] : archives[i].recorded
                       /\ pc[p] \in Restoring => archives[item[p].receipt].recorded
    /\ \A i \in DOMAIN archives : archives[i].withdrawn => archives[i].recorded

\* Authority comes from recorded receipts only (withCategoryArchives).
LEMMA AuthorityIsRecorded ==
    ASSUME NEW pl
    PROVE  Authority(pl) \subseteq DOMAIN archives /\ \A i \in Authority(pl) : archives[i].recorded
BY DEF Authority, Active, Receipts

\* A receipt that authority or a restore rests on stays recorded.
LEMMA OnReceiptsStep ==
    ASSUME TypeInv, OnReceipts, [Next]_vars
    PROVE  OnReceipts'
<1>g. Grows
  BY ArchivesGrow
<1>t. pc \in [Proc -> Steps] /\ item \in [Proc -> Items] /\ auth \in [Proc -> SUBSET (1..MaxArchives)]
  BY DEF TypeInv, TypeOK
<1>1. ASSUME NEW q \in Proc, NEW i \in auth'[q]
      PROVE  archives'[i].recorded
  <2>1. i \in auth[q] \/ i \in Authority(pol[q])
    BY <1>t, <1>1, RunSteps DEF Load
  <2>2. i \in DOMAIN archives /\ archives[i].recorded
    BY <2>1, AuthorityIsRecorded DEF OnReceipts, TypeInv, HasReceipt
  <2> QED
    BY <1>g, <2>2 DEF Grows
<1>2. ASSUME NEW q \in Proc, pc'[q] \in Restoring
      PROVE  archives'[item'[q].receipt].recorded
  <2>1. CASE pc[q] \in Restoring /\ item'[q] = item[q]
    BY <1>g, <2>1 DEF OnReceipts, TypeInv, HasReceipt, Grows
  <2>2. ASSUME NEW i \in DOMAIN archives, FindReceipt(q, i)
        PROVE  archives'[item'[q].receipt].recorded
    <3>1. item'[q].receipt = i
      BY <1>t, <2>2 DEF FindReceipt, NoItem
    <3>2. archives[i].recorded
      BY <2>2 DEF FindReceipt, Active, Receipts
    <3> QED
      BY <1>g, <3>1, <3>2 DEF Grows
  <2>3. CASE OwnerStep \/ UNCHANGED vars
    BY <1>2, <2>1, <2>3 DEF OwnerStep, Tick, EditPolicy, RecordReply, Write, Remove, Use, ObserveReply, Resume, Undo,
       locals, vars
  <2>4. ASSUME NEW p \in Proc, p # q, ArchiveStep(p) \/ CycleStep(p) \/ RestoreStep(p) \/ Dies(p)
        PROVE  archives'[item'[q].receipt].recorded
    BY <1>2, <2>1, <2>4, OthersStand
  <2>5. ~ArchiveStep(q)
    BY <1>2, <1>t DEF ArchiveStep, Start, ReadReplies, Observe, Inspect, RunEnds, Fails, Copy, Recheck,
       Publish, Manifest, Record, At, Goto, Restoring
  <2>6. ~CycleStep(q) /\ ~Dies(q)
    BY <1>2, <1>t DEF CycleStep, Load, TakesLock, Revalidate, Move, FinishMove, Applied, Expire, CycleEnds, Dies,
       At, Goto, Restoring
  <2>7. CASE RestoreStep(q)
    BY <1>2, <1>t, <2>1, <2>2, <2>7 DEF RestoreStep, RestoreLocks, Withdraw, Extract, At, Goto, locals, Restoring
  <2> QED
    BY <2>3, <2>4, <2>5, <2>6, <2>7, WhoActs
<1>3. ASSUME NEW i \in DOMAIN archives', archives'[i].withdrawn
      PROVE  archives'[i].recorded
  <2>1. CASE i \in DOMAIN archives /\ archives[i].withdrawn
    BY <1>g, <2>1 DEF OnReceipts, Grows
  <2>a. /\ archives \in Seq(Archive) /\ DOMAIN archives = 1..Len(archives) /\ Len(archives) \in Nat
        /\ \A j \in DOMAIN archives : archives[j] \in Archive
    BY ArchivesAre, Bounds DEF TypeInv, TypeOK
  <2>2. CASE UNCHANGED archives
    BY <1>3, <2>1, <2>2
  <2>3. ASSUME NEW p \in Proc, Publish(p)
        PROVE  archives'[i].recorded
    <3>1. PICK a : archives' = Append(archives, a) /\ a.withdrawn = FALSE
      BY <2>3 DEF Publish
    <3>2. i \in DOMAIN archives /\ archives'[i] = archives[i]
      BY <1>3, <2>a, <3>1
    <3> QED
      BY <1>3, <2>1, <3>2
  <2>4. ASSUME NEW p \in Proc, Manifest(p) \/ Record(p)
        PROVE  archives'[i].recorded
    <3>1. PICK n : archives' = [archives EXCEPT ![n].complete = TRUE]
                   \/ archives' = [archives EXCEPT ![n].recorded = TRUE]
      BY <2>4 DEF Manifest, Record
    <3>2. i \in DOMAIN archives
          /\ archives'[i] \in {archives[i], [archives[i] EXCEPT !.complete = TRUE],
                              [archives[i] EXCEPT !.recorded = TRUE]}
      BY <1>3, <2>a, <3>1
    <3>3. \A a \in Archive : /\ [a EXCEPT !.complete = TRUE].withdrawn = a.withdrawn
                             /\ [a EXCEPT !.recorded = TRUE].withdrawn = a.withdrawn
      BY DEF Archive
    <3>4. archives'[i].withdrawn = archives[i].withdrawn
      <4> DEFINE a == archives[i]
                 b == archives'[i]
      <4>1. a \in Archive
        BY <2>a, <3>2
      <4>2. b \in {a, [a EXCEPT !.complete = TRUE], [a EXCEPT !.recorded = TRUE]}
        BY <3>2
      <4> HIDE DEF a, b
      <4>3. b.withdrawn = a.withdrawn
        BY <3>3, <4>1, <4>2
      <4> QED
        BY <4>3 DEF a, b
    <3> QED
      BY <1>3, <2>1, <3>2, <3>4
  <2>5. ASSUME NEW p \in Proc, Withdraw(p)
        PROVE  archives'[i].recorded
    <3> DEFINE n == item[p].receipt
    <3>1. archives' = [archives EXCEPT ![n].withdrawn = TRUE] /\ n \in DOMAIN archives
          /\ archives[n].recorded
      BY <2>5 DEF Withdraw, At, Restoring, TypeInv, HasReceipt, OnReceipts
    <3> HIDE DEF n
    <3>2. CASE i = n
      BY <1>g, <3>1, <3>2 DEF Grows
    <3>3. CASE i # n
      <4>1. i \in DOMAIN archives /\ archives'[i] = archives[i]
        BY <2>a, <3>1, <3>3
      <4> QED
        BY <1>3, <2>1, <4>1
    <3> QED
      BY <3>2, <3>3
  <2>8. CASE OwnerStep \/ UNCHANGED vars
    BY <2>2, <2>8 DEF OwnerStep, Tick, EditPolicy, RecordReply, Write, Remove, Use, ObserveReply, Resume, Undo,
       store, vars
  <2>9. ASSUME NEW p \in Proc, ArchiveStep(p) \/ CycleStep(p) \/ RestoreStep(p) \/ Dies(p)
        PROVE  archives'[i].recorded
    BY <2>2, <2>3, <2>4, <2>5, <2>9 DEF ArchiveStep, CycleStep, RestoreStep, Start, ReadReplies, Observe,
       Inspect, RunEnds, Fails, Copy, Recheck, Load, TakesLock, Revalidate, Move, FinishMove, Expire,
       Applied, CycleEnds, FindReceipt, RestoreLocks, Extract, Dies, store
  <2> QED
    BY <2>8, <2>9, WhoActs
<1> QED
  BY <1>1, <1>2, <1>3 DEF OnReceipts

\* Expire binds a whole archive of the very contents, and nothing removes one.
LEMMA DeletedStep ==
    ASSUME TypeInv, OnReceipts, DeletedIsArchived, [Next]_vars
    PROVE  DeletedIsArchived'
<1>g. Grows
  BY ArchivesGrow
<1>1. CASE gone' = gone
  BY <1>1, <1>g DEF DeletedIsArchived, Grows
<1>2. CASE gone' # gone
  <2>0. PICK p \in Cycle : \E i \in auth[p] :
            /\ Expires(p, i) /\ i \in DOMAIN archives
            /\ gone' = gone \cup {[path |-> archives[i].path, made |-> away[archives[i].path].made]}
    BY <1>2, ByExpiry
  <2>1. PICK i \in auth[p] :
            /\ Expires(p, i) /\ i \in DOMAIN archives
            /\ gone' = gone \cup {[path |-> archives[i].path, made |-> away[archives[i].path].made]}
    BY <2>0
  <2>2. archives[i].complete /\ archives[i].made = away[archives[i].path].made
    BY <2>1 DEF Expires, Eligible, Binds, Whole, SameMembers
  <2>3. archives[i].recorded
    BY <2>1 DEF OnReceipts, Proc
  <2> QED
    BY <1>g, <2>1, <2>2, <2>3 DEF DeletedIsArchived, Grows
<1> QED
  BY <1>1, <1>2

\* Nothing is archived, authorised or deleted at first.
LEMMA OnReceiptsStarts == ASSUME Init PROVE OnReceipts /\ DeletedIsArchived
BY DEF Init, OnReceipts, DeletedIsArchived, Restoring

\* Whatever an expiry deletes has been published whole in an archive whose receipt is
\* recorded (bind_linux.go:33-110), and stays there.
THEOREM NothingIsLost == Spec => []DeletedIsArchived
<1> DEFINE I == TypeInv /\ OnReceipts /\ DeletedIsArchived
<1>1. Init => I
  BY TypeInvStarts, OnReceiptsStarts
<1>2. I /\ [Next]_vars => I'
  BY TypeInvStep, OnReceiptsStep, DeletedStep
<1>3. I => DeletedIsArchived
  OBVIOUS
<1> HIDE DEF I
<1> QED
  BY <1>1, <1>2, <1>3, PTL DEF Spec

-----------------------------------------------------------------------------
(* What the owner brought back is not deleted. *)

\* A cycle ends before what it moves can expire; an idle one has no authority.
InWindow ==
    \A p \in Cycle : IF pc[p] = "idle" THEN auth[p] = {}
                     ELSE began[p] <= clock /\ clock < began[p] + Retention

\* How far back the owner's returns reach: never past the archives there are, and when a
\* tree was moved, no further than now.
Returned ==
    /\ \A x \in Path : undone[x] <= Len(archives)
    /\ \A x \in Path : away[x] # NotAway => away[x].back <= BroughtBack(x)

\* Of a tree moved before the cycle began, the cycle's authority is newer than any return.
SinceReturned ==
    \A p \in Cycle : \A i \in auth[p] :
        LET x == archives[i].path IN
        away[x] # NotAway /\ away[x].at < began[p] => i > away[x].back

\* A tree stays in quarantine, leaves it, or comes there or changes its state at this time.
LEMMA AwaySteps ==
    ASSUME TypeInv, [Next]_vars, NEW x \in Path
    PROVE  \/ away'[x] = away[x] \/ away'[x] = NotAway
           \/ /\ away'[x].back = BroughtBack(x) \/ (away[x] # NotAway /\ away'[x].back = away[x].back)
              /\ away'[x].at = clock /\ clock' = clock
<1> DEFINE Goal == \/ away'[x] = away[x] \/ away'[x] = NotAway
                   \/ /\ away'[x].back = BroughtBack(x) \/ (away[x] # NotAway /\ away'[x].back = away[x].back)
                      /\ away'[x].at = clock /\ clock' = clock
<1>t. away \in [Path -> Away]
  BY DEF TypeInv, TypeOK, Away
<1>1. ASSUME NEW p \in Proc, Move(p) PROVE Goal
  <2>1. item[p].path \in Path
    BY DEF TypeInv, TypeOK, Items
  <2>2. CASE ~Present(item[p].path)
    BY <1>1, <2>2 DEF Move
  <2>3. CASE Present(item[p].path)
    <3> DEFINE y == item[p].path
               a == [made |-> tree[y].made, newest |-> tree[y].newest, at |-> clock, back |-> BroughtBack(y),
                     state |-> "prepared"]
    <3>1. away' = [away EXCEPT ![y] = a] /\ clock' = clock
      BY <1>1, <2>3 DEF Move
    <3>2. a.back = BroughtBack(y) /\ a.at = clock
      OBVIOUS
    <3> HIDE DEF a
    <3> QED
      BY <1>t, <2>1, <3>1, <3>2
  <2> QED
    BY <2>2, <2>3
<1>2. ASSUME NEW p \in Proc, Expire(p) PROVE Goal
  <2>1. PICK y : away' = [away EXCEPT ![y] = NotAway]
    BY <1>2 DEF Expire
  <2> QED
    BY <1>t, <2>1
<1>3. ASSUME NEW y \in Path, Undo(y) PROVE Goal
  BY <1>t, <1>3 DEF Undo
<1>c. clock \in 0..MaxClock
  BY DEF TypeInv, TypeOK
<1>4. ASSUME NEW y \in Path, Resume(y) PROVE Goal
  <2>1. /\ away[y] # NotAway /\ clock' = clock
        /\ \E s \in {"quarantined", "investigate"} : away' = [away EXCEPT ![y].state = s, ![y].at = clock]
    BY <1>4, ResumeChanges
  <2>2. PICK s \in {"quarantined", "investigate"} : away' = [away EXCEPT ![y].state = s, ![y].at = clock]
    BY <2>1
  <2>3. /\ away'[y].back = away[y].back /\ away'[y].at = clock
        /\ \A z \in Path : z # y => away'[z] = away[z]
    BY <1>t, <1>c, <2>2, RowChanges
  <2> QED
    BY <2>1, <2>3
<1>5. ASSUME NEW p \in Proc, FinishMove(p) PROVE Goal
  <2>1. item[p].path \in Path /\ away[item[p].path] # NotAway /\ clock' = clock
    BY <1>5 DEF FinishMove, At, owner, TypeInv, TypeOK, Items, Finishing
  <2>2. CASE away' = away
    BY <2>2
  <2>3. ASSUME NEW y \in Path, y = item[p].path,
               away' = [away EXCEPT ![y].state = "quarantined", ![y].at = clock]
        PROVE  Goal
    <3>1. /\ away'[y].back = away[y].back /\ away'[y].at = clock
          /\ \A z \in Path : z # y => away'[z] = away[z]
      BY <1>t, <1>c, <2>3, RowChanges
    <3> QED
      BY <2>1, <2>3, <3>1
  <2> QED
    BY <1>5, <2>1, <2>2, <2>3 DEF FinishMove
<1>8. CASE OwnerStep \/ UNCHANGED vars
  BY <1>3, <1>4, <1>8 DEF OwnerStep, Tick, EditPolicy, RecordReply, Write, Remove, Use, ObserveReply, store, vars
<1>9. ASSUME NEW p \in Proc, ArchiveStep(p) \/ CycleStep(p) \/ RestoreStep(p) \/ Dies(p)
      PROVE  Goal
  BY <1>1, <1>2, <1>5, <1>9 DEF ArchiveStep, CycleStep, RestoreStep, Start, ReadReplies, Observe, Publish,
     Manifest, Record, Inspect, RunEnds, Fails, Copy, Recheck, Load, TakesLock, Revalidate,
     Applied, CycleEnds, FindReceipt, RestoreLocks, Withdraw, Extract, Dies, store
<1> QED
  BY <1>8, <1>9, WhoActs

\* The clock waits for cycles; authority starts and ends inside one.
LEMMA InWindowStep ==
    ASSUME TypeInv, InWindow, [Next]_vars
    PROVE  InWindow'
<1> SUFFICES ASSUME NEW p \in Cycle
             PROVE  IF pc'[p] = "idle" THEN auth'[p] = {}
                    ELSE began'[p] <= clock' /\ clock' < began'[p] + Retention
  BY DEF InWindow
<1>0. /\ p \in Proc /\ p \notin Restorer /\ Retention \in Nat \ {0}
      /\ clock \in Nat /\ clock' \in Nat /\ began[p] \in Nat
  <2>1. p \in Proc /\ p \notin Restorer /\ Retention \in Nat \ {0}
    BY CategoryAssumption DEF Proc
  <2>2. clock \in 0..MaxClock /\ began[p] \in 0..MaxClock
    BY <2>1 DEF TypeInv, TypeOK
  <2> QED
    BY <2>1, <2>2, OwnerTyped, Bounds
<1>1. clock' = clock \/ (Tick /\ UNCHANGED <<pc, auth, began>>)
  <2>1. CASE OwnerStep \/ UNCHANGED vars
    BY <2>1 DEF OwnerStep, Tick, EditPolicy, RecordReply, Write, Remove, Use, ObserveReply, Resume, Undo,
       owner, locals, vars
  <2>2. ASSUME NEW q \in Proc, ArchiveStep(q) PROVE clock' = clock
    BY <2>2 DEF ArchiveStep, Start, ReadReplies, Observe, Inspect, RunEnds, Fails, Copy, Recheck, Publish,
       Manifest, Record, owner
  <2>3. ASSUME NEW q \in Proc, CycleStep(q) PROVE clock' = clock
    BY <2>3 DEF CycleStep, Load, TakesLock, Revalidate, Move, FinishMove, Applied, Expire, CycleEnds, owner
  <2>4. ASSUME NEW q \in Proc, RestoreStep(q) \/ Dies(q) PROVE clock' = clock
    BY <2>4 DEF RestoreStep, FindReceipt, RestoreLocks, Withdraw, Extract, Dies, owner
  <2> QED
    BY <2>1, <2>2, <2>3, <2>4, WhoActs
<1>2. CASE Tick /\ UNCHANGED <<pc, auth, began>>
  <2>1. pc[p] # "idle" => clock + 1 < began[p] + Retention
    BY <1>2 DEF Tick
  <2> QED
    BY <1>0, <1>2, <2>1 DEF InWindow, Tick
<1>3. CASE clock' = clock
  <2>1. CASE auth'[p] = auth[p] /\ began'[p] = began[p] /\ (pc'[p] = "idle" <=> pc[p] = "idle")
    BY <1>3, <2>1 DEF InWindow
  <2>2. CASE pc[p] = "idle" /\ auth'[p] = auth[p] /\ began'[p] = clock
    BY <1>0, <1>3, <2>2 DEF InWindow
  <2>3. CASE Load(p) /\ pc'[p] # "idle"
    BY <1>3, <2>3 DEF InWindow, Load, At
  <2>4. CASE pc'[p] = "idle" /\ auth'[p] = {}
    BY <2>4
  <2> QED
    BY <1>0, <2>1, <2>2, <2>3, <2>4, RunSteps
<1> QED
  BY <1>1, <1>2, <1>3

\* Returns only reach further, and a move records how far they reach.
LEMMA ReturnedStep ==
    ASSUME TypeInv, Returned, [Next]_vars
    PROVE  Returned'
<1>g. Grows /\ TypeInv'
  BY ArchivesGrow, TypeInvStep
<1>a. /\ Len(archives) \in Nat /\ Len(archives') \in Nat
      /\ DOMAIN archives = 1..Len(archives) /\ DOMAIN archives' = 1..Len(archives')
  <2>1. DOMAIN archives = 1..Len(archives) /\ Len(archives) \in 0..MaxArchives
    BY ArchivesAre DEF TypeInv
  <2>2. archives' \in Seq(Archive)
    BY ArchivesGrow
  <2> QED
    BY <2>1, <2>2, Bounds
<1>t. /\ undone \in [Path -> 0..MaxArchives] /\ away \in [Path -> Away]
      /\ undone' \in [Path -> 0..MaxArchives]
  BY TreesTyped DEF TypeInv, TypeOK, Away
<1>1. \A x \in Path : undone'[x] = undone[x] \/ undone'[x] = Len(archives)
  <2>1. CASE UNCHANGED undone
    BY <2>1
  <2>2. ASSUME NEW y \in Path, Undo(y) PROVE \A x \in Path : undone'[x] = undone[x] \/ undone'[x] = Len(archives)
    BY <1>t, <2>2 DEF Undo
  <2>8. CASE OwnerStep \/ UNCHANGED vars
    BY <2>1, <2>2, <2>8 DEF OwnerStep, Tick, EditPolicy, RecordReply, Write, Remove, Use, ObserveReply,
       Resume, store, vars
  <2>9. ASSUME NEW p \in Proc, ArchiveStep(p) \/ CycleStep(p) \/ RestoreStep(p) \/ Dies(p)
        PROVE  UNCHANGED undone
    BY <2>9 DEF ArchiveStep, CycleStep, RestoreStep, Start, ReadReplies, Observe, Publish, Manifest, Record,
       Inspect, RunEnds, Fails, Copy, Recheck, Load, TakesLock, Revalidate, Move, FinishMove, Expire,
       Applied, CycleEnds, FindReceipt, RestoreLocks, Withdraw, Extract, Dies, store
  <2> QED
    BY <2>1, <2>8, <2>9, WhoActs
<1>2. \A x \in Path : undone'[x] <= Len(archives') /\ undone[x] <= undone'[x]
  BY <1>1, <1>g, <1>a, <1>t, Bounds DEF Returned, Grows
<1>3. ASSUME NEW x \in Path
      PROVE  BroughtBack(x) <= BroughtBack(x)'
  <2> SUFFICES ASSUME NEW b, NEW c, b = BroughtBack(x), c = BroughtBack(x)'
               PROVE  b <= c
    OBVIOUS
  <2>1. b \in {0, undone[x]} \cup {i \in DOMAIN archives : archives[i].path = x /\ archives[i].withdrawn}
        /\ b \in 0..MaxArchives
    BY BackIsBounded DEF TypeInv
  <2>2. /\ c \in 0..MaxArchives /\ undone'[x] <= c
        /\ \A i \in DOMAIN archives' : archives'[i].path = x /\ archives'[i].withdrawn => i <= c
    <3>1. TypeOK'
      BY <1>g DEF TypeInv
    <3> QED
      BY <3>1, BackStaysBounded
  <2>3. CASE b \in {0, undone[x]}
    BY <1>2, <1>t, <2>1, <2>2, <2>3, Bounds
  <2>4. CASE b \in DOMAIN archives /\ archives[b].path = x /\ archives[b].withdrawn
    <3>1. b \in DOMAIN archives' /\ archives'[b].path = x /\ archives'[b].withdrawn
      BY <1>g, <2>4 DEF Grows
    <3> QED
      BY <2>2, <3>1
  <2> QED
    BY <2>1, <2>3, <2>4
<1>4. ASSUME NEW x \in Path
      PROVE  \/ away'[x] = away[x] \/ away'[x] = NotAway
             \/ away'[x].back = BroughtBack(x)
             \/ away[x] # NotAway /\ away'[x].back = away[x].back
  BY AwaySteps
<1>5. ASSUME NEW x \in Path, away'[x] # NotAway
      PROVE  away'[x].back <= BroughtBack(x)'
  <2>1. /\ BroughtBack(x) \in Nat /\ BroughtBack(x)' \in Nat /\ BroughtBack(x) <= BroughtBack(x)'
        /\ away[x].back \in Nat
    <3>1. TypeOK /\ TypeOK'
      BY <1>g DEF TypeInv
    <3>2. BroughtBack(x)' \in 0..MaxArchives
      BY <3>1, BackStaysBounded
    <3>3. BroughtBack(x) \in 0..MaxArchives
      BY <3>1, BackIsBounded
    <3>4. away[x].back \in 0..MaxArchives
      BY <1>t DEF Away
    <3> QED
      BY <1>3, <3>2, <3>3, <3>4, Bounds
  <2>2. CASE away'[x] = away[x]
    BY <1>5, <2>1, <2>2 DEF Returned
  <2>3. CASE away'[x].back = BroughtBack(x)
    BY <2>1, <2>3
  <2>4. CASE away[x] # NotAway /\ away'[x].back = away[x].back
    BY <2>1, <2>4 DEF Returned
  <2> QED
    BY <1>4, <1>5, <2>2, <2>3, <2>4
<1> QED
  BY <1>2, <1>5 DEF Returned

\* Load leaves out what was returned; what is moved later is too young to expire in the cycle.
LEMMA SinceReturnedStep ==
    ASSUME TypeInv, OnReceipts, InWindow, Returned, SinceReturned, [Next]_vars
    PROVE  SinceReturned'
<1> SUFFICES ASSUME NEW p \in Cycle, NEW i \in auth'[p], NEW x, x = archives'[i].path,
                    away'[x] # NotAway, away'[x].at < began'[p]
             PROVE  i > away'[x].back
  BY DEF SinceReturned
<1>0. p \in Proc /\ p \notin Restorer
  BY CategoryAssumption DEF Proc
<1>t. /\ DOMAIN archives = 1..Len(archives) /\ Len(archives) \in 0..MaxArchives
      /\ undone \in [Path -> 0..MaxArchives] /\ away \in [Path -> Away]
      /\ clock \in 0..MaxClock /\ began \in [Proc -> 0..MaxClock]
  BY ArchivesAre DEF TypeInv, TypeOK, Away
<1>1. CASE auth'[p] = auth[p] /\ began'[p] = began[p] /\ (pc'[p] = "idle" <=> pc[p] = "idle")
  <2>1. i \in DOMAIN archives
    BY <1>0, <1>1 DEF TypeInv, HasReceipt
  <2>2. x = archives[i].path /\ x \in Path
    BY <2>1, ArchivesGrow, ArchivesAre DEF Grows, TypeInv, Archive
  <2>3. pc[p] # "idle" /\ began[p] <= clock
    BY <1>1 DEF InWindow
  <2>4. CASE away'[x] = away[x]
    BY <1>1, <2>2, <2>4 DEF SinceReturned
  <2>5. CASE away'[x].at = clock
    BY <1>0, <1>1, <1>t, <2>3, <2>5, Bounds
  <2> QED
    BY <2>2, <2>4, <2>5, AwaySteps
<1>2. CASE pc[p] = "idle" /\ auth'[p] = auth[p]
  BY <1>2 DEF InWindow
<1>3. CASE Load(p)
  <2>1. UNCHANGED <<archives, away>> /\ auth' = [auth EXCEPT ![p] = Authority(pol[p])]
    BY <1>3 DEF Load, store
  <2>2. i \in Authority(pol[p])
    BY <1>0, <2>1 DEF TypeInv, TypeOK
  <2>3. /\ i \in DOMAIN archives /\ x = archives[i].path /\ ~(i <= undone[x]) /\ ~archives[i].withdrawn
        /\ \A j \in Receipts(x) : j <= i
    BY <2>1, <2>2 DEF Authority, Active, activeCategoryRule, RestoredByOwner
  <2>4. x \in Path
    BY <2>3, ArchivesAre DEF TypeInv, Archive
  <2>5. ASSUME NEW j \in DOMAIN archives, archives[j].path = x, archives[j].withdrawn
        PROVE  j < i
    <3>1. j \in Receipts(x)
      BY <2>5 DEF OnReceipts, Receipts
    <3>2. j # i
      BY <2>3, <2>5
    <3> QED
      BY <1>t, <2>3, <3>1, <3>2
  <2> SUFFICES ASSUME NEW b, b = BroughtBack(x)
               PROVE  i > away[x].back
    BY <2>1
  <2>6. b \in {0, undone[x]} \cup {j \in DOMAIN archives : archives[j].path = x /\ archives[j].withdrawn}
    BY <2>4, BackIsBounded DEF TypeInv
  <2>7. b < i /\ b \in Nat
    BY <1>t, <2>3, <2>4, <2>5, <2>6, Bounds
  <2>8. away[x].back <= b /\ away[x].back \in Nat
    <3>1. away[x].back \in 0..MaxArchives
      BY <1>t, <2>4 DEF Away
    <3> QED
      BY <2>1, <2>4, <3>1, Bounds DEF Returned
  <2> QED
    BY <1>t, <2>3, <2>7, <2>8
<1>4. CASE auth'[p] = {}
  BY <1>4
<1> QED
  BY <1>0, <1>1, <1>2, <1>3, <1>4, RunSteps

\* An expiry that a cycle's window lets through is of a tree moved before it began.
LEMMA DeletesSinceReturn ==
    ASSUME TypeInv, OnReceipts, InWindow, SinceReturned, [Next]_vars, NEW x \in Path, Deletes(x)
    PROVE  \E i \in DOMAIN archives : /\ archives[i].path = x /\ archives[i].made = away[x].made
                                      /\ archives[i].recorded /\ i > away[x].back
<1>1. PICK p \in Cycle : /\ pc[p] = "expire"
                         /\ \E i \in auth[p] :
                               /\ Expires(p, i) /\ i \in DOMAIN archives /\ archives[i].path \in Path
                               /\ gone' = gone \cup {[path |-> archives[i].path, made |-> away[archives[i].path].made]}
  BY ByExpiry DEF Deletes
<1>2. PICK i \in auth[p] :
         /\ Expires(p, i) /\ i \in DOMAIN archives
         /\ gone' = gone \cup {[path |-> archives[i].path, made |-> away[archives[i].path].made]}
  BY <1>1
<1>3. archives[i].path = x
  BY <1>2 DEF Deletes
<1>4. /\ away[x] # NotAway /\ away[x].at + Retention <= clock
      /\ archives[i].made = away[x].made
  BY <1>2, <1>3 DEF Expires, Eligible, Binds, SameMembers, NotAway
<1>5. archives[i].recorded /\ p \in Proc
  BY <1>2 DEF OnReceipts, Proc
<1>6. clock < began[p] + Retention
  BY <1>1 DEF InWindow
<1>7. away[x].at < began[p]
  <2>1. clock \in Nat /\ began[p] \in Nat /\ away[x].at \in Nat /\ Retention \in Nat
    <3>1. clock \in 0..MaxClock /\ began[p] \in 0..MaxClock /\ away[x] \in Away
      BY <1>5 DEF TypeInv, TypeOK
    <3>2. away[x].at \in 0..MaxClock
      BY <3>1 DEF Away
    <3> QED
      BY <3>1, <3>2, Bounds, CategoryAssumption
  <2> QED
    BY <1>4, <1>6, <2>1
<1>8. i > away[x].back
  BY <1>2, <1>3, <1>4, <1>7 DEF SinceReturned
<1> QED
  BY <1>2, <1>3, <1>4, <1>5, <1>8

\* Nothing is in quarantine and no cycle runs at first.
LEMMA ReturnsStart == ASSUME Init PROVE InWindow /\ Returned /\ SinceReturned
<1>1. InWindow /\ SinceReturned
  BY DEF Init, InWindow, SinceReturned, Proc
<1>2. Returned
  BY DEF Init, Returned
<1> QED
  BY <1>1, <1>2

\* What the owner brought back by either way is deleted only after a newer archive of it
\* (category_archives.go:39-51, workspace_archive.go:121-131), whatever cycle moved or
\* expires it.
THEOREM ReturnIsRespected == Spec => RestoredIsNotDeleted
<1> DEFINE I == TypeInv /\ OnReceipts /\ InWindow /\ Returned /\ SinceReturned
           A == \A x \in Path : Deletes(x) =>
                   \E i \in DOMAIN archives : /\ archives[i].path = x /\ archives[i].made = away[x].made
                                              /\ archives[i].recorded /\ i > away[x].back
<1>1. Init => I
  BY TypeInvStarts, OnReceiptsStarts, ReturnsStart
<1>2. I /\ [Next]_vars => I'
  BY TypeInvStep, OnReceiptsStep, InWindowStep, ReturnedStep, SinceReturnedStep
<1>3. I /\ [Next]_vars => [A]_vars
  BY DeletesSinceReturn
<1> HIDE DEF I
<1> QED
  BY <1>1, <1>2, <1>3, PTL DEF Spec, RestoredIsNotDeleted

-----------------------------------------------------------------------------
(* Replies: a keep holds, a superseded release does not archive. *)

\* A keep older than a cycle's authority is not in force for what the authority covers.
NoKeep ==
    /\ \A x \in Path : replies[x].seq <= said
    /\ \A p \in Proc : heard[p] <= said
    /\ \A p \in Cycle : \A i \in auth[p] :
          LET r == replies[archives[i].path] IN r.seq <= heard[p] => ~Kept(r)

\* What is about to be moved, the cycle has authority over.
OnAuthority ==
    \A p \in Proc : pc[p] = "move" => /\ item[p].receipt \in auth[p]
                                      /\ archives[item[p].receipt].path = item[p].path

\* A release superseded before the copy of its item ended does not reach publication.
NotSuperseded ==
    \A p \in Proc :
        /\ copied[p] <= said
        /\ pc[p] = "publish" /\ item[p].release # 0 =>
              LET r == replies[item[p].path] IN r.seq = item[p].release \/ r.seq > copied[p]

\* A step records one reply, newer than all, or none.
LEMMA ReplySteps ==
    ASSUME TypeInv, [Next]_vars
    PROVE  /\ said' = said \/ said' = said + 1
           /\ \A x \in Path : \/ replies'[x] = replies[x]
                              \/ replies'[x].seq = said + 1 /\ said' = said + 1
           /\ replies' # replies \/ said' # said => UNCHANGED <<pc, locals>>
<1>t. replies \in [Path -> Replies]
  BY DEF TypeInv, TypeOK
<1>1. CASE UNCHANGED <<replies, said>>
  BY <1>1
<1>2. CASE RecordReply
  <2>1. PICK r : /\ said' = said + 1
                 /\ replies' = [replies EXCEPT ![r.path] = [kind |-> r.kind, seq |-> said + 1,
                                                            newest |-> r.newest, until |-> r.until]]
    BY <1>2 DEF RecordReply
  <2>2. UNCHANGED <<pc, locals>>
    BY <1>2 DEF RecordReply
  <2> QED
    BY <1>t, <2>1, <2>2
<1>8. CASE OwnerStep \/ UNCHANGED vars
  BY <1>1, <1>2, <1>8 DEF OwnerStep, Tick, EditPolicy, Write, Remove, Use, ObserveReply, Resume, Undo, store, vars
<1>9. ASSUME NEW p \in Proc, ArchiveStep(p) \/ CycleStep(p) \/ RestoreStep(p) \/ Dies(p)
      PROVE  UNCHANGED <<replies, said>>
  BY <1>9 DEF ArchiveStep, CycleStep, RestoreStep, Start, ReadReplies, Observe, Publish,
     Manifest, Record, Inspect, RunEnds, Fails, Copy, Recheck, Load, TakesLock, Revalidate, Move, FinishMove, Expire,
     Applied, CycleEnds, FindReceipt, RestoreLocks, Withdraw, Extract, Dies, store
<1> QED
  BY <1>1, <1>8, <1>9, WhoActs

\* Time only ends a keep.
LEMMA KeptEarlier ==
    ASSUME TypeInv, [Next]_vars, NEW r \in Replies, ~Kept(r)
    PROVE  ~(r.kind = "keep" /\ (r.until = 0 \/ clock' < r.until))
<1>1. clock' = clock \/ clock' = clock + 1
  BY DEF Next, Tick, EditPolicy, RecordReply, Write, Remove, Use, ObserveReply, Resume, Undo, ArchiveStep, CycleStep,
     RestoreStep, Start, ReadReplies, Observe, Inspect, RunEnds, Fails, Copy, Recheck, Publish, Manifest,
     Record, Load, TakesLock, Revalidate, Move, FinishMove, Applied, Expire, CycleEnds, FindReceipt, RestoreLocks,
     Withdraw, Extract, Dies, owner, vars
<1>2. clock \in Nat /\ r.until \in Nat
  <2>1. clock \in 0..MaxClock /\ r.until \in 0..MaxClock + 1
    BY DEF TypeInv, TypeOK, Replies
  <2> QED
    BY <2>1, Bounds
<1> QED
  BY <1>1, <1>2 DEF Kept

\* A keep recorded after Load is newer than what the cycle heard; an older one excluded its path.
LEMMA NoKeepStep ==
    ASSUME TypeInv, NoKeep, [Next]_vars
    PROVE  NoKeep'
<1>t. /\ replies \in [Path -> Replies] /\ \A x \in Path : replies[x].seq \in Nat
      /\ said \in Nat /\ heard \in [Proc -> 0..MaxReplies] /\ \A p \in Proc : heard[p] \in Nat
      /\ auth \in [Proc -> SUBSET (1..MaxArchives)]
  <2>1. replies \in [Path -> Replies] /\ said \in 0..MaxReplies /\ heard \in [Proc -> 0..MaxReplies]
        /\ auth \in [Proc -> SUBSET (1..MaxArchives)]
    BY DEF TypeInv, TypeOK
  <2>2. \A r \in Replies : r.seq \in Nat
    BY Bounds DEF Replies
  <2> QED
    BY <2>1, <2>2, Bounds
<1>1. \A x \in Path : replies'[x].seq <= said'
  BY <1>t, ReplySteps DEF NoKeep
<1>2. ASSUME NEW p \in Proc
      PROVE  heard'[p] <= said'
  <2>1. heard'[p] = heard[p] \/ heard'[p] = said \/ heard'[p] = 0
    BY <1>t, RunSteps DEF Load
  <2> QED
    BY <1>t, <2>1, ReplySteps DEF NoKeep
<1>3. ASSUME NEW p \in Cycle, NEW i \in auth'[p], NEW x, x = archives'[i].path,
             replies'[x].seq <= heard'[p]
      PROVE  ~(replies'[x].kind = "keep" /\ (replies'[x].until = 0 \/ clock' < replies'[x].until))
  <2>0. p \in Proc /\ p \notin Restorer
    BY CategoryAssumption DEF Proc
  <2>1. CASE auth'[p] = auth[p] /\ heard'[p] = heard[p]
    <3>1. i \in DOMAIN archives
      BY <2>0, <2>1 DEF TypeInv, HasReceipt
    <3>2. x = archives[i].path /\ x \in Path
      BY <1>3, <3>1, ArchivesGrow, ArchivesAre DEF Grows, TypeInv, Archive
    <3>3. replies'[x] = replies[x]
      <4>1. heard[p] <= said /\ heard[p] \in Nat
        BY <1>t, <2>0 DEF NoKeep
      <4> QED
        BY <1>3, <1>t, <2>1, <3>2, <4>1, ReplySteps
    <3>4. ~Kept(replies[x]) /\ replies[x] \in Replies
      BY <1>3, <1>t, <2>1, <3>2, <3>3 DEF NoKeep
    <3> QED
      BY <3>3, <3>4, KeptEarlier
  <2>2. CASE Load(p)
    <3>1. UNCHANGED <<archives, replies, clock>> /\ auth'[p] = Authority(pol[p])
      BY <1>t, <2>0, <2>2 DEF Load, store, owner
    <3> QED
      BY <1>3, <3>1 DEF Authority, Kept
  <2>3. CASE auth'[p] = {}
    BY <1>3, <2>3
  <2> QED
    BY <2>0, <2>1, <2>2, <2>3, RunSteps
<1> QED
  BY <1>1, <1>2, <1>3 DEF NoKeep, Kept

\* Revalidate chooses by a receipt of the authority, which then stays until the move.
LEMMA OnAuthorityStep ==
    ASSUME TypeInv, OnAuthority, [Next]_vars
    PROVE  OnAuthority'
<1> SUFFICES ASSUME NEW q \in Proc, pc'[q] = "move"
             PROVE  item'[q].receipt \in auth'[q] /\ archives'[item'[q].receipt].path = item'[q].path
  BY DEF OnAuthority
<1>t. pc \in [Proc -> Steps] /\ item \in [Proc -> Items] /\ auth \in [Proc -> SUBSET (1..MaxArchives)]
  BY DEF TypeInv, TypeOK
<1>1. CASE pc[q] = "move" /\ item'[q] = item[q] /\ auth'[q] = auth[q]
  <2>1. item[q].receipt \in DOMAIN archives
    BY <1>1 DEF OnAuthority, TypeInv, HasReceipt
  <2> QED
    BY <1>1, <2>1, ArchivesGrow DEF OnAuthority, Grows
<1>2. CASE Revalidate(q)
  <2>1. PICK i \in auth[q] :
           item' = [item EXCEPT ![q] = [NoItem EXCEPT !.path = archives[i].path, !.receipt = i]]
    BY <1>2 DEF Revalidate
  <2>2. item'[q].receipt = i /\ item'[q].path = archives[i].path
    BY <1>t, <2>1 DEF NoItem
  <2>3. UNCHANGED <<archives, auth>>
    BY <1>2 DEF Revalidate, store
  <2> QED
    BY <2>2, <2>3
<1>3. CASE OwnerStep \/ UNCHANGED vars
  BY <1>1, <1>3 DEF OwnerStep, Tick, EditPolicy, RecordReply, Write, Remove, Use, ObserveReply, Resume, Undo, locals, vars
<1>4. ASSUME NEW p \in Proc, p # q, ArchiveStep(p) \/ CycleStep(p) \/ RestoreStep(p) \/ Dies(p)
      PROVE  item'[q].receipt \in auth'[q] /\ archives'[item'[q].receipt].path = item'[q].path
  BY <1>1, <1>4, OthersStand
<1>5. ~ArchiveStep(q)
  BY <1>t DEF ArchiveStep, Start, ReadReplies, Observe, Inspect, RunEnds, Fails, Copy, Recheck,
     Publish, Manifest, Record, At, Goto
<1>6. CASE CycleStep(q)
  BY <1>t, <1>2, <1>6 DEF CycleStep, Load, TakesLock, Move, FinishMove, Applied, Expire, CycleEnds, At, Goto
<1>7. ~RestoreStep(q) /\ ~Dies(q)
  BY <1>t DEF RestoreStep, FindReceipt, RestoreLocks, Withdraw, Extract, Dies, At, Goto
<1> QED
  BY <1>3, <1>4, <1>5, <1>6, <1>7, WhoActs

\* Recheck reads the replies after the copy ended; a later reply is newer than that end.
LEMMA NotSupersededStep ==
    ASSUME TypeInv, NoKeep, NotSuperseded, [Next]_vars
    PROVE  NotSuperseded'
<1> DEFINE N(q) == /\ copied'[q] <= said'
                   /\ pc'[q] = "publish" /\ item'[q].release # 0 =>
                         LET r == replies'[item'[q].path] IN r.seq = item'[q].release \/ r.seq > copied'[q]
<1> SUFFICES ASSUME NEW q \in Proc
             PROVE  N(q)
  BY DEF NotSuperseded
<1>t. /\ pc \in [Proc -> Steps] /\ item \in [Proc -> Items] /\ copied \in [Proc -> 0..MaxReplies]
      /\ copied[q] \in Nat /\ said \in Nat /\ said' \in Nat /\ item[q].path \in Path
  <2>1. /\ pc \in [Proc -> Steps] /\ item \in [Proc -> Items] /\ copied \in [Proc -> 0..MaxReplies]
        /\ said \in 0..MaxReplies
    BY DEF TypeInv, TypeOK
  <2>2. said' \in 0..MaxReplies
    BY OwnerTyped
  <2> QED
    BY <2>1, <2>2, Bounds DEF Items
<1>1. CASE pc'[q] = pc[q] /\ item'[q] = item[q] /\ copied'[q] = copied[q]
  BY <1>1, <1>t, ReplySteps DEF NotSuperseded
<1>2. CASE pc'[q] # "publish" /\ (copied'[q] = copied[q] \/ copied'[q] = 0 \/ copied'[q] = said)
  BY <1>2, <1>t, ReplySteps DEF NotSuperseded
<1>3. CASE Recheck(q)
  <2>1. item[q].release # 0 => replies[item[q].path].seq = item[q].release
    BY <1>3 DEF Recheck, Preflight
  <2>2. UNCHANGED <<item, copied, replies, said>>
    BY <1>3 DEF Recheck, store, locals
  <2> QED
    BY <1>t, <2>1, <2>2 DEF NotSuperseded
<1>4. CASE OwnerStep \/ UNCHANGED vars
  BY <1>1, <1>4 DEF OwnerStep, Tick, EditPolicy, RecordReply, Write, Remove, Use, ObserveReply, Resume, Undo, locals, vars
<1>5. ASSUME NEW p \in Proc, p # q, ArchiveStep(p) \/ CycleStep(p) \/ RestoreStep(p) \/ Dies(p)
      PROVE  N(q)
  BY <1>1, <1>5, OthersStand
<1>6. CASE ArchiveStep(q)
  <2>1. CASE Inspect(q)
    BY <1>1, <1>2, <1>t, <2>1 DEF Inspect, At, Goto
  <2>2. CASE Copy(q)
    BY <1>2, <1>t, <2>2 DEF Copy, Goto
  <2>3. CASE RunEnds(q) \/ Fails(q) \/ Record(q)
    BY <1>2, <1>t, <2>3 DEF RunEnds, Fails, Record, ForgetRun, Goto
  <2> QED
    BY <1>2, <1>3, <1>6, <1>t, <2>1, <2>2, <2>3 DEF ArchiveStep, Start, ReadReplies, Observe, Publish, Manifest,
       At, Goto, locals
<1>7. CASE CycleStep(q)
  BY <1>1, <1>2, <1>7, <1>t DEF CycleStep, Load, TakesLock, Revalidate, Move, FinishMove, Applied, Expire, CycleEnds,
     At, Goto, Forget, ForgetRun, locals
<1>8. CASE RestoreStep(q) \/ Dies(q)
  BY <1>2, <1>8, <1>t DEF RestoreStep, FindReceipt, RestoreLocks, Withdraw, Extract, Dies, At, Goto,
     Forget, ForgetRun, locals
<1> QED
  BY <1>4, <1>5, <1>6, <1>7, <1>8, WhoActs

\* No reply is recorded at first.
LEMMA RepliesStart == ASSUME Init PROVE NoKeep /\ OnAuthority /\ NotSuperseded
<1>1. NoKeep
  BY DEF Init, NoKeep, Proc, NoReply
<1>2. OnAuthority /\ NotSuperseded
  BY DEF Init, OnAuthority, NotSuperseded
<1> QED
  BY <1>1, <1>2

\* Against a keep in force only what the cycle learnt before that keep is moved or deleted.
LEMMA KeepHolds ==
    ASSUME TypeInv, NoKeep, OnAuthority, [Next]_vars, NEW x \in Path, Kept(replies[x]),
           Deletes(x) \/ \E p \in Cycle : Moves(p, x)
    PROVE  \E p \in Cycle : lock = p /\ replies[x].seq > heard[p]
<1>1. ASSUME NEW p \in Cycle, NEW i \in auth[p], archives[i].path = x, lock = p
      PROVE  \E c \in Cycle : lock = c /\ replies[x].seq > heard[c]
  <2>1. ~(replies[x].seq <= heard[p])
    BY <1>1 DEF NoKeep
  <2>2. replies[x].seq \in Nat /\ heard[p] \in Nat
    <3>1. replies[x] \in Replies /\ heard[p] \in 0..MaxReplies
      BY DEF TypeInv, TypeOK, Proc
    <3> QED
      BY <3>1, Bounds DEF Replies
  <2> QED
    BY <1>1, <2>1, <2>2
<1>2. CASE Deletes(x)
  <2>1. PICK p \in Cycle : /\ lock = p
                           /\ \E i \in auth[p] :
                                 gone' = gone \cup {[path |-> archives[i].path, made |-> away[archives[i].path].made]}
    BY <1>2, ByExpiry DEF Deletes
  <2>2. PICK i \in auth[p] :
           gone' = gone \cup {[path |-> archives[i].path, made |-> away[archives[i].path].made]}
    BY <2>1
  <2>3. archives[i].path = x
    BY <1>2, <2>2 DEF Deletes
  <2> QED
    BY <1>1, <2>1, <2>3
<1>3. ASSUME NEW p \in Cycle, Moves(p, x)
      PROVE  \E c \in Cycle : lock = c /\ replies[x].seq > heard[c]
  <2>1. pc[p] = "move" /\ item[p].path = x /\ p \in Proc
    BY <1>3 DEF Moves, At, Proc
  <2>2. lock = p /\ item[p].receipt \in auth[p] /\ archives[item[p].receipt].path = x
    BY <2>1 DEF OnAuthority, TypeInv, TypeOK, Locked
  <2> QED
    BY <1>1, <2>2
<1> QED
  BY <1>2, <1>3

\* A keep in force when the cycle derived its authority holds through its quarantine and its
\* expiry (archive_categories.go:80-95, stale_report.go:299-318).
THEOREM KeepIsRespected == Spec => KeepIsHonoured
<1> DEFINE I == TypeInv /\ NoKeep /\ OnAuthority
           A == \A x \in Path :
                   Kept(replies[x]) /\ (Deletes(x) \/ \E p \in Cycle : Moves(p, x)) =>
                       \E p \in Cycle : lock = p /\ replies[x].seq > heard[p]
<1>1. Init => I
  BY TypeInvStarts, RepliesStart
<1>2. I /\ [Next]_vars => I'
  BY TypeInvStep, NoKeepStep, OnAuthorityStep
<1>3. I /\ [Next]_vars => [A]_vars
  BY KeepHolds
<1> HIDE DEF I
<1> QED
  BY <1>1, <1>2, <1>3, PTL DEF Spec, KeepIsHonoured

\* An archive is published under a release only when the release was not superseded before
\* the copy of its item ended (stale_report.go:334-349).
THEOREM ReleaseIsCurrent == Spec => SupersededIsNotArchived
<1> DEFINE I == TypeInv /\ NoKeep /\ NotSuperseded
           A == \A p \in Cycle :
                   At(p, "publish") /\ archives' # archives /\ item[p].release # 0 =>
                       LET r == replies[item[p].path] IN r.seq = item[p].release \/ r.seq > copied[p]
<1>1. Init => I
  BY TypeInvStarts, RepliesStart
<1>2. I /\ [Next]_vars => I'
  BY TypeInvStep, NoKeepStep, NotSupersededStep
<1>3. I /\ [Next]_vars => [A]_vars
  BY DEF NotSuperseded, At, Proc
<1> HIDE DEF I
<1> QED
  BY <1>1, <1>2, <1>3, PTL DEF Spec, SupersededIsNotArchived

=============================================================================
